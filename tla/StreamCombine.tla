---------------------------- MODULE StreamCombine ----------------------------
(***************************************************************************)
(* merge and zip of packages/anabranch/stream/stream-impl.ts: one consumer *)
(* of two generators.  A generator that is asked answers later; return()   *)
(* of a generator that owes an answer waits until it has given it.         *)
(***************************************************************************)
EXTENDS Integers, Sequences, FiniteSets, SequencesExt

CONSTANT MaxItems   \* bound: results of a source

Sides == {"left", "right"}

VARIABLES mode,      \* "merge" or "zip", "none" until the stream is iterated
          stage,     \* of the loop: "none", "ask", "wait", "yield", "closing", "done"
          gen,       \* per side: "idle", "asked", "ended"
          answer,    \* per side: what next() settled with and the loop has not looked at
          buffered,  \* per side: the success zip keeps for the next round
          racing,    \* merge: the keys of the map pending
          pending,   \* outputs to yield
          given,     \* outputs the consumer has taken
          pulled,    \* history, per side: the results it has yielded
          left       \* history: the consumer broke out of the loop

vars == <<mode, stage, gen, answer, buffered, racing, pending, given, pulled, left>>

None == [type |-> "none"]
Done == [type |-> "done"]
Thrown == [type |-> "thrown"]
\* A rejection whose reason is falsy, as of a bare throw of undefined.
Void == [type |-> "void"]
Result(type, s, n) == [type |-> type, side |-> s, n |-> n]

-----------------------------------------------------------------------------
Init == /\ mode = "none" /\ stage = "none"
        /\ gen = [s \in Sides |-> "idle"]
        /\ answer = [s \in Sides |-> None]
        /\ buffered = [s \in Sides |-> None]
        /\ racing = {} /\ pending = <<>> /\ given = <<>>
        /\ pulled = [s \in Sides |-> <<>>]
        /\ left = FALSE

StartMerge == /\ mode = "none"
              /\ mode' = "merge" /\ stage' = "wait"
              /\ racing' = Sides
              /\ gen' = [s \in Sides |-> "asked"]
              /\ UNCHANGED <<answer, buffered, pending, given, pulled, left>>

StartZip == /\ mode = "none"
            /\ mode' = "zip" /\ stage' = "ask"
            /\ UNCHANGED <<gen, answer, buffered, racing, pending, given, pulled, left>>

\* zip asks each side, or takes the value that it has kept for it.
ZipAsks ==
    /\ mode = "zip" /\ stage = "ask"
    /\ stage' = "wait"
    /\ gen' = [s \in Sides |-> IF buffered[s] = None THEN "asked" ELSE gen[s]]
    /\ answer' = buffered
    /\ buffered' = [s \in Sides |-> None]
    /\ UNCHANGED <<mode, racing, pending, given, pulled, left>>

\* The generator of a side yields, ends or throws.
Answers(s) ==
    /\ gen[s] = "asked"
    /\ \/ /\ Len(pulled[s]) < MaxItems
          /\ \E type \in {"success", "error"} :
                LET x == Result(type, s, Len(pulled[s]) + 1)
                IN  answer' = [answer EXCEPT ![s] = x] /\ pulled' = [pulled EXCEPT ![s] = Append(@, x)]
          /\ gen' = [gen EXCEPT ![s] = "idle"]
       \/ /\ \E x \in {Done, Thrown, Void} : answer' = [answer EXCEPT ![s] = x]
          /\ gen' = [gen EXCEPT ![s] = "ended"]
          /\ UNCHANGED pulled
    /\ UNCHANGED <<mode, stage, buffered, racing, pending, given, left>>

-----------------------------------------------------------------------------
IsError(x) == x.type = "error"

\* The loop of zip: an end or a throw of one side ends it; two values make a pair; an
\* error is given out and the value at its side kept.
ZipRound ==
    /\ mode = "zip" /\ stage = "wait"
    /\ LET l == answer["left"]
           r == answer["right"]
       IN \/ /\ \E s \in Sides : answer[s] \in {Thrown, Void}
             /\ stage' = "closing"
             /\ UNCHANGED <<answer, buffered, pending>>
          \/ /\ \A s \in Sides : answer[s] \notin {None, Thrown, Void}
             /\ answer' = [s \in Sides |-> None]
             /\ \/ /\ Done \in {l, r}
                   /\ stage' = "closing"
                   /\ UNCHANGED <<buffered, pending>>
                \/ /\ Done \notin {l, r}
                   /\ stage' = "yield"
                   /\ \/ /\ {l.type, r.type} = {"success"}
                         /\ pending' = <<[type |-> "success", pair |-> <<l, r>>]>>
                         /\ UNCHANGED buffered
                      \/ /\ "error" \in {l.type, r.type}
                         /\ pending' = IF l.type = r.type THEN <<l, r>>
                                       ELSE IF IsError(l) THEN <<l>> ELSE <<r>>
                         /\ buffered' = [s \in Sides |->
                                          IF IsError(answer[s]) THEN None ELSE answer[s]]
    /\ UNCHANGED <<mode, gen, racing, given, pulled, left>>

\* Fault: the side that has answered is taken out of the race.
MergeRound_Forgets ==
    /\ mode = "merge" /\ stage = "wait"
    /\ \E s \in racing :
          /\ answer[s] # None
          /\ answer' = [answer EXCEPT ![s] = None]
          /\ racing' = racing \ {s}
          /\ IF answer[s].type \in {"success", "error"}
             THEN pending' = <<answer[s]>> /\ stage' = "yield"
             ELSE pending' = <<>> /\ stage' = IF racing' = {} THEN "closing" ELSE "wait"
    /\ UNCHANGED <<mode, gen, buffered, given, pulled, left>>

\* The loop of merge takes one side that has answered; one that threw is an error and
\* is not asked again, and if it threw nothing the loop itself throws.
MergeRound ==
    /\ mode = "merge" /\ stage = "wait"
    /\ \E s \in racing :
          /\ answer[s] # None
          /\ answer' = IF answer[s] = Void THEN answer ELSE [answer EXCEPT ![s] = None]
          /\ \/ /\ answer[s].type \in {"success", "error"}
                /\ pending' = <<answer[s]>> /\ stage' = "yield"
                /\ UNCHANGED racing
             \/ /\ answer[s] = Thrown
                /\ pending' = <<[type |-> "error", side |-> s, n |-> 0]>> /\ stage' = "yield"
                /\ racing' = racing \ {s}
             \/ /\ answer[s] = Done
                /\ racing' = racing \ {s}
                /\ stage' = IF racing' = {} THEN "closing" ELSE "wait"
                /\ UNCHANGED pending
             \/ /\ answer[s] = Void
                /\ stage' = "closing"
                /\ UNCHANGED <<racing, pending>>
    /\ UNCHANGED <<mode, gen, buffered, given, pulled, left>>

\* The consumer takes an output and comes back: zip goes round, merge asks the side
\* again that the output came from.
Resume ==
    /\ stage = "yield"
    /\ given' = Append(given, Head(pending))
    /\ pending' = Tail(pending)
    /\ IF Len(pending) > 1 THEN stage' = "yield" /\ UNCHANGED gen
       ELSE IF mode = "zip" THEN stage' = "ask" /\ UNCHANGED gen
       ELSE LET s == Head(pending).side IN
            /\ gen' = [gen EXCEPT ![s] = IF s \in racing THEN "asked" ELSE @]
            /\ stage' = IF racing = {} THEN "closing" ELSE "wait"
    /\ UNCHANGED <<mode, answer, buffered, racing, pulled, left>>

Leave == /\ stage = "yield"
         /\ given' = Append(given, Head(pending))
         /\ pending' = <<>>
         /\ stage' = "closing" /\ left' = TRUE
         /\ UNCHANGED <<mode, gen, answer, buffered, racing, pulled>>

\* The finally block returns both generators and waits for them.
Close == /\ stage = "closing"
         /\ \A s \in Sides : gen[s] # "asked"
         /\ gen' = [s \in Sides |-> "ended"]
         /\ stage' = "done"
         /\ UNCHANGED <<mode, answer, buffered, racing, pending, given, pulled, left>>

Next == \/ StartMerge \/ StartZip \/ ZipAsks \/ ZipRound \/ MergeRound \/ Resume \/ Leave \/ Close
        \/ \E s \in Sides : Answers(s)

Spec == Init /\ [][Next]_vars

Fairness == /\ WF_vars(ZipAsks \/ ZipRound \/ MergeRound \/ Close)
            /\ WF_vars(Resume \/ Leave)
            /\ \A s \in Sides : WF_vars(Answers(s))

-----------------------------------------------------------------------------
TypeOK == /\ stage \in {"none", "ask", "wait", "yield", "closing", "done"}
          /\ gen \in [Sides -> {"idle", "asked", "ended"}]
          /\ racing \subseteq Sides
          /\ \A s \in Sides : buffered[s] = None \/ buffered[s] = Last(pulled[s])

Given == given \o pending

\* The number that i has in S, counted from one.
Rank(S, i) == Cardinality({j \in S : j <= i})

\* The places in the outputs g of what side s has yielded, of its errors, and of pairs.
From(g, s) == {i \in DOMAIN g : g[i].side = s /\ g[i].n > 0}
Errors(g, s) == {i \in DOMAIN g : g[i].type = "error" /\ g[i].side = s}
Pairs(g) == {i \in DOMAIN g : g[i].type = "success"}

Member(x, s) == x.pair[IF s = "left" THEN 1 ELSE 2]

\* The numbers of the results of a type that s has yielded.
Yielded(s, type) == {n \in DOMAIN pulled[s] : pulled[s][n].type = type}

\* x is the k-th result of that type that s has yielded.
IsNth(x, s, type, k) ==
    /\ x.n \in Yielded(s, type) /\ x = pulled[s][x.n]
    /\ Rank(Yielded(s, type), x.n) = k

IsResult(x) == x.type \in {"success", "error"}

\* merge: what came from a side is what the side has yielded, in its order, but for an
\* answer that is still to be looked at.
SidesKeepTheirOrder ==
    mode = "merge" =>
        \A s \in Sides :
            /\ \A i \in From(Given, s) : Given[i] = pulled[s][Rank(From(Given, s), i)]
            /\ Cardinality(From(Given, s))
                  = IF IsResult(answer[s]) THEN Len(pulled[s]) - 1 ELSE Len(pulled[s])

\* zip: the k-th pair is made of the k-th values of both sides, however many errors
\* came in between, and no error is given out twice or out of order.
PairsAreAligned ==
    mode = "zip" =>
        \A s \in Sides :
            /\ \A i \in Pairs(Given) : IsNth(Member(Given[i], s), s, "success", Rank(Pairs(Given), i))
            /\ \A i \in Errors(Given, s) : IsNth(Given[i], s, "error", Rank(Errors(Given, s), i))

\* merge ends by itself when both sides have, and then has given all that they yielded;
\* unless a side threw nothing, at which the loop fails.
MergeIsComplete ==
    mode = "merge" /\ stage = "closing" /\ ~left /\ (\A s \in Sides : answer[s] # Void) =>
        \A s \in Sides : /\ gen[s] = "ended"
                        /\ Cardinality(From(given, s)) = Len(pulled[s])

CombinedInOrder == SidesKeepTheirOrder /\ MergeIsComplete /\ PairsAreAligned

\* Whoever leaves, and however a side ends: both sources end, and so does the stream.
BothSidesEnd == mode # "none" ~> (stage = "done" /\ \A s \in Sides : gen[s] = "ended")

\* zip loses nothing: what a side has yielded is given out as soon as the stream ends.
NothingIsDropped ==
    mode = "zip" /\ stage = "done" /\ ~left =>
        \A s \in Sides : Cardinality(Errors(Given, s)) = Cardinality(Yielded(s, "error"))

=============================================================================
