------------------------------ MODULE SplitPump ------------------------------
(***************************************************************************)
(* splitN and splitBy of packages/anabranch/stream/stream-impl.ts: one     *)
(* pump reads the source and feeds several branches, each a                *)
(* _ChannelSource.  The branches are taken at the level of BoundedChannel, *)
(* which ChannelSource implements, plus waitForCapacity; the pump is their *)
(* only sender.                                                            *)
(***************************************************************************)
EXTENDS Integers, Sequences, FiniteSets, SequencesExt

CONSTANTS NumBranches,  \* n of splitN, the number of keys of splitBy
          BufferSize,   \* Math.max(1, bufferSize)
          NumItems      \* items the source yields before it ends

Branches == 1..NumBranches

VARIABLES mode,     \* "splitN" or "splitBy", "none" before the call
          pump,     \* "none", "pull", "key" (in cb), "capacity" (in Promise.all), "send", "done"
          pulled,   \* items the source has yielded
          item,     \* the result the pump holds: [type, n], n its number
          to,       \* branch to send to next
          capWait,  \* branches whose waitForCapacity() is pending
          buffer,   \* per branch: accepted, not yet taken
          closed,   \* per branch
          left,     \* per branch: its consumer broke out of the loop
          got,      \* history, per branch: accepted items
          keyOf,    \* history, splitBy: the branch cb chose for an item, 0 for none
          signal    \* "armed" or "fired"

vars == <<mode, pump, pulled, item, to, capWait, buffer, closed, left, got, keyOf, signal>>

-----------------------------------------------------------------------------
AllClosed == \A b \in Branches : closed[b]

Full(b) == Len(buffer[b]) >= BufferSize

\* fail() on every branch: the room does not matter, a closed branch drops it.
Broadcast(x) ==
    /\ buffer' = [b \in Branches |-> IF closed[b] THEN buffer[b] ELSE Append(buffer[b], x)]
    /\ got' = [b \in Branches |-> IF closed[b] THEN got[b] ELSE Append(got[b], x)]

SendTo(b, x) ==
    /\ buffer' = [buffer EXCEPT ![b] = IF closed[b] THEN @ ELSE Append(@, x)]
    /\ got' = [got EXCEPT ![b] = IF closed[b] THEN @ ELSE Append(@, x)]

WaitForCapacity == capWait' = {b \in Branches : ~closed[b] /\ Full(b)}

Error(n) == [type |-> "error", n |-> n]
Value(n) == [type |-> "success", n |-> n]

CloseAll == closed' = [b \in Branches |-> TRUE] /\ capWait' = {}

Init == /\ mode = "none" /\ pump = "none" /\ pulled = 0
        /\ item = Value(0) /\ to = 1 /\ capWait = {}
        /\ buffer = [b \in Branches |-> <<>>]
        /\ got = [b \in Branches |-> <<>>]
        /\ left = [b \in Branches |-> FALSE]
        /\ keyOf = <<>>
        /\ signal = "armed"
        /\ closed = [b \in Branches |-> FALSE]

\* splitN() or splitBy(), maybe with a signal that is aborted already.
Begin == /\ mode = "none" /\ mode' \in {"splitN", "splitBy"}
         /\ pump' = "pull"
         /\ signal' \in {"armed", "fired"}
         /\ closed' = [b \in Branches |-> signal' = "fired"]
         /\ UNCHANGED <<pulled, item, to, capWait, buffer, left, got, keyOf>>

-----------------------------------------------------------------------------
(* The pump. *)

\* The source yields: the pump stops if no branch is left, waits for room on all
\* of them, or in splitBy asks cb for the branch of a value.
SourceYields ==
    /\ pump = "pull" /\ pulled < NumItems
    /\ pulled' = pulled + 1
    /\ \E x \in {Value(pulled + 1), Error(pulled + 1)} :
          /\ item' = x
          /\ IF AllClosed
             THEN pump' = "done" /\ CloseAll
             ELSE /\ UNCHANGED closed
                  /\ IF mode = "splitBy" /\ x.type = "success"
                     THEN pump' = "key" /\ UNCHANGED capWait
                     ELSE pump' = "capacity" /\ WaitForCapacity
    /\ to' = 1
    /\ keyOf' = Append(keyOf, 0)
    /\ UNCHANGED <<mode, buffer, got, left, signal>>

SourceEnds == /\ pump = "pull" /\ pulled = NumItems
              /\ pump' = "done"
              /\ CloseAll
              /\ UNCHANGED <<mode, pulled, item, to, buffer, got, keyOf, left, signal>>

\* A source that throws gives every branch a PumpError, then the end.
SourceThrows == /\ pump = "pull"
                /\ pump' = "done"
                /\ Broadcast(Error(0))
                /\ CloseAll
                /\ UNCHANGED <<mode, pulled, item, to, keyOf, left, signal>>

\* splitBy: cb settles.  A key that names no branch, or a cb that throws, is an
\* error for every branch.
KeyChosen ==
    /\ pump = "key"
    /\ \/ \E b \in Branches :
             /\ pump' = "send" /\ to' = b
             /\ keyOf' = [keyOf EXCEPT ![item.n] = b]
             /\ UNCHANGED <<item, capWait>>
       \/ /\ pump' = "capacity"
          /\ item' = Error(item.n)
          /\ WaitForCapacity
          /\ UNCHANGED <<to, keyOf>>
    /\ UNCHANGED <<mode, pulled, buffer, closed, got, left, signal>>

\* Every branch had room at some time, or is closed: the error goes to all of
\* them at once, a value to one branch after the other.
HaveCapacity ==
    /\ pump = "capacity" /\ capWait = {}
    /\ \/ /\ item.type = "error"
          /\ Broadcast(item)
          /\ pump' = "pull"
       \/ /\ item.type = "success"
          /\ pump' = "send"
          /\ UNCHANGED <<buffer, got>>
    /\ UNCHANGED <<mode, pulled, item, to, capWait, closed, keyOf, left, signal>>

\* Fault: a value for a branch that is full is dropped.
Send_Tries ==
    /\ pump = "send"
    /\ IF Full(to) THEN UNCHANGED <<buffer, got>> ELSE SendTo(to, item)
    /\ IF mode = "splitN" /\ to < NumBranches
       THEN to' = to + 1 /\ UNCHANGED pump
       ELSE pump' = "pull" /\ UNCHANGED to
    /\ UNCHANGED <<mode, pulled, item, capWait, closed, keyOf, left, signal>>

\* await s.send(): it waits while the branch is open and full.
Send ==
    /\ pump = "send"
    /\ closed[to] \/ ~Full(to)
    /\ SendTo(to, item)
    /\ IF mode = "splitN" /\ to < NumBranches
       THEN to' = to + 1 /\ UNCHANGED pump
       ELSE pump' = "pull" /\ UNCHANGED to
    /\ UNCHANGED <<mode, pulled, item, capWait, closed, keyOf, left, signal>>

-----------------------------------------------------------------------------
(* The consumers of the branches, and the signal of SplitOptions. *)

Take(b) == /\ ~left[b] /\ buffer[b] # <<>>
           /\ buffer' = [buffer EXCEPT ![b] = Tail(@)]
           /\ capWait' = capWait \ {b}
           /\ UNCHANGED <<mode, pump, pulled, item, to, closed, got, keyOf, left, signal>>

\* Fault: a branch that is left does not release the pump.
Leave_KeepsPump(b) ==
    /\ ~left[b] /\ Len(got[b]) > Len(buffer[b])
    /\ left' = [left EXCEPT ![b] = TRUE]
    /\ closed' = [closed EXCEPT ![b] = TRUE]
    /\ UNCHANGED <<mode, pump, pulled, item, to, capWait, buffer, got, keyOf, signal>>

\* The consumer of b breaks after it has taken an item: its generator closes b.
Leave(b) == /\ ~left[b] /\ Len(got[b]) > Len(buffer[b])
            /\ left' = [left EXCEPT ![b] = TRUE]
            /\ closed' = [closed EXCEPT ![b] = TRUE]
            /\ capWait' = capWait \ {b}
            /\ UNCHANGED <<mode, pump, pulled, item, to, buffer, got, keyOf, signal>>

Abort == /\ mode # "none" /\ signal = "armed" /\ ~AllClosed
         /\ signal' = "fired"
         /\ CloseAll
         /\ UNCHANGED <<mode, pump, pulled, item, to, buffer, left, got, keyOf>>

Next == \/ Begin \/ SourceYields \/ SourceEnds \/ SourceThrows \/ KeyChosen \/ HaveCapacity \/ Send
        \/ \E b \in Branches : Take(b) \/ Leave(b)
        \/ Abort

Spec == Init /\ [][Next]_vars

\* The source and cb settle, the pump runs when it can, and every branch has a
\* consumer that takes what is there.
Fairness == /\ WF_vars(SourceYields \/ SourceEnds \/ KeyChosen \/ HaveCapacity \/ Send)
            /\ \A b \in Branches : WF_vars(Take(b))

FairSpec == Spec /\ Fairness

-----------------------------------------------------------------------------
(* Properties. *)

Numbers(s) == [i \in DOMAIN s |-> s[i].n]

TypeOK == /\ mode \in {"none", "splitN", "splitBy"}
          /\ pump \in {"none", "pull", "key", "capacity", "send", "done"}
          /\ pulled \in 0..NumItems /\ to \in Branches
          /\ item \in [type : {"success", "error"}, n : 0..NumItems]
          /\ capWait \subseteq Branches
          /\ \A b \in Branches : IsSuffix(buffer[b], got[b])
          /\ closed \in [Branches -> BOOLEAN] /\ left \in [Branches -> BOOLEAN]
          /\ keyOf \in [1..pulled -> 0..NumBranches]
          /\ signal \in {"armed", "fired"}

\* splitN gives every branch the source from its first item on, without a gap, with
\* the error of a pump that failed behind it; and no branch is an item ahead of an
\* open one though the pump sends to them one after the other.
BranchesSeeThePrefix ==
    mode = "splitN" =>
        \A b \in Branches :
            /\ \A i \in DOMAIN got[b] :
                  \/ got[b][i].n = i
                  \/ closed[b] /\ i = Len(got[b]) /\ got[b][i] = Error(0)
            /\ ~closed[b] => Len(got[b]) >= pulled - 1
            /\ pump = "pull" /\ ~closed[b] => Len(got[b]) = pulled

\* splitBy gives a value to the branch of its key and to no other, in the order
\* of the source, and an error to every open branch in its place.
BranchesSeeTheirKeys ==
    mode = "splitBy" =>
        \A b \in Branches :
            /\ \A i, j \in DOMAIN got[b] : i < j /\ got[b][j].n # 0 => got[b][i].n < got[b][j].n
            /\ \A i \in DOMAIN got[b] :
                  got[b][i].n # 0 => keyOf[got[b][i].n] = IF got[b][i].type = "success" THEN b ELSE 0
            /\ pump = "pull" /\ ~closed[b] =>
                  ToSet(Numbers(got[b])) = {n \in 1..pulled : keyOf[n] \in {0, b}}

\* A slow branch holds the source back: the pump waits for its room before it
\* asks for more, so values never pile up beyond the buffer.
SlowBranchHoldsBack ==
    \A b \in Branches :
        /\ Cardinality({i \in DOMAIN buffer[b] : buffer[b][i].type = "success"}) <= BufferSize
        /\ mode = "splitN" /\ ~closed[b] =>
               pulled - (Len(got[b]) - Len(buffer[b])) <= BufferSize + 1

\* If its branches are consumed or left the pump comes to its end and every branch
\* is closed: a branch that is left half way never blocks the others.
PumpEnds == pump # "none" ~> /\ pump = "done" /\ AllClosed
                             /\ \A b \in Branches : left[b] \/ buffer[b] = <<>>

\* stream.ts:618 of SplitOptions.signal: "When aborted, all split channels close
\* and the pump stops": it asks the source for nothing more.
AbortStopsPump == [][signal = "fired" => pulled' = pulled]_vars

=============================================================================
