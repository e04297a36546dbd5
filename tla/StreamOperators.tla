--------------------------- MODULE StreamOperators ---------------------------
(***************************************************************************)
(* The operators of packages/anabranch/stream/stream-impl.ts that read one *)
(* generator and await their callback in between: map, filter, tap, take,  *)
(* takeWhile, scan, chunks, flatMap and their counterparts for errors, and *)
(* the terminal ones (collect, fold, ...).  A run picks one operator; the  *)
(* values of callbacks are abstracted to how they settle.                  *)
(***************************************************************************)
EXTENDS Integers, Sequences, FiniteSets, SequencesExt

CONSTANTS MaxItems,   \* bound: results the source yields
          ChunkSize,  \* size of chunks()
          Limit       \* n of take()

OnValues == {"map", "filter", "tap", "takeWhile", "scan", "flatMap", "concurrentFlatMap", "fold"}
OnErrors == {"mapErr", "filterErr", "tapErr", "scanErr", "foldErr", "recover", "recoverWhen", "throwOn"}
Plain == {"take", "chunks", "toArray", "collect", "partition", "successes", "errors"}
\* Functions that consume the stream: nobody can leave in the middle.
Terminal == {"fold", "foldErr", "toArray", "collect", "partition"}

VARIABLES op,       \* the operator, "none" until the stream is built
          stage,    \* of its loop: "pull", "held", "yield", "return", "throw"; "done", "threw", "left"
          input,    \* results pulled from the source
          source,   \* its generator: "open", "ended", "returned", "threw"
          pending,  \* outputs the generator yields before it goes on
          next,     \* where it goes on then
          index,    \* arrivalIndex, errorIndex, recoveryIndex
          acc,      \* accumulator of scan and fold: the items in it
          chunk,    \* items of the unfinished chunk
          out,      \* what the consumer got
          fate      \* history: how the callback settled for each result

vars == <<op, stage, input, source, pending, next, index, acc, chunk, out, fate>>
callbackVars == <<index, acc, chunk>>

-----------------------------------------------------------------------------
Held == input[Len(input)]
Success(items) == [type |-> "success", of |-> items]
Error(items) == [type |-> "error", of |-> items]
Failed == Error(Held.of)

Yields(outputs, goOn) ==
    /\ pending' = outputs /\ next' = goOn
    /\ stage' = IF outputs = <<>> THEN goOn ELSE "yield"

Emits(outputs) == Yields(outputs, "pull")
Stops == Yields(<<>>, "return")
Throws == Yields(<<>>, "throw")

\* A result of the other kind goes through as it is.
Pass(type) == /\ Held.type = type
              /\ Emits(<<Held>>)
              /\ fate' = Append(fate, "passed")
              /\ UNCHANGED callbackVars

Skip(type) == /\ Held.type = type
              /\ Emits(<<>>)
              /\ fate' = Append(fate, "no")
              /\ UNCHANGED callbackVars

\* The callback is called with the next index, and settles.
Call(type, how) == /\ Held.type = type
                   /\ index' = index + 1
                   /\ fate' = Append(fate, how)
                   /\ UNCHANGED <<acc, chunk>>

\* The same for a callback whose value is the new accumulator.
Accumulate(type) == /\ Held.type = type
                    /\ index' = index + 1
                    /\ acc' = acc \o Held.of
                    /\ fate' = Append(fate, "ok")
                    /\ UNCHANGED chunk

Init == /\ op = "none" /\ stage = "none"
        /\ input = <<>> /\ source = "open"
        /\ pending = <<>> /\ next = "pull"
        /\ index = 0 /\ acc = <<>> /\ chunk = <<>>
        /\ out = <<>> /\ fate = <<>>

\* The stream is built and its first result asked for; take(0) asks for none.
Iterate == /\ op = "none"
           /\ op' \in OnValues \cup OnErrors \cup Plain
           /\ stage' = IF op' = "take" /\ Limit <= 0 THEN "done" ELSE "pull"
           /\ source' = IF op' = "take" /\ Limit <= 0 THEN "returned" ELSE "open"
           /\ UNCHANGED <<input, pending, next, callbackVars, out, fate>>

-----------------------------------------------------------------------------
(* The loop over the source. *)

SourceYields == /\ stage = "pull" /\ Len(input) < MaxItems
                /\ \E result \in {Success(<<Len(input) + 1>>), Error(<<Len(input) + 1>>)} :
                       input' = Append(input, result)
                /\ stage' = "held"
                /\ UNCHANGED <<op, source, pending, next, callbackVars, out, fate>>

\* Fault: the items of an unfinished chunk are forgotten.
FlushChunk_Forgets == <<>>

FlushChunk == IF chunk = <<>> THEN <<>> ELSE <<Success(chunk)>>

SourceEnds == /\ stage = "pull"
              /\ source' = "ended"
              /\ IF op = "chunks" THEN Yields(FlushChunk, "done")
                 ELSE IF op \in {"collect", "fold"} /\ \E n \in DOMAIN input : input[n].type = "error"
                 THEN Yields(<<>>, "threw")
                 ELSE Yields(<<>>, "done")
              /\ chunk' = <<>>
              /\ UNCHANGED <<op, input, index, acc, out, fate>>

\* fromResults: the generator itself may throw, past every operator.
SourceThrows == /\ stage = "pull"
                /\ source' = "threw"
                /\ Yields(<<>>, "threw")
                /\ UNCHANGED <<op, input, callbackVars, out, fate>>

\* The consumer takes an output and comes back for the next.
Deliver == /\ stage = "yield"
           /\ out' = Append(out, Head(pending))
           /\ pending' = Tail(pending)
           /\ stage' = IF Len(pending) = 1 THEN next ELSE "yield"
           /\ UNCHANGED <<op, input, source, next, callbackVars, fate>>

\* It takes an output and breaks: the finally blocks return the source.
Leave == /\ stage = "yield" /\ op \notin Terminal
         /\ out' = Append(out, Head(pending))
         /\ pending' = Tail(pending)
         /\ stage' = "left"
         /\ source' = IF source = "open" THEN "returned" ELSE source
         /\ UNCHANGED <<op, input, next, callbackVars, fate>>

\* A break or a throw in the loop returns the source first.
Exit == /\ stage \in {"return", "throw"}
        /\ source' = "returned"
        /\ stage' = IF stage = "return" THEN "done" ELSE "threw"
        /\ UNCHANGED <<op, input, pending, next, callbackVars, out, fate>>

-----------------------------------------------------------------------------
(* What each operator makes of the result it holds. *)

sequentialMap == /\ op = "map"
                 /\ \/ Pass("error")
                    \/ Call("success", "ok") /\ Emits(<<Held>>)
                    \/ Call("success", "threw") /\ Emits(<<Failed>>)

filter == /\ op = "filter"
          /\ \/ Pass("error")
             \/ Call("success", "ok") /\ Emits(<<Held>>)
             \/ Call("success", "no") /\ Emits(<<>>)
             \/ Call("success", "threw") /\ Emits(<<Failed>>)

tap == /\ op = "tap"
       /\ \/ Pass("error")
          \/ Call("success", "ok") /\ Emits(<<Held>>)
          \/ Call("success", "threw") /\ Emits(<<Failed>>)

tapErr == /\ op = "tapErr"
          /\ \/ Pass("success")
             \/ \E how \in {"ok", "threw"} :
                   Call("error", how) /\ Emits(<<Failed>>)

\* n counts the values; an error after the last one is not looked at any more.
take == /\ op = "take"
        /\ fate' = Append(fate, "passed")
        /\ acc' = IF Held.type = "success" THEN acc \o Held.of ELSE acc
        /\ Yields(<<Held>>, IF Len(acc') >= Limit THEN "return" ELSE "pull")
        /\ UNCHANGED <<index, chunk>>

takeWhile == /\ op = "takeWhile"
             /\ \/ Pass("error")
                \/ Call("success", "ok") /\ Emits(<<Held>>)
                \/ Call("success", "no") /\ Stops
                \/ Call("success", "threw") /\ Yields(<<Failed>>, "return")

scan == /\ op = "scan"
        /\ \/ Pass("error")
           \/ Accumulate("success") /\ Emits(<<Success(acc')>>)
           \/ Call("success", "threw") /\ Emits(<<Failed>>)

scanErr == /\ op = "scanErr"
           /\ \/ Pass("success")
              \/ Accumulate("error") /\ Emits(<<Error(acc')>>)
              \/ Call("error", "threw") /\ Emits(<<Failed>>)

\* A chunk that is full is yielded, and so is an unfinished one before an error.
chunks == /\ op = "chunks"
          /\ fate' = Append(fate, "passed")
          /\ \/ /\ Held.type = "success" /\ Len(chunk) + 1 = ChunkSize
                /\ Emits(<<Success(chunk \o Held.of)>>) /\ chunk' = <<>>
             \/ /\ Held.type = "success" /\ Len(chunk) + 1 # ChunkSize
                /\ Emits(<<>>) /\ chunk' = chunk \o Held.of
             \/ /\ Held.type = "error"
                /\ Emits(FlushChunk \o <<Held>>) /\ chunk' = <<>>
          /\ UNCHANGED <<index, acc>>

mapErr == /\ op = "mapErr"
          /\ \/ Pass("success")
             \/ \E how \in {"ok", "threw"} :
                   Call("error", how) /\ Emits(<<Failed>>)

filterErr == /\ op = "filterErr"
             /\ \/ Pass("success")
                \/ \E how \in {"ok", "threw"} :
                      Call("error", how) /\ Emits(<<Failed>>)
                \/ Call("error", "no") /\ Emits(<<>>)

\* A callback that throws throws Death out of the stream.
recover == /\ op = "recover"
           /\ \/ Pass("success")
              \/ Call("error", "ok") /\ Emits(<<Success(Held.of)>>)
              \/ Call("error", "threw") /\ Throws

\* Its guard may decline the error.
recoverWhen == /\ op = "recoverWhen"
               /\ \/ Pass("success")
                  \/ Pass("error")
                  \/ Call("error", "ok") /\ Emits(<<Success(Held.of)>>)
                  \/ Call("error", "threw") /\ Throws

throwOn == /\ op = "throwOn"
           /\ \/ Pass("success")
              \/ Pass("error")
              \/ Call("error", "threw") /\ Throws

\* The callback gives two values, or one and then throws.  Run in sequence, the one
\* is kept before the error; run concurrently, it is dropped.
flatMap == /\ op = "flatMap"
           /\ \/ Pass("error")
              \/ Call("success", "ok") /\ Emits(<<Held, Held>>)
              \/ Call("success", "half") /\ Emits(<<Held, Failed>>)
              \/ Call("success", "threw") /\ Emits(<<Failed>>)

concurrentFlatMap ==
    /\ op = "concurrentFlatMap"
    /\ \/ Pass("error")
       \/ Call("success", "ok") /\ Emits(<<Held, Held>>)
       \/ \E how \in {"half", "threw"} :
             Call("success", how) /\ Emits(<<Failed>>)

\* The terminal operators gather what they would yield.
fold == /\ op = "fold"
        /\ \/ Pass("error")
           \/ Accumulate("success") /\ Emits(<<Success(acc')>>)
           \/ Call("success", "threw") /\ Throws

foldErr == /\ op = "foldErr"
           /\ \/ Skip("success")
              \/ Accumulate("error") /\ Emits(<<Error(acc')>>)
              \/ Call("error", "threw") /\ Throws

collect == op \in {"collect", "partition", "toArray"} /\ (Pass("success") \/ Pass("error"))
successes == op = "successes" /\ (Pass("success") \/ Skip("error"))
errors == op = "errors" /\ (Pass("error") \/ Skip("success"))

Handle == /\ stage = "held"
          /\ \/ sequentialMap \/ filter \/ tap \/ tapErr \/ take \/ takeWhile \/ scan \/ scanErr
             \/ chunks \/ mapErr \/ filterErr \/ recover \/ recoverWhen \/ throwOn \/ flatMap
             \/ concurrentFlatMap \/ fold \/ foldErr \/ collect \/ successes \/ errors
          /\ UNCHANGED <<op, input, source, out>>

Next == Iterate \/ SourceYields \/ SourceEnds \/ SourceThrows \/ Deliver \/ Leave \/ Exit \/ Handle

Spec == Init /\ [][Next]_vars

-----------------------------------------------------------------------------
TypeOK == /\ stage \in {"none", "pull", "held", "yield", "return", "throw", "done", "threw", "left"}
          /\ source \in {"open", "ended", "returned", "threw"}
          /\ Len(fate) \in {Len(input), Len(input) - 1}
          /\ index <= Len(input) /\ Len(chunk) < ChunkSize
          /\ (stage = "yield") = (pending # <<>>) \/ stage = "left"

Given == out \o pending

\* The items of s are those of S, in ascending order.
Lists(s, S) == /\ {s[k] : k \in DOMAIN s} = S
               /\ \A k, l \in DOMAIN s : k < l => s[k] < s[l]

\* The result of the source that an output came of: the last of its items.
Origin(x) == Last(x.of)

\* The items up to n that the accumulating callback has taken in.
Accumulated(n) == {m \in 1..n : fate[m] = "ok"}

\* What is yielded for result n by an operator that yields at most one output per
\* result.
IsAnswer(x, n) ==
    CASE op \in {"scan", "fold"} /\ fate[n] = "ok" -> x.type = "success" /\ Lists(x.of, Accumulated(n))
      [] op \in {"scanErr", "foldErr"} /\ fate[n] = "ok" -> x.type = "error" /\ Lists(x.of, Accumulated(n))
      [] op \in {"recover", "recoverWhen"} /\ fate[n] = "ok" -> x = Success(<<n>>)
      [] fate[n] = "threw" -> x = Error(<<n>>)
      [] OTHER -> x = input[n]

OneForOne == (OnValues \cup OnErrors \cup Plain) \ {"chunks", "flatMap", "concurrentFlatMap"}

Rethrowing == {"recover", "recoverWhen", "throwOn", "fold", "foldErr"}

Answered == {n \in DOMAIN fate : fate[n] # "no" /\ ~(fate[n] = "threw" /\ op \in Rethrowing)}

\* Every result is answered once, in the order of the source, by what the operator
\* is to make of it; a callback that throws costs its own result and no other one.
ResultsAreAnswered ==
    op \in OneForOne =>
        /\ Lists([i \in DOMAIN Given |-> Origin(Given[i])], Answered)
        /\ \A i \in DOMAIN Given : IsAnswer(Given[i], Origin(Given[i]))

\* The items from one to another, and the first that output i of chunks() is to have.
Run(from, to) == [k \in 1 .. to - from + 1 |-> from + k - 1]
Begins(i) == IF i = 1 THEN 1 ELSE Origin(Given[i - 1]) + 1

\* A chunk is full, or the last one before an error or the end.
MayBeShort(i) == \/ i < Len(Given) /\ Given[i + 1].type = "error"
                 \/ i = Len(Given) /\ source = "ended"

\* chunks() gives out every value once and in order, with the errors where they
\* came, and a chunk is short only in front of an error or at the end.
ChunksAreWhole ==
    op = "chunks" =>
        /\ \A i \in DOMAIN Given :
              /\ Given[i].of = Run(Begins(i), Origin(Given[i]))
              /\ \A k \in DOMAIN Given[i].of : input[Given[i].of[k]].type = Given[i].type
              /\ Given[i].type = "error" => Len(Given[i].of) = 1
              /\ Given[i].type = "success" => Len(Given[i].of) = ChunkSize \/ MayBeShort(i)
        /\ chunk = Run(Begins(Len(Given) + 1), Len(fate))
        /\ stage = "done" => chunk = <<>>

\* take() stops with exactly n values, or because the source had fewer.
Values(s) == {i \in DOMAIN s : s[i].type = "success"}
AtMost == IF Limit > 0 THEN Limit ELSE 0

LimitIsExact ==
    op = "take" => /\ Cardinality(Values(Given)) <= AtMost
                   /\ stage = "done" /\ source = "returned" => Cardinality(Values(out)) = AtMost

\* Each operator yields what its definition says.
OperatorsMeetTheirDefinition == ResultsAreAnswered /\ ChunksAreWhole /\ LimitIsExact

\* However an operator ends, its source has ended or was told to.
SourceIsReleased == stage \in {"done", "threw", "left"} => source # "open"

\* The documentation of chunks(): errors pass "through without breaking the current
\* chunk", so that only the last chunk is short.
ErrorsKeepTheChunk ==
    op = "chunks" => \A i \in DOMAIN Given :
        Given[i].type = "success" /\ Len(Given[i].of) < ChunkSize =>
            \A j \in i + 1 .. Len(Given) : Given[j].type = "error"

=============================================================================
