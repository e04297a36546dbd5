------------------------------ MODULE MCStreams ------------------------------
(***************************************************************************)
(* The stream machinery on small instances: the concurrent transform, the  *)
(* split, merge and zip, the sequential operators, a cron source and the   *)
(* streams of a queue.  Each behaviour runs the one that "model" names, and*)
(* the others stay in their initial state.                                 *)
(***************************************************************************)
EXTENDS ConcurrentTransform

CONSTANTS NumBranches, BufferSize,                               \* SplitPump
          MaxItems, ChunkSize, Limit,                            \* StreamOperators
          MaxResults,                                            \* StreamCombine
          Second, Minute, Hour, Date, Month, Weekday, Horizon, MaxDelay, MaxTime,   \* Schedule
          MaxMessages, Count, MaxSends                           \* QueueStreams

\* n and bufferSize are Math.max(1, ...).
ASSUME SplitAssumption == NumBranches \in Nat \ {0} /\ BufferSize \in Nat \ {0}
\* chunks() refuses a size that is not positive, and take() gives nothing for such an n.
ASSUME OperatorsAssumption == ChunkSize \in Nat \ {0} /\ Limit \in Int
ASSUME PollsAssumption == MaxMessages \in Nat /\ MaxSends \in Nat

VARIABLES model,
          sMode, sPump, sPulled, item, to, capWait, buffer, closed, sLeft, got, keyOf, signal,
          op, stage, input, source, pending, next, index, acc, chunk, out, fate,
          cMode, cStage, gen, answer, buffered, racing, cPending, given, cPulled, cLeft,
          now, cron, cSource, tick, asked, timer, aborted, last,
          kind, qStage, qLeft, batch, offered, delay, qAborted, yielded, sends, qAnswer

Split == INSTANCE SplitPump WITH mode <- sMode, pump <- sPump, pulled <- sPulled, left <- sLeft

Operators == INSTANCE StreamOperators

Combine == INSTANCE StreamCombine WITH mode <- cMode, stage <- cStage, pending <- cPending,
                                       pulled <- cPulled, left <- cLeft, MaxItems <- MaxResults

-----------------------------------------------------------------------------
(* Cron expressions over units of two or three values each. *)

Star == {[kind |-> "all"]}
Only(n) == {[kind |-> "one", from |-> n]}
From(n, s) == {[kind |-> "step", from |-> n, step |-> s]}
Span(n, m) == {[kind |-> "range", from |-> n, to |-> m]}
SpanStep(n, m, s) == {[kind |-> "range step", from |-> n, to |-> m, step |-> s]}

Cron(s, mi, h, dom, mo, dow) ==
    [second |-> s, minute |-> mi, hour |-> h, dom |-> dom, month |-> mo, dow |-> dow]

Expressions == {Cron({}, Only(0), Only(0), Only(1), Only(1), Star),
                Cron({}, Only(1), Only(1), Star, Only(2), Star),
                Cron(Only(1), From(0, 2), Star, Star, Star, Star),
                Cron({}, Star, From(1, 1), SpanStep(1, 3, 2), Star, Only(1)),
                Cron(Only(0) \cup Only(1), Star, Only(1), Span(2, 3), Only(1), Span(0, 1)),
                Cron({}, Star, Star, Only(3), Only(1), Only(1))}

Timer == INSTANCE Schedule WITH source <- cSource

Polls == INSTANCE QueueStreams WITH stage <- qStage, left <- qLeft, aborted <- qAborted,
                                    answer <- qAnswer

-----------------------------------------------------------------------------
split     == <<sMode, sPump, sPulled, item, to, capWait, buffer, closed, sLeft, got, keyOf, signal>>
operators == <<op, stage, input, source, pending, next, index, acc, chunk, out, fate>>
combine   == <<cMode, cStage, gen, answer, buffered, racing, cPending, given, cPulled, cLeft>>
schedule  == <<now, cron, cSource, tick, asked, timer, aborted, last>>
polls     == <<kind, qStage, qLeft, batch, offered, delay, qAborted, yielded, sends, qAnswer>>

mcvars == <<model, vars, split, operators, combine, schedule, polls>>

MCInit ==
    /\ model \in {"transform", "split", "operators", "combine", "schedule", "polls"}
    /\ Init /\ Split!Init /\ Operators!Init /\ Combine!Init /\ Timer!Init /\ Polls!Init

MCNext ==
    /\ UNCHANGED model
    /\ \/ model = "transform" /\ Next
          /\ UNCHANGED <<split, operators, combine, schedule, polls>>
       \/ model = "split" /\ Split!Next
          /\ UNCHANGED <<vars, operators, combine, schedule, polls>>
       \/ model = "operators" /\ Operators!Next
          /\ UNCHANGED <<vars, split, combine, schedule, polls>>
       \/ model = "combine" /\ Combine!Next
          /\ UNCHANGED <<vars, split, operators, schedule, polls>>
       \/ model = "schedule" /\ Timer!Next
          /\ UNCHANGED <<vars, split, operators, combine, polls>>
       \/ model = "polls" /\ Polls!Next
          /\ UNCHANGED <<vars, split, operators, combine, schedule>>

\* No step that is fair is enabled in an initial state.
MCSpec == /\ MCInit /\ [][MCNext]_mcvars
          /\ Fairness /\ Split!Fairness /\ Combine!Fairness /\ Polls!Fairness

-----------------------------------------------------------------------------
(* Properties, besides those of ConcurrentTransform. *)

\* The branches of splitN and splitBy together: each gets the prefix of the source, or
\* the items of its key, in order and with every error, and a branch that is slow
\* holds back the source.
BranchesAreFaithful == /\ Split!TypeOK /\ Split!BranchesSeeThePrefix
                       /\ Split!BranchesSeeTheirKeys /\ Split!SlowBranchHoldsBack

\* The sequential operators give what their definition says of what the source yields,
\* and the source has been released when the loop over them is over.
OperatorsAreFaithful == /\ Operators!TypeOK /\ Operators!OperatorsMeetTheirDefinition
                        /\ Operators!SourceIsReleased

\* merge() and zip() give the results of both sides in their order, none twice, and
\* merge() ends when it has given them all.
CombinedInOrder == Combine!TypeOK /\ Combine!CombinedInOrder

\* A schedule gives out each time its expression matches, in order, the first one
\* after the beginning or after what was given out before.
TicksFollowTheSchedule == Timer!TypeOK /\ Timer!TicksFollowTheSchedule

\* stream(), continuousStream() and a parallel sendBatch() of a queue: messages come out
\* once and in the order of the broker, and ids are returned when all were sent.
MessagesAreStreamed == Polls!TypeOK /\ Polls!StreamIsFaithful

\* Whatever the handlers, branches and sides do, and whoever leaves: the loops end and
\* with them the pumps behind them; and an abort ends the stream of a queue.
StreamsEnd == /\ EndsAndReleasesSource /\ Split!PumpEnds /\ Combine!BothSidesEnd
              /\ Polls!AbortEndsTheStream

=============================================================================
