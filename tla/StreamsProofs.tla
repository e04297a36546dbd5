---------------------------- MODULE StreamsProofs ----------------------------
(***************************************************************************)
(* Theorems about the systems of MCStreams.  The concurrent transform, for *)
(* any number of items and any limits: the counter of the code is compared *)
(* with the handlers that are not through, and the two sleepers with the   *)
(* reasons they have.  Then the streams of a queue, the split, merge and   *)
(* zip, and the sequential operators.                                      *)
(***************************************************************************)
EXTENDS MCStreams, FiniteSetTheorems, SequenceTheorems, TLAPS

\* The item that a sleeping pump holds is the last it pulled, and has no handler.
HoldInv == /\ \A i \in Items : i > pulled => task[i] = "none"
           /\ pump \in {"sleeping", "woken"} => pulled \in Items /\ task[pulled] = "none"

\* The counter and its limit.
CountInv == /\ inFlight = Cardinality(InFlightTasks)
            /\ MaxConcurrency # Infinity => inFlight <= MaxConcurrency

\* Before the first next() nothing has happened; cancelled means that the consumer
\* is through.
StageInv == /\ consumer = "new" => /\ pump = "none" /\ pulled = 0 /\ queue = <<>>
                                   /\ ~done /\ ~cancelled
            /\ pump = "none" => consumer = "new"
            /\ cancelled => consumer = "finished"

IInv == TypeOK /\ HoldInv /\ CountInv /\ StageInv /\ SleepersHaveAReason

-----------------------------------------------------------------------------
USE TransformAssumption DEF TransformAssumption

Out == (0..NumItems) \X (0..MaxOutputs)
Stages == {"none", "scheduled", "running", "settled", "finished"}

LEMMA InFlightFinite == IsFiniteSet(InFlightTasks) /\ Cardinality(InFlightTasks) \in Nat
<1>1. IsFiniteSet(Items) /\ InFlightTasks \subseteq Items
  BY FS_Interval DEF Items, InFlightTasks
<1> QED  BY <1>1, FS_Subset, FS_CardinalityType

\* A handler that is scheduled counts one more, one that is through one less, and
\* the steps in between do not count.
LEMMA CountUp ==
    ASSUME TypeOK, NEW i \in Items, task[i] = "none", task' = [task EXCEPT ![i] = "scheduled"]
    PROVE  Cardinality(InFlightTasks') = Cardinality(InFlightTasks) + 1
<1>1. InFlightTasks' = InFlightTasks \cup {i} /\ i \notin InFlightTasks
  BY DEF InFlightTasks, TypeOK
<1> QED  BY <1>1, InFlightFinite, FS_AddElement

LEMMA CountDown ==
    ASSUME TypeOK, NEW i \in Items, task[i] = "settled", task' = [task EXCEPT ![i] = "finished"]
    PROVE  /\ Cardinality(InFlightTasks') = Cardinality(InFlightTasks) - 1
           /\ Cardinality(InFlightTasks') \in Nat
<1>1. InFlightTasks' = InFlightTasks \ {i} /\ i \in InFlightTasks
  BY DEF InFlightTasks, TypeOK
<1>2. IsFiniteSet(InFlightTasks')
  BY <1>1, InFlightFinite, FS_RemoveElement
<1> QED  BY <1>1, <1>2, InFlightFinite, FS_RemoveElement, FS_CardinalityType

LEMMA CountSame ==
    ASSUME TypeOK, NEW i \in Items, NEW s \in {"scheduled", "running", "settled"},
           task[i] \in {"scheduled", "running", "settled"}, task' = [task EXCEPT ![i] = s]
    PROVE  InFlightTasks' = InFlightTasks
BY DEF InFlightTasks, TypeOK

\* What a handler pushes: the queue and the history stay typed.
LEMMA PushType ==
    ASSUME TypeOK, NEW i \in Items, NEW n \in 0..MaxOutputs,
           NEW new, new = [k \in 1..n |-> <<i, k>>]
    PROVE  queue \o new \in Seq(Out) /\ outputs \cup ToSet(new) \subseteq Out
<1>1. new \in [1..n -> Out]
  BY DEF Items, Out
<1>2. new \in Seq(Out)
  BY <1>1, SeqDef
<1>3. queue \o new \in Seq(Out)
  BY <1>2, ConcatProperties DEF TypeOK, Out
<1>4. ToSet(new) \subseteq Out
  BY <1>1 DEF ToSet
<1> QED  BY <1>3, <1>4 DEF TypeOK, Out

-----------------------------------------------------------------------------
LEMMA InitInv == Init => IInv
<1> SUFFICES ASSUME Init PROVE IInv
  OBVIOUS
<1>1. TypeOK
  <2>1. <<>> \in Seq(Out)
    BY EmptySeq
  <2>2. queue \in Seq(Out) /\ delivered \in Seq(Out) /\ outputs \subseteq Out
    BY <2>1 DEF Init
  <2>3. task \in [Items -> Stages] /\ pulled \in 0..NumItems /\ inFlight \in Nat
    BY DEF Init, Stages
  <2> QED  BY <2>2, <2>3 DEF Init, TypeOK, Out, Stages
<1>2. InFlightTasks = {}
  BY DEF Init, InFlightTasks
<1>3. CountInv
  BY <1>2, FS_EmptySet DEF Init, CountInv
<1> QED  BY <1>1, <1>3 DEF Init, IInv, HoldInv, StageInv, SleepersHaveAReason

\* The pump with the item it holds, fresh or after a sleep.
LEMMA PumpHoldsStep ==
    ASSUME IInv, NEW i \in Items, task[i] = "none", pulled' = i, i >= pulled,
           pump \in {"pulling", "woken"}, PumpHolds(i),
           UNCHANGED <<queue, done, cancelled, consumer, outputs, delivered, early>>
    PROVE  IInv'
<1> USE DEF IInv
<1>1. TypeOK'
  <2>1. pulled' \in 0..NumItems
    BY TransformAssumption DEF Items
  <2>2. inFlight' \in Nat /\ pump' \in {"closing", "sleeping", "pulling"}
    BY DEF PumpHolds, TypeOK
  <2>3. task' = task \/ task' = [task EXCEPT ![i] = "scheduled"]
    BY DEF PumpHolds
  <2>4. task \in [Items -> {"none", "scheduled", "running", "settled", "finished"}]
    BY DEF TypeOK
  <2>5. task' \in [Items -> {"none", "scheduled", "running", "settled", "finished"}]
    BY <2>3, <2>4
  <2> QED  BY <2>1, <2>2, <2>5 DEF TypeOK
<1>2. HoldInv'
  BY DEF PumpHolds, HoldInv, TypeOK, Items
<1>3. CountInv'
  <2>1. CASE UNCHANGED <<task, inFlight>>
    BY <2>1 DEF CountInv, InFlightTasks
  <2>2. CASE /\ ~PumpMustWait
             /\ inFlight' = inFlight + 1
             /\ task' = [task EXCEPT ![i] = "scheduled"]
    <3>1. inFlight' = Cardinality(InFlightTasks')
      BY <2>2, CountUp DEF CountInv
    <3>2. MaxConcurrency # Infinity => inFlight' <= MaxConcurrency
      BY <2>2 DEF PumpMustWait, TypeOK
    <3> QED  BY <3>1, <3>2 DEF CountInv
  <2> QED  BY <2>1, <2>2 DEF PumpHolds
<1>4. StageInv'
  BY DEF PumpHolds, StageInv
<1>5. SleepersHaveAReason'
  BY DEF PumpHolds, PumpMustWait, SleepersHaveAReason, TypeOK, size
<1> QED  BY <1>1, <1>2, <1>3, <1>4, <1>5

LEMMA StepInv == IInv /\ [Next]_vars => IInv'
<1> SUFFICES ASSUME IInv, [Next]_vars PROVE IInv'
  OBVIOUS
<1> USE DEF IInv
<1>1. CASE UNCHANGED vars
  BY <1>1 DEF vars, TypeOK, HoldInv, CountInv, StageInv, SleepersHaveAReason, InFlightTasks,
              PumpMustWait, size
<1>2. CASE SourceYields
  <2>1. pulled + 1 \in Items /\ task[pulled + 1] = "none"
    BY <1>2 DEF SourceYields, HoldInv, TypeOK, Items
  <2> QED  BY <1>2, <2>1, PumpHoldsStep DEF SourceYields, TypeOK
<1>3. CASE PumpResumes
  BY <1>3, PumpHoldsStep DEF PumpResumes, HoldInv, TypeOK
<1>4. CASE Start \/ SourceEnds \/ SourceThrows \/ PumpEnds
  <2>1. InFlightTasks' = InFlightTasks /\ inFlight' = inFlight /\ task' = task
    BY <1>4 DEF Start, SourceEnds, SourceThrows, PumpEnds, InFlightTasks
  <2>2. TypeOK'
    <3>1. CASE SourceThrows
      <4>1. SourceError \in Out
        BY DEF SourceError, Out
      <4>2. Append(queue, SourceError) \in Seq(Out)
        BY <4>1 DEF TypeOK, Out
      <4> QED  BY <3>1, <4>1, <4>2 DEF SourceThrows, TypeOK, Woken, Out
    <3>2. CASE Start \/ SourceEnds \/ PumpEnds
      BY <3>2 DEF Start, SourceEnds, PumpEnds, TypeOK, Woken
    <3> QED  BY <1>4, <3>1, <3>2
  <2>3. HoldInv'
    BY <1>4, <2>1 DEF Start, SourceEnds, SourceThrows, PumpEnds, HoldInv
  <2>4. CountInv'
    BY <2>1 DEF CountInv
  <2>5. StageInv'
    BY <1>4 DEF Start, SourceEnds, SourceThrows, PumpEnds, StageInv, Woken
  <2>6. SleepersHaveAReason'
    BY <1>4 DEF Start, SourceEnds, SourceThrows, PumpEnds, StageInv, SleepersHaveAReason, Woken, size
  <2> QED  BY <2>2, <2>3, <2>4, <2>5, <2>6
<1>5. ASSUME NEW i \in Items, HandlerStarts(i) PROVE IInv'
  <2>1. TypeOK' /\ HoldInv' /\ StageInv'
    BY <1>5 DEF HandlerStarts, TypeOK, HoldInv, StageInv
  <2>2. CountInv'
    BY <1>5, CountSame DEF HandlerStarts, CountInv
  <2>3. SleepersHaveAReason'
    BY <1>5 DEF HandlerStarts, SleepersHaveAReason, PumpMustWait, size
  <2> QED  BY <2>1, <2>2, <2>3
<1>6. ASSUME NEW i \in Items, HandlerSettles(i) PROVE IInv'
  <2>1. /\ task[i] = "running" /\ task' = [task EXCEPT ![i] = "settled"]
        /\ UNCHANGED <<pulled, inFlight, done, cancelled, delivered, early>>
    BY <1>6 DEF HandlerSettles
  <2>2. CountInv'
    BY <2>1, CountSame DEF CountInv
  <2>3. CASE UNCHANGED <<queue, outputs, pump, consumer>>
    <3>1. TypeOK' /\ HoldInv' /\ StageInv'
      BY <2>1, <2>3 DEF TypeOK, HoldInv, StageInv
    <3>2. SleepersHaveAReason'
      BY <2>1, <2>3 DEF SleepersHaveAReason, PumpMustWait, size
    <3> QED  BY <2>2, <3>1, <3>2
  <2>4. ASSUME NEW n \in 0..MaxOutputs, NEW new, new = [k \in 1..n |-> <<i, k>>], ~cancelled,
               queue' = queue \o new, outputs' = outputs \cup ToSet(new), wake
        PROVE  IInv'
    <3>1. TypeOK'
      BY <2>1, <2>4, PushType DEF TypeOK, wake, Woken, Out
    <3>2. pump' # "sleeping" /\ consumer' # "sleeping"
      BY <2>4 DEF wake, Woken
    <3>3. HoldInv'
      BY <2>1, <2>4 DEF HoldInv, TypeOK, wake, Woken
    <3>4. consumer # "new"
      BY <2>1 DEF HoldInv, StageInv, Items
    <3>5. StageInv'
      BY <2>1, <2>4, <3>4 DEF StageInv, wake, Woken
    <3> QED  BY <2>2, <3>1, <3>2, <3>3, <3>5 DEF SleepersHaveAReason
  <2> QED  BY <1>6, <2>3, <2>4 DEF HandlerSettles
<1>7. ASSUME NEW i \in Items, HandlerFinally(i) PROVE IInv'
  <2>1. CountInv' /\ inFlight' \in Nat
    <3>1. task[i] = "settled" /\ task' = [task EXCEPT ![i] = "finished"] /\ inFlight' = inFlight - 1
      BY <1>7 DEF HandlerFinally
    <3>2. inFlight' = Cardinality(InFlightTasks') /\ inFlight' \in Nat
      BY <3>1, CountDown DEF CountInv
    <3>3. MaxConcurrency # Infinity => inFlight' <= MaxConcurrency
      BY <3>1 DEF CountInv, TypeOK
    <3> QED  BY <3>2, <3>3 DEF CountInv
  <2>2. TypeOK' /\ HoldInv' /\ StageInv'
    BY <1>7, <2>1 DEF HandlerFinally, TypeOK, HoldInv, StageInv, wake, Woken
  <2>3. pump' # "sleeping" /\ consumer' # "sleeping"
    BY <1>7 DEF HandlerFinally, wake, Woken
  <2> QED  BY <2>1, <2>2, <2>3 DEF SleepersHaveAReason
<1>8. CASE ConsumerRuns \/ ConsumerLeaves
  <2>1. task' = task /\ inFlight' = inFlight /\ pulled' = pulled /\ InFlightTasks' = InFlightTasks
    BY <1>8 DEF ConsumerRuns, ConsumerLeaves, InFlightTasks
  <2>2. CountInv'
    BY <2>1 DEF CountInv
  <2>3. HoldInv'
    BY <1>8, <2>1 DEF ConsumerRuns, ConsumerLeaves, HoldInv, Woken
  <2>4. StageInv'
    BY <1>8 DEF ConsumerRuns, ConsumerLeaves, StageInv, Woken
  <2>5. TypeOK'
    <3>1. CASE size > 0 /\ delivered' = Append(delivered, Head(queue)) /\ queue' = Tail(queue)
      <4>1. Head(queue) \in Out /\ Tail(queue) \in Seq(Out)
        BY <3>1, HeadTailProperties, EmptySeq DEF TypeOK, Out, size
      <4> QED  BY <1>8, <3>1, <4>1, SMTT(30) DEF ConsumerRuns, ConsumerLeaves, TypeOK, Woken, Out
    <3>2. CASE UNCHANGED <<queue, delivered>>
      BY <1>8, <3>2 DEF ConsumerRuns, ConsumerLeaves, TypeOK, Woken
    <3> QED  BY <1>8, <3>1, <3>2 DEF ConsumerRuns, ConsumerLeaves
  <2>6. SleepersHaveAReason'
    <3>1. CASE ConsumerLeaves
      BY <3>1 DEF ConsumerLeaves, SleepersHaveAReason, Woken
    <3>2. CASE ConsumerRuns /\ consumer' = "suspended"
      BY <3>2 DEF ConsumerRuns, SleepersHaveAReason, Woken
    <3>3. CASE ConsumerRuns /\ consumer' = "sleeping"
      BY <3>3 DEF ConsumerRuns, SleepersHaveAReason, Exhausted, TypeOK, Woken, size, PumpMustWait
    <3>4. CASE ConsumerRuns /\ consumer' = "finished"
      BY <3>4 DEF ConsumerRuns, SleepersHaveAReason, Woken
    <3> QED  BY <1>8, <3>1, <3>2, <3>3, <3>4 DEF ConsumerRuns
  <2> QED  BY <2>2, <2>3, <2>4, <2>5, <2>6
<1> QED  BY <1>1, <1>2, <1>3, <1>4, <1>5, <1>6, <1>7, <1>8 DEF Next

LEMMA Invariance == Spec => []IInv
  BY InitInv, StepInv, PTL DEF Spec

-----------------------------------------------------------------------------
\* Every reachable state is well typed, whatever the limits.
THEOREM TypeCorrect == Spec => []TypeOK
<1>1. IInv => TypeOK  BY DEF IInv
<1> QED  BY <1>1, Invariance, PTL

\* The counter that the pump tests is the number of handlers not yet through, and
\* stays within the concurrency that was asked for.
THEOREM Bounded == Spec => []ConcurrencyIsBounded
<1>1. IInv => ConcurrencyIsBounded  BY DEF IInv, CountInv, ConcurrencyIsBounded
<1> QED  BY <1>1, Invariance, PTL

\* Whoever sleeps on the shared list of waiters has something to wait for.
THEOREM NoLostWakeup == Spec => []SleepersHaveAReason
<1>1. IInv => SleepersHaveAReason  BY DEF IInv
<1> QED  BY <1>1, Invariance, PTL

\* After the consumer has left no handler is scheduled and no output queued.
THEOREM NothingStarts == Spec => NothingStartsAfterCancel
<1>1. ASSUME IInv, [Next]_vars
      PROVE  [cancelled => /\ \A i \in Items : task[i] = "none" => task'[i] = "none"
                           /\ queue' = queue]_vars
  <2>1. CASE UNCHANGED vars
    BY <2>1 DEF vars
  <2>2. CASE Next /\ cancelled
    <3>1. consumer = "finished"
      BY <1>1, <2>2 DEF IInv, StageInv
    <3>2. CASE SourceYields \/ PumpResumes
      BY <2>2, <3>2 DEF SourceYields, PumpResumes, PumpHolds
    <3>3. CASE Start \/ SourceEnds \/ SourceThrows \/ PumpEnds \/ ConsumerRuns \/ ConsumerLeaves
      BY <2>2, <3>1, <3>3 DEF Start, SourceEnds, SourceThrows, PumpEnds, ConsumerRuns, ConsumerLeaves
    <3>4. CASE \E i \in Items : HandlerStarts(i) \/ HandlerSettles(i) \/ HandlerFinally(i)
      BY <1>1, <2>2, <3>4 DEF HandlerStarts, HandlerSettles, HandlerFinally, IInv, TypeOK
    <3> QED  BY <2>2, <3>2, <3>3, <3>4 DEF Next
  <2> QED  BY <1>1, <2>1, <2>2
<1> QED  BY <1>1, Invariance, PTL DEF Spec, NothingStartsAfterCancel

-----------------------------------------------------------------------------
(* Outputs. *)

\* Which outputs there can be: those of handlers that have settled, and one error
\* of the source when the pump is past asking it.
FreshInv == /\ \A i \in Items : task[i] \in {"none", "scheduled", "running"} =>
                  \A k \in 0..MaxOutputs : <<i, k>> \notin outputs
            /\ SourceError \in outputs => pump \in {"closing", "done"}

\* An item without a handler is the one the pump holds, or was dropped.
StartedInv == \A i \in Items : i <= pulled /\ task[i] = "none" =>
                  /\ i = pulled
                  /\ pump \in {"sleeping", "woken"} \/ (cancelled /\ pump \in {"closing", "done"})

\* The end of the generator.
EndInv == /\ done => pump = "done"
          /\ consumer = "finished" /\ ~early =>
                queue = <<>> /\ done /\ \A i \in Items : i <= pulled => task[i] = "finished"

Given == delivered \o queue

GivenInv == ToSet(Given) = outputs /\ IsInjective(Given)

OutInv == FreshInv /\ StartedInv /\ EndInv /\ GivenInv

\* Appending what is new and distinct.
LEMMA InjectiveConcat ==
    ASSUME NEW s \in Seq(Out), NEW t \in Seq(Out), IsInjective(s), IsInjective(t),
           ToSet(s) \cap ToSet(t) = {}
    PROVE  IsInjective(s \o t) /\ ToSet(s \o t) = ToSet(s) \cup ToSet(t)
<1> DEFINE st == s \o t
           m == Len(s)
           n == Len(t)
<1>1. m \in Nat /\ n \in Nat /\ DOMAIN s = 1..m /\ DOMAIN t = 1..n
  BY LenProperties
<1>2. /\ st \in Seq(Out) /\ Len(st) = m + n
      /\ \A i \in 1..m + n : st[i] = IF i <= m THEN s[i] ELSE t[i - m]
  BY ConcatProperties
<1>3. DOMAIN st = 1..m + n
  BY <1>2, LenProperties
<1> HIDE DEF st, m, n
<1>4. ASSUME NEW i \in 1..m + n, NEW j \in 1..m + n, st[i] = st[j] PROVE i = j
  <2>1. CASE i <= m /\ j <= m
    <3>1. s[i] = s[j] /\ i \in DOMAIN s /\ j \in DOMAIN s
      BY <1>1, <1>2, <1>4, <2>1
    <3> QED  BY <3>1 DEF IsInjective
  <2>2. CASE i > m /\ j > m
    <3>1. t[i - m] = t[j - m] /\ i - m \in DOMAIN t /\ j - m \in DOMAIN t
      BY <1>1, <1>2, <1>4, <2>2
    <3>2. i - m = j - m
      BY <3>1 DEF IsInjective
    <3> QED  BY <1>1, <3>2
  <2>3. ASSUME NEW a \in 1..m + n, NEW b \in 1..m + n, a <= m, b > m PROVE st[a] # st[b]
    <3>1. a \in DOMAIN s /\ b - m \in DOMAIN t /\ st[a] = s[a] /\ st[b] = t[b - m]
      BY <1>1, <1>2, <2>3
    <3> QED  BY <3>1 DEF ToSet
  <2> QED  BY <1>1, <1>4, <2>1, <2>2, <2>3
<1>5. IsInjective(st)
  BY <1>3, <1>4 DEF IsInjective
<1>6. ASSUME NEW x \in ToSet(st) PROVE x \in ToSet(s) \cup ToSet(t)
  <2>1. PICK i \in 1..m + n : x = st[i]
    BY <1>3, <1>6 DEF ToSet
  <2>2. CASE i <= m
    <3>1. i \in DOMAIN s /\ x = s[i]
      BY <1>1, <1>2, <2>1, <2>2
    <3> QED  BY <3>1 DEF ToSet
  <2>3. CASE i > m
    <3>1. i - m \in DOMAIN t /\ x = t[i - m]
      BY <1>1, <1>2, <2>1, <2>3
    <3> QED  BY <3>1 DEF ToSet
  <2> QED  BY <1>1, <2>1, <2>2, <2>3
<1>7. ASSUME NEW x \in ToSet(s) \cup ToSet(t) PROVE x \in ToSet(st)
  <2>1. ASSUME NEW i \in DOMAIN s PROVE s[i] \in ToSet(st)
    <3>1. i \in DOMAIN st /\ st[i] = s[i]
      BY <1>1, <1>2, <1>3, <2>1
    <3> QED  BY <3>1 DEF ToSet
  <2>2. ASSUME NEW i \in DOMAIN t PROVE t[i] \in ToSet(st)
    <3>1. i + m \in 1..m + n /\ st[i + m] = t[i]
      BY <1>1, <1>2, <2>2
    <3> QED  BY <1>3, <3>1 DEF ToSet
  <2> QED  BY <1>7, <2>1, <2>2 DEF ToSet
<1> QED  BY <1>5, <1>6, <1>7 DEF st

\* A push that brings only what is new keeps the account of the outputs.
LEMMA GivenPush ==
    ASSUME TypeOK, GivenInv, NEW new \in Seq(Out), IsInjective(new),
           ToSet(new) \cap outputs = {},
           queue' = queue \o new, outputs' = outputs \cup ToSet(new), delivered' = delivered
    PROVE  GivenInv'
<1>1. queue \in Seq(Out) /\ delivered \in Seq(Out)
  BY DEF TypeOK, Out
<1>2. Given' = Given \o new /\ Given \in Seq(Out)
  BY <1>1, ConcatAssociative, ConcatProperties, SMTT(30) DEF Given
<1> QED  BY <1>2, InjectiveConcat DEF GivenInv

\* Handing out the first output moves it from one side to the other.
LEMMA GivenTake ==
    ASSUME TypeOK, queue # <<>>, delivered' = Append(delivered, Head(queue)), queue' = Tail(queue)
    PROVE  Given' = Given
<1>1. queue \in Seq(Out) /\ delivered \in Seq(Out)
  BY DEF TypeOK, Out
<1>2. Head(queue) \in Out /\ Tail(queue) \in Seq(Out) /\ queue = <<Head(queue)>> \o Tail(queue)
  BY <1>1, HeadTailProperties, ConcatProperties
<1>3. <<Head(queue)>> \in Seq(Out) /\ delivered' = delivered \o <<Head(queue)>>
  BY <1>1, <1>2
<1> QED  BY <1>1, <1>2, <1>3, ConcatAssociative DEF Given

LEMMA OutInit == Init => OutInv
<1> SUFFICES ASSUME Init PROVE OutInv
  OBVIOUS
<1>1. Given = <<>>
  BY DEF Init, Given
<1>2. GivenInv
  BY <1>1 DEF Init, GivenInv, ToSet, IsInjective
<1> QED  BY <1>2 DEF Init, OutInv, FreshInv, StartedInv, EndInv, Items

LEMMA OutStep == IInv /\ OutInv /\ [Next]_vars => OutInv'
<1> SUFFICES ASSUME IInv, OutInv, [Next]_vars PROVE OutInv'
  OBVIOUS
<1> USE DEF IInv, OutInv
<1>1. CASE UNCHANGED vars
  BY <1>1 DEF vars, FreshInv, StartedInv, EndInv, GivenInv, Given
<1>2. CASE SourceYields \/ PumpResumes
  <2>1. PICK i \in Items : /\ task[i] = "none" /\ PumpHolds(i) /\ pulled' = i /\ pulled <= i
                           /\ i <= pulled + 1 /\ pump \in {"pulling", "woken"}
                           /\ (i = pulled \/ pump = "pulling")
                           /\ UNCHANGED <<queue, done, cancelled, consumer, outputs, delivered, early>>
    BY <1>2 DEF SourceYields, PumpResumes, HoldInv, TypeOK, Items
  <2>2. GivenInv'
    BY <2>1 DEF GivenInv, Given
  <2>3. FreshInv'
    BY <2>1 DEF PumpHolds, FreshInv, TypeOK
  <2>4. StartedInv'
    BY <2>1 DEF PumpHolds, StartedInv, TypeOK, Items
  <2>5. EndInv'
    BY <2>1 DEF EndInv
  <2> QED  BY <2>2, <2>3, <2>4, <2>5
<1>3. CASE SourceThrows /\ ~cancelled
  <2> DEFINE new == <<SourceError>>
  <2>1. new \in Seq(Out) /\ IsInjective(new) /\ ToSet(new) = {SourceError}
    BY DEF SourceError, Out, IsInjective, ToSet
  <2>2. queue' = queue \o new /\ outputs' = outputs \cup ToSet(new) /\ delivered' = delivered
    <3>1. queue \in Seq(Out) /\ SourceError \in Out
      BY DEF TypeOK, SourceError, Out
    <3>2. Append(queue, SourceError) = queue \o new
      BY <3>1
    <3> QED  BY <1>3, <2>1, <3>2 DEF SourceThrows
  <2>3. SourceError \notin outputs
    BY <1>3 DEF SourceThrows, FreshInv
  <2>4. GivenInv'
    BY <2>1, <2>2, <2>3, GivenPush
  <2>5. FreshInv'
    BY <1>3 DEF SourceThrows, FreshInv, SourceError, Items
  <2>6. StartedInv'
    BY <1>3 DEF SourceThrows, StartedInv
  <2>7. EndInv'
    BY <1>3 DEF SourceThrows, EndInv, Woken
  <2> QED  BY <2>4, <2>5, <2>6, <2>7
<1>4. CASE Start \/ SourceEnds \/ PumpEnds \/ (SourceThrows /\ cancelled)
  <2>1. UNCHANGED <<queue, delivered, outputs, task, pulled, cancelled, early>>
    BY <1>4 DEF Start, SourceEnds, PumpEnds, SourceThrows
  <2>2. GivenInv'
    BY <2>1 DEF GivenInv, Given
  <2>3. FreshInv' /\ StartedInv'
    BY <1>4, <2>1 DEF Start, SourceEnds, PumpEnds, SourceThrows, FreshInv, StartedInv, StageInv
  <2>4. EndInv'
    BY <1>4, <2>1 DEF Start, SourceEnds, PumpEnds, SourceThrows, EndInv, StageInv, Woken
  <2> QED  BY <2>2, <2>3, <2>4
<1>5. ASSUME NEW i \in Items, HandlerStarts(i) \/ HandlerFinally(i) PROVE OutInv'
  <2>1. UNCHANGED <<queue, delivered, outputs, pulled, cancelled, done, early>>
    BY <1>5 DEF HandlerStarts, HandlerFinally
  <2>2. GivenInv'
    BY <2>1 DEF GivenInv, Given
  <2>3. FreshInv' /\ StartedInv'
    BY <1>5, <2>1 DEF HandlerStarts, HandlerFinally, FreshInv, StartedInv, TypeOK, wake, Woken
  <2>4. EndInv'
    BY <1>5, <2>1 DEF HandlerStarts, HandlerFinally, EndInv, TypeOK, wake, Woken
  <2> QED  BY <2>2, <2>3, <2>4
<1>6. ASSUME NEW i \in Items, HandlerSettles(i) PROVE OutInv'
  <2>1. /\ task[i] = "running" /\ task' = [task EXCEPT ![i] = "settled"]
        /\ UNCHANGED <<pulled, inFlight, done, cancelled, delivered, early>>
    BY <1>6 DEF HandlerSettles
  <2>2. i <= pulled
    BY <2>1 DEF HoldInv, TypeOK, Items
  <2>3. ~(consumer = "finished" /\ ~early)
    BY <2>1, <2>2 DEF EndInv
  <2>4. CASE UNCHANGED <<queue, outputs, pump, consumer>>
    BY <2>1, <2>3, <2>4 DEF FreshInv, StartedInv, EndInv, GivenInv, Given, TypeOK
  <2>5. ASSUME NEW n \in 0..MaxOutputs, NEW new, new = [k \in 1..n |-> <<i, k>>], ~cancelled,
               queue' = queue \o new, outputs' = outputs \cup ToSet(new), wake
        PROVE  OutInv'
    <3>1. new \in [1..n -> Out]
      BY <2>5 DEF Items, Out
    <3>2. new \in Seq(Out)
      BY <3>1, SeqDef
    <3>3. IsInjective(new)
      BY <2>5 DEF IsInjective
    <3>4. \A x \in ToSet(new) : \E k \in 0..MaxOutputs : x = <<i, k>>
      BY <2>5 DEF ToSet
    <3>5. ToSet(new) \cap outputs = {}
      BY <2>1, <3>4 DEF FreshInv
    <3>6. GivenInv'
      BY <2>1, <2>5, <3>2, <3>3, <3>5, GivenPush
    <3>7. FreshInv'
      <4>1. ASSUME NEW j \in Items, NEW k \in 0..MaxOutputs,
                   task'[j] \in {"none", "scheduled", "running"}
            PROVE  <<j, k>> \notin outputs'
        <5>1. j # i /\ task[j] = task'[j]
          BY <2>1, <4>1 DEF TypeOK
        <5>2. <<j, k>> \notin outputs
          BY <4>1, <5>1 DEF FreshInv
        <5>3. <<j, k>> \notin ToSet(new)
          BY <3>4, <5>1
        <5> QED  BY <2>5, <5>2, <5>3
      <4>2. SourceError \notin ToSet(new)
        BY <3>4 DEF SourceError, Items
      <4>3. pump \in {"closing", "done"} => pump' = pump
        BY <2>5 DEF wake, Woken
      <4> QED  BY <2>5, <4>1, <4>2, <4>3 DEF FreshInv
    <3>8. StartedInv'
      BY <2>1, <2>5 DEF StartedInv, TypeOK, wake, Woken
    <3>9. EndInv'
      BY <2>1, <2>3, <2>5 DEF EndInv, wake, Woken
    <3> QED  BY <3>6, <3>7, <3>8, <3>9
  <2> QED  BY <1>6, <2>4, <2>5 DEF HandlerSettles
<1>7. CASE ConsumerRuns \/ ConsumerLeaves
  <2>1. UNCHANGED <<pulled, task, inFlight, done, outputs>>
    BY <1>7 DEF ConsumerRuns, ConsumerLeaves
  <2>2. Given' = Given
    <3>1. CASE queue # <<>> /\ delivered' = Append(delivered, Head(queue)) /\ queue' = Tail(queue)
      BY <3>1, GivenTake
    <3>2. CASE UNCHANGED <<queue, delivered>>
      BY <3>2 DEF Given
    <3> QED  BY <1>7, <3>1, <3>2 DEF ConsumerRuns, ConsumerLeaves, size
  <2>3. GivenInv'
    BY <2>1, <2>2 DEF GivenInv
  <2>4. FreshInv' /\ StartedInv'
    BY <1>7, <2>1 DEF ConsumerRuns, ConsumerLeaves, FreshInv, StartedInv, StageInv, Woken
  <2>5. EndInv'
    <3>1. done' => pump' = "done"
      BY <1>7 DEF ConsumerRuns, ConsumerLeaves, EndInv, Woken
    <3>2. CASE ~(ConsumerRuns /\ consumer' = "finished")
      BY <1>7, <3>1, <3>2 DEF ConsumerRuns, ConsumerLeaves, EndInv
    <3>3. CASE ConsumerRuns /\ consumer' = "finished"
      <4>1. Exhausted /\ queue' = queue /\ ~cancelled
        BY <3>3 DEF ConsumerRuns, StageInv
      <4>2. InFlightTasks = {}
        BY <4>1, InFlightFinite, FS_EmptySet DEF Exhausted, CountInv
      <4>3. queue = <<>>
        BY <4>1, EmptySeq DEF Exhausted, size, TypeOK
      <4>4. \A i \in Items : i <= pulled => task[i] = "finished"
        BY <4>1, <4>2 DEF InFlightTasks, StartedInv, EndInv, Exhausted, TypeOK
      <4> QED  BY <2>1, <3>1, <4>1, <4>3, <4>4 DEF EndInv, Exhausted
    <3> QED  BY <3>2, <3>3
  <2> QED  BY <2>3, <2>4, <2>5
<1> QED  BY <1>1, <1>2, <1>3, <1>4, <1>5, <1>6, <1>7 DEF Next

LEMMA OutInvariance == Spec => [](IInv /\ OutInv)
  BY InitInv, StepInv, OutInit, OutStep, PTL DEF Spec

\* Each output of each handler reaches the consumer once, and nothing is left behind
\* when the consumer was told the end.
THEOREM DeliveredOnce == Spec => []OutputsDeliveredOnce
<1>1. ASSUME IInv, OutInv PROVE OutputsDeliveredOnce
  <2>1. \A i \in 1..pulled : i \in Items /\ i <= pulled
    BY <1>1 DEF IInv, TypeOK, Items
  <2> QED  BY <1>1, <2>1 DEF OutInv, GivenInv, Given, EndInv, OutputsDeliveredOnce
<1> QED  BY <1>1, OutInvariance, PTL

-----------------------------------------------------------------------------
(* The backlog. *)

\* Handlers that may still push.
Unsettled == {i \in Items : task[i] \in {"scheduled", "running"}}

Limited == MaxConcurrency # Infinity /\ MaxBufferSize # Infinity

\* The error of the source, which the pump pushes on its way out.
Extra == IF pump \in {"closing", "done"} THEN 1 ELSE 0

\* What is queued, with all that the running handlers may add, was in bounds when the
\* last of them began, and what they push is taken from what they may add.
BacklogInv ==
    Limited => size + Cardinality(Unsettled) * MaxOutputs
                   <= MaxBufferSize - 1 + MaxConcurrency * MaxOutputs + Extra

LEMMA Times == \A a, b, m \in Nat : a <= b => a * m <= b * m
OBVIOUS

LEMMA OneLess == \A a, m \in Nat : a # 0 => (a - 1) * m = a * m - m
OBVIOUS

LEMMA UnsettledFinite ==
    ASSUME CountInv
    PROVE  /\ IsFiniteSet(Unsettled) /\ Cardinality(Unsettled) \in Nat
           /\ Cardinality(Unsettled) <= inFlight
<1>1. Unsettled \subseteq InFlightTasks
  BY DEF Unsettled, InFlightTasks
<1> QED  BY <1>1, InFlightFinite, FS_Subset, FS_CardinalityType DEF CountInv

LEMMA SizeType == ASSUME TypeOK PROVE size \in Nat
BY LenProperties DEF TypeOK, size

LEMMA BacklogInit == Init => BacklogInv
<1> SUFFICES ASSUME Init, Limited PROVE size + Cardinality(Unsettled) * MaxOutputs
                   <= MaxBufferSize - 1 + MaxConcurrency * MaxOutputs + Extra
  BY DEF BacklogInv
<1>1. Unsettled = {}
  BY DEF Init, Unsettled
<1>2. size = 0 /\ Cardinality(Unsettled) = 0 /\ Extra = 0
  BY <1>1, FS_EmptySet DEF Init, size, Extra
<1>3. MaxConcurrency \in Nat /\ 0 * MaxOutputs <= MaxConcurrency * MaxOutputs
  BY Times DEF Limited
<1> QED  BY <1>2, <1>3 DEF Limited

\* A step that brings nothing into the queue and begins no handler.
LEMMA BacklogKept ==
    ASSUME IInv, BacklogInv, TypeOK', CountInv', size' <= size, Unsettled' \subseteq Unsettled,
           Extra' >= Extra
    PROVE  BacklogInv'
<1>1. Cardinality(Unsettled') \in Nat /\ Cardinality(Unsettled) \in Nat
      /\ Cardinality(Unsettled') <= Cardinality(Unsettled)
  BY UnsettledFinite, FS_Subset, FS_CardinalityType DEF IInv
<1>2. Cardinality(Unsettled') * MaxOutputs <= Cardinality(Unsettled) * MaxOutputs
  BY <1>1, Times
<1>3. size \in Nat /\ size' \in Nat /\ Extra \in Nat /\ Extra' \in Nat
  BY SizeType, LenProperties DEF IInv, Extra, TypeOK, size
<1>4. Limited' <=> Limited
  BY DEF Limited
<1>5. ASSUME Limited PROVE MaxBufferSize \in Nat /\ MaxConcurrency * MaxOutputs \in Nat
                           /\ Cardinality(Unsettled) * MaxOutputs \in Nat
                           /\ Cardinality(Unsettled') * MaxOutputs \in Nat
  BY <1>1, <1>5 DEF Limited
<1> HIDE DEF size, Extra, Limited
<1> QED  BY <1>2, <1>3, <1>4, <1>5 DEF BacklogInv

LEMMA BacklogStep == IInv /\ BacklogInv /\ [Next]_vars => BacklogInv'
<1> SUFFICES ASSUME IInv, BacklogInv, [Next]_vars, Limited PROVE BacklogInv'
  BY DEF BacklogInv, Limited
<1> DEFINE room == MaxBufferSize - 1 + MaxConcurrency * MaxOutputs
<1>1. IInv' /\ TypeOK' /\ CountInv'
  BY StepInv DEF IInv
<1>2. /\ size \in Nat /\ size' \in Nat /\ room \in Int /\ MaxConcurrency \in Nat /\ MaxBufferSize \in Nat
      /\ Extra \in Nat /\ Extra' \in Nat
  BY <1>1, SizeType, LenProperties DEF IInv, Extra, TypeOK, size, Limited
<1>3. size + Cardinality(Unsettled) * MaxOutputs <= room + Extra
  BY DEF BacklogInv
<1>4. CASE UNCHANGED vars
  <2>1. size' = size /\ Unsettled' = Unsettled /\ Extra' = Extra
    BY <1>4 DEF vars, size, Unsettled, Extra
  <2> QED  BY <1>1, <1>2, <2>1, BacklogKept
<1>5. CASE (SourceYields \/ PumpResumes) /\ task' = task
  <2>1. size' = size /\ Unsettled' = Unsettled /\ Extra' >= Extra
    BY <1>5 DEF SourceYields, PumpResumes, PumpHolds, size, Unsettled, Extra
  <2> QED  BY <1>1, <1>2, <2>1, BacklogKept
<1>6. CASE (SourceYields \/ PumpResumes) /\ ~PumpMustWait /\ queue' = queue
  <2>1. size' = size /\ size <= MaxBufferSize - 1
    BY <1>2, <1>6 DEF PumpMustWait, size, Limited
  <2>2. Cardinality(Unsettled') \in Nat /\ Cardinality(Unsettled') <= MaxConcurrency
    <3>1. Unsettled' \subseteq InFlightTasks' /\ InFlightTasks' \subseteq Items
      BY DEF Unsettled, InFlightTasks
    <3>2. IsFiniteSet(Items)
      BY FS_Interval DEF Items
    <3>3. IsFiniteSet(InFlightTasks')
      BY <3>1, <3>2, FS_Subset
    <3>4. Cardinality(Unsettled') \in Nat /\ Cardinality(Unsettled') <= Cardinality(InFlightTasks')
      BY <3>1, <3>3, FS_Subset, FS_CardinalityType
    <3>5. Cardinality(InFlightTasks') <= MaxConcurrency
      BY <1>1 DEF CountInv, Limited
    <3>6. Cardinality(InFlightTasks') \in Nat
      BY <3>3, FS_CardinalityType
    <3> QED  BY <1>2, <3>4, <3>5, <3>6
  <2>3. Cardinality(Unsettled') * MaxOutputs <= MaxConcurrency * MaxOutputs
    BY <1>2, <2>2, Times
  <2> QED  BY <1>2, <2>1, <2>2, <2>3 DEF BacklogInv
<1>7. CASE SourceThrows
  <2>1. Unsettled' = Unsettled /\ Extra = 0 /\ Extra' = 1
    BY <1>7 DEF SourceThrows, Unsettled, Extra
  <2>2. size' <= size + 1
    BY <1>2, <1>7, AppendProperties DEF SourceThrows, size, IInv, TypeOK, SourceError
  <2>3. Cardinality(Unsettled) * MaxOutputs \in Nat
    BY UnsettledFinite DEF IInv
  <2> QED  BY <1>2, <1>3, <2>1, <2>2, <2>3 DEF BacklogInv
<1>8. ASSUME NEW i \in Items, HandlerSettles(i) PROVE BacklogInv'
  <2>1. Unsettled' = Unsettled \ {i} /\ i \in Unsettled /\ Extra' >= Extra
    BY <1>8, SMTT(30) DEF HandlerSettles, Unsettled, Extra, IInv, TypeOK, wake, Woken
  <2>2. /\ Cardinality(Unsettled) \in Nat \ {0}
        /\ Cardinality(Unsettled') = Cardinality(Unsettled) - 1
    BY <2>1, UnsettledFinite, FS_RemoveElement, FS_EmptySet DEF IInv
  <2>3. size' <= size + MaxOutputs
    <3>1. CASE queue' = queue
      BY <1>2, <3>1 DEF size
    <3>2. ASSUME NEW n \in 0..MaxOutputs, NEW new, new = [k \in 1..n |-> <<i, k>>],
                 queue' = queue \o new
          PROVE  size' <= size + MaxOutputs
      <4>1. new \in Seq(Out) /\ Len(new) = n
        <5>1. new \in [1..n -> Out]
          BY <3>2 DEF Items, Out
        <5> QED  BY <3>2, <5>1, SeqDef, LenProperties
      <4>2. Len(queue \o new) = Len(queue) + Len(new)
        BY <4>1, ConcatProperties DEF IInv, TypeOK, Out
      <4> QED  BY <1>2, <3>2, <4>1, <4>2 DEF size
    <3> QED  BY <1>8, <3>1, <3>2 DEF HandlerSettles
  <2>4. Cardinality(Unsettled') * MaxOutputs = Cardinality(Unsettled) * MaxOutputs - MaxOutputs
    BY <2>2, OneLess
  <2>5. Cardinality(Unsettled) * MaxOutputs \in Nat
    BY <2>2
  <2> QED  BY <1>2, <1>3, <2>1, <2>3, <2>4, <2>5 DEF BacklogInv
<1>9. CASE \/ Start \/ SourceEnds \/ PumpEnds \/ ConsumerRuns \/ ConsumerLeaves
           \/ \E i \in Items : HandlerStarts(i) \/ HandlerFinally(i)
  <2>1. Unsettled' = Unsettled
    BY <1>9 DEF Start, SourceEnds, PumpEnds, ConsumerRuns, ConsumerLeaves, HandlerStarts,
                HandlerFinally, Unsettled, IInv, TypeOK
  <2>2. Extra' >= Extra
    BY <1>9 DEF Start, SourceEnds, PumpEnds, ConsumerRuns, ConsumerLeaves, HandlerStarts,
                HandlerFinally, Extra, wake, Woken, IInv, StageInv
  <2>3. size' <= size
    <3>1. CASE queue' = queue
      BY <1>2, <3>1 DEF size
    <3>2. CASE size > 0 /\ queue' = Tail(queue)
      BY <1>2, <3>2, HeadTailProperties, EmptySeq DEF size, IInv, TypeOK
    <3> QED  BY <1>9, <3>1, <3>2 DEF Start, SourceEnds, PumpEnds, ConsumerRuns, ConsumerLeaves,
                                     HandlerStarts, HandlerFinally
  <2> QED  BY <1>1, <2>1, <2>2, <2>3, BacklogKept
<1>10. SourceYields \/ PumpResumes => queue' = queue /\ (task' = task \/ ~PumpMustWait)
  BY DEF SourceYields, PumpResumes, PumpHolds
<1> QED  BY <1>4, <1>5, <1>6, <1>7, <1>8, <1>9, <1>10 DEF Next

\* The results that wait for the consumer never exceed the buffer by more than the
\* running handlers can add, and the types are right.
THEOREM Limits == Spec => []WithinLimits
<1>1. ASSUME IInv, BacklogInv PROVE WithinLimits
  <2>1. CASE Limited
    <3>1. /\ size \in Nat /\ MaxBufferSize \in Nat /\ MaxConcurrency * MaxOutputs \in Nat
          /\ Cardinality(Unsettled) * MaxOutputs \in Nat /\ Extra \in {0, 1}
      BY <1>1, <2>1, SizeType, UnsettledFinite DEF IInv, Limited, Extra
    <3> QED  BY <1>1, <2>1, <3>1 DEF IInv, BacklogInv, WithinLimits, BacklogIsBounded, Limited
  <2>2. CASE ~Limited
    BY <1>1, <2>2 DEF IInv, WithinLimits, BacklogIsBounded, Limited
  <2> QED  BY <2>1, <2>2
<1>2. Spec => [](IInv /\ BacklogInv)
  BY InitInv, StepInv, BacklogInit, BacklogStep, PTL DEF Spec
<1> QED  BY <1>1, <1>2, PTL

HIDE TransformAssumption DEF TransformAssumption

-----------------------------------------------------------------------------
(* All systems of MCStreams together. *)

\* The system that "model" names takes its steps, and the others stutter.
LEMMA EachStutters ==
    [MCNext]_mcvars => /\ [Next]_vars /\ [Split!Next]_split /\ [Polls!Next]_polls
                       /\ [Combine!Next]_combine /\ [Operators!Next]_operators
BY DEF MCNext, mcvars, split, polls, combine, operators, schedule

-----------------------------------------------------------------------------
(* The streams of a queue. *)

\* What has been given out, followed by the rest of the batch, is what was received.
PollsData ==
    /\ yielded \in Seq(Nat) /\ batch \in Seq(Nat) /\ qLeft \in 0..MaxMessages
    /\ Len(yielded) + Len(batch) = Polls!Messages
    /\ \A i \in 1..Len(yielded) : yielded[i] = i
    /\ \A i \in 1..Len(batch) : batch[i] = Len(yielded) + i

\* Between two calls of receive() there is no batch, and a batch is never given out empty.
PollsStage ==
    /\ kind \in Polls!Streams \cup {"none"} /\ (kind = "none" => qStage = "none")
    /\ qStage \in {"none", "receive", "batch", "offer", "sleep", "done"}
    /\ delay \in 0..Polls!MaxBackoff /\ offered \in {"none", "success", "error"}
    /\ qStage \in {"none", "receive", "sleep"} => batch = <<>>
    /\ qStage = "batch" => batch # <<>>
    /\ qStage = "offer" => offered # "none" /\ (offered = "error" => batch = <<>>)

\* A parallel batch is answered with ids when every item has been sent.
PollsSends ==
    /\ sends \in [Polls!Sends -> {"none", "sent", "ok", "failed"}]
    /\ qAnswer \in {"none", "ids", "error"}
    /\ qAnswer = "ids" => \A n \in Polls!Sends : sends[n] = "ok"

PollsInv == PollsData /\ PollsStage /\ PollsSends

LEMMA PollsInit == Polls!Init => PollsInv
<1> SUFFICES ASSUME Polls!Init PROVE PollsInv
  OBVIOUS
<1>1. PollsData
  BY PollsAssumption DEF Polls!Init, PollsData, Polls!Messages
<1>2. PollsStage
  BY DEF Polls!Init, PollsStage, Polls!MaxBackoff, Polls!Streams
<1>3. PollsSends
  BY DEF Polls!Init, PollsSends
<1> QED  BY <1>1, <1>2, <1>3 DEF PollsInv

LEMMA PollsStep == PollsInv /\ [Polls!Next]_polls => PollsInv'
<1> SUFFICES ASSUME PollsInv, [Polls!Next]_polls PROVE PollsInv'
  OBVIOUS
<1>1. PollsData /\ PollsStage /\ PollsSends
  BY DEF PollsInv
<1> USE PollsAssumption DEF Polls!UnchangedSends
<1>2. CASE UNCHANGED polls
  BY <1>1, <1>2 DEF polls, PollsInv, PollsData, PollsStage, PollsSends, Polls!Messages
<1>3. ASSUME NEW k \in Polls!Streams, Polls!iterate(k) PROVE PollsInv'
  <2>1. PollsData' /\ PollsSends'
    BY <1>1, <1>3 DEF Polls!iterate, PollsData, PollsSends, Polls!Messages
  <2>2. PollsStage'
    BY <1>1, <1>3 DEF Polls!iterate, PollsStage, Polls!Streams
  <2> QED  BY <2>1, <2>2 DEF PollsInv
<1>4. CASE Polls!Receives
  <2>1. PICK n \in 0..qLeft :
          /\ qStage = "receive" /\ qLeft' = qLeft - n
          /\ batch' = [i \in 1..n |-> Polls!Messages + i]
          /\ \/ n > 0 /\ qStage' = "batch" /\ delay' = 0
             \/ n = 0 /\ kind = "poll" /\ qStage' = "sleep" /\ UNCHANGED delay
             \/ n = 0 /\ kind # "poll" /\ qStage' = "done" /\ UNCHANGED delay
          /\ UNCHANGED <<kind, offered, qAborted, yielded, sends, qAnswer>>
    BY <1>4 DEF Polls!Receives
  <2>2. batch = <<>> /\ kind # "none"
    BY <1>1, <2>1 DEF PollsStage
  <2>3. Len(batch') = n /\ batch' \in Seq(Nat) /\ (batch' = <<>> <=> n = 0)
    <3>1. batch' \in [1..n -> Nat]
      BY <1>1, <2>1 DEF PollsData, Polls!Messages
    <3> QED  BY <2>1, <3>1, SeqDef, LenProperties, EmptySeq DEF PollsData
  <2>4. PollsData'
    <3>1. Len(yielded) = Polls!Messages /\ qLeft' \in 0..MaxMessages /\ yielded' = yielded
      BY <1>1, <2>1, <2>2, EmptySeq DEF PollsData, Polls!Messages
    <3>2. Polls!Messages' = Polls!Messages + n
      BY <1>1, <2>1 DEF PollsData, Polls!Messages
    <3>3. \A i \in 1..n : batch'[i] = Len(yielded) + i
      BY <2>1, <3>1
    <3> QED  BY <1>1, <2>3, <3>1, <3>2, <3>3 DEF PollsData
  <2>5. PollsStage'
    BY <1>1, <2>1, <2>2, <2>3 DEF PollsStage, Polls!MaxBackoff, PollsData
  <2>6. PollsSends'
    BY <1>1, <2>1 DEF PollsSends
  <2> QED  BY <2>4, <2>5, <2>6 DEF PollsInv
<1>5. CASE Polls!GivesOut
  <2>1. batch # <<>> /\ kind # "none"
    BY <1>1, <1>5 DEF Polls!GivesOut, PollsStage
  <2>2. CASE UNCHANGED <<batch, offered, yielded>> /\ qStage' = "done"
    BY <1>1, <1>5, <2>1, <2>2 DEF Polls!GivesOut, PollsInv, PollsData, PollsStage, PollsSends, Polls!Messages
  <2>3. CASE /\ qStage' = "offer" /\ offered' = "success"
             /\ batch' = Tail(batch) /\ yielded' = Append(yielded, Head(batch))
    <3>1. /\ Len(batch') = Len(batch) - 1 /\ batch' \in Seq(Nat)
          /\ \A i \in 1..Len(batch) - 1 : batch'[i] = batch[i + 1]
          /\ Head(batch) = batch[1] /\ batch[1] \in Nat /\ Len(batch) \in Nat \ {0}
      BY <1>1, <2>1, <2>3, HeadTailProperties, EmptySeq, LenProperties, ElementOfSeq DEF PollsData
    <3>2. /\ Len(yielded') = Len(yielded) + 1 /\ yielded' \in Seq(Nat)
          /\ \A i \in 1..Len(yielded) : yielded'[i] = yielded[i]
          /\ yielded'[Len(yielded) + 1] = batch[1] /\ Len(yielded) \in Nat
      BY <1>1, <2>3, <3>1, AppendProperties, LenProperties DEF PollsData
    <3>3. batch[1] = Len(yielded) + 1
      BY <1>1, <3>1 DEF PollsData
    <3>4. PollsData'
      <4>1. \A i \in 1..Len(yielded') : yielded'[i] = i
        <5>1. \A i \in 1..Len(yielded) : yielded'[i] = i
          BY <1>1, <3>2 DEF PollsData
        <5> QED  BY <3>2, <3>3, <5>1
      <4>2. \A i \in 1..Len(batch') : batch'[i] = Len(yielded') + i
        BY <1>1, <3>1, <3>2 DEF PollsData
      <4>4. Len(yielded') + Len(batch') = Polls!Messages
        BY <1>1, <3>1, <3>2 DEF PollsData
      <4>3. qLeft' = qLeft /\ Polls!Messages' = Polls!Messages /\ Polls!Messages \in Int
        BY <1>1, <1>5 DEF Polls!GivesOut, Polls!Messages, PollsData
      <4> QED  BY <1>1, <3>1, <3>2, <4>1, <4>2, <4>3, <4>4 DEF PollsData
    <3>5. PollsStage' /\ PollsSends'
      BY <1>1, <1>5, <2>1, <2>3 DEF Polls!GivesOut, PollsStage, PollsSends
    <3> QED  BY <3>4, <3>5 DEF PollsInv
  <2> QED  BY <1>5, <2>2, <2>3 DEF Polls!GivesOut
<1>6. CASE Polls!Resumes
  <2>1. kind \in Polls!Streams /\ offered # "none"
    BY <1>1, <1>6 DEF Polls!Resumes, PollsStage
  <2>2. /\ Polls!After(offered) \in {"batch", "done", "receive", "sleep"}
        /\ Polls!After(offered) = "batch" => batch # <<>>
        /\ Polls!After(offered) \in {"receive", "sleep"} => batch = <<>>
    <3>1. offered = "success" /\ batch # <<>> => Polls!After(offered) = "batch"
      BY DEF Polls!After
    <3>2. ~(offered = "success" /\ batch # <<>>) =>
             batch = <<>> /\ Polls!After(offered) \in {"done", "receive", "sleep"}
      BY <1>1, <1>6, <2>1 DEF Polls!After, Polls!Streams, Polls!Resumes, PollsStage
    <3> QED  BY <3>1, <3>2
  <2>3. PollsData' /\ PollsSends'
    BY <1>1, <1>6 DEF Polls!Resumes, PollsData, PollsSends, Polls!Messages
  <2>4. PollsStage'
    BY <1>1, <1>6, <2>1, <2>2 DEF Polls!Resumes, PollsStage, Polls!Streams
  <2> QED  BY <2>3, <2>4 DEF PollsInv
<1>7. CASE Polls!ReceiveFails \/ Polls!SleepIsAborted \/ Polls!TimerFires \/ Polls!Abort \/ Polls!Return
  <2>1. PollsData' /\ PollsSends'
    BY <1>1, <1>7 DEF Polls!ReceiveFails, Polls!SleepIsAborted, Polls!TimerFires, Polls!Abort,
                      Polls!Return, PollsData, PollsSends, Polls!Messages
  <2>2. PollsStage'
    BY <1>1, <1>7 DEF Polls!ReceiveFails, Polls!SleepIsAborted, Polls!TimerFires, Polls!Abort,
                      Polls!Return, PollsStage, Polls!MaxBackoff
  <2> QED  BY <2>1, <2>2 DEF PollsInv
<1>8. CASE Polls!sendBatch \/ \E n \in Polls!Sends, how \in {"ok", "failed"} : Polls!SendSettles(n, how)
  <2>1. PollsData' /\ PollsStage'
    BY <1>1, <1>8 DEF Polls!sendBatch, Polls!SendSettles, Polls!stream, PollsData, PollsStage, Polls!Messages
  <2>2. PollsSends'
    <3>1. CASE Polls!sendBatch
      BY <1>1, <3>1 DEF Polls!sendBatch, PollsSends
    <3>2. ASSUME NEW n \in Polls!Sends, NEW how \in {"ok", "failed"}, Polls!SendSettles(n, how)
          PROVE  PollsSends'
      BY <1>1, <3>2 DEF Polls!SendSettles, PollsSends
    <3> QED  BY <1>8, <3>1, <3>2
  <2> QED  BY <2>1, <2>2 DEF PollsInv
<1> QED  BY <1>2, <1>3, <1>4, <1>5, <1>6, <1>7, <1>8 DEF Polls!Next

\* For any number of messages, batches and backoffs: what has been given out is the beginning
\* of what the broker has, and with the rest of the batch all that was received; a parallel
\* batch is answered with ids only if every item was sent.
THEOREM StreamsOfQueues == MCSpec => []MessagesAreStreamed
<1>1. PollsInv => MessagesAreStreamed
  <2> SUFFICES ASSUME PollsInv PROVE MessagesAreStreamed
    OBVIOUS
  <2> DEFINE all == [n \in 1..Polls!Messages |-> n]
  <2>1. /\ Len(yielded) \in Nat /\ Len(batch) \in Nat /\ Polls!Messages = Len(yielded) + Len(batch)
        /\ yielded \in Seq(Nat) /\ batch \in Seq(Nat)
    BY LenProperties DEF PollsInv, PollsData
  <2>2. all \in Seq(Nat) /\ Len(all) = Polls!Messages
    <3>1. all \in [1..Polls!Messages -> Nat] /\ Polls!Messages \in Nat
      BY <2>1
    <3> QED  BY <3>1, SeqDef, LenProperties
  <2>3. Polls!IsPrefix(yielded, all)
    <3>1. \A i \in 1..Len(yielded) : yielded[i] = all[i]
      BY <2>1 DEF PollsInv, PollsData
    <3>2. SubSeq(yielded, 1, Len(yielded)) = SubSeq(all, 1, Len(yielded))
      <4> HIDE DEF all
      <4> QED  BY <2>1, <2>2, <3>1
    <3> HIDE DEF all
    <3> QED  BY <2>1, <2>2, <3>2 DEF Polls!IsPrefix
  <2>4. yielded \o batch = all
    <3>1. /\ yielded \o batch \in Seq(Nat) /\ Len(yielded \o batch) = Polls!Messages
          /\ \A i \in 1..Polls!Messages : (yielded \o batch)[i] =
                 IF i <= Len(yielded) THEN yielded[i] ELSE batch[i - Len(yielded)]
      BY <2>1, ConcatProperties
    <3>2. \A i \in 1..Polls!Messages : (yielded \o batch)[i] = all[i]
      BY <2>1, <3>1 DEF PollsInv, PollsData
    <3> HIDE DEF all
    <3> QED  BY <2>1, <2>2, <3>1, <3>2, SeqEqual
  <2>5. Polls!TypeOK
    BY DEF PollsInv, PollsData, PollsStage, PollsSends, Polls!TypeOK
  <2>6. Polls!StreamIsFaithful
    BY <2>3, <2>4 DEF Polls!StreamIsFaithful, PollsInv, PollsSends
  <2> QED  BY <2>5, <2>6 DEF MessagesAreStreamed
<1>2. MCSpec => []PollsInv
  <2>1. MCInit => PollsInv
    BY PollsInit DEF MCInit
  <2>2. PollsInv /\ [MCNext]_mcvars => PollsInv'
    BY PollsStep, EachStutters
  <2> QED  BY <2>1, <2>2, PTL DEF MCSpec
<1> QED  BY <1>1, <1>2, PTL

-----------------------------------------------------------------------------
(* The split: one pump that feeds several branches. *)

SplitItems == [type : {"success", "error"}, n : 0..NumItems]

\* The values the variables of the split take.
SplitType ==
    /\ sMode \in {"none", "splitN", "splitBy"}
    /\ sPump \in {"none", "pull", "key", "capacity", "send", "done"}
    /\ sPulled \in 0..NumItems /\ to \in Split!Branches /\ item \in SplitItems
    /\ capWait \subseteq Split!Branches
    /\ closed \in [Split!Branches -> BOOLEAN] /\ sLeft \in [Split!Branches -> BOOLEAN]
    /\ keyOf \in Seq(0..NumBranches) /\ Len(keyOf) = sPulled /\ signal \in {"armed", "fired"}
    /\ buffer \in [Split!Branches -> Seq(SplitItems)] /\ got \in [Split!Branches -> Seq(SplitItems)]

\* What the pump holds where it stands: the last item, whose key is recorded when it is
\* known; and a branch that is full while it waits for room is one it waits for.
SplitStage ==
    /\ sMode = "none" <=> sPump = "none"
    /\ sMode = "none" => sPulled = 0 /\ \A b \in Split!Branches : got[b] = <<>>
    /\ sPump \in {"key", "capacity", "send"} => sPulled > 0 /\ item.n = sPulled
    /\ sPump \in {"key", "capacity"} => to = 1
    /\ sPump = "key" => sMode = "splitBy" /\ item.type = "success" /\ keyOf[sPulled] = 0
    /\ sPump = "capacity" => /\ sMode = "splitBy" => item.type = "error" /\ keyOf[sPulled] = 0
                             /\ \A b \in Split!Branches :
                                   ~closed[b] /\ Split!Full(b) => b \in capWait
    /\ sPump = "send" => /\ item.type = "success"
                         /\ sMode = "splitBy" => keyOf[sPulled] = to
    /\ sPump = "done" => Split!AllClosed

\* What waits at a branch is the end of what it was given; it is within the buffer, but
\* for the error of a pump that failed.
BranchBuffer(b) ==
    /\ Len(buffer[b]) <= Len(got[b])
    /\ \A i \in 1..Len(buffer[b]) : buffer[b][i] = got[b][Len(got[b]) - Len(buffer[b]) + i]
    /\ \/ Len(buffer[b]) <= BufferSize
       \/ /\ closed[b] /\ Len(buffer[b]) = BufferSize + 1
          /\ buffer[b][BufferSize + 1].type = "error"

\* The items of the source that the pump is through with, as far as branch b goes.
Through(b) == IF \/ sPump \in {"key", "capacity"}
                 \/ sPump = "send" /\ (sMode = "splitBy" \/ to <= b)
              THEN sPulled - 1 ELSE sPulled

BranchPrefix(b) ==
    sMode = "splitN" =>
        /\ \A i \in 1..Len(got[b]) :
              \/ got[b][i].n = i
              \/ closed[b] /\ i = Len(got[b]) /\ got[b][i] = Split!Error(0)
        /\ ~closed[b] => Len(got[b]) = Through(b)

BranchKeys(b) ==
    sMode = "splitBy" =>
        /\ \A i \in 1..Len(got[b]) :
              /\ got[b][i].n \in 0..Through(b) /\ (got[b][i].n = 0 => closed[b])
              /\ got[b][i].n # 0 =>
                    /\ \A j \in 1..i - 1 : got[b][j].n < got[b][i].n
                    /\ keyOf[got[b][i].n] = IF got[b][i].type = "success" THEN b ELSE 0
        /\ ~closed[b] => \A n \in 1..Through(b) : keyOf[n] \in {0, b} =>
                            \E i \in 1..Len(got[b]) : got[b][i].n = n

SplitInv == /\ SplitType /\ SplitStage
            /\ \A b \in Split!Branches : BranchBuffer(b) /\ BranchPrefix(b) /\ BranchKeys(b)

LEMMA SplitInit == Split!Init => SplitInv
<1> SUFFICES ASSUME Split!Init PROVE SplitInv
  OBVIOUS
<1> USE SplitAssumption, TransformAssumption DEF SplitAssumption, TransformAssumption, Split!Branches
<1>1. SplitType
  <2>1. item \in SplitItems
    BY DEF Split!Init, SplitItems, Split!Value
  <2> QED  BY <2>1 DEF Split!Init, SplitType
<1>2. SplitStage
  BY DEF Split!Init, SplitStage
<1>3. ASSUME NEW b \in Split!Branches PROVE BranchBuffer(b) /\ BranchPrefix(b) /\ BranchKeys(b)
  BY DEF Split!Init, BranchBuffer, BranchPrefix, BranchKeys
<1> QED  BY <1>1, <1>2, <1>3 DEF SplitInv

\* What a step does at branch b: the channel is as it was, an item is taken from it, or one
\* is given to it.
Same(b) == buffer'[b] = buffer[b] /\ got'[b] = got[b]
Takes(b) == buffer[b] # <<>> /\ buffer'[b] = Tail(buffer[b]) /\ got'[b] = got[b]
Gets(b, x) == ~closed[b] /\ buffer'[b] = Append(buffer[b], x) /\ got'[b] = Append(got[b], x)

\* The item that comes next for b is not for it, ...
Passes(b) == /\ Same(b) \/ Takes(b)
             /\ closed[b] => closed'[b]
             /\ \/ Through(b)' = Through(b)
                \/ /\ Through(b)' = Through(b) + 1
                   /\ closed'[b] \/ (sMode = "splitBy" /\ keyOf'[Through(b) + 1] \notin {0, b})

\* ... or is, ...
Delivered(b) == /\ closed'[b] = closed[b] /\ Len(buffer[b]) < BufferSize
                /\ Through(b)' = Through(b) + 1
                /\ \E x \in SplitItems :
                      /\ Gets(b, x) /\ x.n = Through(b) + 1
                      /\ sMode = "splitBy" =>
                            keyOf'[x.n] = IF x.type = "success" THEN b ELSE 0

\* ... or the pump fails.
Failed(b) == Gets(b, Split!Error(0)) /\ closed'[b] /\ Through(b)' = Through(b)

Moves(b) == /\ Passes(b) \/ Delivered(b) \/ Failed(b)
            /\ \A n \in 1..Through(b) : keyOf'[n] = keyOf[n]

LEMMA ThroughType ==
    ASSUME SplitType, SplitStage, NEW b
    PROVE  Through(b) \in 0..sPulled
<1>1. sPulled \in Nat
  BY DEF SplitType
<1> QED  BY <1>1 DEF SplitStage, Through

\* What giving an item does to the sequences of a branch.
LEMMA GetsFacts ==
    ASSUME SplitType, NEW b \in Split!Branches, NEW x \in SplitItems, Gets(b, x)
    PROVE  /\ Len(got'[b]) = Len(got[b]) + 1 /\ Len(buffer'[b]) = Len(buffer[b]) + 1
           /\ Len(got[b]) \in Nat /\ Len(buffer[b]) \in Nat
           /\ \A i \in 1..Len(got[b]) : got'[b][i] = got[b][i]
           /\ \A i \in 1..Len(buffer[b]) : buffer'[b][i] = buffer[b][i]
           /\ got'[b][Len(got[b]) + 1] = x /\ buffer'[b][Len(buffer[b]) + 1] = x
<1>1. got[b] \in Seq(SplitItems) /\ buffer[b] \in Seq(SplitItems)
  BY DEF SplitType
<1> QED  BY <1>1, AppendProperties, LenProperties DEF Gets

LEMMA BufferStep ==
    ASSUME SplitType, NEW b \in Split!Branches, BranchBuffer(b), Moves(b)
    PROVE  BranchBuffer(b)'
<1>1. got[b] \in Seq(SplitItems) /\ buffer[b] \in Seq(SplitItems) /\ BufferSize \in Nat \ {0}
  BY SplitAssumption DEF SplitType, SplitAssumption
<1>2. Len(got[b]) \in Nat /\ Len(buffer[b]) \in Nat
  BY <1>1, LenProperties
<1>3. CASE Same(b) /\ (closed[b] => closed'[b])
  BY <1>1, <1>2, <1>3 DEF Same, BranchBuffer
<1>4. CASE Takes(b) /\ (closed[b] => closed'[b])
  <2>1. /\ Len(buffer'[b]) = Len(buffer[b]) - 1 /\ Len(buffer[b]) > 0
        /\ \A i \in 1..Len(buffer[b]) - 1 : buffer'[b][i] = buffer[b][i + 1]
    BY <1>1, <1>2, <1>4, HeadTailProperties, EmptySeq DEF Takes
  <2>2. PICK g \in Nat, w \in Nat : g = Len(got[b]) /\ w = Len(buffer[b])
    BY <1>2
  <2>3. Len(got'[b]) = g /\ Len(buffer'[b]) = w - 1 /\ got'[b] = got[b] /\ w > 0 /\ w <= g
    BY <1>4, <2>1, <2>2 DEF Takes, BranchBuffer
  <2>6. g \in Nat /\ w \in Nat
    BY <2>2
  <2>4. ASSUME NEW i \in 1..w - 1 PROVE buffer'[b][i] = got'[b][g - (w - 1) + i]
    <3>1. buffer[b][i + 1] = got[b][g - w + (i + 1)]
      <4>1. i + 1 \in 1..w
        BY <2>6
      <4> QED  BY <2>2, <4>1 DEF BranchBuffer
    <3>2. g - w + (i + 1) = g - (w - 1) + i
      BY <2>6
    <3> QED  BY <2>1, <2>2, <2>3, <3>1, <3>2
  <2>5. \/ w - 1 <= BufferSize
        \/ closed'[b] /\ w - 1 = BufferSize + 1 /\ buffer'[b][BufferSize + 1].type = "error"
    BY <1>1, <2>2 DEF BranchBuffer
  <2>8. w - 1 <= g
    BY <2>3, <2>6
  <2> QED  BY <2>3, <2>4, <2>5, <2>8 DEF BranchBuffer
<1>5. ASSUME NEW x \in SplitItems, Gets(b, x),
             \/ Len(buffer[b]) < BufferSize
             \/ x.type = "error" /\ closed'[b]
      PROVE  BranchBuffer(b)'
  <2>1. ~closed[b] /\ Len(buffer[b]) <= BufferSize
    BY <1>5 DEF Gets, BranchBuffer
  <2>2. PICK g \in Nat, w \in Nat : g = Len(got[b]) /\ w = Len(buffer[b])
    BY <1>2
  <2>3. /\ Len(got'[b]) = g + 1 /\ Len(buffer'[b]) = w + 1 /\ w <= g
        /\ got'[b][g + 1] = x /\ buffer'[b][w + 1] = x
    BY <1>5, <2>2, GetsFacts DEF BranchBuffer
  <2>6. g \in Nat /\ w \in Nat
    BY <2>2
  <2>7. w <= g
    BY <2>3
  <2>4. ASSUME NEW i \in 1..w + 1
        PROVE  buffer'[b][i] = got'[b][(g + 1) - (w + 1) + i]
    <3>1. CASE i = w + 1
      <4>1. (g + 1) - (w + 1) + i = g + 1
        BY <2>6, <3>1
      <4> QED  BY <2>3, <3>1, <4>1
    <3>2. CASE i \in 1..w
      <4>1. buffer[b][i] = got[b][g - w + i] /\ buffer'[b][i] = buffer[b][i]
        BY <1>5, <2>2, <3>2, GetsFacts DEF BranchBuffer
      <4>2. g - w + i \in 1..g /\ (g + 1) - (w + 1) + i = g - w + i
        BY <2>6, <2>7, <3>2
      <4>3. got'[b][g - w + i] = got[b][g - w + i]
        BY <1>5, <2>2, <4>2, GetsFacts
      <4> QED  BY <4>1, <4>2, <4>3
    <3>3. i = w + 1 \/ i \in 1..w
      BY <2>6
    <3> QED  BY <3>1, <3>2, <3>3
  <2>5. \/ w + 1 <= BufferSize
        \/ closed'[b] /\ w + 1 = BufferSize + 1 /\ buffer'[b][BufferSize + 1].type = "error"
    BY <1>1, <1>5, <2>1, <2>2, <2>3
  <2>8. w + 1 <= g + 1
    BY <2>6, <2>7
  <2> QED  BY <2>3, <2>4, <2>5, <2>8 DEF BranchBuffer
<1>6. Split!Error(0) \in SplitItems /\ Split!Error(0).type = "error"
  BY TransformAssumption DEF TransformAssumption, Split!Error, SplitItems
<1> QED  BY <1>3, <1>4, <1>5, <1>6 DEF Moves, Passes, Delivered, Failed

LEMMA PrefixStep ==
    ASSUME SplitType, SplitStage, NEW b \in Split!Branches, BranchPrefix(b), Moves(b), sMode' = sMode
    PROVE  BranchPrefix(b)'
<1> SUFFICES ASSUME sMode = "splitN"
             PROVE  /\ \A i \in 1..Len(got'[b]) :
                          \/ got'[b][i].n = i
                          \/ closed'[b] /\ i = Len(got'[b]) /\ got'[b][i] = Split!Error(0)
                    /\ ~closed'[b] => Len(got'[b]) = Through(b)'
  BY DEF BranchPrefix
<1>1. Len(got[b]) \in Nat /\ Through(b) \in Nat
  BY ThroughType, LenProperties DEF SplitType
<1>2. CASE Passes(b)
  <2>1. got'[b] = got[b]
    BY <1>2 DEF Passes, Same, Takes
  <2> QED  BY <1>1, <1>2, <2>1 DEF Passes, BranchPrefix
<1>3. CASE Delivered(b)
  <2>1. PICK x \in SplitItems : Gets(b, x) /\ x.n = Through(b) + 1
    BY <1>3 DEF Delivered
  <2>2. ~closed[b] /\ ~closed'[b] /\ Len(got[b]) = Through(b)
    BY <1>3, <2>1 DEF Delivered, Gets, BranchPrefix, SplitType
  <2>3. \A i \in 1..Len(got[b]) : got[b][i].n = i
    BY <2>2 DEF BranchPrefix
  <2>4. /\ Len(got'[b]) = Len(got[b]) + 1 /\ got'[b][Len(got[b]) + 1] = x
        /\ \A i \in 1..Len(got[b]) : got'[b][i] = got[b][i]
    BY <2>1, GetsFacts
  <2>5. Through(b)' = Through(b) + 1 /\ x.n = Len(got[b]) + 1
    BY <1>3, <2>1, <2>2 DEF Delivered
  <2>6. \A i \in 1..Len(got[b]) + 1 : got'[b][i].n = i
    <3> SUFFICES ASSUME NEW i \in 1..Len(got[b]) + 1 PROVE got'[b][i].n = i
      OBVIOUS
    <3>1. i = Len(got[b]) + 1 \/ i \in 1..Len(got[b])
      BY <1>1
    <3> QED  BY <2>3, <2>4, <2>5, <3>1
  <2> QED  BY <2>2, <2>4, <2>5, <2>6
<1>4. CASE Failed(b)
  <2>1. Split!Error(0) \in SplitItems
    BY TransformAssumption DEF TransformAssumption, Split!Error, SplitItems
  <2>2. ~closed[b] /\ closed'[b] /\ Gets(b, Split!Error(0))
    BY <1>4 DEF Failed, Gets
  <2>3. \A i \in 1..Len(got[b]) : got[b][i].n = i
    BY <2>2 DEF BranchPrefix
  <2> QED  BY <1>1, <2>1, <2>2, <2>3, GetsFacts
<1> QED  BY <1>2, <1>3, <1>4 DEF Moves

LEMMA KeysStep ==
    ASSUME SplitType, SplitStage, NEW b \in Split!Branches, BranchKeys(b), Moves(b), sMode' = sMode
    PROVE  BranchKeys(b)'
<1> SUFFICES ASSUME sMode = "splitBy"
             PROVE  /\ \A i \in 1..Len(got'[b]) :
                          /\ got'[b][i].n \in 0..Through(b)' /\ (got'[b][i].n = 0 => closed'[b])
                          /\ got'[b][i].n # 0 =>
                                /\ \A j \in 1..i - 1 : got'[b][j].n < got'[b][i].n
                                /\ keyOf'[got'[b][i].n] = IF got'[b][i].type = "success" THEN b ELSE 0
                    /\ ~closed'[b] => \A n \in 1..Through(b)' : keyOf'[n] \in {0, b} =>
                                         \E i \in 1..Len(got'[b]) : got'[b][i].n = n
  BY DEF BranchKeys
<1>1. Len(got[b]) \in Nat /\ Through(b) \in Nat
  BY ThroughType, LenProperties DEF SplitType
<1>2. \A n \in 1..Through(b) : keyOf'[n] = keyOf[n]
  BY DEF Moves
<1>3. /\ \A i \in 1..Len(got[b]) :
            /\ got[b][i].n \in 0..Through(b) /\ (got[b][i].n = 0 => closed[b])
            /\ got[b][i].n # 0 =>
                  /\ \A j \in 1..i - 1 : got[b][j].n < got[b][i].n
                  /\ keyOf[got[b][i].n] = IF got[b][i].type = "success" THEN b ELSE 0
      /\ ~closed[b] => \A n \in 1..Through(b) : keyOf[n] \in {0, b} =>
                           \E i \in 1..Len(got[b]) : got[b][i].n = n
  BY DEF BranchKeys
<1>4. CASE Passes(b)
  <2>1. got'[b] = got[b] /\ (closed[b] => closed'[b])
    BY <1>4 DEF Passes, Same, Takes
  <2>2. Through(b)' \in Nat /\ Through(b) <= Through(b)'
    BY <1>1, <1>4 DEF Passes
  <2>3. ASSUME NEW i \in 1..Len(got[b])
        PROVE  /\ got[b][i].n \in 0..Through(b)' /\ (got[b][i].n = 0 => closed'[b])
               /\ got[b][i].n # 0 =>
                     /\ \A j \in 1..i - 1 : got[b][j].n < got[b][i].n
                     /\ keyOf'[got[b][i].n] = IF got[b][i].type = "success" THEN b ELSE 0
    <3>1. got[b][i].n \in 0..Through(b)'
      BY <1>1, <1>3, <2>2
    <3>2. got[b][i].n # 0 => keyOf'[got[b][i].n] = keyOf[got[b][i].n]
      BY <1>1, <1>2, <1>3
    <3> QED  BY <1>3, <2>1, <3>1, <3>2
  <2>4. ASSUME ~closed'[b], NEW n \in 1..Through(b)', keyOf'[n] \in {0, b}
        PROVE  \E i \in 1..Len(got[b]) : got[b][i].n = n
    <3>1. n \in 1..Through(b)
      BY <1>1, <1>2, <1>4, <2>4 DEF Passes
    <3> QED  BY <1>2, <1>3, <2>1, <2>4, <3>1
  <2> QED  BY <2>1, <2>3, <2>4
<1>5. CASE Delivered(b)
  <2>1. PICK x \in SplitItems : /\ Gets(b, x) /\ x.n = Through(b) + 1
                                /\ keyOf'[x.n] = IF x.type = "success" THEN b ELSE 0
    BY <1>5 DEF Delivered
  <2>2. ~closed[b] /\ ~closed'[b] /\ Through(b)' = Through(b) + 1
    BY <1>5, <2>1 DEF Delivered, Gets, SplitType
  <2>3. \A i \in 1..Len(got[b]) : got'[b][i] = got[b][i] /\ got[b][i].n \in 1..Through(b)
    BY <1>1, <1>3, <2>1, <2>2, GetsFacts
  <2>4. /\ Len(got'[b]) = Len(got[b]) + 1
        /\ got'[b][Len(got[b]) + 1] = x
    BY <2>1, GetsFacts
  <2>5. ASSUME NEW i \in 1..Len(got'[b])
        PROVE  /\ got'[b][i].n \in 1..Through(b)'
               /\ \A j \in 1..i - 1 : got'[b][j].n < got'[b][i].n
               /\ keyOf'[got'[b][i].n] = IF got'[b][i].type = "success" THEN b ELSE 0
    <3>1. CASE i \in 1..Len(got[b])
      <4>1. \A j \in 1..i - 1 : j \in 1..Len(got[b])
        BY <1>1, <3>1
      <4>2. got'[b][i] = got[b][i] /\ got[b][i].n \in 1..Through(b)
        BY <2>3, <3>1
      <4>3. got[b][i].n \in 1..Through(b)' /\ got[b][i].n # 0
        BY <1>1, <2>2, <4>2
      <4> QED  BY <1>2, <1>3, <2>3, <3>1, <4>1, <4>2, <4>3
    <3>2. CASE i = Len(got[b]) + 1
      <4>1. got'[b][i] = x
        BY <2>4, <3>2
      <4>2. x.n \in 1..Through(b)' 
        BY <1>1, <1>2, <2>1, <2>2
      <4>3. \A j \in 1..i - 1 : got'[b][j].n < x.n
        BY <1>1, <2>1, <2>3, <3>2
      <4> QED  BY <2>1, <4>1, <4>2, <4>3
    <3> QED  BY <1>1, <2>4, <2>5, <3>1, <3>2
  <2>6. ASSUME NEW n \in 1..Through(b)', keyOf'[n] \in {0, b}
        PROVE  \E i \in 1..Len(got'[b]) : got'[b][i].n = n
    <3>1. CASE n = Through(b) + 1
      <4>1. Len(got[b]) + 1 \in 1..Len(got'[b])
        BY <1>1, <2>4
      <4> QED  BY <2>1, <2>4, <3>1, <4>1
    <3>2. CASE n \in 1..Through(b)
      <4>1. PICK i \in 1..Len(got[b]) : got[b][i].n = n
        BY <1>2, <1>3, <2>2, <2>6, <3>2
      <4>2. i \in 1..Len(got'[b])
        BY <1>1, <2>4
      <4> QED  BY <2>3, <4>1, <4>2
    <3> QED  BY <1>1, <2>2, <2>6, <3>1, <3>2
  <2>7. \A i \in 1..Len(got'[b]) : got'[b][i].n \in 0..Through(b)' /\ got'[b][i].n # 0
    BY <1>1, <2>2, <2>5
  <2> QED  BY <2>5, <2>6, <2>7
<1>6. CASE Failed(b)
  <2>1. Split!Error(0) \in SplitItems /\ Split!Error(0).n = 0
    BY TransformAssumption DEF TransformAssumption, Split!Error, SplitItems
  <2>2. closed'[b] /\ Gets(b, Split!Error(0)) /\ Through(b)' = Through(b)
    BY <1>6 DEF Failed
  <2>3. \A i \in 1..Len(got[b]) : got'[b][i] = got[b][i]
    BY <2>1, <2>2, GetsFacts
  <2>4. Len(got'[b]) = Len(got[b]) + 1 /\ got'[b][Len(got[b]) + 1].n = 0
    BY <2>1, <2>2, GetsFacts
  <2>5. ASSUME NEW i \in 1..Len(got'[b])
        PROVE  /\ got'[b][i].n \in 0..Through(b)
               /\ got'[b][i].n # 0 =>
                     /\ \A j \in 1..i - 1 : got'[b][j].n < got'[b][i].n
                     /\ keyOf'[got'[b][i].n] = IF got'[b][i].type = "success" THEN b ELSE 0
    <3>1. CASE i \in 1..Len(got[b])
      <4>1. \A j \in 1..i - 1 : j \in 1..Len(got[b])
        BY <1>1, <3>1
      <4>2. got'[b][i] = got[b][i] /\ got[b][i].n \in 0..Through(b)
        BY <1>3, <2>3, <3>1
      <4>3. got[b][i].n # 0 => keyOf'[got[b][i].n] = keyOf[got[b][i].n]
        BY <1>1, <1>2, <2>2, <4>2
      <4> QED  BY <1>3, <2>3, <3>1, <4>1, <4>2, <4>3
    <3>2. CASE i = Len(got[b]) + 1
      BY <1>1, <2>4, <3>2
    <3> QED  BY <1>1, <2>4, <2>5, <3>1, <3>2
  <2> QED  BY <2>2, <2>5
<1> QED  BY <1>4, <1>5, <1>6 DEF Moves

\* What an invariant step has to show, besides what it does at each branch.
LEMMA SplitMoves ==
    ASSUME SplitInv, sMode' = sMode, SplitType', SplitStage', \A b \in Split!Branches : Moves(b)
    PROVE  SplitInv'
<1>1. ASSUME NEW b \in Split!Branches
      PROVE  BranchBuffer(b)' /\ BranchPrefix(b)' /\ BranchKeys(b)'
  BY BufferStep, PrefixStep, KeysStep DEF SplitInv
<1>2. Split!Branches' = Split!Branches
  BY DEF Split!Branches
<1> QED  BY <1>1, <1>2 DEF SplitInv

LEMMA SplitConstants ==
    /\ NumBranches \in Nat \ {0} /\ BufferSize \in Nat \ {0} /\ NumItems \in Nat
    /\ Split!Branches = 1..NumBranches
    /\ \A n \in 0..NumItems : /\ Split!Value(n) \in SplitItems /\ Split!Error(n) \in SplitItems
                              /\ Split!Value(n).n = n /\ Split!Error(n).n = n
                              /\ Split!Value(n).type = "success" /\ Split!Error(n).type = "error"
BY SplitAssumption, TransformAssumption
DEF SplitAssumption, TransformAssumption, Split!Branches, SplitItems, Split!Value, Split!Error

\* The pump and its source leave the channels of the branches alone.
LEMMA StillMoves ==
    ASSUME SplitType, buffer' = buffer, got' = got, NEW b \in Split!Branches,
           closed[b] => closed'[b], Through(b)' = Through(b),
           \A n \in 1..Through(b) : keyOf'[n] = keyOf[n]
    PROVE  Moves(b)
BY DEF Moves, Passes, Same

LEMMA SplitBegin == ASSUME SplitInv, Split!Begin PROVE SplitInv'
<1>1. SplitType /\ SplitStage /\ \A b \in Split!Branches : BranchBuffer(b)
  BY DEF SplitInv
<1>2. /\ sMode = "none" /\ sMode' \in {"splitN", "splitBy"} /\ sPump' = "pull" /\ sPulled = 0
      /\ closed' = [b \in Split!Branches |-> signal' = "fired"] /\ signal' \in {"armed", "fired"}
      /\ UNCHANGED <<sPulled, item, to, capWait, buffer, sLeft, got, keyOf>>
      /\ \A b \in Split!Branches : got[b] = <<>>
  BY <1>1 DEF Split!Begin, SplitStage
<1>3. SplitType'
  BY <1>1, <1>2 DEF SplitType
<1>4. SplitStage'
  BY <1>2 DEF SplitStage
<1>5. ASSUME NEW b \in Split!Branches
      PROVE  BranchBuffer(b)' /\ BranchPrefix(b)' /\ BranchKeys(b)'
  <2>1. got'[b] = <<>> /\ Len(got'[b]) = 0 /\ Through(b)' = 0
    BY <1>2 DEF Through
  <2>2. Len(buffer[b]) = 0
    BY <1>1, <1>2, LenProperties DEF BranchBuffer, SplitType
  <2>3. BranchBuffer(b)'
    BY <1>2, <2>1, <2>2, SplitConstants DEF BranchBuffer
  <2> QED  BY <2>1, <2>3 DEF BranchPrefix, BranchKeys
<1>6. Split!Branches' = Split!Branches
  BY DEF Split!Branches
<1> QED  BY <1>3, <1>4, <1>5, <1>6 DEF SplitInv

LEMMA SplitYields == ASSUME SplitInv, Split!SourceYields PROVE SplitInv'
<1> USE SplitConstants
<1>1. SplitType /\ SplitStage
  BY DEF SplitInv
<1>2. PICK x \in {Split!Value(sPulled + 1), Split!Error(sPulled + 1)} :
        /\ item' = x
        /\ IF Split!AllClosed
           THEN sPump' = "done" /\ Split!CloseAll
           ELSE /\ UNCHANGED closed
                /\ IF sMode = "splitBy" /\ x.type = "success"
                   THEN sPump' = "key" /\ UNCHANGED capWait
                   ELSE sPump' = "capacity" /\ Split!WaitForCapacity
  BY DEF Split!SourceYields
<1>3. /\ sPump = "pull" /\ sPulled < NumItems /\ sPulled' = sPulled + 1 /\ to' = 1
      /\ keyOf' = Append(keyOf, 0) /\ UNCHANGED <<sMode, buffer, got, sLeft, signal>>
  BY DEF Split!SourceYields
<1>4. x \in SplitItems /\ x.n = sPulled + 1 /\ x.type \in {"success", "error"} /\ sPulled \in Nat
  BY <1>1, <1>3 DEF SplitType
<1>5. /\ keyOf' \in Seq(0..NumBranches) /\ Len(keyOf') = sPulled + 1
      /\ \A n \in 1..sPulled : keyOf'[n] = keyOf[n]
      /\ keyOf'[sPulled + 1] = 0
  BY <1>1, <1>3, AppendProperties DEF SplitType
<1>6. /\ closed' \in [Split!Branches -> BOOLEAN] /\ capWait' \subseteq Split!Branches
      /\ \A b \in Split!Branches : closed[b] => closed'[b]
      /\ sPump' \in {"key", "capacity", "done"}
      /\ sPump' = "done" => \A b \in Split!Branches : closed'[b]
  <2>1. CASE Split!AllClosed
    BY <1>2, <2>1 DEF Split!CloseAll
  <2>2. CASE ~Split!AllClosed
    <3>1. closed' = closed /\ sPump' \in {"key", "capacity"}
      BY <1>2, <2>2
    <3>2. capWait' \subseteq Split!Branches
      <4>1. capWait' = capWait \/ Split!WaitForCapacity
        BY <1>2, <2>2
      <4>2. capWait \subseteq Split!Branches
        BY <1>1 DEF SplitType
      <4>3. Split!WaitForCapacity => capWait' \subseteq Split!Branches
        BY DEF Split!WaitForCapacity
      <4> QED  BY <4>1, <4>2, <4>3
    <3> QED  BY <1>1, <3>1, <3>2 DEF SplitType
  <2> QED  BY <2>1, <2>2
<1>7. SplitType'
  BY <1>1, <1>2, <1>3, <1>4, <1>5, <1>6 DEF SplitType
<1>8. SplitStage'
  <2>1. sMode # "none"
    BY <1>1, <1>3 DEF SplitStage
  <2>2. sPump' = "capacity" => /\ sMode = "splitBy" => x.type = "error"
                               /\ \A b \in Split!Branches :
                                     ~closed'[b] /\ Len(buffer'[b]) >= BufferSize => b \in capWait'
    BY <1>1, <1>2, <1>3, <1>4 DEF Split!CloseAll, Split!WaitForCapacity, Split!Full
  <2>3. sPump' = "key" => sMode = "splitBy" /\ x.type = "success"
    BY <1>2
  <2> QED  BY <1>1, <1>2, <1>3, <1>4, <1>5, <1>6, <2>1, <2>2, <2>3 DEF SplitStage, Split!Full, Split!AllClosed
<1>9. ASSUME NEW b \in Split!Branches PROVE Moves(b)
  <2>1. Through(b) = sPulled
    BY <1>3 DEF Through
  <2>2. CASE sPump' # "done"
    <3>1. Through(b)' = sPulled
      BY <1>3, <1>4, <1>6, <2>2 DEF Through
    <3> QED  BY <1>1, <1>3, <1>5, <1>6, <2>1, <3>1, StillMoves
  <2>3. CASE sPump' = "done"
    <3>1. Through(b)' = sPulled + 1 /\ closed'[b]
      BY <1>3, <1>6, <2>3 DEF Through
    <3>2. Passes(b)
      BY <1>3, <2>1, <3>1 DEF Passes, Same
    <3> QED  BY <1>5, <2>1, <3>2 DEF Moves
  <2> QED  BY <2>2, <2>3
<1> QED  BY <1>3, <1>7, <1>8, <1>9, SplitMoves

LEMMA SplitEnds == ASSUME SplitInv, Split!SourceEnds \/ Split!SourceThrows PROVE SplitInv'
<1> USE SplitConstants
<1>1. SplitType /\ SplitStage
  BY DEF SplitInv
<1>2. /\ sPump = "pull" /\ sPump' = "done" /\ capWait' = {}
      /\ closed' = [b \in Split!Branches |-> TRUE]
      /\ UNCHANGED <<sMode, sPulled, item, to, keyOf, sLeft, signal>>
  BY DEF Split!SourceEnds, Split!SourceThrows, Split!CloseAll
<1>3. ASSUME NEW b \in Split!Branches PROVE Same(b) \/ Gets(b, Split!Error(0))
  BY <1>3 DEF Split!SourceEnds, Split!SourceThrows, Split!Broadcast, Same, Gets
<1>4. buffer' \in [Split!Branches -> Seq(SplitItems)] /\ got' \in [Split!Branches -> Seq(SplitItems)]
  <2>1. CASE UNCHANGED <<buffer, got>>
    BY <1>1, <2>1 DEF SplitType
  <2>2. CASE Split!Broadcast(Split!Error(0))
    <3>1. Split!Error(0) \in SplitItems
      OBVIOUS
    <3>2. \A b \in Split!Branches : /\ Append(buffer[b], Split!Error(0)) \in Seq(SplitItems)
                                    /\ Append(got[b], Split!Error(0)) \in Seq(SplitItems)
      BY <1>1, <3>1, AppendProperties DEF SplitType
    <3> QED  BY <1>1, <2>2, <3>2 DEF SplitType, Split!Broadcast
  <2> QED  BY <2>1, <2>2 DEF Split!SourceEnds, Split!SourceThrows
<1>5. SplitType'
  BY <1>1, <1>2, <1>4 DEF SplitType
<1>6. SplitStage'
  BY <1>1, <1>2 DEF SplitStage, Split!AllClosed
<1>7. ASSUME NEW b \in Split!Branches PROVE Moves(b)
  <2>1. Through(b) = sPulled /\ Through(b)' = sPulled /\ closed'[b]
    BY <1>2 DEF Through
  <2> QED  BY <1>2, <1>3, <2>1 DEF Moves, Passes, Failed
<1> QED  BY <1>2, <1>5, <1>6, <1>7, SplitMoves

LEMMA SplitKeyChosen == ASSUME SplitInv, Split!KeyChosen PROVE SplitInv'
<1> USE SplitConstants
<1>1. SplitType /\ SplitStage
  BY DEF SplitInv
<1>2. /\ sPump = "key" /\ UNCHANGED <<sMode, sPulled, buffer, closed, got, sLeft, signal>>
      /\ sPump' \in {"send", "capacity"}
  BY DEF Split!KeyChosen
<1>3. sMode = "splitBy" /\ sPulled > 0 /\ item.n = sPulled /\ item.type = "success"
      /\ keyOf[sPulled] = 0 /\ sPulled \in 0..NumItems
  BY <1>1, <1>2 DEF SplitStage, SplitType
<1>4. SplitType' /\ SplitStage' /\ \A n \in 1..sPulled - 1 : keyOf'[n] = keyOf[n]
  <2>1. ASSUME NEW c \in Split!Branches, sPump' = "send", to' = c,
               keyOf' = [keyOf EXCEPT ![item.n] = c], UNCHANGED <<item, capWait>>
        PROVE  SplitType' /\ SplitStage' /\ \A n \in 1..sPulled - 1 : keyOf'[n] = keyOf[n]
    <3>1. /\ keyOf' \in Seq(0..NumBranches) /\ Len(keyOf') = sPulled /\ keyOf'[sPulled] = c
          /\ \A n \in 1..sPulled - 1 : keyOf'[n] = keyOf[n]
      <4>1. keyOf \in Seq(0..NumBranches) /\ Len(keyOf) = sPulled /\ sPulled \in 1..Len(keyOf)
            /\ c \in 0..NumBranches
        BY <1>1, <1>3 DEF SplitType
      <4> QED  BY <1>3, <2>1, <4>1, ExceptSeq
    <3>2. SplitType'
      BY <1>1, <1>2, <2>1, <3>1 DEF SplitType
    <3>3. SplitStage'
      BY <1>1, <1>2, <1>3, <2>1, <3>1 DEF SplitStage
    <3> QED  BY <3>1, <3>2, <3>3
  <2>2. ASSUME sPump' = "capacity", item' = Split!Error(item.n), Split!WaitForCapacity,
               UNCHANGED <<to, keyOf>>
        PROVE  SplitType' /\ SplitStage' /\ \A n \in 1..sPulled - 1 : keyOf'[n] = keyOf[n]
    <3>1. item' \in SplitItems /\ item'.n = sPulled /\ item'.type = "error"
      BY <1>3, <2>2
    <3>2. capWait' \subseteq Split!Branches
          /\ \A b \in Split!Branches : ~closed'[b] /\ Len(buffer'[b]) >= BufferSize => b \in capWait'
      BY <1>2, <2>2 DEF Split!WaitForCapacity, Split!Full
    <3>3. SplitType'
      BY <1>1, <1>2, <2>2, <3>1, <3>2 DEF SplitType
    <3>4. SplitStage'
      BY <1>1, <1>2, <1>3, <2>2, <3>1, <3>2 DEF SplitStage, Split!Full
    <3> QED  BY <2>2, <3>3, <3>4
  <2> QED  BY <2>1, <2>2 DEF Split!KeyChosen
<1>5. ASSUME NEW b \in Split!Branches PROVE Moves(b)
  <2>1. Through(b) = sPulled - 1 /\ Through(b)' = sPulled - 1
    BY <1>2, <1>3 DEF Through
  <2> QED  BY <1>1, <1>2, <1>4, <2>1, StillMoves
<1> QED  BY <1>2, <1>4, <1>5, SplitMoves

LEMMA SplitHaveCapacity == ASSUME SplitInv, Split!HaveCapacity PROVE SplitInv'
<1> USE SplitConstants
<1>1. SplitType /\ SplitStage /\ \A b \in Split!Branches : BranchBuffer(b)
  BY DEF SplitInv
<1>2. /\ sPump = "capacity" /\ capWait = {}
      /\ UNCHANGED <<sMode, sPulled, item, to, capWait, closed, keyOf, sLeft, signal>>
  BY DEF Split!HaveCapacity
<1>3. /\ sMode # "none" /\ sPulled > 0 /\ item.n = sPulled /\ sPulled \in 0..NumItems
      /\ item \in SplitItems /\ to \in 1..NumBranches
      /\ sMode = "splitBy" => item.type = "error" /\ keyOf[sPulled] = 0
  BY <1>1, <1>2 DEF SplitStage, SplitType
<1>4. CASE item.type = "error" /\ Split!Broadcast(item) /\ sPump' = "pull"
  <2>1. buffer' \in [Split!Branches -> Seq(SplitItems)] /\ got' \in [Split!Branches -> Seq(SplitItems)]
    <3>1. \A b \in Split!Branches : /\ Append(buffer[b], item) \in Seq(SplitItems)
                                    /\ Append(got[b], item) \in Seq(SplitItems)
      BY <1>1, <1>3, AppendProperties DEF SplitType
    <3> QED  BY <1>1, <1>4, <3>1 DEF SplitType, Split!Broadcast
  <2>2. SplitType'
    BY <1>1, <1>2, <1>4, <2>1 DEF SplitType
  <2>3. SplitStage'
    BY <1>2, <1>3, <1>4 DEF SplitStage
  <2>4. ASSUME NEW b \in Split!Branches PROVE Moves(b)
    <3>1. Through(b) = sPulled - 1 /\ Through(b)' = sPulled
      BY <1>2, <1>4 DEF Through
    <3>2. CASE closed[b]
      <4>1. Same(b)
        BY <1>4, <3>2 DEF Split!Broadcast, Same
      <4> QED  BY <1>2, <1>3, <3>1, <3>2, <4>1 DEF Moves, Passes
    <3>3. CASE ~closed[b]
      <4>1. Gets(b, item)
        BY <1>4, <3>3 DEF Split!Broadcast, Gets
      <4>2. Len(buffer[b]) < BufferSize
        BY <1>1, <1>2, <3>3, LenProperties DEF SplitStage, SplitType, Split!Full
      <4>3. Through(b)' = Through(b) + 1 /\ item.n = Through(b) + 1
        BY <1>3, <3>1
      <4> QED  BY <1>2, <1>3, <1>4, <3>1, <4>1, <4>2, <4>3 DEF Moves, Delivered
    <3> QED  BY <3>2, <3>3
  <2> QED  BY <1>2, <2>2, <2>3, <2>4, SplitMoves
<1>5. CASE item.type = "success" /\ sPump' = "send" /\ UNCHANGED <<buffer, got>>
  <2>1. sMode = "splitN"
    BY <1>1, <1>3, <1>5 DEF SplitType
  <2>2. SplitType'
    BY <1>1, <1>2, <1>5 DEF SplitType
  <2>3. SplitStage'
    BY <1>2, <1>3, <1>5, <2>1 DEF SplitStage
  <2>4. ASSUME NEW b \in Split!Branches PROVE Moves(b)
    <3>1. to <= b
      BY <1>1, <1>2 DEF SplitStage
    <3>2. Through(b) = sPulled - 1 /\ Through(b)' = sPulled - 1
      BY <1>2, <1>5, <3>1 DEF Through
    <3> QED  BY <1>1, <1>2, <1>5, <3>2, StillMoves
  <2> QED  BY <1>2, <2>2, <2>3, <2>4, SplitMoves
<1> QED  BY <1>4, <1>5 DEF Split!HaveCapacity

LEMMA SplitSend == ASSUME SplitInv, Split!Send PROVE SplitInv'
<1> USE SplitConstants
<1>1. SplitType /\ SplitStage /\ \A b \in Split!Branches : BranchBuffer(b)
  BY DEF SplitInv
<1>2. /\ sPump = "send" /\ (closed[to] \/ ~Split!Full(to))
      /\ Split!SendTo(to, item)
      /\ IF sMode = "splitN" /\ to < NumBranches
         THEN to' = to + 1 /\ UNCHANGED sPump
         ELSE sPump' = "pull" /\ UNCHANGED to
      /\ UNCHANGED <<sMode, sPulled, item, capWait, closed, keyOf, sLeft, signal>>
  BY DEF Split!Send
<1>3. /\ sMode \in {"splitN", "splitBy"} /\ sPulled > 0 /\ item.n = sPulled /\ sPulled \in 0..NumItems
      /\ item \in SplitItems /\ item.type = "success" /\ to \in 1..NumBranches
      /\ sMode = "splitBy" => keyOf[sPulled] = to
  BY <1>1, <1>2 DEF SplitStage, SplitType
<1>4. ASSUME NEW b \in Split!Branches, b # to \/ closed[b] PROVE Same(b)
  BY <1>1, <1>2, <1>4 DEF Split!SendTo, SplitType, Same
<1>5. ~closed[to] => Gets(to, item)
  BY <1>1, <1>2, <1>3 DEF Split!SendTo, SplitType, Gets
<1>6. buffer' \in [Split!Branches -> Seq(SplitItems)] /\ got' \in [Split!Branches -> Seq(SplitItems)]
  <2>1. Append(buffer[to], item) \in Seq(SplitItems) /\ Append(got[to], item) \in Seq(SplitItems)
    BY <1>1, <1>3, AppendProperties DEF SplitType
  <2> QED  BY <1>1, <1>2, <2>1 DEF SplitType, Split!SendTo
<1>7. SplitType'
  <2>1. to' \in Split!Branches /\ sPump' \in {"send", "pull"}
    BY <1>2, <1>3
  <2> QED  BY <1>1, <1>2, <1>6, <2>1 DEF SplitType
<1>8. SplitStage'
  BY <1>2, <1>3 DEF SplitStage
<1>9. ASSUME NEW b \in Split!Branches PROVE Moves(b)
  <2>1. \A n \in 1..Through(b) : keyOf'[n] = keyOf[n]
    BY <1>2
  <2>2. CASE b = to
    <3>1. Through(b) = sPulled - 1 /\ Through(b)' = sPulled
      BY <1>2, <1>3, <2>2 DEF Through
    <3>2. Through(b)' = Through(b) + 1 /\ item.n = Through(b) + 1
      BY <1>3, <3>1
    <3>3. CASE closed[b]
      BY <1>2, <1>4, <2>1, <3>2, <3>3 DEF Moves, Passes
    <3>4. CASE ~closed[b]
      <4>1. Len(buffer[b]) < BufferSize
        BY <1>1, <1>2, <2>2, <3>4, LenProperties DEF SplitType, Split!Full
      <4>2. sMode = "splitBy" => keyOf'[item.n] = IF item.type = "success" THEN b ELSE 0
        BY <1>2, <1>3, <2>2
      <4> QED  BY <1>2, <1>3, <1>5, <2>1, <2>2, <3>2, <3>4, <4>1, <4>2 DEF Moves, Delivered
    <3> QED  BY <3>3, <3>4
  <2>3. CASE b # to /\ sMode = "splitN"
    <3>1. Through(b)' = Through(b)
      BY <1>2, <1>3, <2>3 DEF Through
    <3> QED  BY <1>2, <1>4, <2>1, <2>3, <3>1 DEF Moves, Passes
  <2>4. CASE b # to /\ sMode = "splitBy"
    <3>1. Through(b) = sPulled - 1 /\ Through(b)' = sPulled
      BY <1>2, <2>4 DEF Through
    <3>2. Through(b)' = Through(b) + 1 /\ keyOf'[Through(b) + 1] \notin {0, b}
      BY <1>2, <1>3, <2>4, <3>1
    <3> QED  BY <1>2, <1>4, <2>1, <2>4, <3>2 DEF Moves, Passes
  <2> QED  BY <1>3, <2>2, <2>3, <2>4
<1> QED  BY <1>2, <1>7, <1>8, <1>9, SplitMoves

LEMMA SplitConsumes ==
    ASSUME SplitInv, NEW c \in Split!Branches, Split!Take(c) \/ Split!Leave(c)
    PROVE  SplitInv'
<1> USE SplitConstants
<1>1. SplitType /\ SplitStage
  BY DEF SplitInv
<1>2. UNCHANGED <<sMode, sPump, sPulled, item, to, got, keyOf, signal>> /\ capWait' = capWait \ {c}
  BY DEF Split!Take, Split!Leave
<1>3. CASE Split!Take(c)
  <2>1. /\ buffer' = [buffer EXCEPT ![c] = Tail(@)] /\ buffer[c] # <<>>
        /\ UNCHANGED <<closed, sLeft>>
    BY <1>3 DEF Split!Take
  <2>2. Tail(buffer[c]) \in Seq(SplitItems) /\ Len(Tail(buffer[c])) = Len(buffer[c]) - 1
        /\ Len(buffer[c]) \in Nat
    BY <1>1, <2>1, HeadTailProperties, EmptySeq, LenProperties DEF SplitType
  <2>3. SplitType'
    BY <1>1, <1>2, <2>1, <2>2 DEF SplitType
  <2>4. ASSUME NEW b \in Split!Branches, Same(b) \/ Takes(b) PROVE Moves(b)
    <3>1. Through(b)' = Through(b)
      BY <1>2 DEF Through
    <3> QED  BY <1>2, <2>1, <2>4, <3>1 DEF Moves, Passes
  <2>5. ASSUME NEW b \in Split!Branches PROVE Same(b) \/ Takes(b)
    BY <1>1, <1>2, <2>1 DEF SplitType, Same, Takes
  <2>6. SplitStage'
    <3>1. sPump = "capacity" => \A b \in Split!Branches :
                                   ~closed'[b] /\ Len(buffer'[b]) >= BufferSize => b \in capWait'
      <4> SUFFICES ASSUME sPump = "capacity", NEW b \in Split!Branches,
                          ~closed'[b], Len(buffer'[b]) >= BufferSize
                   PROVE  b \in capWait'
        OBVIOUS
      <4>0. BranchBuffer(b)
        BY DEF SplitInv
      <4>1. CASE b = c
        <5>1. Len(buffer'[c]) = Len(buffer[c]) - 1
          BY <1>1, <2>1, <2>2 DEF SplitType
        <5>2. Len(buffer[c]) <= BufferSize
          BY <2>1, <4>0, <4>1 DEF BranchBuffer
        <5> QED  BY <2>2, <4>1, <5>1, <5>2
      <4>2. CASE b # c
        <5>1. buffer'[b] = buffer[b] /\ ~closed[b]
          BY <1>1, <2>1, <4>2 DEF SplitType
        <5> QED  BY <1>1, <1>2, <4>2, <5>1 DEF SplitStage, Split!Full
      <4> QED  BY <4>1, <4>2
    <3> QED  BY <1>1, <1>2, <2>1, <3>1 DEF SplitStage, Split!Full, Split!AllClosed
  <2> QED  BY <1>2, <2>3, <2>4, <2>5, <2>6, SplitMoves
<1>4. CASE Split!Leave(c)
  <2>1. /\ closed' = [closed EXCEPT ![c] = TRUE] /\ sLeft' = [sLeft EXCEPT ![c] = TRUE]
        /\ UNCHANGED buffer
    BY <1>4 DEF Split!Leave
  <2>2. closed'[c] /\ \A b \in Split!Branches \ {c} : closed'[b] = closed[b]
    BY <1>1, <2>1 DEF SplitType
  <2>3. SplitType'
    BY <1>1, <1>2, <2>1 DEF SplitType
  <2>4. SplitStage'
    BY <1>1, <1>2, <2>1, <2>2 DEF SplitStage, Split!Full, Split!AllClosed
  <2>5. ASSUME NEW b \in Split!Branches PROVE Moves(b)
    <3>1. Through(b)' = Through(b)
      BY <1>2 DEF Through
    <3> QED  BY <1>1, <1>2, <2>1, <2>2, <3>1, StillMoves
  <2> QED  BY <1>2, <2>3, <2>4, <2>5, SplitMoves
<1> QED  BY <1>3, <1>4

LEMMA SplitAbort == ASSUME SplitInv, Split!Abort PROVE SplitInv'
<1> USE SplitConstants
<1>1. SplitType /\ SplitStage
  BY DEF SplitInv
<1>2. /\ UNCHANGED <<sMode, sPump, sPulled, item, to, buffer, sLeft, got, keyOf>>
      /\ signal' = "fired" /\ capWait' = {} /\ closed' = [b \in Split!Branches |-> TRUE]
  BY DEF Split!Abort, Split!CloseAll
<1>3. SplitType'
  BY <1>1, <1>2 DEF SplitType
<1>4. SplitStage'
  BY <1>1, <1>2 DEF SplitStage, Split!Full, Split!AllClosed
<1>5. ASSUME NEW b \in Split!Branches PROVE Moves(b)
  <2>1. Through(b)' = Through(b)
    BY <1>2 DEF Through
  <2> QED  BY <1>1, <1>2, <2>1, StillMoves
<1> QED  BY <1>2, <1>3, <1>4, <1>5, SplitMoves

LEMMA SplitStutters == ASSUME SplitInv, UNCHANGED split PROVE SplitInv'
<1>1. UNCHANGED <<sMode, sPump, sPulled, item, to, capWait, buffer, closed, sLeft, got, keyOf, signal>>
  BY DEF split
<1>2. SplitType' /\ SplitStage'
  BY <1>1 DEF SplitInv, SplitType, SplitStage, Split!Full, Split!AllClosed
<1>3. ASSUME NEW b \in Split!Branches PROVE BranchBuffer(b)' /\ BranchPrefix(b)' /\ BranchKeys(b)'
  <2>1. buffer' = buffer /\ got' = got /\ closed' = closed /\ keyOf' = keyOf /\ sMode' = sMode
    BY <1>1
  <2>2. Through(b)' = Through(b)
    BY <1>1 DEF Through
  <2>3. BranchBuffer(b)'
    BY <2>1 DEF SplitInv, BranchBuffer
  <2>4. BranchPrefix(b)'
    BY <2>1, <2>2 DEF SplitInv, BranchPrefix
  <2>5. BranchKeys(b)'
    BY <2>1, <2>2 DEF SplitInv, BranchKeys
  <2> QED  BY <2>3, <2>4, <2>5
<1>4. Split!Branches' = Split!Branches
  BY DEF Split!Branches
<1> QED  BY <1>2, <1>3, <1>4 DEF SplitInv

LEMMA SplitStep == SplitInv /\ [Split!Next]_split => SplitInv'
BY SplitBegin, SplitYields, SplitEnds, SplitKeyChosen, SplitHaveCapacity, SplitSend,
   SplitConsumes, SplitAbort, SplitStutters DEF Split!Next

\* What waits at a branch is a suffix of what it was given.
LEMMA BufferIsSuffix ==
    ASSUME SplitType, NEW b \in Split!Branches, BranchBuffer(b)
    PROVE  Split!IsSuffix(buffer[b], got[b])
<1> DEFINE rb == Split!Reverse(buffer[b])
           rg == Split!Reverse(got[b])
<1>1. buffer[b] \in Seq(SplitItems) /\ got[b] \in Seq(SplitItems)
  BY DEF SplitType
<1>2. PICK g \in Nat, w \in Nat : g = Len(got[b]) /\ w = Len(buffer[b])
  BY <1>1, LenProperties
<1>3. g \in Nat /\ w \in Nat
  BY <1>2
<1>4. w <= g
  BY <1>2 DEF BranchBuffer
<1>5. \A i \in 1..w : w - i + 1 \in 1..w
  BY <1>3
<1>6. \A i \in 1..g : g - i + 1 \in 1..g
  BY <1>3
<1>7. rb = [i \in 1..w |-> buffer[b][w - i + 1]] /\ rg = [i \in 1..g |-> got[b][g - i + 1]]
  BY <1>2 DEF Split!Reverse
<1> HIDE DEF rb, rg
<1>8. rb \in [1..w -> SplitItems]
  <2>1. \A i \in 1..w : buffer[b][w - i + 1] \in SplitItems
    BY <1>1, <1>2, <1>5, ElementOfSeq
  <2> QED  BY <1>7, <2>1
<1>9. rg \in [1..g -> SplitItems]
  <2>1. \A i \in 1..g : got[b][g - i + 1] \in SplitItems
    BY <1>1, <1>2, <1>6, ElementOfSeq
  <2> QED  BY <1>7, <2>1
<1>10. rb \in Seq(SplitItems) /\ Len(rb) = w /\ rg \in Seq(SplitItems) /\ Len(rg) = g
  BY <1>3, <1>8, <1>9, SeqDef, LenProperties
<1>11. ASSUME NEW i \in 1..w PROVE rb[i] = rg[i]
  <2>1. rb[i] = buffer[b][w - i + 1]
    BY <1>7
  <2>2. buffer[b][w - i + 1] = got[b][g - w + (w - i + 1)]
    BY <1>2, <1>5 DEF BranchBuffer
  <2>3. g - w + (w - i + 1) = g - i + 1 /\ i \in 1..g
    BY <1>3, <1>4
  <2>4. rg[i] = got[b][g - i + 1]
    BY <1>7, <2>3
  <2> QED  BY <2>1, <2>2, <2>3, <2>4
<1>12. SubSeq(rb, 1, w) = SubSeq(rg, 1, w)
  BY <1>3, <1>4, <1>10, <1>11
<1>13. Split!IsPrefix(rb, rg)
  BY <1>4, <1>10, <1>12 DEF Split!IsPrefix
<1> QED  BY <1>13 DEF Split!IsSuffix, rb, rg

LEMMA SplitTypeOK == SplitInv => Split!TypeOK
<1> SUFFICES ASSUME SplitInv PROVE Split!TypeOK
  OBVIOUS
<1>1. SplitType
  BY DEF SplitInv
<1>2. item \in [type : {"success", "error"}, n : 0..NumItems]
  BY <1>1 DEF SplitType, SplitItems
<1>3. \A b \in Split!Branches : Split!IsSuffix(buffer[b], got[b])
  BY <1>1, BufferIsSuffix DEF SplitInv
<1>4. keyOf \in [1..sPulled -> 0..NumBranches]
  <2>1. keyOf \in Seq(0..NumBranches) /\ Len(keyOf) = sPulled
    BY <1>1 DEF SplitType
  <2> QED  BY <2>1, LenProperties
<1> QED  BY <1>1, <1>2, <1>3, <1>4 DEF SplitType, Split!TypeOK

LEMMA SplitPrefix == SplitInv => Split!BranchesSeeThePrefix
<1> SUFFICES ASSUME SplitInv, sMode = "splitN", NEW b \in Split!Branches
             PROVE  /\ \A i \in DOMAIN got[b] :
                          \/ got[b][i].n = i
                          \/ closed[b] /\ i = Len(got[b]) /\ got[b][i] = Split!Error(0)
                    /\ ~closed[b] => Len(got[b]) >= sPulled - 1
                    /\ sPump = "pull" /\ ~closed[b] => Len(got[b]) = sPulled
  BY DEF Split!BranchesSeeThePrefix
<1>1. SplitType /\ BranchPrefix(b)
  BY DEF SplitInv
<1>2. DOMAIN got[b] = 1..Len(got[b]) /\ sPulled \in Nat
  BY <1>1, LenProperties DEF SplitType
<1>3. Through(b) >= sPulled - 1 /\ (sPump = "pull" => Through(b) = sPulled)
  BY <1>2 DEF Through
<1> QED  BY <1>1, <1>2, <1>3 DEF BranchPrefix

LEMMA SplitKeys == SplitInv => Split!BranchesSeeTheirKeys
<1> SUFFICES ASSUME SplitInv, sMode = "splitBy", NEW b \in Split!Branches
             PROVE  /\ \A i, j \in DOMAIN got[b] :
                          i < j /\ got[b][j].n # 0 => got[b][i].n < got[b][j].n
                    /\ \A i \in DOMAIN got[b] : got[b][i].n # 0 =>
                          keyOf[got[b][i].n] = IF got[b][i].type = "success" THEN b ELSE 0
                    /\ sPump = "pull" /\ ~closed[b] =>
                          Split!ToSet(Split!Numbers(got[b])) = {n \in 1..sPulled : keyOf[n] \in {0, b}}
  BY DEF Split!BranchesSeeTheirKeys
<1>1. SplitType /\ BranchKeys(b)
  BY DEF SplitInv
<1>2. DOMAIN got[b] = 1..Len(got[b]) /\ sPulled \in Nat /\ Len(got[b]) \in Nat
  BY <1>1, LenProperties DEF SplitType
<1>3. /\ \A i \in 1..Len(got[b]) :
            /\ got[b][i].n \in 0..Through(b) /\ (got[b][i].n = 0 => closed[b])
            /\ got[b][i].n # 0 =>
                  /\ \A j \in 1..i - 1 : got[b][j].n < got[b][i].n
                  /\ keyOf[got[b][i].n] = IF got[b][i].type = "success" THEN b ELSE 0
      /\ ~closed[b] => \A n \in 1..Through(b) : keyOf[n] \in {0, b} =>
                           \E i \in 1..Len(got[b]) : got[b][i].n = n
  BY <1>1 DEF BranchKeys
<1>4. ASSUME NEW i \in 1..Len(got[b]), NEW j \in 1..Len(got[b]), i < j PROVE i \in 1..j - 1
  BY <1>2, <1>4
<1>5. ASSUME sPump = "pull", ~closed[b]
      PROVE  Split!ToSet(Split!Numbers(got[b])) = {n \in 1..sPulled : keyOf[n] \in {0, b}}
  <2>1. Through(b) = sPulled
    BY <1>5 DEF Through
  <2>2. Split!ToSet(Split!Numbers(got[b])) = {got[b][i].n : i \in 1..Len(got[b])}
    BY <1>2 DEF Split!ToSet, Split!Numbers
  <2>3. ASSUME NEW i \in 1..Len(got[b])
        PROVE  got[b][i].n \in 1..sPulled /\ keyOf[got[b][i].n] \in {0, b}
    <3>1. got[b][i].n \in 0..sPulled /\ got[b][i].n # 0
      BY <1>3, <1>5, <2>1
    <3>2. got[b][i].n \in 1..sPulled
      BY <1>2, <3>1
    <3> QED  BY <1>3, <3>1, <3>2
  <2>4. ASSUME NEW n \in 1..sPulled, keyOf[n] \in {0, b}
        PROVE  \E i \in 1..Len(got[b]) : got[b][i].n = n
    BY <1>3, <1>5, <2>1, <2>4
  <2> QED  BY <2>2, <2>3, <2>4
<1> QED  BY <1>2, <1>3, <1>4, <1>5

LEMMA SplitHoldsBack == SplitInv => Split!SlowBranchHoldsBack
<1> USE SplitConstants
<1> SUFFICES ASSUME SplitInv, NEW b \in Split!Branches
             PROVE  /\ Split!Cardinality({i \in DOMAIN buffer[b] : buffer[b][i].type = "success"})
                          <= BufferSize
                    /\ sMode = "splitN" /\ ~closed[b] =>
                          sPulled - (Len(got[b]) - Len(buffer[b])) <= BufferSize + 1
  BY DEF Split!SlowBranchHoldsBack
<1>1. SplitType /\ BranchBuffer(b) /\ BranchPrefix(b)
  BY DEF SplitInv
<1>2. DOMAIN buffer[b] = 1..Len(buffer[b]) /\ Len(buffer[b]) \in Nat /\ Len(got[b]) \in Nat /\ sPulled \in Nat
  BY <1>1, LenProperties DEF SplitType
<1>3. Split!Cardinality({i \in DOMAIN buffer[b] : buffer[b][i].type = "success"}) <= BufferSize
  <2> DEFINE values == {i \in DOMAIN buffer[b] : buffer[b][i].type = "success"}
  <2>1. values \subseteq 1..BufferSize
    <3> SUFFICES ASSUME NEW i \in 1..Len(buffer[b]), buffer[b][i].type = "success"
                 PROVE  i \in 1..BufferSize
      BY <1>2
    <3> QED  BY <1>1, <1>2 DEF BranchBuffer
  <2>2. IsFiniteSet(1..BufferSize) /\ Cardinality(1..BufferSize) = BufferSize
    BY FS_Interval
  <2> HIDE DEF values
  <2>3. Cardinality(values) <= Cardinality(1..BufferSize)
    BY <2>1, <2>2, FS_Subset
  <2> QED  BY <2>2, <2>3 DEF values, Split!Cardinality, Cardinality
<1>4. ASSUME sMode = "splitN", ~closed[b]
      PROVE  sPulled - (Len(got[b]) - Len(buffer[b])) <= BufferSize + 1
  <2>1. PICK g \in Nat, w \in Nat : g = Len(got[b]) /\ w = Len(buffer[b])
    BY <1>2
  <2>2. g = Through(b) /\ w <= BufferSize
    BY <1>1, <1>4, <2>1 DEF BranchBuffer, BranchPrefix
  <2>3. g >= sPulled - 1
    BY <1>2, <2>2 DEF Through
  <2>4. g \in Nat /\ w \in Nat
    BY <2>1
  <2>5. sPulled - (g - w) <= BufferSize + 1
    BY <1>2, <2>2, <2>3, <2>4
  <2> QED  BY <2>1, <2>5
<1> QED  BY <1>3, <1>4

\* The branches of splitN get the prefix of the source and those of splitBy the items of their
\* key, in order and with every error, and a slow branch holds the source back: for any number
\* of branches and items and any buffer.
THEOREM BranchesOfSplit == MCSpec => []BranchesAreFaithful
<1>1. SplitInv => BranchesAreFaithful
  BY SplitTypeOK, SplitPrefix, SplitKeys, SplitHoldsBack DEF BranchesAreFaithful
<1>2. MCInit => SplitInv
  BY SplitInit DEF MCInit
<1>3. SplitInv /\ [MCNext]_mcvars => SplitInv'
  BY EachStutters, SplitStep
<1> QED  BY <1>1, <1>2, <1>3, PTL DEF MCSpec

-----------------------------------------------------------------------------
(* merge and zip: how many outputs come from where. *)

CombineResults == [type : {"success", "error"}, side : Combine!Sides, n : Nat]
CombinePairs == [type : {"success"}, pair : CombineResults \X CombineResults]
CombineOutputs == CombineResults \cup CombinePairs
CombineAnswers == CombineResults \cup {Combine!None, Combine!Done, Combine!Thrown, Combine!Void}

LEMMA CombineCardinality == \A S : Combine!Cardinality(S) = Cardinality(S)
BY DEF Combine!Cardinality, Cardinality

LEMMA AnswerKinds ==
    /\ Combine!None.type = "none" /\ Combine!Done.type = "done"
    /\ Combine!Thrown.type = "thrown" /\ Combine!Void.type = "void"
    /\ \A x \in CombineAnswers : /\ x \in CombineResults <=> x.type \in {"success", "error"}
                                 /\ x.type = "none" <=> x = Combine!None
                                 /\ x.type = "done" <=> x = Combine!Done
                                 /\ x.type = "thrown" <=> x = Combine!Thrown
                                 /\ x.type = "void" <=> x = Combine!Void
BY DEF CombineAnswers, CombineResults, Combine!None, Combine!Done, Combine!Thrown, Combine!Void

\* A number that is added to a set of smaller ones comes after them.
LEMMA RankAdd ==
    ASSUME NEW n \in Nat, NEW S \in SUBSET (1..n)
    PROVE  /\ IsFiniteSet(S) /\ Cardinality(S) \in Nat
           /\ \A i \in S : Combine!Rank(S, i) \in 1..Cardinality(S)
           /\ Cardinality(S \cup {n + 1}) = Cardinality(S) + 1
           /\ Combine!Rank(S \cup {n + 1}, n + 1) = Cardinality(S) + 1
           /\ \A i \in 1..n : Combine!Rank(S \cup {n + 1}, i) = Combine!Rank(S, i)
<1>1. IsFiniteSet(S) /\ Cardinality(S) \in Nat
  <2>1. IsFiniteSet(1..n)
    BY FS_Interval
  <2> QED  BY <2>1, FS_Subset, FS_CardinalityType
<1>2. ASSUME NEW i \in S PROVE Combine!Rank(S, i) \in 1..Cardinality(S)
  <2> DEFINE R == {j \in S : j <= i}
  <2>1. R \in SUBSET S /\ i \in R
    OBVIOUS
  <2>2. IsFiniteSet(R) /\ Cardinality(R) <= Cardinality(S)
    BY <1>1, <2>1, FS_Subset
  <2>3. Cardinality(R) \in Nat /\ Cardinality(R) # 0
    BY <2>1, <2>2, FS_CardinalityType, FS_EmptySet
  <2>4. Combine!Rank(S, i) = Cardinality(R)
    BY CombineCardinality DEF Combine!Rank
  <2> QED  BY <1>1, <2>2, <2>3, <2>4
<1>3. n + 1 \notin S
  OBVIOUS
<1>4. Cardinality(S \cup {n + 1}) = Cardinality(S) + 1
  BY <1>1, <1>3, FS_AddElement
<1>5. Combine!Rank(S \cup {n + 1}, n + 1) = Cardinality(S) + 1
  <2>1. \A j \in S \cup {n + 1} : j <= n + 1
    OBVIOUS
  <2>2. {j \in S \cup {n + 1} : j <= n + 1} = S \cup {n + 1}
    BY <2>1
  <2> QED  BY <1>4, <2>2, CombineCardinality DEF Combine!Rank
<1>6. ASSUME NEW i \in 1..n PROVE Combine!Rank(S \cup {n + 1}, i) = Combine!Rank(S, i)
  <2>1. {j \in S \cup {n + 1} : j <= i} = {j \in S : j <= i}
    OBVIOUS
  <2> QED  BY <2>1 DEF Combine!Rank
<1> QED  BY <1>1, <1>2, <1>4, <1>5, <1>6

\* What side s has given in g is what it has yielded, q, in its order.
Ordered(g, q, s) ==
    \A i \in Combine!From(g, s) : g[i] = q[Combine!Rank(Combine!From(g, s), i)]

NumFrom(g, s) == Cardinality(Combine!From(g, s))

LEMMA FromType ==
    ASSUME NEW g \in Seq(CombineResults), NEW s
    PROVE  Combine!From(g, s) \in SUBSET (1..Len(g)) /\ NumFrom(g, s) \in Nat
<1>1. Combine!From(g, s) \in SUBSET (1..Len(g)) /\ Len(g) \in Nat
  BY LenProperties DEF Combine!From
<1> QED  BY <1>1, RankAdd DEF NumFrom

LEMMA OrderedAppend ==
    ASSUME NEW g \in Seq(CombineResults), NEW x \in CombineResults, NEW s, NEW q,
           Ordered(g, q, s), x.side = s /\ x.n > 0 => x = q[NumFrom(g, s) + 1]
    PROVE  /\ Ordered(Append(g, x), q, s)
           /\ NumFrom(Append(g, x), s) = NumFrom(g, s) + (IF x.side = s /\ x.n > 0 THEN 1 ELSE 0)
<1>1. PICK n \in Nat : n = Len(g)
  BY LenProperties
<1>2. PICK h \in Seq(CombineResults) : h = Append(g, x)
  BY AppendProperties
<1>3. Len(h) = n + 1 /\ h[n + 1] = x /\ \A i \in 1..n : h[i] = g[i]
  BY <1>1, <1>2, AppendProperties
<1>4. DOMAIN h = 1..(n + 1) /\ DOMAIN g = 1..n
  BY <1>1, <1>2, <1>3, LenProperties
<1>5. PICK S \in SUBSET (1..n) : S = Combine!From(g, s)
  BY <1>1, FromType
<1>6. Cardinality(S) \in Nat /\ NumFrom(g, s) = Cardinality(S)
  BY <1>5, RankAdd DEF NumFrom
<1>7. CASE x.side = s /\ x.n > 0
  <2>1. Combine!From(h, s) = S \cup {n + 1}
    BY <1>3, <1>4, <1>5, <1>7 DEF Combine!From
  <2>2. NumFrom(h, s) = Cardinality(S) + 1
    BY <2>1, RankAdd DEF NumFrom
  <2>3. ASSUME NEW i \in S PROVE h[i] = q[Combine!Rank(S \cup {n + 1}, i)]
    <3>1. g[i] = q[Combine!Rank(S, i)]
      BY <1>5 DEF Ordered
    <3> QED  BY <1>3, <3>1, RankAdd
  <2>4. h[n + 1] = q[Combine!Rank(S \cup {n + 1}, n + 1)]
    BY <1>3, <1>6, <1>7, RankAdd
  <2>5. Ordered(h, q, s)
    BY <2>1, <2>3, <2>4 DEF Ordered
  <2> QED  BY <1>2, <1>6, <1>7, <2>2, <2>5
<1>8. CASE ~(x.side = s /\ x.n > 0)
  <2>1. Combine!From(h, s) = S
    BY <1>3, <1>4, <1>5, <1>8 DEF Combine!From
  <2>2. Ordered(h, q, s)
    BY <1>3, <1>5, <2>1 DEF Ordered
  <2> QED  BY <1>2, <1>5, <1>6, <1>8, <2>1, <2>2 DEF NumFrom
<1> QED  BY <1>7, <1>8

LEMMA OrderedGrows ==
    ASSUME NEW g \in Seq(CombineResults), NEW q \in Seq(CombineResults), NEW y \in CombineResults,
           NEW s, Ordered(g, q, s), NumFrom(g, s) <= Len(q)
    PROVE  Ordered(g, Append(q, y), s)
<1>1. PICK S : S = Combine!From(g, s)
  OBVIOUS
<1>2. PICK n \in Nat : n = Len(g)
  BY LenProperties
<1>3. S \in SUBSET (1..n) /\ Len(q) \in Nat /\ Cardinality(S) <= Len(q)
  BY <1>1, <1>2, FromType, LenProperties DEF NumFrom
<1>4. ASSUME NEW i \in S PROVE g[i] = Append(q, y)[Combine!Rank(S, i)]
  <2>1. g[i] = q[Combine!Rank(S, i)]
    BY <1>1 DEF Ordered
  <2>2. Combine!Rank(S, i) \in 1..Cardinality(S) /\ Cardinality(S) \in Nat
    BY <1>3, RankAdd
  <2>3. PICK r : r = Combine!Rank(S, i)
    OBVIOUS
  <2>4. r \in 1..Len(q)
    BY <1>3, <2>2, <2>3
  <2>5. Append(q, y)[r] = q[r]
    BY <2>4, AppendProperties
  <2> QED  BY <2>1, <2>3, <2>5
<1> QED  BY <1>1, <1>4 DEF Ordered

\* The places of the results of a type, and: x is the k-th of them.
Typed(q, type) == {n \in DOMAIN q : q[n].type = type}
NthIn(x, q, type, k) ==
    x.n \in Typed(q, type) /\ x = q[x.n] /\ Combine!Rank(Typed(q, type), x.n) = k

Aligned(g, q, s) ==
    /\ \A i \in Combine!Pairs(g) :
          NthIn(Combine!Member(g[i], s), q, "success", Combine!Rank(Combine!Pairs(g), i))
    /\ \A i \in Combine!Errors(g, s) :
          NthIn(g[i], q, "error", Combine!Rank(Combine!Errors(g, s), i))

NumPairs(g) == Cardinality(Combine!Pairs(g))
NumErrors(g, s) == Cardinality(Combine!Errors(g, s))
NumOf(q, type) == Cardinality(Typed(q, type))

LEMMA TypedType ==
    ASSUME NEW q \in Seq(CombineResults), NEW type
    PROVE  Typed(q, type) \in SUBSET (1..Len(q)) /\ NumOf(q, type) \in Nat
<1>1. Typed(q, type) \in SUBSET (1..Len(q)) /\ Len(q) \in Nat
  BY LenProperties DEF Typed
<1> QED  BY <1>1, RankAdd DEF NumOf

LEMMA TypedAppend ==
    ASSUME NEW q \in Seq(CombineResults), NEW y \in CombineResults, NEW type
    PROVE  /\ Typed(Append(q, y), type) = IF y.type = type THEN Typed(q, type) \cup {Len(q) + 1}
                                                           ELSE Typed(q, type)
           /\ NumOf(Append(q, y), type) = NumOf(q, type) + (IF y.type = type THEN 1 ELSE 0)
<1>1. PICK n \in Nat : n = Len(q)
  BY LenProperties
<1>2. PICK h \in Seq(CombineResults) : h = Append(q, y)
  BY AppendProperties
<1>3. Len(h) = n + 1 /\ h[n + 1] = y /\ \A i \in 1..n : h[i] = q[i]
  BY <1>1, <1>2, AppendProperties
<1>4. DOMAIN h = 1..(n + 1) /\ DOMAIN q = 1..n
  BY <1>1, <1>2, <1>3, LenProperties
<1>5. Typed(h, type) = IF y.type = type THEN Typed(q, type) \cup {n + 1} ELSE Typed(q, type)
  BY <1>3, <1>4 DEF Typed
<1>6. Typed(q, type) \in SUBSET (1..n) /\ NumOf(q, type) \in Nat
  BY <1>1, TypedType
<1>7. Cardinality(Typed(q, type) \cup {n + 1}) = Cardinality(Typed(q, type)) + 1
  BY <1>6, RankAdd
<1> QED  BY <1>1, <1>2, <1>5, <1>6, <1>7 DEF NumOf

\* The last result is the last one of its type.
LEMMA LastIsNth ==
    ASSUME NEW q \in Seq(CombineResults), q # <<>>, NEW x, x = q[Len(q)], x.n = Len(q)
    PROVE  NthIn(x, q, x.type, NumOf(q, x.type))
<1>1. PICK n \in Nat : n = Len(q)
  BY LenProperties
<1>2. n > 0 /\ DOMAIN q = 1..n
  BY <1>1, LenProperties, EmptySeq
<1>3. n \in Typed(q, x.type)
  BY <1>1, <1>2 DEF Typed
<1>4. {j \in Typed(q, x.type) : j <= n} = Typed(q, x.type)
  BY <1>2 DEF Typed
<1>5. Combine!Rank(Typed(q, x.type), n) = NumOf(q, x.type)
  BY <1>4, CombineCardinality DEF Combine!Rank, NumOf
<1> QED  BY <1>1, <1>3, <1>5 DEF NthIn

LEMMA NthGrows ==
    ASSUME NEW q \in Seq(CombineResults), NEW y \in CombineResults, NEW x, NEW type, NEW k,
           NthIn(x, q, type, k)
    PROVE  NthIn(x, Append(q, y), type, k)
<1>1. PICK n \in Nat : n = Len(q)
  BY LenProperties
<1>2. PICK S \in SUBSET (1..n) : S = Typed(q, type)
  BY <1>1, TypedType
<1>3. x.n \in S /\ x = q[x.n] /\ Combine!Rank(S, x.n) = k
  BY <1>2 DEF NthIn
<1>4. PICK T : T = Typed(Append(q, y), type)
  OBVIOUS
<1>5. T = S \/ T = S \cup {n + 1}
  BY <1>1, <1>2, <1>4, TypedAppend
<1>6. Combine!Rank(T, x.n) = k /\ x.n \in T
  BY <1>3, <1>5, RankAdd
<1>7. Append(q, y)[x.n] = q[x.n]
  <2>1. PICK i \in 1..Len(q) : i = x.n
    BY <1>1, <1>3
  <2>2. Append(q, y)[i] = q[i]
    BY AppendProperties
  <2> QED  BY <2>1, <2>2
<1> QED  BY <1>3, <1>4, <1>6, <1>7 DEF NthIn

LEMMA AlignedGrows ==
    ASSUME NEW q \in Seq(CombineResults), NEW y \in CombineResults, NEW g, NEW s, Aligned(g, q, s)
    PROVE  Aligned(g, Append(q, y), s)
BY NthGrows DEF Aligned

LEMMA OutputPlaces ==
    ASSUME NEW g \in Seq(CombineOutputs), NEW s
    PROVE  /\ Combine!Pairs(g) \in SUBSET (1..Len(g)) /\ Combine!Errors(g, s) \in SUBSET (1..Len(g))
           /\ NumPairs(g) \in Nat /\ NumErrors(g, s) \in Nat
<1>1. /\ Combine!Pairs(g) \in SUBSET (1..Len(g)) /\ Combine!Errors(g, s) \in SUBSET (1..Len(g))
      /\ Len(g) \in Nat
  BY LenProperties DEF Combine!Pairs, Combine!Errors
<1> QED  BY <1>1, RankAdd DEF NumPairs, NumErrors

\* Another output: a pair of the next values of both sides, or the next error of one.
LEMMA AlignedAppend ==
    ASSUME NEW g \in Seq(CombineOutputs), NEW x \in CombineOutputs, NEW s, NEW q,
           Aligned(g, q, s),
           x.type = "success" => NthIn(Combine!Member(x, s), q, "success", NumPairs(g) + 1),
           x.type = "error" /\ x.side = s => NthIn(x, q, "error", NumErrors(g, s) + 1)
    PROVE  /\ Aligned(Append(g, x), q, s)
           /\ NumPairs(Append(g, x)) = NumPairs(g) + (IF x.type = "success" THEN 1 ELSE 0)
           /\ NumErrors(Append(g, x), s)
                  = NumErrors(g, s) + (IF x.type = "error" /\ x.side = s THEN 1 ELSE 0)
<1>1. PICK n \in Nat : n = Len(g)
  BY LenProperties
<1>2. PICK h \in Seq(CombineOutputs) : h = Append(g, x)
  BY AppendProperties
<1>3. Len(h) = n + 1 /\ h[n + 1] = x /\ \A i \in 1..n : h[i] = g[i]
  BY <1>1, <1>2, AppendProperties
<1>4. DOMAIN h = 1..(n + 1) /\ DOMAIN g = 1..n
  BY <1>1, <1>2, <1>3, LenProperties
<1>5. PICK P \in SUBSET (1..n), E \in SUBSET (1..n) :
         P = Combine!Pairs(g) /\ E = Combine!Errors(g, s)
  BY <1>1, OutputPlaces
<1>6. /\ Cardinality(P) \in Nat /\ NumPairs(g) = Cardinality(P)
      /\ Cardinality(E) \in Nat /\ NumErrors(g, s) = Cardinality(E)
  BY <1>5, RankAdd DEF NumPairs, NumErrors
<1>7. /\ Combine!Pairs(h) = IF x.type = "success" THEN P \cup {n + 1} ELSE P
      /\ Combine!Errors(h, s) = IF x.type = "error" /\ x.side = s THEN E \cup {n + 1} ELSE E
  BY <1>3, <1>4, <1>5 DEF Combine!Pairs, Combine!Errors
<1>8. /\ NumPairs(h) = NumPairs(g) + (IF x.type = "success" THEN 1 ELSE 0)
      /\ NumErrors(h, s) = NumErrors(g, s) + (IF x.type = "error" /\ x.side = s THEN 1 ELSE 0)
  <2>1. /\ Cardinality(P \cup {n + 1}) = Cardinality(P) + 1
        /\ Cardinality(E \cup {n + 1}) = Cardinality(E) + 1
    BY RankAdd
  <2> QED  BY <1>6, <1>7, <2>1 DEF NumPairs, NumErrors
<1>9. ASSUME NEW i \in Combine!Pairs(h)
      PROVE  NthIn(Combine!Member(h[i], s), q, "success", Combine!Rank(Combine!Pairs(h), i))
  <2>1. CASE i \in P
    <3>1. Combine!Rank(Combine!Pairs(h), i) = Combine!Rank(P, i)
      <4>1. i \in 1..n /\ Combine!Rank(P \cup {n + 1}, i) = Combine!Rank(P, i)
        BY <2>1, RankAdd
      <4> QED  BY <1>7, <4>1
    <3>2. h[i] = g[i]
      BY <1>3, <2>1
    <3> QED  BY <1>5, <2>1, <3>1, <3>2 DEF Aligned
  <2>2. CASE i \notin P
    <3>1. i = n + 1 /\ x.type = "success" /\ Combine!Pairs(h) = P \cup {n + 1}
      BY <1>7, <1>9, <2>2
    <3>2. Combine!Rank(P \cup {n + 1}, n + 1) = NumPairs(g) + 1
      <4>1. Combine!Rank(P \cup {n + 1}, n + 1) = Cardinality(P) + 1
        BY RankAdd
      <4> QED  BY <1>6, <4>1
    <3> QED  BY <1>3, <3>1, <3>2
  <2> QED  BY <2>1, <2>2
<1>10. ASSUME NEW i \in Combine!Errors(h, s)
       PROVE  NthIn(h[i], q, "error", Combine!Rank(Combine!Errors(h, s), i))
  <2>1. CASE i \in E
    <3>1. Combine!Rank(Combine!Errors(h, s), i) = Combine!Rank(E, i)
      <4>1. i \in 1..n /\ Combine!Rank(E \cup {n + 1}, i) = Combine!Rank(E, i)
        BY <2>1, RankAdd
      <4> QED  BY <1>7, <4>1
    <3>2. h[i] = g[i]
      BY <1>3, <2>1
    <3> QED  BY <1>5, <2>1, <3>1, <3>2 DEF Aligned
  <2>2. CASE i \notin E
    <3>1. i = n + 1 /\ x.type = "error" /\ x.side = s /\ Combine!Errors(h, s) = E \cup {n + 1}
      BY <1>7, <1>10, <2>2
    <3>2. Combine!Rank(E \cup {n + 1}, n + 1) = NumErrors(g, s) + 1
      <4>1. Combine!Rank(E \cup {n + 1}, n + 1) = Cardinality(E) + 1
        BY RankAdd
      <4> QED  BY <1>6, <4>1
    <3> QED  BY <1>3, <3>1, <3>2
  <2> QED  BY <2>1, <2>2
<1>11. Aligned(h, q, s)
  BY <1>9, <1>10 DEF Aligned
<1> QED  BY <1>2, <1>8, <1>11

\* What was taken before the consumer left is the beginning of it.
LEMMA AlignedCut ==
    ASSUME NEW g \in Seq(CombineOutputs), NEW h \in Seq(CombineOutputs), NEW s, NEW q,
           Aligned(g, q, s), Len(h) <= Len(g), \A i \in 1..Len(h) : h[i] = g[i]
    PROVE  Aligned(h, q, s)
<1>1. PICK n \in Nat, m \in Nat : n = Len(g) /\ m = Len(h)
  BY LenProperties
<1>2. DOMAIN h = 1..m /\ DOMAIN g = 1..n /\ m <= n /\ \A i \in 1..m : h[i] = g[i]
  BY <1>1, LenProperties
<1>3. /\ Combine!Pairs(h) = {i \in Combine!Pairs(g) : i <= m}
      /\ Combine!Errors(h, s) = {i \in Combine!Errors(g, s) : i <= m}
  BY <1>2 DEF Combine!Pairs, Combine!Errors
<1>4. ASSUME NEW S \in SUBSET (1..n), NEW i \in 1..m
      PROVE  Combine!Rank({j \in S : j <= m}, i) = Combine!Rank(S, i)
  <2>1. ASSUME NEW j \in S, j <= i PROVE j <= m
    <3>1. j \in Int /\ i \in Int /\ m \in Int /\ i <= m
      OBVIOUS
    <3> QED  BY <2>1, <3>1
  <2>2. {j \in {k \in S : k <= m} : j <= i} = {j \in S : j <= i}
    BY <2>1
  <2> QED  BY <2>2 DEF Combine!Rank
<1>5. Combine!Pairs(g) \in SUBSET (1..n) /\ Combine!Errors(g, s) \in SUBSET (1..n)
  BY <1>1, OutputPlaces
<1>6. ASSUME NEW i \in Combine!Pairs(h)
      PROVE  NthIn(Combine!Member(h[i], s), q, "success", Combine!Rank(Combine!Pairs(h), i))
  <2>1. i \in 1..m /\ i \in Combine!Pairs(g)
    BY <1>2, <1>3, <1>5, <1>6
  <2>2. Combine!Rank(Combine!Pairs(h), i) = Combine!Rank(Combine!Pairs(g), i)
    BY <1>3, <1>4, <1>5, <2>1
  <2> QED  BY <1>2, <2>1, <2>2 DEF Aligned
<1>7. ASSUME NEW i \in Combine!Errors(h, s)
      PROVE  NthIn(h[i], q, "error", Combine!Rank(Combine!Errors(h, s), i))
  <2>1. i \in 1..m /\ i \in Combine!Errors(g, s)
    BY <1>2, <1>3, <1>5, <1>7
  <2>2. Combine!Rank(Combine!Errors(h, s), i) = Combine!Rank(Combine!Errors(g, s), i)
    BY <1>3, <1>4, <1>5, <2>1
  <2> QED  BY <1>2, <2>1, <2>2 DEF Aligned
<1> QED  BY <1>6, <1>7 DEF Aligned

-----------------------------------------------------------------------------
(* merge and zip: what holds in every state. *)

CombineTypes ==
    /\ cMode \in {"none", "merge", "zip"}
    /\ cStage \in {"none", "ask", "wait", "yield", "closing", "done"}
    /\ gen \in [Combine!Sides -> {"idle", "asked", "ended"}]
    /\ answer \in [Combine!Sides -> CombineAnswers] /\ buffered \in [Combine!Sides -> CombineAnswers]
    /\ racing \subseteq Combine!Sides
    /\ cPending \in Seq(CombineOutputs) /\ given \in Seq(CombineOutputs)
    /\ cMode = "merge" => cPending \in Seq(CombineResults) /\ given \in Seq(CombineResults)
    /\ cPulled \in [Combine!Sides -> Seq(CombineResults)]
    /\ \A s \in Combine!Sides : \A n \in 1..Len(cPulled[s]) :
          cPulled[s][n].n = n /\ cPulled[s][n].side = s

IsLast(x, s) == x \in CombineResults /\ cPulled[s] # <<>> /\ x = cPulled[s][Len(cPulled[s])]

\* An answer that is a result is the last one of its side, also while zip keeps it; a side
\* that owes an answer has none, and merge has done with a side only when it has ended.
SideInv(s) ==
    /\ gen[s] = "asked" => answer[s] = Combine!None /\ buffered[s] = Combine!None
    /\ answer[s] \in CombineResults => gen[s] # "asked" /\ IsLast(answer[s], s)
    /\ answer[s] \notin CombineResults \cup {Combine!None} => gen[s] = "ended"
    /\ buffered[s] # Combine!None =>
          /\ cMode = "zip" /\ cStage \notin {"none", "wait"}
          /\ answer[s] = Combine!None /\ gen[s] # "asked"
          /\ buffered[s].type = "success" /\ IsLast(buffered[s], s)
    /\ cMode = "none" => /\ gen[s] = "idle" /\ answer[s] = Combine!None
                         /\ buffered[s] = Combine!None /\ cPulled[s] = <<>>
    /\ cMode = "zip" /\ cStage \in {"ask", "yield"} => answer[s] = Combine!None /\ gen[s] # "asked"
    /\ cMode = "merge" /\ s \notin racing => gen[s] = "ended" /\ answer[s] = Combine!None
    /\ cMode = "merge" /\ cStage = "yield" /\ cPending[1].side = s =>
          answer[s] = Combine!None /\ gen[s] # "asked"

CombineStage ==
    /\ \A s \in Combine!Sides : SideInv(s)
    /\ cMode = "none" => given = <<>> /\ cPending = <<>>
    /\ cMode = "none" <=> cStage = "none"
    /\ cPending # <<>> <=> cStage = "yield"
    /\ cMode = "merge" => Len(cPending) <= 1 /\ cStage # "ask"
    /\ cMode = "merge" /\ cStage = "closing" /\ ~cLeft /\ (\A s \in Combine!Sides : answer[s] # Combine!Void)
          => racing = {}

\* Whatever has been yielded was given, but for an answer that is still to be looked at.
MergeInv ==
    cMode = "merge" =>
        \A s \in Combine!Sides :
            /\ Ordered(Combine!Given, cPulled[s], s)
            /\ NumFrom(Combine!Given, s)
                  = IF answer[s] \in CombineResults THEN Len(cPulled[s]) - 1 ELSE Len(cPulled[s])

Kept(s, type) == IF answer[s].type = type \/ buffered[s].type = type THEN 1 ELSE 0

ZipInv ==
    cMode = "zip" =>
        \A s \in Combine!Sides :
            /\ Aligned(Combine!Given, cPulled[s], s)
            /\ cStage \notin {"closing", "done"} =>
                  /\ NumOf(cPulled[s], "success") = NumPairs(Combine!Given) + Kept(s, "success")
                  /\ NumOf(cPulled[s], "error") = NumErrors(Combine!Given, s) + Kept(s, "error")

CombineInv == CombineTypes /\ CombineStage /\ MergeInv /\ ZipInv

LEMMA EmptyNumbers ==
    ASSUME NEW s, NEW type, NEW q
    PROVE  /\ Ordered(<<>>, q, s) /\ NumFrom(<<>>, s) = 0
           /\ Aligned(<<>>, q, s) /\ NumPairs(<<>>) = 0 /\ NumErrors(<<>>, s) = 0
           /\ NumOf(<<>>, type) = 0
<1>1. /\ Combine!From(<<>>, s) = {} /\ Combine!Pairs(<<>>) = {} /\ Combine!Errors(<<>>, s) = {}
      /\ Typed(<<>>, type) = {}
  BY DEF Combine!From, Combine!Pairs, Combine!Errors, Typed
<1>2. Cardinality({}) = 0
  BY FS_EmptySet
<1> QED  BY <1>1, <1>2 DEF Ordered, Aligned, NumFrom, NumPairs, NumErrors, NumOf

LEMMA GivenType ==
    ASSUME CombineTypes
    PROVE  /\ Combine!Given \in Seq(CombineOutputs)
           /\ cMode = "merge" => Combine!Given \in Seq(CombineResults)
           /\ cPending = <<>> => Combine!Given = given
BY ConcatProperties, ConcatEmptySeq DEF CombineTypes, Combine!Given

LEMMA CombineInit == Combine!Init => CombineInv
<1> SUFFICES ASSUME Combine!Init PROVE CombineInv
  OBVIOUS
<1> USE DEF Combine!Init
<1>1. Combine!None \in CombineAnswers /\ Combine!None \notin CombineResults
  BY AnswerKinds DEF CombineAnswers
<1>2. <<>> \in Seq(CombineOutputs) /\ <<>> \in Seq(CombineResults) /\ Len(<<>>) = 0
  OBVIOUS
<1>3. CombineTypes
  BY <1>1, <1>2 DEF CombineTypes
<1>4. CombineStage
  BY <1>1 DEF CombineStage, SideInv
<1>5. MergeInv /\ ZipInv
  BY DEF MergeInv, ZipInv
<1> QED  BY <1>3, <1>4, <1>5 DEF CombineInv

\* Nothing has been given yet.
LEMMA CombineStarts ==
    ASSUME CombineInv, Combine!StartMerge \/ Combine!StartZip
    PROVE  CombineInv'
<1>1. CombineTypes /\ CombineStage /\ cMode = "none"
  BY DEF CombineInv, Combine!StartMerge, Combine!StartZip
<1>2. /\ given = <<>> /\ cPending = <<>> /\ given' = given /\ cPending' = cPending
      /\ answer' = answer /\ buffered' = buffered /\ cPulled' = cPulled /\ cLeft' = cLeft
      /\ \/ cMode' = "merge" /\ cStage' = "wait" /\ racing' = Combine!Sides
            /\ gen' = [s \in Combine!Sides |-> "asked"]
         \/ cMode' = "zip" /\ cStage' = "ask" /\ gen' = gen
            /\ racing' = racing
  BY <1>1 DEF CombineStage, Combine!StartMerge, Combine!StartZip
<1>3. CombineTypes'
  <2>1. <<>> \in Seq(CombineResults)
    OBVIOUS
  <2> QED  BY <1>1, <1>2, <2>1 DEF CombineTypes
<1>4. ASSUME NEW s \in Combine!Sides
      PROVE  /\ gen[s] = "idle" /\ answer[s] = Combine!None
             /\ buffered[s] = Combine!None /\ cPulled[s] = <<>>
             /\ answer[s] \notin CombineResults /\ answer[s].type = "none" /\ buffered[s].type = "none"
  <2>1. /\ gen[s] = "idle" /\ answer[s] = Combine!None
        /\ buffered[s] = Combine!None /\ cPulled[s] = <<>>
    BY <1>1, <1>4 DEF CombineStage, SideInv
  <2>2. Combine!None \in CombineAnswers
    BY DEF CombineAnswers
  <2> QED  BY <2>1, <2>2, AnswerKinds
<1>5. CombineStage'
  <2>1. ASSUME NEW s \in Combine!Sides PROVE SideInv(s)'
    <3>1. gen'[s] \in {"idle", "asked"}
      BY <1>2, <1>4
    <3> QED  BY <1>2, <1>4, <3>1 DEF SideInv
  <2>2. cPending' = <<>> /\ Len(<<>>) = 0
    BY <1>2
  <2> QED  BY <1>2, <2>1, <2>2 DEF CombineStage
<1>6. Combine!Given' = <<>>
  BY <1>2 DEF Combine!Given
<1>7. MergeInv'
  <2>1. ASSUME NEW s \in Combine!Sides
        PROVE  /\ Ordered(<<>>, cPulled'[s], s) /\ NumFrom(<<>>, s) = 0
               /\ Len(cPulled'[s]) = 0 /\ answer'[s] \notin CombineResults
    BY <1>2, <1>4, EmptyNumbers
  <2> QED  BY <1>6, <2>1 DEF MergeInv
<1>8. ZipInv'
  <2>1. ASSUME NEW s \in Combine!Sides
        PROVE  /\ Aligned(<<>>, cPulled'[s], s) /\ NumPairs(<<>>) = 0 /\ NumErrors(<<>>, s) = 0
               /\ \A type : NumOf(cPulled'[s], type) = 0
               /\ Kept(s, "success")' = 0 /\ Kept(s, "error")' = 0
    BY <1>2, <1>4, EmptyNumbers DEF Kept
  <2> QED  BY <1>6, <2>1 DEF ZipInv
<1> QED  BY <1>3, <1>5, <1>7, <1>8 DEF CombineInv

LEMMA CombineCloses ==
    ASSUME CombineInv, Combine!Close
    PROVE  CombineInv'
<1>1. CombineTypes /\ CombineStage /\ MergeInv /\ ZipInv
  BY DEF CombineInv
<1>2. /\ cStage = "closing" /\ cStage' = "done" /\ gen' = [s \in Combine!Sides |-> "ended"]
      /\ cMode' = cMode /\ answer' = answer /\ buffered' = buffered /\ racing' = racing
      /\ cPending' = cPending /\ given' = given /\ cPulled' = cPulled /\ cLeft' = cLeft
  BY DEF Combine!Close
<1>3. CombineTypes'
  BY <1>1, <1>2 DEF CombineTypes
<1>4. CombineStage'
  <2>1. ASSUME NEW s \in Combine!Sides PROVE SideInv(s)'
    <3>1. SideInv(s) /\ gen'[s] = "ended" /\ cMode # "none"
      BY <1>1, <1>2 DEF CombineStage
    <3> QED  BY <1>2, <3>1 DEF SideInv, IsLast
  <2> QED  BY <1>1, <1>2, <2>1 DEF CombineStage
<1>5. Combine!Given' = Combine!Given
  BY <1>2 DEF Combine!Given
<1>6. MergeInv' /\ ZipInv'
  BY <1>1, <1>2, <1>5 DEF MergeInv, ZipInv
<1> QED  BY <1>3, <1>4, <1>6 DEF CombineInv

\* zip asks, or takes what it has kept: that is then its answer.
LEMMA CombineAsks ==
    ASSUME CombineInv, Combine!ZipAsks
    PROVE  CombineInv'
<1>1. CombineTypes /\ CombineStage /\ MergeInv /\ ZipInv
  BY DEF CombineInv
<1>2. /\ cMode = "zip" /\ cStage = "ask" /\ cStage' = "wait"
      /\ gen' = [s \in Combine!Sides |-> IF buffered[s] = Combine!None THEN "asked" ELSE gen[s]]
      /\ answer' = buffered /\ buffered' = [s \in Combine!Sides |-> Combine!None]
      /\ cMode' = cMode /\ racing' = racing
      /\ cPending' = cPending /\ given' = given /\ cPulled' = cPulled /\ cLeft' = cLeft
  BY DEF Combine!ZipAsks
<1>3. Combine!None \in CombineAnswers /\ Combine!None \notin CombineResults
  BY AnswerKinds DEF CombineAnswers
<1>4. CombineTypes'
  BY <1>1, <1>2, <1>3 DEF CombineTypes
<1>5. CombineStage'
  <2>1. ASSUME NEW s \in Combine!Sides PROVE SideInv(s)'
    <3>1. /\ SideInv(s) /\ buffered'[s] = Combine!None /\ answer'[s] = buffered[s]
          /\ gen'[s] = IF buffered[s] = Combine!None THEN "asked" ELSE gen[s]
      BY <1>1, <1>2 DEF CombineStage
    <3> QED  BY <1>2, <1>3, <3>1 DEF SideInv, IsLast
  <2> QED  BY <1>1, <1>2, <2>1 DEF CombineStage
<1>6. Combine!Given' = Combine!Given
  BY <1>2 DEF Combine!Given
<1>7. MergeInv'
  BY <1>2 DEF MergeInv
<1>8. ZipInv'
  <2>1. ASSUME NEW s \in Combine!Sides
        PROVE  Kept(s, "success")' = Kept(s, "success") /\ Kept(s, "error")' = Kept(s, "error")
    <3>1. answer[s] = Combine!None /\ buffered'[s] = Combine!None /\ answer'[s] = buffered[s]
      BY <1>1, <1>2 DEF CombineStage, SideInv
    <3> QED  BY <3>1, AnswerKinds DEF Kept
  <2> QED  BY <1>1, <1>2, <1>6, <2>1 DEF ZipInv
<1> QED  BY <1>4, <1>5, <1>7, <1>8 DEF CombineInv

\* A side that yields another result.
LEMMA CombineYields ==
    ASSUME CombineInv, NEW s \in Combine!Sides, NEW x \in CombineResults,
           x.side = s, x.n = Len(cPulled[s]) + 1, gen[s] = "asked",
           answer' = [answer EXCEPT ![s] = x], cPulled' = [cPulled EXCEPT ![s] = Append(@, x)],
           gen' = [gen EXCEPT ![s] = "idle"],
           UNCHANGED <<cMode, cStage, buffered, racing, cPending, given, cLeft>>
    PROVE  CombineInv'
<1>1. CombineTypes /\ CombineStage /\ MergeInv /\ ZipInv
  BY DEF CombineInv
<1>2. PICK q \in Seq(CombineResults) : q = cPulled[s]
  BY <1>1 DEF CombineTypes
<1>3. PICK n \in Nat : n = Len(q)
  BY LenProperties
<1>4. PICK r \in Seq(CombineResults) : r = Append(q, x)
  BY AppendProperties
<1>5. Len(r) = n + 1 /\ r # <<>> /\ r[n + 1] = x /\ \A i \in 1..n : r[i] = q[i]
  BY <1>3, <1>4, AppendProperties
<1>6. /\ cPulled' = [cPulled EXCEPT ![s] = r]
      /\ \A t \in Combine!Sides : cPulled'[t] = IF t = s THEN r ELSE cPulled[t]
  BY <1>1, <1>2, <1>4 DEF CombineTypes
<1>7. \A t \in Combine!Sides : /\ answer'[t] = IF t = s THEN x ELSE answer[t]
                               /\ gen'[t] = IF t = s THEN "idle" ELSE gen[t]
  BY <1>1 DEF CombineTypes
<1>8. x \in CombineAnswers /\ x.type \in {"success", "error"}
  BY DEF CombineAnswers, CombineResults
<1>9. /\ answer[s] = Combine!None /\ buffered[s] = Combine!None /\ cMode # "none"
      /\ ~(cMode = "zip" /\ cStage \in {"ask", "yield"})
      /\ cMode = "merge" => s \in racing
      /\ ~(cMode = "merge" /\ cStage = "yield" /\ cPending[1].side = s)
  BY <1>1 DEF CombineStage, SideInv
<1>10. x # Combine!None /\ Combine!None \notin CombineResults /\ Combine!None.type = "none"
  <2>1. Combine!None \in CombineAnswers
    BY DEF CombineAnswers
  <2> QED  BY <1>8, <2>1, AnswerKinds
<1>11. CombineTypes'
  <2>1. ASSUME NEW t \in Combine!Sides, NEW i \in 1..Len(cPulled'[t])
        PROVE  cPulled'[t][i].n = i /\ cPulled'[t][i].side = t
    <3>1. CASE t # s
      BY <1>1, <1>6, <2>1, <3>1 DEF CombineTypes
    <3>2. CASE t = s /\ i \in 1..n
      BY <1>1, <1>2, <1>3, <1>5, <1>6, <3>2 DEF CombineTypes
    <3>3. CASE t = s /\ i = n + 1
      BY <1>2, <1>3, <1>5, <1>6, <3>3
    <3>4. t = s => i \in 1..(n + 1)
      BY <1>5, <1>6, <2>1
    <3> QED  BY <3>1, <3>2, <3>3, <3>4
  <2> QED  BY <1>1, <1>4, <1>6, <1>8, <2>1 DEF CombineTypes
<1>12. CombineStage'
  <2>1. ASSUME NEW t \in Combine!Sides PROVE SideInv(t)'
    <3>1. SideInv(t)
      BY <1>1 DEF CombineStage
    <3>2. CASE t # s
      BY <1>6, <1>7, <3>1, <3>2 DEF SideInv, IsLast
    <3>3. CASE t = s
      <4>1. cPulled'[t] = r /\ r[Len(r)] = x /\ answer'[t] = x /\ gen'[t] = "idle" /\ buffered'[t] = Combine!None
        BY <1>5, <1>6, <1>7, <1>9, <3>3
      <4> QED  BY <1>5, <1>9, <1>10, <3>3, <4>1 DEF SideInv, IsLast
    <3> QED  BY <3>2, <3>3
  <2>2. answer'[s] # Combine!None
    BY <1>7, <1>10
  <2>3. cMode = "merge" => racing # {}
    BY <1>9
  <2>4. ASSUME cMode = "merge", cStage = "closing", ~cLeft
        PROVE  \E t \in Combine!Sides : answer'[t] = Combine!Void
    <3>1. PICK t \in Combine!Sides : answer[t] = Combine!Void
      BY <1>1, <2>3, <2>4 DEF CombineStage
    <3>2. t # s
      <4>1. Combine!Void # Combine!None
        BY AnswerKinds
      <4> QED  BY <1>9, <3>1, <4>1
    <3> QED  BY <1>7, <3>1, <3>2
  <2> QED  BY <1>1, <1>9, <2>1, <2>4 DEF CombineStage
<1>13. Combine!Given' = Combine!Given /\ Combine!Given \in Seq(CombineOutputs)
       /\ (cMode = "merge" => Combine!Given \in Seq(CombineResults))
  BY <1>1, GivenType DEF Combine!Given
<1>14. PICK g : g = Combine!Given
  OBVIOUS
<1>15. MergeInv'
  <2> SUFFICES ASSUME cMode = "merge", NEW t \in Combine!Sides
               PROVE  /\ Ordered(g, cPulled'[t], t)
                      /\ NumFrom(g, t) = IF answer'[t] \in CombineResults
                                         THEN Len(cPulled'[t]) - 1 ELSE Len(cPulled'[t])
    BY <1>13, <1>14 DEF MergeInv
  <2>1. /\ Ordered(g, cPulled[t], t)
        /\ NumFrom(g, t) = IF answer[t] \in CombineResults
                           THEN Len(cPulled[t]) - 1 ELSE Len(cPulled[t])
    BY <1>1, <1>14 DEF MergeInv
  <2>2. CASE t # s
    BY <1>6, <1>7, <2>1, <2>2
  <2>3. CASE t = s
    <3>1. Ordered(g, q, s) /\ NumFrom(g, s) = n /\ g \in Seq(CombineResults)
      BY <1>2, <1>3, <1>9, <1>10, <1>13, <1>14, <2>1, <2>3
    <3>2. Ordered(g, r, s)
      <4>1. NumFrom(g, s) <= Len(q)
        BY <1>3, <3>1
      <4> QED  BY <1>4, <3>1, <4>1, OrderedGrows
    <3> QED  BY <1>5, <1>6, <1>7, <2>3, <3>1, <3>2
  <2> QED  BY <2>2, <2>3
<1>16. ZipInv'
  <2> SUFFICES ASSUME cMode = "zip", NEW t \in Combine!Sides
               PROVE  /\ Aligned(g, cPulled'[t], t)
                      /\ cStage \notin {"closing", "done"} =>
                            /\ NumOf(cPulled'[t], "success") = NumPairs(g) + Kept(t, "success")'
                            /\ NumOf(cPulled'[t], "error") = NumErrors(g, t) + Kept(t, "error")'
    BY <1>13, <1>14 DEF ZipInv
  <2>1. /\ Aligned(g, cPulled[t], t)
        /\ cStage \notin {"closing", "done"} =>
                            /\ NumOf(cPulled[t], "success") = NumPairs(g) + Kept(t, "success")
                            /\ NumOf(cPulled[t], "error") = NumErrors(g, t) + Kept(t, "error")
    BY <1>1, <1>14 DEF ZipInv
  <2>2. CASE t # s
    <3>1. Kept(t, "success")' = Kept(t, "success") /\ Kept(t, "error")' = Kept(t, "error")
      BY <1>7, <2>2 DEF Kept
    <3> QED  BY <1>6, <2>1, <2>2, <3>1
  <2>3. CASE t = s
    <3>1. Aligned(g, q, s) /\ g \in Seq(CombineOutputs)
      BY <1>2, <1>13, <1>14, <2>1, <2>3
    <3>2. Aligned(g, r, s)
      BY <1>4, <3>1, AlignedGrows
    <3>3. /\ NumOf(r, "success") = NumOf(q, "success") + (IF x.type = "success" THEN 1 ELSE 0)
          /\ NumOf(r, "error") = NumOf(q, "error") + (IF x.type = "error" THEN 1 ELSE 0)
      BY <1>4, TypedAppend
    <3>4. Kept(s, "success") = 0 /\ Kept(s, "error") = 0
      BY <1>9, <1>10 DEF Kept
    <3>5. /\ Kept(s, "success")' = (IF x.type = "success" THEN 1 ELSE 0)
          /\ Kept(s, "error")' = (IF x.type = "error" THEN 1 ELSE 0)
      BY <1>7, <1>9, <1>10 DEF Kept
    <3>6. NumPairs(g) \in Nat /\ NumErrors(g, s) \in Nat
      BY <3>1, OutputPlaces
    <3> QED  BY <1>2, <1>6, <2>1, <2>3, <3>2, <3>3, <3>4, <3>5, <3>6
  <2> QED  BY <2>2, <2>3
<1> QED  BY <1>11, <1>12, <1>15, <1>16 DEF CombineInv

\* A side that ends or throws.
LEMMA CombineEnds ==
    ASSUME CombineInv, NEW s \in Combine!Sides,
           NEW x \in {Combine!Done, Combine!Thrown, Combine!Void}, gen[s] = "asked",
           answer' = [answer EXCEPT ![s] = x], gen' = [gen EXCEPT ![s] = "ended"],
           UNCHANGED <<cMode, cStage, buffered, racing, cPending, given, cPulled, cLeft>>
    PROVE  CombineInv'
<1>1. CombineTypes /\ CombineStage /\ MergeInv /\ ZipInv
  BY DEF CombineInv
<1>2. \A t \in Combine!Sides : /\ answer'[t] = IF t = s THEN x ELSE answer[t]
                               /\ gen'[t] = IF t = s THEN "ended" ELSE gen[t]
  BY <1>1 DEF CombineTypes
<1>3. /\ answer[s] = Combine!None /\ buffered[s] = Combine!None /\ cMode # "none"
      /\ ~(cMode = "zip" /\ cStage \in {"ask", "yield"})
      /\ cMode = "merge" => s \in racing
      /\ ~(cMode = "merge" /\ cStage = "yield" /\ cPending[1].side = s)
  BY <1>1 DEF CombineStage, SideInv
<1>4. /\ x \in CombineAnswers /\ x \notin CombineResults /\ x # Combine!None
      /\ x.type \in {"done", "thrown", "void"}
      /\ Combine!None \notin CombineResults /\ Combine!None.type = "none"
  <2>1. Combine!None \in CombineAnswers /\ x \in CombineAnswers
    BY DEF CombineAnswers
  <2> QED  BY <2>1, AnswerKinds
<1>5. CombineTypes'
  BY <1>1, <1>4 DEF CombineTypes
<1>6. CombineStage'
  <2>1. ASSUME NEW t \in Combine!Sides PROVE SideInv(t)'
    <3>1. SideInv(t)
      BY <1>1 DEF CombineStage
    <3>2. CASE t # s
      BY <1>2, <3>1, <3>2 DEF SideInv, IsLast
    <3>3. CASE t = s
      <4>1. answer'[t] = x /\ gen'[t] = "ended" /\ buffered'[t] = Combine!None
        BY <1>2, <1>3, <3>3
      <4> QED  BY <1>3, <1>4, <3>3, <4>1 DEF SideInv, IsLast
    <3> QED  BY <3>2, <3>3
  <2>2. cMode = "merge" => racing # {}
    BY <1>3
  <2>3. ASSUME cMode = "merge", cStage = "closing", ~cLeft
        PROVE  \E t \in Combine!Sides : answer'[t] = Combine!Void
    <3>1. PICK t \in Combine!Sides : answer[t] = Combine!Void
      BY <1>1, <2>2, <2>3 DEF CombineStage
    <3>2. t # s
      <4>1. Combine!Void # Combine!None
        BY AnswerKinds
      <4> QED  BY <1>3, <3>1, <4>1
    <3> QED  BY <1>2, <3>1, <3>2
  <2> QED  BY <1>1, <1>3, <2>1, <2>3 DEF CombineStage
<1>7. Combine!Given' = Combine!Given
  BY DEF Combine!Given
<1>8. MergeInv'
  <2>1. \A t \in Combine!Sides : answer'[t] \in CombineResults <=> answer[t] \in CombineResults
    BY <1>2, <1>3, <1>4
  <2> QED  BY <1>1, <1>7, <2>1 DEF MergeInv
<1>9. ZipInv'
  <2>1. ASSUME NEW t \in Combine!Sides
        PROVE  Kept(t, "success")' = Kept(t, "success") /\ Kept(t, "error")' = Kept(t, "error")
    BY <1>2, <1>3, <1>4 DEF Kept
  <2> QED  BY <1>1, <1>7, <2>1 DEF ZipInv
<1> QED  BY <1>5, <1>6, <1>8, <1>9 DEF CombineInv

LEMMA CombineAnswersStep ==
    ASSUME CombineInv, NEW s \in Combine!Sides, Combine!Answers(s)
    PROVE  CombineInv'
<1>1. CombineTypes
  BY DEF CombineInv
<1>2. Len(cPulled[s]) \in Nat
  BY <1>1, LenProperties DEF CombineTypes
<1>3. ASSUME NEW type \in {"success", "error"},
             answer' = [answer EXCEPT ![s] = Combine!Result(type, s, Len(cPulled[s]) + 1)],
             cPulled' = [cPulled EXCEPT ![s] = Append(@, Combine!Result(type, s, Len(cPulled[s]) + 1))],
             gen' = [gen EXCEPT ![s] = "idle"]
      PROVE  CombineInv'
  <2>1. PICK x \in CombineResults : /\ x = Combine!Result(type, s, Len(cPulled[s]) + 1)
                                    /\ x.side = s /\ x.n = Len(cPulled[s]) + 1
    <3>1. PICK k \in Nat : k = Len(cPulled[s]) + 1
      BY <1>2
    <3>2. Combine!Result(type, s, k) \in CombineResults
      BY DEF CombineResults, Combine!Result
    <3>3. Combine!Result(type, s, k).side = s /\ Combine!Result(type, s, k).n = k
      BY DEF Combine!Result
    <3> QED  BY <3>1, <3>2, <3>3
  <2>2. /\ answer' = [answer EXCEPT ![s] = x]
        /\ cPulled' = [cPulled EXCEPT ![s] = Append(@, x)]
        /\ gen' = [gen EXCEPT ![s] = "idle"] /\ gen[s] = "asked"
        /\ UNCHANGED <<cMode, cStage, buffered, racing, cPending, given, cLeft>>
    BY <1>3, <2>1 DEF Combine!Answers
  <2> QED  BY <2>1, <2>2, CombineYields
<1>4. ASSUME NEW x \in {Combine!Done, Combine!Thrown, Combine!Void},
             answer' = [answer EXCEPT ![s] = x], gen' = [gen EXCEPT ![s] = "ended"],
             UNCHANGED cPulled
      PROVE  CombineInv'
  <2>1. gen[s] = "asked" /\ UNCHANGED <<cMode, cStage, buffered, racing, cPending, given, cLeft>>
    BY DEF Combine!Answers
  <2> QED  BY <1>4, <2>1, CombineEnds
<1> QED  BY <1>3, <1>4 DEF Combine!Answers

\* The loop of merge takes an answer: a result is given next, a throw as an error of its own.
LEMMA CombineMerges ==
    ASSUME CombineInv, Combine!MergeRound
    PROVE  CombineInv'
<1>1. CombineTypes /\ CombineStage /\ MergeInv /\ ZipInv
  BY DEF CombineInv
<1>2. /\ cMode = "merge" /\ cStage = "wait" /\ cPending = <<>>
      /\ UNCHANGED <<cMode, gen, buffered, given, cPulled, cLeft>>
  BY <1>1 DEF Combine!MergeRound, CombineStage
<1>3. PICK s \in racing :
         /\ answer[s] # Combine!None
         /\ answer' = IF answer[s] = Combine!Void THEN answer ELSE [answer EXCEPT ![s] = Combine!None]
         /\ \/ /\ answer[s].type \in {"success", "error"}
               /\ cPending' = <<answer[s]>> /\ cStage' = "yield"
               /\ racing' = racing
            \/ /\ answer[s] = Combine!Thrown
               /\ cPending' = <<[type |-> "error", side |-> s, n |-> 0]>> /\ cStage' = "yield"
               /\ racing' = racing \ {s}
            \/ /\ answer[s] = Combine!Done
               /\ racing' = racing \ {s}
               /\ cStage' = IF racing' = {} THEN "closing" ELSE "wait"
               /\ cPending' = cPending
            \/ /\ answer[s] = Combine!Void
               /\ cStage' = "closing"
               /\ racing' = racing /\ cPending' = cPending
  BY DEF Combine!MergeRound
<1>4. s \in Combine!Sides /\ answer[s] \in CombineAnswers
  BY <1>1, <1>3 DEF CombineTypes
<1>5. PICK a \in CombineAnswers : a = answer[s]
  BY <1>4
<1>6. /\ Combine!None \in CombineAnswers /\ Combine!None \notin CombineResults
      /\ Combine!Void # Combine!None /\ Combine!Void \notin CombineResults
      /\ Combine!Thrown # Combine!Void /\ Combine!Thrown \notin CombineResults
      /\ Combine!Done # Combine!Void /\ Combine!Done \notin CombineResults
      /\ a \in CombineResults <=> a.type \in {"success", "error"}
  <2>1. /\ Combine!None \in CombineAnswers /\ Combine!Void \in CombineAnswers
        /\ Combine!Thrown \in CombineAnswers /\ Combine!Done \in CombineAnswers
    BY DEF CombineAnswers
  <2> QED  BY <2>1, AnswerKinds
<1>7. SideInv(s) /\ buffered[s] = Combine!None /\ gen[s] # "asked"
  BY <1>1, <1>2, <1>3, <1>4 DEF CombineStage, SideInv
<1>8. Combine!Given = given /\ given \in Seq(CombineResults)
  BY <1>1, <1>2, GivenType DEF CombineTypes
<1>9. ZipInv'
  BY <1>2 DEF ZipInv
<1>10. ASSUME NEW x \in CombineResults, cPending' = <<x>>, x.side = s, cStage' = "yield",
              answer' = [answer EXCEPT ![s] = Combine!None],
              \/ a \in CombineResults /\ x = a /\ racing' = racing
              \/ a \notin CombineResults /\ x.n = 0 /\ racing' = racing \ {s} /\ gen[s] = "ended"
       PROVE  CombineInv'
  <2>1. \A t \in Combine!Sides : answer'[t] = IF t = s THEN Combine!None ELSE answer[t]
    BY <1>1, <1>10 DEF CombineTypes
  <2>2. <<x>> \in Seq(CombineResults) /\ <<x>> \in Seq(CombineOutputs) /\ Len(<<x>>) = 1
        /\ <<x>> # <<>> /\ <<x>>[1] = x
    BY DEF CombineOutputs
  <2>3. CombineTypes'
    BY <1>1, <1>2, <1>6, <1>10, <2>2 DEF CombineTypes
  <2>4. CombineStage'
    <3>1. ASSUME NEW t \in Combine!Sides PROVE SideInv(t)'
      <4>1. SideInv(t)
        BY <1>1 DEF CombineStage
      <4>2. CASE t # s
        BY <1>2, <1>10, <2>1, <2>2, <4>1, <4>2 DEF SideInv, IsLast
      <4>3. CASE t = s
        BY <1>2, <1>6, <1>7, <1>10, <2>1, <2>2, <4>1, <4>3 DEF SideInv, IsLast
      <4> QED  BY <4>2, <4>3
    <3> QED  BY <1>1, <1>2, <1>10, <2>2, <3>1 DEF CombineStage
  <2>5. Combine!Given' = Append(given, x)
    BY <1>2, <1>8, <1>10, AppendIsConcat DEF Combine!Given
  <2>6. ASSUME NEW t \in Combine!Sides
        PROVE  /\ Ordered(Append(given, x), cPulled[t], t)
               /\ NumFrom(Append(given, x), t)
                     = IF answer'[t] \in CombineResults THEN Len(cPulled[t]) - 1 ELSE Len(cPulled[t])
    <3>1. /\ Ordered(given, cPulled[t], t)
          /\ NumFrom(given, t)
                = IF answer[t] \in CombineResults THEN Len(cPulled[t]) - 1 ELSE Len(cPulled[t])
      BY <1>1, <1>2, <1>8 DEF MergeInv
    <3>2. PICK n \in Nat : n = Len(cPulled[t])
      BY <1>1, LenProperties DEF CombineTypes
    <3>3. x.side = t /\ x.n > 0 => x = cPulled[t][NumFrom(given, t) + 1] /\ a \in CombineResults
      <4> SUFFICES ASSUME x.side = t, x.n > 0
                   PROVE  x = cPulled[t][NumFrom(given, t) + 1] /\ a \in CombineResults
        OBVIOUS
      <4>1. t = s /\ a \in CombineResults /\ x = a
        BY <1>10
      <4>2. a = cPulled[s][Len(cPulled[s])]
        BY <1>5, <1>7, <4>1 DEF SideInv, IsLast
      <4>3. NumFrom(given, t) + 1 = n
        BY <1>5, <3>1, <3>2, <4>1
      <4> QED  BY <3>2, <4>1, <4>2, <4>3
    <3>4. /\ Ordered(Append(given, x), cPulled[t], t)
          /\ NumFrom(Append(given, x), t)
                = NumFrom(given, t) + (IF x.side = t /\ x.n > 0 THEN 1 ELSE 0)
      BY <1>8, <1>10, <3>1, <3>3, OrderedAppend
    <3>5. a \in CombineResults => x.n > 0
      <4>1. ASSUME a \in CombineResults PROVE x.n > 0
        <5>1. /\ a = cPulled[s][Len(cPulled[s])] /\ cPulled[s] # <<>> /\ x = a
              /\ cPulled[s] \in Seq(CombineResults)
          BY <1>1, <1>4, <1>5, <1>6, <1>7, <1>10, <4>1 DEF SideInv, IsLast, CombineTypes
        <5>2. PICK k \in Nat : k = Len(cPulled[s])
          BY <5>1, LenProperties
        <5>3. k \in 1..Len(cPulled[s])
          BY <5>1, <5>2, EmptySeq
        <5>4. cPulled[s][k].n = k
          BY <1>1, <1>4, <5>3 DEF CombineTypes
        <5> QED  BY <5>1, <5>2, <5>3, <5>4
      <4> QED  BY <4>1
    <3>8. PICK f \in Nat : f = NumFrom(given, t)
      BY <1>8, FromType
    <3>9. /\ x.side = s /\ (a \notin CombineResults => x.n = 0)
          /\ f = IF answer[t] \in CombineResults THEN n - 1 ELSE n
          /\ NumFrom(Append(given, x), t) = f + (IF x.side = t /\ x.n > 0 THEN 1 ELSE 0)
      BY <1>10, <3>1, <3>2, <3>4, <3>8
    <3>10. SUFFICES NumFrom(Append(given, x), t) = IF answer'[t] \in CombineResults THEN n - 1 ELSE n
      BY <3>2, <3>4
    <3>6. CASE t = s
      <4>1. answer'[t] \notin CombineResults /\ answer[t] = a
        BY <1>5, <1>6, <2>1, <3>6
      <4>2. CASE a \in CombineResults
        BY <3>5, <3>6, <3>9, <4>1, <4>2
      <4>3. CASE a \notin CombineResults
        BY <3>6, <3>9, <4>1, <4>3
      <4> QED  BY <4>2, <4>3
    <3>7. CASE t # s
      BY <2>1, <3>7, <3>9
    <3> QED  BY <3>6, <3>7
  <2>7. MergeInv'
    BY <1>2, <2>5, <2>6 DEF MergeInv
  <2> QED  BY <1>9, <2>3, <2>4, <2>7 DEF CombineInv
<1>11. CASE a \in CombineResults
  <2>1. /\ cPending' = <<a>> /\ cStage' = "yield" /\ racing' = racing
        /\ answer' = [answer EXCEPT ![s] = Combine!None]
    BY <1>3, <1>5, <1>6, <1>11
  <2>2. a.side = s
    <3>1. a = cPulled[s][Len(cPulled[s])] /\ cPulled[s] # <<>> /\ cPulled[s] \in Seq(CombineResults)
      BY <1>1, <1>4, <1>5, <1>7, <1>11 DEF SideInv, IsLast, CombineTypes
    <3>2. Len(cPulled[s]) \in 1..Len(cPulled[s])
      BY <3>1, EmptySeq, LenProperties
    <3> QED  BY <1>1, <1>4, <3>1, <3>2 DEF CombineTypes
  <2> QED  BY <1>10, <1>11, <2>1, <2>2
<1>12. ASSUME a \in {Combine!Thrown, Combine!Done} PROVE gen[s] = "ended"
  <2>1. Combine!Thrown # Combine!None /\ Combine!Done # Combine!None
    BY AnswerKinds
  <2> QED  BY <1>5, <1>6, <1>7, <1>12, <2>1 DEF SideInv
<1>13. CASE a = Combine!Thrown
  <2>1. PICK x : x = [type |-> "error", side |-> s, n |-> 0]
    OBVIOUS
  <2>2. x \in CombineResults /\ x.side = s /\ x.n = 0
    BY <1>4, <2>1 DEF CombineResults
  <2>3. /\ cPending' = <<x>> /\ cStage' = "yield" /\ racing' = racing \ {s}
        /\ answer' = [answer EXCEPT ![s] = Combine!None] /\ a \notin CombineResults
    <3>1. a # Combine!Done
      BY <1>13, AnswerKinds
    <3>2. a # Combine!Void /\ a \notin CombineResults
      BY <1>6, <1>13
    <3>3. a.type \notin {"success", "error"}
      BY <1>6, <3>2
    <3> QED  BY <1>3, <1>5, <1>13, <2>1, <3>1, <3>2, <3>3
  <2> QED  BY <1>10, <1>12, <1>13, <2>2, <2>3
<1>14. CASE a = Combine!Done
  <2>1. /\ cPending' = cPending /\ racing' = racing \ {s}
        /\ cStage' = IF racing' = {} THEN "closing" ELSE "wait"
        /\ answer' = [answer EXCEPT ![s] = Combine!None] /\ a \notin CombineResults
    <3>1. a # Combine!Thrown
      BY <1>14, AnswerKinds
    <3>2. a # Combine!Void
      BY <1>6, <1>14
    <3> QED  BY <1>3, <1>5, <1>6, <1>14, <3>1, <3>2
  <2>2. \A t \in Combine!Sides : answer'[t] = IF t = s THEN Combine!None ELSE answer[t]
    BY <1>1, <2>1 DEF CombineTypes
  <2>3. CombineTypes'
    BY <1>1, <1>2, <1>6, <2>1 DEF CombineTypes
  <2>4. CombineStage'
    <3>1. ASSUME NEW t \in Combine!Sides PROVE SideInv(t)'
      <4>1. SideInv(t)
        BY <1>1 DEF CombineStage
      <4>2. CASE t # s
        BY <1>2, <2>1, <2>2, <4>1, <4>2 DEF SideInv, IsLast
      <4>3. CASE t = s
        BY <1>2, <1>6, <1>7, <1>12, <1>14, <2>1, <2>2, <4>1, <4>3 DEF SideInv, IsLast
      <4> QED  BY <4>2, <4>3
    <3> QED  BY <1>1, <1>2, <2>1, <3>1 DEF CombineStage
  <2>5. Combine!Given' = Combine!Given
    BY <1>2, <2>1 DEF Combine!Given
  <2>6. \A t \in Combine!Sides : answer'[t] \in CombineResults <=> answer[t] \in CombineResults
    BY <1>5, <1>6, <2>1, <2>2
  <2>7. MergeInv'
    BY <1>1, <1>2, <2>5, <2>6 DEF MergeInv
  <2> QED  BY <1>9, <2>3, <2>4, <2>7 DEF CombineInv
<1>15. CASE a = Combine!Void
  <2>1. cPending' = cPending /\ racing' = racing /\ cStage' = "closing" /\ answer' = answer
    <3>1. a # Combine!Thrown /\ a # Combine!Done
      BY <1>6, <1>15
    <3> QED  BY <1>3, <1>5, <1>6, <1>15, <3>1
  <2>2. CombineTypes'
    BY <1>1, <1>2, <2>1 DEF CombineTypes
  <2>3. CombineStage'
    <3>1. ASSUME NEW t \in Combine!Sides PROVE SideInv(t)'
      <4>1. SideInv(t)
        BY <1>1 DEF CombineStage
      <4> QED  BY <1>2, <2>1, <4>1 DEF SideInv, IsLast
    <3>2. \E t \in Combine!Sides : answer'[t] = Combine!Void
      BY <1>4, <1>5, <1>15, <2>1
    <3> QED  BY <1>1, <1>2, <2>1, <3>1, <3>2 DEF CombineStage
  <2>4. Combine!Given' = Combine!Given
    BY <1>2, <2>1 DEF Combine!Given
  <2>5. MergeInv'
    BY <1>1, <1>2, <2>1, <2>4 DEF MergeInv
  <2> QED  BY <1>9, <2>2, <2>3, <2>5 DEF CombineInv
<1> QED  BY <1>3, <1>5, <1>6, <1>11, <1>13, <1>14, <1>15

\* The consumer takes an output and comes back.
LEMMA CombineResumes ==
    ASSUME CombineInv, Combine!Resume
    PROVE  CombineInv'
<1>1. CombineTypes /\ CombineStage /\ MergeInv /\ ZipInv
  BY DEF CombineInv
<1>2. /\ cStage = "yield" /\ given' = Append(given, Head(cPending)) /\ cPending' = Tail(cPending)
      /\ UNCHANGED <<cMode, answer, buffered, racing, cPulled, cLeft>>
      /\ IF Len(cPending) > 1 THEN cStage' = "yield" /\ gen' = gen
         ELSE IF cMode = "zip" THEN cStage' = "ask" /\ gen' = gen
         ELSE LET s == Head(cPending).side IN
              /\ gen' = [gen EXCEPT ![s] = IF s \in racing THEN "asked" ELSE @]
              /\ cStage' = IF racing = {} THEN "closing" ELSE "wait"
  BY DEF Combine!Resume
<1>3. /\ cPending # <<>> /\ cMode # "none" /\ cPending \in Seq(CombineOutputs)
      /\ given \in Seq(CombineOutputs)
      /\ cMode = "merge" => cPending \in Seq(CombineResults) /\ given \in Seq(CombineResults)
  BY <1>1, <1>2 DEF CombineStage, CombineTypes
<1>4. /\ Head(cPending) \in CombineOutputs /\ Tail(cPending) \in Seq(CombineOutputs)
      /\ Len(Tail(cPending)) = Len(cPending) - 1 /\ Len(cPending) \in Nat
      /\ cMode = "merge" => Head(cPending) \in CombineResults /\ Tail(cPending) \in Seq(CombineResults)
      /\ Head(cPending) = cPending[1]
  BY <1>3, HeadTailProperties, LenProperties
<1>5. Combine!Given' = Combine!Given
  <2>1. PICK x \in CombineOutputs, r \in Seq(CombineOutputs) : x = Head(cPending) /\ r = Tail(cPending)
    BY <1>4
  <2>2. cPending = <<x>> \o r
    BY <1>3, <2>1
  <2>3. Append(given, x) = given \o <<x>> /\ <<x>> \in Seq(CombineOutputs)
    BY <1>3, AppendIsConcat
  <2>4. (given \o <<x>>) \o r = given \o (<<x>> \o r)
    BY <1>3, <2>3, ConcatAssociative
  <2> QED  BY <1>2, <2>1, <2>2, <2>3, <2>4 DEF Combine!Given
<1>6. cPending' # <<>> <=> Len(cPending) > 1
  BY <1>2, <1>4, EmptySeq
<1>7. ASSUME NEW t \in Combine!Sides
      PROVE  gen'[t] = IF cMode = "merge" /\ t = cPending[1].side /\ t \in racing /\ Len(cPending) <= 1
                       THEN "asked" ELSE gen[t]
  BY <1>1, <1>2, <1>3, <1>4 DEF CombineTypes
<1>8. CombineTypes'
  <2>1. gen' \in [Combine!Sides -> {"idle", "asked", "ended"}]
    <3>1. gen \in [Combine!Sides -> {"idle", "asked", "ended"}]
      BY <1>1 DEF CombineTypes
    <3> QED  BY <1>2, <3>1
  <2>2. given' \in Seq(CombineOutputs) /\ (cMode = "merge" => given' \in Seq(CombineResults))
    BY <1>2, <1>3, <1>4, AppendProperties
  <2>3. cStage' \in {"none", "ask", "wait", "yield", "closing", "done"}
    BY <1>2
  <2> QED  BY <1>1, <1>2, <1>4, <2>1, <2>2, <2>3 DEF CombineTypes
<1>9. CombineStage'
  <2>1. ASSUME NEW t \in Combine!Sides PROVE SideInv(t)'
    <3>1. SideInv(t) /\ gen[t] \in {"idle", "asked", "ended"}
      BY <1>1 DEF CombineStage, CombineTypes
    <3>2. CASE cMode = "zip"
      <4>1. gen'[t] = gen[t] /\ cStage' \in {"yield", "ask"}
        BY <1>2, <1>7, <3>2
      <4> QED  BY <1>2, <3>1, <3>2, <4>1 DEF SideInv, IsLast
    <3>3. CASE cMode = "merge"
      <4>1. cStage' \in {"wait", "closing"} /\ Len(cPending) <= 1
        BY <1>1, <1>2, <1>4, <3>3 DEF CombineStage
      <4>2. CASE t = cPending[1].side /\ t \in racing
        <5>1. gen'[t] = "asked" /\ answer[t] = Combine!None /\ buffered[t] = Combine!None
          BY <1>2, <1>7, <3>1, <3>3, <4>1, <4>2 DEF SideInv
        <5>2. Combine!None \notin CombineResults
          <6>1. Combine!None \in CombineAnswers
            BY DEF CombineAnswers
          <6> QED  BY <6>1, AnswerKinds
        <5> QED  BY <1>2, <3>1, <3>3, <4>1, <4>2, <5>1, <5>2 DEF SideInv
      <4>3. CASE ~(t = cPending[1].side /\ t \in racing)
        <5>1. gen'[t] = gen[t]
          BY <1>7, <4>3
        <5> QED  BY <1>2, <3>1, <3>3, <4>1, <5>1 DEF SideInv, IsLast
      <4> QED  BY <4>2, <4>3
    <3>4. cMode \in {"merge", "zip"}
      BY <1>1, <1>3 DEF CombineTypes
    <3> QED  BY <3>2, <3>3, <3>4
  <2>2. cMode = "merge" => Len(cPending) <= 1
    BY <1>1 DEF CombineStage
  <2>3. cStage' # "none" /\ (cMode = "merge" => cStage' # "ask") /\ (cPending' # <<>> <=> cStage' = "yield")
    BY <1>2, <1>4, <1>6
  <2>4. cMode = "merge" => Len(cPending') <= 1
    BY <1>2, <1>4, <2>2
  <2>5. cMode = "merge" /\ cStage' = "closing" => racing = {}
    BY <1>2, <2>2, <1>4
  <2> QED  BY <1>2, <1>3, <2>1, <2>3, <2>4, <2>5 DEF CombineStage
<1>10. MergeInv'
  BY <1>1, <1>2, <1>5 DEF MergeInv
<1>11. ZipInv'
  <2>1. \A t \in Combine!Sides :
           Kept(t, "success")' = Kept(t, "success") /\ Kept(t, "error")' = Kept(t, "error")
    BY <1>2 DEF Kept
  <2> QED  BY <1>1, <1>2, <1>5, <2>1 DEF ZipInv
<1> QED  BY <1>8, <1>9, <1>10, <1>11 DEF CombineInv

\* It takes an output and leaves: what it has got is the beginning of what was to come.
LEMMA CombineLeaves ==
    ASSUME CombineInv, Combine!Leave
    PROVE  CombineInv'
<1>1. CombineTypes /\ CombineStage /\ MergeInv /\ ZipInv
  BY DEF CombineInv
<1>2. /\ cStage = "yield" /\ given' = Append(given, Head(cPending)) /\ cPending' = <<>>
      /\ cStage' = "closing" /\ cLeft' = TRUE
      /\ UNCHANGED <<cMode, gen, answer, buffered, racing, cPulled>>
  BY DEF Combine!Leave
<1>3. /\ cPending # <<>> /\ cMode # "none" /\ cPending \in Seq(CombineOutputs)
      /\ given \in Seq(CombineOutputs)
      /\ cMode = "merge" => cPending \in Seq(CombineResults) /\ given \in Seq(CombineResults)
  BY <1>1, <1>2 DEF CombineStage, CombineTypes
<1>4. PICK x \in CombineOutputs : /\ x = Head(cPending) /\ x = cPending[1]
                                  /\ cMode = "merge" => x \in CombineResults
  BY <1>3, HeadTailProperties
<1>5. PICK k \in Nat, m \in Nat : k = Len(given) /\ m = Len(cPending) /\ m # 0
  BY <1>3, LenProperties, EmptySeq
<1>6. PICK h \in Seq(CombineOutputs) :
         /\ h = Append(given, x) /\ Len(h) = k + 1 /\ h[k + 1] = x
         /\ \A i \in 1..k : h[i] = given[i]
         /\ cMode = "merge" => h \in Seq(CombineResults)
  BY <1>3, <1>4, <1>5, AppendProperties
<1>7. PICK g \in Seq(CombineOutputs) :
         /\ g = Combine!Given /\ Len(g) = k + m
         /\ \A i \in 1..(k + m) : g[i] = IF i <= k THEN given[i] ELSE cPending[i - k]
  <2>1. /\ Len(given \o cPending) = Len(given) + Len(cPending) /\ given \o cPending \in Seq(CombineOutputs)
        /\ \A i \in 1..(Len(given) + Len(cPending)) :
              (given \o cPending)[i] = IF i <= Len(given) THEN given[i] ELSE cPending[i - Len(given)]
    BY <1>3, ConcatProperties
  <2> QED  BY <1>5, <2>1 DEF Combine!Given
<1>8. Len(h) <= Len(g) /\ \A i \in 1..Len(h) : h[i] = g[i]
  BY <1>4, <1>5, <1>6, <1>7
<1>9. Combine!Given' = h
  BY <1>2, <1>4, <1>6, ConcatEmptySeq DEF Combine!Given
<1>10. CombineTypes'
  BY <1>1, <1>2, <1>4, <1>6 DEF CombineTypes
<1>11. CombineStage'
  <2>1. ASSUME NEW t \in Combine!Sides PROVE SideInv(t)'
    <3>1. SideInv(t)
      BY <1>1 DEF CombineStage
    <3> QED  BY <1>2, <3>1 DEF SideInv, IsLast
  <2>2. Len(<<>>) = 0
    OBVIOUS
  <2> QED  BY <1>2, <1>3, <2>1, <2>2 DEF CombineStage
<1>12. MergeInv'
  <2> SUFFICES ASSUME cMode = "merge" PROVE MergeInv'
    BY <1>2 DEF MergeInv
  <2>1. m = 1
    BY <1>1, <1>5 DEF CombineStage
  <2>2. h = g
    <3>1. DOMAIN h = 1..(k + 1) /\ DOMAIN g = 1..(k + 1)
      BY <1>6, <1>7, <2>1, LenProperties
    <3>2. h \in [1..(k + 1) -> CombineOutputs] /\ g \in [1..(k + 1) -> CombineOutputs]
      BY <1>6, <1>7, <2>1, LenProperties
    <3>3. \A i \in 1..(k + 1) : h[i] = g[i]
      BY <1>6, <1>8
    <3> QED  BY <3>2, <3>3
  <2> QED  BY <1>1, <1>2, <1>7, <1>9, <2>2 DEF MergeInv
<1>13. ZipInv'
  <2>1. ASSUME cMode = "zip", NEW t \in Combine!Sides PROVE Aligned(h, cPulled[t], t)
    <3>1. Aligned(g, cPulled[t], t)
      BY <1>1, <1>7, <2>1 DEF ZipInv
    <3> QED  BY <1>8, <3>1, AlignedCut
  <2> QED  BY <1>2, <1>9, <2>1 DEF ZipInv
<1> QED  BY <1>10, <1>11, <1>12, <1>13 DEF CombineInv

\* The loop of zip ends with a side; it makes a pair of two values, or gives the errors and
\* keeps the value beside one.
LEMMA CombineZips ==
    ASSUME CombineInv, Combine!ZipRound
    PROVE  CombineInv'
<1>1. CombineTypes /\ CombineStage /\ MergeInv /\ ZipInv
  BY DEF CombineInv
<1>2. /\ cMode = "zip" /\ cStage = "wait" /\ cPending = <<>>
      /\ UNCHANGED <<cMode, gen, racing, given, cPulled, cLeft>>
  BY <1>1 DEF Combine!ZipRound, CombineStage
<1>3. PICK l \in CombineAnswers, r \in CombineAnswers : l = answer["left"] /\ r = answer["right"]
  BY <1>1 DEF CombineTypes, Combine!Sides
<1>4. /\ Combine!None \in CombineAnswers /\ Combine!None \notin CombineResults
      /\ Combine!None.type = "none"
  <2>1. Combine!None \in CombineAnswers
    BY DEF CombineAnswers
  <2> QED  BY <2>1, AnswerKinds
<1>5. /\ Combine!Sides = {"left", "right"}
      /\ \A s \in Combine!Sides : answer[s] = IF s = "left" THEN l ELSE r
  BY <1>3 DEF Combine!Sides
<1>6. ASSUME NEW s \in Combine!Sides PROVE SideInv(s) /\ buffered[s] = Combine!None
  BY <1>1, <1>2, <1>6 DEF CombineStage, SideInv
<1>7. Combine!Given = given /\ given \in Seq(CombineOutputs)
  BY <1>1, <1>2, GivenType DEF CombineTypes
<1>8. MergeInv'
  BY <1>2 DEF MergeInv
<1>9. \/ /\ \E s \in Combine!Sides : answer[s] \in {Combine!Thrown, Combine!Void}
         /\ cStage' = "closing" /\ UNCHANGED <<answer, buffered, cPending>>
      \/ /\ \A s \in Combine!Sides : answer[s] \notin {Combine!None, Combine!Thrown, Combine!Void}
         /\ answer' = [s \in Combine!Sides |-> Combine!None]
         /\ \/ cStage' = "closing" /\ UNCHANGED <<buffered, cPending>>
            \/ /\ Combine!Done \notin {l, r} /\ cStage' = "yield"
               /\ \/ /\ {l.type, r.type} = {"success"}
                     /\ cPending' = <<[type |-> "success", pair |-> <<l, r>>]>>
                     /\ buffered' = buffered
                  \/ /\ "error" \in {l.type, r.type}
                     /\ cPending' = IF l.type = r.type THEN <<l, r>>
                                    ELSE IF Combine!IsError(l) THEN <<l>> ELSE <<r>>
                     /\ buffered' = [s \in Combine!Sides |->
                                       IF Combine!IsError(answer[s]) THEN Combine!None ELSE answer[s]]
  BY <1>3 DEF Combine!ZipRound
<1>10. ASSUME cStage' = "closing", cPending' = cPending, buffered' = buffered,
              \/ answer' = answer
              \/ /\ answer' = [s \in Combine!Sides |-> Combine!None]
                 /\ \A s \in Combine!Sides : answer[s] # Combine!None
       PROVE  CombineInv'
  <2>1. CombineTypes'
    BY <1>1, <1>2, <1>4, <1>10 DEF CombineTypes
  <2>2. CombineStage'
    <3>1. ASSUME NEW s \in Combine!Sides PROVE SideInv(s)'
      <4>1. /\ SideInv(s) /\ buffered'[s] = Combine!None
            /\ \/ answer'[s] = answer[s]
               \/ answer'[s] = Combine!None /\ gen[s] # "asked"
        BY <1>6, <1>10 DEF SideInv
      <4> QED  BY <1>2, <1>4, <1>10, <4>1 DEF SideInv, IsLast
    <3> QED  BY <1>1, <1>2, <1>10, <3>1 DEF CombineStage
  <2>3. Combine!Given' = Combine!Given
    BY <1>2, <1>10 DEF Combine!Given
  <2>4. ZipInv'
    BY <1>1, <1>2, <1>10, <2>3 DEF ZipInv
  <2> QED  BY <1>8, <2>1, <2>2, <2>4 DEF CombineInv
\* What a round of two results leaves behind.
<1>11. ASSUME l \in CombineResults, r \in CombineResults,
              answer' = [s \in Combine!Sides |-> Combine!None], cStage' = "yield",
              cPending' \in Seq(CombineOutputs), cPending' # <<>>,
              buffered' \in [Combine!Sides -> CombineAnswers],
              \A s \in Combine!Sides :
                 /\ buffered'[s] \in {Combine!None, answer[s]}
                 /\ buffered'[s] # Combine!None => answer[s].type = "success"
                 /\ Aligned(given \o cPending', cPulled[s], s)
                 /\ NumOf(cPulled[s], "success") = NumPairs(given \o cPending')
                       + (IF buffered'[s].type = "success" THEN 1 ELSE 0)
                 /\ NumOf(cPulled[s], "error") = NumErrors(given \o cPending', s)
       PROVE  CombineInv'
  <2>1. CombineTypes'
    BY <1>1, <1>2, <1>4, <1>11 DEF CombineTypes
  <2>2. CombineStage'
    <3>1. ASSUME NEW s \in Combine!Sides PROVE SideInv(s)'
      <4>1. SideInv(s) /\ answer[s] \in CombineResults /\ answer'[s] = Combine!None
        BY <1>5, <1>6, <1>11
      <4>2. gen[s] # "asked" /\ IsLast(answer[s], s)
        BY <4>1 DEF SideInv
      <4> QED  BY <1>2, <1>4, <1>11, <4>1, <4>2 DEF SideInv, IsLast
    <3> QED  BY <1>1, <1>2, <1>11, <3>1 DEF CombineStage
  <2>3. Combine!Given' = given \o cPending'
    BY <1>2 DEF Combine!Given
  <2>4. ASSUME NEW s \in Combine!Sides
        PROVE  /\ Kept(s, "success")' = IF buffered'[s].type = "success" THEN 1 ELSE 0
               /\ Kept(s, "error")' = 0
    <3>1. answer'[s] = Combine!None /\ buffered'[s].type # "error"
      BY <1>4, <1>11
    <3> QED  BY <1>4, <3>1 DEF Kept
  <2>5. ZipInv'
    <3> SUFFICES ASSUME NEW s \in Combine!Sides
                 PROVE  /\ Aligned(given \o cPending', cPulled[s], s)
                        /\ NumOf(cPulled[s], "success")
                              = NumPairs(given \o cPending') + Kept(s, "success")'
                        /\ NumOf(cPulled[s], "error")
                              = NumErrors(given \o cPending', s) + Kept(s, "error")'
      BY <1>2, <2>3 DEF ZipInv
    <3>1. given \o cPending' \in Seq(CombineOutputs)
      BY <1>7, <1>11, ConcatProperties
    <3>2. NumErrors(given \o cPending', s) \in Nat
      BY <3>1, OutputPlaces
    <3> QED  BY <1>11, <2>4, <3>2
  <2> QED  BY <1>8, <2>1, <2>2, <2>5 DEF CombineInv
\* What is known of the two results: each is the last one of its side.
<1>12. ASSUME NEW s \in Combine!Sides, answer[s] \in CombineResults
       PROVE  /\ answer[s].side = s
              /\ NthIn(answer[s], cPulled[s], answer[s].type, NumOf(cPulled[s], answer[s].type))
              /\ Aligned(given, cPulled[s], s)
              /\ NumOf(cPulled[s], "success")
                    = NumPairs(given) + (IF answer[s].type = "success" THEN 1 ELSE 0)
              /\ NumOf(cPulled[s], "error")
                    = NumErrors(given, s) + (IF answer[s].type = "error" THEN 1 ELSE 0)
              /\ NumPairs(given) \in Nat /\ NumErrors(given, s) \in Nat
  <2>1. cPulled[s] \in Seq(CombineResults) /\ cPulled[s] # <<>> /\ answer[s] = cPulled[s][Len(cPulled[s])]
    BY <1>1, <1>6, <1>12 DEF SideInv, IsLast, CombineTypes
  <2>2. Len(cPulled[s]) \in 1..Len(cPulled[s])
    BY <2>1, EmptySeq, LenProperties
  <2>3. answer[s].n = Len(cPulled[s]) /\ answer[s].side = s
    BY <1>1, <2>1, <2>2 DEF CombineTypes
  <2>4. NthIn(answer[s], cPulled[s], answer[s].type, NumOf(cPulled[s], answer[s].type))
    <3>1. PICK x : x = answer[s]
      OBVIOUS
    <3>2. NthIn(x, cPulled[s], x.type, NumOf(cPulled[s], x.type))
      BY <2>1, <2>3, <3>1, LastIsNth
    <3> QED  BY <3>1, <3>2
  <2>5. /\ Kept(s, "success") = (IF answer[s].type = "success" THEN 1 ELSE 0)
        /\ Kept(s, "error") = (IF answer[s].type = "error" THEN 1 ELSE 0)
    BY <1>4, <1>6 DEF Kept
  <2>6. /\ Aligned(given, cPulled[s], s)
        /\ NumOf(cPulled[s], "success") = NumPairs(given) + Kept(s, "success")
        /\ NumOf(cPulled[s], "error") = NumErrors(given, s) + Kept(s, "error")
    BY <1>1, <1>2, <1>7 DEF ZipInv
  <2>7. NumPairs(given) \in Nat /\ NumErrors(given, s) \in Nat
    BY <1>7, OutputPlaces
  <2> QED  BY <2>3, <2>4, <2>5, <2>6, <2>7
<1>13. ASSUME NEW x \in CombineAnswers, x \notin {Combine!None, Combine!Thrown, Combine!Void, Combine!Done}
       PROVE  x \in CombineResults /\ x.type \in {"success", "error"}
  BY <1>13 DEF CombineAnswers, CombineResults
<1>14. ASSUME l \in CombineResults, r \in CombineResults,
              l.type = "success", r.type = "success", cStage' = "yield",
              answer' = [s \in Combine!Sides |-> Combine!None], buffered' = buffered,
              cPending' = <<[type |-> "success", pair |-> <<l, r>>]>>
       PROVE  CombineInv'
  <2>1. PICK x : x = [type |-> "success", pair |-> <<l, r>>]
    OBVIOUS
  <2>2. x \in CombineOutputs /\ x.type = "success" /\ x.pair = <<l, r>>
    BY <1>14, <2>1 DEF CombineOutputs, CombinePairs
  <2>3. ASSUME NEW s \in Combine!Sides PROVE Combine!Member(x, s) = answer[s]
    BY <1>5, <2>2, <2>3 DEF Combine!Member
  <2>4. cPending' = <<x>> /\ <<x>> \in Seq(CombineOutputs) /\ <<x>> # <<>>
        /\ given \o <<x>> = Append(given, x)
    BY <1>7, <1>14, <2>1, <2>2, AppendIsConcat
  <2>5. ASSUME NEW s \in Combine!Sides
        PROVE  /\ Aligned(Append(given, x), cPulled[s], s)
               /\ NumOf(cPulled[s], "success") = NumPairs(Append(given, x))
               /\ NumOf(cPulled[s], "error") = NumErrors(Append(given, x), s)
    <3>1. answer[s] \in CombineResults /\ answer[s].type = "success"
      BY <1>5, <1>14
    <3>2. /\ NthIn(answer[s], cPulled[s], "success", NumOf(cPulled[s], "success"))
          /\ Aligned(given, cPulled[s], s)
          /\ NumOf(cPulled[s], "success") = NumPairs(given) + 1
          /\ NumOf(cPulled[s], "error") = NumErrors(given, s)
          /\ NumPairs(given) \in Nat /\ NumErrors(given, s) \in Nat
      BY <1>12, <3>1
    <3>3. NthIn(Combine!Member(x, s), cPulled[s], "success", NumPairs(given) + 1)
      BY <2>3, <3>2
    <3>4. /\ Aligned(Append(given, x), cPulled[s], s)
          /\ NumPairs(Append(given, x)) = NumPairs(given) + (IF x.type = "success" THEN 1 ELSE 0)
          /\ NumErrors(Append(given, x), s)
                = NumErrors(given, s) + (IF x.type = "error" /\ x.side = s THEN 1 ELSE 0)
      BY <1>7, <2>2, <3>2, <3>3, AlignedAppend
    <3> QED  BY <2>2, <3>2, <3>4
  <2>6. ASSUME NEW s \in Combine!Sides
        PROVE  buffered'[s] = Combine!None /\ buffered'[s].type # "success" /\ answer[s].type = "success"
    BY <1>4, <1>5, <1>6, <1>14
  <2>7. buffered' \in [Combine!Sides -> CombineAnswers]
    BY <1>1, <1>14 DEF CombineTypes
  <2>8. \A s \in Combine!Sides : NumPairs(Append(given, x)) \in Nat
    <3>1. Append(given, x) \in Seq(CombineOutputs)
      BY <1>7, <2>2, AppendProperties
    <3> QED  BY <3>1, OutputPlaces
  <2>9. ASSUME NEW s \in Combine!Sides
        PROVE  /\ buffered'[s] \in {Combine!None, answer[s]}
               /\ buffered'[s] # Combine!None => answer[s].type = "success"
               /\ Aligned(given \o cPending', cPulled[s], s)
               /\ NumOf(cPulled[s], "success") = NumPairs(given \o cPending')
                     + (IF buffered'[s].type = "success" THEN 1 ELSE 0)
               /\ NumOf(cPulled[s], "error") = NumErrors(given \o cPending', s)
    <3>1. given \o cPending' = Append(given, x)
      BY <2>4
    <3>2. PICK k \in Nat : k = NumPairs(Append(given, x))
      BY <2>8, <2>9
    <3>3. NumOf(cPulled[s], "success") = k + (IF buffered'[s].type = "success" THEN 1 ELSE 0)
      BY <2>5, <2>6, <3>2
    <3>4. buffered'[s] \in {Combine!None, answer[s]} /\ buffered'[s] = Combine!None
      BY <2>6
    <3> QED  BY <2>5, <3>1, <3>2, <3>3, <3>4
  <2>10. cPending' \in Seq(CombineOutputs) /\ cPending' # <<>>
    BY <2>4
  <2> QED  BY <1>11, <1>14, <2>7, <2>9, <2>10
\* One error is given out.
<1>15. ASSUME NEW g \in Seq(CombineOutputs), NEW e \in Combine!Sides, NEW s \in Combine!Sides,
              answer[e] \in CombineResults, answer[e].type = "error", Aligned(g, cPulled[s], s),
              NumErrors(g, e) = NumErrors(given, e)
       PROVE  /\ Append(g, answer[e]) \in Seq(CombineOutputs)
              /\ Aligned(Append(g, answer[e]), cPulled[s], s)
              /\ NumPairs(Append(g, answer[e])) = NumPairs(g)
              /\ NumErrors(Append(g, answer[e]), s) = NumErrors(g, s) + (IF s = e THEN 1 ELSE 0)
  <2>1. PICK x \in CombineResults : x = answer[e]
    BY <1>15
  <2>2. x \in CombineOutputs /\ x.type = "error" /\ x.side = e
    BY <1>12, <1>15, <2>1 DEF CombineOutputs
  <2>3. /\ NthIn(x, cPulled[e], "error", NumOf(cPulled[e], "error"))
        /\ NumOf(cPulled[e], "error") = NumErrors(given, e) + 1
    BY <1>12, <1>15, <2>1
  <2>4. x.type = "error" /\ x.side = s => NthIn(x, cPulled[s], "error", NumErrors(g, s) + 1)
    BY <1>15, <2>2, <2>3
  <2>5. /\ Aligned(Append(g, x), cPulled[s], s)
        /\ NumPairs(Append(g, x)) = NumPairs(g) + (IF x.type = "success" THEN 1 ELSE 0)
        /\ NumErrors(Append(g, x), s)
              = NumErrors(g, s) + (IF x.type = "error" /\ x.side = s THEN 1 ELSE 0)
    BY <1>15, <2>2, <2>4, AlignedAppend
  <2>6. NumPairs(g) \in Nat /\ NumErrors(g, s) \in Nat
    BY OutputPlaces
  <2>7. Append(g, x) \in Seq(CombineOutputs)
    BY <2>2, AppendProperties
  <2> QED  BY <2>1, <2>2, <2>5, <2>6, <2>7
\* The errors given, what is with a value is kept.
<1>16. ASSUME l \in CombineResults, r \in CombineResults,
              "error" \in {l.type, r.type}, cStage' = "yield",
              answer' = [s \in Combine!Sides |-> Combine!None],
              cPending' = IF l.type = r.type THEN <<l, r>>
                          ELSE IF Combine!IsError(l) THEN <<l>> ELSE <<r>>,
              buffered' = [s \in Combine!Sides |->
                             IF Combine!IsError(answer[s]) THEN Combine!None ELSE answer[s]]
       PROVE  CombineInv'
  <2>1. ASSUME NEW s \in Combine!Sides PROVE answer[s] \in CombineResults /\ answer[s].type \in {"success", "error"}
    BY <1>5, <1>16 DEF CombineResults
  <2>2. l = answer["left"] /\ r = answer["right"] /\ "left" \in Combine!Sides /\ "right" \in Combine!Sides
    BY <1>3, <1>5
  <2>3. ASSUME NEW s \in Combine!Sides
        PROVE  /\ buffered'[s] = IF answer[s].type = "error" THEN Combine!None ELSE answer[s]
               /\ buffered'[s].type = "success" <=> answer[s].type = "success"
    <3>1. buffered'[s] = IF answer[s].type = "error" THEN Combine!None ELSE answer[s]
      BY <1>16, <2>3 DEF Combine!IsError
    <3> QED  BY <1>4, <2>1, <3>1
  <2>4. PICK h : h = given \o cPending'
    OBVIOUS
  <2>5. ASSUME NEW s \in Combine!Sides
        PROVE  /\ cPending' \in Seq(CombineOutputs) /\ cPending' # <<>>
               /\ Aligned(h, cPulled[s], s) /\ NumPairs(h) = NumPairs(given)
               /\ NumErrors(h, s) = NumErrors(given, s) + (IF answer[s].type = "error" THEN 1 ELSE 0)
    <3>1. Aligned(given, cPulled[s], s) /\ NumErrors(given, s) \in Nat
      BY <1>12, <2>1
    <3>2. l \in CombineOutputs /\ r \in CombineOutputs
      BY <1>16 DEF CombineOutputs
    <3>3. ASSUME NEW e \in Combine!Sides, NEW x, x = answer[e], x.type = "error", cPending' = <<x>>,
                 \A t \in Combine!Sides : t # e => answer[t].type = "success"
          PROVE  /\ cPending' \in Seq(CombineOutputs) /\ cPending' # <<>>
                 /\ Aligned(h, cPulled[s], s) /\ NumPairs(h) = NumPairs(given)
                 /\ NumErrors(h, s) = NumErrors(given, s) + (IF answer[s].type = "error" THEN 1 ELSE 0)
      <4>1. x \in CombineOutputs /\ answer[e] \in CombineResults
        BY <2>1, <3>3 DEF CombineOutputs
      <4>2. h = Append(given, answer[e])
        BY <1>7, <2>4, <3>3, <4>1, AppendIsConcat
      <4>3. /\ Aligned(Append(given, answer[e]), cPulled[s], s)
            /\ NumPairs(Append(given, answer[e])) = NumPairs(given)
            /\ NumErrors(Append(given, answer[e]), s) = NumErrors(given, s) + (IF s = e THEN 1 ELSE 0)
        BY <1>7, <1>15, <3>1, <3>3, <4>1
      <4>4. cPending' \in Seq(CombineOutputs) /\ cPending' # <<>>
        BY <3>3, <4>1
      <4>5. answer[s].type = "error" <=> s = e
        BY <3>3
      <4> QED  BY <4>2, <4>3, <4>4, <4>5
    <3>4. CASE l.type = "error" /\ r.type = "error"
      <4>1. cPending' = <<l, r>> /\ <<l, r>> \in Seq(CombineOutputs) /\ <<l, r>> # <<>>
        BY <1>16, <3>2, <3>4
      <4>2. given \o <<l, r>> = Append(Append(given, l), r)
        BY <1>7, <3>2
      <4>3. /\ Append(given, l) \in Seq(CombineOutputs)
            /\ Aligned(Append(given, l), cPulled[s], s)
            /\ NumPairs(Append(given, l)) = NumPairs(given)
            /\ \A t \in Combine!Sides :
                  NumErrors(Append(given, l), t) = NumErrors(given, t) + (IF t = "left" THEN 1 ELSE 0)
        <5>1. \A t \in Combine!Sides : Aligned(given, cPulled[t], t)
          BY <1>12, <2>1
        <5>2. ASSUME NEW t \in Combine!Sides
              PROVE  /\ Append(given, answer["left"]) \in Seq(CombineOutputs)
                     /\ Aligned(Append(given, answer["left"]), cPulled[t], t)
                     /\ NumPairs(Append(given, answer["left"])) = NumPairs(given)
                     /\ NumErrors(Append(given, answer["left"]), t)
                           = NumErrors(given, t) + (IF t = "left" THEN 1 ELSE 0)
          BY <1>7, <1>15, <2>1, <2>2, <3>4, <5>1
        <5> QED  BY <2>2, <5>2
      <4>4. NumErrors(Append(given, l), "right") = NumErrors(given, "right")
        <5>1. NumErrors(given, "right") \in Nat
          BY <1>12, <2>1, <2>2
        <5> QED  BY <2>2, <4>3, <5>1
      <4>5. /\ Aligned(Append(Append(given, l), answer["right"]), cPulled[s], s)
            /\ NumPairs(Append(Append(given, l), answer["right"])) = NumPairs(Append(given, l))
            /\ NumErrors(Append(Append(given, l), answer["right"]), s)
                  = NumErrors(Append(given, l), s) + (IF s = "right" THEN 1 ELSE 0)
        BY <1>15, <2>1, <2>2, <3>4, <4>3, <4>4
      <4>6. h = Append(Append(given, l), answer["right"])
        BY <2>2, <2>4, <4>1, <4>2
      <4>7. answer[s].type = "error" /\ (s = "left" \/ s = "right")
        BY <1>5, <3>4
      <4>8. NumErrors(h, s) = NumErrors(given, s) + 1
        BY <3>1, <4>3, <4>5, <4>6, <4>7
      <4> QED  BY <4>1, <4>3, <4>5, <4>6, <4>7, <4>8
    <3>5. CASE l.type = "error" /\ r.type # "error"
      <4>1. cPending' = <<l>> /\ \A t \in Combine!Sides : t # "left" => answer[t].type = "success"
        BY <1>5, <1>16, <2>1, <3>5 DEF Combine!IsError
      <4> QED  BY <2>2, <3>3, <3>5, <4>1
    <3>6. CASE l.type # "error" /\ r.type = "error"
      <4>1. cPending' = <<r>> /\ \A t \in Combine!Sides : t # "right" => answer[t].type = "success"
        BY <1>5, <1>16, <2>1, <3>6 DEF Combine!IsError
      <4> QED  BY <2>2, <3>3, <3>6, <4>1
    <3> QED  BY <1>16, <3>4, <3>5, <3>6
  <2>6. buffered' \in [Combine!Sides -> CombineAnswers]
    BY <1>3, <1>4, <1>5, <1>16
  <2>7. ASSUME NEW s \in Combine!Sides
        PROVE  /\ buffered'[s] \in {Combine!None, answer[s]}
               /\ buffered'[s] # Combine!None => answer[s].type = "success"
               /\ Aligned(given \o cPending', cPulled[s], s)
               /\ NumOf(cPulled[s], "success") = NumPairs(given \o cPending')
                     + (IF buffered'[s].type = "success" THEN 1 ELSE 0)
               /\ NumOf(cPulled[s], "error") = NumErrors(given \o cPending', s)
    <3>1. /\ NumOf(cPulled[s], "success")
                = NumPairs(given) + (IF answer[s].type = "success" THEN 1 ELSE 0)
          /\ NumOf(cPulled[s], "error")
                = NumErrors(given, s) + (IF answer[s].type = "error" THEN 1 ELSE 0)
      BY <1>12, <2>1
    <3>2. buffered'[s] \in {Combine!None, answer[s]} /\ (buffered'[s] # Combine!None => answer[s].type = "success")
      BY <2>1, <2>3
    <3> QED  BY <2>3, <2>4, <2>5, <3>1, <3>2
  <2>8. cPending' \in Seq(CombineOutputs) /\ cPending' # <<>>
    BY <2>2, <2>5
  <2> QED  BY <1>11, <1>16, <2>6, <2>7, <2>8
<1>17. CASE cStage' = "closing"
  <2>1. /\ cPending' = cPending /\ buffered' = buffered
        /\ \/ answer' = answer
           \/ /\ answer' = [s \in Combine!Sides |-> Combine!None]
              /\ \A s \in Combine!Sides : answer[s] # Combine!None
    BY <1>9, <1>17
  <2> QED  BY <1>10, <1>17, <2>1
<1>18. CASE cStage' # "closing"
  <2>1. l \in CombineResults /\ r \in CombineResults
        /\ l.type \in {"success", "error"} /\ r.type \in {"success", "error"}
    <3>1. \A s \in Combine!Sides : answer[s] \notin {Combine!None, Combine!Thrown, Combine!Void}
      BY <1>9, <1>18
    <3>2. Combine!Done \notin {l, r}
      BY <1>9, <1>18
    <3> QED  BY <1>3, <1>5, <1>13, <3>1, <3>2
  <2>2. CASE "error" \in {l.type, r.type}
    <3>1. {l.type, r.type} # {"success"}
      BY <2>2
    <3> QED  BY <1>9, <1>16, <1>18, <2>1, <2>2, <3>1
  <2>3. CASE "error" \notin {l.type, r.type}
    BY <1>9, <1>14, <1>18, <2>1, <2>3
  <2> QED  BY <2>2, <2>3
<1> QED  BY <1>17, <1>18

LEMMA CombineStep == CombineInv /\ [Combine!Next]_combine => CombineInv'
<1> SUFFICES ASSUME CombineInv, [Combine!Next]_combine PROVE CombineInv'
  OBVIOUS
<1>1. CASE UNCHANGED combine
  <2>1. UNCHANGED <<cMode, cStage, gen, answer, buffered, racing, cPending, given, cPulled, cLeft>>
    BY <1>1 DEF combine
  <2>2. Combine!Given' = Combine!Given
    BY <2>1 DEF Combine!Given
  <2>3. CombineTypes'
    BY <2>1 DEF CombineInv, CombineTypes
  <2>4. CombineStage'
    BY <2>1 DEF CombineInv, CombineStage, SideInv, IsLast
  <2>5. MergeInv'
    BY <2>1, <2>2 DEF CombineInv, MergeInv
  <2>6. ZipInv'
    BY <2>1, <2>2 DEF CombineInv, ZipInv, Kept
  <2> QED  BY <2>3, <2>4, <2>5, <2>6 DEF CombineInv
<1>2. CASE Combine!Next
  BY <1>2, CombineStarts, CombineAsks, CombineAnswersStep, CombineZips, CombineMerges,
     CombineResumes, CombineLeaves, CombineCloses DEF Combine!Next
<1> QED  BY <1>1, <1>2

LEMMA CombineTypeOK == CombineInv => Combine!TypeOK
<1> SUFFICES ASSUME CombineInv PROVE Combine!TypeOK
  OBVIOUS
<1>1. CombineTypes /\ CombineStage
  BY DEF CombineInv
<1>2. ASSUME NEW s \in Combine!Sides
      PROVE  buffered[s] = Combine!None \/ buffered[s] = Combine!Last(cPulled[s])
  BY <1>1 DEF CombineStage, SideInv, IsLast, Combine!Last
<1> QED  BY <1>1, <1>2 DEF CombineTypes, Combine!TypeOK

LEMMA CombineOrder == CombineInv => Combine!CombinedInOrder
<1> SUFFICES ASSUME CombineInv PROVE Combine!CombinedInOrder
  OBVIOUS
<1>1. CombineTypes /\ CombineStage /\ MergeInv /\ ZipInv
  BY DEF CombineInv
<1>2. \A s \in Combine!Sides : Combine!IsResult(answer[s]) <=> answer[s] \in CombineResults
  BY <1>1, AnswerKinds DEF CombineTypes, Combine!IsResult
<1>3. ASSUME cMode = "merge", NEW s \in Combine!Sides
      PROVE  /\ Ordered(Combine!Given, cPulled[s], s)
             /\ Combine!Cardinality(Combine!From(Combine!Given, s))
                  = IF Combine!IsResult(answer[s]) THEN Len(cPulled[s]) - 1 ELSE Len(cPulled[s])
  BY <1>1, <1>2, <1>3, CombineCardinality DEF MergeInv, NumFrom
<1>4. Combine!SidesKeepTheirOrder
  BY <1>3 DEF Combine!SidesKeepTheirOrder, Ordered
<1>5. Combine!PairsAreAligned
  <2> SUFFICES ASSUME cMode = "zip", NEW s \in Combine!Sides
               PROVE  /\ \A i \in Combine!Pairs(Combine!Given) :
                            Combine!IsNth(Combine!Member(Combine!Given[i], s), s, "success",
                                          Combine!Rank(Combine!Pairs(Combine!Given), i))
                      /\ \A i \in Combine!Errors(Combine!Given, s) :
                            Combine!IsNth(Combine!Given[i], s, "error",
                                          Combine!Rank(Combine!Errors(Combine!Given, s), i))
    BY DEF Combine!PairsAreAligned
  <2>1. Aligned(Combine!Given, cPulled[s], s)
    BY <1>1 DEF ZipInv
  <2>2. \A x, type, k : NthIn(x, cPulled[s], type, k) => Combine!IsNth(x, s, type, k)
    BY DEF NthIn, Combine!IsNth, Typed, Combine!Yielded
  <2> QED  BY <2>1, <2>2 DEF Aligned
<1>6. Combine!MergeIsComplete
  <2> SUFFICES ASSUME cMode = "merge", cStage = "closing", ~cLeft,
                      \A s \in Combine!Sides : answer[s] # Combine!Void,
                      NEW s \in Combine!Sides
               PROVE  gen[s] = "ended" /\ Combine!Cardinality(Combine!From(given, s)) = Len(cPulled[s])
    BY DEF Combine!MergeIsComplete
  <2>1. racing = {} /\ cPending = <<>> /\ SideInv(s)
    BY <1>1 DEF CombineStage
  <2>2. gen[s] = "ended" /\ answer[s] = Combine!None
    BY <2>1 DEF SideInv
  <2>3. ~Combine!IsResult(answer[s])
    BY <2>2, AnswerKinds DEF Combine!IsResult
  <2>4. Combine!Given = given
    BY <1>1, <2>1, GivenType
  <2> QED  BY <1>3, <2>2, <2>3, <2>4
<1> QED  BY <1>4, <1>5, <1>6 DEF Combine!CombinedInOrder

\* merge gives what each side has yielded, in its order and all of it when both have ended; zip
\* makes its pairs of the values of the same rank and passes errors on in their order: whatever
\* the sides yield, however they end, and for any number of results.
THEOREM ResultsInOrder == MCSpec => []CombinedInOrder
<1>1. CombineInv => CombinedInOrder
  BY CombineTypeOK, CombineOrder DEF CombinedInOrder
<1>2. MCInit => CombineInv
  BY CombineInit DEF MCInit
<1>3. CombineInv /\ [MCNext]_mcvars => CombineInv'
  BY EachStutters, CombineStep
<1> QED  BY <1>1, <1>2, <1>3, PTL DEF MCSpec

-----------------------------------------------------------------------------
(* The sequential operators: what has been given out of the results that were looked at, *)
(* and where the loop goes next.                                                         *)

OpResults == [type : {"success", "error"}, of : Seq(Nat)]
OpFates == {"passed", "no", "ok", "half", "threw"}
Accumulating == {"scan", "fold", "scanErr", "foldErr"}

\* Where the loop is, or goes once what it has to yield has been taken.
Heads == IF stage = "yield" THEN next ELSE IF stage = "held" THEN "pull" ELSE stage

\* The values the variables take.
OpTypes ==
    /\ op \in {"none"} \cup Operators!OnValues \cup Operators!OnErrors \cup Operators!Plain
    /\ stage \in {"none", "pull", "held", "yield", "return", "throw", "done", "threw", "left"}
    /\ next \in {"pull", "return", "throw", "done", "threw"}
    /\ source \in {"open", "ended", "returned", "threw"}
    /\ input \in Seq(OpResults) /\ \A n \in 1..Len(input) : input[n].of = <<n>>
    /\ out \in Seq(OpResults) /\ pending \in Seq(OpResults)
    /\ fate \in Seq(OpFates) /\ index \in Nat /\ index <= Len(fate)
    /\ acc \in Seq(Nat) /\ chunk \in Seq(Nat)

\* Nothing happens before the stream is iterated; a result is looked at once; and the source
\* is open just as long as the loop has not decided to end.
OpStage ==
    /\ stage = "none" <=> op = "none"
    /\ op = "none" => /\ input = <<>> /\ out = <<>> /\ pending = <<>> /\ fate = <<>>
                      /\ acc = <<>> /\ chunk = <<>>
    /\ stage # "left" => (stage = "yield" <=> pending # <<>>)
    /\ Len(fate) = IF stage = "held" THEN Len(input) - 1 ELSE Len(input)
    /\ source = "open" <=> Heads \in {"none", "pull", "return", "throw"}

\* The results that callbacks settling with fs left an output for, and output x for result n of r.
AnsweredIn(o, fs) ==
    {n \in DOMAIN fs : fs[n] # "no" /\ ~(fs[n] = "threw" /\ o \in Operators!Rethrowing)}
TakenIn(fs, n) == {m \in 1..n : fs[m] = "ok"}
AnswerIn(x, n, o, fs, r) ==
    CASE o \in {"scan", "fold"} /\ fs[n] = "ok" -> x.type = "success" /\ Operators!Lists(x.of, TakenIn(fs, n))
      [] o \in {"scanErr", "foldErr"} /\ fs[n] = "ok" -> x.type = "error" /\ Operators!Lists(x.of, TakenIn(fs, n))
      [] o \in {"recover", "recoverWhen"} /\ fs[n] = "ok" -> x = Operators!Success(<<n>>)
      [] fs[n] = "threw" -> x = Operators!Error(<<n>>)
      [] OTHER -> x = r[n]

\* The results that a sequence of outputs came of.
Origins(g) == [i \in DOMAIN g |-> Operators!Origin(g[i])]

\* Outputs g are the answers to the results r, and the accumulator has taken in just what its
\* callback did not throw at.
AnswersIn(g, o, fs, r) ==
    /\ Operators!Lists(Origins(g), AnsweredIn(o, fs))
    /\ \A i \in DOMAIN g : AnswerIn(g[i], Operators!Origin(g[i]), o, fs, r)

AnswersInv ==
    /\ op \in Operators!OneForOne => AnswersIn(Operators!Given, op, fate, input)
    /\ op \in Accumulating => Operators!Lists(acc, TakenIn(fate, Len(fate)))

Before(g, i) == IF i = 1 THEN 0 ELSE Operators!Origin(g[i - 1])

\* The outputs g of chunks() hold the items up to m of the results r: a short chunk is followed
\* by an error or, when the source has ended, the last.
Whole(g, r, m, src) ==
    \A i \in 1..Len(g) :
       /\ Operators!Origin(g[i]) \in 1..m
       /\ g[i].of = Operators!Run(Before(g, i) + 1, Operators!Origin(g[i]))
       /\ \A k \in DOMAIN g[i].of : r[g[i].of[k]].type = g[i].type
       /\ g[i].type = "error" => Len(g[i].of) = 1
       /\ g[i].type = "success" => \/ Len(g[i].of) = ChunkSize
                                   \/ i < Len(g) /\ g[i + 1].type = "error"
                                   \/ i = Len(g) /\ src = "ended"

\* An unfinished chunk holds what came since the last output, which are values.
ChunkInv ==
    /\ op # "chunks" => chunk = <<>>
    /\ op = "chunks" =>
          /\ Whole(Operators!Given, input, Len(fate), source)
          /\ chunk = Operators!Run(Before(Operators!Given, Len(Operators!Given) + 1) + 1, Len(fate))
          /\ \A k \in DOMAIN chunk : input[chunk[k]].type = "success"
          /\ Len(chunk) < ChunkSize
          /\ Heads \notin {"return", "throw"}
          /\ Heads = "done" => chunk = <<>>

\* take() counts the values it has given, and goes on while there are fewer than n.
TakeInv ==
    op = "take" =>
       /\ Len(acc) = Cardinality(Operators!Values(Operators!Given))
       /\ Len(acc) <= Operators!AtMost
       /\ Heads = "pull" => Len(acc) < Limit
       /\ Heads = "return" => Len(acc) = Operators!AtMost
       /\ Heads # "throw"
       /\ Heads = "done" /\ source = "returned" => Len(acc) = Operators!AtMost

OperatorsInv == OpTypes /\ OpStage /\ AnswersInv /\ ChunkInv /\ TakeInv

LEMMA OperatorsCardinality == \A S : Operators!Cardinality(S) = Cardinality(S)
BY DEF Operators!Cardinality, Cardinality

LEMMA OpGivenType == ASSUME OpTypes PROVE Operators!Given \in Seq(OpResults)
BY DEF OpTypes, Operators!Given

LEMMA OperatorsInit == Operators!Init => OperatorsInv
<1> SUFFICES ASSUME Operators!Init PROVE OperatorsInv
  OBVIOUS
<1> USE DEF Operators!Init
<1>1. OpTypes
  BY DEF OpTypes
<1>2. OpStage
  BY DEF OpStage, Heads
<1>3. AnswersInv
  BY DEF AnswersInv, Operators!OneForOne, Operators!OnValues,
         Operators!OnErrors, Operators!Plain, Accumulating
<1>4. ChunkInv /\ TakeInv
  BY DEF ChunkInv, TakeInv
<1> QED  BY <1>1, <1>2, <1>3, <1>4 DEF OperatorsInv

\* A larger number at the end.
LEMMA ListsAppend ==
    ASSUME NEW s \in Seq(Nat), NEW S \in SUBSET Nat, NEW n \in Nat,
           Operators!Lists(s, S), \A m \in S : m < n
    PROVE  Operators!Lists(Append(s, n), S \cup {n})
<1> DEFINE t == Append(s, n)
<1>1. /\ DOMAIN s = 1..Len(s) /\ DOMAIN t = 1..Len(s) + 1 /\ Len(s) \in Nat
      /\ \A k \in 1..Len(s) : t[k] = s[k]
      /\ t[Len(s) + 1] = n
  OBVIOUS
<1>2. /\ \A k \in 1..Len(s) : s[k] \in S
      /\ \A m \in S : \E k \in 1..Len(s) : s[k] = m
      /\ \A k, l \in 1..Len(s) : k < l => s[k] < s[l]
  BY <1>1 DEF Operators!Lists
<1> HIDE DEF t
<1>3. {t[k] : k \in DOMAIN t} = S \cup {n}
  <2>1. ASSUME NEW k \in DOMAIN t PROVE t[k] \in S \cup {n}
    <3>1. k \in 1..Len(s) \/ k = Len(s) + 1
      BY <1>1
    <3> QED  BY <1>1, <1>2, <3>1
  <2>2. ASSUME NEW m \in S \cup {n} PROVE \E k \in DOMAIN t : t[k] = m
    <3>1. CASE m = n
      <4>1. Len(s) + 1 \in DOMAIN t
        BY <1>1
      <4> QED  BY <1>1, <3>1, <4>1
    <3>2. CASE m \in S
      <4>1. PICK k \in 1..Len(s) : s[k] = m
        BY <1>2, <3>2
      <4>2. k \in DOMAIN t
        BY <1>1
      <4> QED  BY <1>1, <4>1, <4>2
    <3> QED  BY <3>1, <3>2
  <2> QED  BY <2>1, <2>2
<1>4. ASSUME NEW k \in DOMAIN t, NEW l \in DOMAIN t, k < l PROVE t[k] < t[l]
  <2>1. k \in 1..Len(s) /\ (l \in 1..Len(s) \/ l = Len(s) + 1)
    BY <1>1, <1>4
  <2>2. CASE l \in 1..Len(s)
    BY <1>1, <1>2, <1>4, <2>1, <2>2
  <2>3. CASE l = Len(s) + 1
    <3>1. t[k] \in S /\ t[l] = n
      BY <1>1, <1>2, <2>1, <2>3
    <3> QED  BY <3>1
  <2> QED  BY <2>1, <2>2, <2>3
<1> QED  BY <1>3, <1>4 DEF Operators!Lists, t

LEMMA ConcatOfOne ==
    ASSUME NEW S, NEW s \in Seq(S), NEW x \in S PROVE s \o <<x>> = Append(s, x) /\ s \o <<x>> \in Seq(S)
OBVIOUS

\* One output more.
LEMMA OriginsAppend ==
    ASSUME NEW g \in Seq(OpResults), NEW x \in OpResults, NEW S \in SUBSET Nat, NEW n \in Nat,
           Operators!Lists(Origins(g), S), \A m \in S : m < n, Operators!Origin(x) = n
    PROVE  Operators!Lists(Origins(Append(g, x)), S \cup {n})
<1>1. ASSUME NEW i \in DOMAIN g PROVE Origins(g)[i] \in Nat
  BY DEF Operators!Lists, Origins
<1>2. DOMAIN g = 1..Len(g) /\ DOMAIN Origins(g) = 1..Len(g) /\ Len(g) \in Nat
  BY DEF Origins
<1>3. Origins(g) \in Seq(Nat) /\ Len(Origins(g)) = Len(g)
  <2>1. Origins(g) \in [1..Len(g) -> Nat]
    BY <1>1, <1>2 DEF Origins
  <2>2. Origins(g) \in Seq(Nat)
    BY <1>2, <2>1
  <2> QED  BY <1>2, <2>2
<1>4. Origins(Append(g, x)) = Append(Origins(g), n)
  <2> DEFINE h == Append(g, x)
             a == Append(Origins(g), n)
  <2>1. DOMAIN h = 1..Len(g) + 1 /\ h[Len(g) + 1] = x /\ \A i \in 1..Len(g) : h[i] = g[i]
    OBVIOUS
  <2>2. /\ DOMAIN a = 1..Len(g) + 1 /\ a[Len(g) + 1] = n /\ \A i \in 1..Len(g) : a[i] = Origins(g)[i]
    BY <1>3
  <2>5. a \in [1..Len(g) + 1 -> Nat]
    <3>1. a \in Seq(Nat) /\ Len(a) = Len(g) + 1
      BY <1>3 DEF a
    <3>2. a \in [1..Len(a) -> Nat]
      BY <3>1, LenProperties
    <3> QED  BY <3>1, <3>2
  <2> HIDE DEF h, a
  <2>3. ASSUME NEW i \in 1..Len(g) + 1 PROVE Operators!Origin(h[i]) = a[i]
    <3>1. i \in 1..Len(g) \/ i = Len(g) + 1
      BY <1>2
    <3> QED  BY <1>2, <2>1, <2>2, <3>1 DEF Origins
  <2>4. Origins(h) = a
    BY <2>1, <2>3, <2>5 DEF Origins
  <2> QED  BY <2>4 DEF h, a
<1> QED  BY <1>3, <1>4, ListsAppend

-----------------------------------------------------------------------------
(* What an operator makes of the result it holds. *)

\* One output, if the callback settles with f and the operator gives at most one.
OneAnswer(f) ==
    \/ pending' = <<>> /\ (f = "no" \/ (f = "threw" /\ op \in Operators!Rethrowing))
    \/ /\ f # "no" /\ ~(f = "threw" /\ op \in Operators!Rethrowing)
       /\ Len(pending') = 1 /\ Operators!Origin(pending'[1]) = Len(input)
       /\ CASE op \in {"scan", "fold"} /\ f = "ok" -> pending'[1].type = "success" /\ pending'[1].of = acc'
            [] op \in {"scanErr", "foldErr"} /\ f = "ok" -> pending'[1].type = "error" /\ pending'[1].of = acc'
            [] op \in {"recover", "recoverWhen"} /\ f = "ok" ->
                  pending'[1] = Operators!Success(<<Len(input)>>)
            [] f = "threw" -> pending'[1] = Operators!Error(<<Len(input)>>)
            [] OTHER -> pending'[1] = input[Len(input)]

\* What all of them do.
Shape(f) ==
    /\ f \in OpFates /\ fate' = Append(fate, f)
    /\ pending' \in Seq(OpResults)
    /\ next' \in {"pull", "return", "throw"}
    /\ stage' = IF pending' = <<>> THEN next' ELSE "yield"
    /\ index' \in {index, index + 1}
    /\ acc' \in Seq(Nat)
    /\ op \in Accumulating => acc' = IF f = "ok" THEN acc \o <<Len(input)>> ELSE acc
    /\ op # "chunks" => chunk' = chunk
    /\ op \in Operators!OneForOne => OneAnswer(f)

LEMMA HeldType ==
    ASSUME OpTypes, OpStage, stage = "held"
    PROVE  /\ Len(input) \in Nat \ {0} /\ Operators!Held \in OpResults
           /\ Operators!Held = input[Len(input)] /\ Operators!Held.of = <<Len(input)>>
           /\ Operators!Held.type \in {"success", "error"}
           /\ Operators!Failed = Operators!Error(<<Len(input)>>)
           /\ Operators!Error(<<Len(input)>>) \in OpResults
           /\ Operators!Success(<<Len(input)>>) \in OpResults
           /\ Operators!Held \in {Operators!Success(<<Len(input)>>), Operators!Error(<<Len(input)>>)}
           /\ \A x : <<x>>[1] = x /\ Len(<<x>>) = 1 /\ <<x>> # <<>>
           /\ \A x : x \in OpResults => <<x>> \in Seq(OpResults)
           /\ <<>> \in Seq(OpResults) /\ <<Len(input)>> \in Seq(Nat)
           /\ \A x : x.of = <<Len(input)>> => Operators!Origin(x) = Len(input)
<1>1. Len(input) \in Nat /\ Len(input) # 0
  BY DEF OpTypes, OpStage
<1>2. input[Len(input)] \in OpResults /\ input[Len(input)].of = <<Len(input)>>
  BY <1>1 DEF OpTypes
<1>3. <<Len(input)>> \in Seq(Nat)
  BY <1>1
<1>4. Operators!Held \in {Operators!Success(<<Len(input)>>), Operators!Error(<<Len(input)>>)}
  BY <1>2 DEF Operators!Held, Operators!Success, Operators!Error, OpResults
<1>5. \A x : x.of = <<Len(input)>> => Operators!Origin(x) = Len(input)
  BY DEF Operators!Origin, Operators!Last
<1> QED  BY <1>1, <1>2, <1>3, <1>4, <1>5
      DEF Operators!Held, Operators!Success, Operators!Error, Operators!Failed, OpResults

\* The steps the operators are made of.
LEMMA PassShape ==
    ASSUME OpTypes, OpStage, stage = "held", NEW type, Operators!Pass(type)
    PROVE  Shape("passed")
<1>1. /\ fate' = Append(fate, "passed") /\ UNCHANGED <<index, acc, chunk>>
      /\ pending' = <<Operators!Held>> /\ next' = "pull"
      /\ stage' = IF pending' = <<>> THEN "pull" ELSE "yield"
  BY DEF Operators!Pass, Operators!Emits, Operators!Yields, Operators!callbackVars
<1>2. Len(pending') = 1 /\ pending'[1] = input[Len(input)] /\ pending' \in Seq(OpResults)
      /\ Operators!Origin(pending'[1]) = Len(input)
  BY <1>1, HeldType
<1>3. OneAnswer("passed")
  BY <1>2 DEF OneAnswer
<1> QED  BY <1>1, <1>2, <1>3 DEF Shape, OpFates, OpTypes

LEMMA SkipShape ==
    ASSUME OpTypes, OpStage, stage = "held", NEW type, Operators!Skip(type)
    PROVE  Shape("no")
<1>1. /\ fate' = Append(fate, "no") /\ UNCHANGED <<index, acc, chunk>>
      /\ pending' = <<>> /\ next' = "pull"
      /\ stage' = IF pending' = <<>> THEN "pull" ELSE "yield"
  BY DEF Operators!Skip, Operators!Emits, Operators!Yields, Operators!callbackVars
<1>2. OneAnswer("no") /\ pending' \in Seq(OpResults)
  BY <1>1, HeldType DEF OneAnswer
<1> QED  BY <1>1, <1>2 DEF Shape, OpFates, OpTypes

\* A call whose outputs do not depend on the accumulator.
LEMMA CallShape ==
    ASSUME OpTypes, OpStage, stage = "held", NEW type, NEW f \in OpFates, Operators!Call(type, f),
           NEW e \in Seq(OpResults), NEW goOn \in {"pull", "return", "throw"}, Operators!Yields(e, goOn),
           op \in Accumulating => f # "ok", op \in Operators!OneForOne => OneAnswer(f)
    PROVE  Shape(f)
<1>1. /\ fate' = Append(fate, f) /\ index' = index + 1 /\ UNCHANGED <<acc, chunk>>
      /\ pending' = e /\ next' = goOn
      /\ stage' = IF pending' = <<>> THEN next' ELSE "yield"
  BY DEF Operators!Call, Operators!Yields
<1> QED  BY <1>1 DEF Shape, OpTypes

LEMMA CallGives ==
    ASSUME OpTypes, OpStage, stage = "held", NEW type, NEW f \in {"ok", "threw"}, Operators!Call(type, f),
           NEW x, NEW goOn \in {"pull", "return"}, Operators!Yields(<<x>>, goOn),
           f = "threw" => op \notin Operators!Rethrowing /\ x = Operators!Error(<<Len(input)>>),
           f = "ok" => /\ op \notin Accumulating
                       /\ x = IF op \in {"recover", "recoverWhen"}
                              THEN Operators!Success(<<Len(input)>>) ELSE input[Len(input)]
    PROVE  Shape(f)
<1>1. pending' = <<x>>
  BY DEF Operators!Yields
<1>2. x \in OpResults /\ x.of = <<Len(input)>>
  <2>1. Operators!Error(<<Len(input)>>).of = <<Len(input)>>
        /\ Operators!Success(<<Len(input)>>).of = <<Len(input)>>
    BY DEF Operators!Error, Operators!Success
  <2> QED  BY <2>1, HeldType
<1>3. Len(pending') = 1 /\ pending'[1] = x /\ <<x>> \in Seq(OpResults)
      /\ Operators!Origin(pending'[1]) = Len(input)
  BY <1>1, <1>2, HeldType
<1>4. OneAnswer(f)
  BY <1>3 DEF OneAnswer, Accumulating
<1>5. f \in OpFates /\ goOn \in {"pull", "return", "throw"} /\ (op \in Accumulating => f # "ok")
  BY DEF OpFates
<1> QED  BY <1>3, <1>4, <1>5, CallShape

LEMMA CallDrops ==
    ASSUME OpTypes, OpStage, stage = "held", NEW type, NEW f, Operators!Call(type, f),
           NEW goOn \in {"pull", "return", "throw"}, Operators!Yields(<<>>, goOn),
           f = "no" \/ (f = "threw" /\ op \in Operators!Rethrowing)
    PROVE  Shape(f)
<1>1. pending' = <<>> /\ <<>> \in Seq(OpResults)
  BY DEF Operators!Yields
<1>2. OneAnswer(f) /\ f \in OpFates /\ f # "ok"
  BY <1>1 DEF OneAnswer, OpFates
<1> QED  BY <1>1, <1>2, CallShape

\* The callback gives its value to the accumulator, and what that has become is yielded.
LEMMA AccumulateShape ==
    ASSUME OpTypes, OpStage, stage = "held", NEW type, Operators!Accumulate(type),
           \/ op \in {"scan", "fold"} /\ Operators!Emits(<<Operators!Success(acc')>>)
           \/ op \in {"scanErr", "foldErr"} /\ Operators!Emits(<<Operators!Error(acc')>>)
    PROVE  Shape("ok")
<1>1. acc' = acc \o <<Len(input)>> /\ fate' = Append(fate, "ok") /\ index' = index + 1 /\ chunk' = chunk
  BY HeldType DEF Operators!Accumulate
<1>2. acc \in Seq(Nat) /\ <<Len(input)>> \in Seq(Nat) /\ Len(input) \in Nat
  BY HeldType DEF OpTypes
<1>3. acc' \in Seq(Nat)
  BY <1>1, <1>2
<1>4. \A x : x.of = acc' => Operators!Origin(x) = Len(input)
  BY <1>1, <1>2 DEF Operators!Origin, Operators!Last
<1>5. PICK x \in OpResults :
        /\ pending' = <<x>> /\ x.of = acc'
        /\ op \in {"scan", "fold"} => x.type = "success"
        /\ op \in {"scanErr", "foldErr"} => x.type = "error"
        /\ next' = "pull" /\ stage' = IF pending' = <<>> THEN next' ELSE "yield"
  <2>1. CASE op \in {"scan", "fold"} /\ Operators!Emits(<<Operators!Success(acc')>>)
    <3>1. Operators!Success(acc') \in OpResults /\ Operators!Success(acc').of = acc'
          /\ Operators!Success(acc').type = "success"
      BY <1>3 DEF Operators!Success, OpResults
    <3> QED  BY <2>1, <3>1 DEF Operators!Emits, Operators!Yields
  <2>2. CASE op \in {"scanErr", "foldErr"} /\ Operators!Emits(<<Operators!Error(acc')>>)
    <3>1. Operators!Error(acc') \in OpResults /\ Operators!Error(acc').of = acc'
          /\ Operators!Error(acc').type = "error"
      BY <1>3 DEF Operators!Error, OpResults
    <3> QED  BY <2>2, <3>1 DEF Operators!Emits, Operators!Yields
  <2> QED  BY <2>1, <2>2
<1>6. Len(pending') = 1 /\ pending'[1] = x /\ pending' \in Seq(OpResults) /\ op \in Accumulating
  BY <1>5 DEF Accumulating
<1>7. OneAnswer("ok")
  BY <1>4, <1>5, <1>6 DEF OneAnswer, Accumulating
<1>8. op # "chunks"
  BY <1>6 DEF Accumulating
<1> QED  BY <1>1, <1>3, <1>5, <1>6, <1>7, <1>8 DEF Shape, OpFates

LEMMA HandleShape ==
    ASSUME OpTypes, OpStage, Operators!Handle
    PROVE  \E f : Shape(f)
<1>1. stage = "held" /\ acc \in Seq(Nat) /\ index \in Nat
  BY DEF Operators!Handle, OpTypes
<1> DEFINE h == Operators!Held
           n == Len(input)
<1>2. /\ n \in Nat \ {0} /\ h \in OpResults /\ h = input[n] /\ h.of = <<n>>
      /\ Operators!Failed = Operators!Error(<<n>>)
      /\ h.type = "error" => h = Operators!Error(<<n>>)
      /\ \A x : <<x>>[1] = x /\ Len(<<x>>) = 1 /\ <<x>> # <<>>
      /\ \A x : x \in OpResults => <<x>> \in Seq(OpResults)
      /\ \A x : x.of = <<n>> => Operators!Origin(x) = n
  <2>1. h.type = "error" => h = Operators!Error(<<n>>)
    BY <1>1, HeldType DEF Operators!Error, Operators!Success
  <2> QED  BY <1>1, <2>1, HeldType
<1>3. h \in OpResults /\ Operators!Error(<<n>>) \in OpResults
  BY <1>1, HeldType
<1>4. /\ acc \o <<n>> \in Seq(Nat) /\ <<h, h>> \in Seq(OpResults)
      /\ <<h, Operators!Error(<<n>>)>> \in Seq(OpResults) /\ <<Operators!Error(<<n>>)>> \in Seq(OpResults)
  BY <1>1, <1>2, <1>3
<1>0. \A f : Operators!Call("error", f) => Operators!Failed = input[n]
  BY <1>2 DEF Operators!Call
<1>5. CASE Operators!sequentialMap
  BY <1>1, <1>2, <1>5, PassShape, CallGives
     DEF Operators!sequentialMap, Operators!Emits, Accumulating, Operators!Rethrowing
<1>6. CASE Operators!filter
  BY <1>1, <1>2, <1>6, PassShape, CallGives, CallDrops
     DEF Operators!filter, Operators!Emits, Accumulating, Operators!Rethrowing
<1>7. CASE Operators!tap
  BY <1>1, <1>2, <1>7, PassShape, CallGives
     DEF Operators!tap, Operators!Emits, Accumulating, Operators!Rethrowing
<1>8. CASE Operators!tapErr
  BY <1>0, <1>1, <1>2, <1>8, PassShape, CallGives
     DEF Operators!tapErr, Operators!Emits, Accumulating, Operators!Rethrowing
<1>9. CASE Operators!take
  <2>1. op = "take" /\ fate' = Append(fate, "passed") /\ acc' \in {acc, acc \o <<n>>} /\ index' = index
        /\ chunk' = chunk /\ pending' = <<Operators!Held>>
    BY <1>2, <1>9 DEF Operators!take, Operators!Yields, h, n
  <2>2. next' \in {"pull", "return"} /\ stage' = IF pending' = <<>> THEN next' ELSE "yield"
    BY <1>9 DEF Operators!take, Operators!Yields
  <2>3. OneAnswer("passed")
    BY <1>2, <2>1 DEF OneAnswer, h, n
  <2>4. Shape("passed")
    BY <1>1, <1>2, <1>4, <2>1, <2>2, <2>3 DEF Shape, OpFates, Accumulating, h
  <2> QED  BY <2>4
<1>10. CASE Operators!takeWhile
  BY <1>1, <1>2, <1>10, PassShape, CallGives, CallDrops
     DEF Operators!takeWhile, Operators!Emits, Operators!Stops, Accumulating, Operators!Rethrowing
<1>11. CASE Operators!scan
  BY <1>1, <1>2, <1>11, PassShape, AccumulateShape, CallGives
     DEF Operators!scan, Operators!Emits, Accumulating, Operators!Rethrowing
<1>12. CASE Operators!scanErr
  BY <1>1, <1>2, <1>12, PassShape, AccumulateShape, CallGives
     DEF Operators!scanErr, Operators!Emits, Accumulating, Operators!Rethrowing
<1>13. CASE Operators!chunks
  <2> HIDE DEF h, n
  <2>1. op = "chunks" /\ fate' = Append(fate, "passed") /\ index' = index /\ acc' = acc
    BY <1>13 DEF Operators!chunks
  <2>2. next' = "pull" /\ stage' = IF pending' = <<>> THEN next' ELSE "yield"
    BY <1>13 DEF Operators!chunks, Operators!Emits, Operators!Yields
  <2>3. pending' \in Seq(OpResults)
    <3>1. chunk \in Seq(Nat) /\ <<n>> \in Seq(Nat) /\ chunk \o h.of \in Seq(Nat)
      BY <1>2 DEF OpTypes
    <3>2. \A c \in Seq(Nat) : <<Operators!Success(c)>> \in Seq(OpResults)
      BY DEF Operators!Success, OpResults
    <3>3. Operators!FlushChunk \in Seq(OpResults)
      BY <1>2, <3>1, <3>2 DEF Operators!FlushChunk
    <3>4. Operators!FlushChunk \o <<h>> \in Seq(OpResults)
      BY <1>2, <3>3
    <3>5. pending' \in {<<Operators!Success(chunk \o h.of)>>, <<>>, Operators!FlushChunk \o <<h>>}
      BY <1>13 DEF Operators!chunks, Operators!Emits, Operators!Yields, h
    <3>6. <<Operators!Success(chunk \o h.of)>> \in Seq(OpResults)
      BY <3>1, <3>2
    <3>7. <<>> \in Seq(OpResults)
      OBVIOUS
    <3> QED  BY <3>4, <3>5, <3>6, <3>7
  <2>4. Shape("passed")
    BY <1>1, <2>1, <2>2, <2>3 DEF Shape, OpFates, Accumulating, Operators!OneForOne
  <2> QED  BY <2>4
<1>14. CASE Operators!mapErr
  BY <1>0, <1>1, <1>2, <1>14, PassShape, CallGives
     DEF Operators!mapErr, Operators!Emits, Accumulating, Operators!Rethrowing
<1>15. CASE Operators!filterErr
  BY <1>0, <1>1, <1>2, <1>15, PassShape, CallGives, CallDrops
     DEF Operators!filterErr, Operators!Emits, Accumulating, Operators!Rethrowing
<1>16. CASE Operators!recover
  BY <1>1, <1>2, <1>16, PassShape, CallGives, CallDrops
     DEF Operators!recover, Operators!Emits, Operators!Throws, Accumulating, Operators!Rethrowing
<1>17. CASE Operators!recoverWhen
  BY <1>1, <1>2, <1>17, PassShape, CallGives, CallDrops
     DEF Operators!recoverWhen, Operators!Emits, Operators!Throws, Accumulating, Operators!Rethrowing
<1>18. CASE Operators!throwOn
  BY <1>1, <1>2, <1>18, PassShape, CallDrops
     DEF Operators!throwOn, Operators!Throws, Accumulating, Operators!Rethrowing
<1>19. CASE Operators!flatMap
  BY <1>1, <1>2, <1>4, <1>19, PassShape, CallShape
     DEF Operators!flatMap, Operators!Emits, Accumulating, Operators!OneForOne, OpFates
<1>20. CASE Operators!concurrentFlatMap
  BY <1>1, <1>2, <1>4, <1>20, PassShape, CallShape
     DEF Operators!concurrentFlatMap, Operators!Emits, Accumulating, Operators!OneForOne, OpFates
<1>21. CASE Operators!fold
  BY <1>1, <1>2, <1>21, PassShape, AccumulateShape, CallDrops
     DEF Operators!fold, Operators!Throws, Accumulating, Operators!Rethrowing
<1>22. CASE Operators!foldErr
  BY <1>1, <1>2, <1>22, SkipShape, AccumulateShape, CallDrops
     DEF Operators!foldErr, Operators!Throws, Accumulating, Operators!Rethrowing
<1>23. CASE Operators!collect
  BY <1>1, <1>2, <1>23, PassShape
     DEF Operators!collect
<1>24. CASE Operators!successes
  BY <1>1, <1>2, <1>24, PassShape, SkipShape
     DEF Operators!successes
<1>25. CASE Operators!errors
  BY <1>1, <1>2, <1>25, PassShape, SkipShape
     DEF Operators!errors
<1> QED  BY <1>5, <1>6, <1>7, <1>8, <1>9, <1>10, <1>11, <1>12, <1>13, <1>14, <1>15, <1>16, <1>17,
            <1>18, <1>19, <1>20, <1>21, <1>22, <1>23, <1>24, <1>25 DEF Operators!Handle

-----------------------------------------------------------------------------
(* Steps that leave what was given out as it is. *)

LEMMA AnswersLater ==
    ASSUME NEW g, NEW o, NEW fs, NEW r, NEW gs, NEW s, NEW m \in Nat, DOMAIN fs = 1..m,
           AnswersIn(g, o, fs, r), \A n \in 1..m : gs[n] = fs[n] /\ s[n] = r[n]
    PROVE  \A i \in DOMAIN g : /\ Operators!Origin(g[i]) \in 1..m
                               /\ AnswerIn(g[i], Operators!Origin(g[i]), o, gs, s)
<1> SUFFICES ASSUME NEW i \in DOMAIN g
             PROVE  /\ Operators!Origin(g[i]) \in 1..m
                    /\ AnswerIn(g[i], Operators!Origin(g[i]), o, gs, s)
  OBVIOUS
<1> DEFINE n == Operators!Origin(g[i])
<1>1. n \in 1..m
  <2>1. i \in DOMAIN Origins(g)
    BY DEF Origins
  <2>2. Origins(g)[i] \in AnsweredIn(o, fs)
    BY <2>1 DEF Operators!Lists, AnswersIn
  <2> QED  BY <2>1, <2>2 DEF Origins, AnsweredIn
<1>2. AnswerIn(g[i], n, o, fs, r)
  BY DEF AnswersIn
<1> HIDE DEF n
<1>3. TakenIn(gs, n) = TakenIn(fs, n)
  BY <1>1 DEF TakenIn
<1>4. AnswerIn(g[i], n, o, gs, s)
  BY <1>1, <1>2, <1>3 DEF AnswerIn
<1> QED  BY <1>1, <1>4 DEF n

LEMMA AnswersKept ==
    ASSUME OpTypes, AnswersInv, Operators!Given' = Operators!Given, UNCHANGED <<op, fate, acc>>,
           \A n \in 1..Len(fate) : input'[n] = input[n]
    PROVE  AnswersInv'
<1>1. DOMAIN fate = 1..Len(fate) /\ Len(fate) \in Nat
  BY DEF OpTypes
<1>2. CASE op \in Operators!OneForOne
  <2>1. AnswersIn(Operators!Given, op, fate, input)
    BY <1>2 DEF AnswersInv
  <2>2. \A i \in DOMAIN Operators!Given :
           AnswerIn(Operators!Given[i], Operators!Origin(Operators!Given[i]), op, fate, input')
    BY <1>1, <2>1, AnswersLater
  <2>3. AnswersIn(Operators!Given, op, fate, input')
    BY <2>1, <2>2 DEF AnswersIn
  <2> QED  BY <2>3 DEF AnswersInv
<1>3. CASE op \notin Operators!OneForOne
  BY <1>3 DEF AnswersInv
<1> QED  BY <1>2, <1>3

\* The results that are held come of those that have been looked at.
LEMMA WholeKept ==
    ASSUME NEW g \in Seq(OpResults), NEW r, NEW s, NEW m \in Nat, NEW src, NEW later,
           Whole(g, r, m, src), \A n \in 1..m : s[n] = r[n], src = "ended" => later = "ended"
    PROVE  Whole(g, s, m, later)
<1> SUFFICES ASSUME NEW i \in 1..Len(g)
             PROVE  /\ Operators!Origin(g[i]) \in 1..m
                    /\ g[i].of = Operators!Run(Before(g, i) + 1, Operators!Origin(g[i]))
                    /\ \A k \in DOMAIN g[i].of : s[g[i].of[k]].type = g[i].type
                    /\ g[i].type = "error" => Len(g[i].of) = 1
                    /\ g[i].type = "success" => \/ Len(g[i].of) = ChunkSize
                                                \/ i < Len(g) /\ g[i + 1].type = "error"
                                                \/ i = Len(g) /\ later = "ended"
  BY DEF Whole
<1>1. /\ Operators!Origin(g[i]) \in 1..m
      /\ g[i].of = Operators!Run(Before(g, i) + 1, Operators!Origin(g[i]))
      /\ \A k \in DOMAIN g[i].of : r[g[i].of[k]].type = g[i].type
      /\ g[i].type = "error" => Len(g[i].of) = 1
      /\ g[i].type = "success" => \/ Len(g[i].of) = ChunkSize
                                  \/ i < Len(g) /\ g[i + 1].type = "error"
                                  \/ i = Len(g) /\ src = "ended"
  BY DEF Whole
<1>2. Before(g, i) \in Nat
  <2>1. CASE i = 1
    BY <2>1 DEF Before
  <2>2. CASE i # 1
    <3>1. i - 1 \in 1..Len(g)
      BY <2>2
    <3>2. Operators!Origin(g[i - 1]) \in 1..m
      BY <3>1 DEF Whole
    <3> QED  BY <2>2, <3>2 DEF Before
  <2> QED  BY <2>1, <2>2
<1>3. \A k \in DOMAIN g[i].of : g[i].of[k] \in 1..m
  BY <1>1, <1>2 DEF Operators!Run
<1> QED  BY <1>1, <1>3

LEMMA ChunkKept ==
    ASSUME OpTypes, ChunkInv, Operators!Given' = Operators!Given, UNCHANGED <<op, fate, chunk>>,
           \A n \in 1..Len(fate) : input'[n] = input[n],
           source = "ended" => source' = "ended",
           op = "chunks" => Heads' \notin {"return", "throw"},
           op = "chunks" /\ Heads' = "done" => chunk = <<>>
    PROVE  ChunkInv'
<1>1. op # "chunks" => chunk = <<>>
  BY DEF ChunkInv
<1>2. CASE op = "chunks"
  <2> DEFINE g == Operators!Given
             m == Len(fate)
  <2>1. g \in Seq(OpResults) /\ m \in Nat
    BY OpGivenType DEF OpTypes
  <2>2. /\ Whole(g, input, m, source)
        /\ chunk = Operators!Run(Before(g, Len(g) + 1) + 1, m)
        /\ \A k \in DOMAIN chunk : input[chunk[k]].type = "success"
        /\ Len(chunk) < ChunkSize
    BY <1>2 DEF ChunkInv
  <2> HIDE DEF g, m
  <2>3. Whole(g, input', m, source')
    BY <2>1, <2>2, WholeKept DEF m
  <2>4. Before(g, Len(g) + 1) \in Nat
    <3>1. CASE Len(g) = 0
      BY <3>1 DEF Before
    <3>2. CASE Len(g) # 0
      <4>1. Len(g) \in 1..Len(g) /\ Len(g) + 1 # 1
        BY <2>1, <3>2
      <4>2. Operators!Origin(g[Len(g)]) \in 1..m
        BY <2>2, <4>1 DEF Whole
      <4> QED  BY <2>1, <4>1, <4>2 DEF Before
    <3> QED  BY <3>1, <3>2
  <2>5. \A k \in DOMAIN chunk : chunk[k] \in 1..m
    BY <2>1, <2>2, <2>4 DEF Operators!Run
  <2>6. \A k \in DOMAIN chunk : input'[chunk[k]].type = "success"
    BY <2>2, <2>5 DEF m
  <2>7. g' = g /\ m' = m
    BY DEF g, m
  <2>8. /\ Whole(Operators!Given', input', Len(fate'), source')
        /\ chunk' = Operators!Run(Before(Operators!Given', Len(Operators!Given') + 1) + 1, Len(fate'))
        /\ \A k \in DOMAIN chunk' : input'[chunk'[k]].type = "success"
        /\ Len(chunk') < ChunkSize
    BY <2>2, <2>3, <2>6 DEF g, m
  <2> QED  BY <1>2, <2>8 DEF ChunkInv
<1> QED  BY <1>1, <1>2 DEF ChunkInv

LEMMA TakeKept ==
    ASSUME TakeInv, Operators!Given' = Operators!Given, UNCHANGED <<op, acc>>,
           op = "take" => /\ Heads' # "throw"
                          /\ Heads' = "pull" => Heads = "pull"
                          /\ Heads' = "return" => Heads = "return"
                          /\ Heads' = "done" /\ source' = "returned" =>
                                \/ Heads = "return"
                                \/ Heads = "done" /\ source = "returned"
    PROVE  TakeInv'
BY DEF TakeInv, Operators!Values, Operators!AtMost

LEMMA HeadMoves ==
    ASSUME NEW S, NEW s \in Seq(S), NEW t \in Seq(S), t # <<>>
    PROVE  /\ Append(s, Head(t)) \o Tail(t) = s \o t
           /\ Append(s, Head(t)) \in Seq(S) /\ Tail(t) \in Seq(S)
           /\ Len(t) = 1 <=> Tail(t) = <<>>
<1>1. Append(s, Head(t)) \in Seq(S) /\ Tail(t) \in Seq(S) /\ Len(t) \in Nat \ {0}
      /\ Len(Tail(t)) = Len(t) - 1
  OBVIOUS
<1>2. Len(t) = 1 <=> Tail(t) = <<>>
  BY <1>1
<1>3. Append(s, Head(t)) \o Tail(t) = s \o t
  OBVIOUS
<1> QED  BY <1>1, <1>2, <1>3

LEMMA OpIterates == ASSUME OperatorsInv, Operators!Iterate PROVE OperatorsInv'
<1>1. OpTypes /\ OpStage /\ AnswersInv /\ ChunkInv /\ TakeInv
  BY DEF OperatorsInv
<1>2. /\ op = "none" /\ stage = "none"
      /\ op' \in Operators!OnValues \cup Operators!OnErrors \cup Operators!Plain
      /\ stage' = IF op' = "take" /\ Limit <= 0 THEN "done" ELSE "pull"
      /\ source' = IF op' = "take" /\ Limit <= 0 THEN "returned" ELSE "open"
      /\ UNCHANGED <<input, pending, next, index, acc, chunk, out, fate>>
      /\ op' # "none"
  BY <1>1 DEF Operators!Iterate, Operators!callbackVars, OpStage, Operators!OnValues, Operators!OnErrors,
     Operators!Plain
<1>3. input = <<>> /\ out = <<>> /\ pending = <<>> /\ fate = <<>> /\ acc = <<>> /\ chunk = <<>>
  BY <1>1, <1>2 DEF OpStage
<1>4. Operators!Given' = <<>>
  BY <1>2, <1>3 DEF Operators!Given
<1>5. OpTypes'
  BY <1>1, <1>2 DEF OpTypes
<1>6. Heads' = stage' /\ Heads' \in {"pull", "done"}
  BY <1>2 DEF Heads
<1>7. OpStage'
  BY <1>2, <1>3, <1>6 DEF OpStage
<1>8. AnswersInv'
  <2>1. AnswersIn(<<>>, op', <<>>, <<>>)
    BY DEF AnswersIn, Origins, AnsweredIn, Operators!Lists
  <2>2. Operators!Lists(<<>>, TakenIn(<<>>, Len(<<>>)))
    BY DEF Operators!Lists, TakenIn
  <2> QED  BY <1>2, <1>3, <1>4, <2>1, <2>2 DEF AnswersInv
<1>9. ChunkInv'
  <2>1. Whole(<<>>, input', 0, source')
    BY DEF Whole
  <2>2. Operators!Run(Before(<<>>, Len(<<>>) + 1) + 1, 0) = <<>>
    BY DEF Operators!Run, Before
  <2>3. chunk' = <<>> /\ Len(fate') = 0 /\ 0 < ChunkSize
    BY <1>2, <1>3, OperatorsAssumption
  <2> QED  BY <1>4, <1>6, <2>1, <2>2, <2>3 DEF ChunkInv
<1>10. TakeInv'
  <2>1. Operators!Values(<<>>) = {} /\ Cardinality({}) = 0 /\ Len(acc') = 0
    BY <1>2, <1>3, FS_EmptySet DEF Operators!Values
  <2>2. op' = "take" => 0 <= Operators!AtMost /\ (Limit <= 0 => Operators!AtMost = 0)
    BY OperatorsAssumption DEF Operators!AtMost
  <2>3. op' = "take" /\ stage' = "pull" => 0 < Limit
    BY <1>2, OperatorsAssumption
  <2>4. stage' = "done" => op' = "take" /\ Limit <= 0
    BY <1>2
  <2> QED  BY <1>4, <1>6, <2>1, <2>2, <2>3, <2>4 DEF TakeInv, Operators!AtMost
<1> QED  BY <1>5, <1>7, <1>8, <1>9, <1>10 DEF OperatorsInv

LEMMA OpSourceYields == ASSUME OperatorsInv, Operators!SourceYields PROVE OperatorsInv'
<1>1. OpTypes /\ OpStage /\ AnswersInv /\ ChunkInv /\ TakeInv
  BY DEF OperatorsInv
<1>2. PICK r \in {Operators!Success(<<Len(input) + 1>>), Operators!Error(<<Len(input) + 1>>)} :
        input' = Append(input, r)
  BY DEF Operators!SourceYields
<1>3. /\ stage = "pull" /\ stage' = "held"
      /\ UNCHANGED <<op, source, pending, next, index, acc, chunk, out, fate>>
  BY DEF Operators!SourceYields, Operators!callbackVars
<1>4. Len(input) \in Nat /\ Len(fate) = Len(input) /\ input \in Seq(OpResults)
  BY <1>1, <1>3 DEF OpTypes, OpStage
<1>5. r \in OpResults /\ r.of = <<Len(input) + 1>>
  <2>1. <<Len(input) + 1>> \in Seq(Nat)
    BY <1>4
  <2>2. ASSUME NEW c \in Seq(Nat)
        PROVE  /\ Operators!Success(c) \in OpResults /\ Operators!Success(c).of = c
               /\ Operators!Error(c) \in OpResults /\ Operators!Error(c).of = c
    BY DEF OpResults, Operators!Success, Operators!Error
  <2> QED  BY <2>1, <2>2
<1>6. /\ input' \in Seq(OpResults) /\ Len(input') = Len(input) + 1
      /\ \A n \in 1..Len(input) : input'[n] = input[n]
      /\ input'[Len(input) + 1] = r
  BY <1>2, <1>4, <1>5
<1>7. \A n \in 1..Len(input') : input'[n].of = <<n>>
  <2> SUFFICES ASSUME NEW n \in 1..Len(input') PROVE input'[n].of = <<n>>
    OBVIOUS
  <2>1. n \in 1..Len(input) \/ n = Len(input) + 1
    BY <1>4, <1>6
  <2> QED  BY <1>1, <1>5, <1>6, <2>1 DEF OpTypes
<1>8. OpTypes'
  BY <1>1, <1>3, <1>6, <1>7 DEF OpTypes
<1>9. Heads = "pull" /\ Heads' = "pull" /\ Operators!Given' = Operators!Given
  BY <1>3 DEF Heads, Operators!Given
<1>10. OpStage'
  BY <1>1, <1>3, <1>4, <1>6, <1>9 DEF OpStage
<1>11. AnswersInv'
  BY <1>1, <1>3, <1>4, <1>6, <1>9, AnswersKept
<1>12. ChunkInv'
  BY <1>1, <1>3, <1>4, <1>6, <1>9, ChunkKept
<1>13. TakeInv'
  BY <1>1, <1>3, <1>9, TakeKept
<1> QED  BY <1>8, <1>10, <1>11, <1>12, <1>13 DEF OperatorsInv

LEMMA OpSourceThrows == ASSUME OperatorsInv, Operators!SourceThrows PROVE OperatorsInv'
<1>1. OpTypes /\ OpStage /\ AnswersInv /\ ChunkInv /\ TakeInv
  BY DEF OperatorsInv
<1>2. /\ stage = "pull" /\ stage' = "threw" /\ source' = "threw" /\ next' = "threw"
      /\ UNCHANGED <<op, input, index, acc, chunk, out, fate>>
      /\ pending' = <<>>
  BY DEF Operators!SourceThrows, Operators!callbackVars, Operators!Yields
<1>3. pending = <<>> /\ source = "open"
  BY <1>1, <1>2 DEF OpStage, Heads
<1>4. OpTypes'
  BY <1>1, <1>2, <1>3 DEF OpTypes
<1>5. Heads = "pull" /\ Heads' = "threw" /\ Operators!Given' = Operators!Given
  BY <1>2, <1>3 DEF Heads, Operators!Given
<1>6. OpStage'
  BY <1>1, <1>2, <1>3, <1>5 DEF OpStage
<1>7. AnswersInv'
  BY <1>1, <1>2, <1>5, AnswersKept
<1>8. ChunkInv'
  BY <1>1, <1>2, <1>3, <1>5, ChunkKept
<1>9. TakeInv'
  BY <1>1, <1>2, <1>5, TakeKept
<1> QED  BY <1>4, <1>6, <1>7, <1>8, <1>9 DEF OperatorsInv

LEMMA OpDelivers == ASSUME OperatorsInv, Operators!Deliver PROVE OperatorsInv'
<1>1. OpTypes /\ OpStage /\ AnswersInv /\ ChunkInv /\ TakeInv
  BY DEF OperatorsInv
<1>2. /\ stage = "yield" /\ out' = Append(out, Head(pending)) /\ pending' = Tail(pending)
      /\ stage' = IF Len(pending) = 1 THEN next ELSE "yield"
      /\ UNCHANGED <<op, input, source, next, index, acc, chunk, fate>>
  BY DEF Operators!Deliver, Operators!callbackVars
<1>3. out \in Seq(OpResults) /\ pending \in Seq(OpResults) /\ pending # <<>>
  BY <1>1, <1>2 DEF OpTypes, OpStage
<1>4. /\ Operators!Given' = Operators!Given
      /\ out' \in Seq(OpResults) /\ pending' \in Seq(OpResults)
      /\ Len(pending) = 1 <=> pending' = <<>>
  BY <1>2, <1>3, HeadMoves DEF Operators!Given
<1>5. next \in {"pull", "return", "throw", "done", "threw"}
  BY <1>1 DEF OpTypes
<1>6. OpTypes'
  BY <1>1, <1>2, <1>4, <1>5 DEF OpTypes
<1>7. Heads' = Heads /\ Heads = next
  BY <1>2, <1>5 DEF Heads
<1>8. OpStage'
  BY <1>1, <1>2, <1>3, <1>4, <1>5, <1>7 DEF OpStage
<1>9. AnswersInv'
  BY <1>1, <1>2, <1>4, AnswersKept
<1>10. ChunkInv'
  <2>1. op = "chunks" => Heads \notin {"return", "throw"} /\ (Heads = "done" => chunk = <<>>)
    BY <1>1 DEF ChunkInv
  <2> QED  BY <1>1, <1>2, <1>4, <1>7, <2>1, ChunkKept
<1>11. TakeInv'
  <2>1. op = "take" => Heads # "throw"
    BY <1>1 DEF TakeInv
  <2> QED  BY <1>1, <1>2, <1>4, <1>7, <2>1, TakeKept
<1> QED  BY <1>6, <1>8, <1>9, <1>10, <1>11 DEF OperatorsInv

LEMMA OpLeaves == ASSUME OperatorsInv, Operators!Leave PROVE OperatorsInv'
<1>1. OpTypes /\ OpStage /\ AnswersInv /\ ChunkInv /\ TakeInv
  BY DEF OperatorsInv
<1>2. /\ stage = "yield" /\ out' = Append(out, Head(pending)) /\ pending' = Tail(pending)
      /\ stage' = "left"
      /\ source' = IF source = "open" THEN "returned" ELSE source
      /\ UNCHANGED <<op, input, next, index, acc, chunk, fate>>
  BY DEF Operators!Leave, Operators!callbackVars
<1>3. out \in Seq(OpResults) /\ pending \in Seq(OpResults) /\ pending # <<>>
  BY <1>1, <1>2 DEF OpTypes, OpStage
<1>4. /\ Operators!Given' = Operators!Given
      /\ out' \in Seq(OpResults) /\ pending' \in Seq(OpResults)
  BY <1>2, <1>3, HeadMoves DEF Operators!Given
<1>5. OpTypes'
  BY <1>1, <1>2, <1>4 DEF OpTypes
<1>6. Heads' = "left"
  BY <1>2 DEF Heads
<1>7. OpStage'
  BY <1>1, <1>2, <1>6 DEF OpStage
<1>8. AnswersInv'
  BY <1>1, <1>2, <1>4, AnswersKept
<1>9. ChunkInv'
  BY <1>1, <1>2, <1>4, <1>6, ChunkKept
<1>10. TakeInv'
  BY <1>1, <1>2, <1>4, <1>6, TakeKept
<1> QED  BY <1>5, <1>7, <1>8, <1>9, <1>10 DEF OperatorsInv

LEMMA OpExits == ASSUME OperatorsInv, Operators!Exit PROVE OperatorsInv'
<1>1. OpTypes /\ OpStage /\ AnswersInv /\ ChunkInv /\ TakeInv
  BY DEF OperatorsInv
<1>2. /\ stage \in {"return", "throw"} /\ source' = "returned"
      /\ stage' = IF stage = "return" THEN "done" ELSE "threw"
      /\ UNCHANGED <<op, input, pending, next, index, acc, chunk, out, fate>>
  BY DEF Operators!Exit, Operators!callbackVars
<1>3. Heads = stage /\ Heads' = stage' /\ Heads' \in {"done", "threw"} /\ source = "open"
      /\ Operators!Given' = Operators!Given
  BY <1>1, <1>2 DEF Heads, OpStage, Operators!Given
<1>4. OpTypes'
  BY <1>1, <1>2 DEF OpTypes
<1>5. OpStage'
  BY <1>1, <1>2, <1>3 DEF OpStage
<1>6. AnswersInv'
  BY <1>1, <1>2, <1>3, AnswersKept
<1>7. ChunkInv'
  <2>1. op # "chunks"
    BY <1>1, <1>2, <1>3 DEF ChunkInv
  <2> QED  BY <1>1, <1>2, <1>3, <2>1, ChunkKept
<1>8. TakeInv'
  <2>1. Heads' = "done" => Heads = "return"
    BY <1>2, <1>3
  <2> QED  BY <1>1, <1>2, <1>3, <2>1, TakeKept
<1> QED  BY <1>4, <1>5, <1>6, <1>7, <1>8 DEF OperatorsInv

-----------------------------------------------------------------------------
(* The outputs of a chunk. *)

LEMMA RunType ==
    ASSUME NEW a \in Nat, NEW b \in Nat
    PROVE  /\ Operators!Run(a + 1, b) \in Seq(Nat)
           /\ a <= b => Len(Operators!Run(a + 1, b)) = b - a
           /\ \A k \in DOMAIN Operators!Run(a + 1, b) : Operators!Run(a + 1, b)[k] \in a + 1 .. b
           /\ a < b => /\ Operators!Run(a + 1, b)[b - a] = b
                       /\ \A x : x.of = Operators!Run(a + 1, b) => Operators!Origin(x) = b
<1> DEFINE s == Operators!Run(a + 1, b)
<1>1. s = [k \in 1 .. b - a |-> a + k]
  BY DEF Operators!Run
<1>2. CASE a <= b
  <2>1. b - a \in Nat /\ s \in [1 .. b - a -> Nat]
    BY <1>1, <1>2
  <2>2. s \in Seq(Nat) /\ Len(s) = b - a
    BY <2>1
  <2>3. a < b => s[b - a] = b
    BY <1>1
  <2>4. a < b => \A x : x.of = s => Operators!Origin(x) = b
    BY <2>2, <2>3 DEF Operators!Origin, Operators!Last
  <2> QED  BY <1>1, <2>2, <2>3, <2>4
<1>3. CASE ~(a <= b)
  <2>1. s = <<>>
    BY <1>1, <1>3
  <2>2. s \in Seq(Nat) /\ \A k : k \notin DOMAIN s
    <3>4. <<>> \in Seq(Nat)
      OBVIOUS
    <3>1. s \in Seq(Nat)
      BY <2>1, <3>4, Zenon
    <3>2. DOMAIN s = 1 .. b - a
      BY <1>1
    <3>3. \A k : k \notin 1 .. b - a
      BY <1>3
    <3> QED  BY <3>1, <3>2, <3>3
  <2>3. ~(a <= b) /\ ~(a < b)
    BY <1>3
  <2> HIDE DEF s
  <2>4. /\ s \in Seq(Nat) /\ (a <= b => Len(s) = b - a)
        /\ \A k \in DOMAIN s : s[k] \in a + 1 .. b
        /\ a < b => s[b - a] = b /\ \A x : x.of = s => Operators!Origin(x) = b
    BY <2>2, <2>3
  <2> QED  BY <2>4 DEF s
<1> QED  BY <1>2, <1>3

LEMMA RunLength ==
    ASSUME NEW a \in Nat, NEW b \in Nat, a <= b
    PROVE  Operators!Run(a + 1, b) \in Seq(Nat) /\ Len(Operators!Run(a + 1, b)) = b - a
BY RunType

\* The next number at the end of a run.
LEMMA RunAppend ==
    ASSUME NEW a \in Nat, NEW b \in Nat, a <= b
    PROVE  Operators!Run(a + 1, b) \o <<b + 1>> = Operators!Run(a + 1, b + 1)
<1> DEFINE s == Operators!Run(a + 1, b)
           t == Operators!Run(a + 1, b + 1)
           u == s \o <<b + 1>>
<1>1. s \in Seq(Nat) /\ Len(s) = b - a /\ t \in Seq(Nat) /\ Len(t) = b - a + 1
  <2>1. s \in Seq(Nat) /\ Len(s) = b - a
    BY RunLength
  <2>2. b + 1 \in Nat /\ a <= b + 1
    OBVIOUS
  <2>3. t \in Seq(Nat) /\ Len(t) = (b + 1) - a
    BY <2>2, RunLength
  <2>4. (b + 1) - a = b - a + 1
    OBVIOUS
  <2> QED  BY <2>1, <2>3, <2>4
<1>2. s \o <<b + 1>> \in Seq(Nat) /\ Len(s \o <<b + 1>>) = b - a + 1
  <2> HIDE DEF s
  <2>1. b + 1 \in Nat
    OBVIOUS
  <2>2. s \o <<b + 1>> = Append(s, b + 1)
    BY <1>1, <2>1, ConcatOfOne
  <2>3. Append(s, b + 1) \in Seq(Nat) /\ Len(Append(s, b + 1)) = Len(s) + 1
    BY <1>1, <2>1, AppendProperties
  <2> QED  BY <1>1, <2>2, <2>3
<1>3. ASSUME NEW k \in 1 .. b - a + 1 PROVE (s \o <<b + 1>>)[k] = t[k]
  <2>1. k \in 1 .. b - a \/ k = b - a + 1
    OBVIOUS
  <2>2. CASE k \in 1 .. b - a
    <3>1. (s \o <<b + 1>>)[k] = s[k]
      BY <1>1, <2>2
    <3>2. s[k] = a + k /\ t[k] = a + k
      BY <2>2 DEF Operators!Run
    <3> QED  BY <3>1, <3>2
  <2>3. CASE k = b - a + 1
    <3>1. (s \o <<b + 1>>)[k] = b + 1
      BY <1>1, <2>3
    <3>2. t[k] = b + 1
      BY <2>3 DEF Operators!Run
    <3> QED  BY <3>1, <3>2
  <2> QED  BY <2>1, <2>2, <2>3
<1> HIDE DEF s, t, u
<1>4. u \in Seq(Nat) /\ t \in Seq(Nat) /\ Len(u) = Len(t) /\ Len(t) = b - a + 1
  BY <1>1, <1>2 DEF u
<1>5. \A k \in 1..Len(u) : u[k] = t[k]
  BY <1>3, <1>4 DEF u
<1>6. u = t
  BY <1>4, <1>5, SeqEqual
<1> QED  BY <1>6 DEF s, t, u

\* Output x holds the items after a and up to b.
Holds(x, r, a, b, src) ==
    /\ x \in OpResults /\ a \in Nat /\ b \in Nat /\ a < b
    /\ x.of = Operators!Run(a + 1, b)
    /\ \A k \in DOMAIN x.of : r[x.of[k]].type = x.type
    /\ x.type = "error" => Len(x.of) = 1
    /\ x.type = "success" => Len(x.of) = ChunkSize \/ src = "ended"

\* One output more: a chunk that is not full must be the last, and an output that follows a
\* short chunk must be an error.
LEMMA WholeAppend ==
    ASSUME NEW g \in Seq(OpResults), NEW x, NEW r, NEW a, NEW b \in Nat,
           NEW m \in Nat, m <= b, NEW src, NEW later,
           Whole(g, r, m, src), a = Before(g, Len(g) + 1), Holds(x, r, a, b, later),
           src = "ended" => x.type = "error"
    PROVE  Whole(Append(g, x), r, b, later) /\ Before(Append(g, x), Len(Append(g, x)) + 1) = b
<1> DEFINE h == Append(g, x)
<1>0. /\ x \in OpResults /\ a \in Nat /\ a < b
      /\ x.of = Operators!Run(a + 1, b)
      /\ \A k \in DOMAIN x.of : r[x.of[k]].type = x.type
      /\ x.type = "error" => Len(x.of) = 1
      /\ x.type = "success" => Len(x.of) = ChunkSize \/ later = "ended"
  BY DEF Holds
<1>1. /\ Len(g) \in Nat /\ Len(h) = Len(g) + 1 /\ h \in Seq(OpResults)
      /\ \A i \in 1..Len(g) : h[i] = g[i]
      /\ h[Len(g) + 1] = x
  BY <1>0
<1>2. Operators!Origin(x) = b
  BY <1>0, RunType
<1> HIDE DEF h
<1>3. Before(h, Len(h) + 1) = b
  BY <1>1, <1>2 DEF Before
<1>4. ASSUME NEW i \in 1..Len(h) PROVE Before(h, i) = Before(g, i)
  <2>1. i = 1 \/ i - 1 \in 1..Len(g)
    BY <1>1
  <2> QED  BY <1>1, <2>1 DEF Before
<1>5. ASSUME NEW i \in 1..Len(h)
      PROVE  /\ Operators!Origin(h[i]) \in 1..b
             /\ h[i].of = Operators!Run(Before(h, i) + 1, Operators!Origin(h[i]))
             /\ \A k \in DOMAIN h[i].of : r[h[i].of[k]].type = h[i].type
             /\ h[i].type = "error" => Len(h[i].of) = 1
             /\ h[i].type = "success" => \/ Len(h[i].of) = ChunkSize
                                         \/ i < Len(h) /\ h[i + 1].type = "error"
                                         \/ i = Len(h) /\ later = "ended"
  <2>1. i \in 1..Len(g) \/ i = Len(g) + 1
    BY <1>1
  <2>2. CASE i \in 1..Len(g)
    <3>1. /\ Operators!Origin(g[i]) \in 1..m
          /\ g[i].of = Operators!Run(Before(g, i) + 1, Operators!Origin(g[i]))
          /\ \A k \in DOMAIN g[i].of : r[g[i].of[k]].type = g[i].type
          /\ g[i].type = "error" => Len(g[i].of) = 1
          /\ g[i].type = "success" => \/ Len(g[i].of) = ChunkSize
                                      \/ i < Len(g) /\ g[i + 1].type = "error"
                                      \/ i = Len(g) /\ src = "ended"
      BY <2>2 DEF Whole
    <3>2. h[i] = g[i] /\ Before(h, i) = Before(g, i) /\ i < Len(h)
      BY <1>1, <1>4, <2>2
    <3>3. i < Len(g) /\ g[i + 1].type = "error" => h[i + 1].type = "error"
      BY <1>1, <2>2
    <3>4. i = Len(g) /\ src = "ended" => h[i + 1].type = "error"
      BY <1>1
    <3> QED  BY <3>1, <3>2, <3>3, <3>4
  <2>3. CASE i = Len(g) + 1
    <3>1. h[i] = x /\ Before(h, i) = a /\ i = Len(h)
      BY <1>1, <1>4, <2>3
    <3> QED  BY <1>0, <1>2, <3>1
  <2> QED  BY <2>1, <2>2, <2>3
<1>6. Whole(h, r, b, later)
  BY <1>5 DEF Whole
<1> QED  BY <1>3, <1>6 DEF h

LEMMA WholeLater ==
    ASSUME NEW g, NEW r, NEW a \in Nat, NEW b \in Nat, a <= b, NEW src, Whole(g, r, a, src)
    PROVE  Whole(g, r, b, src)
<1>1. \A i : i \in 1..a => i \in 1..b
  OBVIOUS
<1> QED  BY <1>1 DEF Whole

\* What the invariant says of chunks(), with a the last item given out.
LEMMA ChunkPlace ==
    ASSUME OpTypes, ChunkInv, op = "chunks"
    PROVE  LET g == Operators!Given
               a == Before(g, Len(g) + 1)
               m == Len(fate)
           IN  /\ g \in Seq(OpResults) /\ m \in Nat /\ a \in 0..m
               /\ Whole(g, input, m, source)
               /\ chunk = Operators!Run(a + 1, m) /\ Len(chunk) = m - a /\ chunk \in Seq(Nat)
               /\ \A k \in DOMAIN chunk : input[chunk[k]].type = "success"
               /\ Len(chunk) < ChunkSize
<1> DEFINE g == Operators!Given
           a == Before(g, Len(g) + 1)
           m == Len(fate)
<1>1. g \in Seq(OpResults) /\ m \in Nat /\ Len(g) \in Nat
  BY OpGivenType DEF OpTypes
<1>2. /\ Whole(g, input, m, source)
      /\ chunk = Operators!Run(a + 1, m)
      /\ \A k \in DOMAIN chunk : input[chunk[k]].type = "success"
      /\ Len(chunk) < ChunkSize
  BY DEF ChunkInv
<1> HIDE DEF g, m
<1>3. a \in 0..m
  <2>1. CASE Len(g) = 0
    BY <1>1, <2>1 DEF Before
  <2>2. CASE Len(g) # 0
    <3>1. Len(g) \in 1..Len(g) /\ Len(g) + 1 # 1 /\ Len(g) + 1 - 1 = Len(g)
      BY <1>1, <2>2
    <3>2. Operators!Origin(g[Len(g)]) \in 1..m
      BY <1>2, <3>1 DEF Whole
    <3> QED  BY <1>1, <3>1, <3>2 DEF Before
  <2> QED  BY <2>1, <2>2
<1> HIDE DEF a
<1>4. Len(chunk) = m - a /\ chunk \in Seq(Nat)
  <2>1. a \in Nat /\ a <= m
    BY <1>1, <1>3
  <2> QED  BY <1>1, <1>2, <2>1, RunType
<1> QED  BY <1>1, <1>2, <1>3, <1>4 DEF g, a, m

\* The invariant of chunks(), from the same about what it has given out after a step.
LEMMA ChunkInvFrom ==
    ASSUME op' = "chunks", NEW a, Before(Operators!Given', Len(Operators!Given') + 1) = a,
           Whole(Operators!Given', input', Len(fate'), source'),
           chunk' = Operators!Run(a + 1, Len(fate')),
           \A k \in DOMAIN chunk' : input'[chunk'[k]].type = "success",
           Len(chunk') < ChunkSize, Heads' \notin {"return", "throw"},
           Heads' = "done" => chunk' = <<>>
    PROVE  ChunkInv'
BY DEF ChunkInv

LEMMA EmptyRun ==
    ASSUME NEW b \in Nat
    PROVE  /\ Operators!Run(b + 1, b) = <<>> /\ Len(<<>>) = 0 /\ \A k : k \notin DOMAIN <<>>
           /\ 0 < ChunkSize
<1>1. Operators!Run(b + 1, b) = [k \in 1 .. b - b |-> b + k]
  BY DEF Operators!Run
<1>2. b - b = 0 /\ 1..0 = {}
  BY SMT
<1>3. Operators!Run(b + 1, b) = <<>>
  BY <1>1, <1>2
<1>4. 0 < ChunkSize /\ Len(<<>>) = 0
  BY OperatorsAssumption
<1>5. DOMAIN <<>> = {}
  OBVIOUS
<1> QED  BY <1>3, <1>4, <1>5

LEMMA OpSourceEnds == ASSUME OperatorsInv, Operators!SourceEnds PROVE OperatorsInv'
<1>1. OpTypes /\ OpStage /\ AnswersInv /\ ChunkInv /\ TakeInv
  BY DEF OperatorsInv
<1>2. /\ stage = "pull" /\ source' = "ended" /\ chunk' = <<>>
      /\ UNCHANGED <<op, input, index, acc, out, fate>>
      /\ next' \in {"done", "threw"}
      /\ pending' = IF op = "chunks" /\ chunk # <<>> THEN <<Operators!Success(chunk)>> ELSE <<>>
      /\ stage' = IF pending' = <<>> THEN next' ELSE "yield"
  BY DEF Operators!SourceEnds, Operators!Yields, Operators!FlushChunk
<1>3. pending = <<>> /\ source = "open" /\ Heads = "pull"
  BY <1>1, <1>2 DEF OpStage, Heads
<1>4. chunk \in Seq(Nat) /\ Operators!Success(chunk) \in OpResults
      /\ Operators!Success(chunk).of = chunk /\ Operators!Success(chunk).type = "success"
  BY <1>1 DEF OpTypes, Operators!Success, OpResults
<1>5. <<Operators!Success(chunk)>> \in Seq(OpResults) /\ <<Operators!Success(chunk)>> # <<>>
  BY <1>4
<1>6. OpTypes'
  BY <1>1, <1>2, <1>5 DEF OpTypes
<1>7. Heads' = next' /\ (stage' = "yield" <=> pending' # <<>>) /\ stage' \notin {"none", "held", "left"}
  BY <1>2 DEF Heads
<1>8. OpStage'
  BY <1>1, <1>2, <1>3, <1>7 DEF OpStage
<1>9. CASE op # "chunks" \/ chunk = <<>>
  <2>1. Operators!Given' = Operators!Given
    BY <1>2, <1>3, <1>9 DEF Operators!Given
  <2>2. chunk' = chunk
    BY <1>1, <1>2, <1>9 DEF ChunkInv
  <2>3. AnswersInv'
    BY <1>1, <1>2, <2>1, AnswersKept
  <2>4. ChunkInv'
    BY <1>1, <1>2, <1>3, <1>7, <2>1, <2>2, ChunkKept
  <2>5. TakeInv'
    BY <1>1, <1>2, <1>3, <1>7, <2>1, TakeKept
  <2> QED  BY <1>6, <1>8, <2>3, <2>4, <2>5 DEF OperatorsInv
<1>10. CASE op = "chunks" /\ chunk # <<>>
  <2> DEFINE g == Operators!Given
             a == Before(g, Len(g) + 1)
             m == Len(fate)
             x == Operators!Success(chunk)
  <2>1. /\ g \in Seq(OpResults) /\ m \in Nat /\ a \in 0..m
        /\ Whole(g, input, m, source)
        /\ chunk = Operators!Run(a + 1, m) /\ Len(chunk) = m - a
        /\ \A k \in DOMAIN chunk : input[chunk[k]].type = "success"
    BY <1>1, <1>10, ChunkPlace
  <2>2. Operators!Given' = Append(g, x)
    <3>1. Operators!Given' = out \o <<x>> /\ g = out \o <<>>
      BY <1>2, <1>3, <1>10 DEF Operators!Given
    <3>2. out \in Seq(OpResults)
      BY <1>1 DEF OpTypes
    <3> HIDE DEF x, g
    <3>3. out \o <<>> = out /\ out \o <<x>> = Append(out, x)
      BY <1>4, <3>2 DEF x
    <3> QED  BY <3>1, <3>3
  <2>3. a < m /\ a \in Nat
    <3>1. Len(chunk) # 0
      BY <1>4, <1>10
    <3> QED  BY <2>1, <3>1
  <2>4. x \in OpResults /\ x.of = chunk /\ x.type = "success"
    BY <1>4
  <2>5. Whole(g, input, m, "open")
    BY <1>3, <2>1
  <2> HIDE DEF g, a, m, x
  <2>6. Whole(Append(g, x), input, m, "ended") /\ Before(Append(g, x), Len(Append(g, x)) + 1) = m
    <3>1. \A k \in DOMAIN x.of : input[x.of[k]].type = x.type
      BY <2>1, <2>4
    <3>2. Holds(x, input, a, m, "ended")
      BY <2>1, <2>3, <2>4, <3>1 DEF Holds
    <3>3. a = Before(g, Len(g) + 1) /\ m <= m /\ ("open" = "ended" => x.type = "error")
      BY <2>1 DEF a
    <3> QED  BY <2>1, <2>5, <3>2, <3>3, WholeAppend
  <2>7. ChunkInv'
    <3>1. fate' = fate /\ input' = input /\ Len(fate') = m /\ op' = "chunks" /\ source' = "ended"
      BY <1>2, <1>10 DEF m
    <3>2. Whole(Operators!Given', input', Len(fate'), source')
      BY <2>2, <2>6, <3>1
    <3>3. Before(Operators!Given', Len(Operators!Given') + 1) = m
      BY <2>2, <2>6
    <3>4. chunk' = Operators!Run(m + 1, Len(fate')) /\ Len(chunk') < ChunkSize
          /\ \A k \in DOMAIN chunk' : input'[chunk'[k]].type = "success"
      BY <1>2, <2>1, <3>1, EmptyRun
    <3> QED  BY <1>2, <1>7, <3>1, <3>2, <3>3, <3>4, ChunkInvFrom
  <2>8. AnswersInv' /\ TakeInv'
    BY <1>2, <1>10 DEF AnswersInv, TakeInv, Operators!OneForOne, Accumulating
  <2> QED  BY <1>6, <1>8, <2>7, <2>8 DEF OperatorsInv
<1> QED  BY <1>9, <1>10

-----------------------------------------------------------------------------
(* A result is looked at. *)

LEMMA HandleBase ==
    ASSUME OpTypes, OpStage, Operators!Handle, NEW f, Shape(f)
    PROVE  /\ UNCHANGED <<op, input, source, out>> /\ stage = "held"
           /\ Operators!Given \in Seq(OpResults) /\ Operators!Given' = Operators!Given \o pending'
           /\ fate \in Seq(OpFates) /\ fate' \in Seq(OpFates)
           /\ Len(fate) \in Nat /\ Len(input) = Len(fate) + 1 /\ Len(fate') = Len(fate) + 1
           /\ \A n \in 1..Len(fate) : fate'[n] = fate[n]
           /\ fate'[Len(fate) + 1] = f
           /\ Heads = "pull" /\ Heads' = next' /\ source = "open"
           /\ OpStage'
<1>1. UNCHANGED <<op, input, source, out>> /\ stage = "held"
  BY DEF Operators!Handle
<1>2. /\ f \in OpFates /\ fate' = Append(fate, f)
      /\ pending' \in Seq(OpResults)
      /\ next' \in {"pull", "return", "throw"}
      /\ stage' = IF pending' = <<>> THEN next' ELSE "yield"
  BY DEF Shape
<1>3. pending = <<>> /\ Heads = "pull" /\ source = "open" /\ op # "none" /\ Len(fate) = Len(input) - 1
  BY <1>1 DEF OpStage, Heads
<1>4. fate \in Seq(OpFates) /\ Len(fate) \in Nat /\ Len(input) \in Nat
  BY DEF OpTypes
<1>5. fate' \in Seq(OpFates) /\ Len(fate') = Len(fate) + 1 /\ fate'[Len(fate) + 1] = f
      /\ \A n \in 1..Len(fate) : fate'[n] = fate[n]
  BY <1>2, <1>4
<1>6. Heads' = next' /\ (stage' = "yield" <=> pending' # <<>>) /\ stage' \notin {"none", "held", "left"}
  BY <1>2 DEF Heads
<1>7. OpStage'
  <2>1. Len(fate') = Len(input')
    BY <1>1, <1>3, <1>4, <1>5
  <2> QED  BY <1>1, <1>2, <1>3, <1>6, <2>1 DEF OpStage
<1>8. Operators!Given \in Seq(OpResults) /\ Operators!Given' = Operators!Given \o pending'
  <2>1. out \in Seq(OpResults) /\ out' = out
    BY <1>1 DEF OpTypes
  <2>2. Operators!Given = out
    BY <1>3, <2>1 DEF Operators!Given
  <2> QED  BY <2>1, <2>2 DEF Operators!Given
<1> QED  BY <1>1, <1>3, <1>4, <1>5, <1>6, <1>7, <1>8

LEMMA HandleTypes ==
    ASSUME OpTypes, OpStage, Operators!Handle, NEW f, Shape(f), chunk' \in Seq(Nat)
    PROVE  OpTypes'
<1>1. /\ UNCHANGED <<op, input, source, out>>
      /\ fate' \in Seq(OpFates) /\ Len(fate') = Len(fate) + 1 /\ Len(fate) \in Nat
  BY HandleBase
<1>2. /\ pending' \in Seq(OpResults)
      /\ next' \in {"pull", "return", "throw"}
      /\ stage' = IF pending' = <<>> THEN next' ELSE "yield"
      /\ index' \in {index, index + 1} /\ acc' \in Seq(Nat)
  BY DEF Shape
<1>3. index \in Nat /\ index <= Len(fate)
  BY DEF OpTypes
<1>4. index' \in Nat /\ index' <= Len(fate')
  BY <1>1, <1>2, <1>3
<1> QED  BY <1>1, <1>2, <1>4 DEF OpTypes

LEMMA OneIsAppended ==
    ASSUME NEW S, NEW s \in Seq(S), NEW t \in Seq(S), Len(t) = 1
    PROVE  s \o t = Append(s, t[1]) /\ t[1] \in S
<1> DEFINE u == s \o t
           v == Append(s, t[1])
<1>1. t[1] \in S /\ Len(s) \in Nat
  <2>1. t \in [1..1 -> S] /\ Len(s) \in Nat
    BY LenProperties
  <2> QED  BY <2>1
<1>2. /\ u \in Seq(S) /\ v \in Seq(S) /\ Len(u) = Len(s) + 1 /\ Len(v) = Len(s) + 1
      /\ \A i \in 1..Len(s) : u[i] = s[i] /\ v[i] = s[i]
      /\ u[Len(s) + 1] = t[1] /\ v[Len(s) + 1] = t[1]
  <2>1. u \in Seq(S) /\ Len(u) = Len(s) + Len(t)
    BY ConcatProperties
  <2>2. /\ v \in Seq(S) /\ Len(v) = Len(s) + 1 /\ v[Len(s) + 1] = t[1] /\ \A i \in 1..Len(s) : v[i] = s[i]
    BY <1>1, AppendProperties
  <2>3. \A i \in 1 .. Len(s) + Len(t) : u[i] = IF i <= Len(s) THEN s[i] ELSE t[i - Len(s)]
    BY ConcatProperties
  <2>4. Len(s) + 1 \in 1 .. Len(s) + Len(t) /\ Len(s) + 1 - Len(s) = 1 /\ ~(Len(s) + 1 <= Len(s))
        /\ \A i \in 1..Len(s) : i \in 1 .. Len(s) + Len(t) /\ i <= Len(s)
    BY <1>1
  <2> HIDE DEF u, v
  <2> QED  BY <2>1, <2>2, <2>3, <2>4
<1> HIDE DEF u, v
<1>3. ASSUME NEW i \in 1..Len(s) + 1 PROVE u[i] = v[i]
  <2>1. i \in 1..Len(s) \/ i = Len(s) + 1
    BY <1>1
  <2>2. CASE i \in 1..Len(s)
    BY <1>2, <2>2
  <2>3. CASE i = Len(s) + 1
    <3>1. u[Len(s) + 1] = v[Len(s) + 1]
      BY <1>2
    <3> QED  BY <2>3, <3>1, Zenon
  <2> QED  BY <2>1, <2>2, <2>3
<1>4. u = v
  BY <1>2, <1>3, SeqEqual
<1> QED  BY <1>1, <1>4 DEF u, v

\* The accumulator, and what the callbacks that settled well were given.
LEMMA HandleTaken ==
    ASSUME OpTypes, OpStage, AnswersInv, Operators!Handle, NEW f, Shape(f), op \in Accumulating
    PROVE  Operators!Lists(acc', TakenIn(fate', Len(input)))
<1> DEFINE m == Len(fate)
<1>1. /\ m \in Nat /\ Len(input) = m + 1 /\ fate'[m + 1] = f
      /\ \A n \in 1..m : fate'[n] = fate[n]
  BY HandleBase
<1>2. acc' = (IF f = "ok" THEN acc \o <<Len(input)>> ELSE acc) /\ acc \in Seq(Nat)
  BY DEF Shape, OpTypes
<1>3. Operators!Lists(acc, TakenIn(fate, m))
  BY DEF AnswersInv
<1> HIDE DEF m
<1>4. TakenIn(fate', m + 1) = IF f = "ok" THEN TakenIn(fate, m) \cup {m + 1} ELSE TakenIn(fate, m)
  <2>1. \A n : n \in 1..m + 1 <=> n \in 1..m \/ n = m + 1
    BY <1>1
  <2>2. \A n : n \in TakenIn(fate', m + 1) <=> n \in 1..m + 1 /\ fate'[n] = "ok"
    BY DEF TakenIn
  <2>3. \A n : n \in TakenIn(fate, m) <=> n \in 1..m /\ fate[n] = "ok"
    BY DEF TakenIn
  <2>4. \A n : n \in TakenIn(fate', m + 1) <=> n \in TakenIn(fate, m) \/ (n = m + 1 /\ f = "ok")
    BY <1>1, <2>1, <2>2, <2>3
  <2> QED  BY <2>4
<1>5. CASE f = "ok"
  <2>1. acc \o <<m + 1>> = Append(acc, m + 1)
    BY <1>1, <1>2, ConcatOfOne
  <2>2. TakenIn(fate, m) \in SUBSET Nat /\ \A n \in TakenIn(fate, m) : n < m + 1
    BY <1>1 DEF TakenIn
  <2>3. Operators!Lists(Append(acc, m + 1), TakenIn(fate, m) \cup {m + 1})
    <3>1. m + 1 \in Nat /\ acc \in Seq(Nat)
      BY <1>1, <1>2
    <3> QED  BY <1>3, <2>2, <3>1, ListsAppend
  <2> QED  BY <1>1, <1>2, <1>4, <1>5, <2>1, <2>3
<1>6. CASE f # "ok"
  BY <1>1, <1>2, <1>3, <1>4, <1>6
<1> QED  BY <1>5, <1>6

LEMMA HandleAnswers ==
    ASSUME OpTypes, OpStage, AnswersInv, Operators!Handle, NEW f, Shape(f)
    PROVE  AnswersInv'
<1> DEFINE m == Len(fate)
           g == Operators!Given
           old == AnsweredIn(op, fate)
<1>1. /\ op' = op /\ input' = input
      /\ g \in Seq(OpResults) /\ Operators!Given' = g \o pending'
      /\ fate \in Seq(OpFates) /\ fate' \in Seq(OpFates)
      /\ m \in Nat /\ Len(input) = m + 1 /\ Len(fate') = m + 1
      /\ \A n \in 1..m : fate'[n] = fate[n]
      /\ fate'[m + 1] = f
  BY HandleBase
<1>2. op \in Accumulating => Operators!Lists(acc', TakenIn(fate', m + 1))
  BY <1>1, HandleTaken
<1>3. CASE op \notin Operators!OneForOne
  BY <1>1, <1>2, <1>3 DEF AnswersInv
<1>4. CASE op \in Operators!OneForOne
  <2>1. OneAnswer(f) /\ pending' \in Seq(OpResults)
    BY <1>4 DEF Shape
  <2>2. AnswersIn(g, op, fate, input)
    BY <1>4 DEF AnswersInv
  <2> DEFINE counts == f # "no" /\ ~(f = "threw" /\ op \in Operators!Rethrowing)
  <2>3. DOMAIN fate = 1..m /\ DOMAIN fate' = 1..m + 1
    BY <1>1
  <2> HIDE DEF m, g
  <2>4. \A i \in DOMAIN g : /\ Operators!Origin(g[i]) \in 1..m
                            /\ AnswerIn(g[i], Operators!Origin(g[i]), op, fate', input)
    BY <1>1, <2>2, <2>3, AnswersLater
  <2>5. old \subseteq 1..m
    BY <2>3 DEF AnsweredIn
  <2>6. AnsweredIn(op, fate') = IF counts THEN old \cup {m + 1} ELSE old
    <3>1. \A n : n \in 1..m + 1 <=> n \in 1..m \/ n = m + 1
      BY <1>1
    <3>2. \A n : n \in AnsweredIn(op, fate')
                   <=> n \in 1..m + 1 /\ fate'[n] # "no" /\ ~(fate'[n] = "threw" /\ op \in Operators!Rethrowing)
      BY <2>3 DEF AnsweredIn
    <3>3. \A n : n \in old <=> n \in 1..m /\ fate[n] # "no" /\ ~(fate[n] = "threw" /\ op \in Operators!Rethrowing)
      BY <2>3 DEF AnsweredIn
    <3>4. \A n : n \in AnsweredIn(op, fate') <=> n \in old \/ (n = m + 1 /\ counts)
      BY <1>1, <3>1, <3>2, <3>3
    <3> HIDE DEF counts, old
    <3> QED  BY <3>4
  <2>7. CASE pending' = <<>> /\ ~counts
    <3>1. Operators!Given' = g
      BY <1>1, <2>7
    <3>2. AnswersIn(g, op, fate', input)
      BY <2>2, <2>4, <2>6, <2>7 DEF AnswersIn
    <3> QED  BY <1>1, <1>2, <3>1, <3>2 DEF AnswersInv
  <2>8. CASE counts
    <3> DEFINE x == pending'[1]
               h == Append(g, x)
    <3>1. /\ Len(pending') = 1 /\ Operators!Origin(x) = m + 1
          /\ CASE op \in {"scan", "fold"} /\ f = "ok" -> x.type = "success" /\ x.of = acc'
               [] op \in {"scanErr", "foldErr"} /\ f = "ok" -> x.type = "error" /\ x.of = acc'
               [] op \in {"recover", "recoverWhen"} /\ f = "ok" -> x = Operators!Success(<<m + 1>>)
               [] f = "threw" -> x = Operators!Error(<<m + 1>>)
               [] OTHER -> x = input[m + 1]
      BY <1>1, <2>1, <2>8 DEF OneAnswer
    <3>2. Operators!Given' = h /\ x \in OpResults
      BY <1>1, <2>1, <3>1, OneIsAppended
    <3> HIDE DEF x
    <3>3. Operators!Lists(Origins(h), old \cup {m + 1})
      <4>1. Operators!Lists(Origins(g), old)
        BY <2>2 DEF AnswersIn
      <4>2. old \in SUBSET Nat /\ m + 1 \in Nat /\ \A n \in old : n < m + 1
        BY <1>1, <2>5
      <4> HIDE DEF old
      <4> QED  BY <1>1, <3>1, <3>2, <4>1, <4>2, OriginsAppend
    <3>4. AnswerIn(x, m + 1, op, fate', input)
      <4>1. fate'[m + 1] = f
        BY <1>1
      <4>2. op \in {"scan", "fold", "scanErr", "foldErr"} => Operators!Lists(acc', TakenIn(fate', m + 1))
        BY <1>2 DEF Accumulating
      <4> QED  BY <3>1, <4>1, <4>2 DEF AnswerIn
    <3>5. ASSUME NEW i \in DOMAIN h PROVE AnswerIn(h[i], Operators!Origin(h[i]), op, fate', input)
      <4>1. i \in DOMAIN g \/ i = Len(g) + 1
        BY <1>1, <3>2
      <4>2. (i \in DOMAIN g => h[i] = g[i]) /\ h[Len(g) + 1] = x
        BY <1>1, <3>2
      <4> QED  BY <2>4, <3>1, <3>4, <4>1, <4>2
    <3>6. AnswersIn(h, op, fate', input)
      BY <2>6, <2>8, <3>3, <3>5 DEF AnswersIn
    <3> QED  BY <1>1, <1>2, <3>2, <3>6 DEF AnswersInv
  <2> QED  BY <2>1, <2>7, <2>8 DEF OneAnswer
<1> QED  BY <1>3, <1>4

LEMMA HandleChunks ==
    ASSUME OpTypes, OpStage, ChunkInv, Operators!Handle, NEW f, Shape(f)
    PROVE  ChunkInv' /\ chunk' \in Seq(Nat)
<1> DEFINE m == Len(fate)
           g == Operators!Given
           a == Before(g, Len(g) + 1)
           r == input[m + 1]
<1>1. /\ op' = op /\ input' = input /\ stage = "held"
      /\ g \in Seq(OpResults) /\ Operators!Given' = g \o pending'
      /\ m \in Nat /\ Len(input) = m + 1 /\ Len(fate') = m + 1
      /\ Heads' = next' /\ source' = source /\ source = "open"
  BY HandleBase
<1>2. CASE op # "chunks"
  BY <1>1, <1>2 DEF Shape, ChunkInv, OpTypes
<1>3. CASE op = "chunks"
  <2>1. /\ a \in 0..m
        /\ Whole(g, input, m, "open")
        /\ chunk = Operators!Run(a + 1, m) /\ Len(chunk) = m - a /\ chunk \in Seq(Nat)
        /\ \A k \in DOMAIN chunk : input[chunk[k]].type = "success"
        /\ Len(chunk) < ChunkSize
    BY <1>1, <1>3, ChunkPlace
  <2>2. /\ r \in OpResults /\ r.of = <<m + 1>> /\ r.type \in {"success", "error"} /\ Operators!Held = r
    BY <1>1, HeldType
  <2>3. Operators!chunks
    BY <1>3 DEF Operators!Handle, Operators!sequentialMap, Operators!filter, Operators!tap,
       Operators!tapErr, Operators!take, Operators!takeWhile, Operators!scan, Operators!scanErr,
       Operators!mapErr, Operators!filterErr, Operators!recover, Operators!recoverWhen,
       Operators!throwOn, Operators!flatMap, Operators!concurrentFlatMap, Operators!fold,
       Operators!foldErr, Operators!collect, Operators!successes, Operators!errors
  <2>4. next' = "pull" /\ ChunkSize \in Nat \ {0} /\ a \in Nat /\ a <= m
    <3>1. next' = "pull"
      BY <2>3 DEF Operators!chunks, Operators!Emits, Operators!Yields
    <3>2. ChunkSize \in Nat \ {0}
      BY OperatorsAssumption
    <3> HIDE DEF a, m
    <3>3. a \in Nat /\ a <= m
      BY <1>1, <2>1
    <3> QED  BY <3>1, <3>2, <3>3
  <2> HIDE DEF g, a, m, r
  <2>5. chunk \o <<m + 1>> = Operators!Run(a + 1, m + 1) /\ chunk \o <<m + 1>> \in Seq(Nat)
        /\ Len(chunk \o <<m + 1>>) = m + 1 - a /\ m + 1 \in Nat
    <3>1. chunk \o <<m + 1>> = Operators!Run(a + 1, m + 1)
      <4>1. Operators!Run(a + 1, m) \o <<m + 1>> = Operators!Run(a + 1, m + 1)
        BY <1>1, <2>4, RunAppend
      <4> QED  BY <2>1, <4>1
    <3>2. m + 1 \in Nat /\ a <= m + 1
      BY <1>1, <2>4
    <3>3. Operators!Run(a + 1, m + 1) \in Seq(Nat) /\ Len(Operators!Run(a + 1, m + 1)) = m + 1 - a
      <4> DEFINE b == m + 1
      <4>1. a \in Nat /\ b \in Nat /\ a <= b
        BY <2>4, <3>2
      <4> HIDE DEF b
      <4>2. Operators!Run(a + 1, b) \in Seq(Nat) /\ Len(Operators!Run(a + 1, b)) = b - a
        BY <4>1, RunLength
      <4> QED  BY <1>1, <4>1, <4>2 DEF b
    <3> QED  BY <3>1, <3>2, <3>3
  <2>6. r.type = "success" => \A k \in DOMAIN (chunk \o <<m + 1>>) : input[(chunk \o <<m + 1>>)[k]].type = "success"
    <3>4. Len(chunk) \in Nat /\ m + 1 - a = Len(chunk) + 1
      BY <1>1, <2>1, <2>4
    <3>5. DOMAIN (chunk \o <<m + 1>>) = 1 .. Len(chunk) + 1
      <4>1. DOMAIN (chunk \o <<m + 1>>) = 1 .. Len(chunk \o <<m + 1>>)
        BY <2>5, LenProperties
      <4> QED  BY <2>5, <3>4, <4>1
    <3> SUFFICES ASSUME r.type = "success", NEW k \in 1 .. Len(chunk) + 1
                 PROVE  input[(chunk \o <<m + 1>>)[k]].type = "success"
      BY <3>5
    <3>1. k \in 1..Len(chunk) \/ k = Len(chunk) + 1
      BY <3>4
    <3>2. (k \in 1..Len(chunk) => (chunk \o <<m + 1>>)[k] = chunk[k])
          /\ (chunk \o <<m + 1>>)[Len(chunk) + 1] = m + 1
      BY <1>1, <2>1
    <3>3. k \in 1..Len(chunk) => k \in DOMAIN chunk
      BY <2>1
    <3> QED  BY <2>1, <3>1, <3>2, <3>3 DEF r
  <2>7. CASE r.type = "success" /\ Len(chunk) + 1 = ChunkSize
    <3> DEFINE x == Operators!Success(chunk \o <<m + 1>>)
    <3>1. pending' = <<x>> /\ chunk' = <<>>
      BY <2>2, <2>3, <2>7 DEF Operators!chunks, Operators!Emits, Operators!Yields
    <3>2. x \in OpResults /\ x.type = "success" /\ x.of = chunk \o <<m + 1>>
      BY <2>5 DEF Operators!Success, OpResults
    <3> HIDE DEF x
    <3>3. Holds(x, input, a, m + 1, "open")
      <4>1. Len(x.of) = ChunkSize
        BY <1>1, <2>1, <2>4, <2>5, <2>7, <3>2
      <4>2. a < m + 1
        BY <1>1, <2>4
      <4>3. \A k \in DOMAIN x.of : input[x.of[k]].type = x.type
        BY <2>6, <2>7, <3>2
      <4> QED  BY <2>4, <2>5, <3>2, <4>1, <4>2, <4>3 DEF Holds
    <3>4. Whole(Append(g, x), input, m + 1, "open") /\ Before(Append(g, x), Len(Append(g, x)) + 1) = m + 1
      <4>1. a = Before(g, Len(g) + 1) /\ m <= m + 1 /\ m + 1 \in Nat /\ ("open" = "ended" => x.type = "error")
        BY <1>1 DEF a
      <4> QED  BY <1>1, <2>1, <3>3, <4>1, WholeAppend
    <3>5. Operators!Given' = Append(g, x)
      BY <1>1, <3>1, <3>2, ConcatOfOne
    <3>6. chunk' = Operators!Run(m + 1 + 1, m + 1) /\ Len(chunk') < ChunkSize /\ chunk' \in Seq(Nat)
          /\ \A k \in DOMAIN chunk' : input'[chunk'[k]].type = "success"
      <4>1. \A k : k \notin DOMAIN <<>>
        BY <2>5, EmptyRun
      <4> QED  BY <2>5, <3>1, <4>1, EmptyRun
    <3>7. /\ op' = "chunks" /\ Heads' = "pull"
          /\ Before(Operators!Given', Len(Operators!Given') + 1) = m + 1
          /\ Whole(Operators!Given', input', Len(fate'), source')
          /\ chunk' = Operators!Run(m + 1 + 1, Len(fate'))
      BY <1>1, <1>3, <2>4, <3>4, <3>5, <3>6
    <3> QED  BY <3>6, <3>7, ChunkInvFrom
  <2>8. CASE r.type = "success" /\ Len(chunk) + 1 # ChunkSize
    <3>1. pending' = <<>> /\ chunk' = chunk \o <<m + 1>>
      BY <2>2, <2>3, <2>8 DEF Operators!chunks, Operators!Emits, Operators!Yields
    <3>2. Operators!Given' = g
      BY <1>1, <3>1
    <3>3. Whole(g, input, m + 1, "open")
      <4>1. m <= m + 1 /\ m + 1 \in Nat
        BY <1>1
      <4> QED  BY <1>1, <2>1, <4>1, WholeLater
    <3>4. Len(chunk') < ChunkSize
      BY <1>1, <2>1, <2>4, <2>5, <2>8, <3>1
    <3>5. chunk' \in Seq(Nat) /\ \A k \in DOMAIN chunk' : input'[chunk'[k]].type = "success"
      BY <1>1, <2>5, <2>6, <2>8, <3>1
    <3>6. /\ op' = "chunks" /\ Heads' = "pull"
          /\ Before(Operators!Given', Len(Operators!Given') + 1) = a
          /\ Whole(Operators!Given', input', Len(fate'), source')
          /\ chunk' = Operators!Run(a + 1, Len(fate'))
      <4>1. Before(g, Len(g) + 1) = a
        BY DEF a
      <4> QED  BY <1>1, <1>3, <2>4, <2>5, <3>1, <3>2, <3>3, <4>1
    <3> QED  BY <3>4, <3>5, <3>6, ChunkInvFrom
  <2>9. CASE r.type = "error"
    <3>1. pending' = Operators!FlushChunk \o <<r>> /\ chunk' = <<>>
      BY <2>2, <2>3, <2>9 DEF Operators!chunks, Operators!Emits, Operators!Yields
    <3>2. PICK h \in Seq(OpResults) : /\ Operators!Given' = Append(h, r)
                                      /\ Before(h, Len(h) + 1) = m
                                      /\ \E src : Whole(h, input, m, src)
      <4>1. CASE chunk = <<>>
        <5>1. Operators!FlushChunk = <<>> /\ <<>> \o <<r>> = <<r>>
          BY <2>2, <4>1 DEF Operators!FlushChunk
        <5>2. Operators!Given' = Append(g, r)
          BY <1>1, <2>2, <3>1, <5>1, ConcatOfOne
        <5>3. a = m
          BY <1>1, <2>1, <2>4, <4>1
        <5>4. Before(g, Len(g) + 1) = a
          BY DEF a
        <5> QED  BY <1>1, <2>1, <5>2, <5>3, <5>4
      <4>2. CASE chunk # <<>>
        <5> DEFINE x == Operators!Success(chunk)
        <5>1. x \in OpResults /\ x.type = "success" /\ x.of = chunk
          BY <2>1 DEF Operators!Success, OpResults
        <5>2. Operators!FlushChunk = <<x>>
          BY <4>2 DEF Operators!FlushChunk
        <5> HIDE DEF x
        <5>3. Operators!Given' = Append(Append(g, x), r) /\ Append(g, x) \in Seq(OpResults)
          <6>1. g \o (<<x>> \o <<r>>) = (g \o <<x>>) \o <<r>>
            BY <1>1, <2>2, <5>1
          <6>2. g \o <<x>> = Append(g, x) /\ Append(g, x) \in Seq(OpResults)
            BY <1>1, <5>1, ConcatOfOne
          <6>3. Append(g, x) \o <<r>> = Append(Append(g, x), r)
            BY <2>2, <6>2, ConcatOfOne
          <6> QED  BY <1>1, <3>1, <5>2, <6>1, <6>2, <6>3
        <5>4. Holds(x, input, a, m, "ended")
          <6>1. Len(chunk) # 0
            BY <2>1, <4>2
          <6>2. a < m
            BY <1>1, <2>1, <2>4, <6>1
          <6> QED  BY <1>1, <2>1, <2>4, <5>1, <6>2 DEF Holds
        <5>5. Whole(Append(g, x), input, m, "ended") /\ Before(Append(g, x), Len(Append(g, x)) + 1) = m
          <6>1. a = Before(g, Len(g) + 1) /\ m <= m /\ ("open" = "ended" => x.type = "error")
            BY <1>1 DEF a
          <6> QED  BY <1>1, <2>1, <5>4, <6>1, WholeAppend
        <5> QED  BY <5>3, <5>5
      <4> QED  BY <4>1, <4>2
    <3>3. Holds(r, input, m, m + 1, "open")
      <4>1. Operators!Run(m + 1, m + 1) = <<m + 1>>
        <5>1. Operators!Run(m + 1, m) = <<>>
          BY <1>1, EmptyRun
        <5>2. Operators!Run(m + 1, m) \o <<m + 1>> = Operators!Run(m + 1, m + 1)
          BY <1>1, RunAppend
        <5>3. <<>> \o <<m + 1>> = <<m + 1>>
          BY <1>1
        <5> QED  BY <5>1, <5>2, <5>3
      <4>2. \A k \in DOMAIN r.of : input[r.of[k]].type = r.type
        <5>1. \A k \in DOMAIN <<m + 1>> : <<m + 1>>[k] = m + 1
          OBVIOUS
        <5> QED  BY <2>2, <5>1 DEF r
      <4>3. Len(r.of) = 1 /\ m < m + 1
        BY <1>1, <2>2
      <4> QED  BY <1>1, <2>2, <2>5, <2>9, <4>1, <4>2, <4>3 DEF Holds
    <3>4. PICK src : Whole(h, input, m, src)
      BY <3>2
    <3>5. Whole(Append(h, r), input, m + 1, "open") /\ Before(Append(h, r), Len(Append(h, r)) + 1) = m + 1
      <4>1. m <= m + 1 /\ (src = "ended" => r.type = "error") /\ m = Before(h, Len(h) + 1)
        BY <1>1, <2>9, <3>2
      <4> QED  BY <1>1, <2>5, <3>3, <3>4, <4>1, WholeAppend
    <3>6. chunk' = Operators!Run(m + 1 + 1, m + 1) /\ Len(chunk') < ChunkSize /\ chunk' \in Seq(Nat)
          /\ \A k \in DOMAIN chunk' : input'[chunk'[k]].type = "success"
      <4>1. \A k : k \notin DOMAIN <<>>
        BY <2>5, EmptyRun
      <4> QED  BY <2>5, <3>1, <4>1, EmptyRun
    <3>7. /\ op' = "chunks" /\ Heads' = "pull"
          /\ Before(Operators!Given', Len(Operators!Given') + 1) = m + 1
          /\ Whole(Operators!Given', input', Len(fate'), source')
          /\ chunk' = Operators!Run(m + 1 + 1, Len(fate'))
      BY <1>1, <1>3, <2>4, <3>2, <3>5, <3>6
    <3> QED  BY <3>6, <3>7, ChunkInvFrom
  <2> QED  BY <2>2, <2>7, <2>8, <2>9
<1> QED  BY <1>2, <1>3

\* A value more makes the count one more.
LEMMA ValuesAppend ==
    ASSUME NEW s \in Seq(OpResults), NEW x \in OpResults
    PROVE  /\ Cardinality(Operators!Values(s)) \in Nat
           /\ Cardinality(Operators!Values(Append(s, x)))
                = IF x.type = "success" THEN Cardinality(Operators!Values(s)) + 1
                  ELSE Cardinality(Operators!Values(s))
<1> DEFINE t == Append(s, x)
           V == Operators!Values(s)
           W == Operators!Values(t)
<1>1. /\ Len(s) \in Nat /\ DOMAIN s = 1..Len(s) /\ DOMAIN t = 1..Len(s) + 1
      /\ t[Len(s) + 1] = x /\ \A i \in 1..Len(s) : t[i] = s[i]
  OBVIOUS
<1>2. \A i : i \in 1..Len(s) + 1 <=> i \in 1..Len(s) \/ i = Len(s) + 1
  BY <1>1
<1>3. Len(s) + 1 \notin 1..Len(s)
  BY <1>1
<1> HIDE DEF t
<1>4. V \subseteq 1..Len(s) /\ \A i : i \in W <=> i \in V \/ (i = Len(s) + 1 /\ x.type = "success")
  <2>1. \A i : i \in V <=> i \in 1..Len(s) /\ s[i].type = "success"
    BY <1>1 DEF Operators!Values
  <2>2. \A i : i \in W <=> i \in 1..Len(s) + 1 /\ t[i].type = "success"
    BY <1>1 DEF Operators!Values
  <2> HIDE DEF V, W
  <2> QED  BY <1>1, <1>2, <2>1, <2>2
<1> HIDE DEF V, W
<1>5. IsFiniteSet(V) /\ Cardinality(V) \in Nat
  <2>1. IsFiniteSet(1..Len(s))
    BY <1>1, FS_Interval
  <2>2. IsFiniteSet(V)
    BY <1>4, <2>1, FS_Subset
  <2> QED  BY <2>2, FS_CardinalityType
<1>6. Len(s) + 1 \notin V
  BY <1>3, <1>4
<1>7. CASE x.type = "success"
  <2>1. W = V \cup {Len(s) + 1}
    BY <1>4, <1>7
  <2> QED  BY <1>5, <1>6, <1>7, <2>1, FS_AddElement DEF V, W, t
<1>8. CASE x.type # "success"
  <2>1. W = V
    BY <1>4, <1>8
  <2> QED  BY <1>5, <1>8, <2>1 DEF V, W, t
<1> QED  BY <1>7, <1>8

LEMMA HandleTakes ==
    ASSUME OpTypes, OpStage, TakeInv, Operators!Handle, NEW f, Shape(f)
    PROVE  TakeInv'
<1> DEFINE m == Len(fate)
           g == Operators!Given
           r == input[m + 1]
<1>1. /\ op' = op /\ stage = "held"
      /\ g \in Seq(OpResults) /\ Operators!Given' = g \o pending'
      /\ m \in Nat /\ Len(input) = m + 1
      /\ Heads = "pull" /\ Heads' = next' /\ source' = source /\ source = "open"
  BY HandleBase
<1>2. CASE op # "take"
  BY <1>1, <1>2 DEF TakeInv
<1>3. CASE op = "take"
  <2>1. /\ Len(acc) = Cardinality(Operators!Values(g))
        /\ Len(acc) < Limit
    BY <1>1, <1>3 DEF TakeInv
  <2>2. /\ r \in OpResults /\ r.of = <<m + 1>> /\ Operators!Held = r
    BY <1>1, HeldType
  <2>3. Operators!take
    BY <1>3 DEF Operators!Handle, Operators!sequentialMap, Operators!filter, Operators!tap,
       Operators!tapErr, Operators!chunks, Operators!takeWhile, Operators!scan, Operators!scanErr,
       Operators!mapErr, Operators!filterErr, Operators!recover, Operators!recoverWhen,
       Operators!throwOn, Operators!flatMap, Operators!concurrentFlatMap, Operators!fold,
       Operators!foldErr, Operators!collect, Operators!successes, Operators!errors
  <2>4. /\ acc' = IF r.type = "success" THEN acc \o <<m + 1>> ELSE acc
        /\ pending' = <<r>>
        /\ next' = IF Len(acc') >= Limit THEN "return" ELSE "pull"
    BY <2>2, <2>3 DEF Operators!take, Operators!Yields
  <2> HIDE DEF g, m, r
  <2>5. Operators!Given' = Append(g, r)
    BY <1>1, <2>2, <2>4, ConcatOfOne
  <2>6. Len(acc') = Cardinality(Operators!Values(Operators!Given'))
        /\ Len(acc') \in {Len(acc), Len(acc) + 1} /\ Len(acc) \in Nat
    <3>1. acc \in Seq(Nat) /\ Len(acc) \in Nat
      BY DEF OpTypes
    <3>2. Len(acc \o <<m + 1>>) = Len(acc) + 1
      BY <1>1, <3>1
    <3> QED  BY <1>1, <2>1, <2>2, <2>4, <2>5, <3>1, <3>2, ValuesAppend
  <2>7. Limit \in Int /\ Operators!AtMost = Limit /\ Len(acc') <= Limit
    BY <2>1, <2>6, OperatorsAssumption DEF Operators!AtMost
  <2>8. /\ next' = "pull" => Len(acc') < Limit
        /\ next' = "return" => Len(acc') = Limit
        /\ next' \in {"pull", "return"}
    BY <2>4, <2>6, <2>7
  <2>9. Len(acc)' = Cardinality(Operators!Values(Operators!Given))'
    BY <2>6 DEF Operators!Values
  <2>10. Operators!AtMost' = Limit
    BY <2>7 DEF Operators!AtMost
  <2> QED  BY <1>1, <2>7, <2>8, <2>9, <2>10 DEF TakeInv
<1> QED  BY <1>2, <1>3

LEMMA OpHandles == ASSUME OperatorsInv, Operators!Handle PROVE OperatorsInv'
<1>1. OpTypes /\ OpStage /\ AnswersInv /\ ChunkInv /\ TakeInv
  BY DEF OperatorsInv
<1>2. PICK f : Shape(f)
  BY <1>1, HandleShape
<1>3. ChunkInv' /\ chunk' \in Seq(Nat)
  BY <1>1, <1>2, HandleChunks
<1>4. OpTypes' /\ OpStage'
  BY <1>1, <1>2, <1>3, HandleTypes, HandleBase
<1>5. AnswersInv' /\ TakeInv'
  BY <1>1, <1>2, HandleAnswers, HandleTakes
<1> QED  BY <1>3, <1>4, <1>5 DEF OperatorsInv

LEMMA OperatorsStep == OperatorsInv /\ [Operators!Next]_operators => OperatorsInv'
<1> SUFFICES ASSUME OperatorsInv, [Operators!Next]_operators PROVE OperatorsInv'
  OBVIOUS
<1>1. CASE UNCHANGED operators
  <2>1. UNCHANGED <<op, stage, input, source, pending, next, index, acc, chunk, out, fate>>
    BY <1>1 DEF operators
  <2>2. Operators!Given' = Operators!Given /\ Heads' = Heads
    BY <2>1 DEF Operators!Given, Heads
  <2>3. OpTypes'
    BY <2>1 DEF OperatorsInv, OpTypes
  <2>4. OpStage'
    BY <2>1, <2>2 DEF OperatorsInv, OpStage
  <2>5. AnswersInv'
    BY <2>1, <2>2 DEF OperatorsInv, AnswersInv
  <2>6. ChunkInv'
    BY <2>1, <2>2 DEF OperatorsInv, ChunkInv
  <2>7. TakeInv'
    BY <2>1, <2>2 DEF OperatorsInv, TakeInv, Operators!AtMost
  <2> QED  BY <2>3, <2>4, <2>5, <2>6, <2>7 DEF OperatorsInv
<1>2. CASE Operators!Next
  BY <1>2, OpIterates, OpSourceYields, OpSourceEnds, OpSourceThrows, OpDelivers, OpLeaves, OpExits,
     OpHandles DEF Operators!Next
<1> QED  BY <1>1, <1>2

-----------------------------------------------------------------------------
(* What the invariant says of the outputs. *)

LEMMA OperatorsTypeOK == OperatorsInv => Operators!TypeOK
<1> SUFFICES ASSUME OperatorsInv PROVE Operators!TypeOK
  OBVIOUS
<1>1. OpTypes /\ OpStage /\ ChunkInv
  BY DEF OperatorsInv
<1>2. Len(fate) \in Nat /\ Len(input) \in Nat /\ index \in Nat /\ index <= Len(fate)
  BY <1>1 DEF OpTypes
<1>3. Len(fate) \in {Len(input), Len(input) - 1} /\ index <= Len(input)
  BY <1>1, <1>2 DEF OpStage
<1>4. Len(chunk) < ChunkSize
  BY <1>1, OperatorsAssumption DEF ChunkInv
<1>5. (stage = "yield") = (pending # <<>>) \/ stage = "left"
  BY <1>1 DEF OpStage
<1> QED  BY <1>1, <1>3, <1>4, <1>5 DEF OpTypes, Operators!TypeOK

LEMMA OperatorsAnswer == OperatorsInv => Operators!ResultsAreAnswered
<1> SUFFICES ASSUME OperatorsInv, op \in Operators!OneForOne
             PROVE  /\ Operators!Lists([i \in DOMAIN Operators!Given |-> Operators!Origin(Operators!Given[i])],
                                       Operators!Answered)
                    /\ \A i \in DOMAIN Operators!Given :
                          Operators!IsAnswer(Operators!Given[i], Operators!Origin(Operators!Given[i]))
  BY DEF Operators!ResultsAreAnswered
<1>1. AnswersIn(Operators!Given, op, fate, input)
  BY DEF OperatorsInv, AnswersInv
<1>2. Operators!Answered = AnsweredIn(op, fate)
  BY DEF Operators!Answered, AnsweredIn
<1>3. ASSUME NEW x, NEW n, AnswerIn(x, n, op, fate, input)
      PROVE  Operators!IsAnswer(x, n)
  <2>1. Operators!Accumulated(n) = TakenIn(fate, n)
    BY DEF Operators!Accumulated, TakenIn
  <2> QED  BY <1>3, <2>1 DEF AnswerIn, Operators!IsAnswer
<1>4. Operators!Lists(Origins(Operators!Given), AnsweredIn(op, fate))
  BY <1>1 DEF AnswersIn
<1>5. \A i \in DOMAIN Operators!Given :
         Operators!IsAnswer(Operators!Given[i], Operators!Origin(Operators!Given[i]))
  BY <1>1, <1>3 DEF AnswersIn
<1> QED  BY <1>2, <1>4, <1>5 DEF Origins

LEMMA OperatorsChunk == OperatorsInv => Operators!ChunksAreWhole
<1> SUFFICES ASSUME OperatorsInv, op = "chunks"
             PROVE  /\ \A i \in DOMAIN Operators!Given :
                          /\ Operators!Given[i].of
                               = Operators!Run(Operators!Begins(i), Operators!Origin(Operators!Given[i]))
                          /\ \A k \in DOMAIN Operators!Given[i].of :
                                input[Operators!Given[i].of[k]].type = Operators!Given[i].type
                          /\ Operators!Given[i].type = "error" => Len(Operators!Given[i].of) = 1
                          /\ Operators!Given[i].type = "success" =>
                                Len(Operators!Given[i].of) = ChunkSize \/ Operators!MayBeShort(i)
                    /\ chunk = Operators!Run(Operators!Begins(Len(Operators!Given) + 1), Len(fate))
                    /\ stage = "done" => chunk = <<>>
  BY DEF Operators!ChunksAreWhole
<1>1. OpTypes /\ ChunkInv
  BY DEF OperatorsInv
<1>2. Operators!Given \in Seq(OpResults) /\ DOMAIN Operators!Given = 1..Len(Operators!Given)
  BY <1>1, OpGivenType
<1>4. ASSUME NEW i PROVE Operators!Begins(i) = Before(Operators!Given, i) + 1
  BY DEF Operators!Begins, Before
<1>5. Whole(Operators!Given, input, Len(fate), source)
      /\ chunk = Operators!Run(Before(Operators!Given, Len(Operators!Given) + 1) + 1, Len(fate))
  BY <1>1 DEF ChunkInv
<1>6. stage = "done" => chunk = <<>>
  BY <1>1 DEF ChunkInv, Heads
<1>7. chunk = Operators!Run(Operators!Begins(Len(Operators!Given) + 1), Len(fate))
  BY <1>4, <1>5
<1>8. ASSUME NEW i \in 1..Len(Operators!Given)
      PROVE  /\ Operators!Given[i].of
                  = Operators!Run(Operators!Begins(i), Operators!Origin(Operators!Given[i]))
             /\ \A k \in DOMAIN Operators!Given[i].of :
                   input[Operators!Given[i].of[k]].type = Operators!Given[i].type
             /\ Operators!Given[i].type = "error" => Len(Operators!Given[i].of) = 1
             /\ Operators!Given[i].type = "success" =>
                   Len(Operators!Given[i].of) = ChunkSize \/ Operators!MayBeShort(i)
  BY <1>4, <1>5 DEF Whole, Operators!MayBeShort
<1> QED  BY <1>2, <1>6, <1>7, <1>8

LEMMA OperatorsLimit == OperatorsInv => Operators!LimitIsExact
<1> SUFFICES ASSUME OperatorsInv, op = "take"
             PROVE  /\ Cardinality(Operators!Values(Operators!Given)) <= Operators!AtMost
                    /\ stage = "done" /\ source = "returned" =>
                          Cardinality(Operators!Values(out)) = Operators!AtMost
  BY OperatorsCardinality DEF Operators!LimitIsExact
<1>1. TakeInv /\ OpStage /\ OpTypes
  BY DEF OperatorsInv
<1>2. Cardinality(Operators!Values(Operators!Given)) <= Operators!AtMost
  BY <1>1 DEF TakeInv
<1>3. ASSUME stage = "done", source = "returned"
      PROVE  Cardinality(Operators!Values(out)) = Operators!AtMost
  <2>1. pending = <<>> /\ Heads = "done" /\ out \in Seq(OpResults)
    BY <1>1, <1>3 DEF OpStage, OpTypes, Heads
  <2>2. Operators!Given = out
    BY <2>1 DEF Operators!Given
  <2> QED  BY <1>1, <1>3, <2>1, <2>2 DEF TakeInv
<1> QED  BY <1>2, <1>3

LEMMA OperatorsRelease == OperatorsInv => Operators!SourceIsReleased
BY DEF OperatorsInv, OpStage, Heads, Operators!SourceIsReleased

\* Each sequential operator gives what its definition says of the results of its source, in
\* their order and none twice: one for each that the callback did not drop or rethrow, chunks
\* that lack nothing, and n values of take; and its source has been released when it is over.
\* For any number of results and any size of a chunk and limit.
THEOREM OperatorsFaithful == MCSpec => []OperatorsAreFaithful
<1>1. OperatorsInv => OperatorsAreFaithful
  BY OperatorsTypeOK, OperatorsAnswer, OperatorsChunk, OperatorsLimit, OperatorsRelease
     DEF OperatorsAreFaithful, Operators!OperatorsMeetTheirDefinition
<1>2. MCInit => OperatorsInv
  BY OperatorsInit DEF MCInit
<1>3. OperatorsInv /\ [MCNext]_mcvars => OperatorsInv'
  BY EachStutters, OperatorsStep
<1> QED  BY <1>1, <1>2, <1>3, PTL DEF MCSpec

=============================================================================
