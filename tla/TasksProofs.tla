----------------------------- MODULE TasksProofs -----------------------------
(***************************************************************************)
(* Theorems about tasks and what is built of them, for every value of the  *)
(* constants: the scoped task under timeout and retry, groups, the web     *)
(* client, the walk of a directory, check runs and the crawl.  Each        *)
(* section has the inductive invariant of one of them, what a step of it   *)
(* preserves, and the theorems that follow.                                *)
(***************************************************************************)
EXTENDS MCTasks, FiniteSetTheorems, SequenceTheorems, TLAPS

-----------------------------------------------------------------------------
(* The scoped task. *)

\* The loop and the attempts: those behind it have settled, those ahead of it are
\* untouched, and the one it is at has settled once the loop or the signal has
\* left it.
LoopInv ==
    /\ loop = "new" => attempt = 0 /\ result = "none"
    /\ loop \in {"attempt", "delay"} => attempt \in Attempts
    /\ loop = "delay" => attempt < MaxAttempts
    /\ \A a \in Attempts : a > attempt =>
          scope[a] = "none" /\ settled[a] = "none" /\ work[a] = "none"
    /\ \A a \in Attempts : a < attempt => settled[a] # "none"
    /\ attempt \in Attempts /\ (outer \/ loop # "attempt") => settled[attempt] # "none"
    /\ result # "none" => outer \/ loop = "done"

\* An attempt that has settled has aborted what it still runs.
ScopeInv ==
    \A a \in Attempts :
        /\ settled[a] # "none" /\ scope[a] \in {"acquiring", "using"} => ctrl[a]
        /\ work[a] = "running" /\ ~ctrl[a] => scope[a] = "using"
        /\ settled[a] = "value" => scope[a] = "over"
        /\ scope[a] = "none" => work[a] = "none"

\* A value comes from the attempt the loop has ended at.
ValueInv == result = "value" => /\ loop = "done" /\ attempt \in Attempts
                                /\ settled[attempt] = "value"

IInv == TypeOK /\ LoopInv /\ ScopeInv /\ ValueInv

-----------------------------------------------------------------------------
USE AttemptsAssumption DEF AttemptsAssumption, Attempts, Settlement

\* Beginning an attempt, from the state before it.
LEMMA BeginStep ==
    ASSUME IInv, NEW n \in Attempts, n = attempt + 1, Begin(n),
           loop # "done", result # "none" => outer,
           attempt \in Attempts => settled[attempt] # "none",
           UNCHANGED <<outer, result, ctrl, outcome, work>>
    PROVE  IInv'
<1>1. TypeOK'
  BY DEF IInv, TypeOK, Begin
<1>2. LoopInv'
  BY DEF IInv, TypeOK, LoopInv, Begin
<1>3. ScopeInv'
  BY DEF IInv, TypeOK, LoopInv, ScopeInv, Begin
<1>4. ValueInv'
  BY DEF IInv, ValueInv
<1>5. QED  BY <1>1, <1>2, <1>3, <1>4 DEF IInv

LEMMA LeaveStep ==
    ASSUME IInv, loop # "new", attempt \in Attempts, NEW r \in {"value", "error"}, Leave(r),
           settled[attempt] # "none", r = "value" => settled[attempt] = "value",
           UNCHANGED <<attempt, scope, settled, outer, ctrl, outcome, work>>
    PROVE  IInv'
<1>1. TypeOK'
  BY DEF IInv, TypeOK, Leave, First
<1>2. LoopInv'
  BY DEF IInv, TypeOK, LoopInv, Leave, First
<1>3. ScopeInv'
  BY DEF IInv, ScopeInv
<1>4. ValueInv'
  BY DEF IInv, TypeOK, ValueInv, Leave, First
<1>5. QED  BY <1>1, <1>2, <1>3, <1>4 DEF IInv

LEMMA InitInv == Init => IInv
<1> SUFFICES ASSUME Init PROVE IInv
  OBVIOUS
<1>1. TypeOK
  <2>1. ctrl \in [Attempts -> BOOLEAN]
    BY Zenon DEF Init
  <2>2. attempt \in 0..MaxAttempts
    BY DEF Init
  <2>3. QED  BY <2>1, <2>2, Zenon DEF Init, TypeOK
<1>2. LoopInv /\ ScopeInv /\ ValueInv
  BY DEF Init, LoopInv, ScopeInv, ValueInv
<1>3. QED  BY <1>1, <1>2 DEF IInv

LEMMA StepInv == IInv /\ [Next]_vars => IInv'
<1> SUFFICES ASSUME IInv, [Next]_vars PROVE IInv'
  OBVIOUS
<1> USE DEF IInv
<1>1. CASE Run
  <2>1. CASE outer
    BY <1>1, <2>1 DEF Run, TypeOK, LoopInv, ScopeInv, ValueInv
  <2>2. CASE ~outer
    <3>1. attempt = 0 /\ loop = "new" /\ result = "none" /\ Begin(1)
      BY <1>1, <2>2 DEF Run, LoopInv
    <3>2. UNCHANGED <<outer, result, ctrl, outcome, work>>
      BY <1>1, <2>2 DEF Run
    <3>3. QED  BY <3>1, <3>2, BeginStep
  <2>3. QED  BY <2>1, <2>2
<1>2. CASE Abort
  <2>1. TypeOK'
    BY <1>2 DEF Abort, TypeOK, LoopInv, First
  <2>2. LoopInv'
    BY <1>2 DEF Abort, TypeOK, LoopInv, First
  <2>3. ScopeInv'
    BY <1>2 DEF Abort, TypeOK, LoopInv, ScopeInv
  <2>4. ValueInv'
    BY <1>2 DEF Abort, TypeOK, ValueInv, First
  <2>5. QED  BY <2>1, <2>2, <2>3, <2>4
<1>3. CASE TimerFires
  <2>1. TypeOK' /\ LoopInv'
    BY <1>3 DEF TimerFires, TypeOK, LoopInv
  <2>2. ScopeInv' /\ ValueInv'
    BY <1>3 DEF TimerFires, TypeOK, LoopInv, ScopeInv, ValueInv
  <2>3. QED  BY <2>1, <2>2
<1>4. CASE AttemptSettles
  <2>1. loop = "attempt" /\ attempt \in Attempts /\ settled[attempt] # "none"
        /\ UNCHANGED <<outer, ctrl, outcome, work>>
    BY <1>4 DEF AttemptSettles, LoopInv
  <2>2. CASE settled[attempt] = "value" /\ Leave("value") /\ UNCHANGED <<attempt, scope, settled>>
    BY <2>1, <2>2, LeaveStep
  <2>3. CASE Leave("error") /\ UNCHANGED <<attempt, scope, settled>>
    BY <2>1, <2>3, LeaveStep
  <2>4. CASE MayRetry /\ loop' = "delay" /\ UNCHANGED <<attempt, scope, settled, result>>
    BY <2>1, <2>4 DEF MayRetry, TypeOK, LoopInv, ScopeInv, ValueInv
  <2>5. CASE MayRetry /\ Begin(attempt + 1) /\ UNCHANGED result
    <3>1. attempt + 1 \in Attempts
      BY <2>1, <2>5 DEF MayRetry
    <3>2. result # "none" => outer
      BY <2>1 DEF LoopInv
    <3>3. QED  BY <2>1, <2>5, <3>1, <3>2, BeginStep
  <2>6. QED  BY <1>4, <2>2, <2>3, <2>4, <2>5 DEF AttemptSettles
<1>5. CASE DelayEnds
  <2>1. loop = "delay" /\ attempt \in Attempts /\ settled[attempt] # "none"
        /\ UNCHANGED <<outer, ctrl, outcome, work>>
    BY <1>5 DEF DelayEnds, LoopInv
  <2>2. CASE outer
    BY <1>5, <2>1, <2>2, LeaveStep DEF DelayEnds
  <2>3. CASE ~outer
    <3>1. Begin(attempt + 1) /\ UNCHANGED result
      BY <1>5, <2>3 DEF DelayEnds
    <3>2. attempt + 1 \in Attempts
      BY <2>1, <3>1 DEF LoopInv, TypeOK, Begin
    <3>3. result # "none" => outer
      BY <2>1 DEF LoopInv
    <3>4. QED  BY <2>1, <3>1, <3>2, <3>3, BeginStep
  <2>4. QED  BY <2>2, <2>3
<1>6. ASSUME NEW a \in Attempts, AcquireSettles(a) PROVE IInv'
  <2>1. TypeOK'
    BY <1>6 DEF AcquireSettles, TypeOK, First
  <2>2. LoopInv'
    BY <1>6 DEF AcquireSettles, TypeOK, LoopInv, First
  <2>3. ScopeInv'
    BY <1>6 DEF AcquireSettles, TypeOK, ScopeInv, First
  <2>4. ValueInv'
    BY <1>6 DEF AcquireSettles, TypeOK, ValueInv, First
  <2>5. QED  BY <2>1, <2>2, <2>3, <2>4
<1>7. ASSUME NEW a \in Attempts, WorkSettles(a) PROVE IInv'
  <2>1. TypeOK'
    <3>1. CASE scope[a] = "using" /\ ~ctrl[a]
      <4>1. PICK o \in {"value", "error"} : outcome' = [outcome EXCEPT ![a] = o]
        BY <1>7, <3>1 DEF WorkSettles
      <4>2. QED  BY <1>7, <3>1, <4>1 DEF WorkSettles, TypeOK
    <3>2. CASE ~(scope[a] = "using" /\ ~ctrl[a])
      BY <1>7, <3>2 DEF WorkSettles, TypeOK
    <3>3. QED  BY <3>1, <3>2
  <2>2. LoopInv'
    BY <1>7 DEF WorkSettles, TypeOK, LoopInv
  <2>3. ScopeInv' /\ ValueInv'
    BY <1>7 DEF WorkSettles, TypeOK, ScopeInv, ValueInv
  <2>4. QED  BY <2>1, <2>2, <2>3
<1>8. ASSUME NEW a \in Attempts, UseAborted(a) PROVE IInv'
  <2>1. TypeOK' /\ LoopInv'
    BY <1>8 DEF UseAborted, TypeOK, LoopInv
  <2>2. ScopeInv' /\ ValueInv'
    BY <1>8 DEF UseAborted, TypeOK, ScopeInv, ValueInv
  <2>3. QED  BY <2>1, <2>2
<1>9. ASSUME NEW a \in Attempts, ReleaseSettles(a) PROVE IInv'
  <2>1. PICK o \in {outcome[a], "error"} :
            /\ outcome' = [outcome EXCEPT ![a] = o]
            /\ settled' = [settled EXCEPT ![a] = First(@, o)]
    BY <1>9 DEF ReleaseSettles
  <2>2. o \in Settlement
    BY <1>9 DEF TypeOK
  <2>3. TypeOK'
    BY <1>9, <2>1, <2>2 DEF ReleaseSettles, TypeOK, First
  <2>4. LoopInv'
    BY <1>9, <2>1, <2>2 DEF ReleaseSettles, TypeOK, LoopInv, First
  <2>5. ScopeInv'
    BY <1>9, <2>1, <2>2 DEF ReleaseSettles, TypeOK, ScopeInv, First
  <2>6. ValueInv'
    BY <1>9, <2>1, <2>2 DEF ReleaseSettles, TypeOK, ValueInv, First
  <2>7. QED  BY <2>3, <2>4, <2>5, <2>6
<1>10. CASE UNCHANGED vars
  BY <1>10 DEF vars, TypeOK, LoopInv, ScopeInv, ValueInv
<1>11. QED
  BY <1>1, <1>2, <1>3, <1>4, <1>5, <1>6, <1>7, <1>8, <1>9, <1>10 DEF Next

LEMMA Invariance == Spec => []IInv
  BY InitInv, StepInv, PTL DEF Spec

-----------------------------------------------------------------------------
\* Every reachable state is well typed: the loop makes no attempt too many.
THEOREM TypeCorrect == Spec => []TypeOK
<1>1. IInv => TypeOK  BY DEF IInv
<1>2. QED  BY <1>1, Invariance, PTL

\* What runs on behind a settled promise has been aborted, and a value has
\* released its resource, for any number of attempts.
THEOREM Orphans == Spec => []OrphansAreAborted
<1>1. ASSUME IInv PROVE OrphansAreAborted
  <2>1. \A a \in Attempts :
            /\ result # "none" \/ a < attempt
            /\ scope[a] \in {"acquiring", "using"} \/ work[a] = "running"
            => ctrl[a]
    <3> SUFFICES ASSUME NEW a \in Attempts, result # "none" \/ a < attempt,
                        scope[a] \in {"acquiring", "using"} \/ work[a] = "running"
                 PROVE  ctrl[a]
      OBVIOUS
    <3>1. a <= attempt
      BY <1>1 DEF IInv, TypeOK, LoopInv
    <3>2. settled[a] # "none"
      BY <1>1, <3>1 DEF IInv, TypeOK, LoopInv
    <3>3. QED  BY <1>1, <3>2 DEF IInv, ScopeInv
  <2>2. QED  BY <1>1, <2>1 DEF IInv, ScopeInv, ValueInv, OrphansAreAborted
<1>2. QED  BY <1>1, Invariance, PTL

\* No attempt calls acquire() after the caller has its result.
THEOREM NothingBegins == Spec => NothingBeginsAfterResult
<1>1. ASSUME IInv, [Next]_vars
      PROVE  [result # "none" => \A a \in Attempts : scope[a] = "none" => scope'[a] = "none"]_vars
  <2> SUFFICES ASSUME Next, result # "none", NEW a \in Attempts, scope[a] = "none"
               PROVE  scope'[a] = "none"
    BY <1>1 DEF vars
  <2>1. loop # "new" /\ (loop # "done" => outer)
    BY <1>1 DEF IInv, LoopInv
  <2>2. CASE AttemptSettles \/ DelayEnds
    BY <1>1, <2>1, <2>2 DEF IInv, TypeOK, AttemptSettles, DelayEnds, Begin
  <2>3. CASE Run \/ Abort \/ TimerFires
    BY <1>1, <2>1, <2>3 DEF Run, Abort, TimerFires
  <2>4. CASE \E b \in Attempts : \/ AcquireSettles(b) \/ WorkSettles(b)
                                 \/ UseAborted(b) \/ ReleaseSettles(b)
    BY <1>1, <2>4 DEF IInv, TypeOK, AcquireSettles, WorkSettles, UseAborted, ReleaseSettles
  <2>5. QED  BY <2>2, <2>3, <2>4 DEF Next
<1>2. QED  BY <1>1, Invariance, PTL DEF Spec, NothingBeginsAfterResult

HIDE AttemptsAssumption DEF AttemptsAssumption, Attempts, Settlement

-----------------------------------------------------------------------------
(* All systems together. *)

\* The system that "model" names takes its steps, and the others stutter.
LEMMA EachStutters ==
    [MCNext]_mcvars => /\ [Next]_vars /\ [Group!Next]_(Group!vars) /\ [Client!Next]_(Client!vars)
                       /\ [Crawl!Next]_crawl /\ [Checks!Next]_checks
                       /\ [Walk!Next]_walk
BY DEF MCNext, mcvars, vars, group, web, crawl, checks, walk, Group!vars, Client!vars,
       Crawl!vars, Checks!vars, Checks!batcher, Walk!vars

-----------------------------------------------------------------------------
(* Groups of tasks. *)

Callbacks == Group!OnValue \cup Group!OnError
Kinds == {"none", "chain"} \cup Group!Parallel \cup Callbacks

\* What a task has come to, and by which member.
Results == [type : {"none", "value", "error", "errors"}, task : 0..MaxTasks]

\* The values the variables of a group take.
GroupType == /\ Group!TypeOK
             /\ kind \in Kinds /\ gOuter \in BOOLEAN /\ told \in [Group!Tasks -> BOOLEAN]
             /\ errors \in Seq(Group!Members)
             /\ gResult \in Results

\* Before run() there is nothing.
GroupIdle == kind = "none" => /\ size = 0 /\ seen = {} /\ errors = <<>> /\ gResult = Group!Pending
                              /\ \A m \in Group!Tasks : promise[m] = "none" /\ gWork[m] = "none"

\* Work that goes on behind a settled promise has been told, and an abort leaves no
\* promise of a group open.
GroupSignals ==
    /\ \A m \in Group!Tasks : gWork[m] = "running" /\ promise[m] # "running" => told[m]
    /\ gOuter /\ kind \in Group!Parallel \cup {"chain"} => \A m \in Group!Tasks : promise[m] # "running"

\* Only settled promises have been seen, and work belongs to a promise.
GroupSettled == /\ \A m \in seen : Group!IsSettled(m)
                /\ \A m \in Group!Tasks : gWork[m] # "none" => promise[m] # "none"

\* One after the other: behind a task that has begun, the tasks before it are over.
GroupOrder ==
    kind \notin Group!Parallel =>
        \A m, n \in Group!Tasks : n < m /\ promise[m] # "none" =>
            n \in seen /\ (kind = "chain" => promise[n] = "value")

\* A race has a winner that succeeded, or the errors of all.
GroupRace ==
    /\ kind = "race" /\ gResult.type = "value" =>
          gResult.task \in Group!Members /\ promise[gResult.task] = "value"
    /\ kind = "race" /\ gResult # Group!Pending => \A m \in Group!Members : promise[m] # "running"
    /\ \A k \in 1..Len(errors) : promise[errors[k]] = "error"
    /\ gResult.type = "errors" => kind = "race" /\ Group!ToSet(errors) = Group!Members

\* No result speaks of a value that is not there.
GroupValues ==
    /\ kind = "all" /\ gResult = Group!Pending => \A m \in seen : promise[m] = "value"
    /\ kind \in {"all", "chain"} /\ gResult.type = "value" =>
          \A m \in Group!Members : promise[m] = "value"
    /\ kind = "allSettled" /\ gResult.type = "value" => seen = Group!Members

\* With a result and no abort, the continuation of every task that has begun has run.
GroupOver ==
    kind \in Group!Signalled /\ ~gOuter /\ gResult # Group!Pending =>
        \A m \in Group!Members : promise[m] # "none" => m \in seen

GroupInv == /\ GroupType /\ GroupIdle /\ GroupSignals /\ GroupSettled /\ GroupOrder
            /\ GroupRace /\ GroupValues /\ GroupOver

-----------------------------------------------------------------------------
\* A list without repetition that is as long as the range of its elements has them all.
LEMMA FullList ==
    ASSUME NEW n \in Nat, NEW s \in Seq(1..n), Len(s) = n, Group!IsInjective(s)
    PROVE  Group!ToSet(s) = 1..n
<1>1. Group!ToSet(s) \subseteq 1..n
  BY DEF Group!ToSet
<1>2. ASSUME NEW x \in 1..n, x \notin Group!ToSet(s) PROVE FALSE
  <2> DEFINE T == (1..n) \ {x}
  <2>1. IsFiniteSet(1..n) /\ Cardinality(1..n) = n
    BY FS_Interval
  <2>2. IsFiniteSet(T) /\ Cardinality(T) = n - 1
    BY <1>2, <2>1, FS_RemoveElement
  <2>3. s \in [1..n -> T]
    BY <1>2 DEF Group!ToSet
  <2> HIDE DEF T
  <2>4. \E x1, y1 \in 1..n : x1 # y1 /\ s[x1] = s[y1]
    BY <2>1, <2>2, <2>3, FS_PigeonHole
  <2>5. QED  BY <2>3, <2>4 DEF Group!IsInjective
<1>3. QED  BY <1>1, <1>2

USE GroupAssumption DEF GroupAssumption, Group!Tasks, Group!Members, Group!Pending,
    Results, Group!IsSettled, Group!Parallel, Group!OnValue, Group!OnError, Group!Signalled, Callbacks, Kinds

\* The first settlement of a promise is the one that counts.
LEMMA SettleFacts ==
    ASSUME gResult \in Results, NEW type \in {"value", "error", "errors"}, NEW m \in 0..MaxTasks,
           Group!Settle(type, m)
    PROVE  /\ gResult' \in Results /\ gResult' # Group!Pending
           /\ gResult # Group!Pending => gResult' = gResult
           /\ gResult = Group!Pending => gResult'.type = type /\ gResult'.task = m
BY DEF Group!Settle

\* Task n has begun, and the others are as they were.
Began(n) ==
    /\ promise' \in [Group!Tasks -> {"none", "running", "value", "error"}]
    /\ gWork' \in [Group!Tasks -> {"none", "running", "over"}]
    /\ promise'[n] = "running" /\ gWork'[n] = "running"
    /\ \A m \in Group!Tasks : m # n => promise'[m] = promise[m] /\ gWork'[m] = gWork[m]

\* The next task has begun, or an abort has kept it from beginning.
RanNext(n) ==
    \/ ~gOuter /\ Began(n)
    \/ /\ gOuter /\ UNCHANGED gWork /\ promise'[n] = "error"
       /\ promise' \in [Group!Tasks -> {"none", "running", "value", "error"}]
       /\ \A m \in Group!Tasks : m # n => promise'[m] = promise[m]

\* What the promise and the work of the others are when a task begins.
LEMMA RunNextFacts ==
    ASSUME GroupType, NEW n \in Group!Tasks
    PROVE  (Group!Begin({n}) => Began(n)) /\ (Group!RunNext(n) => RanNext(n))
BY DEF GroupType, Group!TypeOK, Group!Begin, Group!RunNext, Began, RanNext

LEMMA GroupInit == Group!Init => GroupInv
<1> SUFFICES ASSUME Group!Init PROVE GroupInv
  OBVIOUS
<1>1. GroupType
  <2>1. Group!ToSet(errors) = {} /\ Group!IsInjective(errors)
    BY DEF Group!Init, Group!ToSet, Group!IsInjective
  <2>2. told \in [Group!Tasks -> BOOLEAN]
    BY Zenon DEF Group!Init
  <2>3. /\ kind = "none" /\ size = 0 /\ gOuter = FALSE /\ seen = {} /\ errors = <<>>
        /\ promise = [m \in Group!Tasks |-> "none"] /\ gWork = [m \in Group!Tasks |-> "none"]
        /\ gResult = Group!Pending
    BY Zenon DEF Group!Init
  <2>4. gResult \in Results /\ errors \in Seq(Group!Members)
    BY <2>3
  <2>5. Group!TypeOK
    BY <2>1, <2>3 DEF Group!TypeOK
  <2>6. QED  BY <2>2, <2>3, <2>4, <2>5 DEF GroupType
<1>2. GroupIdle /\ GroupSignals /\ GroupSettled /\ GroupOrder
  BY DEF Group!Init, GroupIdle, GroupSignals, GroupSettled, GroupOrder
<1>3. GroupRace /\ GroupValues /\ GroupOver
  BY DEF Group!Init, GroupRace, GroupValues, GroupOver
<1>4. QED  BY <1>1, <1>2, <1>3 DEF GroupInv

LEMMA GroupStep == GroupInv /\ [Group!Next]_(Group!vars) => GroupInv'
<1> SUFFICES ASSUME GroupInv, [Group!Next]_(Group!vars) PROVE GroupInv'
  OBVIOUS
<1> USE DEF GroupInv
<1>1. CASE Group!RunParallel
  <2> USE <1>1 DEF Group!RunParallel, Group!Begin, Group!Settle
  <2>0. kind = "none" /\ kind' \in Group!Parallel /\ size = 0 /\ seen = {} /\ errors = <<>>
        /\ gResult = Group!Pending /\ UNCHANGED <<gOuter, told, seen, errors>>
        /\ size' \in 0..MaxTasks
    BY DEF GroupIdle
  <2>1. GroupType'
    BY <2>0 DEF GroupType, Group!TypeOK, Group!ToSet, Group!IsInjective
  <2>2. GroupIdle' /\ GroupSignals' /\ GroupSettled' /\ GroupOrder'
    BY <2>0 DEF GroupType, Group!TypeOK, GroupIdle, GroupSignals, GroupSettled, GroupOrder
  <2>3. GroupRace' /\ GroupValues' /\ GroupOver'
    BY <2>0 DEF GroupType, Group!TypeOK, GroupIdle, GroupRace, GroupValues, GroupOver
  <2>4. QED  BY <2>1, <2>2, <2>3
<1>2. CASE Group!RunSequence
  <2> USE <1>2 DEF Group!RunSequence, Group!Begin, Group!Settle
  <2>0. kind = "none" /\ kind' \in {"chain"} \cup Callbacks /\ size = 0 /\ seen = {} /\ errors = <<>>
        /\ gResult = Group!Pending /\ UNCHANGED <<gOuter, told, seen, errors>>
        /\ size' \in 0..MaxTasks
    BY DEF GroupIdle
  <2>1. GroupType'
    BY <2>0 DEF GroupType, Group!TypeOK, Group!ToSet, Group!IsInjective
  <2>2. GroupIdle' /\ GroupSignals' /\ GroupSettled' /\ GroupOrder'
    BY <2>0 DEF GroupType, Group!TypeOK, GroupIdle, GroupSignals, GroupSettled, GroupOrder
  <2>3. GroupRace' /\ GroupValues' /\ GroupOver'
    BY <2>0 DEF GroupType, Group!TypeOK, GroupIdle, GroupRace, GroupValues, GroupOver
  <2>4. QED  BY <2>1, <2>2, <2>3
<1>3. CASE Group!Abort
  <2>1. \A m \in Group!Tasks : (told[m] \/ promise[m] = "running") => told'[m]
    BY <1>3, Zenon DEF Group!Abort
  <2>2. told' \in [Group!Tasks -> BOOLEAN]
    BY <1>3, Zenon DEF Group!Abort
  <2>3. /\ promise' = [m \in Group!Tasks |->
                          IF promise[m] = "running" /\ ~(m = 2 /\ kind \in Group!PlainCallback)
                          THEN "error" ELSE promise[m]]
        /\ gOuter' = TRUE /\ UNCHANGED <<kind, size, gWork, seen, errors>>
        /\ kind = "none" => gResult' = gResult
        /\ kind # "none" => Group!Settle("error", 0)
    BY <1>3 DEF Group!Abort
  <2>4. /\ gResult' \in Results /\ (kind # "none" => gResult' # Group!Pending)
        /\ gResult # Group!Pending => gResult' = gResult
        /\ gResult'.type \in {gResult.type, "error"}
    BY <2>3, SettleFacts DEF GroupType
  <2>5. GroupType'
    BY <2>2, <2>3, <2>4 DEF GroupType, Group!TypeOK, Group!ToSet, Group!IsInjective
  <2>6. GroupIdle' /\ GroupSettled'
    BY <2>3 DEF GroupType, Group!TypeOK, GroupIdle, GroupSettled
  <2>7. GroupSignals'
    BY <2>1, <2>3 DEF GroupType, Group!TypeOK, GroupSignals, Group!PlainCallback
  <2>8. GroupOrder'
    BY <2>3 DEF GroupType, Group!TypeOK, GroupOrder
  <2>9. GroupRace'
    BY <2>3, <2>4, <2>7 DEF GroupType, Group!TypeOK, GroupIdle, GroupRace, GroupSignals, Group!ToSet
  <2>10. GroupValues'
    BY <2>3, <2>4 DEF GroupType, Group!TypeOK, GroupIdle, GroupValues, Group!ToSet
  <2>11. GroupOver'
    BY <2>3 DEF GroupOver
  <2>12. QED  BY <2>5, <2>6, <2>7, <2>8, <2>9, <2>10, <2>11
<1>4. ASSUME NEW m \in Group!Tasks, Group!WorkSettles(m) PROVE GroupInv'
  <2> USE <1>4 DEF Group!WorkSettles
  <2>0. PICK o \in {"value", "error"} :
              promise' = [promise EXCEPT ![m] = IF @ = "running" THEN o ELSE @]
    OBVIOUS
  <2>1. GroupType'
    BY <2>0 DEF GroupType, Group!TypeOK, Group!ToSet, Group!IsInjective
  <2>2. GroupIdle' /\ GroupSignals' /\ GroupSettled' /\ GroupOrder'
    BY <2>0 DEF GroupType, Group!TypeOK, GroupIdle, GroupSignals, GroupSettled, GroupOrder
  <2>3. GroupRace' /\ GroupValues' /\ GroupOver'
    BY <2>0 DEF GroupType, Group!TypeOK, GroupIdle, GroupRace, GroupValues, GroupOver, Group!ToSet
  <2>4. QED  BY <2>1, <2>2, <2>3
<1>5. ASSUME NEW m \in Group!Tasks, Group!allContinues(m) \/ Group!allSettledContinues(m)
      PROVE  GroupInv'
  <2> USE DEF GroupType, Group!TypeOK
  <2>0. /\ kind \in {"all", "allSettled"} /\ m \in Group!Members /\ Group!IsSettled(m)
        /\ m \notin seen /\ seen' = seen \cup {m}
        /\ UNCHANGED <<kind, size, gOuter, told, promise, gWork, errors>>
    BY <1>5 DEF Group!allContinues, Group!allSettledContinues, Group!Continues
  <2>1. GroupIdle' /\ GroupSignals' /\ GroupSettled' /\ GroupOrder'
    BY <2>0 DEF GroupIdle, GroupSignals, GroupSettled, GroupOrder
  <2>2. ASSUME NEW type \in {"value", "error"}, Group!Settle(type, m),
               kind = "all" /\ type = "value" => promise[m] = "value",
               type = "value" => seen' = Group!Members
        PROVE  GroupInv'
    <3>1. /\ gResult' \in Results /\ gResult' # Group!Pending
          /\ gResult # Group!Pending => gResult' = gResult
          /\ gResult = Group!Pending => gResult'.type = type
      BY <2>2, SettleFacts
    <3>2. GroupType'
      BY <2>0, <3>1 DEF Group!ToSet, Group!IsInjective
    <3>3. GroupRace' /\ GroupOver'
      BY <2>0, <3>1 DEF GroupRace, GroupOver
    <3>4. GroupValues'
      BY <2>0, <2>2, <3>1 DEF GroupValues
    <3>5. QED  BY <2>1, <3>2, <3>3, <3>4
  <2>3. CASE UNCHANGED gResult /\ (kind = "all" => promise[m] = "value")
    <3>1. GroupType'
      BY <2>0, <2>3 DEF Group!ToSet, Group!IsInjective
    <3>2. GroupRace' /\ GroupOver' /\ GroupValues'
      BY <2>0, <2>3 DEF GroupRace, GroupOver, GroupValues
    <3>3. QED  BY <2>1, <3>1, <3>2
  <2>4. QED  BY <1>5, <2>0, <2>2, <2>3 DEF Group!allContinues, Group!allSettledContinues
<1>6. ASSUME NEW m \in Group!Tasks, Group!raceContinues(m) PROVE GroupInv'
  <2> USE DEF GroupType, Group!TypeOK
  <2>0. kind = "race" /\ m \in Group!Members /\ Group!IsSettled(m) /\ m \notin seen
        /\ seen' = seen \cup {m} /\ UNCHANGED <<kind, size, gOuter, gWork>>
    BY <1>6 DEF Group!raceContinues, Group!Continues
  <2>1. CASE gResult # Group!Pending /\ UNCHANGED <<told, promise, errors, gResult>>
    <3>1. GroupType'
      BY <2>0, <2>1 DEF Group!ToSet, Group!IsInjective
    <3>2. GroupIdle' /\ GroupSignals' /\ GroupSettled' /\ GroupOrder'
      BY <2>0, <2>1 DEF GroupIdle, GroupSignals, GroupSettled, GroupOrder
    <3>3. GroupRace' /\ GroupValues' /\ GroupOver'
      BY <2>0, <2>1 DEF GroupRace, GroupValues, GroupOver, Group!ToSet
    <3>4. QED  BY <3>1, <3>2, <3>3
  <2>2. CASE /\ gResult = Group!Pending /\ promise[m] = "value"
             /\ Group!Settle("value", m)
             /\ told' = [n \in Group!Tasks |-> told[n] \/ n # m]
             /\ promise' = [n \in Group!Tasks |->
                               IF n # m /\ promise[n] = "running" THEN "error" ELSE promise[n]]
             /\ UNCHANGED errors
    <3>1. gResult' \in Results /\ gResult'.type = "value" /\ gResult'.task = m
          /\ gResult' # Group!Pending
      BY <2>0, <2>2, SettleFacts
    <3>2. told' \in [Group!Tasks -> BOOLEAN]
      BY <2>2, Zenon
    <3>3. \A n \in Group!Tasks : told[n] \/ n # m => told'[n]
      BY <2>2, Zenon
    <3>4. GroupType'
      BY <2>0, <2>2, <3>1, <3>2 DEF Group!ToSet, Group!IsInjective
    <3>5. GroupIdle' /\ GroupSignals' /\ GroupSettled' /\ GroupOrder'
      BY <2>0, <2>2, <3>3 DEF GroupIdle, GroupSignals, GroupSettled, GroupOrder
    <3>6. GroupRace' /\ GroupValues' /\ GroupOver'
      BY <2>0, <2>2, <3>1 DEF GroupRace, GroupValues, GroupOver, Group!ToSet
    <3>7. QED  BY <3>4, <3>5, <3>6
  <2>3. CASE /\ gResult = Group!Pending /\ promise[m] = "error"
             /\ errors' = Append(errors, m)
             /\ IF Len(errors') = size THEN Group!Settle("errors", 0) ELSE UNCHANGED gResult
             /\ UNCHANGED <<told, promise>>
    <3>1. /\ gResult' \in Results
          /\ Len(errors') = size => gResult'.type = "errors"
          /\ Len(errors') # size => gResult' = gResult
      BY <2>3, SettleFacts
    <3>2. /\ errors' \in Seq(Group!Members) /\ Len(errors') = Len(errors) + 1
          /\ \A k \in 1..Len(errors) : errors'[k] = errors[k]
          /\ errors'[Len(errors) + 1] = m
      BY <2>0, <2>3
    <3>3. \A k \in 1..Len(errors) : errors[k] \in seen
      BY DEF Group!ToSet
    <3>4. Group!IsInjective(errors') /\ Group!ToSet(errors') \subseteq seen'
      <4>1. \A k \in 1..Len(errors') : \/ k = Len(errors) + 1 /\ errors'[k] = m
                                       \/ k \in 1..Len(errors) /\ errors'[k] = errors[k]
        BY <3>2
      <4>2. ASSUME NEW k \in 1..Len(errors'), NEW l \in 1..Len(errors'), errors'[k] = errors'[l]
            PROVE  k = l
        <5>1. \A i, j \in 1..Len(errors) : errors[i] = errors[j] => i = j
          BY DEF Group!IsInjective
        <5>2. m \notin seen
          BY <2>0
        <5>3. CASE k = Len(errors) + 1 /\ errors'[k] = m
          BY <3>3, <4>1, <4>2, <5>2, <5>3
        <5>4. CASE k \in 1..Len(errors) /\ errors'[k] = errors[k]
          <6>1. CASE l = Len(errors) + 1 /\ errors'[l] = m
            BY <3>3, <4>2, <5>2, <5>4, <6>1
          <6>2. CASE l \in 1..Len(errors) /\ errors'[l] = errors[l]
            BY <4>2, <5>1, <5>4, <6>2
          <6>3. QED  BY <4>1, <6>1, <6>2
        <5>5. QED  BY <4>1, <5>3, <5>4
      <4>3. \A k \in 1..Len(errors') : errors'[k] \in seen'
        BY <2>0, <3>3, <4>1
      <4>4. QED  BY <3>2, <4>2, <4>3 DEF Group!IsInjective, Group!ToSet
    <3>5. Len(errors') = size => Group!ToSet(errors') = Group!Members
      BY <3>2, <3>4, FullList
    <3>6. GroupType'
      BY <2>0, <2>3, <3>1, <3>2, <3>4
    <3>7. GroupIdle' /\ GroupSignals' /\ GroupSettled' /\ GroupOrder'
      BY <2>0, <2>3 DEF GroupIdle, GroupSignals, GroupSettled, GroupOrder
    <3>8. \A k \in 1..Len(errors') : promise'[errors'[k]] = "error"
      BY <2>3, <3>2 DEF GroupRace
    <3>9. GroupRace'
      <4>1. Len(errors') = size => \A n \in Group!Members : promise'[n] = "error"
        <5> SUFFICES ASSUME Len(errors') = size, NEW n \in Group!Members PROVE promise'[n] = "error"
          OBVIOUS
        <5>1. DOMAIN errors' = 1..Len(errors')
          BY <3>2
        <5>2. PICK k \in 1..Len(errors') : errors'[k] = n
          BY <3>5, <5>1 DEF Group!ToSet
        <5>3. QED  BY <3>8, <5>2
      <4>2. QED  BY <2>0, <2>3, <3>1, <3>5, <3>8, <4>1 DEF GroupRace
    <3>10. GroupValues' /\ GroupOver'
      BY <2>0, <2>3 DEF GroupValues, GroupOver
    <3>11. QED  BY <3>6, <3>7, <3>9, <3>10
  <2>4. QED  BY <1>6, <2>1, <2>2, <2>3 DEF Group!raceContinues
<1>7. ASSUME NEW m \in Group!Tasks, Group!chainContinues(m) PROVE GroupInv'
  <2> USE DEF GroupType, Group!TypeOK
  <2>0. kind = "chain" /\ m \in Group!Members /\ Group!IsSettled(m) /\ m \notin seen
        /\ seen' = seen \cup {m} /\ UNCHANGED <<kind, size, gOuter, told, errors>>
    BY <1>7 DEF Group!chainContinues, Group!Continues
  <2>1. ASSUME NEW type \in {"value", "error"}, Group!Settle(type, m),
               type = "value" => promise[m] = "value" /\ m = size,
               UNCHANGED <<promise, gWork>>
        PROVE  GroupInv'
    <3>1. /\ gResult' \in Results /\ gResult' # Group!Pending
          /\ gResult'.type \in {gResult.type, type}
          /\ gResult'.type = "value" => gResult.type = "value" \/ type = "value"
      BY <2>1, SettleFacts
    <3>2. GroupType'
      BY <2>0, <2>1, <3>1 DEF Group!ToSet, Group!IsInjective
    <3>3. GroupIdle' /\ GroupSignals' /\ GroupSettled' /\ GroupOrder'
      BY <2>0, <2>1 DEF GroupIdle, GroupSignals, GroupSettled, GroupOrder
    <3>4. GroupRace'
      <4>1. gResult.type # "errors" /\ \A k \in 1..Len(errors) : promise[errors[k]] = "error"
        BY <2>0 DEF GroupRace
      <4>2. QED  BY <2>0, <2>1, <3>1, <4>1 DEF GroupRace
    <3>5. type = "value" => \A n \in Group!Members : promise[n] = "value"
      BY <2>0, <2>1 DEF GroupOrder
    <3>6. GroupValues'
      BY <2>0, <2>1, <3>1, <3>5 DEF GroupValues
    <3>7. GroupOver'
      BY <2>0, <2>1 DEF GroupOver, GroupOrder
    <3>8. QED  BY <3>2, <3>3, <3>4, <3>6, <3>7
  <2>2. CASE promise[m] = "value" /\ m < size /\ Group!RunNext(m + 1) /\ UNCHANGED gResult
    <3>1. m + 1 \in Group!Members /\ m + 1 \in Group!Tasks
      BY <2>0, <2>2
    <3>2. promise[m + 1] = "none" /\ gWork[m + 1] = "none"
      BY <2>0, <3>1 DEF GroupOrder, GroupSettled
    <3>3. RanNext(m + 1)
      BY <2>2, <3>1, <3>2, RunNextFacts
    <3>4. GroupType'
      BY <2>0, <2>2, <3>3 DEF RanNext, Began, Group!ToSet, Group!IsInjective
    <3>5. GroupIdle' /\ GroupSignals' /\ GroupSettled'
      <4>1. GroupIdle'
        BY <2>0 DEF GroupIdle
      <4>2. GroupSignals'
        BY <2>0, <2>2, <3>1, <3>2, <3>3 DEF RanNext, Began, GroupSignals
      <4>3. GroupSettled'
        BY <2>0, <2>2, <3>1, <3>2, <3>3 DEF RanNext, Began, GroupSettled
      <4>4. QED  BY <4>1, <4>2, <4>3
    <3>6. GroupOrder'
      <4>1. \A n \in Group!Tasks : n # m + 1 => promise'[n] = promise[n]
        BY <3>3 DEF RanNext, Began
      <4>2. \A n \in Group!Tasks : n < m => n \in seen /\ promise[n] = "value"
        BY <2>0, <2>2 DEF GroupOrder
      <4>3. QED  BY <2>0, <2>2, <3>1, <3>2, <4>1, <4>2 DEF GroupOrder
    <3>7. GroupRace'
      <4>1. \A k \in 1..Len(errors) : errors[k] \in Group!Members /\ errors[k] # m + 1
        BY <3>2 DEF GroupRace
      <4>2. QED  BY <2>0, <2>2, <3>1, <3>3, <4>1 DEF RanNext, Began, GroupRace
    <3>8. gResult.type = "value" => FALSE
      BY <2>0, <3>1, <3>2 DEF GroupValues
    <3>9. GroupValues'
      BY <2>0, <2>2, <3>8 DEF GroupValues
    <3>10. GroupOver'
      BY <2>0, <2>2, <3>1 DEF GroupOver
    <3>11. QED  BY <3>4, <3>5, <3>6, <3>7, <3>9, <3>10
  <2>3. QED  BY <1>7, <2>1, <2>2 DEF Group!chainContinues
<1>8. CASE Group!CallbackBegins
  <2> USE DEF GroupType, Group!TypeOK
  <2>0. kind \in Callbacks /\ 1 \in Group!Members /\ Group!IsSettled(1) /\ 1 \notin seen
        /\ seen' = seen \cup {1} /\ UNCHANGED <<kind, size, gOuter, told, errors>>
    BY <1>8 DEF Group!CallbackBegins, Group!Continues
  <2>1. \A n \in Group!Tasks : n # 1 => promise[n] = "none" /\ gWork[n] = "none"
    BY <2>0 DEF GroupOrder, GroupSettled
  <2>2. ASSUME Group!Settle(promise[1], 1) \/ Group!Settle("error", 1), UNCHANGED <<promise, gWork>>
        PROVE  GroupInv'
    <3>1. gResult' \in Results /\ gResult' # Group!Pending
          /\ gResult'.type \in {gResult.type, "value", "error"}
      BY <2>0, <2>2, SettleFacts
    <3>2. GroupType'
      BY <2>0, <2>2, <3>1 DEF Group!ToSet, Group!IsInjective
    <3>3. GroupIdle' /\ GroupSignals' /\ GroupSettled' /\ GroupOrder'
      BY <2>0, <2>2 DEF GroupIdle, GroupSignals, GroupSettled, GroupOrder
    <3>4. GroupRace' /\ GroupValues' /\ GroupOver'
      BY <2>0, <2>1, <2>2, <3>1 DEF GroupRace, GroupValues, GroupOver
    <3>5. QED  BY <3>2, <3>3, <3>4
  <2>3. CASE /\ IF kind \in Group!Signalled THEN Group!RunNext(2) ELSE Group!Begin({2})
             /\ UNCHANGED gResult
    <3>1. IF kind \in Group!Signalled THEN RanNext(2) ELSE Began(2)
      <4>1. 2 \in Group!Tasks
        OBVIOUS
      <4>2. QED  BY <2>3, <4>1, RunNextFacts
    <3>2. GroupType'
      BY <2>0, <2>3, <3>1 DEF RanNext, Began, Group!ToSet, Group!IsInjective
    <3>3. GroupIdle' /\ GroupSignals' /\ GroupSettled'
      <4>1. GroupIdle'
        BY <2>0 DEF GroupIdle
      <4>2. GroupSignals'
        BY <2>0, <2>1, <2>3, <3>1 DEF RanNext, Began, GroupSignals
      <4>3. GroupSettled'
        BY <2>0, <2>1, <2>3, <3>1 DEF RanNext, Began, GroupSettled
      <4>4. QED  BY <4>1, <4>2, <4>3
    <3>4. GroupOrder'
      BY <2>0, <2>1, <2>3, <3>1 DEF RanNext, Began, GroupOrder
    <3>5. GroupRace' /\ GroupValues'
      <4>1. \A k \in 1..Len(errors) : errors[k] \in Group!Members /\ promise'[errors[k]] = "error"
        BY <2>1, <3>1 DEF RanNext, Began, GroupRace
      <4>2. QED  BY <2>0, <2>3, <4>1 DEF GroupRace, GroupValues
    <3>6. kind \in Group!Signalled /\ gResult # Group!Pending => gOuter
      BY <2>0 DEF GroupOver
    <3>7. GroupOver'
      BY <2>0, <2>3, <3>6 DEF GroupOver
    <3>8. QED  BY <3>2, <3>3, <3>4, <3>5, <3>7
  <2>4. QED  BY <1>8, <2>2, <2>3 DEF Group!CallbackBegins
<1>9. CASE Group!CallbackSettles
  <2> USE <1>9 DEF Group!CallbackSettles, Group!Continues, Group!Settle
  <2>1. GroupType'
    BY DEF GroupType, Group!TypeOK, Group!ToSet, Group!IsInjective
  <2>2. GroupIdle' /\ GroupSignals' /\ GroupSettled' /\ GroupOrder'
    BY DEF GroupType, Group!TypeOK, GroupIdle, GroupSignals, GroupSettled, GroupOrder
  <2>3. GroupRace' /\ GroupValues' /\ GroupOver'
    BY DEF GroupType, Group!TypeOK, GroupRace, GroupValues, GroupOver, GroupSettled, GroupOrder, Group!ToSet
  <2>4. QED  BY <2>1, <2>2, <2>3
<1>10. CASE UNCHANGED Group!vars
  BY <1>10 DEF Group!vars, GroupType, Group!TypeOK, GroupIdle, GroupSignals, GroupSettled, GroupOrder,
               GroupRace, GroupValues, GroupOver, Group!ToSet, Group!IsInjective
<1>11. QED
  BY <1>1, <1>2, <1>3, <1>4, <1>5, <1>6, <1>7, <1>8, <1>9, <1>10 DEF Group!Next

-----------------------------------------------------------------------------
LEMMA GroupInvariance == MCSpec => []GroupInv
<1>1. MCInit => GroupInv
  BY GroupInit DEF MCInit
<1>2. GroupInv /\ [MCNext]_mcvars => GroupInv'
  BY GroupStep, EachStutters
<1>3. QED  BY <1>1, <1>2, PTL DEF MCSpec

\* For any number of tasks: when a race is decided, or a group is aborted, whatever is left
\* running of it has been told.
THEOREM Losers == MCSpec => []LosersAreAborted
<1>1. GroupInv => LosersAreAborted
  <2>1. GroupInv => \A m \in Group!Members : gWork[m] = "running" /\ promise[m] # "running" => told[m]
    BY DEF GroupInv, GroupType, Group!TypeOK, GroupSignals
  <2>2. GroupInv /\ gOuter /\ kind \in Group!Parallel \cup {"chain"} =>
            \A m \in Group!Members : promise[m] # "running"
    BY DEF GroupInv, GroupType, Group!TypeOK, GroupSignals
  <2>3. GroupInv /\ kind = "race" /\ gResult # Group!Pending =>
            \A m \in Group!Members : promise[m] # "running"
    BY DEF GroupInv, GroupRace
  <2>4. QED  BY <2>1, <2>2, <2>3 DEF LosersAreAborted, Group!LosersAreAborted
<1>2. QED  BY <1>1, GroupInvariance, PTL

\* For any number of tasks: who wins has succeeded, who loses was beaten by all, and none begins
\* when the result is there.
THEOREM GroupOutcome == MCSpec => OutcomeIsRight
<1>1. GroupInv => Group!TypeOK /\ Group!OutcomeIsRight
  <2> SUFFICES ASSUME GroupInv PROVE Group!TypeOK /\ Group!OutcomeIsRight
    OBVIOUS
  <2> USE DEF GroupInv, GroupType, Group!TypeOK
  <2>1. kind = "race" /\ gResult.type = "value" => promise[gResult.task] = "value"
    BY DEF GroupRace
  <2>2. gResult.type = "errors" =>
            Group!ToSet(errors) = Group!Members /\ \A m \in Group!Members : promise[m] = "error"
    <3>1. \A m \in Group!ToSet(errors) : promise[m] = "error"
      BY DEF GroupRace, Group!ToSet
    <3>2. QED  BY <3>1 DEF GroupRace
  <2>3. kind \in {"all", "chain"} /\ gResult.type = "value" =>
            \A m \in Group!Members : promise[m] = "value"
    BY DEF GroupValues
  <2>4. kind = "allSettled" /\ gResult.type = "value" => \A m \in Group!Members : Group!IsSettled(m)
    BY DEF GroupValues, GroupSettled
  <2>5. kind = "chain" => \A m \in 2..size : gWork[m] # "none" => promise[m - 1] = "value"
    BY DEF GroupSettled, GroupOrder
  <2>6. QED  BY <2>1, <2>2, <2>3, <2>4, <2>5 DEF Group!OutcomeIsRight
<1>2. GroupInv /\ [Group!Next]_(Group!vars) =>
          [gResult # Group!Pending /\ kind \notin Group!PlainCallback =>
              \A m \in Group!Tasks : gWork[m] = "none" => gWork'[m] = "none"]_(Group!vars)
  <2> SUFFICES ASSUME GroupInv, Group!Next, gResult # Group!Pending, kind \notin Group!PlainCallback,
                      NEW m \in Group!Tasks, gWork[m] = "none"
               PROVE  gWork'[m] = "none"
    BY DEF Group!vars
  <2> USE DEF GroupInv, GroupType, Group!TypeOK
  <2>1. kind # "none"
    BY DEF GroupIdle
  <2>2. CASE Group!Abort \/ Group!CallbackSettles
    BY <2>2 DEF Group!Abort, Group!CallbackSettles
  <2>3. CASE Group!CallbackBegins
    <3>1. kind \in Group!Signalled /\ ~gOuter => FALSE
      BY <2>3 DEF Group!CallbackBegins, Group!Continues, GroupOver
    <3>2. QED  BY <2>3, <3>1 DEF Group!CallbackBegins, Group!PlainCallback, Group!RunNext
  <2>4. ASSUME NEW n \in Group!Tasks, Group!WorkSettles(n) PROVE gWork'[m] = "none"
    BY <2>4 DEF Group!WorkSettles
  <2>5. ASSUME NEW n \in Group!Tasks,
               Group!allContinues(n) \/ Group!allSettledContinues(n) \/ Group!raceContinues(n)
        PROVE  gWork'[m] = "none"
    BY <2>5 DEF Group!allContinues, Group!allSettledContinues, Group!raceContinues
  <2>6. ASSUME NEW n \in Group!Tasks, Group!chainContinues(n) PROVE gWork'[m] = "none"
    <3>1. ~gOuter => FALSE
      BY <2>6 DEF Group!chainContinues, Group!Continues, GroupOver
    <3>2. QED  BY <2>6, <3>1 DEF Group!chainContinues, Group!RunNext
  <2>7. QED
    BY <2>1, <2>2, <2>3, <2>4, <2>5, <2>6 DEF Group!Next, Group!RunParallel, Group!RunSequence
<1>3. QED
  BY <1>1, <1>2, EachStutters, GroupInvariance, PTL DEF MCSpec, OutcomeIsRight, Group!NoTaskBeginsLate

HIDE GroupAssumption DEF GroupAssumption, Group!Tasks, Group!Members, Group!Pending,
    Results, Group!IsSettled, Group!Parallel, Group!OnValue, Group!OnError, Group!Signalled, Callbacks, Kinds

-----------------------------------------------------------------------------
(* The web client. *)

\* What a server answers, and the options of a request.
Answers == [status : Nat, retryAfter : Client!parseRetryAfter]
Configs == [attempts : 1..MaxAttempts \cup {3}, when : {"isRetryable", "always"}]

\* The error of an attempt is what came of it.
IsErrorOf(e, answer) ==
    \/ \E retryable \in BOOLEAN : e = Client!HttpError(answer.status, answer.retryAfter, retryable)
    \/ e = Client!RawError

\* The answer of attempt n may be retried.
Retryable(n) == answers[n].status \in Client!RETRYABLE_STATUS_CODES

\* The values the variables of the client take.
ClientType == /\ phase \in {"none", "fetch", "body", "failed", "delay", "done"}
              /\ config \in Configs /\ wAttempt \in 0..config.attempts /\ answers \in Seq(Answers)

\* An attempt that is over has its answer, and one under way has none yet.
ClientCount == /\ phase = "none" => wAttempt = 0 /\ answers = <<>>
               /\ phase \in {"fetch", "body"} => Len(answers) = wAttempt - 1
               /\ phase \in {"failed", "delay"} => Len(answers) = wAttempt /\ wAttempt >= 1
               /\ phase = "done" => Len(answers) <= wAttempt
               /\ phase = "delay" => wAttempt < config.attempts

\* The error at hand is that of the last attempt, and a delay follows one that may be retried.
ClientLast ==
    /\ phase \in {"failed", "delay"} => IsErrorOf(error, answers[wAttempt])
    /\ phase = "delay" => /\ error.kind = "http"
                          /\ config.when = "isRetryable" => Retryable(wAttempt)
                          /\ wait = Client!delay

\* Every attempt but the last had an answer that may be retried.
ClientEarlier == config.when = "isRetryable" =>
                     \A n \in 1..Len(answers) : n < wAttempt => Retryable(n)

ClientInv == ClientType /\ ClientCount /\ ClientLast /\ ClientEarlier

-----------------------------------------------------------------------------
USE AttemptsAssumption DEF AttemptsAssumption, Configs, Client!parseRetryAfter,
    Client!RETRYABLE_STATUS_CODES

\* An HttpError made of an answer is an error of that answer.
LEMMA HttpErrorIsOf ==
    ASSUME NEW code, NEW retryAfter, NEW retryable \in BOOLEAN
    PROVE  IsErrorOf(Client!HttpError(code, retryAfter, retryable),
                     [status |-> code, retryAfter |-> retryAfter])
<1>1. [status |-> code, retryAfter |-> retryAfter].status = code
  OBVIOUS
<1>2. [status |-> code, retryAfter |-> retryAfter].retryAfter = retryAfter
  OBVIOUS
<1>3. QED  BY <1>1, <1>2, Zenon DEF IsErrorOf

LEMMA ClientInit == Client!Init => ClientInv
BY DEF Client!Init, Client!Default, ClientInv, ClientType, ClientCount, ClientLast, ClientEarlier, Retryable

\* What every failed attempt does.
LEMMA ClientFails ==
    ASSUME ClientInv, phase \in {"fetch", "body"}, NEW e, NEW answer \in Answers, IsErrorOf(e, answer),
           Client!Fails(e, answer)
    PROVE  ClientInv'
<1>1. /\ phase' = "failed" /\ error' = e /\ answers' = Append(answers, answer)
      /\ UNCHANGED <<config, wAttempt, wait, wResult>>
  BY DEF Client!Fails
<1>2. Len(answers) = wAttempt - 1 /\ wAttempt \in Nat /\ wAttempt >= 1
  BY DEF ClientInv, ClientType, ClientCount
<1>3. /\ answers' \in Seq(Answers) /\ Len(answers') = wAttempt /\ answers'[wAttempt] = answer
      /\ \A n \in 1..Len(answers) : answers'[n] = answers[n]
  BY <1>1, <1>2 DEF ClientInv, ClientType
<1>4. ClientType' /\ ClientCount'
  BY <1>1, <1>2, <1>3 DEF ClientInv, ClientType, ClientCount
<1>5. ClientLast'
  BY <1>1, <1>3 DEF ClientLast
<1>6. ClientEarlier'
  BY <1>1, <1>2, <1>3 DEF ClientInv, ClientEarlier, Retryable
<1>7. QED  BY <1>4, <1>5, <1>6 DEF ClientInv

LEMMA ClientStep == ClientInv /\ [Client!Next]_(Client!vars) => ClientInv'
<1> SUFFICES ASSUME ClientInv, [Client!Next]_(Client!vars) PROVE ClientInv'
  OBVIOUS
<1> USE DEF ClientInv
<1>1. CASE Client!withRetry
  <2>1. config' \in Configs /\ wAttempt = 0 /\ answers = <<>> /\ phase = "none"
        /\ UNCHANGED <<phase, wAttempt, error, wait, answers, wResult>>
    BY <1>1 DEF Client!withRetry, Client!Given, ClientType, ClientCount
  <2>2. QED  BY <2>1 DEF ClientType, ClientCount, ClientLast, ClientEarlier
<1>2. CASE Client!request
  BY <1>2 DEF Client!request, ClientType, ClientCount, ClientLast, ClientEarlier
<1>3. CASE Client!Responds
  <2>1. CASE phase = "fetch" /\ phase' = "body"
             /\ UNCHANGED <<config, wAttempt, error, wait, answers, wResult>>
    BY <2>1 DEF ClientType, ClientCount, ClientLast, ClientEarlier, Retryable
  <2>2. ASSUME NEW status_ \in Client!Statuses, NEW retryAfter \in Client!parseRetryAfter,
               phase = "fetch",
               Client!Fails(Client!HttpError(status_, retryAfter, status_ \in Client!RETRYABLE_STATUS_CODES),
                            [status |-> status_, retryAfter |-> retryAfter])
        PROVE  ClientInv'
    <3> DEFINE answer == [status |-> status_, retryAfter |-> retryAfter]
    <3>1. answer \in Answers
      BY DEF Answers, Client!Statuses
    <3>2. IsErrorOf(Client!HttpError(status_, retryAfter, status_ \in Client!RETRYABLE_STATUS_CODES), answer)
      <4> DEFINE retryable == status_ \in Client!RETRYABLE_STATUS_CODES
      <4>1. retryable \in BOOLEAN
        OBVIOUS
      <4> HIDE DEF retryable
      <4>2. IsErrorOf(Client!HttpError(status_, retryAfter, retryable), answer)
        BY <4>1, HttpErrorIsOf, Zenon
      <4>3. QED  BY <4>2 DEF retryable
    <3>3. QED  BY <2>2, <3>1, <3>2, ClientFails
  <2>3. QED  BY <1>3, <2>1, <2>2 DEF Client!Responds
<1>4. CASE Client!NetworkFails \/ Client!TimesOut
  <2> DEFINE answer == [status |-> Client!NoStatus, retryAfter |-> "none"]
             e == Client!HttpError(Client!NoStatus, "none", TRUE)
  <2>1. phase \in {"fetch", "body"} /\ Client!Fails(e, answer)
    BY <1>4 DEF Client!NetworkFails, Client!TimesOut
  <2>2. answer \in Answers /\ IsErrorOf(e, answer)
    BY DEF Answers, Client!NoStatus, IsErrorOf
  <2>3. QED  BY <2>1, <2>2, ClientFails
<1>5. CASE Client!BodySettles
  <2> DEFINE answer == [status |-> 200, retryAfter |-> "none"]
  <2>1. answer \in Answers /\ IsErrorOf(Client!RawError, answer)
    BY DEF Answers, IsErrorOf
  <2>2. CASE Client!Fails(Client!RawError, answer)
    BY <1>5, <2>1, <2>2, ClientFails DEF Client!BodySettles
  <2>3. CASE /\ phase' = "done" /\ wResult' = "response" /\ answers' = Append(answers, answer)
             /\ UNCHANGED <<config, wAttempt, error, wait>>
    <3>1. Len(answers) = wAttempt - 1 /\ wAttempt \in Nat
      BY <1>5 DEF Client!BodySettles, ClientType, ClientCount
    <3>2. /\ answers' \in Seq(Answers) /\ Len(answers') = wAttempt
          /\ \A n \in 1..Len(answers) : answers'[n] = answers[n]
      BY <2>1, <2>3, <3>1 DEF ClientType
    <3>3. QED  BY <2>3, <3>1, <3>2 DEF ClientType, ClientCount, ClientLast, ClientEarlier, Retryable
  <2>4. QED  BY <1>5, <2>2, <2>3 DEF Client!BodySettles
<1>6. CASE Client!AttemptFails
  <2>1. CASE /\ Client!MayRetry /\ wAttempt < config.attempts /\ ~Client!delayFails
             /\ phase' = "delay" /\ wait' = Client!delay /\ UNCHANGED wResult
    <3>1. /\ phase = "failed" /\ UNCHANGED <<config, wAttempt, error, answers>>
          /\ IsErrorOf(error, answers[wAttempt]) /\ Client!delay' = Client!delay
      BY <1>6 DEF Client!AttemptFails, ClientLast, Client!delay
    <3>2. PICK retryable \in BOOLEAN : error = Client!HttpError(answers[wAttempt].status, answers[wAttempt].retryAfter, retryable)
      BY <2>1, <3>1 DEF IsErrorOf, Client!RawError, Client!delayFails
    <3>3. error.kind = "http" /\ error.status = answers[wAttempt].status
      BY <3>2 DEF Client!HttpError
    <3>4. error.isRateLimited = (answers[wAttempt].status = 429)
      BY <3>2, Zenon DEF Client!HttpError
    <3>5. ASSUME config.when = "isRetryable" PROVE Retryable(wAttempt)
      BY <2>1, <3>3, <3>4, <3>5 DEF Client!MayRetry, Client!isRetryable, Retryable
    <3>6. QED  BY <2>1, <3>1, <3>3, <3>5 DEF ClientType, ClientCount, ClientLast, ClientEarlier, Retryable
  <2>2. CASE phase' = "done" /\ wResult' = "error" /\ UNCHANGED wait
    BY <1>6, <2>2 DEF Client!AttemptFails, ClientType, ClientCount, ClientLast, ClientEarlier, Retryable
  <2>3. QED  BY <1>6, <2>1, <2>2 DEF Client!AttemptFails
<1>7. CASE Client!DelayEnds
  <2>1. ClientType' /\ ClientCount' /\ ClientLast'
    BY <1>7 DEF Client!DelayEnds, ClientType, ClientCount, ClientLast
  <2>2. ClientEarlier'
    BY <1>7 DEF Client!DelayEnds, ClientType, ClientCount, ClientLast, ClientEarlier, Retryable
  <2>3. QED  BY <2>1, <2>2
<1>8. CASE Client!Abort
  BY <1>8 DEF Client!Abort, ClientType, ClientCount, ClientLast, ClientEarlier, Retryable
<1>9. CASE UNCHANGED Client!vars
  <2>1. UNCHANGED <<config, phase, wAttempt, error, wait, answers, wResult>> /\ Client!delay' = Client!delay
    BY <1>9 DEF Client!vars, Client!delay
  <2>2. QED  BY <2>1 DEF ClientType, ClientCount, ClientLast, ClientEarlier, Retryable, IsErrorOf
<1>10. QED
  BY <1>1, <1>2, <1>3, <1>4, <1>5, <1>6, <1>7, <1>8, <1>9 DEF Client!Next

\* For any number of attempts: a Retry-After is waited for, and with the default options no
\* final answer is asked for again.
THEOREM Respected == MCSpec => []ServerIsRespected
<1>1. MCInit => ClientInv
  BY ClientInit DEF MCInit
<1>2. ClientInv /\ [MCNext]_mcvars => ClientInv'
  BY ClientStep, EachStutters
<1>3. ClientInv => ServerIsRespected
  <2> SUFFICES ASSUME ClientInv PROVE ServerIsRespected
    OBVIOUS
  <2>1. Client!TypeOK
    BY DEF ClientInv, ClientType, ClientCount, Client!TypeOK
  <2>2. ASSUME NEW n \in 1..Len(answers), n = wAttempt, phase = "delay", answers[n].status = 429,
               answers[n].retryAfter = "seconds"
        PROVE  wait = "retryAfter"
    <3>1. wait = Client!delay /\ IsErrorOf(error, answers[n]) /\ error.kind = "http"
      BY <2>2 DEF ClientInv, ClientLast
    <3>2. error.isRateLimited /\ error.retryAfter = "seconds"
      <4>1. PICK retryable \in BOOLEAN :
                 error = Client!HttpError(answers[n].status, answers[n].retryAfter, retryable)
        BY <3>1 DEF IsErrorOf, Client!RawError
      <4>2. error = Client!HttpError(429, "seconds", retryable)
        BY <2>2, <4>1
      <4>3. error.isRateLimited = (429 = 429)
        BY <4>2, Zenon DEF Client!HttpError
      <4>4. QED  BY <4>2, <4>3 DEF Client!HttpError
    <3>3. QED  BY <3>1, <3>2 DEF Client!delay
  <2>3. \A n \in 1..Len(answers) : n < wAttempt /\ config.when = "isRetryable" =>
            answers[n].status \in Client!RETRYABLE_STATUS_CODES
    BY DEF ClientInv, ClientEarlier, Retryable
  <2>4. QED  BY <2>1, <2>2, <2>3 DEF ServerIsRespected, Client!ServerIsRespected
<1>4. QED  BY <1>1, <1>2, <1>3, PTL DEF MCSpec

HIDE AttemptsAssumption DEF AttemptsAssumption, Configs, Client!parseRetryAfter,
    Client!RETRYABLE_STATUS_CODES

-----------------------------------------------------------------------------
(* The walk of a directory. *)

\* Where an entry may lie: the root is the empty path.
Dirs == Walk!Paths \cup {<<>>}

\* q lies somewhere below p; neither of the two lies below the other.
Under(p, q) == Walk!IsPrefix(p, q) /\ p # q
Apart(p, q) == ~Walk!IsPrefix(p, q) /\ ~Walk!IsPrefix(q, p)

\* The values the variables of a walk take.
WalkType == /\ tree \in [Walk!Paths -> {"none", "file", "dir", "link"}]
            /\ state \in {"none", "reading", "giving", "done", "thrown"}
            /\ stack \in Seq(Dirs) /\ given \in Seq(Walk!Paths) /\ stable \subseteq Walk!Paths
            /\ dir \in Dirs /\ options.maxDepth \in Nat /\ options.skip \subseteq Walk!Paths
            /\ entries \subseteq [path : Walk!Paths, kind : {"file", "dir", "link"}]

\* What there is lies in directories, up to the root.
WalkTree == \A p, q \in Walk!Paths : tree[q] # "none" /\ Under(p, q) => tree[p] = "dir"

\* What a walk has at hand in each of its states.
WalkIdle == /\ state = "none" => given = <<>>
            /\ state # "giving" => entries = {}
            /\ state = "done" => stack = <<>>

\* The directories to read lie apart, and nothing below them has been given.
WalkStack ==
    /\ \A i, j \in 1..Len(stack) : i # j => Apart(stack[i], stack[j])
    /\ \A i \in 1..Len(stack), k \in 1..Len(given) : ~Under(stack[i], given[k])

\* Nor has anything been given of an entry that the loop has not been through.
WalkEntries ==
    /\ \A e \in entries : Walk!Front(e.path) = dir
    /\ \A e, f \in entries : e.path = f.path => e = f
    /\ \A e \in entries, k \in 1..Len(given) : ~Walk!IsPrefix(e.path, given[k])
    /\ \A e \in entries, i \in 1..Len(stack) : Apart(e.path, stack[i])

\* What was given fits the options, and nothing is entered that is too deep.
WalkBounds ==
    /\ \A k \in 1..Len(given) : /\ Walk!Within(given[k]) /\ given[k] \in options.match
                                /\ Len(given[k]) <= options.maxDepth + 1
    /\ \A i \in 1..Len(stack) : Walk!Within(stack[i]) /\ Len(stack[i]) <= options.maxDepth
    /\ state = "giving" => Walk!Within(dir) /\ Len(dir) <= options.maxDepth

\* What is to be given, and what the walk has yet to come to.
Wanted(p) == /\ Len(p) <= options.maxDepth + 1 /\ Walk!Within(p)
             /\ Walk!Included([path |-> p, kind |-> tree[p]])
Ahead(p) == \/ \E i \in 1..Len(stack) : Under(stack[i], p)
            \/ \E e \in entries : e.path = p /\ e.kind = tree[p]
            \/ \E e \in entries : e.kind = "dir" /\ Under(e.path, p)
\* What is to be given has been given, or the walk has yet to come to it.
WalkFinds == state \in {"reading", "giving", "done"} =>
                 \A p \in stable : Wanted(p) => (\E k \in 1..Len(given) : given[k] = p) \/ Ahead(p)

\* Nothing is given twice.
WalkOnce == \A k, l \in 1..Len(given) : given[k] = given[l] => k = l

WalkInv == /\ WalkType /\ WalkTree /\ WalkIdle /\ WalkStack /\ WalkEntries /\ WalkBounds
           /\ WalkFinds /\ WalkOnce
-----------------------------------------------------------------------------
\* Paths are sequences of names, not empty and not too long.
LEMMA PathFacts == ASSUME NEW p \in Walk!Paths
                   PROVE  p \in Seq(Names) /\ Len(p) \in 1..Levels /\ p # <<>> /\ p \in Dirs
<1>1. PICK n \in 1..Levels : p \in [1..n -> Names]
  BY DEF Walk!Paths
<1>2. Len(p) = n /\ p \in Seq(Names)
  BY <1>1, WalkAssumption DEF WalkAssumption
<1>3. QED  BY <1>1, <1>2 DEF Dirs

LEMMA DirFacts == ASSUME NEW p \in Dirs PROVE p \in Seq(Names) /\ Len(p) \in Nat
<1>1. CASE p \in Walk!Paths
  BY <1>1, PathFacts
<1>2. CASE p = <<>>
  <2>1. <<>> \in Seq(Names) /\ Len(<<>>) = 0
    OBVIOUS
  <2>2. QED  BY <2>1, <1>2
<1>3. QED  BY <1>1, <1>2 DEF Dirs

LEMMA IsAPath == ASSUME NEW p \in Seq(Names), Len(p) \in 1..Levels PROVE p \in Walk!Paths
<1>1. p \in [1..Len(p) -> Names]
  OBVIOUS
<1>2. QED  BY <1>1 DEF Walk!Paths

\* A prefix is no longer than the path and agrees with it.
LEMMA PrefixIs ==
    ASSUME NEW p \in Seq(Names), NEW q \in Seq(Names)
    PROVE  Walk!IsPrefix(p, q) <=> Len(p) <= Len(q) /\ \A i \in 1..Len(p) : p[i] = q[i]
<1>1. ASSUME Len(p) <= Len(q) PROVE /\ SubSeq(q, 1, Len(p)) \in Seq(Names)
                                    /\ Len(SubSeq(q, 1, Len(p))) = Len(p)
                                    /\ \A i \in 1..Len(p) : SubSeq(q, 1, Len(p))[i] = q[i]
  BY <1>1
<1>2. SubSeq(p, 1, Len(p)) = p
  OBVIOUS
<1>3. ASSUME Len(p) <= Len(q), \A i \in 1..Len(p) : p[i] = q[i]
      PROVE  SubSeq(q, 1, Len(p)) = p
  BY <1>1, <1>3
<1>4. QED  BY <1>1, <1>2, <1>3 DEF Walk!IsPrefix

\* A prefix is shorter than the path or equal to it, and prefixes of prefixes are prefixes.
LEMMA PrefixFacts ==
    ASSUME NEW p \in Dirs, NEW q \in Dirs
    PROVE  /\ Walk!IsPrefix(p, p) /\ Walk!IsPrefix(<<>>, p)
           /\ Walk!IsPrefix(p, q) => Len(p) <= Len(q)
           /\ Walk!IsPrefix(p, q) /\ Len(p) = Len(q) => p = q
           /\ Walk!IsPrefix(p, q) /\ p # q => Len(p) < Len(q)
           /\ \A r \in Dirs : Walk!IsPrefix(p, q) /\ Walk!IsPrefix(q, r) => Walk!IsPrefix(p, r)
<1>1. p \in Seq(Names) /\ q \in Seq(Names) /\ <<>> \in Seq(Names) /\ \A r \in Dirs : r \in Seq(Names)
  BY DirFacts
<1>2. Walk!IsPrefix(p, p) /\ Walk!IsPrefix(<<>>, p)
  <2>1. Len(<<>>) = 0 /\ Len(p) \in Nat
    BY <1>1
  <2>2. Walk!IsPrefix(<<>>, p)
    <3> DEFINE e == <<>>
    <3>1. e \in Seq(Names) /\ Len(e) <= Len(p) /\ \A i \in 1..Len(e) : e[i] = p[i]
      BY <1>1, <2>1
    <3> HIDE DEF e
    <3>2. Walk!IsPrefix(e, p)
      BY <1>1, <3>1, PrefixIs
    <3>3. QED  BY <3>2 DEF e
  <2>3. QED  BY <1>1, <2>1, <2>2, PrefixIs
<1>3. Walk!IsPrefix(p, q) => Len(p) <= Len(q)
  BY <1>1, PrefixIs
<1>4. Walk!IsPrefix(p, q) /\ Len(p) = Len(q) => p = q
  BY <1>1, PrefixIs
<1>5. ASSUME NEW r \in Dirs, Walk!IsPrefix(p, q), Walk!IsPrefix(q, r) PROVE Walk!IsPrefix(p, r)
  <2>1. Len(p) <= Len(q) /\ Len(q) <= Len(r) /\ \A i \in 1..Len(p) : p[i] = q[i]
    BY <1>1, <1>5, PrefixIs
  <2>2. \A i \in 1..Len(q) : q[i] = r[i]
    BY <1>1, <1>5, PrefixIs
  <2>3. QED  BY <2>1, <2>2, <1>1, PrefixIs
<1>6. QED  BY <1>1, <1>2, <1>3, <1>4, <1>5

\* The first n elements of a sequence.
LEMMA HeadFacts ==
    ASSUME NEW S, NEW p \in Seq(S), NEW n \in Nat, n <= Len(p)
    PROVE  /\ SubSeq(p, 1, n) \in Seq(S) /\ Len(SubSeq(p, 1, n)) = n
           /\ \A i \in 1..n : SubSeq(p, 1, n)[i] = p[i]
<1>1. \A i \in 1..n : p[i] \in S
  OBVIOUS
<1>2. SubSeq(p, 1, n) \in Seq(S)
  BY <1>1, SubSeqProperties
<1>3. QED  BY <1>1, <1>2

\* A path without its last name is the directory it is in.
LEMMA FrontFacts ==
    ASSUME NEW p \in Walk!Paths
    PROVE  /\ Walk!Front(p) \in Dirs /\ Len(Walk!Front(p)) = Len(p) - 1 /\ Under(Walk!Front(p), p)
           /\ \A q \in Dirs : Under(q, p) => Walk!IsPrefix(q, Walk!Front(p))
<1>1. p \in Seq(Names) /\ Len(p) \in 1..Levels
  BY PathFacts
<1> DEFINE f == SubSeq(p, 1, Len(p) - 1)
<1>2. f \in Seq(Names) /\ Len(f) = Len(p) - 1 /\ \A i \in 1..Len(f) : f[i] = p[i]
  <2>1. Len(p) - 1 \in Nat /\ Len(p) - 1 <= Len(p)
    BY <1>1
  <2>2. QED  BY <2>1, <1>1, HeadFacts
<1>3. f \in Dirs
  <2>1. CASE Len(p) = 1
    <3>1. f = <<>>
      BY <1>2, <2>1
    <3>2. QED  BY <3>1 DEF Dirs
  <2>2. CASE Len(p) # 1
    <3>1. Len(f) \in 1..Levels
      BY <1>1, <1>2, <2>2, WalkAssumption DEF WalkAssumption
    <3>2. QED  BY <3>1, <1>2, IsAPath DEF Dirs
  <2>3. QED  BY <2>1, <2>2
<1>4. Under(f, p)
  <2>1. Len(f) <= Len(p) /\ f # p
    BY <1>1, <1>2
  <2>2. Walk!IsPrefix(f, p)
    BY <1>1, <1>2, <2>1, PrefixIs
  <2>3. QED  BY <2>1, <2>2 DEF Under
<1>5. ASSUME NEW q \in Dirs, Under(q, p) PROVE Walk!IsPrefix(q, f)
  <2>1. q \in Seq(Names) /\ Len(q) \in Nat /\ p \in Dirs
    BY DirFacts, PathFacts
  <2>2. Len(q) <= Len(f) /\ \A i \in 1..Len(q) : q[i] = p[i]
    BY <1>1, <1>2, <2>1, <1>5, PrefixIs, PrefixFacts DEF Under
  <2>3. \A i \in 1..Len(q) : q[i] = f[i]
    BY <2>1, <2>2, <1>2
  <2>4. QED  BY <2>1, <2>2, <2>3, <1>2, PrefixIs
<1>6. QED  BY <1>2, <1>3, <1>4, <1>5 DEF Walk!Front

\* On the way to what lies below a directory is one of its entries.
LEMMA ChildOnTheWay ==
    ASSUME NEW d \in Dirs, NEW p \in Walk!Paths, Under(d, p)
    PROVE  \E c \in Walk!Paths : Walk!Front(c) = d /\ Walk!IsPrefix(c, p)
<1>1. p \in Seq(Names) /\ Len(p) \in 1..Levels /\ d \in Seq(Names) /\ Len(d) \in Nat /\ p \in Dirs
  BY PathFacts, DirFacts
<1>2. Len(d) < Len(p) /\ \A i \in 1..Len(d) : d[i] = p[i]
  BY <1>1, PrefixFacts, PrefixIs DEF Under
<1> DEFINE c == SubSeq(p, 1, Len(d) + 1)
<1>3. c \in Seq(Names) /\ Len(c) = Len(d) + 1 /\ \A i \in 1..Len(c) : c[i] = p[i]
  BY <1>1, <1>2, HeadFacts
<1>4. c \in Walk!Paths
  <2>1. Len(c) \in 1..Levels
    BY <1>1, <1>2, <1>3, WalkAssumption DEF WalkAssumption
  <2>2. QED  BY <2>1, <1>3, IsAPath
<1> DEFINE f == SubSeq(c, 1, Len(c) - 1)
<1>5. f \in Seq(Names) /\ Len(f) = Len(d) /\ \A i \in 1..Len(f) : f[i] = c[i]
  BY <1>1, <1>3, HeadFacts
<1>6. f = d
  <2>1. \A i \in 1..Len(f) : f[i] = d[i]
    BY <1>1, <1>2, <1>3, <1>5
  <2>2. QED  BY <2>1, <1>5, <1>1
<1>7. Walk!IsPrefix(c, p)
  <2>1. Len(c) <= Len(p)
    BY <1>1, <1>2, <1>3
  <2>2. QED  BY <2>1, <1>1, <1>3, PrefixIs
<1>8. QED  BY <1>4, <1>6, <1>7 DEF Walk!Front
-----------------------------------------------------------------------------
LEMMA WalkInit == Walk!Init => WalkInv
<1> SUFFICES ASSUME Walk!Init PROVE WalkInv
  OBVIOUS
<1>1. WalkType
  BY DEF Walk!Init, WalkType, Dirs
<1>2. WalkTree
  BY DEF Walk!Init, WalkTree
<1>3. WalkIdle /\ WalkStack /\ WalkEntries /\ WalkBounds /\ WalkOnce
  BY DEF Walk!Init, WalkIdle, WalkStack, WalkEntries, WalkBounds, WalkOnce
<1>4. WalkFinds
  BY DEF Walk!Init, WalkFinds
<1>5. QED  BY <1>1, <1>2, <1>3, <1>4 DEF WalkInv

\* Others change the tree: what is still stable is as it was.
LEMMA WalkChange == WalkInv /\ Walk!Change => WalkInv'
<1> SUFFICES ASSUME WalkInv, Walk!Change PROVE WalkInv'
  OBVIOUS
<1> USE DEF WalkInv
<1>1. /\ UNCHANGED <<options, state, stack, dir, entries, given>>
      /\ tree \in [Walk!Paths -> {"none", "file", "dir", "link"}] /\ stable \subseteq Walk!Paths
  BY DEF Walk!Change, WalkType
<1>2. PICK p \in Walk!Paths :
         \/ /\ tree[p] = "none" /\ Walk!Kind(Walk!Front(p)) = "dir"
            /\ \E kind_1 \in {"file", "dir", "link"} : tree' = [tree EXCEPT ![p] = kind_1]
            /\ stable' = stable \ {p}
         \/ /\ tree[p] # "none"
            /\ tree' = [q \in Walk!Paths |-> IF Walk!IsPrefix(p, q) THEN "none" ELSE tree[q]]
            /\ stable' = stable \ {q \in Walk!Paths : Walk!IsPrefix(p, q)}
  BY DEF Walk!Change
<1>3. /\ tree' \in [Walk!Paths -> {"none", "file", "dir", "link"}]
      /\ stable' \subseteq stable /\ \A q \in stable' : tree'[q] = tree[q]
      /\ WalkTree'
  <2>1. CASE /\ tree[p] = "none" /\ Walk!Kind(Walk!Front(p)) = "dir"
             /\ \E kind_1 \in {"file", "dir", "link"} : tree' = [tree EXCEPT ![p] = kind_1]
             /\ stable' = stable \ {p}
    <3>1. /\ tree' \in [Walk!Paths -> {"none", "file", "dir", "link"}]
          /\ stable' \subseteq stable /\ \A q \in Walk!Paths : q # p => tree'[q] = tree[q]
          /\ p \notin stable'
      BY <1>1, <2>1
    <3>2. ASSUME NEW q \in Walk!Paths, NEW r \in Walk!Paths, tree'[r] # "none", Under(q, r)
          PROVE  tree'[q] = "dir"
      <4>1. CASE r = p
        <5>1. q # p /\ Walk!IsPrefix(q, Walk!Front(p)) /\ Walk!Front(p) \in Dirs /\ q # <<>> /\ q \in Dirs
          BY <3>2, <4>1, FrontFacts, PathFacts DEF Under
        <5>2. CASE Walk!Front(p) = <<>>
          <6>1. <<>> \in Dirs /\ Walk!IsPrefix(<<>>, q) /\ Len(<<>>) = 0
            BY <5>1, PrefixFacts DEF Dirs
          <6>2. Len(q) \in 1..Levels /\ Len(q) <= 0
            BY <5>1, <5>2, <6>1, PathFacts, PrefixFacts
          <6>3. QED  BY <6>2, WalkAssumption DEF WalkAssumption
        <5>3. CASE Walk!Front(p) # <<>>
          <6>1. Walk!Front(p) \in Walk!Paths /\ tree[Walk!Front(p)] = "dir"
            BY <5>1, <5>3, <2>1 DEF Dirs, Walk!Kind
          <6>2. tree[q] = "dir"
            BY <6>1, <5>1 DEF WalkTree, Under
          <6>3. QED  BY <6>2, <5>1, <3>1
        <5>4. QED  BY <5>2, <5>3
      <4>2. CASE r # p
        <5>1. tree[q] = "dir"
          BY <3>1, <3>2, <4>2 DEF WalkTree
        <5>2. q # p
          BY <5>1, <2>1
        <5>3. QED  BY <5>1, <5>2, <3>1
      <4>3. QED  BY <4>1, <4>2
    <3>3. QED  BY <3>1, <3>2, <1>1 DEF WalkTree
  <2>2. CASE /\ tree[p] # "none"
             /\ tree' = [q \in Walk!Paths |-> IF Walk!IsPrefix(p, q) THEN "none" ELSE tree[q]]
             /\ stable' = stable \ {q \in Walk!Paths : Walk!IsPrefix(p, q)}
    <3>1. /\ tree' \in [Walk!Paths -> {"none", "file", "dir", "link"}] /\ stable' \subseteq stable
          /\ \A q \in Walk!Paths : ~Walk!IsPrefix(p, q) => tree'[q] = tree[q]
          /\ \A q \in Walk!Paths : Walk!IsPrefix(p, q) => tree'[q] = "none"
          /\ \A q \in stable' : ~Walk!IsPrefix(p, q) /\ q \in Walk!Paths
      BY <1>1, <2>2
    <3>2. ASSUME NEW q \in Walk!Paths, NEW r \in Walk!Paths, tree'[r] # "none", Under(q, r)
          PROVE  tree'[q] = "dir"
      <4>1. ~Walk!IsPrefix(p, r) /\ tree[q] = "dir"
        BY <3>1, <3>2 DEF WalkTree
      <4>2. ~Walk!IsPrefix(p, q)
        BY <4>1, <3>2, PrefixFacts, PathFacts DEF Under
      <4>3. QED  BY <4>1, <4>2, <3>1
    <3>3. QED  BY <3>1, <3>2, <1>1 DEF WalkTree
  <2>3. QED  BY <1>2, <2>1, <2>2
<1>4. WalkType'
  BY <1>1, <1>3 DEF WalkType
<1>5. WalkIdle' /\ WalkStack' /\ WalkEntries' /\ WalkOnce'
  BY <1>1 DEF WalkIdle, WalkStack, WalkEntries, WalkOnce
<1>6. \A q : Walk!Within(q)' <=> Walk!Within(q)
  BY <1>1 DEF Walk!Within
<1>7. WalkBounds'
  BY <1>1, <1>6 DEF WalkBounds
<1>8. \A q \in stable' : (Wanted(q)' => Wanted(q)) /\ (Ahead(q) => Ahead(q)')
  BY <1>1, <1>3, <1>6 DEF Wanted, Ahead, Walk!Included
<1>9. WalkFinds'
  BY <1>1, <1>3, <1>8 DEF WalkFinds
<1>10. QED  BY <1>3, <1>4, <1>5, <1>7, <1>9

\* walk() puts the root on the stack.
LEMMA WalkBegins == WalkInv /\ Walk!walk => WalkInv'
<1> SUFFICES ASSUME WalkInv, Walk!walk PROVE WalkInv'
  OBVIOUS
<1> USE DEF WalkInv
<1>1. /\ state = "none" /\ state' = "reading" /\ stack' = << <<>> >> /\ stable' = Walk!Paths
      /\ given = <<>> /\ entries = {} /\ UNCHANGED <<tree, dir, entries, given>>
  BY DEF Walk!walk, WalkIdle
<1>2. options'.maxDepth \in Nat /\ options'.skip \subseteq Walk!Paths
  <2>1. PICK maxDepth \in Depths, match \in Patterns \cup {Walk!Paths}, skip \in Patterns \cup {{}} :
           \E without \in {"none", "file", "dir", "link"} :
              options' = [maxDepth |-> maxDepth, match |-> match, skip |-> skip,
                          files |-> without # "file", dirs |-> without # "dir",
                          links |-> without # "link"]
    BY DEF Walk!walk
  <2>2. options'.maxDepth = maxDepth /\ options'.skip = skip
    BY <2>1
  <2>3. QED  BY <2>1, <2>2, WalkAssumption DEF WalkAssumption
<1>3. /\ stack' \in Seq(Dirs) /\ Len(stack') = 1 /\ stack'[1] = <<>>
      /\ given' \in Seq(Walk!Paths) /\ Len(given') = 0
  BY <1>1 DEF Dirs
<1>4. WalkType'
  BY <1>1, <1>2, <1>3 DEF WalkType
<1>5. WalkTree'
  BY <1>1 DEF WalkTree
<1>6. WalkIdle' /\ WalkStack' /\ WalkEntries' /\ WalkOnce'
  BY <1>1, <1>3 DEF WalkIdle, WalkStack, WalkEntries, WalkOnce
<1>7. WalkBounds'
  <2>1. ASSUME NEW q \in options'.skip PROVE ~Walk!IsPrefix(q, <<>>)
    <3>1. q \in Dirs /\ Len(q) \in 1..Levels /\ <<>> \in Dirs /\ Len(<<>>) = 0
      BY <2>1, <1>2, PathFacts DEF Dirs
    <3>2. QED  BY <3>1, PrefixFacts, WalkAssumption DEF WalkAssumption
  <2>2. Walk!Within(<<>>)'
    BY <2>1 DEF Walk!Within
  <2>3. Len(<<>>) = 0
    OBVIOUS
  <2>4. QED  BY <2>2, <2>3, <1>1, <1>2, <1>3 DEF WalkBounds
<1>8. WalkFinds'
  <2>1. ASSUME NEW p \in Walk!Paths PROVE Ahead(p)'
    <3>1. Under(<<>>, p)
      BY PathFacts, PrefixFacts DEF Under
    <3>2. 1 \in 1..Len(stack') /\ Under(stack'[1], p)
      BY <3>1, <1>3
    <3>3. QED  BY <3>2 DEF Ahead
  <2>2. QED  BY <2>1, <1>1 DEF WalkFinds
<1>9. QED  BY <1>4, <1>5, <1>6, <1>7, <1>8
-----------------------------------------------------------------------------
\* What readdir answers.
LEMMA ReadFacts ==
    ASSUME WalkType, NEW d \in Dirs
    PROVE  /\ \A e \in Walk!ReadDir(d) : /\ e \in [path : Walk!Paths, kind : {"file", "dir", "link"}]
                                         /\ Walk!Front(e.path) = d /\ e.kind = tree[e.path]
           /\ \A p \in Walk!Paths : Walk!Front(p) = d /\ tree[p] # "none" =>
                 \E e \in Walk!ReadDir(d) : e.path = p /\ e.kind = tree[p]
<1>1. ASSUME NEW e \in Walk!ReadDir(d)
      PROVE  /\ e \in [path : Walk!Paths, kind : {"file", "dir", "link"}]
             /\ Walk!Front(e.path) = d /\ e.kind = tree[e.path]
  <2>1. PICK p \in Walk!Paths : /\ Walk!Front(p) = d /\ tree[p] # "none"
                                /\ e = [path |-> p, kind |-> tree[p]]
    BY <1>1 DEF Walk!ReadDir
  <2>2. tree[p] \in {"file", "dir", "link"}
    BY <2>1 DEF WalkType
  <2>3. e.path = p /\ e.kind = tree[p]
    BY <2>1
  <2>4. QED  BY <2>1, <2>2, <2>3
<1>2. ASSUME NEW p \in Walk!Paths, Walk!Front(p) = d, tree[p] # "none"
      PROVE  \E e \in Walk!ReadDir(d) : e.path = p /\ e.kind = tree[p]
  <2> DEFINE e == [path |-> p, kind |-> tree[p]]
  <2>1. e \in Walk!ReadDir(d)
    BY <1>2 DEF Walk!ReadDir
  <2>2. e.path = p /\ e.kind = tree[p]
    OBVIOUS
  <2>3. QED  BY <2>1, <2>2
<1>3. QED  BY <1>1, <1>2

\* The paths that fit a pattern stand apart when they are of one length.
LEMMA Siblings ==
    ASSUME NEW p \in Walk!Paths, NEW q \in Walk!Paths, Walk!Front(p) = Walk!Front(q), p # q
    PROVE  Apart(p, q)
<1>1. Len(p) = Len(q)
  BY FrontFacts, PathFacts
<1>2. QED  BY <1>1, PathFacts, PrefixFacts DEF Apart

\* What stands apart from a directory stands apart from its entries.
LEMMA ApartBelow ==
    ASSUME NEW p \in Walk!Paths, NEW q \in Dirs, Apart(Walk!Front(p), q)
    PROVE  Apart(p, q)
<1>1. /\ p \in Dirs /\ Walk!Front(p) \in Dirs /\ Walk!IsPrefix(Walk!Front(p), p)
      /\ \A r \in Dirs : Under(r, p) => Walk!IsPrefix(r, Walk!Front(p))
  BY PathFacts, FrontFacts DEF Under
<1>2. ~Walk!IsPrefix(p, q)
  BY <1>1, PrefixFacts DEF Apart
<1>3. ~Walk!IsPrefix(q, p)
  BY <1>1, PrefixFacts DEF Apart, Under
<1>4. QED  BY <1>2, <1>3 DEF Apart

\* The last directory of the stack becomes the one at hand.
LEMMA WalkReads == WalkInv /\ Walk!ReadsNext => WalkInv'
<1> SUFFICES ASSUME WalkInv, Walk!ReadsNext PROVE WalkInv'
  OBVIOUS
<1> USE DEF WalkInv
<1> DEFINE n == Len(stack)
<1>1. /\ state = "reading" /\ UNCHANGED <<tree, options, given, stable>>
      /\ n \in Nat /\ n >= 1 /\ stack \in Seq(Dirs)
      /\ dir' = stack[n] /\ dir' \in Dirs
  BY DEF Walk!ReadsNext, WalkType, Walk!Last
<1>2. /\ stack' \in Seq(Dirs) /\ Len(stack') = n - 1
      /\ \A i \in 1..Len(stack') : stack'[i] = stack[i]
  <2>1. stack' = SubSeq(stack, 1, n - 1)
    BY DEF Walk!ReadsNext, Walk!Front
  <2>2. n - 1 \in Nat /\ n - 1 <= Len(stack)
    BY <1>1
  <2>3. QED  BY <2>1, <2>2, <1>1, HeadFacts
<1>3. \/ state' = "giving" /\ Walk!Kind(dir') = "dir" /\ entries' = Walk!ReadDir(dir')
      \/ state' = "thrown" /\ entries' = {}
  BY DEF Walk!ReadsNext
<1>4. \A e \in entries' : /\ e \in [path : Walk!Paths, kind : {"file", "dir", "link"}]
                          /\ Walk!Front(e.path) = dir' /\ e.kind = tree[e.path]
  BY <1>1, <1>3, ReadFacts
<1>5. \A i \in 1..Len(stack') : i \in 1..n /\ i # n
  BY <1>1, <1>2
<1>6. WalkType'
  BY <1>1, <1>2, <1>3, <1>4 DEF WalkType
<1>7. WalkTree' /\ WalkOnce'
  BY <1>1 DEF WalkTree, WalkOnce
<1>8. WalkIdle'
  BY <1>1, <1>3 DEF WalkIdle
<1>9. WalkStack'
  BY <1>1, <1>2, <1>5 DEF WalkStack
<1>10. WalkEntries'
  <2>1. ASSUME NEW e \in entries', NEW f \in entries', e.path = f.path PROVE e = f
    <3>1. e.kind = f.kind
      BY <1>4, <2>1
    <3>2. QED  BY <1>4, <2>1, <3>1
  <2>2. ASSUME NEW e \in entries', NEW k \in 1..Len(given) PROVE ~Walk!IsPrefix(e.path, given[k])
    <3>1. e.path \in Walk!Paths /\ Walk!Front(e.path) = stack[n] /\ given[k] \in Dirs /\ n \in 1..n
      BY <1>1, <1>4 DEF WalkType, Dirs
    <3>2. ~Under(stack[n], given[k])
      BY <3>1 DEF WalkStack
    <3>3. Walk!IsPrefix(stack[n], e.path) /\ stack[n] # e.path /\ stack[n] \in Dirs /\ e.path \in Dirs
      BY <3>1, <1>1, FrontFacts, PathFacts DEF Under
    <3>4. SUFFICES ASSUME Walk!IsPrefix(e.path, given[k]) PROVE FALSE
      OBVIOUS
    <3>5. Walk!IsPrefix(stack[n], given[k]) /\ Len(stack[n]) < Len(e.path) /\ Len(e.path) <= Len(given[k])
      BY <3>1, <3>3, <3>4, PrefixFacts
    <3>6. stack[n] # given[k]
      BY <3>5, <3>3, DirFacts
    <3>7. QED  BY <3>2, <3>5, <3>6 DEF Under
  <2>3. ASSUME NEW e \in entries', NEW i \in 1..Len(stack') PROVE Apart(e.path, stack'[i])
    <3>1. Apart(stack[n], stack[i]) /\ stack'[i] = stack[i] /\ stack[i] \in Dirs
      BY <1>1, <1>2, <1>5 DEF WalkStack
    <3>2. QED  BY <3>1, <1>1, <1>4, ApartBelow
  <2>4. QED  BY <2>1, <2>2, <2>3, <1>1, <1>4 DEF WalkEntries
<1>11. WalkBounds'
  <2>1. \A q : Walk!Within(q)' <=> Walk!Within(q)
    BY <1>1 DEF Walk!Within
  <2>2. n \in 1..n
    BY <1>1
  <2>3. QED  BY <2>1, <2>2, <1>1, <1>2, <1>5 DEF WalkBounds
<1>12. WalkFinds'
  <2> SUFFICES ASSUME state' = "giving", NEW p \in stable, Wanted(p)', ~ \E k \in 1..Len(given) : given[k] = p
               PROVE  Ahead(p)'
    BY <1>1, <1>3 DEF WalkFinds
  <2>1. Wanted(p) /\ p \in Walk!Paths
    BY <1>1 DEF Wanted, Walk!Within, Walk!Included, WalkType
  <2>2. Ahead(p) /\ entries = {}
    BY <2>1, <1>1 DEF WalkFinds, WalkIdle
  <2>3. PICK i \in 1..n : Under(stack[i], p)
    BY <2>2 DEF Ahead
  <2>4. CASE i # n
    <3>1. i \in 1..Len(stack') /\ stack'[i] = stack[i]
      BY <1>1, <1>2, <2>4
    <3>2. QED  BY <2>3, <3>1 DEF Ahead
  <2>5. CASE i = n
    <3>1. PICK c \in Walk!Paths : Walk!Front(c) = dir' /\ Walk!IsPrefix(c, p)
      BY <1>1, <2>1, <2>3, <2>5, ChildOnTheWay
    <3>2. tree[p] # "none"
      <4>1. [path |-> p, kind |-> tree[p]].kind = tree[p]
        OBVIOUS
      <4>2. QED  BY <4>1, <2>1 DEF Wanted, Walk!Included
    <3>3. tree[c] # "none" /\ (c # p => tree[c] = "dir")
      BY <3>1, <3>2, <2>1 DEF WalkTree, Under
    <3>4. PICK e \in entries' : e.path = c /\ e.kind = tree[c]
      BY <1>1, <1>3, <3>1, <3>3, ReadFacts
    <3>5. QED  BY <3>1, <3>3, <3>4, <1>1 DEF Ahead, Under
  <2>6. QED  BY <2>4, <2>5
<1>13. QED  BY <1>6, <1>7, <1>8, <1>9, <1>10, <1>11, <1>12
\* An entry is given, or entered, or passed over.
LEMMA WalkGives == WalkInv /\ Walk!Gives => WalkInv'
<1> SUFFICES ASSUME WalkInv, Walk!Gives PROVE WalkInv'
  OBVIOUS
<1> USE DEF WalkInv
<1>1. PICK e \in entries :
         /\ entries' = entries \ {e}
         /\ given' = IF e.path \notin options.skip /\ Walk!Included(e) THEN Append(given, e.path)
                                                                      ELSE given
         /\ stack' = IF e.path \notin options.skip /\ Walk!Entered(e) THEN Append(stack, e.path)
                                                                     ELSE stack
  BY DEF Walk!Gives
<1>2. /\ state = "giving" /\ UNCHANGED <<tree, options, state, dir, stable>>
      /\ given \in Seq(Walk!Paths) /\ stack \in Seq(Dirs)
      /\ e.path \in Walk!Paths /\ e.path \in Dirs /\ Walk!Front(e.path) = dir /\ dir \in Dirs
      /\ e.kind \in {"file", "dir", "link"}
  BY PathFacts DEF Walk!Gives, WalkType, WalkEntries
<1>3. /\ given' \in Seq(Walk!Paths) /\ Len(given') >= Len(given)
      /\ \A k \in 1..Len(given) : given'[k] = given[k]
      /\ \A k \in 1..Len(given') : k \notin 1..Len(given) =>
            k = Len(given) + 1 /\ given'[k] = e.path /\ e.path \notin options.skip /\ Walk!Included(e)
      /\ e.path \notin options.skip /\ Walk!Included(e) =>
            Len(given) + 1 \in 1..Len(given') /\ given'[Len(given) + 1] = e.path
  <2>1. CASE e.path \notin options.skip /\ Walk!Included(e)
    <3>1. given' = Append(given, e.path)
      BY <1>1, <2>1
    <3>2. QED  BY <3>1, <2>1, <1>2, AppendProperties
  <2>2. CASE ~ (e.path \notin options.skip /\ Walk!Included(e))
    <3>1. given' = given
      BY <1>1, <2>2
    <3>2. QED  BY <3>1, <2>2, <1>2
  <2>3. QED  BY <2>1, <2>2
<1>4. /\ stack' \in Seq(Dirs)
      /\ \A i \in 1..Len(stack) : i \in 1..Len(stack') /\ stack'[i] = stack[i]
      /\ \A i \in 1..Len(stack') : i \notin 1..Len(stack) =>
            i = Len(stack) + 1 /\ stack'[i] = e.path /\ e.path \notin options.skip /\ Walk!Entered(e)
      /\ e.path \notin options.skip /\ Walk!Entered(e) =>
            Len(stack) + 1 \in 1..Len(stack') /\ stack'[Len(stack) + 1] = e.path
  <2>1. CASE e.path \notin options.skip /\ Walk!Entered(e)
    <3>1. stack' = Append(stack, e.path)
      BY <1>1, <2>1
    <3>2. QED  BY <3>1, <2>1, <1>2, AppendProperties
  <2>2. CASE ~ (e.path \notin options.skip /\ Walk!Entered(e))
    <3>1. stack' = stack
      BY <1>1, <2>2
    <3>2. QED  BY <3>1, <2>2, <1>2
  <2>3. QED  BY <2>1, <2>2
<1>5. WalkType'
  BY <1>1, <1>2, <1>3, <1>4 DEF WalkType
<1>6. WalkTree' /\ WalkIdle'
  BY <1>2 DEF WalkTree, WalkIdle
<1>7. \A k \in 1..Len(given) : given[k] \in Dirs
  BY <1>2 DEF Dirs
<1>8. \A f \in entries' : /\ f \in entries /\ f.path \in Walk!Paths /\ f.path \in Dirs
                          /\ Apart(f.path, e.path)
  <2>1. ASSUME NEW f \in entries' PROVE f \in entries /\ f # e
    BY <1>1, <2>1
  <2>2. ASSUME NEW f \in entries' PROVE f.path # e.path /\ f.path \in Walk!Paths /\ Walk!Front(f.path) = dir
    BY <2>1, <1>2 DEF WalkEntries, WalkType
  <2>3. QED  BY <2>1, <2>2, <1>2, Siblings, PathFacts
<1>9. WalkStack'
  <2>1. ASSUME NEW i \in 1..Len(stack'), NEW j \in 1..Len(stack'), i # j
        PROVE  Apart(stack'[i], stack'[j])
    <3>1. CASE i \in 1..Len(stack) /\ j \in 1..Len(stack)
      BY <3>1, <2>1, <1>4 DEF WalkStack
    <3>2. CASE i \notin 1..Len(stack)
      BY <3>2, <2>1, <1>4 DEF WalkEntries
    <3>3. CASE j \notin 1..Len(stack)
      BY <3>3, <2>1, <1>4 DEF WalkEntries, Apart
    <3>4. QED  BY <3>1, <3>2, <3>3
  <2>2. ASSUME NEW i \in 1..Len(stack'), NEW k \in 1..Len(given') PROVE ~Under(stack'[i], given'[k])
    <3>1. CASE i \in 1..Len(stack) /\ k \in 1..Len(given)
      BY <3>1, <1>3, <1>4 DEF WalkStack
    <3>2. CASE i \in 1..Len(stack) /\ k \notin 1..Len(given)
      BY <3>2, <1>3, <1>4 DEF WalkEntries, Apart, Under
    <3>3. CASE i \notin 1..Len(stack) /\ k \in 1..Len(given)
      BY <3>3, <1>3, <1>4 DEF WalkEntries, Under
    <3>4. CASE i \notin 1..Len(stack) /\ k \notin 1..Len(given)
      BY <3>4, <1>3, <1>4 DEF Under
    <3>5. QED  BY <3>1, <3>2, <3>3, <3>4
  <2>3. QED  BY <2>1, <2>2 DEF WalkStack
<1>10. WalkEntries'
  <2>1. \A f \in entries' : Walk!Front(f.path) = dir'
    BY <1>2, <1>8 DEF WalkEntries
  <2>2. \A f, g \in entries' : f.path = g.path => f = g
    BY <1>8 DEF WalkEntries
  <2>3. ASSUME NEW f \in entries', NEW k \in 1..Len(given') PROVE ~Walk!IsPrefix(f.path, given'[k])
    <3>1. CASE k \in 1..Len(given)
      BY <3>1, <1>3, <1>8 DEF WalkEntries
    <3>2. CASE k \notin 1..Len(given)
      BY <3>2, <1>3, <1>8 DEF Apart
    <3>3. QED  BY <3>1, <3>2
  <2>4. ASSUME NEW f \in entries', NEW i \in 1..Len(stack') PROVE Apart(f.path, stack'[i])
    <3>1. CASE i \in 1..Len(stack)
      BY <3>1, <1>4, <1>8 DEF WalkEntries
    <3>2. CASE i \notin 1..Len(stack)
      BY <3>2, <1>4, <1>8
    <3>3. QED  BY <3>1, <3>2
  <2>5. QED  BY <2>1, <2>2, <2>3, <2>4 DEF WalkEntries
<1>11. \A q : Walk!Within(q)' <=> Walk!Within(q)
  BY <1>2 DEF Walk!Within
<1>12. e.path \notin options.skip => Walk!Within(e.path)
  <2> SUFFICES ASSUME e.path \notin options.skip, NEW q \in options.skip, Walk!IsPrefix(q, e.path)
               PROVE  FALSE
    BY DEF Walk!Within
  <2>1. q \in Dirs /\ Under(q, e.path)
    BY PathFacts DEF WalkType, Under
  <2>2. Walk!IsPrefix(q, dir)
    BY <2>1, <1>2, FrontFacts
  <2>3. QED  BY <2>2, <1>2 DEF WalkBounds, Walk!Within
<1>13. /\ Len(e.path) \in Nat /\ Len(dir) \in Nat /\ Len(e.path) = Len(dir) + 1
       /\ Len(dir) <= options.maxDepth /\ options.maxDepth \in Nat
  BY <1>2, FrontFacts, DirFacts DEF WalkBounds, WalkType
<1>14. WalkBounds'
  <2>1. ASSUME NEW k \in 1..Len(given')
        PROVE  /\ Walk!Within(given'[k]) /\ given'[k] \in options.match
               /\ Len(given'[k]) <= options.maxDepth + 1
    <3>1. CASE k \in 1..Len(given)
      BY <3>1, <1>3 DEF WalkBounds
    <3>2. CASE k \notin 1..Len(given)
      BY <3>2, <1>3, <1>12, <1>13 DEF Walk!Included
    <3>3. QED  BY <3>1, <3>2
  <2>2. ASSUME NEW i \in 1..Len(stack')
        PROVE  Walk!Within(stack'[i]) /\ Len(stack'[i]) <= options.maxDepth
    <3>1. CASE i \in 1..Len(stack)
      BY <3>1, <1>4 DEF WalkBounds
    <3>2. CASE i \notin 1..Len(stack)
      BY <3>2, <1>4, <1>12, <1>13 DEF Walk!Entered
    <3>3. QED  BY <3>1, <3>2
  <2>3. QED  BY <2>1, <2>2, <1>2, <1>11 DEF WalkBounds
<1>15. WalkFinds'
  <2> SUFFICES ASSUME NEW p \in stable, Wanted(p)', ~ \E k \in 1..Len(given') : given'[k] = p
               PROVE  Ahead(p)'
    BY <1>2 DEF WalkFinds
  <2>1. Wanted(p) /\ p \in Walk!Paths /\ p \in Dirs
    BY <1>2, PathFacts DEF Wanted, Walk!Within, Walk!Included, WalkType
  <2>2. ~ \E k \in 1..Len(given) : given[k] = p
    BY <1>3, <1>2
  <2>3. Ahead(p)
    BY <2>1, <2>2, <1>2 DEF WalkFinds
  <2>4. CASE \E i \in 1..Len(stack) : Under(stack[i], p)
    BY <2>4, <1>4 DEF Ahead
  <2>5. CASE \E f \in entries : f # e /\ f.path = p /\ f.kind = tree[p]
    BY <2>5, <1>1, <1>2 DEF Ahead
  <2>6. CASE \E f \in entries : f # e /\ f.kind = "dir" /\ Under(f.path, p)
    BY <2>6, <1>1, <1>2 DEF Ahead
  <2>7. CASE e.path = p /\ e.kind = tree[p]
    <3>1. p \notin options.skip
      BY <2>1, PrefixFacts DEF Wanted, Walk!Within
    <3>2. [path |-> p, kind |-> tree[p]].path = p /\ [path |-> p, kind |-> tree[p]].kind = tree[p]
      OBVIOUS
    <3>3. Walk!Included(e)
      BY <2>1, <2>7, <3>2 DEF Wanted, Walk!Included
    <3>4. QED  BY <3>1, <3>3, <2>7, <1>3
  <2>8. CASE e.kind = "dir" /\ Under(e.path, p)
    <3>1. e.path \notin options.skip
      BY <2>1, <2>8 DEF Wanted, Walk!Within, Under
    <3>2. Len(e.path) < Len(p) /\ Len(p) <= options.maxDepth + 1 /\ Len(p) \in Nat
      BY <2>1, <2>8, <1>2, PrefixFacts, DirFacts DEF Under, Wanted
    <3>3. Walk!Entered(e)
      BY <3>2, <2>8, <1>13 DEF Walk!Entered
    <3>4. QED  BY <3>1, <3>3, <2>8, <1>4 DEF Ahead
  <2>9. QED  BY <2>3, <2>4, <2>5, <2>6, <2>7, <2>8 DEF Ahead
<1>16. WalkOnce'
  <2>1. ASSUME NEW k \in 1..Len(given), NEW l \in 1..Len(given'), l \notin 1..Len(given)
        PROVE  given'[k] # given'[l]
    <3>1. given'[l] = e.path /\ given'[k] = given[k] /\ Walk!IsPrefix(e.path, e.path)
      BY <2>1, <1>2, <1>3, PrefixFacts
    <3>2. QED  BY <3>1 DEF WalkEntries
  <2>2. ASSUME NEW k \in 1..Len(given'), NEW l \in 1..Len(given'), given'[k] = given'[l] PROVE k = l
    <3>1. CASE k \in 1..Len(given) /\ l \in 1..Len(given)
      BY <3>1, <2>2, <1>3 DEF WalkOnce
    <3>2. CASE k \in 1..Len(given) /\ l \notin 1..Len(given)
      BY <3>2, <2>2, <2>1
    <3>3. CASE k \notin 1..Len(given) /\ l \in 1..Len(given)
      BY <3>3, <2>2, <2>1
    <3>4. CASE k \notin 1..Len(given) /\ l \notin 1..Len(given)
      BY <3>4, <1>3
    <3>5. QED  BY <3>1, <3>2, <3>3, <3>4
  <2>3. QED  BY <2>2 DEF WalkOnce
<1>17. QED  BY <1>5, <1>6, <1>9, <1>10, <1>14, <1>15, <1>16

LEMMA WalkStep == WalkInv /\ [Walk!Next]_walk => WalkInv'
<1> SUFFICES ASSUME WalkInv, [Walk!Next]_walk PROVE WalkInv'
  OBVIOUS
<1> USE DEF WalkInv
<1>1. CASE Walk!DirectoryEnds \/ Walk!WalkEnds
  <2>1. /\ state \in {"reading", "giving"} /\ entries = {} /\ state' \in {"reading", "done"}
        /\ state' = "done" => stack = <<>>
        /\ UNCHANGED <<tree, options, stack, dir, entries, given, stable>>
    BY <1>1 DEF Walk!DirectoryEnds, Walk!WalkEnds, WalkIdle
  <2>2. WalkType' /\ WalkTree' /\ WalkIdle' /\ WalkStack' /\ WalkEntries' /\ WalkOnce'
    BY <2>1 DEF WalkType, WalkTree, WalkIdle, WalkStack, WalkEntries, WalkOnce
  <2>3. WalkBounds' /\ WalkFinds'
    BY <2>1 DEF WalkBounds, WalkFinds, Wanted, Ahead, Walk!Within, Walk!Included
  <2>4. QED  BY <2>2, <2>3
<1>2. CASE Walk!Leave
  <2>1. /\ state = "giving" /\ state' = "thrown" /\ entries' = {} /\ stack' = <<>>
        /\ UNCHANGED <<tree, options, dir, given, stable>>
    BY <1>2 DEF Walk!Leave
  <2>2. stack' \in Seq(Dirs) /\ Len(stack') = 0
    BY <2>1
  <2>3. WalkType' /\ WalkTree' /\ WalkIdle' /\ WalkStack' /\ WalkEntries' /\ WalkOnce'
    BY <2>1, <2>2 DEF WalkType, WalkTree, WalkIdle, WalkStack, WalkEntries, WalkOnce
  <2>4. WalkBounds' /\ WalkFinds'
    BY <2>1, <2>2 DEF WalkBounds, WalkFinds, Walk!Within
  <2>5. QED  BY <2>3, <2>4
<1>3. CASE UNCHANGED walk
  <2>1. UNCHANGED <<tree, changes, options, state, stack, dir, entries, given, stable>>
    BY <1>3 DEF walk
  <2>2. WalkType' /\ WalkTree' /\ WalkIdle' /\ WalkStack' /\ WalkEntries' /\ WalkOnce'
    BY <2>1 DEF WalkType, WalkTree, WalkIdle, WalkStack, WalkEntries, WalkOnce
  <2>3. WalkBounds' /\ WalkFinds'
    BY <2>1 DEF WalkBounds, WalkFinds, Wanted, Ahead, Walk!Within, Walk!Included
  <2>4. QED  BY <2>2, <2>3
<1>4. QED  BY <1>1, <1>2, <1>3, WalkChange, WalkBegins, WalkReads, WalkGives DEF Walk!Next

\* For any tree, options and depth: a walk gives every entry that fits and was there all the time,
\* once, and none that is excluded, while others change the tree.
THEOREM WalkIsComplete == MCSpec => []WalkFindsTheTree
<1>1. MCInit => WalkInv
  BY WalkInit DEF MCInit
<1>2. WalkInv /\ [MCNext]_mcvars => WalkInv'
  BY WalkStep, EachStutters
<1>3. WalkInv => WalkFindsTheTree
  <2> SUFFICES ASSUME WalkInv PROVE WalkFindsTheTree
    OBVIOUS
  <2> USE DEF WalkInv
  <2>1. given \in Seq(Walk!Paths) /\ stack \in Seq(Dirs)
    BY DEF WalkType
  <2>2. Walk!TypeOK
    <3>1. ASSUME NEW p \in Walk!Paths, tree[p] # "none" PROVE Walk!Kind(Walk!Front(p)) = "dir"
      BY <3>1, FrontFacts DEF WalkTree, Walk!Kind, Dirs
    <3>2. QED  BY <2>1, <3>1 DEF Walk!TypeOK, WalkType, Walk!ToSet, Dirs
  <2>3. Walk!IsInjective(given)
    BY <2>1 DEF WalkOnce, Walk!IsInjective
  <2>4. ASSUME NEW p \in Walk!ToSet(given)
        PROVE  Walk!Within(p) /\ p \in options.match /\ Len(p) <= options.maxDepth + 1
    BY <2>1 DEF WalkBounds, Walk!ToSet
  <2>5. ASSUME state = "done", NEW p \in stable, Wanted(p) PROVE p \in Walk!ToSet(given)
    <3>1. ~Ahead(p)
      BY <2>5 DEF WalkIdle, Ahead
    <3>2. PICK k \in 1..Len(given) : given[k] = p
      BY <2>5, <3>1 DEF WalkFinds
    <3>3. QED  BY <3>2, <2>1 DEF Walk!ToSet
  <2>6. QED  BY <2>2, <2>3, <2>4, <2>5 DEF WalkFindsTheTree, Walk!WalkFindsTheTree, Wanted
<1>4. QED  BY <1>1, <1>2, <1>3, PTL DEF MCSpec

-----------------------------------------------------------------------------
(* Check runs. *)

\* All that has been accepted, in the order in which it goes on.
Cat(s, t) == s \o t
Plus(s, x) == Append(s, x)
InOrder(f, l, b, c) == Cat(f, Cat(l, Cat(b, c)))
Kept == InOrder(flushed, flight, buffer, chan.items)

Statuses == {"none", "queued", "in_progress", "completed"}

\* The values the variables of a check run take.
ChecksType == /\ stage \in {"none", "created", "failed", "using", "closing", "completing", "done"}
              /\ status \in Statuses
              /\ cLoop \in {"none", "reading", "flushing", "done"}
              /\ chan \in [open : BOOLEAN, items : Seq(Checks!Annotations)]
              /\ Len(chan.items) <= BatchSize
              /\ buffer \in Seq(Checks!Annotations) /\ flight \in Seq(Checks!Annotations)
              /\ accepted \in Seq(Checks!Annotations) /\ flushed \in Seq(Checks!Annotations)

\* What each stage of the run leaves behind.
ChecksOver == /\ cLoop = "flushing" => flight # <<>>
              /\ cLoop = "done" => ~chan.open /\ chan.items = <<>>
              /\ stage \in {"completing", "done"} => cLoop = "done" /\ flight = <<>> /\ buffer = <<>>

\* GitHub's watcher has seen what it has at hand, when it is at a yield.
ChecksWatch == /\ stage = "none" => watch.stage = "none"
               /\ client = "github" /\ watch.stage = "yield" => watch.seen = watch.current
               /\ Checks!WatchersSeeTheEnd
               /\ watch \in [stage : {"none", "top", "yield", "wait", "done"}, current : Statuses,
                             seen : Statuses, cut : BOOLEAN]

ChecksInv == ChecksType /\ ChecksOver /\ ChecksWatch /\ Kept = accepted
-----------------------------------------------------------------------------
\* Concatenation is associative, with the empty sequence as its unit.
LEMMA CatFacts ==
    ASSUME NEW f \in Seq(Checks!Annotations), NEW l \in Seq(Checks!Annotations),
           NEW b \in Seq(Checks!Annotations)
    PROVE  /\ Cat(f, l) \in Seq(Checks!Annotations)
           /\ Cat(Cat(f, l), b) = Cat(f, Cat(l, b))
           /\ Cat(<<>>, f) = f /\ Cat(f, <<>>) = f
<1>1. (f \o l) \o b = f \o (l \o b)
  BY ConcatAssociative
<1>2. f \o l \in Seq(Checks!Annotations)
  BY ConcatProperties
<1>3. <<>> \o f = f /\ f \o <<>> = f
  BY ConcatEmptySeq
<1>4. QED  BY <1>1, <1>2, <1>3 DEF Cat

\* Append goes through a concatenation.
LEMMA CatAppend ==
    ASSUME NEW b \in Seq(Checks!Annotations), NEW c \in Seq(Checks!Annotations), NEW x \in Checks!Annotations
    PROVE  Cat(b, Append(c, x)) = Append(Cat(b, c), x)
<1> DEFINE e == <<x>>
<1>1. Append(c, x) = Cat(c, e) /\ e \in Seq(Checks!Annotations)
  BY AppendIsConcat DEF Cat
<1>2. Cat(b, c) \in Seq(Checks!Annotations)
  BY CatFacts
<1>3. Append(Cat(b, c), x) = Cat(Cat(b, c), e)
  BY <1>2, AppendIsConcat DEF Cat
<1> HIDE DEF e
<1>4. Cat(Cat(b, c), e) = Cat(b, Cat(c, e))
  BY <1>1, CatFacts
<1>5. QED  BY <1>1, <1>3, <1>4

\* writeAnnotation appends to what is kept.
LEMMA Accept ==
    ASSUME NEW f \in Seq(Checks!Annotations), NEW l \in Seq(Checks!Annotations),
           NEW b \in Seq(Checks!Annotations), NEW c \in Seq(Checks!Annotations),
           NEW x \in Checks!Annotations
    PROVE  InOrder(f, l, b, Plus(c, x)) = Plus(InOrder(f, l, b, c), x)
<1>1. Cat(b, c) \in Seq(Checks!Annotations)
  BY CatFacts
<1>2. Cat(l, Cat(b, c)) \in Seq(Checks!Annotations)
  BY <1>1, CatFacts
<1>3. Cat(b, Append(c, x)) = Append(Cat(b, c), x)
  BY CatAppend
<1>4. Cat(l, Append(Cat(b, c), x)) = Append(Cat(l, Cat(b, c)), x)
  BY <1>1, CatAppend
<1>5. Cat(f, Append(Cat(l, Cat(b, c)), x)) = Append(Cat(f, Cat(l, Cat(b, c))), x)
  BY <1>2, CatAppend
<1>6. QED  BY <1>3, <1>4, <1>5 DEF InOrder, Plus

\* The ways in which annotations move on leave their order alone.
LEMMA Receive ==
    ASSUME NEW f \in Seq(Checks!Annotations), NEW l \in Seq(Checks!Annotations),
           NEW b \in Seq(Checks!Annotations), NEW c \in Seq(Checks!Annotations), c # <<>>
    PROVE  InOrder(f, l, Append(b, Head(c)), Tail(c)) = InOrder(f, l, b, c)
<1> DEFINE h == Head(c)
           t == Tail(c)
           e == <<h>>
<1>1. /\ h \in Checks!Annotations /\ t \in Seq(Checks!Annotations)
      /\ e \in Seq(Checks!Annotations) /\ e \o t = c
  BY HeadTailProperties
<1>2. Append(b, h) = Cat(b, e)
  BY <1>1, AppendIsConcat DEF Cat
<1>3. Cat(e, t) = c
  BY <1>1 DEF Cat
<1> HIDE DEF h, t, e
<1>4. Cat(Cat(b, e), t) = Cat(b, Cat(e, t))
  BY <1>1, CatFacts
<1>5. Cat(Append(b, h), t) = Cat(b, c)
  BY <1>2, <1>3, <1>4
<1>6. QED  BY <1>5 DEF InOrder, h, t

\* A batch taken from the buffer keeps its place in the order.
LEMMA BatchBegins ==
    ASSUME NEW f \in Seq(Checks!Annotations), NEW l \in Seq(Checks!Annotations),
           NEW b \in Seq(Checks!Annotations), NEW c \in Seq(Checks!Annotations)
    PROVE  InOrder(f, b, <<>>, c) = InOrder(f, <<>>, b, c)
<1>1. Cat(b, c) \in Seq(Checks!Annotations) /\ Cat(<<>>, c) = c
  BY CatFacts
<1>2. Cat(<<>>, Cat(b, c)) = Cat(b, c)
  BY <1>1, CatFacts
<1>3. QED  BY <1>1, <1>2 DEF InOrder

\* A batch that was sent keeps its place in the order.
LEMMA BatchEnds ==
    ASSUME NEW f \in Seq(Checks!Annotations), NEW l \in Seq(Checks!Annotations),
           NEW b \in Seq(Checks!Annotations), NEW c \in Seq(Checks!Annotations)
    PROVE  InOrder(f \o l, <<>>, b, c) = InOrder(f, l, b, c)
<1>1. Cat(b, c) \in Seq(Checks!Annotations)
  BY CatFacts
<1>2. Cat(<<>>, Cat(b, c)) = Cat(b, c)
  BY <1>1, CatFacts
<1>3. Cat(Cat(f, l), Cat(b, c)) = Cat(f, Cat(l, Cat(b, c)))
  BY <1>1, CatFacts
<1>4. f \o l = Cat(f, l)
  BY DEF Cat
<1>5. QED  BY <1>2, <1>3, <1>4 DEF InOrder

\* The order as one concatenation, and what is left of it when nothing is under way.
LEMMA OrderFacts ==
    ASSUME NEW f \in Seq(Checks!Annotations), NEW l \in Seq(Checks!Annotations),
           NEW b \in Seq(Checks!Annotations), NEW c \in Seq(Checks!Annotations)
    PROVE  InOrder(f, l, b, c) = Cat(Cat(Cat(f, l), b), c) /\ InOrder(f, <<>>, <<>>, <<>>) = f
<1>1. InOrder(f, <<>>, <<>>, <<>>) = f
  <2>1. <<>> \in Seq(Checks!Annotations)
    OBVIOUS
  <2>2. Cat(<<>>, <<>>) = <<>> /\ Cat(f, <<>>) = f
    BY <2>1, CatFacts
  <2>3. QED  BY <2>2 DEF InOrder
<1>2. Cat(f, l) \in Seq(Checks!Annotations) /\ Cat(b, c) \in Seq(Checks!Annotations)
  BY CatFacts
<1>3. Cat(Cat(Cat(f, l), b), c) = Cat(Cat(f, l), Cat(b, c))
  BY <1>2, CatFacts
<1>4. Cat(Cat(f, l), Cat(b, c)) = Cat(f, Cat(l, Cat(b, c)))
  BY <1>2, CatFacts
<1>5. QED  BY <1>1, <1>3, <1>4 DEF InOrder

LEMMA ChecksInit == Checks!Init => ChecksInv
<1> SUFFICES ASSUME Checks!Init PROVE ChecksInv
  OBVIOUS
<1>1. ChecksType /\ ChecksOver
  <2>1. /\ chan = [open |-> FALSE, items |-> <<>>] /\ <<>> \in Seq(Checks!Annotations)
        /\ Len(<<>>) = 0 /\ BatchSize \in Nat
    BY ChecksAssumption DEF Checks!Init, ChecksAssumption
  <2>2. chan \in [open : BOOLEAN, items : Seq(Checks!Annotations)] /\ Len(chan.items) <= BatchSize
    BY <2>1
  <2>3. QED  BY <2>1, <2>2 DEF Checks!Init, ChecksType, ChecksOver, Statuses
<1>2. ChecksWatch
  <2>1. watch = [stage |-> "none", current |-> "none", seen |-> "none", cut |-> FALSE]
    BY DEF Checks!Init, Checks!Unwatched
  <2>2. watch \in [stage : {"none", "top", "yield", "wait", "done"}, current : Statuses,
                   seen : Statuses, cut : BOOLEAN]
    BY <2>1 DEF Statuses
  <2>3. watch.stage = "none"
    BY <2>1
  <2>4. QED  BY <2>2, <2>3 DEF ChecksWatch, Checks!WatchersSeeTheEnd
<1>3. Kept = accepted
  <2>1. <<>> \in Seq(Checks!Annotations)
    OBVIOUS
  <2>2. InOrder(<<>>, <<>>, <<>>, <<>>) = <<>>
    BY <2>1, OrderFacts
  <2>3. QED  BY <2>2 DEF Checks!Init, Kept
<1>4. QED  BY <1>1, <1>2, <1>3 DEF ChecksInv

\* Whatever a step does to the store: what the watcher of GitHub's client has is its own.
LEMMA StoreFacts ==
    ASSUME ChecksWatch, NEW new, Checks!InMemory(new) \/ Checks!request(new) \/ Checks!Store(new)
    PROVE  /\ client # "memory" => UNCHANGED watch
           /\ status' \in {new, status}
           /\ watch'.stage = "none" <=> watch.stage = "none"
BY DEF Checks!InMemory, Checks!request, Checks!Store, Checks!notifyWatchers, ChecksWatch

\* A step of the run or of a watcher that leaves the batcher alone, or closes its channel.
LEMMA ChecksRun ==
    ASSUME ChecksInv, \/ Checks!create \/ Checks!start \/ Checks!update \/ Checks!UseSettles
                      \/ Checks!complete
    PROVE  ChecksInv'
<1> USE DEF ChecksInv
<1>1. UNCHANGED <<buffer, flight, accepted, flushed>> /\ chan'.items = chan.items
  BY DEF Checks!create, Checks!start, Checks!update, Checks!UseSettles, Checks!complete, Checks!batcher,
     Checks!startInMemory, Checks!startOnGithub, Checks!setupStartedCheckRun, ChecksType
<1>2. Kept' = accepted'
  BY <1>1 DEF Kept
<1>3. ChecksType'
  <2>1. CASE Checks!create
    BY <2>1 DEF ChecksType, Checks!create, Checks!batcher, Statuses
  <2>2. CASE Checks!start
    <3>1. stage' \in {"using", "failed"} /\ cLoop' \in {"reading", cLoop}
      BY <2>2 DEF Checks!start, Checks!startInMemory, Checks!startOnGithub, Checks!setupStartedCheckRun
    <3>2. status' \in {"in_progress", status}
      BY <2>2, StoreFacts DEF Checks!start, Checks!startInMemory, Checks!startOnGithub
    <3>3. chan' \in {chan, [chan EXCEPT !.open = TRUE]}
      BY <2>2 DEF Checks!start, Checks!startInMemory, Checks!startOnGithub, Checks!setupStartedCheckRun
    <3>4. QED  BY <3>1, <3>2, <3>3, <1>1 DEF ChecksType, Statuses
  <2>3. CASE Checks!update
    <3>1. status' = status
      BY <2>3, StoreFacts DEF Checks!update, Checks!updateInMemory, Checks!updateOnGithub
    <3>2. QED  BY <2>3, <3>1 DEF ChecksType, Checks!update, Checks!batcher
  <2>4. CASE Checks!UseSettles
    BY <2>4 DEF ChecksType, Checks!UseSettles
  <2>5. CASE Checks!complete
    <3>1. status' \in {"completed", status}
      BY <2>5, StoreFacts DEF Checks!complete, Checks!completeInMemory, Checks!completeOnGithub
    <3>2. QED  BY <2>5, <3>1 DEF ChecksType, Checks!complete, Checks!batcher, Statuses
  <2>6. QED  BY <2>1, <2>2, <2>3, <2>4, <2>5
<1>4. ChecksOver'
  <2>1. CASE Checks!create
    BY <2>1 DEF ChecksOver, Checks!create, Checks!batcher
  <2>2. CASE Checks!start
    <3>1. stage' \in {"using", "failed"} /\ (cLoop' = "reading" \/ UNCHANGED <<cLoop, chan>>)
      BY <2>2 DEF Checks!start, Checks!startInMemory, Checks!startOnGithub, Checks!setupStartedCheckRun
    <3>2. QED  BY <3>1, <1>1 DEF ChecksOver
  <2>3. CASE Checks!update
    BY <2>3 DEF ChecksOver, Checks!update, Checks!batcher
  <2>4. CASE Checks!UseSettles
    <3>1. ~chan'.open
      BY <2>4 DEF Checks!UseSettles, ChecksType
    <3>2. QED  BY <2>4, <3>1, <1>1 DEF ChecksOver, Checks!UseSettles
  <2>5. CASE Checks!complete
    BY <2>5 DEF ChecksOver, Checks!complete, Checks!batcher
  <2>6. QED  BY <2>1, <2>2, <2>3, <2>4, <2>5
<1>5. ChecksWatch'
  <2>1. CASE Checks!create
    BY <2>1 DEF ChecksWatch, Checks!create, Checks!WatchersSeeTheEnd
  <2>2. CASE Checks!start \/ Checks!update \/ Checks!complete
    <3>1. /\ UNCHANGED client /\ stage # "none" /\ stage' # "none"
          /\ UNCHANGED watch \/ \E new \in Statuses : Checks!InMemory(new) \/ Checks!request(new) \/ Checks!Store(new)
      BY <2>2 DEF Checks!start, Checks!startInMemory, Checks!startOnGithub, Checks!setupStartedCheckRun,
         Checks!update, Checks!updateInMemory, Checks!updateOnGithub,
         Checks!complete, Checks!completeInMemory, Checks!completeOnGithub, ChecksType, Statuses
    <3>2. CASE UNCHANGED watch
      BY <3>1, <3>2 DEF ChecksWatch, Checks!WatchersSeeTheEnd
    <3>3. CASE client # "memory"
      BY <3>1, <3>3, <3>2, StoreFacts
    <3>4. CASE client = "memory" /\ ~UNCHANGED watch
      <4>1. PICK new \in Statuses : Checks!InMemory(new) \/ Checks!request(new) \/ Checks!Store(new)
        BY <3>1, <3>4
      <4>2. watch' = [watch EXCEPT !.current = new, !.stage = IF @ = "wait" THEN "top" ELSE @]
        BY <3>4, <4>1 DEF Checks!InMemory, Checks!request, Checks!Store, Checks!notifyWatchers
      <4>3. QED  BY <3>1, <3>4, <4>2 DEF ChecksWatch, Checks!WatchersSeeTheEnd
    <3>5. QED  BY <3>2, <3>3, <3>4
  <2>3. CASE Checks!UseSettles
    BY <2>3 DEF ChecksWatch, Checks!UseSettles, Checks!WatchersSeeTheEnd
  <2>4. QED  BY <2>1, <2>2, <2>3
<1>6. QED  BY <1>2, <1>3, <1>4, <1>5

\* A watcher that looks changes nothing but what it has seen.
LEMMA ChecksLook ==
    ASSUME ChecksInv, Checks!watching \/ Checks!Offers \/ Checks!Looks \/ Checks!Polls
    PROVE  ChecksInv'
<1> USE DEF ChecksInv
<1>1. UNCHANGED <<client, status, stage, chan, buffer, flight, cLoop, accepted, flushed>>
  BY DEF Checks!watching, Checks!Offers, Checks!Looks, Checks!Polls, Checks!batcher
<1>2. ChecksType' /\ ChecksOver' /\ Kept' = accepted'
  BY <1>1 DEF ChecksType, ChecksOver, Kept
<1>3. ChecksWatch'
  <2>1. CASE Checks!watching
    BY <2>1, <1>1 DEF Checks!watching, ChecksWatch, Checks!WatchersSeeTheEnd, ChecksType
  <2>2. CASE Checks!Offers
    BY <2>2, <1>1 DEF Checks!Offers, ChecksWatch, Checks!WatchersSeeTheEnd
  <2>3. CASE Checks!Looks
    BY <2>3, <1>1 DEF Checks!Looks, ChecksWatch, Checks!WatchersSeeTheEnd
  <2>4. CASE Checks!Polls
    BY <2>4, <1>1 DEF Checks!Polls, ChecksWatch, Checks!WatchersSeeTheEnd, ChecksType
  <2>5. QED  BY <2>1, <2>2, <2>3, <2>4
<1>4. QED  BY <1>2, <1>3

\* What flush() does: nothing is lost, and only an idle batcher begins to send.
LEMMA FlushFacts ==
    ASSUME ChecksType, NEW items \in Seq(Checks!Annotations), Checks!flush(items)
    PROVE  /\ buffer' \in Seq(Checks!Annotations) /\ flight' \in Seq(Checks!Annotations)
           /\ \A f, c \in Seq(Checks!Annotations) :
                 InOrder(f, flight', buffer', c) = InOrder(f, flight, items, c)
           /\ flight # <<>> => flight' = flight
           /\ flight = <<>> /\ items # <<>> => flight' = items
<1>1. CASE items = <<>> \/ flight # <<>>
  BY <1>1 DEF Checks!flush, ChecksType
<1>2. CASE items # <<>> /\ flight = <<>>
  BY <1>2, BatchBegins DEF Checks!flush, ChecksType
<1>3. QED  BY <1>1, <1>2

\* The batcher hands on what it takes from its channel, batch by batch.
LEMMA ChecksBatch ==
    ASSUME ChecksInv, \/ \E a \in Checks!Annotations : Checks!writeAnnotation(a)
                      \/ Checks!runLoop \/ Checks!IntervalFlushes \/ Checks!FlushSettles \/ Checks!close
    PROVE  ChecksInv'
<1> USE DEF ChecksInv
<1>1. /\ UNCHANGED <<client, status, watch>>
      /\ stage' = stage \/ (stage = "closing" /\ stage' = "completing")
      /\ chan.open \in BOOLEAN /\ chan.items \in Seq(Checks!Annotations)
      /\ flight \in Seq(Checks!Annotations) /\ buffer \in Seq(Checks!Annotations)
      /\ flushed \in Seq(Checks!Annotations) /\ accepted \in Seq(Checks!Annotations)
      /\ Len(chan.items) <= BatchSize /\ BatchSize \in Nat
  BY ChecksAssumption DEF ChecksType, Checks!writeAnnotation, Checks!runLoop, Checks!IntervalFlushes,
     Checks!FlushSettles, Checks!close, ChecksAssumption
<1> DEFINE was == chan.items
<1> HIDE DEF was
<1>0. /\ was \in Seq(Checks!Annotations) /\ flight \in Seq(Checks!Annotations)
      /\ buffer \in Seq(Checks!Annotations) /\ flushed \in Seq(Checks!Annotations)
  BY <1>1 DEF was
<1>2. ChecksWatch'
  BY <1>1 DEF ChecksWatch, Checks!WatchersSeeTheEnd
<1>3. SUFFICES ChecksType' /\ ChecksOver' /\ Kept' = accepted'
  BY <1>2
<1>4. ASSUME NEW a \in Checks!Annotations, Checks!writeAnnotation(a)
      PROVE  ChecksType' /\ ChecksOver' /\ Kept' = accepted'
  <2>1. UNCHANGED <<stage, buffer, flight, cLoop, flushed>>
    BY <1>4 DEF Checks!writeAnnotation
  <2>2. CASE chan.open /\ Checks!HasRoom
    <3>1. chan' = [chan EXCEPT !.items = Append(@, a)] /\ accepted' = Append(accepted, a)
      BY <1>4, <2>2 DEF Checks!writeAnnotation
    <3>2. chan' = [open |-> chan.open, items |-> Append(chan.items, a)]
      BY <3>1 DEF ChecksType
    <3>3. chan'.items = Append(chan.items, a) /\ Len(chan'.items) <= BatchSize
      BY <3>2, <2>2, <1>1 DEF Checks!HasRoom
    <3>4. Append(chan.items, a) \in Seq(Checks!Annotations) /\ Append(accepted, a) \in Seq(Checks!Annotations)
      BY <1>1
    <3>5. ChecksType'
      BY <3>1, <3>2, <3>3, <3>4, <1>1, <2>1 DEF ChecksType
    <3>6. ChecksOver'
      BY <2>1, <2>2 DEF ChecksOver
    <3>7. InOrder(flushed, flight, buffer, Plus(was, a)) = Plus(InOrder(flushed, flight, buffer, was), a)
      BY <1>0, Accept
    <3>8. Kept' = accepted'
      BY <3>1, <3>3, <3>7, <2>1 DEF Kept, was, Plus
    <3>9. QED  BY <3>5, <3>6, <3>8
  <2>3. CASE ~(chan.open /\ Checks!HasRoom)
    <3>1. UNCHANGED <<chan, accepted>>
      BY <1>4, <2>3 DEF Checks!writeAnnotation
    <3>2. QED  BY <3>1, <2>1, <1>1 DEF ChecksType, ChecksOver, Kept
  <2>4. QED  BY <2>2, <2>3
<1>5. CASE Checks!runLoop
  <2>1. cLoop = "reading" /\ UNCHANGED <<stage, accepted, flushed>>
    BY <1>5 DEF Checks!runLoop
  <2>2. CASE chan.items # <<>>
    <3> DEFINE items == Append(buffer, Head(chan.items))
    <3>1. /\ chan' = [chan EXCEPT !.items = Tail(@)]
          /\ IF Len(items) >= BatchSize
             THEN /\ Checks!flush(items)
                  /\ cLoop' = IF flight = <<>> THEN "flushing" ELSE "reading"
             ELSE buffer' = items /\ UNCHANGED <<flight, cLoop>>
      BY <1>5, <2>2 DEF Checks!runLoop
    <3>2. /\ items \in Seq(Checks!Annotations) /\ items # <<>>
          /\ Tail(chan.items) \in Seq(Checks!Annotations) /\ Len(Tail(chan.items)) <= BatchSize
      <4>1. /\ Head(chan.items) \in Checks!Annotations /\ Tail(chan.items) \in Seq(Checks!Annotations)
            /\ Len(Tail(chan.items)) = Len(chan.items) - 1
        BY <1>1, <2>2, HeadTailProperties
      <4>2. items \in Seq(Checks!Annotations) /\ items # <<>>
        <5> DEFINE h == Head(chan.items)
        <5>1. h \in Checks!Annotations /\ buffer \in Seq(Checks!Annotations)
          BY <4>1, <1>1
        <5> HIDE DEF h
        <5>2. Append(buffer, h) \in Seq(Checks!Annotations) /\ Append(buffer, h) # <<>>
          BY <5>1, AppendProperties
        <5>3. QED  BY <5>2 DEF h
      <4>3. QED  BY <4>1, <4>2, <1>1
    <3>3. chan' = [open |-> chan.open, items |-> Tail(chan.items)]
      BY <3>1 DEF ChecksType
    <3>4. chan'.items = Tail(chan.items) /\ chan'.items \in Seq(Checks!Annotations)
      BY <3>2, <3>3
    <3> DEFINE is == Tail(chan.items)
    <3> HIDE DEF items, is
    <3>5. is \in Seq(Checks!Annotations) /\ items \in Seq(Checks!Annotations)
      BY <3>2 DEF is
    <3>6. /\ buffer' \in Seq(Checks!Annotations) /\ flight' \in Seq(Checks!Annotations)
          /\ InOrder(flushed, flight', buffer', is) = InOrder(flushed, flight, items, is)
          /\ cLoop' \in {"reading", "flushing"} /\ (cLoop' = "flushing" => flight' # <<>>)
      BY <3>1, <3>2, <3>5, <2>1, <1>0, FlushFacts
    <3>7. ChecksType'
      BY <3>2, <3>3, <3>4, <3>6, <2>1, <1>1 DEF ChecksType
    <3>8. ChecksOver'
      BY <3>6, <2>1 DEF ChecksOver
    <3>9. InOrder(flushed, flight, items, is) = InOrder(flushed, flight, buffer, was)
      <4>1. was # <<>>
        BY <2>2 DEF was
      <4>2. InOrder(flushed, flight, Append(buffer, Head(was)), Tail(was)) = InOrder(flushed, flight, buffer, was)
        BY <4>1, <1>0, Receive
      <4>3. QED  BY <4>2 DEF items, is, was
    <3>10. Kept' = accepted'
      BY <3>4, <3>6, <3>9, <2>1 DEF Kept, was, is
    <3>11. QED  BY <3>7, <3>8, <3>10
  <2>3. CASE chan.items = <<>>
    <3>1. ~chan.open /\ cLoop' = "done" /\ UNCHANGED <<chan, buffer, flight>>
      BY <1>5, <2>3 DEF Checks!runLoop
    <3>2. QED  BY <3>1, <2>1, <2>3, <1>1 DEF ChecksType, ChecksOver, Kept
  <2>4. QED  BY <2>2, <2>3
<1>6. CASE Checks!IntervalFlushes
  <2>1. /\ stage = "using" /\ flight = <<>> /\ buffer # <<>> /\ Checks!flush(buffer)
        /\ UNCHANGED <<stage, chan, cLoop, accepted, flushed>>
    BY <1>6 DEF Checks!IntervalFlushes
  <2>2. flight' = buffer /\ buffer' = <<>>
    BY <2>1 DEF Checks!flush
  <2>3. ChecksType' /\ ChecksOver'
    BY <2>1, <2>2, <1>1 DEF ChecksType, ChecksOver
  <2>4. InOrder(flushed, buffer, <<>>, was) = InOrder(flushed, <<>>, buffer, was)
    BY <1>0, BatchBegins
  <2>5. Kept' = accepted'
    BY <2>1, <2>2, <2>4 DEF Kept, was
  <2>6. QED  BY <2>3, <2>5
<1>7. CASE Checks!FlushSettles
  <2>1. /\ flight # <<>> /\ flushed' = flushed \o flight /\ flight' = <<>>
        /\ cLoop' = (IF cLoop = "flushing" THEN "reading" ELSE cLoop)
        /\ UNCHANGED <<stage, chan, buffer, accepted>>
    BY <1>7 DEF Checks!FlushSettles
  <2>2. flushed \o flight \in Seq(Checks!Annotations) /\ <<>> \in Seq(Checks!Annotations)
    BY <1>1, ConcatProperties
  <2>3. ChecksType' /\ ChecksOver'
    BY <2>1, <2>2, <1>1 DEF ChecksType, ChecksOver
  <2>4. InOrder(flushed \o flight, <<>>, buffer, was) = InOrder(flushed, flight, buffer, was)
    BY <1>0, BatchEnds
  <2>5. Kept' = accepted'
    BY <2>1, <2>4 DEF Kept, was
  <2>6. QED  BY <2>3, <2>5
<1>8. CASE Checks!close
  <2>1. /\ stage = "closing" /\ cLoop = "done" /\ flight = <<>>
        /\ UNCHANGED <<chan, cLoop, accepted, flushed>>
        /\ IF buffer # <<>> THEN Checks!flush(buffer) /\ UNCHANGED stage
                            ELSE stage' = "completing" /\ UNCHANGED <<buffer, flight>>
    BY <1>8 DEF Checks!close
  <2>2. CASE buffer # <<>>
    <3>1. flight' = buffer /\ buffer' = <<>> /\ UNCHANGED stage
      BY <2>1, <2>2 DEF Checks!flush
    <3>2. ChecksType' /\ ChecksOver'
      BY <2>1, <3>1, <1>1 DEF ChecksType, ChecksOver
    <3>3. InOrder(flushed, buffer, <<>>, was) = InOrder(flushed, <<>>, buffer, was)
      BY <1>0, BatchBegins
    <3>4. Kept' = accepted'
      BY <2>1, <3>1, <3>3 DEF Kept, was
    <3>5. QED  BY <3>2, <3>4
  <2>3. CASE buffer = <<>>
    BY <2>1, <2>3, <1>1 DEF ChecksType, ChecksOver, Kept
  <2>4. QED  BY <2>2, <2>3
<1>9. QED  BY <1>4, <1>5, <1>6, <1>7, <1>8

LEMMA ChecksStep == ChecksInv /\ [Checks!Next]_checks => ChecksInv'
<1> SUFFICES ASSUME ChecksInv, [Checks!Next]_checks PROVE ChecksInv'
  OBVIOUS
<1>1. CASE UNCHANGED checks
  BY <1>1 DEF checks, ChecksInv, ChecksType, ChecksOver, ChecksWatch, Kept, Checks!WatchersSeeTheEnd
<1>2. CASE Checks!Next
  BY <1>2, ChecksRun, ChecksLook, ChecksBatch DEF Checks!Next
<1>3. QED  BY <1>1, <1>2

\* For any number of annotations and size of a batch: what was accepted is sent once, in order and
\* before the run is completed, and a watcher that is not cut short sees the run completed.
THEOREM AnnotationsKept == MCSpec => []AnnotationsAreKept
<1>1. MCInit => ChecksInv
  BY ChecksInit DEF MCInit
<1>2. ChecksInv /\ [MCNext]_mcvars => ChecksInv'
  BY ChecksStep, EachStutters
<1>3. ChecksInv => AnnotationsAreKept
  <2> SUFFICES ASSUME ChecksInv PROVE AnnotationsAreKept
    OBVIOUS
  <2> USE DEF ChecksInv
  <2>1. /\ chan.items \in Seq(Checks!Annotations) /\ flight \in Seq(Checks!Annotations)
        /\ buffer \in Seq(Checks!Annotations) /\ flushed \in Seq(Checks!Annotations)
    BY DEF ChecksType
  <2>2. flushed \o flight \o buffer \o chan.items = accepted
    <3> DEFINE items == chan.items
    <3> HIDE DEF items
    <3>1. /\ items \in Seq(Checks!Annotations) /\ flight \in Seq(Checks!Annotations)
          /\ buffer \in Seq(Checks!Annotations) /\ flushed \in Seq(Checks!Annotations)
      BY <2>1 DEF items
    <3>2. InOrder(flushed, flight, buffer, items) = Cat(Cat(Cat(flushed, flight), buffer), items)
      BY <3>1, OrderFacts
    <3>3. QED  BY <3>2 DEF Kept, Cat, items
  <2>3. stage \in {"completing", "done"} => flushed = accepted
    <3>1. SUFFICES ASSUME stage \in {"completing", "done"} PROVE flushed = accepted
      OBVIOUS
    <3>2. chan.items = <<>> /\ flight = <<>> /\ buffer = <<>>
      BY <3>1 DEF ChecksOver
    <3>3. QED  BY <2>1, <3>2, OrderFacts DEF Kept
  <2>4. Checks!TypeOK
    BY DEF Checks!TypeOK, ChecksType, ChecksOver, Statuses
  <2>5. Checks!WatchersSeeTheEnd
    BY DEF ChecksWatch
  <2>6. QED  BY <2>2, <2>3, <2>4, <2>5 DEF AnnotationsAreKept, Checks!AnnotationsAreKept
<1>4. QED  BY <1>1, <1>2, <1>3, PTL DEF MCSpec

-----------------------------------------------------------------------------
(* The crawl. *)

Items == [url : Urls, depth : 0..MaxDepth]

\* The urls that wait in the channel, and those under way.
Waiting == {channel[n].url : n \in 1..Len(channel)}
Underway == {item.url : item \in running}

\* The values the variables of the crawl take.
CrawlType == /\ channel \in Seq(Items) /\ running \subseteq Items /\ IsFiniteSet(running)
             /\ visited \subseteq Urls /\ begun \in BOOLEAN /\ closed \in BOOLEAN
             /\ Cardinality(running) <= Concurrency

\* A url that was found is in one place, once.
CrawlPlaces ==
    /\ visited = Waiting \cup Underway \cup ok \cup broken \cup threw
    /\ \A m, n \in 1..Len(channel) : channel[m].url = channel[n].url => m = n
    /\ \A item, other \in running : item.url = other.url => item = other
    /\ Waiting \cap Underway = {} /\ ok \cap broken = {} /\ threw \cap (ok \cup broken) = {}
    /\ (Waiting \cup Underway) \cap (ok \cup broken \cup threw) = {}

\* pending counts the urls that are not checked, those that threw included.
CrawlCount == /\ pending = Cardinality(visited \ (ok \cup broken))
              /\ closed => pending = 0
              /\ ~begun => visited = {} /\ ~closed

CrawlInv == CrawlType /\ CrawlPlaces /\ CrawlCount
\* A list without repetition has as many elements as places.
LEMMA ListedOnce ==
    ASSUME NEW S, NEW d \in Seq(S), \A i, j \in 1..Len(d) : d[i] = d[j] => i = j
    PROVE  IsFiniteSet(Crawl!ToSet(d)) /\ Cardinality(Crawl!ToSet(d)) = Len(d)
<1> DEFINE T == Crawl!ToSet(d)
<1>1. Len(d) \in Nat /\ IsFiniteSet(1..Len(d)) /\ Cardinality(1..Len(d)) = Len(d)
  BY FS_Interval
<1>2. d \in [1..Len(d) -> T] /\ \A t \in T : \E i \in 1..Len(d) : d[i] = t
  BY DEF Crawl!ToSet
<1>3. d \in Bijection(1..Len(d), T)
  BY <1>2 DEF Bijection, Injection, Surjection, IsInjective
<1>4. ExistsBijection(1..Len(d), T)
  BY <1>3 DEF ExistsBijection
<1>5. QED  BY <1>1, <1>4, FS_Bijection

\* Distinct lists kept elements only, and none of them twice.
LEMMA DistinctFacts ==
    ASSUME NEW T, NEW s \in Seq(T), NEW kept, NEW d \in Crawl!Distinct(s, kept)
    PROVE  d \in Seq(kept) /\ \A i, j \in 1..Len(d) : d[i] = d[j] => i = j
<1>1. PICK k \in 0..Len(s) : d \in [1..k -> kept]
  BY DEF Crawl!Distinct, Crawl!SeqOf
<1>2. d \in Seq(kept) /\ Len(d) = k /\ DOMAIN d = 1..k
  BY <1>1
<1>3. ASSUME NEW i \in 1..k, NEW j \in 1..k, i < j PROVE d[i] # d[j]
  <2>1. PICK m \in DOMAIN s : s[m] = d[i] /\ \A n \in DOMAIN s : s[n] = d[j] => m < n
    BY <1>2, <1>3 DEF Crawl!Distinct
  <2>2. m \in Nat
    BY <2>1
  <2>3. QED  BY <2>1, <2>2
<1>4. QED  BY <1>2, <1>3

\* What enqueue lets through is new, each url of it once.
LEMMA FreshFacts ==
    ASSUME NEW urls \in Seq(Urls), NEW skipFilter, NEW new \in Crawl!Fresh(urls, skipFilter)
    PROVE  /\ new \in Seq(Urls) /\ \A i, j \in 1..Len(new) : new[i] = new[j] => i = j
           /\ Crawl!ToSet(new) \cap visited = {} /\ Crawl!ToSet(new) \subseteq Urls
<1> DEFINE s == [n \in DOMAIN urls |-> Alias[urls[n]]]
           kept == Urls \ (visited \cup IF skipFilter THEN {} ELSE Filtered)
<1>1. s \in Seq(Urls) /\ Len(s) = Len(urls)
  <2>1. DOMAIN urls = 1..Len(urls) /\ \A n \in 1..Len(urls) : Alias[urls[n]] \in Urls
    BY CrawlAssumption DEF CrawlAssumption
  <2>2. QED  BY <2>1
<1>2. new \in Crawl!Distinct(s, kept)
  BY DEF Crawl!Fresh
<1>3. kept \subseteq Urls /\ kept \cap visited = {}
  OBVIOUS
<1> HIDE DEF s, kept
<1>4. new \in Seq(kept) /\ \A i, j \in 1..Len(new) : new[i] = new[j] => i = j
  BY <1>1, <1>2, DistinctFacts
<1>5. \A i \in 1..Len(new) : new[i] \in kept
  BY <1>4
<1>6. new \in Seq(Urls)
  BY <1>3, <1>4, <1>5
<1>7. QED  BY <1>3, <1>4, <1>5, <1>6 DEF Crawl!ToSet

\* Of no urls none is new.
LEMMA FreshNone == ASSUME NEW skipFilter, NEW new \in Crawl!Fresh(<<>>, skipFilter) PROVE new = <<>>
<1> DEFINE s == [n \in DOMAIN <<>> |-> Alias[<<>>[n]]]
           kept == Urls \ (visited \cup IF skipFilter THEN {} ELSE Filtered)
<1>1. new \in Crawl!Distinct(s, kept)
  BY DEF Crawl!Fresh
<1>2. DOMAIN s = 1..0
  OBVIOUS
<1>3. s = <<>> /\ Len(s) = 0
  BY <1>2
<1> HIDE DEF s, kept
<1>4. PICK k \in 0..0 : new \in [1..k -> kept]
  BY <1>1, <1>3 DEF Crawl!Distinct, Crawl!SeqOf
<1>5. k = 0
  BY <1>4
<1>6. QED  BY <1>4, <1>5

\* The links of a page are urls.
LEMMA PageFacts ==
    ASSUME NEW page \in Crawl!Pages, NEW links \in Crawl!_extractLinks(page)
    PROVE  links \in Seq(Urls)
<1>1. PICK k \in 0..MaxLinks : page \in [1..k -> Urls \cup {Crawl!Nowhere}]
  BY DEF Crawl!Pages, Crawl!SeqOf
<1>2. page \in Seq(Urls \cup {Crawl!Nowhere})
  BY <1>1
<1>3. QED  BY <1>2, DistinctFacts DEF Crawl!_extractLinks

LEMMA CrawlInit == Crawl!Init => CrawlInv
<1> SUFFICES ASSUME Crawl!Init PROVE CrawlInv
  OBVIOUS
<1>1. /\ begun = FALSE /\ channel = <<>> /\ closed = FALSE /\ visited = {} /\ pending = 0
      /\ running = {} /\ ok = {} /\ broken = {} /\ threw = {}
  BY DEF Crawl!Init
<1>2. channel \in Seq(Items) /\ Len(channel) = 0
  BY <1>1
<1>3. CrawlType
  <2>1. IsFiniteSet(running) /\ Cardinality(running) <= Concurrency
    BY <1>1, FS_EmptySet, CrawlAssumption DEF CrawlAssumption
  <2>2. running \subseteq Items /\ visited \subseteq Urls
    BY <1>1
  <2>3. begun \in BOOLEAN /\ closed \in BOOLEAN
    BY <1>1
  <2>4. QED  BY <1>2, <2>1, <2>2, <2>3 DEF CrawlType
<1>4. CrawlPlaces
  BY <1>1, <1>2 DEF CrawlPlaces, Waiting, Underway
<1>5. CrawlCount
  BY <1>1, FS_EmptySet DEF CrawlCount
<1>6. QED  BY <1>3, <1>4, <1>5 DEF CrawlInv

\* What enqueue does while the channel is open.
LEMMA EnqueueFacts ==
    ASSUME CrawlInv, ~closed, NEW new \in Seq(Urls), \A i, j \in 1..Len(new) : new[i] = new[j] => i = j,
           Crawl!ToSet(new) \cap visited = {}, NEW depth, new # <<>> => depth \in 0..MaxDepth,
           Crawl!enqueue(new, depth)
    PROVE  /\ channel' \in Seq(Items) /\ visited' = visited \cup Crawl!ToSet(new)
           /\ Waiting' = Waiting \cup Crawl!ToSet(new)
           /\ \A m, n \in 1..Len(channel') : channel'[m].url = channel'[n].url => m = n
           /\ Crawl!Added(new) = Len(new)
<1> DEFINE added == [n \in DOMAIN new |-> [url |-> new[n], depth |-> depth]]
           l == Len(channel)
<1>1. channel \in Seq(Items) /\ l \in Nat
  BY DEF CrawlInv, CrawlType
<1>2. /\ added \in Seq(Items) /\ Len(added) = Len(new) /\ Len(new) \in Nat
      /\ \A n \in 1..Len(new) : added[n].url = new[n]
  <2>1. \A n \in 1..Len(new) : [url |-> new[n], depth |-> depth] \in Items
    BY DEF Items
  <2>2. QED  BY <2>1
<1>3. channel' = channel \o added /\ visited' = visited \cup Crawl!ToSet(new) /\ Crawl!Added(new) = Len(new)
  BY DEF Crawl!enqueue, Crawl!Added
<1> HIDE DEF added
<1>4. /\ channel' \in Seq(Items) /\ Len(channel') = l + Len(new)
      /\ \A n \in 1..l : channel'[n] = channel[n]
      /\ \A n \in 1..Len(new) : l + n \in 1..Len(channel') /\ channel'[l + n] = added[n]
  <2>1. channel \o added \in Seq(Items) /\ Len(channel \o added) = l + Len(new)
    <3>1. channel \o added \in Seq(Items)
      BY <1>1, <1>2, ConcatProperties
    <3>2. Len(channel \o added) = Len(channel) + Len(added)
      BY <1>1, <1>2, ConcatProperties
    <3>3. QED  BY <3>1, <3>2, <1>2
  <2>2. /\ \A n \in 1..l : (channel \o added)[n] = channel[n]
        /\ \A n \in 1..Len(new) : (channel \o added)[l + n] = added[n]
    BY <1>1, <1>2
  <2>3. \A n \in 1..Len(new) : l + n \in 1..l + Len(new)
    BY <1>1, <1>2
  <2>4. QED  BY <1>3, <2>1, <2>2, <2>3
<1> HIDE DEF l
<1>5. \A n \in 1..Len(channel') : n \in 1..l \/ \E k \in 1..Len(new) : n = l + k
  <2>1. ASSUME NEW n \in 1..Len(channel'), n \notin 1..l PROVE \E k \in 1..Len(new) : n = l + k
    <3>1. n - l \in 1..Len(new) /\ n = l + (n - l)
      BY <2>1, <1>1, <1>2, <1>4
    <3>2. QED  BY <3>1
  <2>2. QED  BY <2>1
<1>6. \A n \in 1..l : channel[n].url \in Waiting
  BY DEF Waiting, l
<1>7. \A k \in 1..Len(new) : /\ l + k \in 1..Len(channel') /\ channel'[l + k].url = new[k]
                             /\ new[k] \notin Waiting
  BY <1>2, <1>4 DEF CrawlInv, CrawlPlaces, Crawl!ToSet
<1>8. Waiting' = Waiting \cup Crawl!ToSet(new)
  <2>1. ASSUME NEW u \in Waiting' PROVE u \in Waiting \cup Crawl!ToSet(new)
    <3>1. PICK n \in 1..Len(channel') : u = channel'[n].url
      BY DEF Waiting
    <3>2. CASE n \in 1..l
      BY <3>1, <3>2, <1>4, <1>6
    <3>3. CASE \E k \in 1..Len(new) : n = l + k
      BY <3>1, <3>3, <1>7 DEF Crawl!ToSet
    <3>4. QED  BY <3>2, <3>3, <1>5
  <2>2. ASSUME NEW u \in Waiting PROVE u \in Waiting'
    <3>1. PICK n \in 1..l : u = channel[n].url
      BY DEF Waiting, l
    <3>2. n \in 1..Len(channel') /\ u = channel'[n].url
      BY <3>1, <1>1, <1>2, <1>4 DEF l
    <3>3. QED  BY <3>2 DEF Waiting
  <2>3. ASSUME NEW u \in Crawl!ToSet(new) PROVE u \in Waiting'
    <3>1. PICK k \in 1..Len(new) : u = new[k]
      BY DEF Crawl!ToSet
    <3>2. QED  BY <3>1, <1>7 DEF Waiting
  <2>4. QED  BY <2>1, <2>2, <2>3
<1>9. ASSUME NEW m \in 1..Len(channel'), NEW n \in 1..Len(channel'), channel'[m].url = channel'[n].url
      PROVE  m = n
  <2>1. CASE m \in 1..l /\ n \in 1..l
    BY <2>1, <1>4, <1>9 DEF CrawlInv, CrawlPlaces, l
  <2>2. CASE m \in 1..l /\ \E k \in 1..Len(new) : n = l + k
    <3>1. PICK k \in 1..Len(new) : n = l + k
      BY <2>2
    <3>2. channel'[m].url \in Waiting
      BY <2>2, <1>4, <1>6
    <3>3. channel'[n].url \notin Waiting
      BY <3>1, <1>7
    <3>4. QED  BY <3>2, <3>3, <1>9
  <2>3. CASE n \in 1..l /\ \E k \in 1..Len(new) : m = l + k
    <3>1. PICK k \in 1..Len(new) : m = l + k
      BY <2>3
    <3>2. channel'[n].url \in Waiting
      BY <2>3, <1>4, <1>6
    <3>3. channel'[m].url \notin Waiting
      BY <3>1, <1>7
    <3>4. QED  BY <3>2, <3>3, <1>9
  <2>4. CASE (\E k \in 1..Len(new) : m = l + k) /\ \E k \in 1..Len(new) : n = l + k
    BY <2>4, <1>7, <1>9
  <2>5. QED  BY <2>1, <2>2, <2>3, <2>4, <1>5
<1>10. QED  BY <1>3, <1>4, <1>8, <1>9

\* The instance's Cardinality is the library's.
LEMMA CrawlCardinality == \A S : Crawl!Cardinality(S) = Cardinality(S)
BY DEF Crawl!Cardinality, Cardinality

\* Of an item that was under way, the others stay so.
LEMMA Others ==
    ASSUME CrawlInv, NEW item \in running
    PROVE  /\ {i.url : i \in running \ {item}} = Underway \ {item.url}
           /\ item.url \in Underway /\ item.url \in visited
           /\ item.url \notin Waiting \cup ok \cup broken \cup threw
           /\ item.url \in Urls /\ item.depth \in 0..MaxDepth
           /\ IsFiniteSet(running \ {item}) /\ Cardinality(running \ {item}) <= Concurrency
           /\ ~closed /\ pending \in Nat /\ begun
           /\ IsFiniteSet(visited \ (ok \cup broken))
<1>1. item.url \in Underway
  BY DEF Underway
<1>2. item.url \in visited /\ item.url \notin Waiting \cup ok \cup broken \cup threw
  BY <1>1 DEF CrawlInv, CrawlPlaces
<1>3. {i.url : i \in running \ {item}} = Underway \ {item.url}
  BY DEF CrawlInv, CrawlPlaces, Underway
<1>4. item.url \in Urls /\ item.depth \in 0..MaxDepth
  BY DEF CrawlInv, CrawlType, Items
<1>5. IsFiniteSet(running \ {item}) /\ Cardinality(running \ {item}) <= Concurrency
  <2>1. IsFiniteSet(running) /\ Cardinality(running) <= Concurrency
    BY DEF CrawlInv, CrawlType
  <2>2. Cardinality(running) \in Nat /\ Concurrency \in Nat
    BY <2>1, FS_CardinalityType, CrawlAssumption DEF CrawlAssumption
  <2>3. QED  BY <2>1, <2>2, FS_RemoveElement
<1>6. IsFiniteSet(visited \ (ok \cup broken))
  <2>1. visited \ (ok \cup broken) \in SUBSET Urls
    BY DEF CrawlInv, CrawlType
  <2>2. QED  BY <2>1, FS_Subset, CrawlAssumption DEF CrawlAssumption
<1>7. pending \in Nat
  BY <1>6, FS_CardinalityType DEF CrawlInv, CrawlCount
<1>8. ~closed /\ begun
  <2>1. item.url \in visited \ (ok \cup broken)
    BY <1>2
  <2>2. pending # 0
    BY <2>1, <1>6, FS_EmptySet DEF CrawlInv, CrawlCount
  <2>3. QED  BY <2>1, <2>2 DEF CrawlInv, CrawlCount
<1>9. QED  BY <1>1, <1>2, <1>3, <1>4, <1>5, <1>6, <1>7, <1>8

\* The count after new urls were found, and one was checked or not.
LEMMA CountFacts ==
    ASSUME NEW open, IsFiniteSet(open), NEW new \in Seq(Urls),
           \A i, j \in 1..Len(new) : new[i] = new[j] => i = j, Crawl!ToSet(new) \cap open = {}
    PROVE  /\ Cardinality(open \cup Crawl!ToSet(new)) = Cardinality(open) + Len(new)
           /\ IsFiniteSet(open \cup Crawl!ToSet(new))
           /\ \A u \in open : Cardinality((open \cup Crawl!ToSet(new)) \ {u}) = Cardinality(open) + Len(new) - 1
<1> DEFINE T == Crawl!ToSet(new)
<1>1. IsFiniteSet(T) /\ Cardinality(T) = Len(new)
  BY ListedOnce
<1>2. Cardinality(open) \in Nat /\ Len(new) \in Nat
  BY FS_CardinalityType
<1> HIDE DEF T
<1>3. open \cap T = {}
  BY DEF T
<1>4. IsFiniteSet(open \cup T)
  BY <1>1, FS_Union
<1>5. Cardinality(open \cup T) = Cardinality(open) + Len(new)
  <2>1. Cardinality(open \cup T) = Cardinality(open) + Cardinality(T) - Cardinality(open \cap T)
    BY <1>1, FS_Union
  <2>2. Cardinality(open \cap T) = 0
    BY <1>3, FS_EmptySet
  <2>3. QED  BY <2>1, <2>2, <1>1, <1>2
<1>6. ASSUME NEW u \in open PROVE Cardinality((open \cup T) \ {u}) = Cardinality(open) + Len(new) - 1
  <2> DEFINE all == open \cup T
             n == Cardinality(open) + Len(new)
  <2>1. u \in all /\ IsFiniteSet(all) /\ Cardinality(all) = n
    BY <1>4, <1>5
  <2> HIDE DEF all, n
  <2>2. Cardinality(all \ {u}) = n - 1
    BY <2>1, FS_RemoveElement
  <2>3. n - 1 = Cardinality(open) + Len(new) - 1
    BY <1>2 DEF n
  <2>4. QED  BY <2>2, <2>3 DEF all
<1>7. QED  BY <1>4, <1>5, <1>6 DEF T

\* check() finds the seeds, on which nothing depends yet.
LEMMA CrawlChecks ==
    ASSUME CrawlInv, NEW seeds \in Crawl!Pages \ {<<>>}, Crawl!Nowhere \notin Crawl!ToSet(seeds),
           Crawl!check(seeds)
    PROVE  CrawlInv'
<1>1. PICK new \in Crawl!Fresh(seeds, TRUE) : Crawl!enqueue(new, 0) /\ pending' = Crawl!Added(new)
  BY DEF Crawl!check
<1>2. /\ ~begun /\ begun' = TRUE /\ UNCHANGED <<closed, running, ok, broken, threw>>
      /\ visited = {} /\ ~closed
  BY DEF Crawl!check, CrawlInv, CrawlCount
<1>3. Waiting = {} /\ Underway = {} /\ ok = {} /\ broken = {} /\ threw = {}
  BY <1>2 DEF CrawlInv, CrawlPlaces
<1>4. seeds \in Seq(Urls)
  <2>1. PICK k \in 0..MaxLinks : seeds \in [1..k -> Urls \cup {Crawl!Nowhere}]
    BY DEF Crawl!Pages, Crawl!SeqOf
  <2>2. \A n \in 1..k : seeds[n] \in Urls
    BY <2>1 DEF Crawl!ToSet
  <2>3. QED  BY <2>1, <2>2
<1>5. /\ new \in Seq(Urls) /\ \A i, j \in 1..Len(new) : new[i] = new[j] => i = j
      /\ Crawl!ToSet(new) \cap visited = {} /\ Crawl!ToSet(new) \subseteq Urls
  BY <1>4, FreshFacts
<1>6. /\ channel' \in Seq(Items) /\ visited' = Crawl!ToSet(new) /\ Waiting' = Crawl!ToSet(new)
      /\ \A m, n \in 1..Len(channel') : channel'[m].url = channel'[n].url => m = n
      /\ Crawl!Added(new) = Len(new)
  <2>1. 0 \in 0..MaxDepth
    BY CrawlAssumption DEF CrawlAssumption
  <2>2. Crawl!ToSet(new) \cap visited = {} /\ visited \cup Crawl!ToSet(new) = Crawl!ToSet(new)
        /\ Waiting \cup Crawl!ToSet(new) = Crawl!ToSet(new)
    BY <1>2, <1>3
  <2>3. QED  BY <1>1, <1>2, <1>5, <2>1, <2>2, EnqueueFacts
<1>7. Underway' = {}
  BY <1>2, <1>3 DEF Underway
<1>8. CrawlType'
  BY <1>2, <1>5, <1>6 DEF CrawlInv, CrawlType
<1>9. CrawlPlaces'
  BY <1>2, <1>3, <1>6, <1>7 DEF CrawlInv, CrawlPlaces
<1>10. CrawlCount'
  <2>1. Cardinality({} \cup Crawl!ToSet(new)) = Len(new)
    <3>1. Cardinality({}) = 0 /\ IsFiniteSet({}) /\ Len(new) \in Nat
      BY <1>5, FS_EmptySet
    <3>2. Cardinality({} \cup Crawl!ToSet(new)) = Cardinality({}) + Len(new)
      BY <1>5, <3>1, CountFacts
    <3>3. QED  BY <3>1, <3>2
  <2>2. visited' \ (ok' \cup broken') = {} \cup Crawl!ToSet(new)
    BY <1>2, <1>3, <1>6
  <2>3. pending' = Cardinality(visited' \ (ok' \cup broken'))
    <3>1. Cardinality(visited' \ (ok' \cup broken')) = Cardinality({} \cup Crawl!ToSet(new))
      BY <2>2, Zenon
    <3>2. pending' = Len(new)
      BY <1>1, <1>6
    <3>3. QED  BY <2>1, <3>1, <3>2, Zenon
  <2>4. QED  BY <2>3, <1>2 DEF CrawlCount
<1>11. QED  BY <1>8, <1>9, <1>10 DEF CrawlInv

\* An item that is taken changes its place.
LEMMA CrawlTakes == ASSUME CrawlInv, Crawl!Takes PROVE CrawlInv'
<1> DEFINE h == Head(channel)
           l == Len(channel)
<1>1. /\ channel # <<>> /\ Cardinality(running) < Concurrency
      /\ running' = running \cup {h} /\ channel' = Tail(channel)
      /\ UNCHANGED <<begun, closed, visited, pending, ok, broken, threw>>
      /\ channel \in Seq(Items) /\ running \subseteq Items /\ IsFiniteSet(running)
  <2>1. /\ channel # <<>> /\ Cardinality(running) < Concurrency
        /\ running' = running \cup {h} /\ channel' = Tail(channel)
        /\ UNCHANGED <<begun, closed, visited, pending, ok, broken, threw>>
    BY CrawlCardinality DEF Crawl!Takes
  <2>2. channel \in Seq(Items) /\ running \subseteq Items /\ IsFiniteSet(running)
    BY DEF CrawlInv, CrawlType
  <2>3. QED  BY <2>1, <2>2
<1>2. /\ h = channel[1] /\ h \in Items /\ l \in Nat /\ l >= 1 /\ channel' \in Seq(Items)
      /\ Len(channel') = l - 1 /\ \A n \in 1..Len(channel') : channel'[n] = channel[n + 1]
  BY <1>1, HeadTailProperties
<1> HIDE DEF h
<1>3. IsFiniteSet(running') /\ Cardinality(running') <= Concurrency
  <2>1. Cardinality(running) \in Nat /\ Concurrency \in Nat
    BY <1>1, FS_CardinalityType, CrawlAssumption DEF CrawlAssumption
  <2>2. IsFiniteSet(running') /\ (Cardinality(running') = Cardinality(running) \/ Cardinality(running') = Cardinality(running) + 1)
    BY <1>1, FS_AddElement
  <2>3. QED  BY <2>1, <2>2, <1>1
<1>4. h.url \in Waiting /\ h.url \notin Underway
  BY <1>2 DEF Waiting, CrawlInv, CrawlPlaces
<1>5. Underway' = Underway \cup {h.url}
  BY <1>1 DEF Underway
<1>6. Waiting' = Waiting \ {h.url}
  <2>1. ASSUME NEW n \in 1..Len(channel') PROVE channel'[n].url \in Waiting \ {h.url}
    <3>1. n + 1 \in 1..l /\ 1 \in 1..l /\ n + 1 # 1 /\ channel'[n] = channel[n + 1]
      BY <1>2
    <3>2. QED  BY <3>1, <1>2 DEF Waiting, CrawlInv, CrawlPlaces
  <2>2. ASSUME NEW n \in 1..l, channel[n].url # h.url PROVE channel[n].url \in Waiting'
    <3>1. n # 1
      BY <2>2, <1>2
    <3>2. n - 1 \in 1..Len(channel') /\ channel'[n - 1] = channel[n]
      BY <3>1, <1>2
    <3>3. QED  BY <3>2 DEF Waiting
  <2>3. QED  BY <2>1, <2>2 DEF Waiting
<1>7. CrawlType'
  BY <1>1, <1>2, <1>3 DEF CrawlInv, CrawlType
<1>8. \A m, n \in 1..Len(channel') : channel'[m].url = channel'[n].url => m = n
  <2>1. ASSUME NEW m \in 1..Len(channel'), NEW n \in 1..Len(channel'), channel'[m].url = channel'[n].url
        PROVE  m = n
    <3>1. m + 1 \in 1..l /\ n + 1 \in 1..l /\ channel[m + 1].url = channel[n + 1].url
      BY <2>1, <1>2
    <3>2. m + 1 = n + 1
      BY <3>1 DEF CrawlInv, CrawlPlaces
    <3>3. QED  BY <3>2, <2>1
  <2>2. QED  BY <2>1
<1>9. \A item, other \in running' : item.url = other.url => item = other
  BY <1>1, <1>4 DEF Underway, CrawlInv, CrawlPlaces
<1>10. CrawlPlaces'
  BY <1>1, <1>4, <1>5, <1>6, <1>8, <1>9 DEF CrawlInv, CrawlPlaces
<1>11. CrawlCount'
  BY <1>1 DEF CrawlInv, CrawlCount
<1>12. QED  BY <1>7, <1>10, <1>11 DEF CrawlInv

\* An item leaves the crawl, and what it has found enters it.
LEMMA CrawlLeaves ==
    ASSUME CrawlInv, NEW item \in running, running' = running \ {item}, begun' = begun,
           channel' \in Seq(Items), NEW found \in SUBSET Urls, found \cap visited = {},
           visited' = visited \cup found, Waiting' = Waiting \cup found,
           \A m, n \in 1..Len(channel') : channel'[m].url = channel'[n].url => m = n,
           \/ ok' = ok \cup {item.url} /\ UNCHANGED <<broken, threw>>
           \/ broken' = broken \cup {item.url} /\ UNCHANGED <<ok, threw>>
           \/ threw' = threw \cup {item.url} /\ UNCHANGED <<ok, broken>>,
           closed' \in BOOLEAN, pending' = Cardinality(visited' \ (ok' \cup broken')),
           closed' => pending' = 0
    PROVE  CrawlInv'
<1> DEFINE u == item.url
<1>1. /\ Underway' = Underway \ {u} /\ u \in Underway /\ u \in visited
      /\ u \notin Waiting /\ u \notin ok /\ u \notin broken /\ u \notin threw
      /\ IsFiniteSet(running') /\ Cardinality(running') <= Concurrency /\ begun
  <2>1. Underway' = {i.url : i \in running \ {item}}
    BY DEF Underway
  <2>2. QED  BY <2>1, Others
<1> HIDE DEF u
<1>2. CrawlType'
  BY <1>1 DEF CrawlInv, CrawlType
<1>3. \A other, another \in running' : other.url = another.url => other = another
  BY DEF CrawlInv, CrawlPlaces
<1>4. ok' \cup broken' \cup threw' = ok \cup broken \cup threw \cup {u}
  BY DEF u
<1>5. /\ found \cap (Waiting \cup Underway \cup ok \cup broken \cup threw) = {}
      /\ visited = Waiting \cup Underway \cup ok \cup broken \cup threw
  BY DEF CrawlInv, CrawlPlaces
<1>6. visited' = Waiting' \cup Underway' \cup ok' \cup broken' \cup threw'
  BY <1>1, <1>4, <1>5
<1>7. Waiting' \cap Underway' = {} /\ (Waiting' \cup Underway') \cap (ok' \cup broken' \cup threw') = {}
  BY <1>1, <1>4, <1>5 DEF CrawlInv, CrawlPlaces
<1>8. ok' \cap broken' = {} /\ threw' \cap (ok' \cup broken') = {}
  BY <1>1 DEF CrawlInv, CrawlPlaces, u
<1>9. CrawlPlaces'
  BY <1>3, <1>6, <1>7, <1>8 DEF CrawlPlaces
<1>10. CrawlCount'
  BY <1>1 DEF CrawlCount
<1>11. QED  BY <1>2, <1>9, <1>10 DEF CrawlInv

\* An item that settles moves to the urls that are over, and what it found is counted.
LEMMA CrawlSettles ==
    ASSUME CrawlInv, NEW item \in running,
           Crawl!CheckOk(item) \/ Crawl!CheckBroken(item) \/ Crawl!CheckThrows(item)
    PROVE  CrawlInv'
<1> DEFINE u == item.url
           open == visited \ (ok \cup broken)
<1>1. /\ u \in open /\ ~closed /\ pending \in Nat /\ begun /\ IsFiniteSet(open)
      /\ item.depth \in 0..MaxDepth /\ MaxDepth \in Nat /\ pending = Cardinality(open) /\ u \in Urls
      /\ u \notin ok /\ u \notin broken
  BY Others, CrawlAssumption DEF CrawlInv, CrawlCount, CrawlAssumption
<1>2. ASSUME NEW new, NEW links \in Seq(Urls), new \in Crawl!Fresh(links, FALSE),
             Crawl!enqueue(new, item.depth + 1), links # <<>> => item.depth < MaxDepth
      PROVE  /\ channel' \in Seq(Items) /\ visited' = visited \cup Crawl!ToSet(new)
             /\ Waiting' = Waiting \cup Crawl!ToSet(new)
             /\ \A m, n \in 1..Len(channel') : channel'[m].url = channel'[n].url => m = n
             /\ Crawl!Added(new) = Len(new) /\ Len(new) \in Nat
             /\ Crawl!ToSet(new) \in SUBSET Urls /\ Crawl!ToSet(new) \cap visited = {}
             /\ Cardinality(open \cup Crawl!ToSet(new)) = pending + Len(new)
             /\ Cardinality((open \cup Crawl!ToSet(new)) \ {u}) = pending + Len(new) - 1
  <2>1. /\ new \in Seq(Urls) /\ \A i, j \in 1..Len(new) : new[i] = new[j] => i = j
        /\ Crawl!ToSet(new) \cap visited = {} /\ Crawl!ToSet(new) \subseteq Urls
        /\ links = <<>> => new = <<>>
    <3>1. new \in Crawl!Fresh(links, FALSE) /\ links \in Seq(Urls)
      BY <1>2
    <3>2. /\ new \in Seq(Urls) /\ \A i, j \in 1..Len(new) : new[i] = new[j] => i = j
          /\ Crawl!ToSet(new) \cap visited = {} /\ Crawl!ToSet(new) \subseteq Urls
      BY <3>1, FreshFacts
    <3>3. links = <<>> => new = <<>>
      <4>1. CASE links # <<>>
        BY <4>1
      <4>2. CASE links = <<>>
        <5>1. new \in Crawl!Fresh(<<>>, FALSE)
          BY <3>1, <4>2
        <5>2. QED  BY <5>1, FreshNone
      <4>3. QED  BY <4>1, <4>2
    <3>4. QED  BY <3>2, <3>3
  <2>2. new # <<>> => item.depth + 1 \in 0..MaxDepth
    BY <1>1, <1>2, <2>1
  <2>3. /\ channel' \in Seq(Items) /\ visited' = visited \cup Crawl!ToSet(new)
        /\ Waiting' = Waiting \cup Crawl!ToSet(new)
        /\ \A m, n \in 1..Len(channel') : channel'[m].url = channel'[n].url => m = n
        /\ Crawl!Added(new) = Len(new)
    BY <1>1, <1>2, <2>1, <2>2, EnqueueFacts
  <2>4. Crawl!ToSet(new) \cap open = {}
    BY <2>1
  <2>5. /\ Cardinality(open \cup Crawl!ToSet(new)) = Cardinality(open) + Len(new)
        /\ Cardinality((open \cup Crawl!ToSet(new)) \ {u}) = Cardinality(open) + Len(new) - 1
    <3> HIDE DEF open, u
    <3>1. QED  BY <1>1, <2>1, <2>4, CountFacts
  <2>6. QED  BY <1>1, <2>1, <2>3, <2>5
<1>3. CASE Crawl!CheckOk(item)
  <2> DEFINE pages == IF u \notin External /\ item.depth < MaxDepth THEN Crawl!Pages ELSE {<<>>}
             Enters(n) == Crawl!enqueue(n, item.depth + 1) /\ Crawl!Settles(item, Crawl!Added(n))
  <2>01. PICK page \in pages : \E links \in Crawl!_extractLinks(page) : \E new \in Crawl!Fresh(links, FALSE) :
            Enters(new)
    BY <1>3 DEF Crawl!CheckOk
  <2>02. PICK links \in Crawl!_extractLinks(page) : \E new \in Crawl!Fresh(links, FALSE) : Enters(new)
    BY <2>01
  <2>1. PICK new \in Crawl!Fresh(links, FALSE) :
            Crawl!enqueue(new, item.depth + 1) /\ Crawl!Settles(item, Crawl!Added(new))
    BY <2>02
  <2>2. links \in Seq(Urls) /\ (links # <<>> => item.depth < MaxDepth)
    <3>1. CASE u \notin External /\ item.depth < MaxDepth
      BY <2>1, <3>1, PageFacts
    <3>2. CASE ~(u \notin External /\ item.depth < MaxDepth)
      <4>1. page = <<>> /\ <<>> \in Seq(Urls) /\ Len(<<>>) = 0
        BY <2>1, <3>2
      <4>2. PICK k \in 0..Len(page) : links \in [1..k -> Urls]
        BY DEF Crawl!_extractLinks, Crawl!Distinct, Crawl!SeqOf
      <4>3. k = 0 /\ links \in [1..0 -> Urls]
        BY <4>1, <4>2
      <4>4. links = <<>>
        BY <4>3
      <4>5. QED  BY <4>1, <4>4
    <3>3. QED  BY <3>1, <3>2
  <2>3. /\ pending' = pending + Crawl!Added(new) - 1 /\ closed' = (closed \/ pending' = 0)
        /\ running' = running \ {item} /\ ok' = ok \cup {u} /\ UNCHANGED <<begun, broken, threw>>
    BY <1>3, <2>1 DEF Crawl!CheckOk, Crawl!Settles
  <2>4. visited' \ (ok' \cup broken') = (open \cup Crawl!ToSet(new)) \ {u}
    <3>1. visited' = visited \cup Crawl!ToSet(new) /\ Crawl!ToSet(new) \cap visited = {}
      BY <1>2, <2>1, <2>2
    <3>2. ok \subseteq visited /\ broken \subseteq visited
      BY DEF CrawlInv, CrawlPlaces
    <3>3. QED  BY <3>1, <3>2, <2>3
  <2>5. closed' \in BOOLEAN /\ (closed' => pending' = 0)
    BY <2>3, <1>1, Zenon
  <2>6. pending' = Cardinality(visited' \ (ok' \cup broken'))
    BY <1>2, <2>1, <2>2, <2>3, <2>4
  <2>7. QED  BY <1>2, <2>1, <2>2, <2>3, <2>5, <2>6, CrawlLeaves
<1>4. CASE Crawl!CheckBroken(item)
  <2>1. /\ pending' = pending - 1 /\ closed' = (closed \/ pending' = 0)
        /\ running' = running \ {item} /\ broken' = broken \cup {u}
        /\ UNCHANGED <<begun, channel, visited, ok, threw>>
    BY <1>1, <1>4 DEF Crawl!CheckBroken, Crawl!Settles
  <2>2. /\ visited' = visited \cup {} /\ Waiting' = Waiting \cup {} /\ channel' \in Seq(Items)
        /\ \A m, n \in 1..Len(channel') : channel'[m].url = channel'[n].url => m = n
    BY <2>1 DEF Waiting, CrawlInv, CrawlType, CrawlPlaces
  <2>3. closed' \in BOOLEAN /\ (closed' => pending' = 0)
    BY <2>1, <1>1, Zenon
  <2>4. pending' = Cardinality(visited' \ (ok' \cup broken'))
    <3>1. visited' \ (ok' \cup broken') = open \ {u}
      BY <2>1
    <3>2. Cardinality(open \ {u}) = Cardinality(open) - 1
      <4> HIDE DEF open
      <4>1. QED  BY <1>1, FS_RemoveElement
    <3>3. QED  BY <3>1, <3>2, <2>1, <1>1
  <2>5. {} \in SUBSET Urls /\ {} \cap visited = {}
    OBVIOUS
  <2>6. QED  BY <2>1, <2>2, <2>3, <2>4, <2>5, CrawlLeaves
<1>5. CASE Crawl!CheckThrows(item)
  <2>1. PICK url \in Urls, n \in IF u \notin External /\ item.depth < MaxDepth THEN 0..1 ELSE {0} :
           \E new \in Crawl!Fresh(SubSeq(<<url>>, 1, n), FALSE) :
              Crawl!enqueue(new, item.depth + 1) /\ pending' = pending + Crawl!Added(new)
    BY <1>5 DEF Crawl!CheckThrows
  <2>2. PICK new \in Crawl!Fresh(SubSeq(<<url>>, 1, n), FALSE) :
              Crawl!enqueue(new, item.depth + 1) /\ pending' = pending + Crawl!Added(new)
    BY <2>1
  <2> DEFINE links == SubSeq(<<url>>, 1, n)
  <2>3. links \in Seq(Urls) /\ (links # <<>> => item.depth < MaxDepth)
    <3>1. CASE n = 0
      BY <3>1
    <3>2. CASE n = 1
      <4>1. item.depth < MaxDepth
        BY <2>1, <3>2
      <4>2. <<url>> \in Seq(Urls) /\ 1 <= Len(<<url>>)
        OBVIOUS
      <4>3. SubSeq(<<url>>, 1, 1) \in Seq(Urls)
        BY <4>2, HeadFacts
      <4>4. QED  BY <4>1, <4>3, <3>2
    <3>3. QED  BY <2>1, <3>1, <3>2
  <2>4. /\ running' = running \ {item} /\ threw' = threw \cup {u} /\ UNCHANGED <<begun, closed, ok, broken>>
    BY <1>5 DEF Crawl!CheckThrows
  <2> HIDE DEF links
  <2>5. new \in Crawl!Fresh(links, FALSE)
    BY DEF links
  <2>6. /\ visited' = visited \cup Crawl!ToSet(new) /\ Crawl!ToSet(new) \cap visited = {}
        /\ Cardinality(open \cup Crawl!ToSet(new)) = pending + Crawl!Added(new)
    BY <1>2, <2>2, <2>3, <2>5
  <2>7. visited' \ (ok' \cup broken') = open \cup Crawl!ToSet(new)
    <3>1. ok \subseteq visited /\ broken \subseteq visited
      BY DEF CrawlInv, CrawlPlaces
    <3>2. QED  BY <3>1, <2>4, <2>6
  <2>8. pending' = Cardinality(visited' \ (ok' \cup broken'))
    BY <2>2, <2>6, <2>7
  <2>9. closed' \in BOOLEAN /\ (closed' => pending' = 0)
    BY <2>4, <1>1 DEF CrawlInv, CrawlType
  <2>10. QED  BY <1>2, <2>2, <2>3, <2>4, <2>5, <2>8, <2>9, CrawlLeaves
<1>6. QED  BY <1>3, <1>4, <1>5

LEMMA CrawlStep == CrawlInv /\ [Crawl!Next]_crawl => CrawlInv'
<1> SUFFICES ASSUME CrawlInv, [Crawl!Next]_crawl PROVE CrawlInv'
  OBVIOUS
<1>1. CASE UNCHANGED crawl
  <2>1. UNCHANGED <<begun, channel, closed, visited, pending, running, ok, broken, threw>>
    BY <1>1 DEF crawl
  <2>2. UNCHANGED <<Waiting, Underway>>
    BY <2>1 DEF Waiting, Underway
  <2>3. CrawlType' /\ CrawlCount'
    BY <2>1 DEF CrawlInv, CrawlType, CrawlCount
  <2>4. CrawlPlaces'
    BY <2>1, <2>2 DEF CrawlInv, CrawlPlaces
  <2>5. QED  BY <2>3, <2>4 DEF CrawlInv
<1>2. CASE Crawl!Next
  <2>1. CASE \E seeds \in Crawl!Pages \ {<<>>} : Crawl!Nowhere \notin Crawl!ToSet(seeds) /\ Crawl!check(seeds)
    <3>1. PICK seeds \in Crawl!Pages \ {<<>>} : Crawl!Nowhere \notin Crawl!ToSet(seeds) /\ Crawl!check(seeds)
      BY <2>1
    <3>2. QED  BY <3>1, CrawlChecks
  <2>2. CASE Crawl!Takes
    BY <2>2, CrawlTakes
  <2>3. CASE \E item \in running : Crawl!CheckOk(item) \/ Crawl!CheckBroken(item) \/ Crawl!CheckThrows(item)
    BY <2>3, CrawlSettles
  <2>4. QED  BY <1>2, <2>1, <2>2, <2>3 DEF Crawl!Next
<1>3. QED  BY <1>1, <1>2

\* For any finite site, links in circles and all: the channel is closed only when everything that was
\* found has been checked, and nothing is checked twice.
THEOREM CrawlDone == MCSpec => []ClosedMeansDone
<1>1. MCInit => CrawlInv
  BY CrawlInit DEF MCInit
<1>2. CrawlInv /\ [MCNext]_mcvars => CrawlInv'
  BY CrawlStep, EachStutters
<1>3. CrawlInv => ClosedMeansDone
  <2> SUFFICES ASSUME CrawlInv PROVE ClosedMeansDone
    OBVIOUS
  <2> DEFINE open == visited \ (ok \cup broken)
  <2>1. open \in SUBSET Urls /\ IsFiniteSet(Urls)
    BY CrawlAssumption DEF CrawlInv, CrawlType, CrawlAssumption
  <2>2. /\ IsFiniteSet(open) /\ pending = Cardinality(open) /\ pending \in 0..Cardinality(Urls)
    BY <2>1, FS_Subset, FS_CardinalityType DEF CrawlInv, CrawlCount
  <2>3. Crawl!TypeOK
    <3>1. \A item \in running : item.url \in visited /\ item.depth <= MaxDepth
      BY DEF CrawlInv, CrawlType, CrawlPlaces, Underway, Items
    <3>2. visited \subseteq Urls /\ Cardinality(running) <= Concurrency
      BY DEF CrawlInv, CrawlType
    <3>3. pending \in 0..Cardinality(Urls)
      BY <2>2
    <3> HIDE DEF open
    <3>4. QED  BY <3>1, <3>2, <3>3, CrawlCardinality DEF Crawl!TypeOK
  <2>4. ASSUME closed PROVE channel = <<>> /\ running = {} /\ visited = ok \cup broken
    <3>1. open = {}
      BY <2>2, <2>4, FS_EmptySet DEF CrawlInv, CrawlCount
    <3>2. Waiting = {} /\ Underway = {} /\ visited = ok \cup broken
      BY <3>1 DEF CrawlInv, CrawlPlaces
    <3>3. running = {}
      BY <3>2 DEF Underway
    <3>4. channel = <<>>
      <4>1. channel \in Seq(Items) /\ Len(channel) \in Nat
        BY DEF CrawlInv, CrawlType
      <4>2. Len(channel) = 0
        <5>1. SUFFICES ASSUME Len(channel) # 0 PROVE FALSE
          OBVIOUS
        <5>2. 1 \in 1..Len(channel)
          BY <4>1, <5>1
        <5>3. QED  BY <5>2, <3>2 DEF Waiting
      <4>3. QED  BY <4>1, <4>2
    <3>5. QED  BY <3>2, <3>3, <3>4
  <2>5. ok \cap broken = {}
    BY DEF CrawlInv, CrawlPlaces
  <2>6. QED  BY <2>3, <2>4, <2>5 DEF ClosedMeansDone, Crawl!ClosedMeansDone
<1>4. QED  BY <1>1, <1>2, <1>3, PTL DEF MCSpec

=============================================================================
