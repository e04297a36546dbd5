------------------------------ MODULE TaskGroup ------------------------------
(***************************************************************************)
(* The functions of packages/anabranch/task/task.ts that put several tasks *)
(* together: all, allSettled and race run them at once, chain one after    *)
(* the other, and map, recover and their kin put a callback behind one     *)
(* task.  A task is seen through its promise, which an abort rejects, and  *)
(* the work behind it, which goes on.                                      *)
(***************************************************************************)
EXTENDS Integers, Sequences, FiniteSets, SequencesExt

CONSTANT MaxTasks   \* bound: tasks of a group

Tasks == 1..MaxTasks
Parallel == {"all", "allSettled", "race"}
OnValue == {"map", "flatMap", "tap"}
OnError == {"mapErr", "tapErr", "recover", "recoverWhen", "flatMapErr"}
\* The callback behind these is itself a task that looks at the signal.
Signalled == {"chain", "flatMap", "flatMapErr"}
PlainCallback == (OnValue \cup OnError) \ Signalled

VARIABLES kind,     \* the function, "none" until run() is called
          size,     \* number of tasks in the group
          outer,    \* the signal is aborted
          told,     \* per task: its signal is aborted
          promise,  \* per task: "none", "running", "value", "error"
          work,     \* per task: what the user's function does: "none", "running", "over"
          seen,     \* settled tasks whose continuation has run
          errors,   \* race: the errors in the order they were seen
          result    \* what the caller has: [type, task]

vars == <<kind, size, outer, told, promise, work, seen, errors, result>>

Pending == [type |-> "none", task |-> 0]
IsSettled(m) == promise[m] \in {"value", "error"}
Members == 1..size

\* The first to settle the promise of the caller counts.
Settle(type, m) == result' = IF result = Pending THEN [type |-> type, task |-> m] ELSE result

Begin(S) ==
    /\ promise' = [m \in Tasks |-> IF m \in S THEN "running" ELSE promise[m]]
    /\ work' = [m \in Tasks |-> IF m \in S THEN "running" ELSE work[m]]

-----------------------------------------------------------------------------
Init == /\ kind = "none" /\ size = 0 /\ outer = FALSE
        /\ told = [m \in Tasks |-> FALSE]
        /\ promise = [m \in Tasks |-> "none"]
        /\ work = [m \in Tasks |-> "none"]
        /\ seen = {} /\ errors = <<>>
        /\ result = Pending

\* all, allSettled and race run every task; a race of nobody throws.
RunParallel ==
    /\ kind = "none"
    /\ kind' \in Parallel /\ size' \in 0..MaxTasks
    /\ IF outer THEN Settle("error", 0) /\ UNCHANGED <<promise, work>>
       ELSE /\ Begin(1..size')
            /\ IF size' > 0 THEN UNCHANGED result
               ELSE Settle(IF kind' = "race" THEN "error" ELSE "value", 0)
    /\ UNCHANGED <<outer, told, seen, errors>>

\* chain, and one task with a callback behind it, run the first one.
RunSequence ==
    /\ kind = "none"
    /\ kind' \in {"chain"} \cup OnValue \cup OnError
    /\ size' \in IF kind' = "chain" THEN 0..MaxTasks ELSE {2}
    /\ IF outer THEN Settle("error", 0) /\ UNCHANGED <<promise, work>>
       ELSE IF size' = 0 THEN Settle("value", 0) /\ UNCHANGED <<promise, work>>
       ELSE Begin({1}) /\ UNCHANGED result
    /\ UNCHANGED <<outer, told, seen, errors>>

\* The signal is aborted: whatever takes it is rejected, the caller first.
Abort == /\ ~outer
         /\ outer' = TRUE
         /\ told' = [m \in Tasks |-> told[m] \/ promise[m] = "running"]
         /\ promise' = [m \in Tasks |->
                          IF promise[m] = "running" /\ ~(m = 2 /\ kind \in PlainCallback)
                          THEN "error" ELSE promise[m]]
         /\ IF kind = "none" THEN UNCHANGED result ELSE Settle("error", 0)
         /\ UNCHANGED <<kind, size, work, seen, errors>>

\* The function of a task settles, and with it a promise that is still open.
WorkSettles(m) ==
    /\ work[m] = "running"
    /\ work' = [work EXCEPT ![m] = "over"]
    /\ \E o \in {"value", "error"} :
          promise' = [promise EXCEPT ![m] = IF @ = "running" THEN o ELSE @]
    /\ UNCHANGED <<kind, size, outer, told, seen, errors, result>>

-----------------------------------------------------------------------------
(* The continuation of a task that has settled. *)

Continues(m) == m \in Members /\ IsSettled(m) /\ m \notin seen /\ seen' = seen \cup {m}

\* Promise.all: the first rejection rejects; the others are not told.
allContinues(m) ==
    /\ kind = "all" /\ Continues(m)
    /\ IF promise[m] = "error" THEN Settle("error", m)
       ELSE IF seen' = Members THEN Settle("value", m) ELSE UNCHANGED result
    /\ UNCHANGED <<kind, size, outer, told, promise, work, errors>>

allSettledContinues(m) ==
    /\ kind = "allSettled" /\ Continues(m)
    /\ IF seen' = Members THEN Settle("value", m) ELSE UNCHANGED result
    /\ UNCHANGED <<kind, size, outer, told, promise, work, errors>>

\* Fault: the losers of a race are not aborted.
raceContinues_KeepsLosers(m) ==
    /\ kind = "race" /\ Continues(m)
    /\ \/ result # Pending /\ UNCHANGED <<told, promise, errors, result>>
       \/ /\ result = Pending /\ promise[m] = "value"
          /\ Settle("value", m)
          /\ UNCHANGED <<told, promise, errors>>
       \/ /\ result = Pending /\ promise[m] = "error"
          /\ errors' = Append(errors, m)
          /\ IF Len(errors') = size THEN Settle("errors", 0) ELSE UNCHANGED result
          /\ UNCHANGED <<told, promise>>
    /\ UNCHANGED <<kind, size, outer, work>>

\* Fault: a failure counts as the end of the race.
raceContinues_FirstSettled(m) ==
    /\ kind = "race" /\ Continues(m)
    /\ IF result # Pending THEN UNCHANGED <<told, promise, errors, result>>
       ELSE /\ Settle(IF promise[m] = "value" THEN "value" ELSE "errors", m)
            /\ told' = [n \in Tasks |-> TRUE]
            /\ UNCHANGED <<promise, errors>>
    /\ UNCHANGED <<kind, size, outer, work>>

\* race: a success wins and aborts the others, unless somebody has won; the last
\* failure gives all errors in the order of completion.
raceContinues(m) ==
    /\ kind = "race" /\ Continues(m)
    /\ \/ result # Pending /\ UNCHANGED <<told, promise, errors, result>>
       \/ /\ result = Pending /\ promise[m] = "value"
          /\ Settle("value", m)
          /\ told' = [n \in Tasks |-> told[n] \/ n # m]
          /\ promise' = [n \in Tasks |-> IF n # m /\ promise[n] = "running" THEN "error" ELSE promise[n]]
          /\ UNCHANGED errors
       \/ /\ result = Pending /\ promise[m] = "error"
          /\ errors' = Append(errors, m)
          /\ IF Len(errors') = size THEN Settle("errors", 0) ELSE UNCHANGED result
          /\ UNCHANGED <<told, promise>>
    /\ UNCHANGED <<kind, size, outer, work>>

\* runWithSignal of the task behind: rejected at once when the signal is aborted.
RunNext(n) == IF outer THEN promise' = [promise EXCEPT ![n] = "error"] /\ UNCHANGED work
                       ELSE Begin({n})

chainContinues(m) ==
    /\ kind = "chain" /\ Continues(m)
    /\ \/ /\ promise[m] = "error"
          /\ Settle("error", m)
          /\ UNCHANGED <<promise, work>>
       \/ /\ promise[m] = "value" /\ m = size
          /\ Settle("value", m)
          /\ UNCHANGED <<promise, work>>
       \/ /\ promise[m] = "value" /\ m < size
          /\ RunNext(m + 1)
          /\ UNCHANGED result
    /\ UNCHANGED <<kind, size, outer, told, errors>>

\* The first task settles the way the callback asks for: it is called, also when the
\* caller was rejected meanwhile.  recoverWhen may decline.
CallbackBegins ==
    /\ kind \in OnValue \cup OnError /\ Continues(1)
    /\ \/ /\ promise[1] = IF kind \in OnValue THEN "value" ELSE "error"
          /\ IF kind \in Signalled THEN RunNext(2) ELSE Begin({2})
          /\ UNCHANGED result
       \/ /\ promise[1] = IF kind \in OnValue THEN "error" ELSE "value"
          /\ Settle(promise[1], 1)
          /\ UNCHANGED <<promise, work>>
       \/ /\ promise[1] = "error" /\ kind = "recoverWhen"
          /\ Settle("error", 1)
          /\ UNCHANGED <<promise, work>>
    /\ UNCHANGED <<kind, size, outer, told, errors>>

\* mapErr and tapErr end in an error whatever the callback gives.
CallbackSettles ==
    /\ kind \in OnValue \cup OnError /\ Continues(2)
    /\ Settle(IF kind \in {"mapErr", "tapErr"} THEN "error" ELSE promise[2], 2)
    /\ UNCHANGED <<kind, size, outer, told, promise, work, errors>>

Next == \/ RunParallel \/ RunSequence \/ Abort \/ CallbackBegins \/ CallbackSettles
        \/ \E m \in Tasks : \/ WorkSettles(m) \/ allContinues(m) \/ allSettledContinues(m)
                            \/ raceContinues(m) \/ chainContinues(m)

Spec == Init /\ [][Next]_vars

\* Continuations run; the functions of the user settle.
Fairness == /\ WF_vars(CallbackBegins \/ CallbackSettles)
            /\ \A m \in Tasks : /\ WF_vars(WorkSettles(m))
                                /\ WF_vars(\/ allContinues(m) \/ allSettledContinues(m)
                                           \/ raceContinues(m) \/ chainContinues(m))

-----------------------------------------------------------------------------
TypeOK == /\ promise \in [Tasks -> {"none", "running", "value", "error"}]
          /\ work \in [Tasks -> {"none", "running", "over"}]
          /\ seen \subseteq Members /\ size \in 0..MaxTasks
          /\ ToSet(errors) \subseteq seen /\ IsInjective(errors)
          /\ result.type \in {"none", "value", "error", "errors"}

\* When a race is decided, or any group is aborted, no task is left running with a
\* signal that nobody has aborted.
LosersAreAborted ==
    /\ kind = "race" /\ result # Pending => \A m \in Members : work[m] = "running" => told[m]
    /\ outer /\ kind \in Parallel \cup {"chain"} =>
          \A m \in Members : promise[m] # "running" /\ (work[m] = "running" => told[m])

\* A race is won by a task that succeeded, and lost only when every task has failed;
\* all succeeds when every task did; a chain reaches its end over successes only.
OutcomeIsRight ==
    /\ kind = "race" /\ result.type = "value" => promise[result.task] = "value"
    /\ result.type = "errors" =>
          ToSet(errors) = Members /\ \A m \in Members : promise[m] = "error"
    /\ kind \in {"all", "chain"} /\ result.type = "value" => \A m \in Members : promise[m] = "value"
    /\ kind = "allSettled" /\ result.type = "value" => \A m \in Members : IsSettled(m)
    /\ kind = "chain" => \A m \in 2..size : work[m] # "none" => promise[m - 1] = "value"

\* No task of a group or a chain begins when its caller has the result.  (Callbacks
\* like that of recover do: the abort that rejects the caller is the error they get.)
NoTaskBeginsLate ==
    [][result # Pending /\ kind \notin PlainCallback =>
          \A m \in Tasks : work[m] = "none" => work'[m] = "none"]_vars

\* When the tasks settle, the caller gets a result.
GroupSettles == kind # "none" ~> result # Pending

=============================================================================
