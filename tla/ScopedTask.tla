----------------------------- MODULE ScopedTask -----------------------------
(***************************************************************************)
(* The combinators of packages/anabranch/task/task.ts put together as      *)
(*                                                                         *)
(*   Task.acquireRelease({acquire, use, release})                          *)
(*     .timeout(ms).retry({attempts, delay, when}).withSignal(outer).run() *)
(*                                                                         *)
(* Nothing here can be cancelled: a timeout or an abort settles a promise, *)
(* and what the promise stood for runs on.  So an attempt that has timed   *)
(* out may still acquire, use and release while the next one runs.  The    *)
(* functions of the user may settle late, or never.                        *)
(***************************************************************************)
EXTENDS Integers

CONSTANT MaxAttempts   \* options.attempts of retry

ASSUME AttemptsAssumption == MaxAttempts \in Nat \ {0}

Attempts == 1..MaxAttempts

VARIABLES outer,    \* the signal of withSignal is aborted
          result,   \* what the caller of run() has: "none", "value", "error"
          loop,     \* retry: "new", "attempt" (awaits one), "delay", "done"
          attempt,  \* the attempt the loop is at
          ctrl,     \* per attempt: the controller of timeout() is aborted
          settled,  \* per attempt: the race in timeout(): "none", "value", "error"
          scope,    \* per attempt, acquireRelease: "none", "acquiring", "using",
                    \* "releasing", "over"
          outcome,  \* per attempt: how use ended: "none", "value", "error"
          work      \* per attempt, the function behind use: "none", "running", "over"

vars == <<outer, result, loop, attempt, ctrl, settled, scope, outcome, work>>

-----------------------------------------------------------------------------
First(old, new) == IF old = "none" THEN new ELSE old

\* Fault: the signal is not looked at before the task is run.
Begin_Unchecked(n) == /\ attempt' = n
                      /\ loop' = "attempt"
                      /\ scope' = [scope EXCEPT ![n] = "acquiring"]
                      /\ UNCHANGED settled

\* runWithSignal of an attempt: rejected at once if the signal is aborted.
Begin(n) == /\ attempt' = n
            /\ loop' = "attempt"
            /\ IF outer THEN /\ settled' = [settled EXCEPT ![n] = "error"]
                             /\ UNCHANGED scope
                        ELSE /\ scope' = [scope EXCEPT ![n] = "acquiring"]
                             /\ UNCHANGED settled

Init == /\ outer = FALSE /\ result = "none" /\ loop = "new" /\ attempt = 0
        /\ ctrl = [a \in Attempts |-> FALSE]
        /\ settled = [a \in Attempts |-> "none"]
        /\ scope = [a \in Attempts |-> "none"]
        /\ outcome = [a \in Attempts |-> "none"]
        /\ work = [a \in Attempts |-> "none"]

\* run(): an aborted signal rejects before the retry loop exists.
Run == /\ loop = "new"
       /\ IF outer THEN /\ result' = "error" /\ loop' = "done"
                        /\ UNCHANGED <<attempt, scope, settled>>
                   ELSE Begin(1) /\ UNCHANGED result
       /\ UNCHANGED <<outer, ctrl, outcome, work>>

\* The outer signal is aborted: the promise of the caller rejects, and so does
\* the attempt that the loop awaits, whose controller is aborted too.
Abort == /\ ~outer
         /\ outer' = TRUE
         /\ result' = IF loop = "new" THEN result ELSE First(result, "error")
         /\ IF loop = "attempt" /\ settled[attempt] = "none"
            THEN /\ ctrl' = [ctrl EXCEPT ![attempt] = TRUE]
                 /\ settled' = [settled EXCEPT ![attempt] = "error"]
            ELSE UNCHANGED <<ctrl, settled>>
         /\ UNCHANGED <<loop, attempt, scope, outcome, work>>

\* Fault: timeout() rejects without aborting its controller.
TimerFires_RejectsOnly == /\ loop = "attempt" /\ settled[attempt] = "none"
                          /\ settled' = [settled EXCEPT ![attempt] = "error"]
                          /\ UNCHANGED <<outer, result, loop, attempt, ctrl, scope, outcome, work>>

\* The timer of the attempt fires while its race is open.
TimerFires == /\ loop = "attempt" /\ settled[attempt] = "none"
              /\ ctrl' = [ctrl EXCEPT ![attempt] = TRUE]
              /\ settled' = [settled EXCEPT ![attempt] = "error"]
              /\ UNCHANGED <<outer, result, loop, attempt, scope, outcome, work>>

-----------------------------------------------------------------------------
(* acquireRelease, once per attempt. *)

\* acquire() settles: use() gives a task, which runs; use() throws, or an aborted
\* signal keeps its task from running; or acquire() itself has failed.
AcquireSettles(a) ==
    /\ scope[a] = "acquiring"
    /\ \/ /\ ~ctrl[a]
          /\ scope' = [scope EXCEPT ![a] = "using"]
          /\ work' = [work EXCEPT ![a] = "running"]
          /\ UNCHANGED <<outcome, settled>>
       \/ /\ scope' = [scope EXCEPT ![a] = "releasing"]
          /\ outcome' = [outcome EXCEPT ![a] = "error"]
          /\ UNCHANGED <<work, settled>>
       \/ /\ scope' = [scope EXCEPT ![a] = "over"]
          /\ outcome' = [outcome EXCEPT ![a] = "error"]
          /\ settled' = [settled EXCEPT ![a] = First(@, "error")]
          /\ UNCHANGED work
    /\ UNCHANGED <<outer, result, loop, attempt, ctrl>>

\* The function behind use settles, perhaps long after its scope was left.
WorkSettles(a) ==
    /\ work[a] = "running"
    /\ work' = [work EXCEPT ![a] = "over"]
    /\ IF scope[a] = "using" /\ ~ctrl[a]
       THEN /\ scope' = [scope EXCEPT ![a] = "releasing"]
            /\ \E o \in {"value", "error"} : outcome' = [outcome EXCEPT ![a] = o]
       ELSE UNCHANGED <<scope, outcome>>
    /\ UNCHANGED <<outer, result, loop, attempt, ctrl, settled>>

\* Fault: the task of use is run without the signal.
UseAborted_Waits(a) == /\ scope[a] = "using" /\ ctrl[a] /\ work[a] = "over"
                       /\ scope' = [scope EXCEPT ![a] = "releasing"]
                       /\ outcome' = [outcome EXCEPT ![a] = "error"]
                       /\ UNCHANGED <<outer, result, loop, attempt, ctrl, settled, work>>

\* The task of use is rejected by the signal: release() is called while the
\* function behind it may still run.
UseAborted(a) == /\ scope[a] = "using" /\ ctrl[a]
                 /\ scope' = [scope EXCEPT ![a] = "releasing"]
                 /\ outcome' = [outcome EXCEPT ![a] = "error"]
                 /\ UNCHANGED <<outer, result, loop, attempt, ctrl, settled, work>>

\* release() settles; if it throws, its error replaces the value.
ReleaseSettles(a) ==
    /\ scope[a] = "releasing"
    /\ scope' = [scope EXCEPT ![a] = "over"]
    /\ \E o \in {outcome[a], "error"} :
          /\ outcome' = [outcome EXCEPT ![a] = o]
          /\ settled' = [settled EXCEPT ![a] = First(@, o)]
    /\ UNCHANGED <<outer, result, loop, attempt, ctrl, work>>

-----------------------------------------------------------------------------
(* The loop of retry. *)

\* The loop throws or returns.
Leave(r) == loop' = "done" /\ result' = First(result, r)

\* Fault: one attempt more.
MayRetry_OffByOne == attempt <= MaxAttempts

MayRetry == attempt < MaxAttempts

\* The awaited attempt has settled: return, give up (when, or no attempt left),
\* wait for the delay, or begin the next.
AttemptSettles ==
    /\ loop = "attempt" /\ settled[attempt] # "none"
    /\ \/ /\ settled[attempt] = "value"
          /\ Leave("value")
          /\ UNCHANGED <<attempt, scope, settled>>
       \/ /\ settled[attempt] = "error"
          /\ Leave("error")
          /\ UNCHANGED <<attempt, scope, settled>>
       \/ /\ settled[attempt] = "error" /\ MayRetry
          /\ loop' = "delay"
          /\ UNCHANGED <<attempt, scope, settled, result>>
       \/ /\ settled[attempt] = "error" /\ MayRetry
          /\ Begin(attempt + 1)
          /\ UNCHANGED result
    /\ UNCHANGED <<outer, ctrl, outcome, work>>

\* delayWithSignal resolves, or rejects out of the loop when the signal is aborted.
DelayEnds ==
    /\ loop = "delay"
    /\ IF outer THEN Leave("error") /\ UNCHANGED <<attempt, scope, settled>>
                ELSE Begin(attempt + 1) /\ UNCHANGED result
    /\ UNCHANGED <<outer, ctrl, outcome, work>>

Next == \/ Run \/ Abort \/ TimerFires \/ AttemptSettles \/ DelayEnds
        \/ \E a \in Attempts : \/ AcquireSettles(a) \/ WorkSettles(a)
                               \/ UseAborted(a) \/ ReleaseSettles(a)

Spec == Init /\ [][Next]_vars

\* Timers fire, resumed code runs, acquire() and release() settle.  The function
\* behind use may hang.
Fairness == /\ WF_vars(TimerFires)
            /\ WF_vars(AttemptSettles) /\ WF_vars(DelayEnds)
            /\ \A a \in Attempts : /\ WF_vars(AcquireSettles(a))
                                   /\ WF_vars(UseAborted(a))
                                   /\ WF_vars(ReleaseSettles(a))

FairSpec == Spec /\ Fairness

-----------------------------------------------------------------------------
(* Properties. *)

Settlement == {"none", "value", "error"}

TypeOK == /\ outer \in BOOLEAN
          /\ result \in Settlement
          /\ loop \in {"new", "attempt", "delay", "done"}
          /\ attempt \in 0..MaxAttempts
          /\ ctrl \in [Attempts -> BOOLEAN]
          /\ settled \in [Attempts -> Settlement]
          /\ scope \in [Attempts -> {"none", "acquiring", "using", "releasing", "over"}]
          /\ outcome \in [Attempts -> Settlement]
          /\ work \in [Attempts -> {"none", "running", "over"}]

\* Whatever still runs when the caller has its result, or when the next attempt
\* has begun, has been told to stop: no function of the user is left running with
\* a live signal.  And a value means that its resource has been released.
OrphansAreAborted ==
    /\ \A a \in Attempts :
          /\ result # "none" \/ a < attempt
          /\ scope[a] \in {"acquiring", "using"} \/ work[a] = "running"
          => ctrl[a]
    /\ result = "value" => settled[attempt] = "value" /\ scope[attempt] = "over"

\* When the caller has its result, no further attempt calls acquire(), although
\* the loop may go on over its remaining attempts.
NothingBeginsAfterResult ==
    [][result # "none" => \A a \in Attempts : scope[a] = "none" => scope'[a] = "none"]_vars

\* "The release function always runs": what was acquired is released, though the
\* function that uses it never settles.
ResourcesAreReleased ==
    \A a \in Attempts : scope[a] \in {"using", "releasing"} ~> scope[a] = "over"

=============================================================================
