--------------------------- MODULE DbTransactions ---------------------------
(***************************************************************************)
(* DB.withTransaction of packages/db/db.ts: Task.acquireRelease around a   *)
(* transaction, which is a savepoint when the adapter is already in one.   *)
(*                                                                         *)
(* One adapter is one connection: it executes statements in the order in   *)
(* which they are sent and answers them in that order, later.  Nesting is  *)
(* not followed by the code: it counts, per adapter, how many transactions *)
(* are open (transactionDepths), reads the count when it sends BEGIN or    *)
(* SAVEPOINT and writes it when the answer comes.                          *)
(*                                                                         *)
(* The callbacks are the environment.  Each transaction writes at most     *)
(* once, calls its nested transactions one after the other and awaits      *)
(* them.  Transactions that are not nested are called one at a time.  Those*)
(* may be run with a signal, and the signal may be aborted; the callback   *)
(* then goes on all the same.                                              *)
(***************************************************************************)
EXTENDS Integers, FiniteSets, SequencesExt

CONSTANTS Txns,     \* the calls of withTransaction
          Parent,   \* the call whose callback makes the call, or None: a function of Txns
          None

VARIABLES db,       \* connection: the stack of open frames, BEGIN's and savepoints'
          durable,  \* connection: the transactions whose write is committed
          wire,     \* statements that are executed but not answered yet
          depth,    \* transactionDepths.get(adapter)
          level,    \* per transaction: the depth it has read
          scope,    \* acquireRelease: "none", "opening", "using", "closing",
                    \* "rollback" (sent), "over"
          fn,       \* the callback: "none", "running", "over"
          committing, \* commit() has sent its statement
          settled,  \* DBTransaction.settled
          signal,   \* the signal of the call is aborted
          outcome,  \* how the use of the transaction ended: "none", "value", "error"
          result,   \* what the caller has: "none", "value", "error"
          wrote,    \* history: the transactions that have written
          strayed   \* history: "no", or after an abort a "nested" call has gone on,
                    \* or the aborted callback itself has used the database "late"

connection == <<db, durable, wire>>
tasks == <<scope, fn, committing, settled, outcome>>
vars == <<connection, tasks, depth, level, signal, result, wrote, strayed>>

-----------------------------------------------------------------------------
(* The connection, with the semantics of SQLite. *)

Frame(sp) == [savepoint |-> sp, writes |-> {}]

\* The innermost frame of a savepoint.  BEGIN, COMMIT and ROLLBACK mean the whole
\* stack: their savepoint is 0.
Has(sp) == IF sp = 0 THEN db # <<>> ELSE \E k \in DOMAIN db : db[k].savepoint = sp
At(sp) == IF sp = 0 THEN 1
          ELSE CHOOSE k \in DOMAIN db : /\ db[k].savepoint = sp
                                        /\ \A j \in k + 1..Len(db) : db[j].savepoint # sp

Send(t, op, ok) == wire' = Append(wire, [txn |-> t, op |-> op, ok |-> ok])
Refuse(t, op) == Send(t, op, FALSE) /\ UNCHANGED <<db, durable>>

\* BEGIN in a transaction is an error; SAVEPOINT outside of one begins one.
SendOpen(t, sp) == \/ Refuse(t, "open")
                   \/ /\ sp = 0 => db = <<>>
                      /\ db' = Append(db, Frame(sp))
                      /\ Send(t, "open", TRUE) /\ UNCHANGED durable

\* COMMIT, RELEASE: the writes of the frames that end go to the one below.  Both
\* may be refused (the database is busy, a deferred constraint).
SendCommit(t, sp) ==
    \/ Refuse(t, "commit")
    \/ /\ Has(sp)
       /\ LET k == At(sp)
              writes == UNION {db[j].writes : j \in k..Len(db)}
          IN IF k = 1
             THEN db' = <<>> /\ durable' = durable \cup writes
             ELSE /\ db' = [SubSeq(db, 1, k - 1) EXCEPT ![k - 1].writes = @ \cup writes]
                  /\ UNCHANGED durable
       /\ Send(t, "commit", TRUE)

\* ROLLBACK ends the transaction, ROLLBACK TO leaves the savepoint on the stack.
SendRollback(t, sp) ==
    IF Has(sp) THEN /\ db' = SubSeq(db, 1, At(sp) - 1)
                             \o (IF sp = 0 THEN <<>> ELSE <<Frame(sp)>>)
                    /\ Send(t, "rollback", TRUE) /\ UNCHANGED durable
               ELSE Refuse(t, "rollback")

-----------------------------------------------------------------------------
InProgress(t) == scope[t] \notin {"none", "over"}
Calls(p) == {t \in Txns : Parent[t] = p}
Awaiting(p) == \E t \in Calls(p) : InProgress(t)

\* The caller may have the error of an aborted signal already.
First(old, new) == IF old = "none" THEN new ELSE old
Aborted(p) == p # None /\ signal[p]

Init == /\ db = <<>> /\ durable = {} /\ wire = <<>> /\ depth = 0
        /\ level = [t \in Txns |-> 0]
        /\ scope = [t \in Txns |-> "none"] /\ fn = [t \in Txns |-> "none"]
        /\ committing = [t \in Txns |-> FALSE] /\ settled = [t \in Txns |-> FALSE]
        /\ signal = [t \in Txns |-> FALSE]
        /\ outcome = [t \in Txns |-> "none"] /\ result = [t \in Txns |-> "none"]
        /\ wrote = {} /\ strayed = "no"

\* Fault: one name for all savepoints.
Savepoint_Shared(d) == IF d > 0 THEN 1 ELSE 0

\* BEGIN, or SAVEPOINT sp_<depth>.
Savepoint(d) == IF d > 0 THEN d ELSE 0

\* transaction(): the depth is read, the statement sent.
Call(t) == /\ scope[t] = "none" /\ ~Awaiting(Parent[t])
           /\ Parent[t] # None => fn[Parent[t]] = "running"
           /\ level' = [level EXCEPT ![t] = depth]
           /\ SendOpen(t, Savepoint(depth))
           /\ scope' = [scope EXCEPT ![t] = "opening"]
           /\ strayed' = IF Aborted(Parent[t]) THEN "late" ELSE strayed
           /\ UNCHANGED <<depth, fn, committing, settled, signal, outcome, result, wrote>>

\* tx.execute(): the write goes to the innermost frame, or is durable at once.
Write(t) == /\ fn[t] = "running" /\ ~Awaiting(t) /\ t \notin wrote
            /\ IF db = <<>> THEN durable' = durable \cup {t} /\ UNCHANGED db
                            ELSE /\ db' = [db EXCEPT ![Len(db)].writes = @ \cup {t}]
                                 /\ UNCHANGED durable
            /\ wrote' = wrote \cup {t}
            /\ strayed' = IF signal[t] THEN "late" ELSE strayed
            /\ UNCHANGED <<wire, tasks, depth, level, signal, result>>

\* Fault: the commit does not depend on the signal.
Commits_Always(t) == TRUE

\* flatMap(() => tx.commit()) is left out when the signal has rejected the callback.
Commits(t) == ~signal[t]

\* The callback returns and commit() is called, or it throws.
CallbackReturns(t) ==
    /\ fn[t] = "running" /\ ~Awaiting(t)
    /\ fn' = [fn EXCEPT ![t] = "over"]
    /\ IF Commits(t)
       THEN /\ SendCommit(t, Savepoint(level[t]))
            /\ committing' = [committing EXCEPT ![t] = TRUE]
       ELSE UNCHANGED <<connection, committing>>
    /\ UNCHANGED <<depth, level, scope, settled, signal, outcome, result, wrote, strayed>>

\* The use of a transaction ends: release() is called.
EndUse(t, how) == IF scope[t] = "using"
                  THEN /\ scope' = [scope EXCEPT ![t] = "closing"]
                       /\ outcome' = [outcome EXCEPT ![t] = how]
                  ELSE UNCHANGED <<scope, outcome>>

CallbackThrows(t) ==
    /\ fn[t] = "running" /\ ~Awaiting(t)
    /\ fn' = [fn EXCEPT ![t] = "over"]
    /\ EndUse(t, "error")
    /\ UNCHANGED <<connection, depth, level, committing, settled, signal, result, wrote, strayed>>

\* withSignal(...): the caller is rejected at once, the use of the transaction too.
Abort(t) == /\ Parent[t] = None /\ InProgress(t) /\ ~signal[t]
            /\ signal' = [signal EXCEPT ![t] = TRUE]
            /\ result' = [result EXCEPT ![t] = First(@, "error")]
            /\ EndUse(t, "error")
            /\ strayed' = IF Awaiting(t) /\ strayed = "no" THEN "nested" ELSE strayed
            /\ UNCHANGED <<connection, depth, level, fn, committing, settled, wrote>>

End(t, how) == /\ scope' = [scope EXCEPT ![t] = "over"]
               /\ result' = [result EXCEPT ![t] = First(@, how)]

\* release(): rollback(), which does nothing on a settled transaction.
Rollback(t) ==
    /\ scope[t] = "closing"
    /\ IF settled[t] THEN End(t, outcome[t]) /\ UNCHANGED connection
       ELSE /\ SendRollback(t, Savepoint(level[t]))
            /\ scope' = [scope EXCEPT ![t] = "rollback"] /\ UNCHANGED result
    /\ UNCHANGED <<depth, level, fn, committing, settled, signal, outcome, wrote, strayed>>

-----------------------------------------------------------------------------
(* Answers, in the order of the statements. *)

Answer(op) == /\ wire # <<>> /\ Head(wire).op = op
              /\ wire' = Tail(wire) /\ UNCHANGED <<db, durable>>

\* The count is set from what was read.  An aborted signal keeps the callback from
\* being called.
Opened == /\ Answer("open")
          /\ LET t == Head(wire).txn
             IN IF ~Head(wire).ok
                THEN End(t, "error") /\ UNCHANGED <<depth, fn, outcome>>
                ELSE /\ depth' = level[t] + 1
                     /\ IF signal[t]
                        THEN /\ scope' = [scope EXCEPT ![t] = "closing"]
                             /\ outcome' = [outcome EXCEPT ![t] = "error"]
                             /\ UNCHANGED <<fn, result>>
                        ELSE /\ scope' = [scope EXCEPT ![t] = "using"]
                             /\ fn' = [fn EXCEPT ![t] = "running"]
                             /\ UNCHANGED <<outcome, result>>
          /\ UNCHANGED <<level, committing, settled, signal, wrote, strayed>>

\* A statement that fails leaves the transaction unsettled and the count as it is.
Settle(t) == settled' = [settled EXCEPT ![t] = TRUE] /\ depth' = depth - 1

Committed == /\ Answer("commit")
             /\ LET t == Head(wire).txn
                IN IF Head(wire).ok THEN Settle(t) /\ EndUse(t, "value")
                   ELSE EndUse(t, "error") /\ UNCHANGED <<settled, depth>>
             /\ UNCHANGED <<level, fn, committing, signal, result, wrote, strayed>>

RolledBack == /\ Answer("rollback")
              /\ LET t == Head(wire).txn
                 IN /\ IF Head(wire).ok THEN Settle(t) ELSE UNCHANGED <<settled, depth>>
                    /\ End(t, outcome[t])
              /\ UNCHANGED <<level, fn, committing, signal, outcome, wrote, strayed>>

Next == \/ \E t \in Txns : \/ Call(t) \/ Write(t) \/ CallbackReturns(t)
                           \/ CallbackThrows(t) \/ Abort(t) \/ Rollback(t)
        \/ Opened \/ Committed \/ RolledBack

Spec == Init /\ [][Next]_vars

-----------------------------------------------------------------------------
(* Properties. *)

Ending == {"none", "value", "error"}
Depths == -Cardinality(Txns)..Cardinality(Txns)

\* Every variable keeps its type; the count of open transactions never gets below
\* zero, as long as no callback goes on after an abort.
TypeOK == /\ \A k \in DOMAIN db : /\ db[k].savepoint \in Depths
                                  /\ db[k].writes \subseteq Txns
          /\ durable \subseteq Txns
          /\ \A k \in DOMAIN wire : wire[k].op \in {"open", "commit", "rollback"}
          /\ depth \in Depths /\ (strayed = "no" => depth >= 0)
          /\ level \in [Txns -> Depths]
          /\ scope \in [Txns -> {"none", "opening", "using", "closing", "rollback", "over"}]
          /\ fn \in [Txns -> {"none", "running", "over"}]
          /\ committing \in [Txns -> BOOLEAN] /\ settled \in [Txns -> BOOLEAN]
          /\ signal \in [Txns -> BOOLEAN]
          /\ outcome \in [Txns -> Ending] /\ result \in [Txns -> Ending]
          /\ wrote \subseteq Txns /\ strayed \in {"no", "nested", "late"}

Idle == \A t \in Txns : ~InProgress(t)

\* The transactions that a write of t depends on: its own and those around it, the
\* least set with t and, for each of its members, the one whose callback calls it.
Closed(S) == \A t \in S : Parent[t] \in S \cup {None}
Around(t) == {u \in Txns : \A S \in SUBSET Txns : t \in S /\ Closed(S) => u \in S}

Succeeded(t) == \A u \in Around(t) : result[u] = "value"
MayHaveSucceeded(t) == \A u \in Around(t) : result[u] = "value" \/ (signal[u] /\ committing[u])

\* As long as no callback uses the connection after an abort: when no transaction is
\* in progress the connection is out of any transaction, the count is zero, and what
\* is durable was written by a transaction that reported success, as did all around
\* it.  Only a commit that was under way at an abort may have gone either way.
AllOrNothing ==
    strayed = "no" /\ Idle =>
        /\ db = <<>> /\ depth = 0
        /\ \A t \in wrote : (Succeeded(t) => t \in durable)
                         /\ (t \in durable => MayHaveSucceeded(t))

\* A transaction whose caller was rejected by the signal does not begin to commit,
\* whatever its callback returns later.
NoCommitAfterAbort ==
    [][\A t \in DOMAIN signal : signal[t] /\ ~committing[t] => ~committing'[t]]_vars

\* packages/db/README.md:96, "automatically committing on success": when nothing is in
\* progress, the write of a transaction that reported success, as did all around it,
\* is durable, though a nested call was going on when the one around it was aborted.
SuccessIsDurable == strayed # "late" /\ Idle => \A t \in wrote : Succeeded(t) => t \in durable

=============================================================================
