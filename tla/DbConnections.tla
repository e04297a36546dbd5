---------------------------- MODULE DbConnections ----------------------------
(***************************************************************************)
(* DB.withConnection (packages/db/db.ts) over each connector: the SQLite   *)
(* database in memory, node's SQLite (packages/db-sqlite), and the pools of*)
(* MySQL and PostgreSQL (packages/db-mysql, packages/db-postgres).         *)
(*                                                                         *)
(* All adapters of a SQLite connector are one session of one database, and *)
(* its calls are synchronous; an adapter of a pool has a client, and with  *)
(* it a session, of its own, and is awaited.  A row is named by the        *)
(* connection and the place in the batch it is written by, 0 for a single  *)
(* statement.                                                              *)
(***************************************************************************)
EXTENDS Integers, FiniteSets

CONSTANTS Conns,      \* calls of withConnection
          BatchSize,  \* rows that a call writes, in one batch
          None

VARIABLES backend,  \* "none" or the connector
          database, \* SQLite's: "closed", "open", "ended" (closed for good)
          refs,     \* adapters that are not closed, as SQLite's connectors count
          handle,   \* per call: "none", "acquiring", "open", "over"
          client,   \* per call: its client, or its opened database, is "none", "out",
                    \* "returned" or "destroyed"
          signal,   \* per call: the signal is aborted
          heard,    \* per call: the abort listener is registered
          work,     \* per call: what it is waiting for
          owner,    \* per call: it has begun a transaction
          begun,    \* per session: a transaction is open
          pending,  \* per session: the rows of the open transaction
          rows,     \* the rows that are committed
          batch     \* history, per call: "none", "whole", "failed"

pool == <<database, refs, client, heard>>
data == <<begun, pending, rows>>
vars == <<backend, pool, handle, signal, work, owner, data, batch>>

InProcess == {"memory", "sqlite"}
Pooled == {"mysql", "postgres"}

Session(c) == IF backend \in InProcess THEN None ELSE c
Sessions == Conns \cup {None}

\* op: "none"; "batch", with the rows written; "stream", or "closing" its cursor.
NoWork == [op |-> "none", done |-> 0]

Init == /\ backend = "none" /\ database = "closed" /\ refs = 0
        /\ handle = [c \in Conns |-> "none"] /\ client = [c \in Conns |-> "none"]
        /\ signal = [c \in Conns |-> FALSE] /\ heard = [c \in Conns |-> FALSE]
        /\ work = [c \in Conns |-> NoWork] /\ owner = [c \in Conns |-> FALSE]
        /\ begun = [s \in Sessions |-> FALSE] /\ pending = [s \in Sessions |-> {}]
        /\ rows = {} /\ batch = [c \in Conns |-> "none"]

\* createInMemory opens its database, the others wait for a connect.
create == /\ backend = "none" /\ backend' \in InProcess \cup Pooled
          /\ database' = IF backend' = "memory" THEN "open" ELSE "closed"
          /\ UNCHANGED <<refs, client, heard, handle, signal, work, owner, data, batch>>

-----------------------------------------------------------------------------
(* Connections. *)

Opens(c) == handle' = [handle EXCEPT ![c] = "open"]

connectMemory(c) ==
    /\ backend = "memory" /\ handle[c] = "none" /\ Opens(c)
    /\ client' = [client EXCEPT ![c] = IF database = "open" THEN "out" ELSE "destroyed"]
    /\ refs' = refs + 1 /\ UNCHANGED <<database, heard>>

\* getDb() opens the database if it is not open.
connectSqlite(c) == /\ backend = "sqlite" /\ handle[c] = "none" /\ Opens(c)
                    /\ database' = "open" /\ refs' = refs + 1
                    /\ client' = [client EXCEPT ![c] = "out"] /\ UNCHANGED heard

\* Fault: the client stays out when the signal is aborted meanwhile.
connectMysql_Keeps(c) ==
    /\ backend = "mysql" /\ handle[c] = "acquiring"
    /\ \/ /\ ~signal[c] /\ Opens(c)
          /\ client' = [client EXCEPT ![c] = "out"] /\ heard' = [heard EXCEPT ![c] = TRUE]
       \/ /\ signal[c] /\ handle' = [handle EXCEPT ![c] = "over"]
          /\ client' = [client EXCEPT ![c] = "out"] /\ UNCHANGED heard
       \/ /\ handle' = [handle EXCEPT ![c] = "over"] /\ UNCHANGED <<client, heard>>
    /\ UNCHANGED <<database, refs>>

\* The pool gives out a client, or fails; a client that comes after the abort goes back.
connectMysql(c) ==
    /\ backend = "mysql" /\ handle[c] = "acquiring"
    /\ \/ /\ ~signal[c] /\ Opens(c)
          /\ client' = [client EXCEPT ![c] = "out"] /\ heard' = [heard EXCEPT ![c] = TRUE]
       \/ /\ signal[c] /\ handle' = [handle EXCEPT ![c] = "over"]
          /\ client' = [client EXCEPT ![c] = "returned"] /\ UNCHANGED heard
       \/ /\ handle' = [handle EXCEPT ![c] = "over"] /\ UNCHANGED <<client, heard>>
    /\ UNCHANGED <<database, refs>>

\* Here it is given to the caller: an abort that came before is not heard.
connectPostgres(c) ==
    /\ backend = "postgres" /\ handle[c] = "acquiring"
    /\ \/ /\ Opens(c) /\ client' = [client EXCEPT ![c] = "out"]
          /\ heard' = [heard EXCEPT ![c] = TRUE]
       \/ /\ handle' = [handle EXCEPT ![c] = "over"] /\ UNCHANGED <<client, heard>>
    /\ UNCHANGED <<database, refs>>

withConnection(c) ==
    /\ handle[c] = "none" /\ backend \in Pooled
    /\ handle' = [handle EXCEPT ![c] = "acquiring"]
    /\ UNCHANGED <<backend, pool, signal, work, owner, data, batch>>

connect(c) ==
    /\ connectMemory(c) \/ connectSqlite(c) \/ connectMysql(c) \/ connectPostgres(c)
    /\ UNCHANGED <<backend, signal, work, owner, data, batch>>

\* The session of a client that is destroyed ends, with its transaction.
Loses(c) == /\ begun' = [begun EXCEPT ![c] = FALSE] /\ pending' = [pending EXCEPT ![c] = {}]
            /\ client' = [client EXCEPT ![c] = "destroyed"] /\ UNCHANGED rows

\* MySQL destroys the client, PostgreSQL releases it to be destroyed.
Abort(c) ==
    /\ handle[c] \in {"acquiring", "open"} /\ ~signal[c]
    /\ signal' = [signal EXCEPT ![c] = TRUE]
    /\ IF heard[c] THEN Loses(c) ELSE UNCHANGED <<client, data>>
    /\ heard' = [heard EXCEPT ![c] = FALSE]
    /\ UNCHANGED <<backend, database, refs, handle, work, owner, batch>>

\* A client that is destroyed is not in the pool: release() leaves it, with MySQL, or
\* throws, with PostgreSQL.
Releases(c) == /\ client' = [client EXCEPT ![c] = IF @ = "out" THEN "returned" ELSE @]
               /\ heard' = [heard EXCEPT ![c] = FALSE]

\* The last adapter in memory that is closed closes the database, which no connect
\* opens again.
closeMemory(c) ==
    /\ backend = "memory" /\ Releases(c) /\ refs' = refs - 1
    /\ database' = IF refs' = 0 THEN "ended" ELSE database
    /\ rows' = IF refs' = 0 THEN {} ELSE rows
    /\ UNCHANGED <<begun, pending>>

closeSqlite(c) == /\ backend = "sqlite" /\ Releases(c) /\ refs' = refs - 1
                  /\ UNCHANGED <<database, data>>

closeMysql(c) == backend = "mysql" /\ Releases(c) /\ UNCHANGED <<database, refs, data>>
closePostgres(c) == backend = "postgres" /\ Releases(c) /\ UNCHANGED <<database, refs, data>>

\* The use of the connection is over, or is given up by the abort: then a transaction has
\* been rolled back first, or its client is gone.
close(c) ==
    /\ handle[c] = "open" /\ (work[c] = NoWork \/ signal[c])
    /\ ~owner[c] \/ client[c] = "destroyed"
    /\ closeMemory(c) \/ closeSqlite(c) \/ closeMysql(c) \/ closePostgres(c)
    /\ handle' = [handle EXCEPT ![c] = "over"] /\ work' = [work EXCEPT ![c] = NoWork]
    /\ owner' = [owner EXCEPT ![c] = FALSE]
    /\ UNCHANGED <<backend, signal, batch>>

\* end() closes SQLite's database under its adapters.
end == /\ backend = "sqlite" /\ database = "open" /\ database' = "closed"
       /\ pending' = [pending EXCEPT ![None] = {}] /\ begun' = [begun EXCEPT ![None] = FALSE]
       /\ client' = [c \in Conns |-> IF client[c] = "out" THEN "destroyed" ELSE client[c]]
       /\ UNCHANGED <<backend, refs, heard, handle, signal, work, owner, rows, batch>>

-----------------------------------------------------------------------------
(* Statements. *)

\* The statement reaches the database.  What a callback does after the abort is left out
\* (DbTransactions has it).
Works(c) == client[c] = "out"
Free(c) == handle[c] = "open" /\ ~signal[c] /\ work[c] = NoWork /\ Works(c)

Writes(c, new) == IF begun[Session(c)]
                  THEN /\ pending' = [pending EXCEPT ![Session(c)] = @ \cup new]
                       /\ UNCHANGED <<begun, rows>>
                  ELSE rows' = rows \cup new /\ UNCHANGED <<begun, pending>>

\* "BEGIN", by withTransaction: an error in a transaction of the same session.
begin(c) == /\ Free(c) /\ ~owner[c] /\ ~begun[Session(c)]
            /\ begun' = [begun EXCEPT ![Session(c)] = TRUE]
            /\ owner' = [owner EXCEPT ![c] = TRUE]
            /\ UNCHANGED <<backend, pool, handle, signal, work, pending, rows, batch>>

\* "COMMIT" and "ROLLBACK".  The session may have no transaction any more.
Ends(c, kept) == /\ rows' = rows \cup kept
                 /\ pending' = [pending EXCEPT ![Session(c)] = {}]
                 /\ begun' = [begun EXCEPT ![Session(c)] = FALSE]
                 /\ owner' = [owner EXCEPT ![c] = FALSE]

commit(c) == /\ Free(c) /\ owner[c] /\ Ends(c, pending[Session(c)])
             /\ UNCHANGED <<backend, pool, handle, signal, work, batch>>

rollback(c) == /\ handle[c] = "open" /\ owner[c]
               /\ IF Works(c) THEN Ends(c, {})
                  ELSE owner' = [owner EXCEPT ![c] = FALSE] /\ UNCHANGED data
               /\ UNCHANGED <<backend, pool, handle, signal, work, batch>>

\* A statement writes a row, or is refused.  In SQLite it is part of the transaction that
\* is open, whoever has begun it.
executeMemory(c) == backend = "memory" /\ Writes(c, {<<c, 0>>})
executeSqlite(c) == backend = "sqlite" /\ Writes(c, {<<c, 0>>})
executeMysql(c) == backend = "mysql" /\ Writes(c, {<<c, 0>>})
executePostgres(c) == backend = "postgres" /\ Writes(c, {<<c, 0>>})

execute(c) == /\ Free(c)
              /\ executeMemory(c) \/ executeSqlite(c) \/ executeMysql(c) \/ executePostgres(c)
              /\ UNCHANGED <<backend, pool, handle, signal, work, owner, batch>>

\* A batch in SQLite is a transaction, and fails in one.  A row may be refused.
executeBatchSqlite(c) ==
    /\ backend = "sqlite" /\ UNCHANGED work
    /\ \/ /\ ~begun[None] /\ Writes(c, {c} \X (1..BatchSize))
          /\ batch' = [batch EXCEPT ![c] = "whole"]
       \/ UNCHANGED data /\ batch' = [batch EXCEPT ![c] = "failed"]

executeBatchMemory(c) ==
    /\ backend = "memory" /\ UNCHANGED work
    /\ \/ /\ ~begun[None] /\ Writes(c, {c} \X (1..BatchSize))
          /\ batch' = [batch EXCEPT ![c] = "whole"]
       \/ UNCHANGED data /\ batch' = [batch EXCEPT ![c] = "failed"]

\* In a pool's client the rows are written one by one, each awaited.
executeBatchMysql(c) == /\ backend = "mysql" /\ UNCHANGED <<data, batch>>
                        /\ work' = [work EXCEPT ![c] = [op |-> "batch", done |-> 0]]
executeBatchPostgres(c) == /\ backend = "postgres" /\ UNCHANGED <<data, batch>>
                           /\ work' = [work EXCEPT ![c] = [op |-> "batch", done |-> 0]]

executeBatch(c) ==
    /\ Free(c) /\ batch[c] = "none"
    /\ \/ executeBatchSqlite(c) \/ executeBatchMemory(c)
       \/ executeBatchMysql(c) \/ executeBatchPostgres(c)
    /\ UNCHANGED <<backend, pool, handle, signal, owner>>

\* The next row is written, or is refused, or the client is gone.
BatchGoesOn(c) ==
    /\ work[c].op = "batch" /\ handle[c] = "open"
    /\ \/ /\ Works(c) /\ Writes(c, {<<c, work[c].done + 1>>})
          /\ work' = [work EXCEPT ![c] = IF @.done + 1 = BatchSize THEN NoWork
                                         ELSE [@ EXCEPT !.done = work[c].done + 1]]
          /\ batch' = [batch EXCEPT ![c] = IF work[c].done + 1 = BatchSize THEN "whole" ELSE @]
       \/ /\ UNCHANGED data /\ work' = [work EXCEPT ![c] = NoWork]
          /\ batch' = [batch EXCEPT ![c] = "failed"]
    /\ UNCHANGED <<backend, pool, handle, signal, owner>>

\* A cursor of PostgreSQL is read chunk by chunk, and closed whatever happens ...
streamPostgres(c) == backend = "postgres" /\ work' = [work EXCEPT ![c].op = "stream"]

\* ... as is the stream of MySQL's rows.
streamMysql(c) == backend = "mysql" /\ work' = [work EXCEPT ![c].op = "stream"]

stream(c) == /\ Free(c)
             /\ streamPostgres(c) \/ streamMysql(c)
             /\ UNCHANGED <<backend, pool, handle, signal, owner, data, batch>>

\* The rows end, the query fails, or the consumer leaves the loop.
StreamEnds(c) ==
    /\ work[c].op \in {"stream", "closing"} /\ handle[c] = "open"
    /\ work' = [work EXCEPT ![c] = IF backend = "postgres" /\ @.op = "stream" /\ Works(c)
                                   THEN [@ EXCEPT !.op = "closing"] ELSE NoWork]
    /\ UNCHANGED <<backend, pool, handle, signal, owner, data, batch>>

Next == \/ create \/ end
        \/ \E c \in Conns : \/ withConnection(c) \/ connect(c) \/ Abort(c) \/ close(c)
                            \/ begin(c) \/ commit(c) \/ rollback(c) \/ execute(c) \/ executeBatch(c)
                            \/ BatchGoesOn(c) \/ stream(c) \/ StreamEnds(c)

Spec == Init /\ [][Next]_vars

-----------------------------------------------------------------------------
(* Properties. *)

TypeOK == /\ refs \in 0..Cardinality(Conns)
          /\ \A c \in Conns : /\ handle[c] \in {"none", "acquiring", "open", "over"}
                              /\ client[c] \in {"none", "out", "returned", "destroyed"}
                              /\ work[c].done \in 0..BatchSize
          /\ rows \subseteq Conns \X (0..BatchSize)

\* No call that is over, by whatever way, keeps a client of its pool; one that is
\* returned has neither a transaction nor work of the call on it.
ClientsComeBack ==
    \A c \in Conns : /\ handle[c] = "over" => client[c] # "out"
                     /\ client[c] = "returned" /\ backend \in Pooled =>
                            ~begun[c] /\ work[c] = NoWork

RowsOf(c) == {i \in 1..BatchSize : <<c, i>> \in rows \cup pending[Session(c)]}

\* A batch that fails leaves nothing behind in SQLite, where it is a transaction, and the
\* rows before the one that failed in a pool's client, where it is none.
FailedBatches ==
    \A c \in Conns : batch[c] = "failed" =>
        IF backend \in InProcess THEN RowsOf(c) = {} ELSE RowsOf(c) # 1..BatchSize

\* packages/db/in-memory.ts:12, "All connections share a single SQLite instance", "Suitable
\* for tests that need consistent state across multiple connect() calls": an adapter that
\* connect() has given and that is not closed has its database.
AdaptersHaveTheirDatabase ==
    \A c \in Conns : backend = "memory" /\ handle[c] = "open" => client[c] = "out"

=============================================================================
