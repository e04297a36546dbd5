------------------------------ MODULE MCStores ------------------------------
(***************************************************************************)
(* What keeps data, on small instances: the event log in memory and on     *)
(* Kafka, the transactions, the connections and the notifications of a     *)
(* database, the cache and the object storage.  Each behaviour runs the    *)
(* one that "model" names, and the others stay in their initial state.     *)
(***************************************************************************)
EXTENDS Integers, FiniteSets

CONSTANTS BatchSize,                         \* EventLog, KafkaLog and DbConnections
          Infinity,                          \* EventLog
          Partitions, MaxOffset, MaxStarts,  \* KafkaLog
          Chain, Turns,                      \* DbTransactions
          Conns, None,                       \* DbConnections
          Listeners, MaxNotes,               \* Notifications
          Callers, MaxTime, MaxValues,       \* Cache
          Keys, PageSize, MaxPuts            \* Storage

VARIABLES model,
          log, cursor, adapter, consumer, processed,
          kState, kLog, committed, run, closed, start, position, handler, commits, starts,
          reported, emitted, acknowledged, jumped,
          db, durable, wire, depth, level, scope, fn, committing, settled, signal, outcome,
          result, wrote, strayed,
          cBackend, database, refs, handle, cClient, cSignal, heard, work, owner, begun,
          pending, rows, batch,
          nBackend, notes, subscriptions, nState, loop, buffer, nClient, nWire, failed, first,
          got,
          now, backend, client, entry, call, answer, values, life,
          sBackend, objects, slots, puts, sCall, sAnswer

-----------------------------------------------------------------------------
\* A bounded channel with two handlers at a time, and an unbounded one with one.
LogOptions == {[size |-> 1, limit |-> 2], [size |-> Infinity, limit |-> 1]}

\* One consumer of four events, or two of one group with two events.
LongLog == INSTANCE EventLog WITH Consumers <- {"first"}, Options <- LogOptions, MaxEvents <- 4
SharedLog == INSTANCE EventLog WITH
                 Consumers <- {"first", "second"}, Options <- LogOptions, MaxEvents <- 2

Kafka == INSTANCE KafkaLog WITH state <- kState, log <- kLog

ASSUME KafkaAssumption == MaxOffset \in Nat

\* A chain of nested calls, or a call in another and the others after both.
Nested == INSTANCE DbTransactions WITH
              Txns <- 1..Chain, Parent <- [t \in 1..Chain |-> t - 1], None <- 0
InTurn == INSTANCE DbTransactions WITH
              Txns <- 1..Turns, Parent <- [t \in 1..Turns |-> IF t = 2 THEN 1 ELSE 0], None <- 0

ASSUME TransactionsAssumption == Chain \in Nat /\ Turns \in Nat

Connections == INSTANCE DbConnections WITH
                   backend <- cBackend, client <- cClient, signal <- cSignal

ASSUME ConnectionsAssumption ==
    IsFiniteSet(Conns) /\ None \notin Conns /\ BatchSize \in Nat \ {0}

Notes == INSTANCE Notifications WITH
             backend <- nBackend, state <- nState, client <- nClient, wire <- nWire

ASSUME NotesAssumption == MaxNotes \in Nat

Caching == INSTANCE Cache

ASSUME CachingAssumption == MaxTime \in Nat /\ MaxValues \in Nat

Store == INSTANCE Storage WITH backend <- sBackend, call <- sCall, answer <- sAnswer

ASSUME StorageAssumption ==
    IsFiniteSet(Keys) /\ Keys \subseteq Nat \ {0} /\ PageSize \in Nat \ {0} /\ MaxPuts \in Nat

-----------------------------------------------------------------------------
eventlog      == <<log, cursor, adapter, consumer, processed>>
kafka         == <<kState, kLog, committed, run, closed, start, position, handler, commits,
                   starts, reported, emitted, acknowledged, jumped>>
transactions  == <<db, durable, wire, depth, level, scope, fn, committing, settled, signal,
                   outcome, result, wrote, strayed>>
connections   == <<cBackend, database, refs, handle, cClient, cSignal, heard, work, owner,
                   begun, pending, rows, batch>>
notifications == <<nBackend, notes, subscriptions, nState, loop, buffer, nClient, nWire,
                   failed, first, got>>
caching       == <<now, backend, client, entry, call, answer, values, life>>
storage       == <<sBackend, objects, slots, puts, sCall, sAnswer>>

mcvars == <<model, eventlog, kafka, transactions, connections, notifications, caching, storage>>

MCInit ==
    /\ model \in {"long log", "shared log", "kafka", "nested", "in turn", "connections",
                  "notifications", "caching", "storage"}
    /\ IF model = "long log" THEN LongLog!Init ELSE SharedLog!Init
    /\ IF model = "nested" THEN Nested!Init ELSE InTurn!Init
    /\ Kafka!Init /\ Connections!Init /\ Notes!Init /\ Caching!Init /\ Store!Init

MCNext ==
    /\ UNCHANGED model
    /\ \/ /\ \/ model = "long log" /\ LongLog!Next
             \/ model = "shared log" /\ SharedLog!Next
          /\ UNCHANGED <<kafka, transactions, connections, notifications, caching, storage>>
       \/ /\ model = "kafka" /\ Kafka!Next
          /\ UNCHANGED <<eventlog, transactions, connections, notifications, caching, storage>>
       \/ /\ \/ model = "nested" /\ Nested!Next
             \/ model = "in turn" /\ InTurn!Next
          /\ UNCHANGED <<eventlog, kafka, connections, notifications, caching, storage>>
       \/ /\ model = "connections" /\ Connections!Next
          /\ UNCHANGED <<eventlog, kafka, transactions, notifications, caching, storage>>
       \/ /\ model = "notifications" /\ Notes!Next
          /\ UNCHANGED <<eventlog, kafka, transactions, connections, caching, storage>>
       \/ /\ model = "caching" /\ Caching!Next
          /\ UNCHANGED <<eventlog, kafka, transactions, connections, notifications, storage>>
       \/ /\ model = "storage" /\ Store!Next
          /\ UNCHANGED <<eventlog, kafka, transactions, connections, notifications, caching>>

MCSpec == MCInit /\ [][MCNext]_mcvars

-----------------------------------------------------------------------------
(* Properties. *)

\* In memory: overlapping drives and blocked sends neither lose nor repeat an event,
\* and none is forgotten.
EventsArrive ==
    IF model = "long log" THEN LongLog!TypeOK /\ LongLog!NothingSkipped /\ LongLog!NoEventForgotten
    ELSE SharedLog!TypeOK /\ SharedLog!NothingSkipped /\ SharedLog!NoEventForgotten

\* What a committed cursor covers was processed (in memory, with one batch at a time),
\* or was given out to a consumer (on Kafka, where it began at the committed offset).
CursorsAreHonest ==
    /\ IF model = "long log" THEN LongLog!CommittedIsProcessed ELSE SharedLog!CommittedIsProcessed
    /\ Kafka!TypeOK /\ Kafka!CommittedWasGivenOut

\* Nothing of a transaction is durable unless it, and those around it, reported success
\* or were aborted in their commit, and a connection is left out of any transaction.
AllOrNothing == IF model = "nested" THEN Nested!TypeOK /\ Nested!AllOrNothing
                                    ELSE InTurn!TypeOK /\ InTurn!AllOrNothing

\* A transaction whose caller was rejected by the signal does not begin to commit.
NoCommitAfterAbort == Nested!NoCommitAfterAbort   \* the same formula as InTurn's

\* A connection that was taken from its pool comes back, once and out of any
\* transaction; a batch that fails has written none of its rows.
ConnectionsAreSound == /\ Connections!TypeOK /\ Connections!ClientsComeBack
                       /\ Connections!FailedBatches

\* A listener has got every notification since it began, in order, and one that has
\* been left keeps neither its subscription nor its client.
ListenersAreTold == /\ Notes!TypeOK /\ Notes!EveryListenerIsTold
                    /\ Notes!ListenersLeaveNothing

\* A value that a cache answers was the value of its key at some time of the call.
NothingStaleIsReturned == Caching!TypeOK /\ Caching!NothingStaleIsReturned

\* A list gives each object that was there all the time, once, while others come and
\* go; the body of a get is that of its metadata; only a missing object is not found.
StorageIsFaithful == /\ [](Store!TypeOK /\ Store!ListsWhatIsThere /\ Store!BodyHasItsMetadata)
                     /\ Store!OnlyTheMissingAreMissed

=============================================================================
