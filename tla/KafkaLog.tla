------------------------------- MODULE KafkaLog -------------------------------
(***************************************************************************)
(* The Kafka event log (packages/eventlog-kafka/kafka.ts): the connector,  *)
(* append, the consumer of one group and its commits.  The broker and the  *)
(* client library are external: a fetch begins at the position of the      *)
(* partition, which only resolveOffset, seek and a rebalance move.         *)
(***************************************************************************)
EXTENDS Integers, Sequences, FiniteSets, FiniteSetsExt

CONSTANTS Partitions,
          BatchSize,   \* options.batchSize
          MaxOffset,   \* bound: messages of a partition
          MaxStarts    \* bound: consumers one after the other

VARIABLES state,      \* of the connector: "none", "open", "ending"
          log,        \* per partition: "good" and "bad" messages
          committed,  \* per partition: the offset of the group, or NoOffset
          run,        \* the consumer: "none", "starting", "joined", "failed"
          closed,     \* closed, of the consumer
          start,      \* its cursor: per partition an offset, or NoOffset
          position,   \* per partition: the next offset to fetch, or NoOffset
          handler,    \* handleEachBatch, NoHandler when it is not called
          commits,    \* commit functions of batches: [partition, next]
          starts, reported,  \* consumers made; whether onError was called
          \* history: offsets given out; the last one the consumer spoke for; partitions
          \* begun at their end
          emitted, acknowledged, jumped

consumer == <<run, closed, start, starts, reported>>
history == <<emitted, acknowledged, jumped>>
vars == <<state, log, committed, consumer, position, handler, commits, history>>

NoOffset == -1
Nowhere == [p \in Partitions |-> NoOffset]
NoHandler == [stage |-> "idle"]

Init == /\ state = "none" /\ log = [p \in Partitions |-> <<>>] /\ committed = Nowhere
        /\ run = "none" /\ closed = FALSE /\ start = Nowhere /\ position = Nowhere
        /\ handler = NoHandler /\ commits = {} /\ starts = 0 /\ reported = FALSE
        /\ emitted = [p \in Partitions |-> {}] /\ jumped = {}
        /\ acknowledged = [p \in Partitions |-> 0]

-----------------------------------------------------------------------------
(* The connector. *)

connect == /\ state = "none" /\ state' = "open"
           /\ UNCHANGED <<log, committed, consumer, position, handler, commits, history>>

\* end() and close() disconnect the consumers too; connect() works again afterwards.
end == \/ /\ state = "open" /\ state' = "ending"
          /\ UNCHANGED <<log, committed, consumer, position, handler, commits, history>>
       \/ /\ state = "ending" /\ state' = "none"
          /\ closed' = (run # "none")
          /\ UNCHANGED <<log, committed, run, start, starts, reported, position, handler, commits, history>>

append == \E p \in Partitions, message \in {"good", "bad"} :
    /\ state = "open" /\ Len(log[p]) < MaxOffset
    /\ log' = [log EXCEPT ![p] = Append(@, message)]
    /\ UNCHANGED <<state, committed, consumer, position, handler, commits, history>>

-----------------------------------------------------------------------------
(* The consumer's life. *)

\* The cursor of a batch names the partition of the batch only.
Cursors == {Nowhere} \cup {[Nowhere EXCEPT ![f.partition] = f.next] : f \in commits}

Speaks(cursor) ==
    acknowledged' = [p \in Partitions |-> Max({acknowledged[p], cursor[p]})]

consume == /\ state = "open" /\ starts < MaxStarts
           /\ run = "none" \/ closed
           /\ start' \in Cursors /\ run' = "starting" /\ closed' = FALSE
           /\ starts' = starts + 1 /\ reported' = FALSE
           /\ position' = Nowhere /\ handler' = NoHandler /\ commits' = {}
           /\ Speaks(start')
           /\ UNCHANGED <<state, log, committed, emitted, jumped>>

\* Where the client begins: the committed offset, or one end of the partition.
Begin(p) == IF committed[p] # NoOffset THEN committed[p]
            ELSE IF start = Nowhere THEN 0 ELSE Len(log[p])

\* On the first GROUP_JOIN the consumer seeks what its cursor has.
Joins == /\ run = "starting" /\ ~closed
         /\ run' = "joined"
         /\ position' = [p \in Partitions |-> IF start[p] # NoOffset THEN start[p] ELSE Begin(p)]
         /\ jumped' = jumped \cup {p \in Partitions : start # Nowhere /\ start[p] = NoOffset
                                                        /\ committed[p] = NoOffset}
         /\ UNCHANGED <<state, log, committed, closed, start, starts, reported, handler, commits, emitted, acknowledged>>

\* connect, subscribe or run rejects: the consumer closes itself, and onError is
\* called if it is not closed.
StartFails == /\ run = "starting" /\ ~closed
              /\ run' = "failed" /\ closed' = TRUE
              /\ reported' = ~closed'
              /\ UNCHANGED <<state, log, committed, start, starts, position, handler, commits, history>>

closeConsumer == /\ run # "none" /\ ~closed /\ closed' = TRUE
                 /\ UNCHANGED <<state, log, committed, run, start, starts, reported, position,
                                handler, commits, history>>

\* Partitions are assigned again: the cursor is not sought a second time, and a
\* batch that is being handled is stale.
Rebalances == /\ run = "joined" /\ ~closed
              /\ position' = [p \in Partitions |-> Begin(p)]
              /\ jumped' = jumped \cup {p \in Partitions : start # Nowhere /\ committed[p] = NoOffset}
              /\ handler' = IF handler.stage = "idle" THEN handler ELSE [handler EXCEPT !.stale = TRUE]
              /\ UNCHANGED <<state, log, committed, consumer, commits, emitted, acknowledged>>

-----------------------------------------------------------------------------
(* handleEachBatch, from one await to the next. *)

Fetches == \E p \in Partitions :
    /\ run = "joined" /\ ~closed /\ handler.stage = "idle"
    /\ position[p] < Len(log[p])
    /\ handler' = [stage |-> "loop", partition |-> p, last |-> Len(log[p]) - 1, at |-> position[p],
                   events |-> {}, count |-> 0, stale |-> FALSE]
    /\ UNCHANGED <<state, log, committed, consumer, position, commits, history>>

Stops == handler.stale \/ closed
Good == {o \in handler.at..handler.last : log[handler.partition][o + 1] = "good"}
\* The message at which there are enough events, if there is one.
Full == {o \in Good : Cardinality(handler.events \cup {g \in Good : g <= o}) >= BatchSize}

\* Messages up to a full batch, or to the end; bad ones are reported and passed.
Collects ==
    /\ handler.stage = "loop"
    /\ handler' = IF Stops THEN NoHandler
                  ELSE IF Full = {}
                  THEN [handler EXCEPT !.stage = "rest", !.events = @ \cup Good]
                  ELSE [handler EXCEPT !.stage = "full", !.at = Min(Full) + 1,
                                       !.events = @ \cup {g \in Good : g <= Min(Full)}]
    /\ UNCHANGED <<state, log, committed, consumer, position, commits, history>>

GivesOut(events, next) ==
    /\ emitted' = [emitted EXCEPT ![handler.partition] = @ \cup events]
    /\ commits' = commits \cup {[partition |-> handler.partition, next |-> next]}

\* onBatch settles.  If it throws, the catch of the parser takes it for a malformed
\* message and the events stay in the next batch.
FullBatch ==
    /\ handler.stage = "full"
    /\ \/ /\ GivesOut(handler.events, handler.at)
          /\ handler' = [handler EXCEPT !.stage = "loop", !.events = {}, !.count = 1]
       \/ /\ handler' = [handler EXCEPT !.stage = "loop", !.count = 1]
          /\ UNCHANGED <<emitted, commits>>
    /\ UNCHANGED <<state, log, committed, consumer, position, acknowledged, jumped>>

Resolve(p, next) == /\ position' = [position EXCEPT ![p] = next]
                    /\ committed' = [committed EXCEPT ![p] = next]

\* Fault: bad messages behind a batch are committed, and the batch with them.
MayCommitBad_Always == TRUE

MayCommitBad == handler.count = 0

\* What is left: a last batch, or bad messages only, which are committed here unless
\* a batch before them has not been.  An error leaves all to the next fetch.
Rest ==
    /\ handler.stage = "rest"
    /\ handler' = NoHandler
    /\ \/ UNCHANGED <<position, committed, emitted, commits>>
       \/ /\ ~Stops /\ handler.events = {} /\ MayCommitBad
          /\ Resolve(handler.partition, handler.last + 1)
          /\ UNCHANGED <<emitted, commits>>
       \/ /\ ~Stops /\ handler.events # {}
          /\ GivesOut(handler.events, handler.last + 1)
          /\ UNCHANGED <<position, committed>>
    /\ UNCHANGED <<state, log, consumer, acknowledged, jumped>>

-----------------------------------------------------------------------------
(* Commits. *)

commit == \E f \in commits :
    /\ ~closed /\ state = "open"
    /\ Resolve(f.partition, f.next) /\ Speaks([Nowhere EXCEPT ![f.partition] = f.next])
    /\ UNCHANGED <<state, log, consumer, handler, commits, emitted, jumped>>

\* Out of band: a consumer of its own joins the group, so the other one rebalances.
commitCursor == \E f \in commits :
    /\ state = "open"
    /\ committed' = [committed EXCEPT ![f.partition] = f.next]
    /\ Speaks([Nowhere EXCEPT ![f.partition] = f.next])
    /\ UNCHANGED <<state, log, consumer, position, handler, commits, emitted, jumped>>

\* null when nothing is committed.
getCursor == IF committed = Nowhere THEN {} ELSE {p \in Partitions : committed[p] # NoOffset}

Next == \/ connect \/ end \/ append \/ consume \/ Joins \/ StartFails \/ closeConsumer
        \/ Rebalances \/ Fetches \/ Collects \/ FullBatch \/ Rest \/ commit \/ commitCursor

Spec == Init /\ [][Next]_vars

-----------------------------------------------------------------------------
TypeOK == /\ state \in {"none", "open", "ending"} /\ run \in {"none", "starting", "joined", "failed"}
          /\ committed \in [Partitions -> NoOffset..MaxOffset] /\ position \in [Partitions -> NoOffset..MaxOffset]
          /\ \A p \in Partitions : emitted[p] \subseteq 0..Len(log[p]) - 1
          /\ \A f \in commits : f.next <= Len(log[f.partition])
          /\ jumped \subseteq Partitions

\* At least once: an event that the committed offset of its partition has passed was
\* given out, and the consumer has committed or resumed from its batch or a later one,
\* whatever was malformed, closed, rebalanced or committed late; unless a cursor
\* without the partition made a consumer begin at the end.
CommittedWasGivenOut == \A p \in getCursor \ jumped : \A o \in 0..committed[p] - 1 :
    log[p][o + 1] = "good" => o \in emitted[p] /\ o < acknowledged[p]

\* "Error thrown when consuming events fails" (errors.ts:19): a consumer that cannot
\* start calls onError.
FailuresAreReported == run = "failed" => reported

=============================================================================
