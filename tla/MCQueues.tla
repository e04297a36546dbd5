------------------------------ MODULE MCQueues ------------------------------
(***************************************************************************)
(* The three adapters of a queue on small instances: in memory, on Redis   *)
(* and on RabbitMQ.  Each behaviour runs the one that "model" names, and   *)
(* the others stay in their initial state.                                 *)
(***************************************************************************)
EXTENDS InMemoryQueue

CONSTANTS work, failed,
          Consumers, RedisIds, RedisCount, Visibility, RedisMaxTime,   \* RedisQueue
          RabbitIds, RabbitCount, Prefetch, MaxCloses                  \* RabbitQueue

MCQueues == {work, failed}
MCDeadLetterQueue == [q \in MCQueues |-> IF q = work THEN failed ELSE NoQueue]

VARIABLES model,
          rNow, pending, rDelayed, rInflight, data, dlq, job, held, rSettled,
          conn, asserted, ready, unacked, bDlq, bInflight, batch, bHeld, draining, stream, sent,
          acked

Redis == INSTANCE RedisQueue WITH
             now <- rNow, delayed <- rDelayed, inflight <- rInflight, settled <- rSettled,
             Ids <- RedisIds, Count <- RedisCount, MaxTime <- RedisMaxTime

ASSUME RedisAssumption == RedisMaxTime \in Nat

Rabbit == INSTANCE RabbitQueue WITH
              dlq <- bDlq, inflight <- bInflight, held <- bHeld,
              Ids <- RabbitIds, Count <- RabbitCount

-----------------------------------------------------------------------------
redis  == <<rNow, pending, rDelayed, rInflight, data, dlq, job, held, rSettled>>
rabbit == <<conn, asserted, ready, unacked, bDlq, bInflight, batch, bHeld, draining, stream, sent,
            acked>>

mcvars == <<model, vars, redis, rabbit>>

MCInit == /\ model \in {"memory", "redis", "rabbit"}
          /\ Init /\ Redis!Init /\ Rabbit!Init

MCNext == /\ UNCHANGED model
          /\ \/ model = "memory" /\ Next /\ UNCHANGED <<redis, rabbit>>
             \/ model = "redis" /\ Redis!Next /\ UNCHANGED <<vars, rabbit>>
             \/ model = "rabbit" /\ Rabbit!Next /\ UNCHANGED <<vars, redis>>

MCSpec == MCInit /\ [][MCNext]_mcvars

-----------------------------------------------------------------------------
(* Properties, besides those of InMemoryQueue. *)

\* In memory: an accepted message is somewhere until it is settled, in one copy, and
\* one more for each requeue that came too late.
MessagesAreKept == NothingVanishes /\ CopiesAreAccountedFor

\* In memory: a delayed message has a timeout that will promote it, and comes out less
\* than a second before its time.
DelaysAreKept == [](TypeOK /\ DelayedIsScheduled) /\ LessThanASecondEarly

\* On Redis and on RabbitMQ: a message that was sent and is not settled can be
\* reached, however round trips, lost connections and closed channels interleave; and
\* a subscription that is over leaves no consumer at the broker and nobody waiting.
NothingIsLost == /\ Redis!TypeOK /\ Redis!NothingIsStranded
                 /\ Rabbit!TypeOK /\ Rabbit!NothingIsLost /\ Rabbit!SubscriptionEnds

=============================================================================
