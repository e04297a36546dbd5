------------------------------ MODULE RedisQueue ------------------------------
(***************************************************************************)
(* The Redis queue (packages/queue-redis): three sorted sets of ids and a  *)
(* hash of messages, read and written by consumers that share nothing      *)
(* else.  An operation is a sequence of round trips and a pipeline is one  *)
(* of them; between two round trips other consumers run, or the connection *)
(* is lost.                                                                *)
(***************************************************************************)
EXTENDS Integers, Sequences, FiniteSets, FiniteSetsExt

CONSTANTS Consumers,
          Ids,           \* messages that are sent
          Count,         \* how many a receive() asks for
          Visibility,    \* the visibility timeout
          MaxAttempts,   \* maxAttempts of the queue, which has a dead letter queue
          MaxTime        \* bound of the clock

VARIABLES now,
          pending, delayed, inflight,  \* sorted sets: the score of an id, or Absent
          data,                        \* the hash: the attempt of a message, or 0
          dlq,                         \* copies of a message in the dead letter queue
          job,                         \* per consumer: the operation it is in
          held,                        \* per consumer and id: when it was given, or Absent
          settled                      \* history: ids acknowledged, discarded or routed

sets == <<pending, delayed, inflight>>
vars == <<now, sets, data, dlq, job, held, settled>>

Absent == -1
Idle == [step |-> "idle", ids |-> {}, at |-> 0]

\* zrangebyscore from 0, zadd and zrem.
Due(set, time) == {id \in Ids : set[id] # Absent /\ set[id] <= time}
Zadd(set, ids, score) == [id \in Ids |-> IF id \in ids THEN score ELSE set[id]]
Zrem(set, ids) == Zadd(set, ids, Absent)

Init == /\ now = 0
        /\ pending = [id \in Ids |-> Absent] /\ delayed = pending /\ inflight = pending
        /\ data = [id \in Ids |-> 0] /\ dlq = data
        /\ job = [c \in Consumers |-> Idle]
        /\ held = [c \in Consumers |-> [id \in Ids |-> Absent]]
        /\ settled = {}

Tick == /\ now < MaxTime /\ now' = now + 1
        /\ UNCHANGED <<sets, data, dlq, job, held, settled>>

Goto(c, step, ids, at) == job' = [job EXCEPT ![c] = [step |-> step, ids |-> ids, at |-> at]]
Return(c) == job' = [job EXCEPT ![c] = Idle]

-----------------------------------------------------------------------------
(* send and sendBatch: one pipeline. *)

NotSent == {id \in Ids : data[id] = 0 /\ id \notin settled
                /\ pending[id] = Absent /\ delayed[id] = Absent /\ inflight[id] = Absent}

sendBatch == \E ids \in SUBSET NotSent \ {{}}, delayMs \in 0..1 :
    /\ data' = Zadd(data, ids, 1)
    /\ IF delayMs > 0 THEN delayed' = Zadd(delayed, ids, now + delayMs) /\ UNCHANGED pending
                      ELSE pending' = Zadd(pending, ids, now) /\ UNCHANGED delayed
    /\ UNCHANGED <<now, inflight, dlq, job, held, settled>>

-----------------------------------------------------------------------------
(* receive: expired messages first, then delayed ones, then what is due. *)

receive(c) ==
    /\ job[c] = Idle
    /\ LET expired == Due(inflight, now - Visibility)
       IN Goto(c, IF expired = {} THEN "readDelayed" ELSE "moveExpired", expired, now)
    /\ UNCHANGED <<now, sets, data, dlq, held, settled>>

expireInflight(c) ==
    /\ job[c].step = "moveExpired"
    /\ inflight' = Zrem(inflight, job[c].ids)
    /\ pending' = Zadd(pending, job[c].ids, job[c].at)
    /\ Goto(c, "readDelayed", {}, job[c].at)
    /\ UNCHANGED <<now, delayed, data, dlq, held, settled>>

ReadsDelayed(c) ==
    /\ job[c].step = "readDelayed"
    /\ LET ready == Due(delayed, job[c].at)
       IN Goto(c, IF ready = {} THEN "readPending" ELSE "moveDelayed", ready, job[c].at)
    /\ UNCHANGED <<now, sets, data, dlq, held, settled>>

MovesDelayed(c) ==
    /\ job[c].step = "moveDelayed"
    /\ delayed' = Zrem(delayed, job[c].ids)
    /\ pending' = Zadd(pending, job[c].ids, job[c].at)
    /\ Goto(c, "readPending", {}, job[c].at)
    /\ UNCHANGED <<now, inflight, data, dlq, held, settled>>

\* The first Count of them; the order among equal scores is that of the ids.
Batches(time) == LET due == Due(pending, time) IN
    {ids \in SUBSET due :
        /\ Cardinality(ids) = Min({Count, Cardinality(due)})
        /\ \A id \in ids, left \in due \ ids : pending[id] <= pending[left]}

ReadsPending(c) ==
    /\ job[c].step = "readPending"
    /\ \E ids \in Batches(job[c].at) :
          IF ids = {} THEN Return(c) ELSE Goto(c, "take", ids, job[c].at)
    /\ UNCHANGED <<now, sets, data, dlq, held, settled>>

\* An id without data is skipped, but it is in flight from here on.
Takes(c) ==
    /\ job[c].step = "take"
    /\ pending' = Zrem(pending, job[c].ids)
    /\ inflight' = Zadd(inflight, job[c].ids, job[c].at)
    /\ held' = [held EXCEPT ![c] =
                   Zadd(@, {id \in job[c].ids : data[id] # 0}, job[c].at)]
    /\ Return(c)
    /\ UNCHANGED <<now, delayed, data, dlq, settled>>

-----------------------------------------------------------------------------
(* ack and nack, of messages that the consumer was given. *)

Given(c) == {id \in Ids : held[c][id] # Absent}
GivesUp(c, ids) == held' = [held EXCEPT ![c] = Zrem(@, ids)]

\* ack, and nack without options.
ack(c) == \E ids \in SUBSET Given(c) \ {{}} :
    /\ job[c] = Idle
    /\ inflight' = Zrem(inflight, ids) /\ data' = Zadd(data, ids, 0)
    /\ settled' = settled \cup ids /\ GivesUp(c, ids)
    /\ UNCHANGED <<now, pending, delayed, dlq, job>>

\* nack reads the message first: to add to its attempt, or to copy it.
nack(c) == \E id \in Given(c), option \in {"requeue", "deadLetter"} :
    /\ job[c] = Idle
    /\ IF option = "requeue" /\ data[id] = 0
       THEN Goto(c, "clear", {id}, 0)
       ELSE IF option = "requeue" /\ data[id] < MaxAttempts
       THEN Goto(c, "requeue", {id}, data[id] + 1)
       ELSE Goto(c, "readForDlq", {id}, 0)
    /\ GivesUp(c, {id})
    /\ UNCHANGED <<now, sets, data, dlq, settled>>

Clears(c) == /\ job[c].step = "clear"
             /\ inflight' = Zrem(inflight, job[c].ids) /\ Return(c)
             /\ UNCHANGED <<now, pending, delayed, data, dlq, held, settled>>

Requeues(c) == \E delay \in 0..1 :
    /\ job[c].step = "requeue"
    /\ inflight' = Zrem(inflight, job[c].ids)
    /\ data' = Zadd(data, job[c].ids, job[c].at)
    /\ IF delay > 0 THEN delayed' = Zadd(delayed, job[c].ids, now + delay) /\ UNCHANGED pending
                    ELSE pending' = Zadd(pending, job[c].ids, now) /\ UNCHANGED delayed
    /\ Return(c)
    /\ UNCHANGED <<now, dlq, held, settled>>

ReadsForDlq(c) ==
    /\ job[c].step = "readForDlq"
    /\ IF \A id \in job[c].ids : data[id] = 0
       THEN Return(c) ELSE Goto(c, "route", job[c].ids, 0)
    /\ UNCHANGED <<now, sets, data, dlq, held, settled>>

routeToDlq(c) ==
    /\ job[c].step = "route"
    /\ inflight' = Zrem(inflight, job[c].ids)
    /\ dlq' = [id \in Ids |-> IF id \in job[c].ids THEN dlq[id] + 1 ELSE dlq[id]]
    /\ data' = Zadd(data, job[c].ids, 0)
    /\ settled' = settled \cup job[c].ids /\ Return(c)
    /\ UNCHANGED <<now, pending, delayed, held>>

-----------------------------------------------------------------------------
(* The connection: a round trip that fails, or end(), rejects the operation. *)

Disconnects(c) == /\ job[c] # Idle
                  /\ Return(c)
                  /\ UNCHANGED <<now, sets, data, dlq, held, settled>>

Next == \/ Tick \/ sendBatch
        \/ \E c \in Consumers :
              \/ receive(c) \/ expireInflight(c) \/ ReadsDelayed(c) \/ MovesDelayed(c)
              \/ ReadsPending(c) \/ Takes(c) \/ ack(c) \/ nack(c) \/ Clears(c)
              \/ Requeues(c) \/ ReadsForDlq(c) \/ routeToDlq(c) \/ Disconnects(c)

Spec == Init /\ [][Next]_vars

-----------------------------------------------------------------------------
TypeOK == /\ now \in 0..MaxTime
          /\ \A set \in {pending, delayed, inflight} : set \in [Ids -> Absent..MaxTime + 1]
          /\ data \in [Ids -> 0..MaxAttempts] /\ dlq \in [Ids -> Nat]
          /\ \A c \in Consumers : job[c].ids \subseteq Ids
          /\ held \in [Consumers -> [Ids -> Absent..MaxTime]]
          /\ settled \subseteq Ids

\* However the round trips of consumers and lost connections interleave, a message
\* that nobody has settled keeps its data and can be reached: its id is in one of the
\* sorted sets.  (One that was acknowledged may come back: a nack that has read it
\* before writes its data again.)
NothingIsStranded == \A id \in Ids \ settled :
    IF data[id] = 0 THEN id \in NotSent
    ELSE ~(pending[id] = Absent /\ delayed[id] = Absent /\ inflight[id] = Absent)

\* "messages become invisible": nobody else is given a message before the visibility
\* timeout of the consumer that has it.
HeldMessagesAreHidden == \A c, d \in Consumers, id \in Ids :
    (c # d /\ id \in Given(c) \cap Given(d)) => held[d][id] - held[c][id] \notin (1 - Visibility)..(Visibility - 1)

=============================================================================
