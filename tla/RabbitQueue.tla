----------------------------- MODULE RabbitQueue -----------------------------
(***************************************************************************)
(* The RabbitMQ queue (packages/queue-rabbitmq): an adapter over a channel *)
(* that finds deliveries by the id in their envelope, pulled with          *)
(* receive() or pushed to a subscription.  The broker is external: it      *)
(* holds the queue and what is not acknowledged, and gives the latter back *)
(* to the queue when the channel closes.                                   *)
(***************************************************************************)
EXTENDS Integers, Sequences, FiniteSets, SequencesExt

CONSTANTS Ids,           \* messages that are sent
          Count,         \* of receive()
          Prefetch,      \* of subscribe()
          MaxAttempts,   \* maxAttempts of the queue
          MaxCloses      \* bound: how often the connection is closed

VARIABLES conn,      \* [state : "none", "connecting" or "open", attempts, closes]
          asserted,  \* of the queue in this adapter: "no", "dlq", "queue", "yes"
          ready,     \* broker: the queue, copies [id, attempt]
          unacked,   \* broker: deliveries [tag, id, attempt] of this channel
          dlq,       \* broker: ids in the dead letter queue
          inflight,  \* the adapter's map: the tag of a message, or 0
          batch,     \* ids that the receive() under way has, {} too when there is none
          held,      \* ids in the hands of the caller
          draining,  \* deliveries a requeue acknowledges when the buffer has drained
          stream,    \* the subscription
          sent, acked  \* history

broker == <<ready, unacked, dlq>>
vars == <<conn, asserted, broker, inflight, batch, held, draining, stream, sent, acked>>

NoStream == [start |-> "none", consumer |-> FALSE, aborted |-> FALSE, cancelling |-> FALSE,
             done |-> FALSE, waiting |-> FALSE, pending |-> <<>>]

Init == /\ conn = [state |-> "none", attempts |-> 0, closes |-> 0] /\ asserted = "no"
        /\ ready = <<>> /\ unacked = {} /\ dlq = {}
        /\ inflight = [id \in Ids |-> 0] /\ batch = {} /\ held = {} /\ draining = {}
        /\ stream = NoStream /\ sent = {} /\ acked = {}

-----------------------------------------------------------------------------
(* The connector. *)

ConnectAttempts == 5

connect == /\ conn.state = "none"
           /\ conn' = [conn EXCEPT !.state = "connecting"]
           /\ UNCHANGED <<asserted, broker, inflight, batch, held, draining, stream, sent, acked>>

\* amqpConnect settles; the last failure is thrown, and connect() can be called again.
ConnectSettles ==
    /\ conn.state = "connecting"
    /\ \/ conn' = [conn EXCEPT !.state = "open", !.attempts = 0]
       \/ conn' = IF conn.attempts + 1 < ConnectAttempts
                  THEN [conn EXCEPT !.attempts = @ + 1]
                  ELSE [conn EXCEPT !.state = "none", !.attempts = 0]
    /\ UNCHANGED <<asserted, broker, inflight, batch, held, draining, stream, sent, acked>>

\* What comes back to the queue, in any order.
Copies(deliveries) ==
    {[n \in DOMAIN order |-> [id |-> order[n].id, attempt |-> order[n].attempt]] :
        order \in {f \in [1..Cardinality(deliveries) -> deliveries] : ToSet(f) = deliveries}}

\* end(), close() or a lost connection; the next adapter knows nothing.
Closes == /\ conn.state = "open" /\ conn.closes < MaxCloses
          /\ conn' = [conn EXCEPT !.state = "none", !.closes = @ + 1]
          /\ (\E copies \in Copies(unacked) : ready' = copies \o ready) /\ unacked' = {}
          /\ asserted' = "no" /\ inflight' = [id \in Ids |-> 0]
          /\ batch' = {} /\ held' = {} /\ draining' = {} /\ stream' = NoStream
          /\ UNCHANGED <<dlq, sent, acked>>

-----------------------------------------------------------------------------
(* assertQueue: operations wait for the one assertion under way. *)

assertQueue ==
    /\ conn.state = "open"
    /\ \/ asserted = "no" /\ asserted' = "dlq"
       \/ asserted = "dlq" /\ asserted' \in {"queue", "no"}
       \/ asserted = "queue" /\ asserted' \in {"yes", "no"}
    /\ UNCHANGED <<conn, broker, inflight, batch, held, draining, stream, sent, acked>>

Ready == conn.state = "open" /\ asserted = "yes"

-----------------------------------------------------------------------------
(* send, receive and ack. *)

\* Of a batch each message is a call of its own.
send(id) == /\ Ready /\ id \notin sent
            /\ sent' = sent \cup {id}
            /\ ready' = Append(ready, [id |-> id, attempt |-> 1])
            /\ UNCHANGED <<conn, asserted, unacked, dlq, inflight, batch, held, draining, stream, acked>>

FreshTag == CHOOSE tag \in 1..Cardinality(unacked) + 1 : \A u \in unacked : u.tag # tag

\* The broker delivers the first message and the adapter notes it by its id.
Delivered == /\ ready # <<>>
             /\ ready' = Tail(ready)
             /\ unacked' = unacked \cup {[tag |-> FreshTag, id |-> Head(ready).id,
                                          attempt |-> Head(ready).attempt]}
             /\ inflight' = [inflight EXCEPT ![Head(ready).id] = FreshTag]

Gets == /\ Ready /\ Cardinality(batch) < Count
        /\ Delivered /\ batch' = batch \cup {Head(ready).id}
        /\ UNCHANGED <<conn, asserted, dlq, held, draining, stream, sent, acked>>

\* After Count messages, or when the queue is empty.
receive == /\ Ready /\ batch # {} /\ (ready = <<>> \/ Cardinality(batch) = Count)
           /\ held' = held \cup batch /\ batch' = {}
           /\ UNCHANGED <<conn, asserted, broker, inflight, draining, stream, sent, acked>>

\* get() or the envelope's JSON fails: what this call has got is not returned.
receiveFails == /\ Ready /\ batch # {}
                /\ batch' = {}
                /\ UNCHANGED <<conn, asserted, broker, inflight, held, draining, stream, sent, acked>>

Of(id) == {u \in unacked : u.tag = inflight[id]}
Forget(ids) == inflight' = [id \in Ids |-> IF id \in ids THEN 0 ELSE inflight[id]]

ack == \E ids \in SUBSET held \ {{}} :
    /\ unacked' = unacked \ UNION {Of(id) : id \in ids}
    /\ Forget(ids) /\ held' = held \ ids
    /\ acked' = acked \cup {id \in ids : inflight[id] # 0}
    /\ UNCHANGED <<conn, asserted, ready, dlq, batch, draining, stream, sent>>

-----------------------------------------------------------------------------
(* nack. *)

\* nack(msg, false, false): the broker moves it.  Without options too.
DeadLetters(u) == /\ unacked' = unacked \ {u} /\ dlq' = dlq \cup {u.id}
                  /\ UNCHANGED <<ready, draining>>

\* Fault: the delivery is acknowledged first and sent again after the drain.
Requeues_AckFirst(u) ==
    /\ unacked' = unacked \ {u}
    /\ \/ draining' = draining \cup {u} /\ UNCHANGED ready
       \/ ready' = Append(ready, [id |-> u.id, attempt |-> u.attempt + 1]) /\ UNCHANGED draining
    /\ UNCHANGED dlq

\* The next attempt is sent before this one is acknowledged, maybe after a drain.
Requeues(u) ==
    /\ ready' = Append(ready, [id |-> u.id, attempt |-> u.attempt + 1])
    /\ \/ unacked' = unacked \ {u} /\ UNCHANGED draining
       \/ draining' = draining \cup {u} /\ UNCHANGED unacked
    /\ UNCHANGED dlq

nack(id) == \E option \in {"requeue", "deadLetter"}, u \in Of(id) :
    /\ id \in held /\ held' = held \ {id} /\ Forget({id})
    /\ IF option = "requeue" /\ u.attempt + 1 <= MaxAttempts
       THEN Requeues(u) ELSE DeadLetters(u)
    /\ UNCHANGED <<conn, asserted, batch, stream, sent, acked>>

awaitDrain == /\ draining # {}
              /\ unacked' = unacked \ draining /\ draining' = {}
              /\ UNCHANGED <<conn, asserted, ready, dlq, inflight, batch, held, stream, sent, acked>>

-----------------------------------------------------------------------------
(* subscribe: one iterator of it. *)

UnchangedButStream == UNCHANGED <<conn, asserted, broker, inflight, batch, draining, sent, acked>>

subscribe == /\ Ready /\ stream.start = "none"
             /\ stream' = [stream EXCEPT !.start = "starting"]
             /\ UnchangedButStream /\ UNCHANGED held

\* An error of prefetch or consume ends the stream like an empty one.
StartSettles ==
    /\ stream.start = "starting"
    /\ \/ stream' = [stream EXCEPT !.start = "started", !.consumer = TRUE,
                                   !.cancelling = stream.aborted]
       \/ stream' = [stream EXCEPT !.start = "failed", !.done = TRUE]
    /\ UnchangedButStream /\ UNCHANGED held

enqueue == /\ conn.state = "open" /\ stream.consumer
           /\ Cardinality(unacked) < Prefetch /\ Delivered
           /\ IF stream.waiting
              THEN /\ stream' = [stream EXCEPT !.waiting = FALSE]
                   /\ held' = held \cup {Head(ready).id}
              ELSE /\ stream' = [stream EXCEPT !.pending = Append(@, Head(ready).id)]
                   /\ UNCHANGED held
           /\ UNCHANGED <<conn, asserted, dlq, batch, draining, sent, acked>>

\* What has arrived is handed out, also after the end.
next == /\ stream.start \in {"started", "failed"} /\ ~stream.waiting
        /\ IF stream.pending # <<>>
           THEN /\ held' = held \cup {Head(stream.pending)}
                /\ stream' = [stream EXCEPT !.pending = Tail(@)]
           ELSE ~stream.done /\ stream' = [stream EXCEPT !.waiting = TRUE] /\ UNCHANGED held
        /\ UnchangedButStream

\* Without a consumer tag the stream is finished at once.
Abort == /\ stream.start # "none" /\ ~stream.aborted /\ ~stream.done
         /\ stream' = IF stream.start = "started"
                      THEN [stream EXCEPT !.aborted = TRUE, !.cancelling = TRUE]
                      ELSE [stream EXCEPT !.aborted = TRUE, !.done = TRUE]
         /\ UnchangedButStream /\ UNCHANGED held

return == /\ stream.start = "started" /\ ~stream.waiting /\ ~stream.cancelling
          /\ stream' = [stream EXCEPT !.cancelling = TRUE]
          /\ UnchangedButStream /\ UNCHANGED held

\* channel.cancel has answered; or the broker cancels the consumer.
finish == /\ stream.consumer
          /\ stream' = [stream EXCEPT !.consumer = FALSE, !.cancelling = FALSE,
                                      !.done = TRUE, !.waiting = FALSE]
          /\ UnchangedButStream /\ UNCHANGED held

Next == \/ connect \/ ConnectSettles \/ Closes \/ assertQueue
        \/ \E id \in Ids : send(id) \/ nack(id)
        \/ Gets \/ receive \/ receiveFails \/ ack \/ awaitDrain
        \/ subscribe \/ StartSettles \/ enqueue \/ next \/ Abort \/ return \/ finish

Spec == Init /\ [][Next]_vars

-----------------------------------------------------------------------------
TypeOK == /\ conn.state \in {"none", "connecting", "open"} /\ conn.attempts \in 0..4
          /\ asserted \in {"no", "dlq", "queue", "yes"}
          /\ \A n \in DOMAIN ready : ready[n].id \in Ids /\ ready[n].attempt \in 1..MaxAttempts
          /\ draining \subseteq unacked
          /\ \A id \in Ids : inflight[id] # 0 => Of(id) # {}
          /\ batch \cup held \cup acked \cup dlq \subseteq sent

\* A message that was sent and not acknowledged is in the queue, delivered or dead,
\* wherever the channel closes, also between the two halves of a requeue.
NothingIsLost == \A id \in sent \ (acked \cup dlq) :
    \/ \E n \in DOMAIN ready : ready[n].id = id
    \/ \E u \in unacked : u.id = id

\* A subscription that is over has no consumer left at the broker and nobody waiting,
\* also when its signal was aborted before the consumer tag was known.
SubscriptionEnds == stream.done /\ stream.start # "starting"
                        => ~stream.waiting /\ (stream.consumer => stream.cancelling)

=============================================================================
