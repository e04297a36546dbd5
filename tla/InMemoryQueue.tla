---------------------------- MODULE InMemoryQueue ----------------------------
(***************************************************************************)
(* createInMemory of packages/queue/in-memory.ts: the queues of one        *)
(* connector, each with its available, delayed and in-flight messages, the *)
(* timers that promote delayed messages, dead lettering, and the end of    *)
(* the connector.  Every method runs without an await, so a method is one  *)
(* step; clients call them in any order, also late and for messages they   *)
(* no longer hold.                                                         *)
(*                                                                         *)
(* A queue exists here from the start: the code creates it at the first    *)
(* send, and the other methods do to a missing queue what they do to an    *)
(* empty one.  Time counts in units of which Second make the bucket of a   *)
(* delayed message.                                                        *)
(***************************************************************************)
EXTENDS Integers, Sequences, FiniteSets, SequencesExt, FiniteSetsExt

CONSTANTS Queues,
          NoQueue,            \* the empty name: no dead letter queue
          DeadLetterQueue,    \* per queue, a queue or NoQueue
          MaxAttempts,        \* options.maxAttempts
          VisibilityTimeout,  \* options.visibilityTimeout
          MaxBufferSize,      \* options.maxBufferSize
          Second,             \* time units in the second of a bucket
          Delays,             \* delays that clients ask for
          MaxIds, MaxTime, MaxLateNacks, MaxBatch   \* bounds of the model

ASSUME QueueAssumption ==
    /\ DeadLetterQueue \in [Queues -> Queues \cup {NoQueue}] /\ NoQueue \notin Queues
    /\ MaxAttempts \in Nat \ {0} /\ VisibilityTimeout \in Nat /\ MaxBufferSize \in Nat
    /\ Second \in Nat \ {0} /\ Delays \subseteq Nat
    /\ MaxIds \in Nat /\ MaxTime \in Nat /\ MaxLateNacks \in Nat /\ MaxBatch \in Nat

Ids == 1..MaxIds

VARIABLES messages,   \* per queue: the available messages, oldest first
          delayed,    \* per queue: the entries of the buckets, grouped by bucket
          inflight,   \* per queue: the deliveries, in the order of the Map
          timers,     \* the timeouts set: queue and time
          now, ended,
          generated,  \* how many ids generateId() has given out
          accepted,   \* history: ids of the messages that a queue took
          settled,    \* history: ids acknowledged or out of attempts
          late        \* history, per id: requeues of a message not in flight

stores  == <<messages, delayed, inflight>>
history == <<generated, accepted, settled, late>>
vars == <<messages, delayed, inflight, timers, now, ended, history>>

-----------------------------------------------------------------------------
\* filter() of an array: the items of s at the places in I, in their order.
Keep(s, I) ==
    LET place(k) == CHOOSE i \in I : Cardinality({j \in I : j <= i}) = k
    IN  [k \in 1..Cardinality(I) |-> s[place(k)]]

\* Math.ceil(t / 1000)
CeilSecond(t) == (t + Second - 1) \div Second

\* Fault: the bucket is set anew for every message.
IntoBucket_Overwrites(entries, e) ==
    Append(SelectSeq(entries, LAMBDA f : f.bucket # e.bucket), e)

\* Entries of one bucket stand together, where the bucket was created.
IntoBucket(entries, e) ==
    LET same == {i \in DOMAIN entries : entries[i].bucket = e.bucket}
    IN  IF same = {} THEN Append(entries, e) ELSE InsertAt(entries, Max(same) + 1, e)

\* due is not in the code: it is the time the caller asked for.
Delay(entries, msg, ms) ==
    IntoBucket(entries, [bucket |-> CeilSecond(now + ms), due |-> now + ms, msg |-> msg])

\* The timeout scheduleDelayedProcessingInner sets for these entries.
TimerFor(q, entries) ==
    LET next == Second * Min({entries[i].bucket : i \in DOMAIN entries})
    IN  [queue |-> q, at |-> IF next > now THEN next ELSE now]

IsDue(e) == e.bucket <= CeilSecond(now)

\* Fault: a delivery expires one unit early.
IsExpired_Early(d) == d.at + VisibilityTimeout <= now + 1

IsExpired(d) == d.at + VisibilityTimeout <= now

OutOfAttempts(m) == m.attempt > MaxAttempts

Msgs(s) == [i \in DOMAIN s |-> s[i].msg]

\* The places of the entries that are due, of the deliveries that have expired.
Due(q) == {i \in DOMAIN delayed[q] : IsDue(delayed[q][i])}
Overdue(q) == {i \in DOMAIN inflight[q] : IsExpired(inflight[q][i])}

Promoted(q) == messages[q] \o Msgs(Keep(delayed[q], Due(q)))
NotDue(q) == Keep(delayed[q], DOMAIN delayed[q] \ Due(q))

Expired(q) == Msgs(Keep(inflight[q], Overdue(q)))
NotExpired(q) == Keep(inflight[q], DOMAIN inflight[q] \ Overdue(q))

InflightIds(q) == {inflight[q][i].msg.id : i \in DOMAIN inflight[q]}

Delivery(msg) == [msg |-> [msg EXCEPT !.given = @ + 1], at |-> now]

\* Map.set and Map.delete on inflight.
Deliver(d, msg) ==
    IF \E i \in DOMAIN d : d[i].msg.id = msg.id
    THEN [i \in DOMAIN d |-> IF d[i].msg.id = msg.id THEN Delivery(msg) ELSE d[i]]
    ELSE Append(d, Delivery(msg))

\* One Map.set after the other.
DeliverAll(d, msgs) ==
    LET take[i \in 0..Len(msgs)] == IF i = 0 THEN d ELSE Deliver(take[i-1], msgs[i])
    IN  take[Len(msgs)]

Without(d, ids) == Keep(d, {i \in DOMAIN d : d[i].msg.id \notin ids})

\* findMessage: in messages, else in flight, else delayed.
Found(q, id) ==
    LET In(s) == {i \in DOMAIN s : s[i].id = id}
        all == messages[q] \o Msgs(inflight[q]) \o Msgs(delayed[q])
    IN  IF In(all) = {} THEN {} ELSE {all[Min(In(all))]}

\* given is not in the code: it counts how often receive() returned the message.
NewMessage(id) == [id |-> id, attempt |-> 1, given |-> 0]

\* routeToDlq: a send without delay to the dead letter queue.  A full one refuses
\* it and onDrop is told.
RouteToDlq(q) ==
    LET dlq == DeadLetterQueue[q]
        new == generated + 1
    IN  IF dlq = NoQueue
        THEN UNCHANGED <<messages, generated, accepted>>
        ELSE /\ new \in Ids
             /\ generated' = new
             /\ IF Len(messages[dlq]) >= MaxBufferSize
                THEN UNCHANGED <<messages, accepted>>
                ELSE /\ messages' = [messages EXCEPT ![dlq] = Append(@, NewMessage(new))]
                     /\ accepted' = accepted \cup {new}

-----------------------------------------------------------------------------
Init == /\ messages = [q \in Queues |-> <<>>]
        /\ delayed = [q \in Queues |-> <<>>]
        /\ inflight = [q \in Queues |-> <<>>]
        /\ timers = {} /\ now = 0 /\ ended = FALSE
        /\ generated = 0 /\ accepted = {} /\ settled = {} /\ late = [id \in Ids |-> 0]

\* The delayed entries of q after each of n messages has been put into its bucket.
DelayBatch(q, n, ms) ==
    LET add[i \in 0..n] == IF i = 0 THEN delayed[q]
                           ELSE Delay(add[i-1], NewMessage(generated + i), ms)
    IN  add

\* send() is the batch of one.  Without a delay the batch stops at the first
\* message that finds no room: what came before it stays.
SendBatch(q, n, ms) ==
    LET msg(i) == NewMessage(generated + i)
        free == MaxBufferSize - Len(messages[q])
        room == IF free > 0 THEN free ELSE 0     \* requeued messages may exceed the limit
        fits == IF ms > 0 \/ n <= room THEN n ELSE room
        add == DelayBatch(q, n, ms)
    IN  /\ ~ended
        /\ generated + n <= MaxIds
        /\ generated' = generated + n
        /\ accepted' = accepted \cup {msg(i).id : i \in 1..fits}
        /\ IF ms > 0
           THEN /\ delayed' = [delayed EXCEPT ![q] = add[n]]
                /\ timers' = timers \cup {TimerFor(q, add[i]) : i \in 1..n}
                /\ UNCHANGED messages
           ELSE /\ messages' = [messages EXCEPT ![q] = @ \o [i \in 1..fits |-> msg(i)]]
                /\ UNCHANGED <<delayed, timers>>
        /\ UNCHANGED <<inflight, now, ended, settled, late>>

\* Promote what is due, return what has expired, then deliver the oldest.
Receive(q, count) ==
    LET avail == Promoted(q) \o Expired(q)
        n     == Min({count, Len(avail)})
    IN  /\ ~ended
        /\ messages' = [messages EXCEPT ![q] = SubSeq(avail, n + 1, Len(avail))]
        /\ delayed' = [delayed EXCEPT ![q] = NotDue(q)]
        /\ inflight' = [inflight EXCEPT ![q] = DeliverAll(NotExpired(q), SubSeq(avail, 1, n))]
        /\ UNCHANGED <<timers, now, ended, history>>

\* An id in flight is taken out there; if another is not, all ids are taken out
\* of the available messages.  A delayed message is not looked for.
Ack(q, ids) ==
    LET held == ids \cap InflightIds(q)
        gone == IF held = ids THEN {} ELSE ids \cap {messages[q][i].id : i \in DOMAIN messages[q]}
    IN  /\ ~ended
        /\ inflight' = [inflight EXCEPT ![q] = Without(@, held)]
        /\ messages' = [messages EXCEPT ![q] = Keep(@, {i \in DOMAIN @ : @[i].id \notin gone})]
        /\ settled' = settled \cup held \cup gone
        /\ UNCHANGED <<delayed, timers, now, ended, generated, accepted, late>>

\* nack with deadLetter: the dead letter queue gets a copy, and nothing is removed.
NackDeadLetter(q, id) ==
    /\ ~ended /\ Found(q, id) # {}
    /\ RouteToDlq(q)
    /\ UNCHANGED <<delayed, inflight, timers, now, ended, settled, late>>

LateNacks == FoldFunction(+, 0, late)

\* nack with requeue: out of attempts, or back with one attempt more.  A message
\* that is no longer in flight is found elsewhere, and stays there as well.
NackRequeue(q, id, ms) ==
    \E m \in Found(q, id) :
        LET again == [m EXCEPT !.attempt = @ + 1]
            isLate == id \notin InflightIds(q)
        IN  /\ ~ended
            /\ isLate => LateNacks < MaxLateNacks
            /\ inflight' = [inflight EXCEPT ![q] = Without(@, {id})]
            /\ IF OutOfAttempts(again)
               THEN /\ RouteToDlq(q)
                    /\ settled' = settled \cup {id}
                    /\ UNCHANGED <<delayed, timers>>
               ELSE /\ IF ms > 0
                       THEN /\ delayed' = [delayed EXCEPT ![q] = Delay(@, again, ms)]
                            /\ timers' = timers \cup {TimerFor(q, delayed'[q])}
                            /\ UNCHANGED messages
                       ELSE /\ messages' = [messages EXCEPT ![q] = Append(@, again)]
                            /\ UNCHANGED <<delayed, timers>>
                    /\ UNCHANGED <<generated, accepted, settled>>
            /\ late' = [late EXCEPT ![id] = IF isLate THEN @ + 1 ELSE @]
            /\ UNCHANGED <<now, ended>>

\* Fault: the callback does not set the next timeout.
TimerFires_Once(t) ==
    /\ t \in timers /\ t.at <= now
    /\ messages' = [messages EXCEPT ![t.queue] = Promoted(t.queue)]
    /\ delayed' = [delayed EXCEPT ![t.queue] = NotDue(t.queue)]
    /\ timers' = timers \ {t}
    /\ UNCHANGED <<inflight, now, ended, history>>

\* The callback of a timeout, as late as the event loop makes it.
TimerFires(t) ==
    LET left == NotDue(t.queue)
    IN  /\ t \in timers /\ t.at <= now
        /\ messages' = [messages EXCEPT ![t.queue] = Promoted(t.queue)]
        /\ delayed' = [delayed EXCEPT ![t.queue] = left]
        /\ timers' = (timers \ {t}) \cup (IF left = <<>> THEN {} ELSE {TimerFor(t.queue, left)})
        /\ UNCHANGED <<inflight, now, ended, history>>

\* end(): the connector drops all queues and timeouts; every method then rejects.
End == /\ ~ended
       /\ ended' = TRUE
       /\ messages' = [q \in Queues |-> <<>>]
       /\ delayed' = [q \in Queues |-> <<>>]
       /\ inflight' = [q \in Queues |-> <<>>]
       /\ timers' = {}
       /\ UNCHANGED <<now, history>>

Tick == /\ now < MaxTime
        /\ now' = now + 1
        /\ UNCHANGED <<stores, timers, ended, history>>

Next == \/ \E q \in Queues :
              \/ \E n \in 1..MaxBatch, ms \in Delays : SendBatch(q, n, ms)
              \/ \E count \in 1..MaxBatch : Receive(q, count)
              \/ \E ids \in SUBSET (1..generated) : ids # {} /\ Ack(q, ids)
              \/ \E id \in 1..generated : \/ NackDeadLetter(q, id)
                                          \/ \E ms \in Delays : NackRequeue(q, id, ms)
        \/ \E t \in timers : TimerFires(t)
        \/ End \/ Tick

Spec == Init /\ [][Next]_vars

-----------------------------------------------------------------------------
(* Properties. *)

Message == [id : Ids, attempt : 1..MaxAttempts, given : Nat]

\* No message is stored with more attempts than the options allow, whichever way
\* it came back; a Map of deliveries has one entry per id.
TypeOK ==
    /\ messages \in [Queues -> Seq(Message)]
    /\ delayed \in [Queues -> Seq([bucket : Nat, due : Nat, msg : Message])]
    /\ inflight \in [Queues -> Seq([msg : Message, at : Nat])]
    /\ timers \subseteq [queue : Queues, at : Nat]
    /\ now \in Nat /\ ended \in BOOLEAN
    /\ generated \in 0..MaxIds /\ accepted \subseteq 1..generated
    /\ settled \subseteq Ids /\ late \in [Ids -> Nat]
    /\ \A q \in Queues : \A i, j \in DOMAIN inflight[q] :
          inflight[q][i].msg.id = inflight[q][j].msg.id => i = j

\* Where the copies of a message are.
PlacesAt(q, id) ==
    LET Of(s) == {i \in DOMAIN s : s[i].id = id}
    IN  ({<<q, "messages">>} \X Of(messages[q])) \cup ({<<q, "delayed">>} \X Of(Msgs(delayed[q])))
           \cup ({<<q, "inflight">>} \X Of(Msgs(inflight[q])))

Places(id) == UNION {PlacesAt(q, id) : q \in Queues}

Copies(id) == Cardinality(Places(id))

\* An accepted message is somewhere until it is acknowledged or out of attempts,
\* whichever of a timer, a receive, an expiry and a nack moves it.
NothingVanishes == ~ended => \A id \in accepted \ settled : Copies(id) >= 1

\* There is one copy of a message until it is settled and none after, and one
\* more for each requeue that came too late, after the message had expired.
CopiesAreAccountedFor ==
    \A id \in accepted : Copies(id) <= (IF id \in settled THEN 0 ELSE 1) + late[id]

\* receive() does not give out a message that another consumer holds: one in
\* flight is delivered again only after its visibility timeout, or when a late
\* requeue has made a second copy.
HeldMessagesAreHidden ==
    [][\A q \in Queues : \A d \in ToSet(inflight[q]), e \in ToSet(inflight'[q]) :
         d.msg.id = e.msg.id /\ e.msg.given > d.msg.given /\ late[d.msg.id] = 0
             => now - d.at >= VisibilityTimeout]_vars

\* QueueMessage.attempt is documented as "Number of times this message has been
\* delivered" (packages/queue/adapter.ts:16); taken for messages that were never
\* requeued late.
AttemptCountsDeliveries ==
    \A q \in Queues : \A d \in ToSet(inflight[q]) :
        late[d.msg.id] = 0 => d.msg.attempt = d.msg.given

\* No delayed message is forgotten: a timeout is pending that is due no later
\* than its bucket, though the timeouts are set and cleared one by one.
DelayedIsScheduled ==
    \A q \in Queues : \A i \in DOMAIN delayed[q] :
        \E t \in timers : t.queue = q /\ t.at <= Max({now, delayed[q][i].bucket * Second})

\* Both roundings of the buckets together make a message at most one second early.
LessThanASecondEarly ==
    [][~ended' => \A q \in Queues :
         \A e \in ToSet(delayed[q]) \ ToSet(delayed'[q]) : e.due < now + Second]_vars

=============================================================================
