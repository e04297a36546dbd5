------------------------------ MODULE EventLog ------------------------------
(***************************************************************************)
(* A topic of createInMemory (packages/eventlog/in-memory.ts) and the      *)
(* consumers that EventLog.consume (packages/eventlog/eventlog.ts) makes:  *)
(* each append drives every consumer, a drive takes the next events and    *)
(* sends them as a batch into the channel of the consumer, where it blocks *)
(* while the buffer is full, and drives again when the send has returned.  *)
(* Drives overlap: an append does not wait for the drive before.           *)
(*                                                                         *)
(* An event is its index in the topic.  The consumers are of one group.    *)
(* The channel is taken from ChannelSource: a blocked send is woken when   *)
(* an item is taken, and looks at the buffer again when it resumes.        *)
(***************************************************************************)
EXTENDS Integers, Sequences, FiniteSets, SequencesExt, Functions

CONSTANTS Consumers,
          BatchSize,      \* options.batchSize
          Options,        \* pairs of options.bufferSize, or Infinity, and withConcurrency()
          Infinity,
          MaxEvents       \* bound of the model: events in the topic

VARIABLES log,        \* number of events appended
          cursor,     \* the committed cursor of the group, -1 for none
          adapter,    \* "open", "closed", "ended"
          consumer,   \* per consumer, its record
          processed   \* history: events whose processing has ended

vars == <<log, cursor, adapter, consumer, processed>>

\* status: "none", "open", or "closed" (consumerClosed and the channel closed);
\* saved: the cursor that getCommittedCursor() answered, -1 for null; start: where it
\* began, current: currentSequence; buffer: of the channel; waiting, woken: blocked
\* sends, and those woken but not resumed; settled: drives whose send has returned;
\* held: batches in processing; delivered: history of the batches the channel gave out.
NotStarted == [status |-> "none", saved |-> -1, size |-> Infinity, limit |-> 1,
               start |-> 0, current |-> 0,
               buffer |-> <<>>, waiting |-> <<>>, woken |-> <<>>, settled |-> 0,
               held |-> {}, delivered |-> <<>>]

-----------------------------------------------------------------------------
HasRoom(s) == s.size = Infinity \/ Len(s.buffer) < s.size

\* channel.send(batch), called or resumed, on an open channel.
Send(s, b) ==
    IF HasRoom(s) THEN [s EXCEPT !.buffer = Append(@, b), !.settled = @ + 1]
                  ELSE [s EXCEPT !.waiting = Append(@, b)]

\* drive() up to its await: the next batch, if there is one.
Drive(s, length) ==
    IF adapter # "open" \/ s.status # "open" \/ s.current >= length THEN s
    ELSE LET last == IF s.current + BatchSize < length THEN s.current + BatchSize - 1
                                                       ELSE length - 1
         IN  Send([s EXCEPT !.current = last + 1], [first |-> s.current, last |-> last])

\* The cursor of a batch is its last event, written as a number.
CursorOf(b) == b.last

-----------------------------------------------------------------------------
Init == /\ log = 0 /\ cursor = -1 /\ adapter = "open"
        /\ consumer = [c \in Consumers |-> NotStarted]
        /\ processed = {}

\* The adapter's part of each call.  append() drives every listener before it
\* returns.
append == /\ log' = log + 1
          /\ consumer' = [c \in Consumers |-> Drive(consumer[c], log')]

\* A consumer begins behind the cursor that it is given.
consume(s, from) ==
    Drive([s EXCEPT !.status = "open", !.saved = -1, !.start = from + 1, !.current = from + 1],
          log)

getCursor(s) == [s EXCEPT !.saved = cursor]

\* No look at the cursor that is there: it may move back.
commitCursor(s) == cursor' = s.saved

-----------------------------------------------------------------------------
(* The calls of EventLog; on a closed adapter each is refused and leaves no trace. *)

AppendEvent == /\ adapter = "open" /\ log < MaxEvents
               /\ append
               /\ UNCHANGED <<cursor, adapter, processed>>

\* The answer may be old by the time it is used.
GetCommittedCursor(c) ==
    /\ adapter = "open" /\ consumer[c].status = "none"
    /\ consumer' = [consumer EXCEPT ![c] = getCursor(@)]
    /\ UNCHANGED <<log, cursor, adapter, processed>>

\* From the beginning or from the cursor that was answered.
Consume(c) ==
    /\ adapter = "open" /\ consumer[c].status = "none"
    /\ \E o \in Options, from \in {-1, consumer[c].saved} :
          consumer' = [consumer EXCEPT
                           ![c] = consume([@ EXCEPT !.size = o.size, !.limit = o.limit], from)]
    /\ UNCHANGED <<log, cursor, adapter, processed>>

\* commit(), outside of any batch and while the others consume, of a cursor that
\* getCommittedCursor() answered.
Commit(c) ==
    /\ adapter = "open" /\ consumer[c].status = "none" /\ consumer[c].saved # -1
    /\ commitCursor(consumer[c])
    /\ UNCHANGED <<log, adapter, consumer, processed>>

\* A drive goes on after its await: it drives again.
Settle(c) == /\ consumer[c].settled > 0
             /\ LET s == consumer[c]
                IN  consumer' = [consumer EXCEPT ![c] = Drive([s EXCEPT !.settled = s.settled - 1], log)]
             /\ UNCHANGED <<log, cursor, adapter, processed>>

\* Fault: a send gives up when it finds the buffer full again.
Resume_GivesUp(c) ==
    LET s == consumer[c] IN
    /\ s.woken # <<>>
    /\ consumer' = [consumer EXCEPT ![c] =
           IF s.status = "open" /\ HasRoom(s)
           THEN Send([s EXCEPT !.woken = Tail(@)], Head(s.woken))
           ELSE [s EXCEPT !.woken = Tail(@), !.settled = @ + 1]]
    /\ UNCHANGED <<log, cursor, adapter, processed>>

\* A woken send: on a closed channel it drops its batch and returns.
Resume(c) ==
    LET s == consumer[c] IN
    /\ s.woken # <<>>
    /\ consumer' = [consumer EXCEPT ![c] =
           IF s.status = "open"
           THEN Send([s EXCEPT !.woken = Tail(@)], Head(s.woken))
           ELSE [s EXCEPT !.woken = Tail(@), !.settled = @ + 1]]
    /\ UNCHANGED <<log, cursor, adapter, processed>>

\* The stream takes the next batch and wakes one blocked send.
Take(c) ==
    LET s == consumer[c] IN
    /\ s.buffer # <<>> /\ Cardinality(s.held) < s.limit
    /\ consumer' = [consumer EXCEPT ![c] =
           [s EXCEPT !.buffer = Tail(@),
                     !.held = @ \cup {Head(s.buffer)},
                     !.delivered = Append(@, Head(s.buffer)),
                     !.woken = IF s.waiting = <<>> THEN @ ELSE Append(@, Head(s.waiting)),
                     !.waiting = IF @ = <<>> THEN @ ELSE Tail(@)]]
    /\ UNCHANGED <<log, cursor, adapter, processed>>

\* The handler of a batch has processed it, and may commit it; the commit throws
\* when the adapter is closed, but not when only the consumer is.
Finish(c) ==
    \E b \in consumer[c].held, commit \in BOOLEAN :
        /\ consumer' = [consumer EXCEPT ![c].held = @ \ {b}]
        /\ processed' = processed \cup (b.first..b.last)
        /\ cursor' = IF commit /\ adapter = "open" THEN CursorOf(b) ELSE cursor
        /\ UNCHANGED <<log, adapter>>

\* The channel is closed, and with it the consumer: by the signal, which leaves
\* the buffer to be read, or by the end of the loop, which does not.
CloseConsumer(c) ==
    LET s == consumer[c] IN
    /\ s.status = "open"
    /\ \E rest \in {s.buffer, <<>>} :
          consumer' = [consumer EXCEPT ![c] =
              [s EXCEPT !.status = "closed", !.buffer = rest,
                        !.woken = @ \o s.waiting, !.waiting = <<>>]]
    /\ UNCHANGED <<log, cursor, adapter, processed>>

\* The adapter is closed, or the connector ended: the cursors are gone.  The
\* channels of the consumers stay open.
CloseAdapter == /\ adapter = "open"
                /\ adapter' = "closed"
                /\ UNCHANGED <<log, cursor, consumer, processed>>

End == /\ adapter # "ended"
       /\ adapter' = "ended"
       /\ cursor' = -1
       /\ UNCHANGED <<log, consumer, processed>>

Next == \/ AppendEvent \/ CloseAdapter \/ End
        \/ \E c \in Consumers : \/ GetCommittedCursor(c) \/ Consume(c) \/ Commit(c)
                                \/ Settle(c) \/ Resume(c) \/ Take(c) \/ Finish(c)
                                \/ CloseConsumer(c)

Spec == Init /\ [][Next]_vars

-----------------------------------------------------------------------------
(* Properties. *)

Batch == {b \in [first : 0..MaxEvents - 1, last : 0..MaxEvents - 1] : b.first <= b.last}

\* A cursor names an event that exists.
TypeOK == /\ log \in 0..MaxEvents
          /\ cursor \in -1..log - 1
          /\ adapter \in {"open", "closed", "ended"}
          /\ consumer \in [Consumers ->
                 [status : {"none", "open", "closed"}, saved : -1..log - 1,
                  size : {Infinity} \cup {o.size : o \in Options},
                  limit : {1} \cup {o.limit : o \in Options},
                  start : 0..MaxEvents, current : 0..MaxEvents,
                  buffer : Seq(Batch), waiting : Seq(Batch), woken : Seq(Batch), settled : Nat,
                  held : SUBSET Batch, delivered : Seq(Batch)]]
          /\ processed \subseteq 0..log - 1

EventsOf(batches) == UNION {b.first..b.last : b \in ToSet(batches)}

\* While a consumer is open, every event that its drives have taken is in one
\* batch, and the batch is on its way or was given out: overlapping drives and
\* blocked sends neither lose nor repeat an event.
NothingSkipped ==
    \A c \in Consumers :
        LET s == consumer[c]
            all == s.delivered \o s.buffer \o s.waiting \o s.woken
        IN  s.status = "open" =>
                /\ EventsOf(all) = s.start..s.current - 1
                /\ \A i, j \in DOMAIN all : i # j =>
                      all[i].last < all[j].first \/ all[j].last < all[i].first

\* An event that no drive has taken yet is not forgotten: a drive is under way
\* that will look again, although no append may ever come.
NoEventForgotten ==
    \A c \in Consumers :
        LET s == consumer[c]
        IN  adapter = "open" /\ s.status = "open" /\ s.current < log =>
                s.settled > 0 \/ s.waiting # <<>> \/ s.woken # <<>>

\* Resuming from the committed cursor skips nothing, as long as all consumers of
\* the group had an unbounded buffer and processed one batch at a time: what the
\* cursor covers has been processed, across closing, resuming and late commits.
CommittedIsProcessed ==
    (\A c \in Consumers : consumer[c].size = Infinity /\ consumer[c].limit = 1)
        => 0..cursor \subseteq processed

\* "Events with the same key are ordered" (packages/eventlog/adapter.ts:95): the
\* batches that a consumer gets, all events having one key, are in order.
EventsAreOrdered ==
    \A c \in Consumers : \A i, j \in DOMAIN consumer[c].delivered :
        i < j => consumer[c].delivered[i].last < consumer[c].delivered[j].first

=============================================================================
