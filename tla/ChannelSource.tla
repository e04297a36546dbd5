---------------------------- MODULE ChannelSource ----------------------------
(***************************************************************************)
(* _ChannelSource (packages/anabranch/channel/channel-source.ts), the      *)
(* bounded buffer under Channel: asynchronous send, synchronous trySend    *)
(* and fail, waitForCapacity, close, an abort signal, and any number of    *)
(* generators that iterate over the one buffer.                            *)
(*                                                                         *)
(* JavaScript runs one task at a time: the code between two awaits is one  *)
(* action.  A process that awaits is "waiting" until its promise is        *)
(* resolved, then "woken" until the event loop resumes it; anything may    *)
(* happen in between.                                                      *)
(***************************************************************************)
EXTENDS Integers, Sequences, FiniteSets, SequencesExt

CONSTANTS Senders,      \* callers of send, trySend and fail
          Pollers,      \* callers of waitForCapacity that do not send
          Consumers,    \* generators over the channel
          Quitters,     \* the consumers that may break out of their loop
          BufferSize,   \* options.bufferSize after Math.max(1, _), or Infinity
          Infinity,     \* the JavaScript value of that name
          CompactAt,    \* dead slots tolerated before the array is spliced (256)
          MaxOps        \* bound on the calls made, for TLC

Waiters == Senders \cup Pollers

ASSUME ChannelAssumption ==
    /\ Senders \cap Pollers = {}
    /\ Quitters \subseteq Consumers
    /\ Infinity \notin Nat
    /\ BufferSize \in (Nat \ {0}) \cup {Infinity}
    /\ CompactAt \in Nat
    /\ MaxOps \in Nat
    /\ IsFiniteSet(Waiters)

VARIABLES queue,      \* the array of items; slots 1..head are dead
          head,       \* number of dead slots
          closed,
          started,    \* freezes the with*() configuration
          signal,     \* "none", "armed" (listener attached), "fired", "removed"
          producers,  \* resolvers of pending waitForCapacity promises, in order
          pc,         \* per waiter: "idle", "waiting", "woken"
          gen,        \* per generator: "new", "suspended" (at a yield),
                      \* "sleeping" (in consumers), "woken", "finished"
          accepted,   \* history: items pushed, in order
          delivered,  \* history: items yielded, in order
          spent,      \* history: wakeups of waitForCapacity callers
          ops         \* calls made so far

vars == <<queue, head, closed, started, signal, producers, pc, gen, accepted,
          delivered, spent, ops>>

Item == [type : {"success", "error"}, from : Senders]

-----------------------------------------------------------------------------
(* The buffer. *)

queueSize == Len(queue) - head

Pending == SubSeq(queue, head + 1, Len(queue))

HasCapacity == BufferSize = Infinity \/ queueSize < BufferSize

Push(item) == /\ queue' = Append(queue, item)
              /\ accepted' = Append(accepted, item)
              /\ UNCHANGED head

\* Faults: the splice keeps the slot just taken, or head is not reset after it.
TakeHead_KeepsSlot ==
    LET h == head + 1
        compact == h > CompactAt /\ h * 2 >= Len(queue)
    IN  /\ queue' = IF compact THEN SubSeq(queue, h, Len(queue)) ELSE queue
        /\ head' = IF compact THEN 0 ELSE h
        /\ delivered' = Append(delivered, queue[h])

TakeHead_NoReset ==
    LET h == head + 1
    IN  /\ queue' = IF h > CompactAt /\ h * 2 >= Len(queue)
                    THEN SubSeq(queue, h + 1, Len(queue)) ELSE queue
        /\ head' = h
        /\ delivered' = Append(delivered, queue[h])

\* Drops the dead slots once there are many and they are half of the array.
TakeHead == LET h == head + 1
                compact == h > CompactAt /\ h * 2 >= Len(queue)
            IN  /\ queue' = IF compact THEN SubSeq(queue, h + 1, Len(queue)) ELSE queue
                /\ head' = IF compact THEN 0 ELSE h
                /\ delivered' = Append(delivered, queue[h])

-----------------------------------------------------------------------------
(* Sleeping and waking. *)

wakeConsumers == gen' = [c \in Consumers |-> IF gen[c] = "sleeping" THEN "woken" ELSE gen[c]]

Wake(ws) == [w \in Waiters |-> IF w \in ws THEN "woken" ELSE pc[w]]

\* Fault: a waiter is woken only by the item that was taken from a full buffer.
ShiftProducer_WhenFull == IF producers = <<>> \/ queueSize # BufferSize
                          THEN UNCHANGED <<producers, pc>>
                          ELSE /\ producers' = Tail(producers)
                               /\ pc' = Wake({Head(producers)})

\* producers.shift(): one taken item wakes at most one waiter.
ShiftProducer == IF producers = <<>>
                 THEN UNCHANGED <<producers, pc>>
                 ELSE /\ producers' = Tail(producers)
                      /\ pc' = Wake({Head(producers)})

ReleaseProducers == /\ producers' = <<>>
                    /\ pc' = Wake(ToSet(producers))

Register(w) == /\ producers' = Append(producers, w)
               /\ pc' = [pc EXCEPT ![w] = "waiting"]

\* Fault: the call does not mark the channel as started.
Call_NotStarted(w) == /\ pc[w] = "idle"
                      /\ ops < MaxOps
                      /\ ops' = ops + 1
                      /\ UNCHANGED started

\* A new call of w: counted, and from here on the channel is in use.
Call(w) == /\ pc[w] = "idle"
           /\ ops < MaxOps
           /\ ops' = ops + 1
           /\ started' = TRUE

-----------------------------------------------------------------------------
Init == /\ queue = <<>> /\ head = 0
        /\ started = FALSE
        /\ signal \in {"none", "armed", "fired"}
        /\ closed = (signal = "fired")
        /\ producers = <<>>
        /\ pc = [w \in Waiters |-> "idle"]
        /\ gen = [c \in Consumers |-> "new"]
        /\ accepted = <<>> /\ delivered = <<>>
        /\ spent = 0 /\ ops = 0

Success(s) == [type |-> "success", from |-> s]

\* send() on a closed channel, trySend() on a closed or full one, fail() on a
\* closed one: the value is dropped.
Drop(s) == /\ Call(s)
           /\ closed \/ ~HasCapacity
           /\ UNCHANGED <<queue, head, closed, signal, producers, pc, gen, accepted, delivered,
                           spent>>

\* send() or trySend() that finds room.
SendNow(s) == /\ Call(s)
              /\ ~closed /\ HasCapacity
              /\ Push(Success(s))
              /\ wakeConsumers
              /\ UNCHANGED <<closed, signal, producers, pc, delivered, spent>>

\* send() or waitForCapacity() on a full buffer.
Block(w) == /\ Call(w)
            /\ ~closed /\ ~HasCapacity
            /\ Register(w)
            /\ UNCHANGED <<queue, head, closed, signal, gen, accepted, delivered,
                           spent>>

\* Faults: a woken send that looks at neither the room nor at closed again; one
\* that does not wake the consumers.
ResumeSend_NoRecheck(s) ==
    /\ pc[s] = "woken"
    /\ Push(Success(s))
    /\ wakeConsumers
    /\ pc' = [pc EXCEPT ![s] = "idle"]
    /\ UNCHANGED <<closed, started, signal, producers, delivered, spent, ops>>

ResumeSend_NoWake(s) ==
    /\ pc[s] = "woken"
    /\ IF closed
       THEN /\ pc' = [pc EXCEPT ![s] = "idle"]
            /\ UNCHANGED <<queue, head, producers, accepted>>
       ELSE IF HasCapacity
       THEN /\ Push(Success(s))
            /\ pc' = [pc EXCEPT ![s] = "idle"]
            /\ UNCHANGED producers
       ELSE /\ Register(s)
            /\ UNCHANGED <<queue, head, accepted>>
    /\ UNCHANGED <<closed, started, signal, gen, delivered, spent, ops>>

\* The woken send() evaluates its loop condition again: it may find the channel
\* closed, or the buffer filled by a send that never waited.
ResumeSend(s) ==
    /\ pc[s] = "woken"
    /\ \/ /\ closed
          /\ pc' = [pc EXCEPT ![s] = "idle"]
          /\ UNCHANGED <<queue, head, producers, gen, accepted>>
       \/ /\ ~closed /\ ~HasCapacity
          /\ Register(s)
          /\ UNCHANGED <<queue, head, gen, accepted>>
       \/ /\ ~closed /\ HasCapacity
          /\ Push(Success(s))
          /\ wakeConsumers
          /\ pc' = [pc EXCEPT ![s] = "idle"]
          /\ UNCHANGED producers
    /\ UNCHANGED <<closed, started, signal, delivered, spent, ops>>

\* waitForCapacity() returning at once, or its caller going on after the wait.
PollNow(p) == /\ Call(p)
              /\ closed \/ HasCapacity
              /\ UNCHANGED <<queue, head, closed, signal, producers, pc, gen, accepted, delivered,
                           spent>>

ResumePoll(p) == /\ pc[p] = "woken"
                 /\ pc' = [pc EXCEPT ![p] = "idle"]
                 /\ spent' = spent + 1
                 /\ UNCHANGED <<queue, head, closed, started, signal, producers, gen,
                                accepted, delivered, ops>>

\* Fault: fail() does not wake the consumers.
Fail_NoWake(s) == /\ Call(s)
                  /\ ~closed
                  /\ Push([type |-> "error", from |-> s])
                  /\ UNCHANGED <<closed, signal, producers, pc, gen, delivered, spent>>

\* fail() ignores the capacity.
Fail(s) == /\ Call(s)
           /\ ~closed
           /\ Push([type |-> "error", from |-> s])
           /\ wakeConsumers
           /\ UNCHANGED <<closed, signal, producers, pc, delivered, spent>>

\* The effect of close() on a channel that is still open.
CloseEffect == /\ closed' = TRUE
               /\ signal' = IF signal = "armed" THEN "removed" ELSE signal
               /\ ReleaseProducers

close == /\ ~closed
         /\ started' = TRUE
         /\ CloseEffect
         /\ wakeConsumers
         /\ UNCHANGED <<queue, head, accepted, delivered, spent, ops>>

\* The signal fires while its listener is attached.
Abort == /\ signal = "armed"
         /\ signal' = "fired"
         /\ closed' = TRUE
         /\ wakeConsumers
         /\ ReleaseProducers
         /\ UNCHANGED <<queue, head, started, accepted, delivered, spent, ops>>

-----------------------------------------------------------------------------
(* The generator, from one next() to the next yield, sleep or end. *)

Runnable(c) == gen[c] \in {"new", "suspended", "woken"}

Yield(c) == /\ Runnable(c)
            /\ queueSize > 0
            /\ TakeHead
            /\ ShiftProducer
            /\ gen' = [gen EXCEPT ![c] = "suspended"]
            /\ started' = TRUE
            /\ UNCHANGED <<closed, signal, accepted, spent, ops>>

Sleep(c) == /\ Runnable(c)
            /\ queueSize = 0 /\ ~closed
            /\ gen' = [gen EXCEPT ![c] = "sleeping"]
            /\ started' = TRUE
            /\ UNCHANGED <<queue, head, closed, signal, producers, pc, accepted, delivered, spent, ops>>

Finish(c) == /\ Runnable(c)
             /\ queueSize = 0 /\ closed
             /\ gen' = [gen EXCEPT ![c] = "finished"]
             /\ started' = TRUE
             /\ UNCHANGED <<queue, head, closed, signal, producers, pc, accepted, delivered, spent, ops>>

\* return() on a generator at a yield runs the finally block, which closes the
\* channel for every producer and every other consumer.
Return(c) == /\ gen[c] = "suspended"
             /\ started' = TRUE
             /\ IF closed THEN /\ gen' = [gen EXCEPT ![c] = "finished"]
                               /\ UNCHANGED <<closed, signal, producers, pc>>
                          ELSE /\ CloseEffect
                               /\ gen' = [d \in Consumers |->
                                            IF d = c THEN "finished"
                                            ELSE IF gen[d] = "sleeping" THEN "woken" ELSE gen[d]]
             /\ UNCHANGED <<queue, head, accepted, delivered, spent, ops>>

\* return() before the first next() ends the generator without entering its body.
ReturnUnstarted(c) == /\ gen[c] = "new"
                      /\ gen' = [gen EXCEPT ![c] = "finished"]
                      /\ UNCHANGED <<queue, head, closed, started, signal, producers, pc,
                                     accepted, delivered, spent, ops>>

Next == \/ \E s \in Senders : Drop(s) \/ SendNow(s) \/ ResumeSend(s) \/ Fail(s)
        \/ \E p \in Pollers : PollNow(p) \/ ResumePoll(p)
        \/ \E w \in Waiters : Block(w)
        \/ \E c \in Consumers : Yield(c) \/ Sleep(c) \/ Finish(c)
        \/ \E c \in Quitters : Return(c) \/ ReturnUnstarted(c)
        \/ close
        \/ Abort

Spec == Init /\ [][Next]_vars

\* The event loop runs every resumed continuation, and a consumer that does not
\* break keeps asking its generator for the next item.
Fairness == /\ \A s \in Senders : WF_vars(ResumeSend(s))
            /\ \A p \in Pollers : WF_vars(ResumePoll(p))
            /\ \A c \in Consumers : WF_vars(Yield(c) \/ Sleep(c) \/ Finish(c))

FairSpec == Spec /\ Fairness

-----------------------------------------------------------------------------
(* Properties. *)

\* Every variable keeps its type, and the dead slots are a prefix of the array:
\* what splice and the reset of head at the compaction must preserve together.
TypeOK == /\ queue \in Seq(Item)
          /\ head \in 0..Len(queue)
          /\ closed \in BOOLEAN /\ started \in BOOLEAN
          /\ signal \in {"none", "armed", "fired", "removed"}
          /\ producers \in Seq(Waiters)
          /\ pc \in [Waiters -> {"idle", "waiting", "woken"}]
          /\ gen \in [Consumers -> {"new", "suspended", "sleeping", "woken", "finished"}]
          /\ accepted \in Seq(Item) /\ delivered \in Seq(Item)
          /\ spent \in Nat /\ ops \in Nat

\* Every accepted item is delivered once and in the order of acceptance, across
\* the compactions of the array and however many generators share it.
DeliveredInOrder == delivered \o Pending = accepted

\* No lost wakeup of a consumer: a generator sleeps only while there is nothing
\* to take and something may still come.
SleepersHaveNothingToTake ==
    \A c \in Consumers : gen[c] = "sleeping" => queueSize = 0 /\ ~closed

Woken == {w \in Waiters : pc[w] = "woken"}

\* No lost wakeup of a sender, though a taken item wakes one waiter only and a
\* send may overtake it: while sends wait, each free slot has a woken send, except
\* for those that a caller of waitForCapacity was woken for, who need not send.
FreeSlotsAreClaimed ==
    producers # <<>> => queueSize + Cardinality(Woken) + spent >= BufferSize

\* The configuration methods replace the source by a new one while it is not
\* started: until then it must hold nothing that would be lost with it.
UnstartedIsPristine ==
    ~started => /\ accepted = <<>> /\ producers = <<>>
                /\ \A c \in Consumers : gen[c] \in {"new", "finished"}

\* Every send comes back, its value accepted or the channel closed, as long as no
\* caller of waitForCapacity was woken.
BlockedSendReturns == \A s \in Senders : pc[s] # "idle" ~> pc[s] = "idle" \/ spent > 0

\* channel-source.ts:50 of send(): "Send a value, blocking until capacity is
\* available".  A pending send comes back whoever else waits.
SendBlocksUntilCapacity == \A s \in Senders : pc[s] # "idle" ~> pc[s] = "idle"

\* After close or abort no caller of send or waitForCapacity is left waiting, even
\* when the consumers have gone.
CloseReleasesCallers == closed ~> \A w \in Waiters : pc[w] = "idle"

\* After close or abort every consumer gets the remaining items and ends.
CloseDrains ==
    closed ~> Pending = <<>> /\ \A c \in Consumers : gen[c] = "finished"

\* The channel implements BoundedChannel: a call is pending from its first wait
\* to its return, everything else is read off the same state.  So however many
\* senders are woken for one free slot, and whatever slips in before they resume,
\* the buffer is not outgrown; a send that was waiting when the channel closed
\* drops its value; items keep their order.
Promise == INSTANCE BoundedChannel WITH
    call <- [s \in Senders |-> IF pc[s] = "idle" THEN "idle" ELSE "pending"]

ImplementsBoundedChannel == Promise!Spec

=============================================================================
