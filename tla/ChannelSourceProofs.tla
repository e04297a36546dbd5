------------------------- MODULE ChannelSourceProofs -------------------------
(***************************************************************************)
(* Theorems about ChannelSource, for any senders, consumers, buffer size   *)
(* and compaction threshold.                                               *)
(***************************************************************************)
EXTENDS ChannelSource, SequenceTheorems, FiniteSetTheorems, TLAPS

-----------------------------------------------------------------------------
(* The two operations on the buffer. *)

\* What push does to the array: one live slot more, at the end.
LEMMA PushFacts ==
    ASSUME TypeOK, NEW item \in Item, Push(item)
    PROVE  /\ queue' \in Seq(Item) /\ head' \in 0..Len(queue') /\ accepted' \in Seq(Item)
           /\ head' = head /\ Len(queue') = Len(queue) + 1
           /\ Len(accepted') = Len(accepted) + 1
           /\ \A i \in 1..Len(queue) : queue'[i] = queue[i]
           /\ queue'[Len(queue) + 1] = item
           /\ \A i \in 1..Len(accepted) : accepted'[i] = accepted[i]
           /\ accepted'[Len(accepted) + 1] = item
  <1>1. /\ queue \in Seq(Item) /\ accepted \in Seq(Item) /\ head \in 0..Len(queue)
        /\ Len(queue) \in Nat /\ Len(accepted) \in Nat
    BY DEF TypeOK
  <1>2. /\ queue' = Append(queue, item) /\ accepted' = Append(accepted, item) /\ head' = head
    BY DEF Push
  <1> QED BY <1>1, <1>2, AppendProperties

\* What taking the head does, whether or not the array is spliced: the first
\* live slot is delivered and the others keep their order.
LEMMA TakeHeadFacts ==
    ASSUME TypeOK, ChannelAssumption, queueSize > 0, TakeHead
    PROVE  /\ queue' \in Seq(Item) /\ head' \in 0..Len(queue') /\ delivered' \in Seq(Item)
           /\ queueSize' = queueSize - 1
           /\ \A i \in 1..queueSize' : queue'[head' + i] = queue[head + 1 + i]
           /\ queue[head + 1] \in Item
           /\ delivered' = Append(delivered, queue[head + 1])
  <1> DEFINE h == head + 1
  <1>1. /\ queue \in Seq(Item) /\ Len(queue) \in Nat /\ head \in Nat /\ h \in 1..Len(queue)
        /\ delivered \in Seq(Item)
    BY DEF TypeOK, queueSize
  <1>2. queue[h] \in Item
    BY <1>1
  <1>3. delivered' = Append(delivered, queue[h]) /\ delivered' \in Seq(Item)
    BY <1>1, <1>2, AppendProperties DEF TakeHead
  <1>4. CASE h > CompactAt /\ h * 2 >= Len(queue)
    <2>1. queue' = SubSeq(queue, h + 1, Len(queue)) /\ head' = 0
      BY <1>4 DEF TakeHead
    <2>2. h + 1 \in Int /\ Len(queue) \in Int /\ \A i \in (h + 1)..Len(queue) : queue[i] \in Item
      BY <1>1
    <2>3. /\ queue' \in Seq(Item)
          /\ Len(queue') = IF h + 1 <= Len(queue) THEN Len(queue) - (h + 1) + 1 ELSE 0
          /\ \A i \in 1..(Len(queue) - (h + 1) + 1) : queue'[i] = queue[(h + 1) + i - 1]
      BY <2>1, <2>2, SubSeqProperties
    <2>4. Len(queue') = Len(queue) - h
      BY <1>1, <2>3
    <2>5. ASSUME NEW i \in 1..(Len(queue) - h) PROVE queue'[0 + i] = queue[h + i]
      <3>1. i \in 1..(Len(queue) - (h + 1) + 1) /\ 0 + i = i /\ (h + 1) + i - 1 = h + i
        BY <1>1
      <3> QED BY <2>3, <3>1
    <2> QED BY <1>1, <1>2, <1>3, <2>1, <2>3, <2>4, <2>5 DEF queueSize
  <1>5. CASE ~(h > CompactAt /\ h * 2 >= Len(queue))
    <2>1. queue' = queue /\ head' = h
      BY <1>5 DEF TakeHead
    <2> QED BY <1>1, <1>2, <1>3, <2>1 DEF queueSize
  <1> QED BY <1>4, <1>5

-----------------------------------------------------------------------------
(* Types. *)

LEMMA WakeType ==
    ASSUME TypeOK, NEW ws
    PROVE  Wake(ws) \in [Waiters -> {"idle", "waiting", "woken"}]
  BY DEF TypeOK, Wake

LEMMA WakeConsumersType ==
    ASSUME TypeOK, wakeConsumers
    PROVE  gen' \in [Consumers -> {"new", "suspended", "sleeping", "woken", "finished"}]
  BY DEF TypeOK, wakeConsumers

LEMMA RegisterType ==
    ASSUME TypeOK, NEW w \in Waiters, Register(w)
    PROVE  /\ producers' \in Seq(Waiters)
           /\ pc' \in [Waiters -> {"idle", "waiting", "woken"}]
  BY DEF TypeOK, Register

LEMMA ReleaseType ==
    ASSUME TypeOK, ReleaseProducers
    PROVE  /\ producers' \in Seq(Waiters)
           /\ pc' \in [Waiters -> {"idle", "waiting", "woken"}]
  BY WakeType DEF ReleaseProducers

LEMMA ShiftType ==
    ASSUME TypeOK, ShiftProducer
    PROVE  /\ producers' \in Seq(Waiters)
           /\ pc' \in [Waiters -> {"idle", "waiting", "woken"}]
  <1>1. CASE producers = <<>>
    BY <1>1 DEF ShiftProducer, TypeOK
  <1>2. CASE producers # <<>>
    <2>1. producers' = Tail(producers) /\ pc' = Wake({Head(producers)})
      BY <1>2 DEF ShiftProducer
    <2>2. producers \in Seq(Waiters)
      BY DEF TypeOK
    <2>3. Tail(producers) \in Seq(Waiters)
      BY <1>2, <2>2, HeadTailProperties
    <2> QED BY <2>1, <2>3, WakeType
  <1> QED BY <1>1, <1>2

LEMMA SuccessType == ASSUME NEW s \in Senders PROVE Success(s) \in Item
  BY DEF Success, Item

\* TypeOK is inductive: no operation of the channel leaves the types, and the
\* splice keeps the dead slots a prefix of the array.
LEMMA TypeStep == ChannelAssumption /\ TypeOK /\ [Next]_vars => TypeOK'
  <1> SUFFICES ASSUME ChannelAssumption, TypeOK, [Next]_vars PROVE TypeOK'
    OBVIOUS
  <1>0. Senders \subseteq Waiters /\ Pollers \subseteq Waiters /\ Quitters \subseteq Consumers
    BY DEF Waiters, ChannelAssumption
  <1>1. CASE \E s \in Senders : Drop(s)
    BY <1>1 DEF Drop, Call, TypeOK
  <1>2. ASSUME NEW s \in Senders, SendNow(s) PROVE TypeOK'
    <2>1. Push(Success(s)) /\ wakeConsumers /\ UNCHANGED <<closed, signal, producers, pc, delivered, spent>>
      BY <1>2 DEF SendNow
    <2>2. ops' \in Nat /\ started' \in BOOLEAN
      BY <1>2 DEF SendNow, Call, TypeOK
    <2> QED BY <2>1, <2>2, PushFacts, SuccessType, WakeConsumersType DEF TypeOK
  <1>3. ASSUME NEW s \in Senders, ResumeSend(s) PROVE TypeOK'
    <2>1. UNCHANGED <<closed, started, signal, delivered, ops, spent>>
      BY <1>3 DEF ResumeSend
    <2>2. CASE closed /\ pc' = [pc EXCEPT ![s] = "idle"] /\ UNCHANGED <<queue, head, producers, gen, accepted>>
      BY <2>1, <2>2 DEF TypeOK
    <2>3. CASE Register(s) /\ UNCHANGED <<queue, head, gen, accepted>>
      BY <1>0, <2>1, <2>3, RegisterType DEF TypeOK
    <2>4. CASE Push(Success(s)) /\ wakeConsumers /\ pc' = [pc EXCEPT ![s] = "idle"] /\ UNCHANGED producers
      <3>1. pc' \in [Waiters -> {"idle", "waiting", "woken"}] /\ producers' \in Seq(Waiters)
        BY <2>4 DEF TypeOK
      <3> QED BY <2>1, <2>4, <3>1, PushFacts, SuccessType, WakeConsumersType DEF TypeOK
    <2> QED BY <1>3, <2>2, <2>3, <2>4 DEF ResumeSend
  <1>4. ASSUME NEW s \in Senders, Fail(s) PROVE TypeOK'
    <2> DEFINE item == [type |-> "error", from |-> s]
    <2>1. Push(item) /\ wakeConsumers /\ UNCHANGED <<closed, signal, producers, pc, delivered, spent>>
      BY <1>4 DEF Fail
    <2>2. ops' \in Nat /\ started' \in BOOLEAN
      BY <1>4 DEF Fail, Call, TypeOK
    <2>3. item \in Item
      BY DEF Item
    <2> QED BY <2>1, <2>2, <2>3, PushFacts, WakeConsumersType DEF TypeOK
  <1>5. CASE \E p \in Pollers : PollNow(p)
    BY <1>5 DEF PollNow, Call, TypeOK
  <1>6. ASSUME NEW p \in Pollers, ResumePoll(p) PROVE TypeOK'
    <2>1. spent' \in Nat
      BY <1>6 DEF ResumePoll, TypeOK
    <2>2. pc' \in [Waiters -> {"idle", "waiting", "woken"}]
      BY <1>6 DEF ResumePoll, TypeOK
    <2> QED BY <1>6, <2>1, <2>2 DEF ResumePoll, TypeOK
  <1>7. ASSUME NEW w \in Waiters, Block(w) PROVE TypeOK'
    <2>1. Register(w) /\ UNCHANGED <<queue, head, closed, signal, gen, accepted, delivered, spent>>
      BY <1>7 DEF Block
    <2>2. ops' \in Nat /\ started' \in BOOLEAN
      BY <1>7 DEF Block, Call, TypeOK
    <2> QED BY <2>1, <2>2, RegisterType DEF TypeOK
  <1>8. ASSUME NEW c \in Consumers, Yield(c) PROVE TypeOK'
    <2>1. /\ queueSize > 0 /\ TakeHead /\ ShiftProducer
          /\ gen' = [gen EXCEPT ![c] = "suspended"] /\ started' = TRUE
          /\ UNCHANGED <<closed, signal, accepted, ops, spent>>
      BY <1>8 DEF Yield
    <2> QED BY <2>1, TakeHeadFacts, ShiftType DEF TypeOK
  <1>9. CASE \E c \in Consumers : Sleep(c) \/ Finish(c)
    BY <1>9 DEF Sleep, Finish, TypeOK
  <1>10. ASSUME NEW c \in Quitters, Return(c) PROVE TypeOK'
    <2>1. started' = TRUE /\ UNCHANGED <<queue, head, accepted, delivered, ops, spent>>
      BY <1>10 DEF Return
    <2>2. CASE closed
      BY <1>10, <2>1, <2>2 DEF Return, TypeOK
    <2>3. CASE ~closed
      <3>1. CloseEffect /\ gen' \in [Consumers -> {"new", "suspended", "sleeping", "woken", "finished"}]
        BY <1>10, <2>3 DEF Return, TypeOK
      <3> QED BY <2>1, <3>1, ReleaseType DEF CloseEffect, TypeOK
    <2> QED BY <2>2, <2>3
  <1>11. CASE \E c \in Quitters : ReturnUnstarted(c)
    BY <1>11 DEF ReturnUnstarted, TypeOK
  <1>12. CASE close
    BY <1>12, ReleaseType, WakeConsumersType DEF close, CloseEffect, TypeOK
  <1>13. CASE Abort
    BY <1>13, ReleaseType, WakeConsumersType DEF Abort, TypeOK
  <1>14. CASE UNCHANGED vars
    BY <1>14 DEF vars, TypeOK
  <1> QED
    BY <1>1, <1>2, <1>3, <1>4, <1>5, <1>6, <1>7, <1>8, <1>9, <1>10, <1>11, <1>12, <1>13, <1>14
    DEF Next

LEMMA TypeInit == ChannelAssumption /\ Init => TypeOK
  <1> SUFFICES ASSUME ChannelAssumption, Init PROVE TypeOK
    OBVIOUS
  <1>1. closed \in BOOLEAN
    <2>1. closed = (signal = "fired")
      BY DEF Init
    <2> QED BY <2>1
  <1>2. /\ queue = <<>> /\ producers = <<>> /\ accepted = <<>> /\ delivered = <<>>
        /\ head = 0 /\ spent = 0 /\ ops = 0 /\ started = FALSE
        /\ signal \in {"none", "armed", "fired"}
        /\ pc = [w \in Waiters |-> "idle"] /\ gen = [c \in Consumers |-> "new"]
    BY DEF Init
  <1>3. /\ pc \in [Waiters -> {"idle", "waiting", "woken"}]
        /\ gen \in [Consumers -> {"new", "suspended", "sleeping", "woken", "finished"}]
    BY <1>2
  <1>4. /\ queue \in Seq(Item) /\ accepted \in Seq(Item) /\ delivered \in Seq(Item)
        /\ producers \in Seq(Waiters) /\ head \in 0..Len(queue) /\ spent \in Nat /\ ops \in Nat
    BY <1>2
  <1>5. started \in BOOLEAN /\ signal \in {"none", "armed", "fired", "removed"}
    BY <1>2, Zenon
  <1> QED BY <1>1, <1>3, <1>4, <1>5 DEF TypeOK

\* Every reachable state of the channel is well typed.
THEOREM TypeCorrect == Spec => []TypeOK
  <1>1. Init => TypeOK
    BY ChannelAssumption, TypeInit
  <1>2. TypeOK /\ [Next]_vars => TypeOK'
    BY ChannelAssumption, TypeStep
  <1> QED BY <1>1, <1>2, PTL DEF Spec

-----------------------------------------------------------------------------
(* Wakeups. *)

\* close() and abort leave no send or waitForCapacity pending for ever.
ClosedReleasesProducers == closed => producers = <<>>

WakeInv == ClosedReleasesProducers /\ SleepersHaveNothingToTake

LEMMA AwakeAfterWake == wakeConsumers => \A c \in Consumers : gen'[c] # "sleeping"
  BY DEF wakeConsumers

\* Both halves are inductive given the types: a generator goes to sleep, and a
\* call registers itself, only after looking at closed in the same step.
LEMMA WakeStep == ChannelAssumption /\ TypeOK /\ WakeInv /\ [Next]_vars => WakeInv'
  <1> SUFFICES ASSUME ChannelAssumption, TypeOK, WakeInv, [Next]_vars PROVE WakeInv'
    OBVIOUS
  <1> USE DEF WakeInv, ClosedReleasesProducers, SleepersHaveNothingToTake
  <1>1. CASE \E s \in Senders : Drop(s)
    BY <1>1 DEF Drop, queueSize
  <1>2. CASE \E p \in Pollers : PollNow(p) \/ ResumePoll(p)
    BY <1>2 DEF PollNow, ResumePoll, queueSize
  <1>3. CASE \E s \in Senders : SendNow(s) \/ Fail(s)
    BY <1>3, AwakeAfterWake DEF SendNow, Fail
  <1>4. ASSUME NEW s \in Senders, ResumeSend(s) PROVE WakeInv'
    <2>1. closed' = closed
      BY <1>4 DEF ResumeSend
    <2>2. CASE closed
      BY <1>4, <2>1, <2>2 DEF ResumeSend, queueSize
    <2>3. CASE ~closed
      BY <1>4, <2>1, <2>3, AwakeAfterWake DEF ResumeSend, queueSize
    <2> QED BY <2>2, <2>3
  <1>5. CASE \E w \in Waiters : Block(w)
    BY <1>5 DEF Block, queueSize
  <1>6. ASSUME NEW c \in Consumers, Yield(c) PROVE WakeInv'
    <2>1. /\ queueSize > 0 /\ closed' = closed /\ gen' = [gen EXCEPT ![c] = "suspended"]
          /\ ShiftProducer
      BY <1>6 DEF Yield
    <2>2. \A d \in Consumers : gen'[d] # "sleeping"
      BY <2>1 DEF TypeOK, queueSize
    <2>3. closed' => producers' = <<>>
      BY <2>1 DEF ShiftProducer
    <2> QED BY <2>2, <2>3
  <1>7. CASE \E c \in Consumers : Sleep(c) \/ Finish(c)
    BY <1>7 DEF Sleep, Finish, queueSize, TypeOK
  <1>8. CASE \E c \in Quitters : Return(c)
    BY <1>8 DEF Return, CloseEffect, ReleaseProducers, queueSize, TypeOK
  <1>9. CASE \E c \in Quitters : ReturnUnstarted(c)
    BY <1>9 DEF ReturnUnstarted, queueSize, TypeOK
  <1>10. CASE close \/ Abort
    BY <1>10, AwakeAfterWake DEF close, Abort, CloseEffect, ReleaseProducers
  <1>11. CASE UNCHANGED vars
    BY <1>11 DEF vars, queueSize
  <1> QED
    BY <1>1, <1>2, <1>3, <1>4, <1>5, <1>6, <1>7, <1>8, <1>9, <1>10, <1>11 DEF Next

LEMMA WakeInit == Init => WakeInv
  BY DEF Init, WakeInv, ClosedReleasesProducers, SleepersHaveNothingToTake

LEMMA WakeInvariant == Spec => []WakeInv
  <1>1. Init => TypeOK /\ WakeInv
    BY ChannelAssumption, TypeInit, WakeInit
  <1>2. TypeOK /\ WakeInv /\ [Next]_vars => (TypeOK /\ WakeInv)'
    BY ChannelAssumption, TypeStep, WakeStep
  <1> QED BY <1>1, <1>2, PTL DEF Spec

\* close() and abort release every waiting send and waitForCapacity.
THEOREM ClosedReleases == Spec => []ClosedReleasesProducers
  BY WakeInvariant, PTL DEF WakeInv

\* A generator sleeps only while the open channel is empty.
THEOREM SleepersEmpty == Spec => []SleepersHaveNothingToTake
  BY WakeInvariant, PTL DEF WakeInv

-----------------------------------------------------------------------------
(* Order. *)

\* DeliveredInOrder said of the indices: what was delivered is a prefix of what
\* was accepted, and the live slots of the array are the rest.
OrderInv == /\ Len(accepted) = Len(delivered) + queueSize
            /\ \A i \in 1..Len(delivered) : delivered[i] = accepted[i]
            /\ \A i \in 1..queueSize : queue[head + i] = accepted[Len(delivered) + i]

LEMMA OrderPush ==
    ASSUME TypeOK, OrderInv, NEW item \in Item, Push(item), delivered' = delivered
    PROVE  OrderInv'
  <1>1. /\ queue \in Seq(Item) /\ accepted \in Seq(Item) /\ delivered \in Seq(Item)
        /\ Len(queue) \in Nat /\ Len(accepted) \in Nat /\ Len(delivered) \in Nat
        /\ head \in 0..Len(queue) /\ queueSize \in Nat /\ queueSize = Len(queue) - head
    BY DEF TypeOK, queueSize
  <1>2. queueSize' = queueSize + 1 /\ Len(accepted') = Len(accepted) + 1 /\ head' = head
    <2>1. head' = head /\ Len(queue') = Len(queue) + 1 /\ Len(accepted') = Len(accepted) + 1
      BY PushFacts
    <2>2. queueSize' = Len(queue') - head'
      BY DEF queueSize
    <2> QED BY <1>1, <2>1, <2>2
  <1>3. \A i \in 1..Len(delivered) : delivered[i] = accepted'[i]
    BY <1>1, PushFacts DEF OrderInv
  <1>4. ASSUME NEW i \in 1..queueSize' PROVE queue'[head + i] = accepted'[Len(delivered) + i]
    <2>1. CASE i = queueSize + 1
      <3>1. head + i = Len(queue) + 1 /\ Len(delivered) + i = Len(accepted) + 1
        BY <1>1, <2>1 DEF OrderInv
      <3> QED BY <3>1, PushFacts
    <2>2. CASE i # queueSize + 1
      <3>1. i \in 1..queueSize
        BY <1>1, <1>2, <2>2
      <3>2. head + i \in 1..Len(queue) /\ Len(delivered) + i \in 1..Len(accepted)
        BY <1>1, <3>1 DEF OrderInv
      <3> QED BY <3>1, <3>2, PushFacts DEF OrderInv
    <2> QED BY <2>1, <2>2
  <1>5. Len(accepted') = Len(delivered') + queueSize'
    BY <1>1, <1>2 DEF OrderInv
  <1>6. \A i \in 1..Len(delivered') : delivered'[i] = accepted'[i]
    BY <1>3
  <1>7. \A i \in 1..queueSize' : queue'[head' + i] = accepted'[Len(delivered') + i]
    BY <1>2, <1>4
  <1> QED BY <1>5, <1>6, <1>7 DEF OrderInv

LEMMA OrderTake ==
    ASSUME ChannelAssumption, TypeOK, OrderInv, queueSize > 0, TakeHead, accepted' = accepted
    PROVE  OrderInv'
  <1>1. /\ queue \in Seq(Item) /\ accepted \in Seq(Item) /\ delivered \in Seq(Item)
        /\ Len(accepted) \in Nat /\ Len(delivered) \in Nat
        /\ head \in Nat /\ queueSize \in Nat
    BY DEF TypeOK, queueSize
  <1>2. /\ queueSize' = queueSize - 1 /\ queue[head + 1] \in Item
        /\ delivered' = Append(delivered, queue[head + 1])
        /\ \A i \in 1..queueSize' : queue'[head' + i] = queue[head + 1 + i]
    BY TakeHeadFacts
  <1>3. /\ Len(delivered') = Len(delivered) + 1
        /\ \A i \in 1..Len(delivered) : delivered'[i] = delivered[i]
        /\ delivered'[Len(delivered) + 1] = queue[head + 1]
    BY <1>1, <1>2, AppendProperties
  <1>4. queue[head + 1] = accepted[Len(delivered) + 1]
    BY <1>1 DEF OrderInv
  <1>5. \A i \in 1..Len(delivered') : delivered'[i] = accepted[i]
    BY <1>1, <1>3, <1>4 DEF OrderInv
  <1>6. ASSUME NEW i \in 1..queueSize' PROVE queue'[head' + i] = accepted[Len(delivered') + i]
    <2>1. /\ i + 1 \in 1..queueSize /\ head + (i + 1) = head + 1 + i
          /\ Len(delivered) + (i + 1) = Len(delivered') + i
      BY <1>1, <1>2, <1>3
    <2>2. queue[head + (i + 1)] = accepted[Len(delivered) + (i + 1)]
      BY <2>1 DEF OrderInv
    <2> QED BY <1>2, <2>1, <2>2
  <1>7. Len(accepted) = Len(delivered') + queueSize'
    BY <1>1, <1>2, <1>3 DEF OrderInv
  <1> QED BY <1>5, <1>6, <1>7 DEF OrderInv

LEMMA OrderSame ==
    OrderInv /\ UNCHANGED <<queue, head, accepted, delivered>> => OrderInv'
  BY DEF OrderInv, queueSize

LEMMA OrderStep == ChannelAssumption /\ TypeOK /\ OrderInv /\ [Next]_vars => OrderInv'
  <1> SUFFICES ASSUME ChannelAssumption, TypeOK, OrderInv, [Next]_vars PROVE OrderInv'
    OBVIOUS
  <1>1. ASSUME NEW s \in Senders, SendNow(s) \/ Fail(s) PROVE OrderInv'
    <2>1. Success(s) \in Item /\ [type |-> "error", from |-> s] \in Item
      BY DEF Success, Item
    <2> QED BY <1>1, <2>1, OrderPush DEF SendNow, Fail
  <1>2. ASSUME NEW s \in Senders, ResumeSend(s) PROVE OrderInv'
    BY <1>2, OrderPush, OrderSame, SuccessType DEF ResumeSend
  <1>3. CASE \E c \in Consumers : Yield(c)
    BY <1>3, OrderTake DEF Yield
  <1>4. CASE UNCHANGED <<queue, head, accepted, delivered>>
    BY <1>4, OrderSame
  <1>5. ASSUME NEW s \in Senders, Drop(s) PROVE UNCHANGED <<queue, head, accepted, delivered>>
    BY <1>5 DEF Drop
  <1>6. ASSUME NEW w \in Waiters, Block(w) \/ PollNow(w) \/ ResumePoll(w)
        PROVE  UNCHANGED <<queue, head, accepted, delivered>>
    BY <1>6 DEF Block, PollNow, ResumePoll
  <1>7. ASSUME NEW c \in Consumers, Sleep(c) \/ Finish(c) \/ Return(c) \/ ReturnUnstarted(c)
        PROVE  UNCHANGED <<queue, head, accepted, delivered>>
    BY <1>7 DEF Sleep, Finish, Return, ReturnUnstarted
  <1>8. CASE close \/ Abort
    BY <1>4, <1>8 DEF close, Abort
  <1>9. CASE UNCHANGED vars
    BY <1>4, <1>9 DEF vars
  <1> QED
    BY <1>1, <1>2, <1>3, <1>4, <1>5, <1>6, <1>7, <1>8, <1>9
    DEF Next, Waiters, ChannelAssumption

\* The index form gives the sequence form.
LEMMA OrderGivesDelivered == ChannelAssumption /\ TypeOK /\ OrderInv => DeliveredInOrder
  <1> SUFFICES ASSUME TypeOK, OrderInv PROVE delivered \o Pending = accepted
    BY DEF DeliveredInOrder
  <1>1. /\ queue \in Seq(Item) /\ accepted \in Seq(Item) /\ delivered \in Seq(Item)
        /\ Len(accepted) \in Nat /\ Len(delivered) \in Nat /\ Len(queue) \in Nat
        /\ head \in 0..Len(queue) /\ queueSize \in Nat /\ queueSize = Len(queue) - head
    BY DEF TypeOK, queueSize
  <1>2. \A i \in (head + 1)..Len(queue) : queue[i] \in Item
    BY <1>1
  <1>3. /\ Pending \in Seq(Item)
        /\ Len(Pending) = queueSize
        /\ \A i \in 1..queueSize : Pending[i] = queue[head + i]
    <2>1. /\ Pending \in Seq(Item)
          /\ Len(Pending) = IF head + 1 <= Len(queue) THEN Len(queue) - (head + 1) + 1 ELSE 0
          /\ \A i \in 1..(Len(queue) - (head + 1) + 1) : Pending[i] = queue[(head + 1) + i - 1]
      BY <1>1, <1>2, SubSeqProperties DEF Pending
    <2>2. ASSUME NEW i \in 1..queueSize PROVE Pending[i] = queue[head + i]
      <3>1. i \in 1..(Len(queue) - (head + 1) + 1) /\ (head + 1) + i - 1 = head + i
        BY <1>1
      <3> QED BY <2>1, <3>1
    <2> QED BY <1>1, <2>1, <2>2
  <1>4. /\ delivered \o Pending \in Seq(Item)
        /\ Len(delivered \o Pending) = Len(delivered) + Len(Pending)
        /\ \A i \in 1..(Len(delivered) + Len(Pending)) : (delivered \o Pending)[i] =
                IF i <= Len(delivered) THEN delivered[i] ELSE Pending[i - Len(delivered)]
    BY <1>1, <1>3, ConcatProperties
  <1>5. Len(delivered \o Pending) = Len(accepted)
    BY <1>3, <1>4 DEF OrderInv
  <1>6. ASSUME NEW i \in 1..Len(accepted) PROVE (delivered \o Pending)[i] = accepted[i]
    <2>0. i \in 1..(Len(delivered) + Len(Pending))
      BY <1>3 DEF OrderInv
    <2>1. CASE i <= Len(delivered)
      <3>1. (delivered \o Pending)[i] = delivered[i]
        BY <2>0, <1>4, <2>1
      <3> QED BY <1>1, <2>1, <3>1 DEF OrderInv
    <2>2. CASE i > Len(delivered)
      <3>1. /\ i - Len(delivered) \in 1..queueSize
            /\ Len(delivered) + (i - Len(delivered)) = i
        BY <1>1, <2>2 DEF OrderInv
      <3>2. (delivered \o Pending)[i] = Pending[i - Len(delivered)]
        BY <1>1, <2>0, <1>4, <2>2
      <3>3. accepted[Len(delivered) + (i - Len(delivered))] = queue[head + (i - Len(delivered))]
        BY <3>1 DEF OrderInv
      <3>4. Pending[i - Len(delivered)] = queue[head + (i - Len(delivered))]
        BY <1>3, <3>1
      <3> QED BY <3>1, <3>2, <3>3, <3>4
    <2>3. i <= Len(delivered) \/ i > Len(delivered)
      BY <1>1
    <2> QED BY <2>1, <2>2, <2>3, Zenon
  <1> QED BY <1>1, <1>4, <1>5, <1>6, SeqEqual

LEMMA OrderInit == ChannelAssumption /\ Init => OrderInv
  BY DEF Init, OrderInv, queueSize

LEMMA OrderInvariant == Spec => [](TypeOK /\ OrderInv)
  <1>1. Init => TypeOK /\ OrderInv
    BY ChannelAssumption, TypeInit, OrderInit
  <1>2. TypeOK /\ OrderInv /\ [Next]_vars => (TypeOK /\ OrderInv)'
    BY ChannelAssumption, TypeStep, OrderStep
  <1> QED BY <1>1, <1>2, PTL DEF Spec

\* Accepted items are delivered once and in order, whatever the compactions and
\* the number of generators.
THEOREM InOrder == Spec => []DeliveredInOrder
  <1>1. TypeOK /\ OrderInv => DeliveredInOrder
    BY ChannelAssumption, OrderGivesDelivered
  <1> QED BY <1>1, OrderInvariant, PTL

-----------------------------------------------------------------------------
(* The queue of waiting calls. *)

\* The resolvers in producers are those of the waiting calls, each once.
ProducersAreWaiting ==
    /\ ToSet(producers) = {w \in Waiters : pc[w] = "waiting"}
    /\ IsInjective(producers)

\* ProducersAreWaiting said of the indices.
WaitInv == /\ \A i \in 1..Len(producers) : pc[producers[i]] = "waiting"
           /\ \A w \in Waiters : pc[w] = "waiting" => \E i \in 1..Len(producers) : producers[i] = w
           /\ \A i, j \in 1..Len(producers) : producers[i] = producers[j] => i = j

LEMMA WaitRegister ==
    ASSUME TypeOK, WaitInv, NEW w \in Waiters, pc[w] # "waiting", Register(w)
    PROVE  WaitInv'
  <1>1. /\ producers \in Seq(Waiters) /\ Len(producers) \in Nat
        /\ pc \in [Waiters -> {"idle", "waiting", "woken"}]
    BY DEF TypeOK
  <1>2. producers' = Append(producers, w) /\ pc' = [pc EXCEPT ![w] = "waiting"]
    BY DEF Register
  <1>3. /\ Len(producers') = Len(producers) + 1
        /\ \A i \in 1..Len(producers) : producers'[i] = producers[i] /\ producers[i] \in Waiters
        /\ producers'[Len(producers) + 1] = w
    BY <1>1, <1>2, AppendProperties
  <1>4. \A i \in 1..Len(producers) : producers'[i] # w /\ pc'[producers'[i]] = "waiting"
    BY <1>1, <1>2, <1>3 DEF WaitInv
  <1>5. \A i \in 1..Len(producers') : pc'[producers'[i]] = "waiting"
    BY <1>1, <1>2, <1>3, <1>4
  <1>6. \A v \in Waiters : pc'[v] = "waiting" => \E i \in 1..Len(producers') : producers'[i] = v
    BY <1>1, <1>2, <1>3 DEF WaitInv
  <1>7. ASSUME NEW i \in 1..Len(producers'), NEW j \in 1..Len(producers'), producers'[i] = producers'[j]
        PROVE  i = j
    BY <1>1, <1>3, <1>4, <1>7 DEF WaitInv
  <1> QED BY <1>5, <1>6, <1>7 DEF WaitInv

LEMMA WaitShift ==
    ASSUME TypeOK, WaitInv, ShiftProducer
    PROVE  WaitInv'
  <1>1. /\ producers \in Seq(Waiters) /\ Len(producers) \in Nat
        /\ pc \in [Waiters -> {"idle", "waiting", "woken"}]
    BY DEF TypeOK
  <1>2. CASE producers = <<>>
    BY <1>2 DEF ShiftProducer, WaitInv
  <1>3. CASE producers # <<>>
    <2>1. producers' = Tail(producers) /\ pc' = Wake({Head(producers)})
      BY <1>3 DEF ShiftProducer
    <2>2. /\ Len(producers') = Len(producers) - 1 /\ Len(producers) >= 1
          /\ \A i \in 1..Len(producers') : producers'[i] = producers[i + 1] /\ producers[i + 1] \in Waiters
          /\ Head(producers) = producers[1] /\ producers[1] \in Waiters
      BY <1>1, <1>3, <2>1, HeadTailProperties
    <2>3. \A w \in Waiters : pc'[w] = IF w = producers[1] THEN "woken" ELSE pc[w]
      BY <2>1, <2>2 DEF Wake
    <2>4. ASSUME NEW i \in 1..Len(producers') PROVE pc'[producers'[i]] = "waiting"
      <3>1. i + 1 \in 1..Len(producers) /\ 1 \in 1..Len(producers) /\ i + 1 # 1
        BY <1>1, <2>2
      <3> QED BY <2>2, <2>3, <3>1 DEF WaitInv
    <2>5. ASSUME NEW w \in Waiters, pc'[w] = "waiting"
          PROVE  \E i \in 1..Len(producers') : producers'[i] = w
      <3>1. w # producers[1] /\ pc[w] = "waiting"
        BY <2>3, <2>5
      <3>2. PICK j \in 1..Len(producers) : producers[j] = w
        BY <3>1 DEF WaitInv
      <3>3. j - 1 \in 1..Len(producers') /\ (j - 1) + 1 = j
        BY <1>1, <2>2, <3>1, <3>2
      <3> QED BY <2>2, <3>2, <3>3
    <2>6. ASSUME NEW i \in 1..Len(producers'), NEW j \in 1..Len(producers'), producers'[i] = producers'[j]
          PROVE  i = j
      <3>1. i + 1 \in 1..Len(producers) /\ j + 1 \in 1..Len(producers)
        BY <1>1, <2>2
      <3>2. producers[i + 1] = producers[j + 1]
        BY <2>2, <2>6
      <3>3. i + 1 = j + 1
        BY <3>1, <3>2 DEF WaitInv
      <3> QED BY <3>3
    <2> QED BY <2>4, <2>5, <2>6 DEF WaitInv
  <1> QED BY <1>2, <1>3

LEMMA WaitRelease == ASSUME TypeOK, WaitInv, ReleaseProducers PROVE WaitInv'
  <1>1. producers' = <<>> /\ Len(producers') = 0
    BY DEF ReleaseProducers
  <1>2. \A w \in Waiters : pc'[w] # "waiting"
    <2>1. \A w \in Waiters : pc'[w] = IF w \in ToSet(producers) THEN "woken" ELSE pc[w]
      BY DEF ReleaseProducers, Wake
    <2>2. \A w \in Waiters : pc[w] = "waiting" => w \in ToSet(producers)
      BY DEF WaitInv, ToSet, TypeOK
    <2> QED BY <2>1, <2>2
  <1> QED BY <1>1, <1>2 DEF WaitInv

LEMMA WaitIdle ==
    ASSUME TypeOK, WaitInv, NEW w \in Waiters, pc[w] = "woken",
           pc' = [pc EXCEPT ![w] = "idle"], producers' = producers
    PROVE  WaitInv'
  BY DEF TypeOK, WaitInv

LEMMA WaitSame == WaitInv /\ UNCHANGED <<producers, pc>> => WaitInv'
  BY DEF WaitInv

LEMMA WaitStep == ChannelAssumption /\ TypeOK /\ WaitInv /\ [Next]_vars => WaitInv'
  <1> SUFFICES ASSUME ChannelAssumption, TypeOK, WaitInv, [Next]_vars PROVE WaitInv'
    OBVIOUS
  <1>0. Senders \subseteq Waiters /\ Pollers \subseteq Waiters
    BY DEF Waiters
  <1>1. ASSUME NEW s \in Senders, Drop(s) \/ SendNow(s) \/ Fail(s) PROVE WaitInv'
    BY <1>1, WaitSame DEF Drop, SendNow, Fail
  <1>2. ASSUME NEW s \in Senders, ResumeSend(s) PROVE WaitInv'
    <2>1. s \in Waiters /\ pc[s] = "woken"
      BY <1>0, <1>2 DEF ResumeSend
    <2>2. \/ pc' = [pc EXCEPT ![s] = "idle"] /\ producers' = producers
          \/ Register(s)
      BY <1>2 DEF ResumeSend
    <2> QED BY <2>1, <2>2, WaitIdle, WaitRegister
  <1>3. ASSUME NEW p \in Pollers, PollNow(p) \/ ResumePoll(p) PROVE WaitInv'
    BY <1>0, <1>3, WaitSame, WaitIdle DEF PollNow, ResumePoll
  <1>4. ASSUME NEW w \in Waiters, Block(w) PROVE WaitInv'
    BY <1>4, WaitRegister DEF Block, Call
  <1>5. CASE \E c \in Consumers : Yield(c)
    BY <1>5, WaitShift DEF Yield
  <1>6. CASE \E c \in Consumers : Sleep(c) \/ Finish(c)
    BY <1>6, WaitSame DEF Sleep, Finish
  <1>7. CASE \E c \in Quitters : Return(c) \/ ReturnUnstarted(c)
    BY <1>7, WaitSame, WaitRelease DEF Return, ReturnUnstarted, CloseEffect
  <1>8. CASE close \/ Abort
    BY <1>8, WaitRelease DEF close, Abort, CloseEffect
  <1>9. CASE UNCHANGED vars
    BY <1>9, WaitSame DEF vars
  <1> QED BY <1>1, <1>2, <1>3, <1>4, <1>5, <1>6, <1>7, <1>8, <1>9 DEF Next

LEMMA WaitInit == Init => WaitInv
  BY DEF Init, WaitInv

LEMMA WaitGivesWaiting == TypeOK /\ WaitInv => ProducersAreWaiting
  <1> SUFFICES ASSUME TypeOK, WaitInv PROVE ProducersAreWaiting
    OBVIOUS
  <1>1. producers \in Seq(Waiters) /\ DOMAIN producers = 1..Len(producers)
    BY DEF TypeOK
  <1>2. ToSet(producers) = {w \in Waiters : pc[w] = "waiting"}
    BY <1>1 DEF WaitInv, ToSet
  <1>3. IsInjective(producers)
    BY <1>1 DEF WaitInv, IsInjective
  <1> QED BY <1>2, <1>3 DEF ProducersAreWaiting

LEMMA WaitInvariant == Spec => [](TypeOK /\ WaitInv)
  <1>1. Init => TypeOK /\ WaitInv
    BY ChannelAssumption, TypeInit, WaitInit
  <1>2. TypeOK /\ WaitInv /\ [Next]_vars => (TypeOK /\ WaitInv)'
    BY ChannelAssumption, TypeStep, WaitStep
  <1> QED BY <1>1, <1>2, PTL DEF Spec

\* No waiting call is without its resolver, and none is registered twice.
THEOREM WaitersRegistered == Spec => []ProducersAreWaiting
  BY WaitGivesWaiting, WaitInvariant, PTL

-----------------------------------------------------------------------------
(* Free slots. *)

\* FreeSlotsAreClaimed, with the fact that nobody waits on an unbounded buffer.
SlotInv == producers # <<>> =>
             /\ BufferSize # Infinity
             /\ queueSize + Cardinality(Woken) + spent >= BufferSize

LEMMA WokenFinite ==
    ASSUME ChannelAssumption
    PROVE  IsFiniteSet(Woken) /\ Cardinality(Woken) \in Nat
  <1>1. Woken \subseteq Waiters /\ IsFiniteSet(Waiters)
    BY DEF Woken, ChannelAssumption
  <1> QED BY <1>1, FS_Subset, FS_CardinalityType

\* A call registers only when the buffer is full, and then nothing is owed to it.
LEMMA SlotFull ==
    ASSUME ChannelAssumption, TypeOK, ~HasCapacity, queueSize' = queueSize, IsFiniteSet(Woken'),
           spent' = spent
    PROVE  SlotInv'
  <1>1. BufferSize \in Nat /\ BufferSize # Infinity /\ queueSize >= BufferSize /\ queueSize \in Nat
        /\ spent \in Nat
    BY DEF ChannelAssumption, HasCapacity, TypeOK, queueSize
  <1>2. Cardinality(Woken') \in Nat
    BY FS_CardinalityType
  <1> QED BY <1>1, <1>2 DEF SlotInv

\* A step that takes nothing from the buffer and wakes or resumes nobody.
LEMMA SlotSame ==
    ASSUME ChannelAssumption, TypeOK, SlotInv, producers' = producers, pc' = pc, spent' = spent,
           queueSize' \in Nat, queueSize' >= queueSize
    PROVE  SlotInv'
  <1>1. Woken' = Woken
    BY DEF Woken
  <1>2. Cardinality(Woken) \in Nat /\ queueSize \in Nat /\ spent \in Nat
    BY WokenFinite DEF TypeOK, queueSize
  <1>3. BufferSize # Infinity => BufferSize \in Nat
    BY DEF ChannelAssumption
  <1> QED BY <1>1, <1>2, <1>3 DEF SlotInv

\* A woken send resumes: its slot is filled, and it is not counted any more.
LEMMA SlotPush ==
    ASSUME ChannelAssumption, TypeOK, SlotInv, NEW s \in Waiters, pc[s] = "woken",
           pc' = [pc EXCEPT ![s] = "idle"], producers' = producers, queueSize' = queueSize + 1,
           spent' = spent
    PROVE  SlotInv'
  <1>1. Woken' = Woken \ {s} /\ s \in Woken
    BY DEF Woken, TypeOK
  <1>2. IsFiniteSet(Woken) /\ Cardinality(Woken) \in Nat /\ queueSize \in Nat /\ spent \in Nat
    BY WokenFinite DEF TypeOK, queueSize
  <1>3. Cardinality(Woken') = Cardinality(Woken) - 1
    BY <1>1, <1>2, FS_RemoveElement
  <1>4. BufferSize # Infinity => BufferSize \in Nat
    BY DEF ChannelAssumption
  <1> QED BY <1>2, <1>3, <1>4 DEF SlotInv

\* A caller of waitForCapacity goes on without filling its slot: its wakeup is
\* counted in spent.
LEMMA SlotPoll ==
    ASSUME ChannelAssumption, TypeOK, SlotInv, NEW p \in Waiters, pc[p] = "woken",
           pc' = [pc EXCEPT ![p] = "idle"], producers' = producers, queueSize' = queueSize,
           spent' = spent + 1
    PROVE  SlotInv'
  <1>1. Woken' = Woken \ {p} /\ p \in Woken
    BY DEF Woken, TypeOK
  <1>2. IsFiniteSet(Woken) /\ Cardinality(Woken) \in Nat /\ queueSize \in Nat /\ spent \in Nat
    BY WokenFinite DEF TypeOK, queueSize
  <1>3. Cardinality(Woken') = Cardinality(Woken) - 1
    BY <1>1, <1>2, FS_RemoveElement
  <1>4. BufferSize # Infinity => BufferSize \in Nat
    BY DEF ChannelAssumption
  <1> QED BY <1>2, <1>3, <1>4 DEF SlotInv

\* The generator takes an item: the slot goes to the waiter it wakes.
LEMMA SlotTake ==
    ASSUME ChannelAssumption, TypeOK, WaitInv, SlotInv, ShiftProducer, queueSize' = queueSize - 1,
           spent' = spent
    PROVE  SlotInv'
  <1>1. CASE producers = <<>>
    BY <1>1 DEF ShiftProducer, SlotInv
  <1>2. CASE producers # <<>>
    <2>1. producers \in Seq(Waiters) /\ Len(producers) \in Nat /\ Len(producers) >= 1
      BY <1>2 DEF TypeOK
    <2>2. /\ Head(producers) = producers[1] /\ producers[1] \in Waiters
          /\ pc[producers[1]] = "waiting"
          /\ pc' = Wake({producers[1]})
      BY <1>2, <2>1 DEF WaitInv, ShiftProducer
    <2>3. Woken' = Woken \cup {producers[1]} /\ producers[1] \notin Woken
      BY <2>2 DEF Woken, Wake, TypeOK
    <2>4. IsFiniteSet(Woken) /\ Cardinality(Woken) \in Nat /\ queueSize \in Nat /\ spent \in Nat
      BY WokenFinite DEF TypeOK, queueSize
    <2>5. Cardinality(Woken') = Cardinality(Woken) + 1
      BY <2>3, <2>4, FS_AddElement
    <2>6. BufferSize # Infinity => BufferSize \in Nat
      BY DEF ChannelAssumption
    <2> QED BY <1>2, <2>4, <2>5, <2>6 DEF SlotInv
  <1> QED BY <1>1, <1>2

LEMMA PushSize ==
    ASSUME TypeOK, NEW item \in Item, Push(item)
    PROVE  queueSize \in Nat /\ queueSize' = queueSize + 1
  <1>1. head' = head /\ Len(queue') = Len(queue) + 1
    BY PushFacts
  <1>2. queueSize' = Len(queue') - head' /\ head \in 0..Len(queue) /\ Len(queue) \in Nat
    BY DEF TypeOK, queueSize
  <1> QED BY <1>1, <1>2 DEF queueSize

LEMMA SlotStep ==
    ChannelAssumption /\ TypeOK /\ WakeInv /\ WaitInv /\ SlotInv /\ [Next]_vars => SlotInv'
  <1> SUFFICES ASSUME ChannelAssumption, TypeOK, WakeInv, WaitInv, SlotInv, [Next]_vars PROVE SlotInv'
    OBVIOUS
  <1>0. /\ Senders \subseteq Waiters /\ queueSize \in Nat
        /\ IsFiniteSet(Woken')
    <2>1. Woken' \subseteq Waiters /\ IsFiniteSet(Waiters)
      BY DEF Woken, ChannelAssumption
    <2>2. IsFiniteSet(Woken')
      BY <2>1, FS_Subset
    <2> QED BY <2>2 DEF Waiters, TypeOK, queueSize
  <1>1. ASSUME producers' = producers, pc' = pc, UNCHANGED <<queue, head, spent>> PROVE SlotInv'
    <2>1. queueSize' = queueSize
      BY <1>1 DEF queueSize
    <2> QED BY <1>0, <1>1, <2>1, SlotSame
  <1>2. ASSUME NEW s \in Senders, SendNow(s) \/ Fail(s) PROVE SlotInv'
    <2>1. producers' = producers /\ pc' = pc /\ spent' = spent
      BY <1>2 DEF SendNow, Fail
    <2>2. PICK item \in Item : Push(item)
      BY <1>2 DEF SendNow, Fail, Success, Item
    <2> QED BY <2>1, <2>2, PushSize, SlotSame
  <1>3. ASSUME NEW s \in Senders, ResumeSend(s) PROVE SlotInv'
    <2>1. CASE closed
      <3>1. producers' = <<>>
        BY <1>3, <2>1 DEF ResumeSend, WakeInv, ClosedReleasesProducers
      <3> QED BY <3>1 DEF SlotInv
    <2>2. CASE ~closed /\ ~HasCapacity
      <3>1. queueSize' = queueSize /\ spent' = spent
        BY <1>3, <2>2 DEF ResumeSend, queueSize
      <3> QED BY <1>0, <2>2, <3>1, SlotFull
    <2>3. CASE ~closed /\ HasCapacity
      <3>1. /\ Push(Success(s)) /\ producers' = producers /\ pc[s] = "woken"
            /\ pc' = [pc EXCEPT ![s] = "idle"] /\ s \in Waiters /\ spent' = spent
        BY <1>0, <1>3, <2>3 DEF ResumeSend
      <3>2. queueSize' = queueSize + 1
        BY <3>1, PushSize, SuccessType
      <3> QED BY <3>1, <3>2, SlotPush
    <2> QED BY <2>1, <2>2, <2>3
  <1>4. ASSUME NEW p \in Pollers, ResumePoll(p) PROVE SlotInv'
    <2>1. /\ p \in Waiters /\ pc[p] = "woken" /\ pc' = [pc EXCEPT ![p] = "idle"]
          /\ producers' = producers /\ queueSize' = queueSize /\ spent' = spent + 1
      BY <1>4 DEF ResumePoll, queueSize, Waiters
    <2> QED BY <2>1, SlotPoll
  <1>5. ASSUME NEW w \in Waiters, Block(w) PROVE SlotInv'
    <2>1. ~HasCapacity /\ queueSize' = queueSize /\ spent' = spent
      BY <1>5 DEF Block, queueSize
    <2> QED BY <1>0, <2>1, SlotFull
  <1>6. ASSUME NEW c \in Consumers, Yield(c) PROVE SlotInv'
    <2>1. queueSize > 0 /\ TakeHead /\ ShiftProducer /\ spent' = spent
      BY <1>6 DEF Yield
    <2>2. queueSize' = queueSize - 1
      BY <2>1, TakeHeadFacts
    <2> QED BY <2>1, <2>2, SlotTake
  <1>7. ASSUME NEW c \in Quitters, Return(c) PROVE SlotInv'
    <2>1. CASE closed
      BY <1>1, <1>7, <2>1 DEF Return
    <2>2. CASE ~closed
      BY <1>7, <2>2 DEF Return, CloseEffect, ReleaseProducers, SlotInv
    <2> QED BY <2>1, <2>2
  <1>8. CASE close \/ Abort
    BY <1>8 DEF close, Abort, CloseEffect, ReleaseProducers, SlotInv
  <1>9. ASSUME NEW s \in Senders, Drop(s) PROVE SlotInv'
    BY <1>1, <1>9 DEF Drop
  <1>10. ASSUME NEW p \in Pollers, PollNow(p) PROVE SlotInv'
    BY <1>1, <1>10 DEF PollNow
  <1>11. ASSUME NEW c \in Consumers, Sleep(c) \/ Finish(c) PROVE SlotInv'
    BY <1>1, <1>11 DEF Sleep, Finish
  <1>12. ASSUME NEW c \in Quitters, ReturnUnstarted(c) PROVE SlotInv'
    BY <1>1, <1>12 DEF ReturnUnstarted
  <1>13. CASE UNCHANGED vars
    BY <1>1, <1>13 DEF vars
  <1> QED
    BY <1>2, <1>3, <1>4, <1>5, <1>6, <1>7, <1>8, <1>9, <1>10, <1>11, <1>12, <1>13 DEF Next

\* While sends wait, every free slot of the buffer has a woken send that will
\* fill it, or was given to a caller of waitForCapacity.
THEOREM NoLostSenderWakeup == Spec => []FreeSlotsAreClaimed
  <1> DEFINE Inv == TypeOK /\ WakeInv /\ WaitInv /\ SlotInv
  <1>1. Init => Inv
    <2>1. Init => SlotInv
      BY DEF Init, SlotInv
    <2> QED BY <2>1, ChannelAssumption, TypeInit, WakeInit, WaitInit
  <1>2. Inv /\ [Next]_vars => Inv'
    BY ChannelAssumption, TypeStep, WakeStep, WaitStep, SlotStep
  <1>3. Inv => FreeSlotsAreClaimed
    BY DEF SlotInv, FreeSlotsAreClaimed
  <1> QED BY <1>1, <1>2, <1>3, PTL DEF Spec

-----------------------------------------------------------------------------
(* Refinement. *)

LEMMA RefinementInit == Init => Promise!Init
  BY DEF Init, Promise!Init, Waiters

\* Waking changes no sender's call from pending to idle or back.
LEMMA WakeKeepsCalls ==
    ASSUME TypeOK, WaitInv, ShiftProducer \/ ReleaseProducers
    PROVE  \A s \in Senders : (pc'[s] = "idle") <=> (pc[s] = "idle")
  <1>0. producers \in Seq(Waiters) /\ Senders \subseteq Waiters
    BY DEF TypeOK, Waiters
  <1>1. CASE pc' = pc
    BY <1>1
  <1>2. CASE producers # <<>> /\ pc' = Wake({Head(producers)})
    <2>1. Head(producers) = producers[1] /\ 1 \in 1..Len(producers)
      BY <1>0, <1>2
    <2>2. pc[producers[1]] = "waiting"
      BY <2>1 DEF WaitInv
    <2> QED BY <1>0, <1>2, <2>1, <2>2 DEF Wake
  <1>3. CASE pc' = Wake(ToSet(producers))
    <2>1. \A w \in ToSet(producers) : pc[w] = "waiting"
      BY <1>0 DEF WaitInv, ToSet
    <2> QED BY <1>0, <1>3, <2>1 DEF Wake
  <1> QED BY <1>1, <1>2, <1>3 DEF ShiftProducer, ReleaseProducers

\* The sender's side of a step, as BoundedChannel sees it.
AbsCall == [s \in Senders |-> IF pc[s] = "idle" THEN "idle" ELSE "pending"]

LEMMA CallSame ==
    ASSUME \A s \in Senders : (pc'[s] = "idle") <=> (pc[s] = "idle")
    PROVE  AbsCall' = AbsCall
  BY DEF AbsCall

LEMMA CallSet ==
    ASSUME TypeOK, NEW s \in Senders, NEW v \in {"idle", "waiting"}, pc' = [pc EXCEPT ![s] = v]
    PROVE  AbsCall' = [AbsCall EXCEPT ![s] = IF v = "idle" THEN "idle" ELSE "pending"]
  BY DEF AbsCall, TypeOK, Waiters

LEMMA RefinementStep ==
    ChannelAssumption /\ TypeOK /\ OrderInv /\ WaitInv /\ [Next]_vars => [Promise!Next]_(Promise!vars)
  <1> SUFFICES ASSUME ChannelAssumption, TypeOK, OrderInv, WaitInv, [Next]_vars
               PROVE  [Promise!Next]_(Promise!vars)
    OBVIOUS
  <1>0. /\ Senders \subseteq Waiters /\ Pollers \subseteq Waiters
        /\ Promise!Room <=> HasCapacity
        /\ pc \in [Waiters -> {"idle", "waiting", "woken"}]
        /\ queueSize \in Nat
    <2>1. Len(accepted) - Len(delivered) = queueSize /\ queueSize \in Nat
      BY DEF TypeOK, OrderInv, queueSize
    <2> QED BY <2>1 DEF Promise!Room, HasCapacity, Waiters, TypeOK
  <1>1. ASSUME UNCHANGED <<accepted, delivered, closed>>, AbsCall' = AbsCall
        PROVE  UNCHANGED Promise!vars
    BY <1>1 DEF Promise!vars, AbsCall
  <1>2. ASSUME NEW s \in Senders, SendNow(s) PROVE Promise!Accept(s)
    <2>1. /\ ~closed /\ HasCapacity /\ accepted' = Append(accepted, Success(s))
          /\ pc' = pc /\ pc[s] = "idle" /\ delivered' = delivered /\ closed' = closed
      BY <1>2 DEF SendNow, Push, Call
    <2>2. AbsCall' = [AbsCall EXCEPT ![s] = "idle"]
      BY <2>1 DEF AbsCall
    <2> QED BY <1>0, <2>1, <2>2 DEF Promise!Accept, AbsCall, Success
  <1>3. ASSUME NEW s \in Senders, Fail(s) PROVE Promise!AcceptError(s)
    <2>1. /\ ~closed /\ accepted' = Append(accepted, [type |-> "error", from |-> s])
          /\ pc' = pc /\ pc[s] = "idle" /\ delivered' = delivered /\ closed' = closed
      BY <1>3 DEF Fail, Push, Call
    <2> QED BY <2>1 DEF Promise!AcceptError
  <1>4. ASSUME NEW s \in Senders, ResumeSend(s) PROVE [Promise!Next]_(Promise!vars)
    <2>0. pc[s] = "woken" /\ delivered' = delivered /\ closed' = closed
      BY <1>4 DEF ResumeSend
    <2>1. CASE closed
      <3>1. pc' = [pc EXCEPT ![s] = "idle"] /\ accepted' = accepted
        BY <1>4, <2>1 DEF ResumeSend
      <3>2. AbsCall' = [AbsCall EXCEPT ![s] = "idle"]
        BY <3>1, CallSet
      <3>3. Promise!GiveUp(s)
        BY <2>0, <2>1, <3>1, <3>2 DEF Promise!GiveUp, AbsCall
      <3> QED BY <3>3 DEF Promise!Next
    <2>2. CASE ~closed /\ ~HasCapacity
      <3>1. pc' = [pc EXCEPT ![s] = "waiting"] /\ accepted' = accepted
        BY <1>4, <2>2 DEF ResumeSend, Register
      <3>2. AbsCall' = AbsCall
        BY <1>0, <2>0, <3>1, CallSame
      <3> QED BY <1>1, <2>0, <3>1, <3>2
    <2>3. CASE ~closed /\ HasCapacity
      <3>1. pc' = [pc EXCEPT ![s] = "idle"] /\ accepted' = Append(accepted, Success(s))
        BY <1>4, <2>3 DEF ResumeSend, Push
      <3>2. AbsCall' = [AbsCall EXCEPT ![s] = "idle"]
        BY <3>1, CallSet
      <3>3. Promise!Accept(s)
        BY <1>0, <2>0, <2>3, <3>1, <3>2 DEF Promise!Accept, AbsCall, Success
      <3> QED BY <3>3 DEF Promise!Next
    <2> QED BY <2>1, <2>2, <2>3
  <1>5. ASSUME NEW w \in Waiters, Block(w) PROVE [Promise!Next]_(Promise!vars)
    <2>1. /\ pc[w] = "idle" /\ pc' = [pc EXCEPT ![w] = "waiting"] /\ ~closed
          /\ UNCHANGED <<accepted, delivered, closed>>
      BY <1>5 DEF Block, Call, Register
    <2>2. CASE w \in Senders
      <3>1. AbsCall' = [AbsCall EXCEPT ![w] = "pending"]
        BY <2>1, <2>2, CallSet
      <3>2. Promise!Wait(w)
        BY <2>1, <2>2, <3>1 DEF Promise!Wait, AbsCall
      <3> QED BY <2>2, <3>2 DEF Promise!Next
    <2>3. CASE w \notin Senders
      <3>1. AbsCall' = AbsCall
        BY <1>0, <2>1, <2>3, CallSame
      <3> QED BY <1>1, <2>1, <3>1
    <2> QED BY <2>2, <2>3
  <1>6. ASSUME NEW p \in Pollers, ResumePoll(p) PROVE UNCHANGED Promise!vars
    <2>1. /\ p \notin Senders /\ pc' = [pc EXCEPT ![p] = "idle"]
          /\ UNCHANGED <<accepted, delivered, closed>>
      BY <1>6 DEF ResumePoll, ChannelAssumption
    <2>2. AbsCall' = AbsCall
      BY <1>0, <2>1, CallSame
    <2> QED BY <1>1, <2>1, <2>2
  <1>7. ASSUME NEW c \in Consumers, Yield(c) PROVE Promise!Deliver
    <2>1. /\ queueSize > 0 /\ delivered' = Append(delivered, queue[head + 1])
          /\ UNCHANGED <<accepted, closed>> /\ ShiftProducer
      BY <1>7 DEF Yield, TakeHead
    <2>2. /\ Len(delivered) < Len(accepted)
          /\ queue[head + 1] = accepted[Len(delivered) + 1]
      BY <1>0, <2>1 DEF OrderInv, TypeOK
    <2>3. AbsCall' = AbsCall
      BY <2>1, WakeKeepsCalls, CallSame
    <2> QED BY <2>1, <2>2, <2>3 DEF Promise!Deliver, AbsCall
  <1>8. ASSUME closed' = TRUE, ReleaseProducers, UNCHANGED <<accepted, delivered>>
        PROVE  [Promise!Next]_(Promise!vars)
    <2>1. AbsCall' = AbsCall
      BY <1>8, WakeKeepsCalls, CallSame
    <2>2. CASE closed
      BY <1>1, <1>8, <2>1, <2>2 DEF TypeOK
    <2>3. CASE ~closed
      <3>1. Promise!Close
        BY <1>8, <2>1, <2>3 DEF Promise!Close, AbsCall
      <3> QED BY <3>1 DEF Promise!Next
    <2> QED BY <2>2, <2>3
  <1>9. ASSUME UNCHANGED <<accepted, delivered, closed, pc>> PROVE UNCHANGED Promise!vars
    BY <1>9 DEF Promise!vars
  <1>10. ASSUME NEW w \in Waiters, Drop(w) \/ PollNow(w) PROVE UNCHANGED Promise!vars
    BY <1>9, <1>10 DEF Drop, PollNow
  <1>11. ASSUME NEW c \in Consumers, Sleep(c) \/ Finish(c) \/ ReturnUnstarted(c)
         PROVE  UNCHANGED Promise!vars
    BY <1>9, <1>11 DEF Sleep, Finish, ReturnUnstarted
  <1>12. ASSUME NEW c \in Quitters, Return(c) PROVE [Promise!Next]_(Promise!vars)
    <2>1. CASE closed
      BY <1>9, <1>12, <2>1 DEF Return
    <2>2. CASE ~closed
      BY <1>8, <1>12, <2>2 DEF Return, CloseEffect
    <2> QED BY <2>1, <2>2
  <1>13. CASE close \/ Abort
    BY <1>8, <1>13 DEF close, Abort, CloseEffect
  <1>14. CASE UNCHANGED vars
    BY <1>9, <1>14 DEF vars
  <1>15. ASSUME NEW s \in Senders, SendNow(s) \/ Fail(s) PROVE Promise!Next
    BY <1>2, <1>3, <1>15 DEF Promise!Next
  <1>16. ASSUME NEW c \in Consumers, Yield(c) PROVE Promise!Next
    BY <1>7, <1>16 DEF Promise!Next
  <1>17. Quitters \subseteq Consumers
    BY DEF ChannelAssumption
  <1> QED
    BY <1>0, <1>4, <1>5, <1>6, <1>10, <1>11, <1>12, <1>13, <1>14, <1>15, <1>16, <1>17 DEF Next

\* Every behaviour of the channel is one of BoundedChannel: the buffer, the
\* wakeups and the compactions are invisible to its callers.
THEOREM Refinement == Spec => ImplementsBoundedChannel
  <1> DEFINE Inv == TypeOK /\ OrderInv /\ WaitInv
  <1>1. Init => Inv /\ Promise!Init
    BY ChannelAssumption, TypeInit, OrderInit, WaitInit, RefinementInit
  <1>2. Inv /\ [Next]_vars => Inv'
    BY ChannelAssumption, TypeStep, OrderStep, WaitStep
  <1>3. Inv /\ [Next]_vars => [Promise!Next]_(Promise!vars)
    BY ChannelAssumption, RefinementStep
  <1> QED BY <1>1, <1>2, <1>3, PTL DEF Spec, ImplementsBoundedChannel, Promise!Spec

-----------------------------------------------------------------------------
(* The channel before its first use. *)

\* Nobody waits on a channel that is not started: only a call begins to.
FreshInv == UnstartedIsPristine /\ (~started => \A w \in Waiters : pc[w] = "idle")

LEMMA FreshStep == TypeOK /\ FreshInv /\ [Next]_vars => FreshInv'
<1> SUFFICES ASSUME TypeOK, FreshInv, [Next]_vars, ~started' PROVE FreshInv'
  BY DEF FreshInv, UnstartedIsPristine
<1> USE DEF FreshInv, UnstartedIsPristine
<1>1. CASE UNCHANGED vars
  BY <1>1 DEF vars
<1>2. CASE \/ \E s \in Senders : Drop(s) \/ SendNow(s) \/ Fail(s)
           \/ \E p \in Pollers : PollNow(p)
           \/ \E w \in Waiters : Block(w)
           \/ \E c \in Consumers : Yield(c) \/ Sleep(c) \/ Finish(c)
           \/ \E c \in Quitters : Return(c)
           \/ close
  BY <1>2 DEF Drop, SendNow, Fail, PollNow, Block, Call, Yield, Sleep, Finish, Return, close
<1>3. CASE \/ \E s \in Senders : ResumeSend(s)
           \/ \E p \in Pollers : ResumePoll(p)
  BY <1>3 DEF ResumeSend, ResumePoll, Waiters
<1>4. ASSUME NEW c \in Quitters, ReturnUnstarted(c) PROVE FreshInv'
  BY <1>4 DEF ReturnUnstarted, TypeOK
<1>5. CASE Abort
  <2>1. ~started /\ UNCHANGED accepted /\ producers' = <<>>
    BY <1>5 DEF Abort, ReleaseProducers
  <2>2. \A c \in Consumers : gen'[c] = gen[c]
    BY <1>5, <2>1 DEF Abort, wakeConsumers
  <2>3. \A w \in Waiters : pc'[w] = pc[w]
    BY <1>5, <2>1 DEF Abort, ReleaseProducers, Wake, ToSet
  <2> QED  BY <2>1, <2>2, <2>3
<1> QED  BY <1>1, <1>2, <1>3, <1>4, <1>5 DEF Next

\* with*() on a channel that was not used drops nothing: no item, no waiting call and no
\* generator in its loop.
THEOREM Pristine == Spec => []UnstartedIsPristine
<1>1. Init => FreshInv
  BY DEF Init, FreshInv, UnstartedIsPristine
<1>2. FreshInv => UnstartedIsPristine
  BY DEF FreshInv
<1> QED  BY <1>1, <1>2, FreshStep, TypeCorrect, PTL DEF Spec

=============================================================================
