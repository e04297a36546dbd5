---------------------------- MODULE EventLogProofs ----------------------------
(***************************************************************************)
(* Three properties of the event log in memory, for any number of          *)
(* consumers, events and buffers: no event is forgotten by the drives;     *)
(* what a committed cursor covers was processed while every consumer       *)
(* handles one batch at a time from an unbounded buffer; and no event is   *)
(* left out of the batches or is in two of them.                           *)
(***************************************************************************)
EXTENDS EventLog, FiniteSetTheorems, SequenceTheorems, TLAPS

\* A batch size that takes something; any other ends or blocks the drives.
BatchSizeIsPositive == BatchSize \in Nat \ {0}

Batches == [first : Int, last : Int]
Statuses == {"none", "open", "closed"}
Records == [status : Statuses, saved : Int, size : {Infinity} \cup {o.size : o \in Options},
            limit : {1} \cup {o.limit : o \in Options}, start : Int, current : Int,
            buffer : Seq(Batches), waiting : Seq(Batches), woken : Seq(Batches), settled : Nat,
            held : SUBSET Batches, delivered : Seq(Batches)]

Types == /\ BatchSizeIsPositive /\ log \in Int /\ cursor \in Int
         /\ consumer \in [Consumers -> Records]

-----------------------------------------------------------------------------
(* The drives. *)

\* A drive is under way, or sleeps in its send, or has seen the end of the topic.
Attentive(s, length) == adapter = "open" /\ s.status = "open" /\ s.current < length =>
                            s.settled > 0 \/ s.waiting # <<>> \/ s.woken # <<>>

ForgottenInv == Types /\ \A c \in Consumers : Attentive(consumer[c], log)

LEMMA Appended ==
    ASSUME NEW S, NEW q \in Seq(S), NEW e \in S
    PROVE  Append(q, e) \in Seq(S) /\ Append(q, e) # <<>>
BY AppendProperties

LEMMA Shortened ==
    ASSUME NEW S, NEW q \in Seq(S), q # <<>>
    PROVE  Head(q) \in S /\ Tail(q) \in Seq(S)
BY HeadTailProperties

LEMMA SendTypes ==
    ASSUME NEW s \in Records, NEW b \in Batches
    PROVE  /\ Send(s, b) \in Records
           /\ Send(s, b).settled > 0 \/ Send(s, b).waiting # <<>>
<1>1. /\ Append(s.buffer, b) \in Seq(Batches) /\ Append(s.waiting, b) \in Seq(Batches)
      /\ Append(s.waiting, b) # <<>>
  BY Appended DEF Records
<1>2. s.settled + 1 \in Nat /\ s.settled + 1 > 0
  BY DEF Records
<1>3. CASE HasRoom(s)
  BY <1>1, <1>2, <1>3 DEF Send, Records
<1>4. CASE ~HasRoom(s)
  BY <1>1, <1>4 DEF Send, Records
<1> QED  BY <1>3, <1>4

\* The batch that a drive takes.
Taken(s, length) == [first |-> s.current,
                     last |-> IF s.current + BatchSize < length THEN s.current + BatchSize - 1
                                                                ELSE length - 1]
Moved(s, length) == [s EXCEPT !.current = Taken(s, length).last + 1]

LEMMA DriveIs ==
    ASSUME NEW s, NEW length
    PROVE  Drive(s, length) = IF adapter # "open" \/ s.status # "open" \/ s.current >= length THEN s
                              ELSE Send(Moved(s, length), Taken(s, length))
BY DEF Drive, Taken, Moved

LEMMA DriveTypes ==
    ASSUME BatchSizeIsPositive, NEW s \in Records, NEW length \in Int
    PROVE  Drive(s, length) \in Records /\ Attentive(Drive(s, length), length)
<1>1. CASE adapter # "open" \/ s.status # "open" \/ s.current >= length
  BY <1>1, DriveIs, SMTT(30) DEF Attentive, Records
<1>2. CASE ~(adapter # "open" \/ s.status # "open" \/ s.current >= length)
  <2>1. Taken(s, length) \in Batches /\ Moved(s, length) \in Records
    <3>1. s.current \in Int /\ BatchSize \in Int
      BY DEF Records, BatchSizeIsPositive
    <3>2. Taken(s, length) \in Batches /\ Taken(s, length).last + 1 \in Int
      BY <3>1 DEF Taken, Batches
    <3> QED  BY <3>2 DEF Moved, Records
  <2> HIDE DEF Taken, Moved
  <2> QED  BY <1>2, <2>1, SendTypes, DriveIs DEF Attentive
<1> QED  BY <1>1, <1>2

\* One consumer moves; the others are as they were.
OnlyMoves(c) == \A d \in Consumers : d # c => consumer'[d] = consumer[d]

LEMMA ConsumerMoves ==
    ASSUME ForgottenInv, NEW c \in Consumers, NEW r \in Records,
           consumer' = [consumer EXCEPT ![c] = r]
    PROVE  /\ consumer' \in [Consumers -> Records] /\ consumer'[c] = r /\ OnlyMoves(c)
BY DEF ForgottenInv, Types, OnlyMoves

LEMMA OtherConsumers ==
    ASSUME ForgottenInv, NEW c \in Consumers, OnlyMoves(c), consumer' \in [Consumers -> Records],
           log' = log, cursor' \in Int,
           adapter' = "open" => adapter = "open", Attentive(consumer'[c], log)
    PROVE  ForgottenInv'
<1>1. Types'
  BY DEF ForgottenInv, Types, BatchSizeIsPositive
<1>2. \A d \in Consumers : Attentive(consumer'[d], log)
  BY DEF ForgottenInv, OnlyMoves
<1>3. \A d \in Consumers : Attentive(consumer[d], log)'
  BY <1>2 DEF Attentive
<1> QED  BY <1>1, <1>3 DEF ForgottenInv

LEMMA ForgottenInit == BatchSizeIsPositive /\ Init => ForgottenInv
<1> SUFFICES ASSUME BatchSizeIsPositive, Init PROVE ForgottenInv
  OBVIOUS
<1>1. NotStarted \in Records
  BY EmptySeq DEF NotStarted, Records, Statuses
<1>2. Types
  BY <1>1 DEF Init, Types
<1>3. NotStarted.status # "open"
  BY DEF NotStarted
<1> QED  BY <1>2, <1>3 DEF ForgottenInv, Init, Attentive

LEMMA ForgottenStep == ForgottenInv /\ [Next]_vars => ForgottenInv'
<1> SUFFICES ASSUME ForgottenInv, [Next]_vars PROVE ForgottenInv'
  OBVIOUS
<1>a. Types /\ BatchSizeIsPositive /\ log \in Int /\ cursor \in Int
  BY DEF ForgottenInv, Types
<1>b. \A c \in Consumers : consumer[c] \in Records /\ Attentive(consumer[c], log)
  BY DEF ForgottenInv, Types
<1>1. CASE UNCHANGED vars
  BY <1>1, <1>a DEF vars, ForgottenInv, Types, Attentive, BatchSizeIsPositive
<1>2. CASE AppendEvent
  <2>1. /\ log' = log + 1 /\ log' \in Int /\ adapter' = adapter /\ cursor' = cursor
        /\ consumer' = [c \in Consumers |-> Drive(consumer[c], log')]
    BY <1>2, <1>a DEF AppendEvent, append
  <2>2. \A c \in Consumers : Drive(consumer[c], log') \in Records /\ Attentive(Drive(consumer[c], log'), log')
    BY <1>a, <1>b, <2>1, DriveTypes
  <2>3. \A c \in Consumers : consumer'[c] \in Records /\ Attentive(consumer'[c], log')
    BY <2>1, <2>2
  <2>4. Types'
    BY <1>a, <2>1, <2>2 DEF Types, BatchSizeIsPositive
  <2> QED  BY <2>1, <2>3, <2>4 DEF ForgottenInv, Attentive
<1>3. CASE CloseAdapter \/ End
  BY <1>3, <1>a DEF CloseAdapter, End, ForgottenInv, Types, Attentive, BatchSizeIsPositive
<1>4. ASSUME NEW c \in Consumers, GetCommittedCursor(c) \/ Commit(c) PROVE ForgottenInv'
  <2>1. CASE Commit(c)
    BY <1>a, <1>b, <2>1 DEF Commit, commitCursor, ForgottenInv, Types, Attentive, BatchSizeIsPositive, Records
  <2>2. CASE GetCommittedCursor(c)
    <3>1. /\ consumer' = [consumer EXCEPT ![c] = getCursor(consumer[c])] /\ consumer[c].status = "none"
          /\ UNCHANGED <<log, cursor, adapter>>
      BY <2>2 DEF GetCommittedCursor
    <3>2. getCursor(consumer[c]) \in Records /\ getCursor(consumer[c]).status = "none"
      BY <1>a, <1>b, <3>1 DEF getCursor, Records
    <3> QED  BY <1>a, <3>1, <3>2, ConsumerMoves, OtherConsumers DEF Attentive
  <2> QED  BY <1>4, <2>1, <2>2
<1>5. ASSUME NEW c \in Consumers, Consume(c) PROVE ForgottenInv'
  <2>1. PICK o \in Options, from \in {-1, consumer[c].saved} :
           /\ consumer' = [consumer EXCEPT
                   ![c] = consume([consumer[c] EXCEPT !.size = o.size, !.limit = o.limit], from)]
           /\ UNCHANGED <<log, cursor, adapter>>
    BY <1>5 DEF Consume
  <2> DEFINE begun == [[consumer[c] EXCEPT !.size = o.size, !.limit = o.limit]
                          EXCEPT !.status = "open", !.saved = -1, !.start = from + 1,
                                 !.current = from + 1]
  <2>2. from + 1 \in Int /\ -1 \in Int
    BY <1>b DEF Records
  <2>3. begun \in Records
    BY <1>b, <2>2 DEF Records, Statuses
  <2>4. consumer' = [consumer EXCEPT ![c] = Drive(begun, log)]
    BY <2>1 DEF consume
  <2> HIDE DEF begun
  <2>5. Drive(begun, log) \in Records /\ Attentive(Drive(begun, log), log)
    BY <1>a, <2>3, DriveTypes
  <2> QED  BY <1>a, <2>1, <2>4, <2>5, ConsumerMoves, OtherConsumers
<1>6. ASSUME NEW c \in Consumers, Settle(c) PROVE ForgottenInv'
  <2> DEFINE s == [consumer[c] EXCEPT !.settled = consumer[c].settled - 1]
  <2>1. /\ consumer' = [consumer EXCEPT ![c] = Drive(s, log)] /\ UNCHANGED <<log, cursor, adapter>>
        /\ consumer[c].settled > 0
    BY <1>6 DEF Settle
  <2>2. s \in Records
    <3>1. consumer[c].settled - 1 \in Nat
      BY <1>b, <2>1 DEF Records
    <3> QED  BY <1>b, <3>1 DEF Records
  <2> HIDE DEF s
  <2>3. Drive(s, log) \in Records /\ Attentive(Drive(s, log), log)
    BY <1>a, <2>2, DriveTypes
  <2> QED  BY <1>a, <2>1, <2>3, ConsumerMoves, OtherConsumers
<1>7. ASSUME NEW c \in Consumers, Resume(c) PROVE ForgottenInv'
  <2> DEFINE s == consumer[c]
             rest == [s EXCEPT !.woken = Tail(@)]
             sent == Send(rest, Head(s.woken))
             left == [s EXCEPT !.woken = Tail(@), !.settled = @ + 1]
  <2>1. /\ consumer' = [consumer EXCEPT ![c] = IF s.status = "open" THEN sent ELSE left]
        /\ UNCHANGED <<log, cursor, adapter>> /\ s.woken # <<>>
    BY <1>7 DEF Resume
  <2>2. Head(s.woken) \in Batches /\ Tail(s.woken) \in Seq(Batches)
    BY <1>b, <2>1, Shortened DEF Records
  <2>3. rest \in Records /\ left \in Records /\ left.status = s.status
    <3>1. s \in Records /\ s.settled + 1 \in Nat
      BY <1>b DEF Records
    <3>2. rest \in Records
      BY <2>2, <3>1 DEF Records
    <3>3. left \in Records /\ left.status = s.status
      BY <2>2, <3>1 DEF Records
    <3> QED  BY <3>2, <3>3
  <2>4. sent \in Records /\ (sent.settled > 0 \/ sent.waiting # <<>>)
    BY <2>2, <2>3, SendTypes
  <2> HIDE DEF sent, left, s
  <2>5. CASE s.status = "open"
    BY <1>a, <2>1, <2>4, <2>5, ConsumerMoves, OtherConsumers DEF Attentive
  <2>6. CASE s.status # "open"
    BY <1>a, <2>1, <2>3, <2>6, ConsumerMoves, OtherConsumers DEF Attentive
  <2> QED  BY <2>5, <2>6
<1>8. ASSUME NEW c \in Consumers, Take(c) PROVE ForgottenInv'
  <2> DEFINE s == consumer[c]
             taken == [s EXCEPT !.buffer = Tail(@),
                                !.held = @ \cup {Head(s.buffer)},
                                !.delivered = Append(@, Head(s.buffer)),
                                !.woken = IF s.waiting = <<>> THEN @ ELSE Append(@, Head(s.waiting)),
                                !.waiting = IF @ = <<>> THEN @ ELSE Tail(@)]
  <2>1. consumer' = [consumer EXCEPT ![c] = taken] /\ UNCHANGED <<log, cursor, adapter>> /\ s.buffer # <<>>
    BY <1>8 DEF Take
  <2>2. /\ Head(s.buffer) \in Batches /\ Tail(s.buffer) \in Seq(Batches)
        /\ Append(s.delivered, Head(s.buffer)) \in Seq(Batches)
    BY <1>b, <2>1, Shortened, Appended DEF Records
  <2>3. s.waiting # <<>> => /\ Head(s.waiting) \in Batches /\ Tail(s.waiting) \in Seq(Batches)
                            /\ Append(s.woken, Head(s.waiting)) \in Seq(Batches)
                            /\ Append(s.woken, Head(s.waiting)) # <<>>
    BY <1>b, Shortened, Appended DEF Records
  <2>4. taken \in Records
    BY <1>b, <2>2, <2>3 DEF Records
  <2>5. /\ taken.status = s.status /\ taken.current = s.current /\ taken.settled = s.settled
        /\ s.waiting # <<>> => taken.woken # <<>>
        /\ s.waiting = <<>> => taken.woken = s.woken
    BY <1>b, <2>3 DEF Records
  <2> HIDE DEF taken
  <2>6. Attentive(taken, log)
    BY <1>b, <2>5 DEF Attentive
  <2> QED  BY <1>a, <2>1, <2>4, <2>6, ConsumerMoves, OtherConsumers
<1>9. ASSUME NEW c \in Consumers, Finish(c) PROVE ForgottenInv'
  <2>1. PICK b \in consumer[c].held, commit \in BOOLEAN :
           /\ consumer' = [consumer EXCEPT ![c] = [consumer[c] EXCEPT !.held = @ \ {b}]]
           /\ cursor' = IF commit /\ adapter = "open" THEN CursorOf(b) ELSE cursor
           /\ UNCHANGED <<log, adapter>>
    BY <1>9 DEF Finish
  <2> DEFINE r == [consumer[c] EXCEPT !.held = @ \ {b}]
  <2>2. r \in Records /\ cursor' \in Int
    BY <1>a, <1>b, <2>1 DEF Records, CursorOf, Batches
  <2>3. Attentive(r, log)
    BY <1>b DEF Attentive, Records
  <2> HIDE DEF r
  <2> QED  BY <1>a, <2>1, <2>2, <2>3, ConsumerMoves, OtherConsumers DEF r
<1>10. ASSUME NEW c \in Consumers, CloseConsumer(c) PROVE ForgottenInv'
  <2> DEFINE s == consumer[c]
  <2>1. PICK rest \in {s.buffer, <<>>} :
          /\ consumer' = [consumer EXCEPT ![c] =
              [s EXCEPT !.status = "closed", !.buffer = rest,
                        !.woken = @ \o s.waiting, !.waiting = <<>>]]
          /\ UNCHANGED <<log, cursor, adapter>>
    BY <1>10 DEF CloseConsumer
  <2> DEFINE r == [s EXCEPT !.status = "closed", !.buffer = rest,
                            !.woken = @ \o s.waiting, !.waiting = <<>>]
  <2>2. rest \in Seq(Batches) /\ s.woken \o s.waiting \in Seq(Batches) /\ <<>> \in Seq(Batches)
    BY <1>b, EmptySeq, ConcatProperties DEF Records
  <2>3. r \in Records /\ r.status = "closed"
    BY <1>b, <2>2 DEF Records, Statuses
  <2> HIDE DEF r
  <2> QED  BY <1>a, <2>1, <2>3, ConsumerMoves, OtherConsumers DEF r, Attentive
<1> QED
  BY <1>1, <1>2, <1>3, <1>4, <1>5, <1>6, <1>7, <1>8, <1>9, <1>10 DEF Next

\* An event that no drive has taken is not forgotten: a drive will look again, although
\* no append may ever come.
THEOREM NotForgotten == BatchSizeIsPositive /\ Spec => []NoEventForgotten
<1>1. ForgottenInv => NoEventForgotten
  BY DEF ForgottenInv, Attentive, NoEventForgotten
<1> QED  BY <1>1, ForgottenInit, ForgottenStep, PTL DEF Spec

-----------------------------------------------------------------------------
(* The committed cursor. *)

\* One batch at a time, from an unbounded buffer.
Alone(s) == s.size = Infinity /\ s.limit = 1

InHeld(s, e) == \E b \in s.held : e \in b.first..b.last
InBuffer(s, n, e) == \E i \in 1..n : e \in s.buffer[i].first..s.buffer[i].last

\* What is before a batch was processed or is in a batch before it; and the drives of
\* an open consumer have left nothing out.
Covered(s, done) ==
    /\ s.waiting = <<>> /\ s.woken = <<>>
    /\ \A b, d \in s.held : b = d
    /\ 0..s.saved \subseteq done
    /\ \A b \in s.held : 0..b.first - 1 \subseteq done
    /\ \A i \in 1..Len(s.buffer) : \A e \in 0..s.buffer[i].first - 1 :
           e \in done \/ InHeld(s, e) \/ InBuffer(s, i - 1, e)
    /\ s.status = "open" => \A e \in 0..s.current - 1 :
           e \in done \/ InHeld(s, e) \/ InBuffer(s, Len(s.buffer), e)

Fresh(s) == s.status = "none" => Alone(s) /\ s.buffer = <<>> /\ s.held = {}
                                 /\ s.waiting = <<>> /\ s.woken = <<>>

CommitInv == /\ ForgottenInv
             /\ \A c \in Consumers : Fresh(consumer[c])
             /\ (\A c \in Consumers : Alone(consumer[c])) =>
                    0..cursor \subseteq processed /\ \A c \in Consumers : Covered(consumer[c], processed)

LEMMA Extended ==
    ASSUME NEW q \in Seq(Batches), NEW b \in Batches
    PROVE  /\ Len(q) \in Nat /\ Len(Append(q, b)) = Len(q) + 1
           /\ \A i \in 1..Len(q) : Append(q, b)[i] = q[i]
           /\ Append(q, b)[Len(q) + 1] = b
BY AppendProperties, LenProperties

\* A drive leaves nothing out.
LEMMA DriveCovers ==
    ASSUME BatchSizeIsPositive, NEW s \in Records, NEW length \in Int, NEW done,
           Alone(s), Covered(s, done)
    PROVE  /\ Covered(Drive(s, length), done)
           /\ Drive(s, length).status = s.status
           /\ Drive(s, length).size = s.size /\ Drive(s, length).limit = s.limit
<1> DEFINE b == Taken(s, length)
           r == [s EXCEPT !.current = b.last + 1, !.buffer = Append(s.buffer, b),
                          !.settled = s.settled + 1]
<1>1. CASE adapter # "open" \/ s.status # "open" \/ s.current >= length
  BY <1>1, DriveIs
<1>2. CASE ~(adapter # "open" \/ s.status # "open" \/ s.current >= length)
  <2>1. s.current \in Int /\ BatchSize \in Int
    BY DEF Records, BatchSizeIsPositive
  <2>2. b \in Batches /\ b.first = s.current /\ b.last \in Int
    BY <2>1 DEF Taken, Batches
  <2>3. HasRoom(Moved(s, length))
    BY DEF Moved, HasRoom, Alone, Records
  <2>4. Drive(s, length) = r
    BY <1>2, <2>3, DriveIs DEF Send, Moved, Records
  <2> HIDE DEF b
  <2>5. /\ r.held = s.held /\ r.saved = s.saved /\ r.waiting = s.waiting /\ r.woken = s.woken
        /\ r.status = s.status /\ r.size = s.size /\ r.limit = s.limit
        /\ r.current = b.last + 1 /\ r.buffer = Append(s.buffer, b)
    BY DEF Records
  <2> HIDE DEF r
  <2>6. s.buffer \in Seq(Batches)
    BY DEF Records
  <2>7. /\ Len(s.buffer) \in Nat /\ Len(r.buffer) = Len(s.buffer) + 1
        /\ \A i \in 1..Len(s.buffer) : r.buffer[i] = s.buffer[i]
        /\ r.buffer[Len(s.buffer) + 1] = b
    BY <2>2, <2>5, <2>6, Extended
  <2>8. \A e : InHeld(r, e) <=> InHeld(s, e)
    BY <2>5 DEF InHeld
  <2>9. ASSUME NEW n \in Int, n <= Len(s.buffer) PROVE \A e : InBuffer(r, n, e) <=> InBuffer(s, n, e)
    BY <2>7, <2>9, SMTT(30) DEF InBuffer
  <2>10. \A e \in 0..s.current - 1 : e \in done \/ InHeld(r, e) \/ InBuffer(r, Len(s.buffer), e)
    BY <1>2, <2>7, <2>8, <2>9 DEF Covered
  <2>11. ASSUME NEW i \in 1..Len(r.buffer), NEW e \in 0..r.buffer[i].first - 1
         PROVE  e \in done \/ InHeld(r, e) \/ InBuffer(r, i - 1, e)
    <3>1. CASE i = Len(s.buffer) + 1
      BY <2>2, <2>7, <2>10, <2>11, <3>1
    <3>2. CASE i # Len(s.buffer) + 1
      <4>1. i \in 1..Len(s.buffer) /\ r.buffer[i] = s.buffer[i] /\ i - 1 <= Len(s.buffer) /\ i - 1 \in Int
        BY <2>7, <2>11, <3>2
      <4> QED  BY <2>8, <2>9, <2>11, <4>1 DEF Covered
    <3> QED  BY <3>1, <3>2
  <2>12. ASSUME NEW e \in 0..r.current - 1
         PROVE  e \in done \/ InHeld(r, e) \/ InBuffer(r, Len(r.buffer), e)
    <3>1. CASE e \in 0..s.current - 1
      BY <2>7, <2>10, <3>1 DEF InBuffer
    <3>2. CASE e \notin 0..s.current - 1
      <4>1. e \in b.first..b.last
        BY <2>1, <2>2, <2>5, <2>12, <3>2
      <4> QED  BY <2>7, <4>1 DEF InBuffer
    <3> QED  BY <3>1, <3>2
  <2>13. Covered(r, done)
    BY <2>5, <2>11, <2>12 DEF Covered
  <2> QED  BY <2>4, <2>5, <2>13
<1> QED  BY <1>1, <1>2

\* What was processed stays so.
LEMMA CoveredGrows ==
    ASSUME NEW s, NEW done, NEW more, done \subseteq more, Covered(s, done)
    PROVE  Covered(s, more)
BY DEF Covered

LEMMA CommitByOne ==
    ASSUME CommitInv, ForgottenInv', NEW c \in Consumers, OnlyMoves(c), processed \subseteq processed',
           Fresh(consumer'[c]), Alone(consumer'[c]) => Alone(consumer[c]),
           0..cursor \subseteq processed /\ Covered(consumer[c], processed) /\ Alone(consumer[c])
               /\ Alone(consumer'[c])
               => 0..cursor' \subseteq processed' /\ Covered(consumer'[c], processed')
    PROVE  CommitInv'
<1>1. \A d \in Consumers : Fresh(consumer'[d])
  BY DEF CommitInv, OnlyMoves
<1>2. ASSUME \A d \in Consumers : Alone(consumer'[d])
      PROVE  0..cursor' \subseteq processed' /\ \A d \in Consumers : Covered(consumer'[d], processed')
  <2>1. \A d \in Consumers : Alone(consumer[d])
    BY <1>2 DEF OnlyMoves
  <2>2. 0..cursor \subseteq processed /\ \A d \in Consumers : Covered(consumer[d], processed)
    BY <2>1 DEF CommitInv
  <2>3. \A d \in Consumers : Covered(consumer[d], processed')
    BY <2>2, CoveredGrows
  <2> QED  BY <1>2, <2>1, <2>2, <2>3 DEF OnlyMoves
<1> QED  BY <1>1, <1>2 DEF CommitInv, Fresh, Alone

LEMMA CommitInit == BatchSizeIsPositive /\ Init => CommitInv
<1> SUFFICES ASSUME BatchSizeIsPositive, Init PROVE CommitInv
  OBVIOUS
<1>1. ForgottenInv
  BY ForgottenInit
<1>2. Len(<<>>) = 0
  OBVIOUS
<1>3. Fresh(NotStarted) /\ Covered(NotStarted, processed)
  BY <1>2 DEF NotStarted, Fresh, Covered, Alone
<1> QED  BY <1>1, <1>3 DEF CommitInv, Init

LEMMA CommitStep == CommitInv /\ [Next]_vars => CommitInv'
<1> SUFFICES ASSUME CommitInv, [Next]_vars PROVE CommitInv'
  OBVIOUS
<1>a. Types /\ BatchSizeIsPositive /\ log \in Int /\ cursor \in Int /\ ForgottenInv /\ ForgottenInv'
  BY ForgottenStep DEF CommitInv, ForgottenInv, Types
<1>b. \A c \in Consumers : consumer[c] \in Records /\ Fresh(consumer[c])
  BY <1>a DEF CommitInv, Types
<1>1. CASE UNCHANGED vars
  BY <1>1, <1>a DEF vars, CommitInv, Covered, Fresh, Alone
<1>2. CASE AppendEvent
  <2>1. /\ log' = log + 1 /\ log' \in Int /\ cursor' = cursor /\ processed' = processed
        /\ consumer' = [c \in Consumers |-> Drive(consumer[c], log')]
    BY <1>2, <1>a DEF AppendEvent, append
  <2>2. ASSUME NEW c \in Consumers
        PROVE  /\ Alone(consumer'[c]) => Alone(consumer[c])
               /\ Fresh(consumer'[c])
               /\ Alone(consumer[c]) /\ Covered(consumer[c], processed) => Covered(consumer'[c], processed)
    <3> DEFINE s == consumer[c]
               b == Taken(s, log')
    <3>1. consumer'[c] = Drive(s, log') /\ s \in Records
      BY <1>b, <2>1
    <3>2. CASE adapter # "open" \/ s.status # "open" \/ s.current >= log'
      BY <1>b, <3>1, <3>2, DriveIs DEF Fresh, Alone
    <3>3. CASE ~(adapter # "open" \/ s.status # "open" \/ s.current >= log')
      <4>1. consumer'[c] = Send(Moved(s, log'), b) /\ s.status = "open"
        BY <3>1, <3>3, DriveIs
      <4>2. /\ consumer'[c].size = s.size /\ consumer'[c].limit = s.limit
            /\ consumer'[c].status = s.status
        BY <3>1, <4>1 DEF Send, Moved, Records
      <4> QED  BY <1>a, <2>1, <3>1, <4>1, <4>2, DriveCovers DEF Fresh, Alone
    <3> QED  BY <3>2, <3>3
  <2>3. \A c \in Consumers : Fresh(consumer[c])'
    BY <2>2 DEF Fresh, Alone
  <2>4. ASSUME \A c \in Consumers : Alone(consumer'[c])
        PROVE  0..cursor' \subseteq processed' /\ \A c \in Consumers : Covered(consumer'[c], processed')
    BY <2>1, <2>2, <2>4 DEF CommitInv
  <2>5. \A c \in Consumers : Alone(consumer[c])' <=> Alone(consumer'[c])
    BY DEF Alone
  <2>6. \A c \in Consumers : Covered(consumer[c], processed)' <=> Covered(consumer'[c], processed')
    BY DEF Covered, InHeld, InBuffer
  <2> QED  BY <1>a, <2>3, <2>4, <2>5, <2>6 DEF CommitInv
<1>3. CASE CloseAdapter \/ End
  BY <1>3, <1>a DEF CloseAdapter, End, CommitInv, Covered, Fresh, Alone
<1>4. ASSUME NEW c \in Consumers, Commit(c) PROVE CommitInv'
  BY <1>4, <1>a, <1>b, CommitByOne DEF Commit, commitCursor, OnlyMoves, Covered
<1>5. ASSUME NEW c \in Consumers, GetCommittedCursor(c) PROVE CommitInv'
  <2> DEFINE s == consumer[c]
             r == getCursor(s)
  <2>1. consumer' = [consumer EXCEPT ![c] = r] /\ UNCHANGED <<log, cursor, adapter, processed>>
    BY <1>5 DEF GetCommittedCursor
  <2>2. /\ r \in Records /\ r.saved = cursor /\ r.size = s.size /\ r.limit = s.limit
        /\ r.status = s.status /\ r.held = s.held /\ r.buffer = s.buffer /\ r.waiting = s.waiting
        /\ r.woken = s.woken /\ r.current = s.current
    BY <1>a, <1>b DEF getCursor, Records
  <2> HIDE DEF r
  <2>3. consumer'[c] = r /\ OnlyMoves(c)
    BY <1>a, <2>1, <2>2, ConsumerMoves
  <2>4. Fresh(r) /\ (Alone(r) <=> Alone(s))
    BY <1>b, <2>2 DEF Fresh, Alone
  <2>5. 0..cursor \subseteq processed /\ Covered(s, processed) => Covered(r, processed)
    BY <2>2 DEF Covered, InHeld, InBuffer
  <2> QED  BY <1>a, <2>1, <2>3, <2>4, <2>5, CommitByOne
<1>6. ASSUME NEW c \in Consumers, Consume(c) PROVE CommitInv'
  <2> DEFINE s == consumer[c]
  <2>1. PICK o \in Options, from \in {-1, s.saved} :
           /\ consumer' = [consumer EXCEPT
                   ![c] = consume([s EXCEPT !.size = o.size, !.limit = o.limit], from)]
           /\ UNCHANGED <<log, cursor, adapter, processed>> /\ s.status = "none"
    BY <1>6 DEF Consume
  <2> DEFINE begun == [[s EXCEPT !.size = o.size, !.limit = o.limit]
                          EXCEPT !.status = "open", !.saved = -1, !.start = from + 1,
                                 !.current = from + 1]
  <2>2. from \in Int /\ from + 1 \in Int /\ -1 \in Int
    BY <1>b DEF Records
  <2>3. begun \in Records /\ begun.status = "open" /\ begun.saved = -1 /\ begun.current = from + 1
        /\ begun.held = s.held /\ begun.buffer = s.buffer /\ begun.waiting = s.waiting
        /\ begun.woken = s.woken
    BY <1>b, <2>2 DEF Records, Statuses
  <2>4. consumer' = [consumer EXCEPT ![c] = Drive(begun, log)]
    BY <2>1 DEF consume
  <2> HIDE DEF begun
  <2>5. Drive(begun, log) \in Records
    BY <1>a, <2>3, DriveTypes
  <2>6. consumer'[c] = Drive(begun, log) /\ OnlyMoves(c)
    BY <1>a, <2>4, <2>5, ConsumerMoves
  <2>7. Alone(s) /\ s.buffer = <<>> /\ s.held = {} /\ s.waiting = <<>> /\ s.woken = <<>>
    BY <1>b, <2>1 DEF Fresh
  <2>8. Covered(s, processed) => Covered(begun, processed)
    BY <2>2, <2>3, <2>7 DEF Covered
  <2>9. /\ Drive(begun, log).size = begun.size /\ Drive(begun, log).limit = begun.limit
        /\ Drive(begun, log).status = "open"
    BY <2>3, DriveIs DEF Send, Moved, Records
  <2>10. Fresh(consumer'[c])
    BY <2>6, <2>9 DEF Fresh
  <2>11. Alone(consumer'[c]) => Alone(begun)
    BY <2>6, <2>9 DEF Alone
  <2>12. Covered(s, processed) /\ Alone(consumer'[c]) => Covered(consumer'[c], processed)
    BY <1>a, <2>3, <2>6, <2>8, <2>11, DriveCovers
  <2>13. processed' = processed /\ cursor' = cursor
    BY <2>1
  <2> HIDE DEF s
  <2> QED  BY <1>a, <2>6, <2>7, <2>10, <2>12, <2>13, CommitByOne DEF s
<1>7. ASSUME NEW c \in Consumers, Settle(c) PROVE CommitInv'
  <2> DEFINE s == consumer[c]
             r == [s EXCEPT !.settled = s.settled - 1]
  <2>1. /\ consumer' = [consumer EXCEPT ![c] = Drive(r, log)]
        /\ UNCHANGED <<log, cursor, adapter, processed>> /\ s.settled > 0
    BY <1>7 DEF Settle
  <2>2. s \in Records /\ s.settled - 1 \in Nat
    BY <1>b, <2>1 DEF Records
  <2>3. /\ r \in Records /\ r.saved = s.saved /\ r.size = s.size /\ r.limit = s.limit
        /\ r.status = s.status /\ r.held = s.held /\ r.buffer = s.buffer /\ r.waiting = s.waiting
        /\ r.woken = s.woken /\ r.current = s.current
    BY <2>2 DEF Records
  <2> HIDE DEF r
  <2>4. Drive(r, log) \in Records
    BY <1>a, <2>3, DriveTypes
  <2>5. consumer'[c] = Drive(r, log) /\ OnlyMoves(c)
    BY <1>a, <2>1, <2>4, ConsumerMoves
  <2>6. Covered(s, processed) => Covered(r, processed)
    BY <2>3 DEF Covered, InHeld, InBuffer
  <2>7. /\ Drive(r, log).size = s.size /\ Drive(r, log).limit = s.limit
        /\ Drive(r, log).status = s.status
    BY <2>3, DriveIs DEF Send, Moved, Records
  <2>8. s.status = "none" => Drive(r, log) = r
    BY <2>3, DriveIs
  <2>9. Fresh(Drive(r, log))
    BY <1>b, <2>3, <2>7, <2>8 DEF Fresh, Alone
  <2> QED  BY <1>a, <2>1, <2>3, <2>5, <2>6, <2>7, <2>9, DriveCovers, CommitByOne DEF Alone
<1>8. ASSUME NEW c \in Consumers, Resume(c) PROVE CommitInv'
  <2> DEFINE s == consumer[c]
             rest == [s EXCEPT !.woken = Tail(@)]
             sent == Send(rest, Head(s.woken))
             left == [s EXCEPT !.woken = Tail(@), !.settled = @ + 1]
  <2>1. /\ consumer' = [consumer EXCEPT ![c] = IF s.status = "open" THEN sent ELSE left]
        /\ UNCHANGED <<log, cursor, adapter, processed>> /\ s.woken # <<>>
    BY <1>8 DEF Resume
  <2>2. s \in Records
    BY <1>b
  <2>3. /\ sent.status = s.status /\ sent.size = s.size /\ sent.limit = s.limit
        /\ left.status = s.status /\ left.size = s.size /\ left.limit = s.limit
    BY <2>2 DEF Send, Records
  <2> HIDE DEF sent, left
  <2>4. /\ consumer'[c].status = s.status /\ consumer'[c].size = s.size
        /\ consumer'[c].limit = s.limit /\ OnlyMoves(c)
    BY <1>a, <2>1, <2>3 DEF Types, OnlyMoves
  <2>5. s.status # "none" /\ ~Covered(s, processed)
    BY <1>b, <2>1 DEF Fresh, Covered
  <2> QED  BY <1>a, <2>1, <2>4, <2>5, CommitByOne DEF Fresh, Alone
<1>9. ASSUME NEW c \in Consumers, Take(c) PROVE CommitInv'
  <2> DEFINE s == consumer[c]
             h == Head(s.buffer)
             r == [s EXCEPT !.buffer = Tail(@),
                            !.held = @ \cup {Head(s.buffer)},
                            !.delivered = Append(@, Head(s.buffer)),
                            !.woken = IF s.waiting = <<>> THEN @ ELSE Append(@, Head(s.waiting)),
                            !.waiting = IF @ = <<>> THEN @ ELSE Tail(@)]
  <2>1. /\ consumer' = [consumer EXCEPT ![c] = r] /\ UNCHANGED <<log, cursor, adapter, processed>>
        /\ s.buffer # <<>> /\ Cardinality(s.held) < s.limit
    BY <1>9 DEF Take
  <2>2. s \in Records /\ s.buffer \in Seq(Batches)
    BY <1>b DEF Records
  <2>3. /\ r.status = s.status /\ r.size = s.size /\ r.limit = s.limit /\ r.saved = s.saved
        /\ r.current = s.current /\ r.buffer = Tail(s.buffer) /\ r.held = s.held \cup {h}
        /\ s.waiting = <<>> => r.waiting = <<>> /\ r.woken = s.woken
    BY <2>2 DEF Records
  <2>4. consumer'[c] = r /\ OnlyMoves(c)
    BY <1>a, <2>1 DEF Types, OnlyMoves
  <2> HIDE DEF r
  <2>5. Fresh(r) /\ (Alone(r) <=> Alone(s))
    BY <1>b, <2>1, <2>3 DEF Fresh, Alone
  <2>6. ASSUME Alone(s), Covered(s, processed) PROVE Covered(r, processed)
    <3>1. s.held = {}
      <4>1. SUFFICES ASSUME NEW b \in s.held PROVE FALSE
        OBVIOUS
      <4>2. s.held = {b}
        BY <2>6, <4>1 DEF Covered
      <4>3. Cardinality(s.held) = 1
        BY <4>2, FS_Singleton
      <4> QED  BY <2>1, <2>6, <4>3 DEF Alone
    <3>2. /\ h = s.buffer[1] /\ Len(s.buffer) \in Nat /\ Len(s.buffer) >= 1
          /\ Len(r.buffer) = Len(s.buffer) - 1
          /\ \A i \in 1..Len(r.buffer) : r.buffer[i] = s.buffer[i + 1]
      BY <2>1, <2>2, <2>3, HeadTailProperties, LenProperties, EmptySeq
    <3> HIDE DEF h
    <3>3. \A e : InHeld(r, e) <=> e \in h.first..h.last
      BY <2>3, <3>1 DEF InHeld
    <3>4. ASSUME NEW n \in 0..Len(r.buffer), NEW e, InBuffer(s, n + 1, e)
          PROVE  InHeld(r, e) \/ InBuffer(r, n, e)
      <4>1. PICK i \in 1..n + 1 : e \in s.buffer[i].first..s.buffer[i].last
        BY <3>4 DEF InBuffer
      <4>2. CASE i = 1
        BY <3>2, <3>3, <4>1, <4>2
      <4>3. CASE i # 1
        <5>1. i - 1 \in 1..n /\ i - 1 \in 1..Len(r.buffer) /\ r.buffer[i - 1] = s.buffer[i]
          BY <3>2, <4>1, <4>3
        <5> QED  BY <4>1, <5>1 DEF InBuffer
      <4> QED  BY <4>2, <4>3
    <3>5. \A e : ~InHeld(s, e)
      BY <3>1 DEF InHeld
    <3>6. 0..h.first - 1 \subseteq processed
      <4>1. 1 \in 1..Len(s.buffer) /\ \A e : ~InBuffer(s, 1 - 1, e)
        BY <3>2 DEF InBuffer
      <4> QED  BY <2>6, <3>2, <3>5, <4>1 DEF Covered
    <3>7. ASSUME NEW i \in 1..Len(r.buffer), NEW e \in 0..r.buffer[i].first - 1
          PROVE  e \in processed \/ InHeld(r, e) \/ InBuffer(r, i - 1, e)
      <4>1. i + 1 \in 1..Len(s.buffer) /\ r.buffer[i] = s.buffer[i + 1] /\ i - 1 \in 0..Len(r.buffer)
            /\ (i + 1) - 1 = (i - 1) + 1
        BY <3>2, <3>7
      <4>2. e \in processed \/ InBuffer(s, (i - 1) + 1, e)
        BY <2>6, <3>5, <3>7, <4>1 DEF Covered
      <4> QED  BY <3>4, <4>1, <4>2
    <3>8. ASSUME r.status = "open", NEW e \in 0..r.current - 1
          PROVE  e \in processed \/ InHeld(r, e) \/ InBuffer(r, Len(r.buffer), e)
      <4>1. e \in processed \/ InBuffer(s, Len(s.buffer), e)
        BY <2>3, <2>6, <3>5, <3>8 DEF Covered
      <4>2. Len(s.buffer) = Len(r.buffer) + 1 /\ Len(r.buffer) \in 0..Len(r.buffer)
        BY <3>2
      <4> QED  BY <3>4, <4>1, <4>2
    <3>9. /\ r.waiting = <<>> /\ r.woken = <<>> /\ 0..r.saved \subseteq processed
          /\ \A b, d \in r.held : b = d
          /\ \A b \in r.held : 0..b.first - 1 \subseteq processed
      BY <2>3, <2>6, <3>1, <3>6 DEF Covered
    <3> QED  BY <3>7, <3>8, <3>9 DEF Covered
  <2> QED  BY <1>a, <2>1, <2>4, <2>5, <2>6, CommitByOne
<1>10. ASSUME NEW c \in Consumers, Finish(c) PROVE CommitInv'
  <2> DEFINE s == consumer[c]
  <2>1. PICK b \in s.held, commit \in BOOLEAN :
           /\ consumer' = [consumer EXCEPT ![c] = [s EXCEPT !.held = @ \ {b}]]
           /\ processed' = processed \cup (b.first..b.last)
           /\ cursor' = IF commit /\ adapter = "open" THEN CursorOf(b) ELSE cursor
           /\ UNCHANGED <<log, adapter>>
    BY <1>10 DEF Finish
  <2> DEFINE r == [s EXCEPT !.held = @ \ {b}]
  <2>2. /\ r.status = s.status /\ r.size = s.size /\ r.limit = s.limit /\ r.saved = s.saved
        /\ r.current = s.current /\ r.buffer = s.buffer /\ r.held = s.held \ {b}
        /\ r.waiting = s.waiting /\ r.woken = s.woken /\ s \in Records /\ b \in Batches
    BY <1>b DEF Records
  <2>3. consumer'[c] = r /\ OnlyMoves(c)
    BY <1>a, <2>1 DEF Types, OnlyMoves
  <2> HIDE DEF r
  <2>4. Fresh(r) /\ (Alone(r) <=> Alone(s))
    BY <1>b, <2>2 DEF Fresh, Alone
  <2>5. ASSUME 0..cursor \subseteq processed, Covered(s, processed)
        PROVE  0..cursor' \subseteq processed' /\ Covered(r, processed')
    <3>1. r.held = {} /\ 0..b.first - 1 \subseteq processed
      BY <2>2, <2>5 DEF Covered
    <3>2. 0..cursor' \subseteq processed'
      BY <2>1, <2>2, <2>5, <3>1 DEF CursorOf, Batches
    <3>3. \A e : InHeld(s, e) => e \in processed'
      BY <2>1, <2>5 DEF InHeld, Covered
    <3>4. \A n, e : InBuffer(s, n, e) <=> InBuffer(r, n, e)
      BY <2>2 DEF InBuffer
    <3>5. Covered(r, processed')
      BY <2>1, <2>2, <2>5, <3>1, <3>3, <3>4 DEF Covered
    <3> QED  BY <3>2, <3>5
  <2> QED  BY <1>a, <2>1, <2>3, <2>4, <2>5, CommitByOne
<1>11. ASSUME NEW c \in Consumers, CloseConsumer(c) PROVE CommitInv'
  <2> DEFINE s == consumer[c]
  <2>1. PICK rest \in {s.buffer, <<>>} :
          /\ consumer' = [consumer EXCEPT ![c] =
              [s EXCEPT !.status = "closed", !.buffer = rest,
                        !.woken = @ \o s.waiting, !.waiting = <<>>]]
          /\ UNCHANGED <<log, cursor, adapter, processed>>
    BY <1>11 DEF CloseConsumer
  <2> DEFINE r == [s EXCEPT !.status = "closed", !.buffer = rest,
                            !.woken = @ \o s.waiting, !.waiting = <<>>]
  <2>2. /\ r.status = "closed" /\ r.size = s.size /\ r.limit = s.limit /\ r.saved = s.saved
        /\ r.buffer = rest /\ r.held = s.held /\ r.waiting = <<>>
        /\ r.woken = s.woken \o s.waiting /\ s \in Records
    BY <1>b DEF Records
  <2>3. consumer'[c] = r /\ OnlyMoves(c)
    BY <1>a, <2>1 DEF Types, OnlyMoves
  <2> HIDE DEF r
  <2>4. Fresh(r) /\ (Alone(r) <=> Alone(s))
    BY <2>2 DEF Fresh, Alone
  <2>5. <<>> \o <<>> = <<>> /\ Len(<<>>) = 0
    OBVIOUS
  <2>6. Covered(s, processed) => Covered(r, processed)
    BY <2>2, <2>5 DEF Covered, InHeld, InBuffer
  <2> QED  BY <1>a, <2>1, <2>3, <2>4, <2>6, CommitByOne
<1> QED
  BY <1>1, <1>2, <1>3, <1>4, <1>5, <1>6, <1>7, <1>8, <1>9, <1>10, <1>11 DEF Next

\* Resuming from the committed cursor skips nothing: what it covers has been processed,
\* across late commits, closed consumers and consumers that begin anew, as long as all
\* of them handled one batch at a time from an unbounded buffer.
THEOREM CommitsAreHonest == BatchSizeIsPositive /\ Spec => []CommittedIsProcessed
<1>1. CommitInv => CommittedIsProcessed
  BY DEF CommitInv, Alone, CommittedIsProcessed
<1> QED  BY <1>1, CommitInit, CommitStep, PTL DEF Spec

-----------------------------------------------------------------------------
(* The batches of a consumer. *)

\* Where a batch may be: given out, in the buffer, in a blocked send, in a woken one.
Queues == 1..4
QueuesOf(s) == <<s.delivered, s.buffer, s.waiting, s.woken>>

Before(b, d) == b.last < d.first

\* The batches in the queues of Q are the events lo..hi - 1, each of them once.
Tiled(Q, lo, hi) ==
    /\ lo <= hi
    /\ \A q \in Queues : \A i \in 1..Len(Q[q]) :
           lo <= Q[q][i].first /\ Q[q][i].first <= Q[q][i].last /\ Q[q][i].last < hi
    /\ \A e \in lo..hi - 1 : \E q \in Queues : \E i \in 1..Len(Q[q]) :
           Q[q][i].first <= e /\ e <= Q[q][i].last
    /\ \A q, r \in Queues : \A i \in 1..Len(Q[q]), j \in 1..Len(Q[r]) :
           q # r \/ i # j => Before(Q[q][i], Q[r][j]) \/ Before(Q[r][j], Q[q][i])

AreQueues(Q) == \A q \in Queues : Q[q] \in Seq(Batches)

\* The next batch is put at the end of some queue.
LEMMA TiledByNext ==
    ASSUME NEW Q, NEW R, AreQueues(Q), NEW lo \in Int, NEW hi \in Int, Tiled(Q, lo, hi),
           NEW b \in Batches, b.first = hi, b.last >= hi,
           NEW to \in Queues, R[to] = Append(Q[to], b), \A q \in Queues \ {to} : R[q] = Q[q]
    PROVE  Tiled(R, lo, b.last + 1)
<1>1. /\ Len(Q[to]) \in Nat /\ Len(R[to]) = Len(Q[to]) + 1
      /\ \A i \in 1..Len(Q[to]) : R[to][i] = Q[to][i]
      /\ R[to][Len(Q[to]) + 1] = b
  BY Extended DEF AreQueues
<1>2. b.last \in Int
  BY DEF Batches
<1>3. ASSUME NEW q \in Queues, NEW i \in 1..Len(R[q])
      PROVE  IF q = to /\ i = Len(Q[to]) + 1 THEN R[q][i] = b
             ELSE i \in 1..Len(Q[q]) /\ R[q][i] = Q[q][i] /\ Q[q][i] \in Batches
  <2>1. Q[q] \in Seq(Batches) /\ Len(Q[q]) \in Nat
    BY LenProperties DEF AreQueues
  <2>2. \A k \in 1..Len(Q[q]) : Q[q][k] \in Batches
    BY <2>1, ElementOfSeq
  <2>3. CASE q = to
    BY <1>1, <2>2, <2>3
  <2>4. CASE q # to
    BY <2>2, <2>4
  <2> QED  BY <2>3, <2>4
<1>4. \A q \in Queues : \A i \in 1..Len(Q[q]) : i \in 1..Len(R[q]) /\ R[q][i] = Q[q][i]
  BY <1>1, SMTT(30)
<1>5. lo <= b.last + 1
  BY <1>2 DEF Tiled
<1>6. ASSUME NEW q \in Queues, NEW i \in 1..Len(R[q])
      PROVE  lo <= R[q][i].first /\ R[q][i].first <= R[q][i].last /\ R[q][i].last < b.last + 1
  <2>1. CASE q = to /\ i = Len(Q[to]) + 1
    BY <1>2, <1>3, <2>1 DEF Tiled
  <2>2. CASE ~(q = to /\ i = Len(Q[to]) + 1)
    <3>1. i \in 1..Len(Q[q]) /\ R[q][i] = Q[q][i] /\ Q[q][i].first \in Int /\ Q[q][i].last \in Int
      BY <1>3, <2>2 DEF Batches
    <3> QED  BY <1>2, <3>1 DEF Tiled
  <2> QED  BY <2>1, <2>2
<1>7. ASSUME NEW e \in lo..b.last PROVE \E q \in Queues : \E i \in 1..Len(R[q]) :
           R[q][i].first <= e /\ e <= R[q][i].last
  <2>1. CASE e >= hi
    <3>1. Len(Q[to]) + 1 \in 1..Len(R[to])
      BY <1>1
    <3> QED  BY <1>1, <2>1, <3>1
  <2>2. CASE e < hi
    <3>1. PICK q \in Queues : \E i \in 1..Len(Q[q]) : Q[q][i].first <= e /\ e <= Q[q][i].last
      BY <1>2, <2>2 DEF Tiled
    <3>2. PICK i \in 1..Len(Q[q]) : Q[q][i].first <= e /\ e <= Q[q][i].last
      BY <3>1
    <3> QED  BY <1>4, <3>2
  <2> QED  BY <1>2, <2>1, <2>2
<1>8. ASSUME NEW q \in Queues, NEW r \in Queues, NEW i \in 1..Len(R[q]), NEW j \in 1..Len(R[r]),
             q # r \/ i # j
      PROVE  Before(R[q][i], R[r][j]) \/ Before(R[r][j], R[q][i])
  <2> DEFINE New(p, k) == p = to /\ k = Len(Q[to]) + 1
  <2>1. CASE ~New(q, i) /\ ~New(r, j)
    <3>1. i \in 1..Len(Q[q]) /\ R[q][i] = Q[q][i] /\ j \in 1..Len(Q[r]) /\ R[r][j] = Q[r][j]
      BY <1>3, <2>1
    <3> QED  BY <1>8, <3>1 DEF Tiled
  <2>2. CASE New(q, i)
    <3>1. R[q][i] = b /\ ~New(r, j)
      BY <1>1, <1>8, <2>2
    <3>2. j \in 1..Len(Q[r]) /\ R[r][j] = Q[r][j]
      BY <1>3, <3>1
    <3> QED  BY <3>1, <3>2 DEF Tiled, Before
  <2>3. CASE New(r, j) /\ ~New(q, i)
    <3>1. R[r][j] = b /\ i \in 1..Len(Q[q]) /\ R[q][i] = Q[q][i]
      BY <1>1, <1>3, <2>3
    <3> QED  BY <3>1 DEF Tiled, Before
  <2> QED  BY <2>1, <2>2, <2>3
<1>9. lo..(b.last + 1) - 1 = lo..b.last
  BY <1>2
<1> QED  BY <1>5, <1>6, <1>7, <1>8, <1>9 DEF Tiled

\* The first batch of one queue moves to the end of another.
LEMMA TiledByMove ==
    ASSUME NEW Q, NEW R, AreQueues(Q), NEW lo, NEW hi, Tiled(Q, lo, hi),
           NEW from \in Queues, NEW to \in Queues, from # to, Q[from] # <<>>,
           R[from] = Tail(Q[from]), R[to] = Append(Q[to], Head(Q[from])),
           \A q \in Queues \ {from, to} : R[q] = Q[q]
    PROVE  Tiled(R, lo, hi) /\ AreQueues(R)
<1>1. /\ Len(Q[from]) \in Nat \ {0} /\ Len(R[from]) = Len(Q[from]) - 1
      /\ \A i \in 1..Len(R[from]) : R[from][i] = Q[from][i + 1]
      /\ Head(Q[from]) = Q[from][1] /\ Head(Q[from]) \in Batches
      /\ R[from] \in Seq(Batches)
  BY HeadTailProperties, EmptySeq, LenProperties DEF AreQueues
<1>2. /\ Len(Q[to]) \in Nat /\ Len(R[to]) = Len(Q[to]) + 1
      /\ \A i \in 1..Len(Q[to]) : R[to][i] = Q[to][i]
      /\ R[to][Len(Q[to]) + 1] = Q[from][1]
      /\ R[to] \in Seq(Batches)
  BY <1>1, Extended, AppendProperties DEF AreQueues
<1> DEFINE IsMoved(q, i) == q = to /\ i = Len(Q[to]) + 1
           Where(q, i) == IF IsMoved(q, i) THEN from ELSE q
           At(q, i) == IF IsMoved(q, i) THEN 1 ELSE IF q = from THEN i + 1 ELSE i
<1>3. ASSUME NEW q \in Queues, NEW i \in 1..Len(R[q])
      PROVE  Where(q, i) \in Queues /\ At(q, i) \in 1..Len(Q[Where(q, i)])
             /\ R[q][i] = Q[Where(q, i)][At(q, i)]
  <2>1. CASE q = from
    <3>1. Where(q, i) = from /\ At(q, i) = i + 1
      BY <2>1
    <3>2. i \in 1..Len(Q[from]) - 1 /\ R[q][i] = Q[from][i + 1]
      BY <1>1, <2>1
    <3> QED  BY <1>1, <3>1, <3>2
  <2>2. CASE q = to /\ i = Len(Q[to]) + 1
    BY <1>1, <1>2, <2>2
  <2>3. CASE q = to /\ i # Len(Q[to]) + 1
    <3>1. i \in 1..Len(Q[to])
      BY <1>2, <2>3
    <3> QED  BY <1>2, <2>3, <3>1
  <2>4. CASE q # from /\ q # to
    BY <2>4
  <2> QED  BY <2>1, <2>2, <2>3, <2>4
<1>4. ASSUME NEW q \in Queues, NEW i \in 1..Len(R[q]), NEW r \in Queues, NEW j \in 1..Len(R[r]),
             q # r \/ i # j
      PROVE  Where(q, i) # Where(r, j) \/ At(q, i) # At(r, j)
  BY <1>1, <1>2, <1>4
<1>5. ASSUME NEW r \in Queues, NEW j \in 1..Len(Q[r])
      PROVE  \E q \in Queues : \E i \in 1..Len(R[q]) : R[q][i] = Q[r][j]
  <2>1. CASE r = from /\ j = 1
    <3>1. Len(Q[to]) + 1 \in 1..Len(R[to])
      BY <1>2
    <3> QED  BY <1>2, <2>1, <3>1
  <2>2. CASE r = from /\ j # 1
    <3>1. j - 1 \in 1..Len(R[from]) /\ R[from][j - 1] = Q[from][j]
      BY <1>1, <2>2
    <3> QED  BY <2>2, <3>1
  <2>3. CASE r = to
    <3>1. j \in 1..Len(R[to]) /\ R[to][j] = Q[to][j]
      BY <1>2, <2>3
    <3> QED  BY <2>3, <3>1
  <2>4. CASE r # from /\ r # to
    BY <2>4
  <2> QED  BY <2>1, <2>2, <2>3, <2>4
<1>6. AreQueues(R)
  BY <1>1, <1>2 DEF AreQueues
<1> HIDE DEF Where, At
<1>7. \A q \in Queues : \A i \in 1..Len(R[q]) :
           lo <= R[q][i].first /\ R[q][i].first <= R[q][i].last /\ R[q][i].last < hi
  <2> TAKE q \in Queues
  <2> TAKE i \in 1..Len(R[q])
  <2>1. PICK a \in Queues : \E m \in 1..Len(Q[a]) : R[q][i] = Q[a][m]
    BY <1>3
  <2>2. PICK m \in 1..Len(Q[a]) : R[q][i] = Q[a][m]
    BY <2>1
  <2> QED  BY <2>2 DEF Tiled
<1>8. \A e \in lo..hi - 1 : \E q \in Queues : \E i \in 1..Len(R[q]) :
           R[q][i].first <= e /\ e <= R[q][i].last
  <2> TAKE e \in lo..hi - 1
  <2>1. PICK r \in Queues : \E j \in 1..Len(Q[r]) : Q[r][j].first <= e /\ e <= Q[r][j].last
    BY DEF Tiled
  <2>2. PICK j \in 1..Len(Q[r]) : Q[r][j].first <= e /\ e <= Q[r][j].last
    BY <2>1
  <2> QED  BY <1>5, <2>2
<1>9. ASSUME NEW q \in Queues, NEW r \in Queues, NEW i \in 1..Len(R[q]), NEW j \in 1..Len(R[r]),
             q # r \/ i # j
      PROVE  Before(R[q][i], R[r][j]) \/ Before(R[r][j], R[q][i])
  <2> DEFINE a == Where(q, i)
             b == Where(r, j)
             m == At(q, i)
             n == At(r, j)
  <2>1. /\ a \in Queues /\ b \in Queues /\ m \in 1..Len(Q[a]) /\ n \in 1..Len(Q[b])
        /\ R[q][i] = Q[a][m] /\ R[r][j] = Q[b][n]
    BY <1>3
  <2>2. a # b \/ m # n
    BY <1>4, <1>9
  <2> HIDE DEF a, b, m, n
  <2> QED  BY <2>1, <2>2 DEF Tiled
<1> QED  BY <1>6, <1>7, <1>8, <1>9 DEF Tiled

LEMMA TheQueues ==
    ASSUME NEW s \in Records
    PROVE  /\ AreQueues(QueuesOf(s))
           /\ QueuesOf(s)[1] = s.delivered /\ QueuesOf(s)[2] = s.buffer
           /\ QueuesOf(s)[3] = s.waiting /\ QueuesOf(s)[4] = s.woken
<1>1. /\ s.delivered \in Seq(Batches) /\ s.buffer \in Seq(Batches)
      /\ s.waiting \in Seq(Batches) /\ s.woken \in Seq(Batches)
  BY DEF Records
<1>2. /\ QueuesOf(s)[1] = s.delivered /\ QueuesOf(s)[2] = s.buffer
      /\ QueuesOf(s)[3] = s.waiting /\ QueuesOf(s)[4] = s.woken
  BY DEF QueuesOf
<1>3. \A q \in Queues : q = 1 \/ q = 2 \/ q = 3 \/ q = 4
  BY DEF Queues
<1> QED  BY <1>1, <1>2, <1>3 DEF AreQueues

\* The drives of an open consumer have cut up what is behind them.
Tiles(s) == s.status = "open" => Tiled(QueuesOf(s), s.start, s.current)

Untouched(s) == s.status = "none" => \A q \in Queues : QueuesOf(s)[q] = <<>>

TilesInv == ForgottenInv /\ \A c \in Consumers : Tiles(consumer[c]) /\ Untouched(consumer[c])

\* A batch that is sent is put at the end of the buffer, or of the blocked sends.
LEMMA SendPuts ==
    ASSUME NEW s \in Records, NEW b \in Batches
    PROVE  /\ Send(s, b).status = s.status /\ Send(s, b).start = s.start
           /\ Send(s, b).current = s.current
           /\ \E to \in {2, 3} : /\ QueuesOf(Send(s, b))[to] = Append(QueuesOf(s)[to], b)
                                 /\ \A q \in Queues \ {to} : QueuesOf(Send(s, b))[q] = QueuesOf(s)[q]
<1> DEFINE r == Send(s, b)
<1>1. \A q \in Queues : q = 1 \/ q = 2 \/ q = 3 \/ q = 4
  BY DEF Queues
<1>2. r \in Records
  BY SendTypes
<1>3. CASE HasRoom(s)
  <2>1. /\ r.status = s.status /\ r.start = s.start /\ r.current = s.current
        /\ r.buffer = Append(s.buffer, b) /\ r.delivered = s.delivered
        /\ r.waiting = s.waiting /\ r.woken = s.woken
    BY <1>3 DEF Send, Records
  <2> HIDE DEF r
  <2>2. \A q \in Queues \ {2} : QueuesOf(r)[q] = QueuesOf(s)[q]
    BY <1>1, <1>2, <2>1, TheQueues
  <2> QED  BY <1>2, <2>1, <2>2, TheQueues DEF r
<1>4. CASE ~HasRoom(s)
  <2>1. /\ r.status = s.status /\ r.start = s.start /\ r.current = s.current
        /\ r.waiting = Append(s.waiting, b) /\ r.delivered = s.delivered
        /\ r.buffer = s.buffer /\ r.woken = s.woken
    BY <1>4 DEF Send, Records
  <2> HIDE DEF r
  <2>2. \A q \in Queues \ {3} : QueuesOf(r)[q] = QueuesOf(s)[q]
    BY <1>1, <1>2, <2>1, TheQueues
  <2> QED  BY <1>2, <2>1, <2>2, TheQueues DEF r
<1> QED  BY <1>3, <1>4

LEMMA SameTiles ==
    ASSUME NEW s, NEW r, Tiles(s), Untouched(s), r.status = s.status, r.start = s.start,
           r.current = s.current, r.delivered = s.delivered, r.buffer = s.buffer,
           r.waiting = s.waiting, r.woken = s.woken
    PROVE  Tiles(r) /\ Untouched(r)
<1>1. QueuesOf(r) = QueuesOf(s)
  BY DEF QueuesOf
<1> QED  BY <1>1 DEF Tiles, Untouched

LEMMA DriveTiles ==
    ASSUME BatchSizeIsPositive, NEW s \in Records, NEW length \in Int, Tiles(s), Untouched(s)
    PROVE  Tiles(Drive(s, length)) /\ Untouched(Drive(s, length))
<1> DEFINE b == Taken(s, length)
           r == Moved(s, length)
           t == Send(r, b)
<1>1. CASE adapter # "open" \/ s.status # "open" \/ s.current >= length
  BY <1>1, DriveIs
<1>2. CASE ~(adapter # "open" \/ s.status # "open" \/ s.current >= length)
  <2>1. s.current \in Int /\ s.start \in Int /\ BatchSize \in Int
    BY DEF Records, BatchSizeIsPositive
  <2>2. b \in Batches /\ b.first = s.current /\ b.last >= s.current /\ b.last \in Int
    BY <1>2, <2>1 DEF Taken, Batches, BatchSizeIsPositive
  <2> HIDE DEF b
  <2>3. /\ r \in Records /\ r.status = "open" /\ r.start = s.start /\ r.current = b.last + 1
        /\ r.delivered = s.delivered /\ r.buffer = s.buffer /\ r.waiting = s.waiting
        /\ r.woken = s.woken
    <3>1. r = [s EXCEPT !.current = b.last + 1] /\ b.last + 1 \in Int
      BY <2>2 DEF b, Moved
    <3> HIDE DEF r
    <3> QED  BY <1>2, <3>1 DEF Records
  <2>4. QueuesOf(r) = QueuesOf(s)
    BY <2>3 DEF QueuesOf
  <2> HIDE DEF r
  <2>5. /\ t.status = "open" /\ t.start = s.start /\ t.current = b.last + 1
        /\ \E to \in {2, 3} : /\ QueuesOf(t)[to] = Append(QueuesOf(s)[to], b)
                              /\ \A q \in Queues \ {to} : QueuesOf(t)[q] = QueuesOf(s)[q]
    BY <2>2, <2>3, <2>4, SendPuts
  <2> HIDE DEF t
  <2>6. PICK to \in {2, 3} : /\ QueuesOf(t)[to] = Append(QueuesOf(s)[to], b)
                             /\ \A q \in Queues \ {to} : QueuesOf(t)[q] = QueuesOf(s)[q]
    BY <2>5
  <2>7. to \in Queues /\ AreQueues(QueuesOf(s)) /\ Tiled(QueuesOf(s), s.start, s.current)
    BY <1>2, TheQueues DEF Queues, Tiles
  <2>8. Tiled(QueuesOf(t), s.start, b.last + 1)
    BY <2>1, <2>2, <2>6, <2>7, TiledByNext
  <2>9. Drive(s, length) = t
    BY <1>2, DriveIs DEF t, r, b
  <2> QED  BY <2>5, <2>8, <2>9 DEF Tiles, Untouched
<1> QED  BY <1>1, <1>2

LEMMA OthersTile ==
    ASSUME TilesInv, ForgottenInv', NEW c \in Consumers, OnlyMoves(c),
           Tiles(consumer'[c]), Untouched(consumer'[c])
    PROVE  TilesInv'
<1>1. \A d \in Consumers : Tiles(consumer'[d]) /\ Untouched(consumer'[d])
  BY DEF TilesInv, OnlyMoves
<1> QED  BY <1>1 DEF TilesInv, Tiles, Untouched

LEMMA TilesInit == BatchSizeIsPositive /\ Init => TilesInv
<1> SUFFICES ASSUME BatchSizeIsPositive, Init PROVE TilesInv
  OBVIOUS
<1>1. NotStarted \in Records
  BY EmptySeq DEF NotStarted, Records, Statuses
<1>2. NotStarted.status = "none" /\ \A q \in Queues : QueuesOf(NotStarted)[q] = <<>>
  BY DEF NotStarted, Queues, QueuesOf
<1> QED  BY <1>2, ForgottenInit DEF TilesInv, Init, Tiles, Untouched

LEMMA TilesStep == TilesInv /\ [Next]_vars => TilesInv'
<1> SUFFICES ASSUME TilesInv, [Next]_vars PROVE TilesInv'
  OBVIOUS
<1>a. ForgottenInv /\ ForgottenInv' /\ BatchSizeIsPositive /\ log \in Int /\ log' \in Int /\ cursor \in Int
  BY ForgottenStep DEF TilesInv, ForgottenInv, Types
<1>b. \A c \in Consumers : /\ consumer[c] \in Records /\ consumer'[c] \in Records
                           /\ Tiles(consumer[c]) /\ Untouched(consumer[c])
  BY <1>a DEF TilesInv, ForgottenInv, Types
<1>1. CASE consumer' = consumer
  BY <1>1, <1>a DEF TilesInv, Tiles, Untouched
<1>2. CASE AppendEvent
  <2>1. adapter' = adapter /\ \A c \in Consumers : consumer'[c] = Drive(consumer[c], log')
    BY <1>2 DEF AppendEvent, append
  <2>2. \A c \in Consumers : Tiles(consumer'[c]) /\ Untouched(consumer'[c])
    BY <1>a, <1>b, <2>1, DriveTiles
  <2> QED  BY <1>a, <2>2 DEF TilesInv, Tiles, Untouched
<1>4. ASSUME NEW c \in Consumers, GetCommittedCursor(c) PROVE TilesInv'
  <2> DEFINE r == getCursor(consumer[c])
  <2>1. consumer' = [consumer EXCEPT ![c] = r]
    BY <1>4 DEF GetCommittedCursor
  <2>2. /\ r \in Records /\ r.status = consumer[c].status /\ r.start = consumer[c].start
        /\ r.current = consumer[c].current /\ r.delivered = consumer[c].delivered
        /\ r.buffer = consumer[c].buffer /\ r.waiting = consumer[c].waiting
        /\ r.woken = consumer[c].woken
    BY <1>a, <1>b DEF getCursor, Records
  <2> HIDE DEF r
  <2>3. Tiles(r) /\ Untouched(r)
    BY <1>b, <2>2, SameTiles
  <2> QED  BY <1>a, <2>1, <2>2, <2>3, ConsumerMoves, OthersTile
<1>5. ASSUME NEW c \in Consumers, Consume(c) PROVE TilesInv'
  <2>1. PICK o \in Options, from \in {-1, consumer[c].saved} :
           consumer' = [consumer EXCEPT
                   ![c] = consume([consumer[c] EXCEPT !.size = o.size, !.limit = o.limit], from)]
    BY <1>5 DEF Consume
  <2> DEFINE begun == [[consumer[c] EXCEPT !.size = o.size, !.limit = o.limit]
                          EXCEPT !.status = "open", !.saved = -1, !.start = from + 1,
                                 !.current = from + 1]
  <2>2. from + 1 \in Int /\ -1 \in Int
    BY <1>b DEF Records
  <2>3. begun \in Records
    BY <1>b, <2>2 DEF Records, Statuses
  <2>4. consumer' = [consumer EXCEPT ![c] = Drive(begun, log)]
    BY <2>1 DEF consume
  <2>5. /\ begun.status = "open" /\ begun.start = from + 1 /\ begun.current = from + 1
        /\ begun.delivered = consumer[c].delivered /\ begun.buffer = consumer[c].buffer
        /\ begun.waiting = consumer[c].waiting /\ begun.woken = consumer[c].woken
    BY <1>b DEF Records
  <2> HIDE DEF begun
  <2>6. QueuesOf(begun) = QueuesOf(consumer[c])
    BY <2>5 DEF QueuesOf
  <2>7. \A q \in Queues : QueuesOf(begun)[q] = <<>> /\ Len(QueuesOf(begun)[q]) = 0
    BY <1>5, <1>b, <2>6, EmptySeq DEF Consume, Untouched
  <2>8. Tiled(QueuesOf(begun), begun.start, begun.current)
    BY <2>2, <2>5, <2>7 DEF Tiled
  <2>9. Tiles(begun) /\ Untouched(begun)
    BY <2>5, <2>8 DEF Tiles, Untouched
  <2>10. Tiles(Drive(begun, log)) /\ Untouched(Drive(begun, log)) /\ Drive(begun, log) \in Records
    BY <1>a, <2>3, <2>9, DriveTiles, DriveTypes
  <2> QED  BY <1>a, <2>4, <2>10, ConsumerMoves, OthersTile
<1>6. ASSUME NEW c \in Consumers, Settle(c) PROVE TilesInv'
  <2> DEFINE s == [consumer[c] EXCEPT !.settled = consumer[c].settled - 1]
  <2>1. consumer' = [consumer EXCEPT ![c] = Drive(s, log)] /\ consumer[c].settled > 0
    BY <1>6 DEF Settle
  <2>2. /\ s \in Records /\ s.status = consumer[c].status /\ s.start = consumer[c].start
        /\ s.current = consumer[c].current /\ s.delivered = consumer[c].delivered
        /\ s.buffer = consumer[c].buffer /\ s.waiting = consumer[c].waiting
        /\ s.woken = consumer[c].woken
    <3>1. consumer[c].settled - 1 \in Nat
      BY <1>b, <2>1 DEF Records
    <3> QED  BY <1>b, <3>1 DEF Records
  <2> HIDE DEF s
  <2>3. Tiles(s) /\ Untouched(s)
    BY <1>b, <2>2, SameTiles
  <2>4. Tiles(Drive(s, log)) /\ Untouched(Drive(s, log)) /\ Drive(s, log) \in Records
    BY <1>a, <2>2, <2>3, DriveTiles, DriveTypes
  <2> QED  BY <1>a, <2>1, <2>4, ConsumerMoves, OthersTile
<1>7. ASSUME NEW c \in Consumers, Resume(c) PROVE TilesInv'
  <2> DEFINE s == consumer[c]
             rest == [s EXCEPT !.woken = Tail(@)]
             sent == Send(rest, Head(s.woken))
             left == [s EXCEPT !.woken = Tail(@), !.settled = @ + 1]
  <2>1. /\ consumer' = [consumer EXCEPT ![c] = IF s.status = "open" THEN sent ELSE left]
        /\ s.woken # <<>>
    BY <1>7 DEF Resume
  <2>2. /\ Head(s.woken) \in Batches /\ Tail(s.woken) \in Seq(Batches)
        /\ s \in Records /\ s.settled + 1 \in Nat
    <3>1. s \in Records /\ s.woken \in Seq(Batches) /\ s.settled + 1 \in Nat
      BY <1>b DEF Records
    <3> QED  BY <2>1, <3>1, Shortened
  <2>3. s.status # "none"
    BY <1>b, <2>1, <2>2, TheQueues DEF Untouched, Queues
  <2>4. /\ rest \in Records /\ rest.status = s.status /\ rest.start = s.start
        /\ rest.current = s.current /\ rest.delivered = s.delivered /\ rest.buffer = s.buffer
        /\ rest.waiting = s.waiting /\ rest.woken = Tail(s.woken)
    BY <2>2 DEF Records
  <2>5. left \in Records /\ left.status = s.status
    BY <2>2 DEF Records
  <2> HIDE DEF s, rest, left
  <2>6. CASE s.status # "open"
    <3>1. Tiles(left) /\ Untouched(left)
      BY <2>3, <2>5, <2>6 DEF Tiles, Untouched
    <3>2. consumer' = [consumer EXCEPT ![c] = left]
      BY <2>1, <2>6
    <3> QED  BY <1>a, <2>5, <3>1, <3>2, ConsumerMoves, OthersTile
  <2>7. CASE s.status = "open"
    <3>1. /\ sent \in Records /\ sent.status = s.status /\ sent.start = s.start
          /\ sent.current = s.current
          /\ \E to \in {2, 3} :
                /\ QueuesOf(sent)[to] = Append(QueuesOf(rest)[to], Head(s.woken))
                /\ \A q \in Queues \ {to} : QueuesOf(sent)[q] = QueuesOf(rest)[q]
      BY <2>2, <2>4, SendPuts, SendTypes
    <3> HIDE DEF sent
    <3>2. PICK to \in {2, 3} :
                /\ QueuesOf(sent)[to] = Append(QueuesOf(rest)[to], Head(s.woken))
                /\ \A q \in Queues \ {to} : QueuesOf(sent)[q] = QueuesOf(rest)[q]
      BY <3>1
    <3>3. \A q \in Queues \ {4} : QueuesOf(rest)[q] = QueuesOf(s)[q]
      BY <2>2, <2>4, TheQueues DEF Queues
    <3>4. QueuesOf(rest)[4] = Tail(QueuesOf(s)[4]) /\ QueuesOf(s)[4] = s.woken
      BY <2>2, <2>4, TheQueues
    <3>5. /\ to \in Queues /\ 4 \in Queues /\ 4 # to /\ QueuesOf(s)[4] # <<>>
          /\ QueuesOf(sent)[4] = Tail(QueuesOf(s)[4])
          /\ QueuesOf(sent)[to] = Append(QueuesOf(s)[to], Head(QueuesOf(s)[4]))
          /\ \A q \in Queues \ {4, to} : QueuesOf(sent)[q] = QueuesOf(s)[q]
      BY <2>1, <3>2, <3>3, <3>4 DEF Queues
    <3>6. AreQueues(QueuesOf(s)) /\ Tiled(QueuesOf(s), s.start, s.current)
      BY <1>b, <2>2, <2>7, TheQueues DEF Tiles, s
    <3>7. Tiled(QueuesOf(sent), s.start, s.current)
      BY <3>5, <3>6, TiledByMove
    <3>8. Tiles(sent) /\ Untouched(sent)
      BY <2>7, <3>1, <3>7 DEF Tiles, Untouched
    <3>9. consumer' = [consumer EXCEPT ![c] = sent]
      BY <2>1, <2>7
    <3> QED  BY <1>a, <3>1, <3>8, <3>9, ConsumerMoves, OthersTile
  <2> QED  BY <2>6, <2>7
<1>8. ASSUME NEW c \in Consumers, Take(c) PROVE TilesInv'
  <2> DEFINE s == consumer[c]
             given == [s EXCEPT !.buffer = Tail(@),
                                !.held = @ \cup {Head(s.buffer)},
                                !.delivered = Append(@, Head(s.buffer))]
             taken == [s EXCEPT !.buffer = Tail(@),
                                !.held = @ \cup {Head(s.buffer)},
                                !.delivered = Append(@, Head(s.buffer)),
                                !.woken = IF s.waiting = <<>> THEN @ ELSE Append(@, Head(s.waiting)),
                                !.waiting = IF @ = <<>> THEN @ ELSE Tail(@)]
  <2>1. consumer' = [consumer EXCEPT ![c] = taken] /\ s.buffer # <<>>
    BY <1>8 DEF Take
  <2>2. /\ Head(s.buffer) \in Batches /\ Tail(s.buffer) \in Seq(Batches)
        /\ Append(s.delivered, Head(s.buffer)) \in Seq(Batches) /\ s \in Records
    BY <1>b, <2>1, Shortened, Appended DEF Records
  <2>3. /\ given \in Records /\ given.buffer = Tail(s.buffer)
        /\ given.delivered = Append(s.delivered, Head(s.buffer))
        /\ given.waiting = s.waiting /\ given.woken = s.woken
    BY <2>2 DEF Records
  <2>4. taken = consumer'[c] /\ taken \in Records
    BY <1>b, <2>1, <1>a DEF ForgottenInv, Types
  <2>5. /\ taken.status = s.status /\ taken.start = s.start /\ taken.current = s.current
        /\ taken.buffer = Tail(s.buffer) /\ taken.delivered = Append(s.delivered, Head(s.buffer))
        /\ taken.waiting = IF s.waiting = <<>> THEN s.waiting ELSE Tail(s.waiting)
        /\ taken.woken = IF s.waiting = <<>> THEN s.woken ELSE Append(s.woken, Head(s.waiting))
    BY <2>2 DEF Records
  <2> HIDE DEF s, given, taken
  <2>6. s.status # "none"
    BY <1>b, <2>1, <2>2, TheQueues DEF Untouched, Queues, s
  <2>7. CASE s.status # "open"
    BY <1>a, <2>4, <2>5, <2>6, <2>7, <2>1, ConsumerMoves, OthersTile DEF Tiles, Untouched
  <2>8. CASE s.status = "open"
    <3>1. AreQueues(QueuesOf(s)) /\ Tiled(QueuesOf(s), s.start, s.current)
      BY <1>b, <2>2, <2>8, TheQueues DEF Tiles, s
    <3>2. /\ QueuesOf(s)[2] # <<>> /\ QueuesOf(given)[2] = Tail(QueuesOf(s)[2])
          /\ QueuesOf(given)[1] = Append(QueuesOf(s)[1], Head(QueuesOf(s)[2]))
          /\ \A q \in Queues \ {2, 1} : QueuesOf(given)[q] = QueuesOf(s)[q]
          /\ 1 \in Queues /\ 2 \in Queues
      <4>1. /\ QueuesOf(s)[1] = s.delivered /\ QueuesOf(s)[2] = s.buffer
            /\ QueuesOf(s)[3] = s.waiting /\ QueuesOf(s)[4] = s.woken
        BY <2>2, TheQueues
      <4>2. /\ QueuesOf(given)[1] = Append(s.delivered, Head(s.buffer))
            /\ QueuesOf(given)[2] = Tail(s.buffer)
            /\ QueuesOf(given)[3] = s.waiting /\ QueuesOf(given)[4] = s.woken
        BY <2>3, TheQueues
      <4>3. \A q \in Queues \ {2, 1} : q = 3 \/ q = 4
        BY DEF Queues
      <4> QED  BY <2>1, <4>1, <4>2, <4>3 DEF Queues
    <3>3. Tiled(QueuesOf(given), s.start, s.current) /\ AreQueues(QueuesOf(given))
      BY <3>1, <3>2, TiledByMove
    <3>4. Tiled(QueuesOf(taken), s.start, s.current)
      <4>1. CASE s.waiting = <<>>
        <5>1. QueuesOf(taken) = QueuesOf(given)
          BY <2>3, <2>5, <4>1 DEF QueuesOf
        <5> QED  BY <3>3, <5>1
      <4>2. CASE s.waiting # <<>>
        <5>1. /\ QueuesOf(given)[3] # <<>> /\ QueuesOf(taken)[3] = Tail(QueuesOf(given)[3])
              /\ QueuesOf(taken)[4] = Append(QueuesOf(given)[4], Head(QueuesOf(given)[3]))
              /\ \A q \in Queues \ {3, 4} : QueuesOf(taken)[q] = QueuesOf(given)[q]
              /\ 3 \in Queues /\ 4 \in Queues
          <6>1. /\ QueuesOf(given)[1] = given.delivered /\ QueuesOf(given)[2] = given.buffer
                /\ QueuesOf(given)[3] = s.waiting /\ QueuesOf(given)[4] = s.woken
            BY <2>3, TheQueues
          <6>2. /\ QueuesOf(taken)[1] = given.delivered /\ QueuesOf(taken)[2] = given.buffer
                /\ QueuesOf(taken)[3] = Tail(s.waiting)
                /\ QueuesOf(taken)[4] = Append(s.woken, Head(s.waiting))
            BY <2>3, <2>4, <2>5, <4>2, TheQueues
          <6>3. \A q \in Queues \ {3, 4} : q = 1 \/ q = 2
            BY DEF Queues
          <6> QED  BY <4>2, <6>1, <6>2, <6>3 DEF Queues
        <5> QED  BY <3>3, <5>1, TiledByMove
      <4> QED  BY <4>1, <4>2
    <3>5. Tiles(taken) /\ Untouched(taken)
      BY <2>5, <2>8, <3>4 DEF Tiles, Untouched
    <3> QED  BY <1>a, <2>1, <2>4, <3>5, ConsumerMoves, OthersTile
  <2> QED  BY <2>7, <2>8
<1>9. ASSUME NEW c \in Consumers, Finish(c) PROVE TilesInv'
  <2>1. PICK b \in consumer[c].held :
           consumer' = [consumer EXCEPT ![c] = [consumer[c] EXCEPT !.held = @ \ {b}]]
    BY <1>9 DEF Finish
  <2> DEFINE r == [consumer[c] EXCEPT !.held = @ \ {b}]
  <2>2. /\ r \in Records /\ r.status = consumer[c].status /\ r.start = consumer[c].start
        /\ r.current = consumer[c].current /\ r.delivered = consumer[c].delivered
        /\ r.buffer = consumer[c].buffer /\ r.waiting = consumer[c].waiting
        /\ r.woken = consumer[c].woken
    BY <1>b DEF Records
  <2>3. consumer' = [consumer EXCEPT ![c] = r]
    BY <2>1
  <2> HIDE DEF r
  <2>4. Tiles(r) /\ Untouched(r)
    BY <1>b, <2>2, SameTiles
  <2> QED  BY <1>a, <2>2, <2>3, <2>4, ConsumerMoves, OthersTile
<1>10. ASSUME NEW c \in Consumers, CloseConsumer(c) PROVE TilesInv'
  <2>1. consumer'[c].status = "closed" /\ OnlyMoves(c)
    BY <1>10, <1>a, <1>b DEF CloseConsumer, OnlyMoves, Records, ForgottenInv, Types
  <2>2. Tiles(consumer'[c]) /\ Untouched(consumer'[c])
    BY <2>1 DEF Tiles, Untouched
  <2> QED  BY <1>a, <2>1, <2>2, OthersTile
<1>11. CASE CloseAdapter \/ End \/ UNCHANGED vars
  BY <1>1, <1>11 DEF CloseAdapter, End, vars
<1>12. ASSUME NEW c \in Consumers, Commit(c) PROVE TilesInv'
  BY <1>1, <1>12 DEF Commit
<1> QED
  BY <1>2, <1>4, <1>5, <1>6, <1>7, <1>8, <1>9, <1>10, <1>11, <1>12 DEF Next

Row(s, t, u, v) == s \o t \o u \o v

\* What is where in a row of four sequences.
IsRow(all, s, t, u, v) ==
    LET a == Len(s)
        b == a + Len(t)
        c == b + Len(u)
        d == c + Len(v)
    IN  /\ DOMAIN all = 1..d
        /\ \A i \in 1..d : /\ i <= a => all[i] = s[i]
                           /\ (i > a /\ i <= b) => all[i] = t[i - a]
                           /\ (i > b /\ i <= c) => all[i] = u[i - b]
                           /\ i > c => all[i] = v[i - c]

LEMMA FourInARow ==
    ASSUME NEW s \in Seq(Batches), NEW t \in Seq(Batches), NEW u \in Seq(Batches), NEW v \in Seq(Batches)
    PROVE  IsRow(Row(s, t, u, v), s, t, u, v)
<1> DEFINE a == Len(s)
           b == a + Len(t)
           c == b + Len(u)
           d == c + Len(v)
<1>0. a = Len(s) /\ b = a + Len(t) /\ c = b + Len(u) /\ d = c + Len(v)
  OBVIOUS
<1> HIDE DEF a, b, c, d
<1>1. Len(s) \in Nat /\ Len(t) \in Nat /\ Len(u) \in Nat /\ Len(v) \in Nat
  BY LenProperties
<1>2. a \in Nat /\ b \in Nat /\ c \in Nat /\ d \in Nat /\ a <= b /\ b <= c /\ c <= d
  BY <1>0, <1>1
<1>3. /\ s \o t \in Seq(Batches) /\ Len(s \o t) = b
      /\ \A i \in 1..b : (s \o t)[i] = IF i <= a THEN s[i] ELSE t[i - a]
  BY <1>0, ConcatProperties
<1>4. PICK st \in Seq(Batches) : st = s \o t
  BY <1>3
<1>5. /\ st \o u \in Seq(Batches) /\ Len(st \o u) = c
      /\ \A i \in 1..c : (st \o u)[i] = IF i <= b THEN st[i] ELSE u[i - b]
  BY <1>0, <1>3, <1>4, ConcatProperties
<1>6. PICK stu \in Seq(Batches) : stu = st \o u
  BY <1>5
<1>7. /\ stu \o v \in Seq(Batches) /\ Len(stu \o v) = d
      /\ \A i \in 1..d : (stu \o v)[i] = IF i <= c THEN stu[i] ELSE v[i - c]
  <2>1. /\ stu \o v \in Seq(Batches) /\ Len(stu \o v) = Len(stu) + Len(v)
        /\ \A i \in 1..Len(stu) + Len(v) :
               (stu \o v)[i] = IF i <= Len(stu) THEN stu[i] ELSE v[i - Len(stu)]
    BY ConcatProperties
  <2>2. Len(stu) = c
    BY <1>5, <1>6
  <2> QED  BY <1>0, <2>1, <2>2
<1>8. PICK all : all = stu \o v /\ all = Row(s, t, u, v)
  BY <1>4, <1>6 DEF Row
<1>9. DOMAIN all = 1..d
  BY <1>7, <1>8, LenProperties
<1>10. ASSUME NEW i \in 1..d
       PROVE  /\ i <= a => all[i] = s[i]
              /\ (i > a /\ i <= b) => all[i] = t[i - a]
              /\ (i > b /\ i <= c) => all[i] = u[i - b]
              /\ i > c => all[i] = v[i - c]
  <2>1. i <= c => all[i] = stu[i] /\ i \in 1..c
    BY <1>2, <1>7, <1>8
  <2>2. i <= b => i \in 1..b /\ i <= c
    BY <1>2
  <2>3. i <= c => stu[i] = IF i <= b THEN st[i] ELSE u[i - b]
    BY <1>5, <1>6, <2>1
  <2>4. i <= b => st[i] = IF i <= a THEN s[i] ELSE t[i - a]
    BY <1>3, <1>4, <2>2
  <2>5. i > c => all[i] = v[i - c]
    BY <1>2, <1>7, <1>8
  <2>6. i \in Int /\ (i <= a => i <= b)
    BY <1>2
  <2> QED  BY <1>2, <2>1, <2>2, <2>3, <2>4, <2>5, <2>6
<1> QED  BY <1>8, <1>9, <1>10 DEF IsRow, a, b, c, d

Offset(Q, q) == IF q = 1 THEN 0 ELSE IF q = 2 THEN Len(Q[1])
                ELSE IF q = 3 THEN Len(Q[1]) + Len(Q[2]) ELSE Len(Q[1]) + Len(Q[2]) + Len(Q[3])

InARow(Q) == Row(Q[1], Q[2], Q[3], Q[4])

\* Each index of the four queues in a row is a place in one of them.
LEMMA PlacesInARow ==
    ASSUME NEW Q, AreQueues(Q)
    PROVE  /\ \A i \in DOMAIN InARow(Q) : \E q \in Queues : \E j \in 1..Len(Q[q]) :
                  i = j + Offset(Q, q) /\ InARow(Q)[i] = Q[q][j]
           /\ \A q \in Queues : \A j \in 1..Len(Q[q]) :
                  j + Offset(Q, q) \in DOMAIN InARow(Q) /\ InARow(Q)[j + Offset(Q, q)] = Q[q][j]
<1>1. PICK s \in Seq(Batches), t \in Seq(Batches), u \in Seq(Batches), v \in Seq(Batches) :
          s = Q[1] /\ t = Q[2] /\ u = Q[3] /\ v = Q[4]
  BY DEF AreQueues, Queues
<1>2. Len(s) \in Nat /\ Len(t) \in Nat /\ Len(u) \in Nat /\ Len(v) \in Nat
  BY LenProperties
<1> DEFINE a == Len(s)
           b == a + Len(t)
           c == b + Len(u)
           d == c + Len(v)
<1>3. a = Len(s) /\ b = a + Len(t) /\ c = b + Len(u) /\ d = c + Len(v)
  OBVIOUS
<1> HIDE DEF a, b, c, d
<1> DEFINE all == InARow(Q)
<1>8. all = Row(s, t, u, v)
  BY <1>1 DEF InARow
<1> HIDE DEF all
<1>4. /\ a \in Nat /\ b \in Nat /\ c \in Nat /\ d \in Nat /\ a <= b /\ b <= c /\ c <= d
      /\ DOMAIN all = 1..d
      /\ \A i \in 1..d : /\ i <= a => all[i] = s[i]
                         /\ (i > a /\ i <= b) => all[i] = t[i - a]
                         /\ (i > b /\ i <= c) => all[i] = u[i - b]
                         /\ i > c => all[i] = v[i - c]
  <2>1. a \in Nat /\ b \in Nat /\ c \in Nat /\ d \in Nat /\ a <= b /\ b <= c /\ c <= d
    BY <1>2, <1>3
  <2>2. s \in Seq(Batches) /\ t \in Seq(Batches) /\ u \in Seq(Batches) /\ v \in Seq(Batches)
    BY <1>1
  <2>3. /\ DOMAIN all = 1..d
        /\ \A i \in 1..d : /\ i <= a => all[i] = s[i]
                           /\ (i > a /\ i <= b) => all[i] = t[i - a]
                           /\ (i > b /\ i <= c) => all[i] = u[i - b]
                           /\ i > c => all[i] = v[i - c]
    <3>1. IsRow(all, s, t, u, v)
      BY <1>8, <2>2, FourInARow
    <3> QED  BY <3>1 DEF IsRow, a, b, c, d
  <2> QED  BY <2>1, <2>3
<1>5. /\ Offset(Q, 1) = 0 /\ Offset(Q, 2) = a /\ Offset(Q, 3) = b /\ Offset(Q, 4) = c
      /\ 1 \in Queues /\ 2 \in Queues /\ 3 \in Queues /\ 4 \in Queues
  BY <1>1, <1>3 DEF Offset, Queues
<1>6. ASSUME NEW i \in 1..d
      PROVE  \E q \in Queues : \E j \in 1..Len(Q[q]) : i = j + Offset(Q, q) /\ all[i] = Q[q][j]
  <2>1. CASE i <= a
    <3>1. i \in 1..Len(s) /\ all[i] = s[i] /\ i = i + 0
      BY <1>2, <1>3, <1>4, <2>1
    <3> QED  BY <1>1, <1>5, <3>1
  <2>2. CASE i > a /\ i <= b
    <3>1. i - a \in 1..Len(t) /\ all[i] = t[i - a] /\ i = (i - a) + a
      BY <1>2, <1>3, <1>4, <2>2
    <3> QED  BY <1>1, <1>5, <3>1
  <2>3. CASE i > b /\ i <= c
    <3>1. i - b \in 1..Len(u) /\ all[i] = u[i - b] /\ i = (i - b) + b
      BY <1>2, <1>3, <1>4, <2>3
    <3> QED  BY <1>1, <1>5, <3>1
  <2>4. CASE i > c
    <3>1. i - c \in 1..Len(v) /\ all[i] = v[i - c] /\ i = (i - c) + c
      BY <1>2, <1>3, <1>4, <2>4
    <3> QED  BY <1>1, <1>5, <3>1
  <2> QED  BY <1>4, <2>1, <2>2, <2>3, <2>4
<1>7. ASSUME NEW q \in Queues, NEW j \in 1..Len(Q[q])
      PROVE  j + Offset(Q, q) \in 1..d /\ all[j + Offset(Q, q)] = Q[q][j]
  <2>1. ASSUME NEW k \in 1..Len(s) PROVE k + 0 \in 1..d /\ all[k + 0] = s[k]
    <3>1. k + 0 \in 1..d /\ k + 0 = k /\ k + 0 <= a /\ (k + 0) - 0 = k
      BY <1>2, <1>3, <1>4
    <3> QED  BY <1>4, <3>1
  <2>2. ASSUME NEW k \in 1..Len(t) PROVE k + a \in 1..d /\ all[k + a] = t[k]
    <3>1. k + a \in 1..d /\ k + a > a /\ k + a <= b /\ (k + a) - a = k
      BY <1>2, <1>3, <1>4
    <3> QED  BY <1>4, <3>1
  <2>3. ASSUME NEW k \in 1..Len(u) PROVE k + b \in 1..d /\ all[k + b] = u[k]
    <3>1. k + b \in 1..d /\ k + b > b /\ k + b <= c /\ (k + b) - b = k
      BY <1>2, <1>3, <1>4
    <3> QED  BY <1>4, <3>1
  <2>4. ASSUME NEW k \in 1..Len(v) PROVE k + c \in 1..d /\ all[k + c] = v[k]
    <3>1. k + c \in 1..d /\ k + c > c /\ (k + c) - c = k
      BY <1>2, <1>3, <1>4
    <3> QED  BY <1>4, <3>1
  <2> QED  BY <1>1, <1>5, <2>1, <2>2, <2>3, <2>4 DEF Queues
<1> QED  BY <1>4, <1>6, <1>7 DEF all

\* Overlapping drives and blocked sends neither lose nor repeat an event: while a consumer
\* is open, every event that its drives have taken is in one batch, on its way or given out.
THEOREM NoneSkipped == BatchSizeIsPositive /\ Spec => []NothingSkipped
<1>1. ASSUME TilesInv PROVE NothingSkipped
  <2> SUFFICES ASSUME NEW c \in Consumers, consumer[c].status = "open"
               PROVE  LET s == consumer[c]
                          all == s.delivered \o s.buffer \o s.waiting \o s.woken
                      IN  /\ EventsOf(all) = s.start..s.current - 1
                          /\ \A i, j \in DOMAIN all : i # j =>
                                all[i].last < all[j].first \/ all[j].last < all[i].first
    BY DEF NothingSkipped
  <2> DEFINE s == consumer[c]
             Q == QueuesOf(s)
             all == s.delivered \o s.buffer \o s.waiting \o s.woken
  <2>1. s \in Records /\ Tiled(Q, s.start, s.current)
    BY <1>1 DEF TilesInv, ForgottenInv, Types, Tiles
  <2>2. AreQueues(Q) /\ all = InARow(Q)
    BY <2>1, TheQueues DEF InARow, Row
  <2>3. s.start \in Int /\ s.current \in Int
    BY <2>1 DEF Records
  <2> HIDE DEF s, Q, all
  <2>4. /\ \A i \in DOMAIN all : \E q \in Queues : \E j \in 1..Len(Q[q]) :
               i = j + Offset(Q, q) /\ all[i] = Q[q][j]
        /\ \A q \in Queues : \A j \in 1..Len(Q[q]) :
               j + Offset(Q, q) \in DOMAIN all /\ all[j + Offset(Q, q)] = Q[q][j]
    BY <2>2, PlacesInARow
  <2>5. \A q \in Queues : \A j \in 1..Len(Q[q]) : Q[q][j].first \in Int /\ Q[q][j].last \in Int
    <3>1. \A q \in Queues : Q[q] \in Seq(Batches)
      BY <2>2 DEF AreQueues
    <3>2. \A q \in Queues : \A j \in 1..Len(Q[q]) : Q[q][j] \in Batches
      BY <3>1, ElementOfSeq
    <3> QED  BY <3>2 DEF Batches
  <2>6. ASSUME NEW e \in EventsOf(all) PROVE e \in s.start..s.current - 1
    <3>1. PICK i \in DOMAIN all : e \in all[i].first..all[i].last
      BY DEF EventsOf, ToSet
    <3>2. PICK q \in Queues : \E j \in 1..Len(Q[q]) : all[i] = Q[q][j]
      BY <2>4
    <3>3. PICK j \in 1..Len(Q[q]) : all[i] = Q[q][j]
      BY <3>2
    <3>4. s.start <= Q[q][j].first /\ Q[q][j].last < s.current
      BY <2>1 DEF Tiled
    <3> QED  BY <2>3, <2>5, <3>1, <3>3, <3>4
  <2>7. ASSUME NEW e \in s.start..s.current - 1 PROVE e \in EventsOf(all)
    <3>1. PICK q \in Queues : \E j \in 1..Len(Q[q]) : Q[q][j].first <= e /\ e <= Q[q][j].last
      BY <2>1 DEF Tiled
    <3>2. PICK j \in 1..Len(Q[q]) : Q[q][j].first <= e /\ e <= Q[q][j].last
      BY <3>1
    <3>3. e \in Q[q][j].first..Q[q][j].last
      BY <2>3, <2>5, <3>2
    <3> QED  BY <2>4, <3>3 DEF EventsOf, ToSet
  <2>8. ASSUME NEW i \in DOMAIN all, NEW j \in DOMAIN all, i # j
        PROVE  all[i].last < all[j].first \/ all[j].last < all[i].first
    <3>1. PICK q \in Queues : \E m \in 1..Len(Q[q]) : i = m + Offset(Q, q) /\ all[i] = Q[q][m]
      BY <2>4
    <3>2. PICK r \in Queues : \E n \in 1..Len(Q[r]) : j = n + Offset(Q, r) /\ all[j] = Q[r][n]
      BY <2>4
    <3>3. PICK m \in 1..Len(Q[q]) : i = m + Offset(Q, q) /\ all[i] = Q[q][m]
      BY <3>1
    <3>4. PICK n \in 1..Len(Q[r]) : j = n + Offset(Q, r) /\ all[j] = Q[r][n]
      BY <3>2
    <3>5. q # r \/ m # n
      BY <2>8, <3>3, <3>4
    <3> QED  BY <2>1, <3>3, <3>4, <3>5 DEF Tiled, Before
  <2>9. EventsOf(all) = s.start..s.current - 1
    BY <2>6, <2>7
  <2> QED  BY <2>8, <2>9 DEF all, s
<1> QED  BY <1>1, TilesInit, TilesStep, PTL DEF Spec

-----------------------------------------------------------------------------
(* The types: no batch, cursor or place is outside the topic as it is.  Each of them is *)
(* held by a set that grows with the topic. *)

EventsAreBounded == MaxEvents \in Nat

Existing(n) == {b \in [first : 0..n - 1, last : 0..n - 1] : b.first <= b.last}
Bounded(n) == [status : Statuses, saved : -1..n - 1, size : {Infinity} \cup {o.size : o \in Options},
               limit : {1} \cup {o.limit : o \in Options}, start : 0..n, current : 0..n,
               buffer : Seq(Existing(n)), waiting : Seq(Existing(n)), woken : Seq(Existing(n)),
               settled : Nat, held : SUBSET Existing(n), delivered : Seq(Existing(n))]

BoundsInv == /\ BatchSizeIsPositive /\ EventsAreBounded
             /\ log \in 0..MaxEvents /\ cursor \in -1..log - 1
             /\ adapter \in {"open", "closed", "ended"}
             /\ consumer \in [Consumers -> Bounded(log)]
             /\ processed \subseteq 0..log - 1

LEMMA SequencesGrow ==
    ASSUME NEW A, NEW B, A \subseteq B
    PROVE  Seq(A) \subseteq Seq(B)
<1>1. ASSUME NEW q \in Seq(A) PROVE q \in Seq(B)
  <2>1. Len(q) \in Nat /\ q \in [1..Len(q) -> A]
    BY LenProperties
  <2>2. q \in [1..Len(q) -> B]
    BY <2>1
  <2> QED  BY <2>1, <2>2
<1> QED  BY <1>1

LEMMA BoundsGrow ==
    ASSUME NEW n \in Nat, NEW m \in Nat, n <= m
    PROVE  Existing(n) \subseteq Existing(m) /\ Bounded(n) \subseteq Bounded(m)
<1>1. 0..n - 1 \subseteq 0..m - 1 /\ -1..n - 1 \subseteq -1..m - 1 /\ 0..n \subseteq 0..m
  OBVIOUS
<1>2. Existing(n) \subseteq Existing(m)
  BY <1>1 DEF Existing
<1>3. Seq(Existing(n)) \subseteq Seq(Existing(m)) /\ SUBSET Existing(n) \subseteq SUBSET Existing(m)
  BY <1>2, SequencesGrow
<1>4. Bounded(n) \subseteq Bounded(m)
  <2> HIDE DEF Existing
  <2> QED  BY <1>1, <1>3 DEF Bounded
<1> QED  BY <1>2, <1>4

LEMMA SendIsBounded ==
    ASSUME NEW n \in Nat, NEW s \in Bounded(n), NEW b \in Existing(n)
    PROVE  Send(s, b) \in Bounded(n)
<1>1. /\ Append(s.buffer, b) \in Seq(Existing(n)) /\ Append(s.waiting, b) \in Seq(Existing(n))
      /\ s.settled + 1 \in Nat
  BY Appended DEF Bounded
<1> QED  BY <1>1 DEF Send, Bounded

LEMMA DriveIsBounded ==
    ASSUME BatchSizeIsPositive, NEW n \in Nat, NEW s \in Bounded(n)
    PROVE  Drive(s, n) \in Bounded(n)
<1>1. CASE adapter # "open" \/ s.status # "open" \/ s.current >= n
  BY <1>1, DriveIs
<1>2. CASE ~(adapter # "open" \/ s.status # "open" \/ s.current >= n)
  <2>1. s.current \in 0..n - 1 /\ BatchSize \in Nat /\ BatchSize >= 1
    BY <1>2 DEF Bounded, BatchSizeIsPositive
  <2>2. /\ Taken(s, n).first = s.current /\ Taken(s, n).last \in s.current..n - 1
        /\ Taken(s, n) = [first |-> s.current, last |-> Taken(s, n).last]
    BY <2>1 DEF Taken
  <2>3. Taken(s, n) \in Existing(n) /\ Taken(s, n).last + 1 \in 0..n
    BY <2>1, <2>2 DEF Existing
  <2>4. Moved(s, n) \in Bounded(n)
    BY <2>3 DEF Moved, Bounded
  <2> HIDE DEF Taken, Moved
  <2> QED  BY <1>2, <2>3, <2>4, SendIsBounded, DriveIs
<1> QED  BY <1>1, <1>2

\* One consumer moves, and the topic stays as it is.
LEMMA BoundsByOne ==
    ASSUME BoundsInv, NEW c \in Consumers, NEW r \in Bounded(log),
           consumer' = [consumer EXCEPT ![c] = r], log' = log, adapter' = adapter,
           cursor' \in -1..log - 1, processed' \subseteq 0..log - 1
    PROVE  BoundsInv'
BY DEF BoundsInv, BatchSizeIsPositive, EventsAreBounded

LEMMA BoundsInit == BatchSizeIsPositive /\ EventsAreBounded /\ Init => BoundsInv
<1> SUFFICES ASSUME BatchSizeIsPositive, EventsAreBounded, Init PROVE BoundsInv
  OBVIOUS
<1>1. NotStarted \in Bounded(0)
  BY EmptySeq DEF NotStarted, Bounded, Statuses
<1> QED  BY <1>1 DEF Init, BoundsInv, EventsAreBounded

LEMMA BoundsStep == BoundsInv /\ [Next]_vars => BoundsInv'
<1> SUFFICES ASSUME BoundsInv, [Next]_vars PROVE BoundsInv'
  OBVIOUS
<1>a. /\ BatchSizeIsPositive /\ EventsAreBounded /\ log \in Nat /\ log <= MaxEvents
      /\ MaxEvents \in Nat /\ cursor \in -1..log - 1 /\ processed \subseteq 0..log - 1
  BY DEF BoundsInv, EventsAreBounded
<1>b. \A c \in Consumers : consumer[c] \in Bounded(log)
  BY DEF BoundsInv
<1>1. CASE UNCHANGED vars
  BY <1>1 DEF vars, BoundsInv, BatchSizeIsPositive, EventsAreBounded
<1>2. CASE AppendEvent
  <2>1. /\ log' = log + 1 /\ log' \in Nat /\ log' \in 0..MaxEvents /\ log <= log'
        /\ UNCHANGED <<adapter, cursor, processed>>
        /\ consumer' = [c \in Consumers |-> Drive(consumer[c], log')]
    BY <1>2, <1>a DEF AppendEvent, append
  <2>2. \A c \in Consumers : consumer[c] \in Bounded(log')
    BY <1>a, <1>b, <2>1, BoundsGrow
  <2>3. \A c \in Consumers : Drive(consumer[c], log') \in Bounded(log')
    BY <1>a, <2>1, <2>2, DriveIsBounded
  <2>4. cursor \in -1..log' - 1 /\ processed \subseteq 0..log' - 1
    BY <1>a, <2>1
  <2>5. consumer' \in [Consumers -> Bounded(log')]
    BY <2>1, <2>3
  <2> QED  BY <1>a, <2>1, <2>4, <2>5 DEF BoundsInv, BatchSizeIsPositive, EventsAreBounded
<1>3. CASE CloseAdapter \/ End
  <2>1. /\ UNCHANGED <<log, consumer, processed>> /\ adapter' \in {"closed", "ended"}
        /\ cursor' = cursor \/ cursor' = -1
    BY <1>3 DEF CloseAdapter, End
  <2>2. cursor' \in -1..log - 1
    BY <1>a, <2>1
  <2> QED  BY <1>a, <2>1, <2>2 DEF BoundsInv, BatchSizeIsPositive, EventsAreBounded
<1>4. ASSUME NEW c \in Consumers, GetCommittedCursor(c) \/ Commit(c) PROVE BoundsInv'
  <2>1. CASE Commit(c)
    <3>1. consumer[c].saved \in -1..log - 1
      BY <1>b DEF Bounded
    <3> QED  BY <2>1, <3>1 DEF Commit, commitCursor, BoundsInv, BatchSizeIsPositive, EventsAreBounded
  <2>2. CASE GetCommittedCursor(c)
    <3>1. [consumer[c] EXCEPT !.saved = cursor] \in Bounded(log)
      BY <1>a, <1>b DEF Bounded
    <3> QED  BY <1>a, <2>2, <3>1, BoundsByOne DEF GetCommittedCursor, getCursor
  <2> QED  BY <1>4, <2>1, <2>2
<1>5. ASSUME NEW c \in Consumers, Consume(c) PROVE BoundsInv'
  <2>1. PICK o \in Options, from \in {-1, consumer[c].saved} :
           /\ consumer' = [consumer EXCEPT
                   ![c] = consume([consumer[c] EXCEPT !.size = o.size, !.limit = o.limit], from)]
           /\ UNCHANGED <<log, cursor, adapter, processed>>
    BY <1>5 DEF Consume
  <2> DEFINE started == [[consumer[c] EXCEPT !.size = o.size, !.limit = o.limit]
                            EXCEPT !.status = "open", !.saved = -1, !.start = from + 1,
                                   !.current = from + 1]
  <2>2. from + 1 \in 0..log /\ -1 \in -1..log - 1
    BY <1>a, <1>b DEF Bounded
  <2>3. started \in Bounded(log)
    BY <1>b, <2>2 DEF Bounded, Statuses
  <2>4. consumer' = [consumer EXCEPT ![c] = Drive(started, log)]
    BY <2>1 DEF consume
  <2> HIDE DEF started
  <2>5. Drive(started, log) \in Bounded(log)
    BY <1>a, <2>3, DriveIsBounded
  <2> QED  BY <1>a, <2>1, <2>4, <2>5, BoundsByOne
<1>6. ASSUME NEW c \in Consumers, Settle(c) PROVE BoundsInv'
  <2> DEFINE s == [consumer[c] EXCEPT !.settled = consumer[c].settled - 1]
  <2>1. /\ consumer' = [consumer EXCEPT ![c] = Drive(s, log)]
        /\ UNCHANGED <<log, cursor, adapter, processed>> /\ consumer[c].settled > 0
    BY <1>6 DEF Settle
  <2>2. s \in Bounded(log)
    <3>1. consumer[c].settled - 1 \in Nat
      BY <1>b, <2>1 DEF Bounded
    <3> QED  BY <1>b, <3>1 DEF Bounded
  <2> HIDE DEF s
  <2>3. Drive(s, log) \in Bounded(log)
    BY <1>a, <2>2, DriveIsBounded
  <2> QED  BY <1>a, <2>1, <2>3, BoundsByOne
<1>7. ASSUME NEW c \in Consumers, Resume(c) PROVE BoundsInv'
  <2> DEFINE s == consumer[c]
             rest == [s EXCEPT !.woken = Tail(@)]
             sent == Send(rest, Head(s.woken))
             left == [s EXCEPT !.woken = Tail(@), !.settled = @ + 1]
  <2>1. /\ consumer' = [consumer EXCEPT ![c] = IF s.status = "open" THEN sent ELSE left]
        /\ UNCHANGED <<log, cursor, adapter, processed>> /\ s.woken # <<>>
    BY <1>7 DEF Resume
  <2>2. Head(s.woken) \in Existing(log) /\ Tail(s.woken) \in Seq(Existing(log))
    BY <1>b, <2>1, Shortened DEF Bounded
  <2>3. rest \in Bounded(log) /\ left \in Bounded(log)
    <3>1. s \in Bounded(log) /\ s.settled + 1 \in Nat
      BY <1>b DEF Bounded
    <3> QED  BY <2>2, <3>1 DEF Bounded
  <2>4. sent \in Bounded(log)
    BY <1>a, <2>2, <2>3, SendIsBounded
  <2> HIDE DEF sent, left, s
  <2>5. CASE s.status = "open"
    BY <1>a, <2>1, <2>4, <2>5, BoundsByOne
  <2>6. CASE s.status # "open"
    BY <1>a, <2>1, <2>3, <2>6, BoundsByOne
  <2> QED  BY <2>5, <2>6
<1>8. ASSUME NEW c \in Consumers, Take(c) PROVE BoundsInv'
  <2> DEFINE s == consumer[c]
             taken == [s EXCEPT !.buffer = Tail(@),
                                !.held = @ \cup {Head(s.buffer)},
                                !.delivered = Append(@, Head(s.buffer)),
                                !.woken = IF s.waiting = <<>> THEN @ ELSE Append(@, Head(s.waiting)),
                                !.waiting = IF @ = <<>> THEN @ ELSE Tail(@)]
  <2>1. /\ consumer' = [consumer EXCEPT ![c] = taken] /\ s.buffer # <<>>
        /\ UNCHANGED <<log, cursor, adapter, processed>>
    BY <1>8 DEF Take
  <2>2. /\ Head(s.buffer) \in Existing(log) /\ Tail(s.buffer) \in Seq(Existing(log))
        /\ Append(s.delivered, Head(s.buffer)) \in Seq(Existing(log))
    BY <1>b, <2>1, Shortened, Appended DEF Bounded
  <2>3. s.waiting # <<>> => /\ Tail(s.waiting) \in Seq(Existing(log))
                            /\ Append(s.woken, Head(s.waiting)) \in Seq(Existing(log))
    BY <1>b, Shortened, Appended DEF Bounded
  <2>4. s \in Bounded(log) /\ s.held \cup {Head(s.buffer)} \in SUBSET Existing(log)
    BY <1>b, <2>2 DEF Bounded
  <2>5. taken \in Bounded(log)
    BY <2>2, <2>3, <2>4 DEF Bounded
  <2> HIDE DEF taken
  <2> QED  BY <1>a, <2>1, <2>5, BoundsByOne
<1>9. ASSUME NEW c \in Consumers, Finish(c) PROVE BoundsInv'
  <2>1. PICK b \in consumer[c].held, commit \in BOOLEAN :
           /\ consumer' = [consumer EXCEPT ![c] = [consumer[c] EXCEPT !.held = @ \ {b}]]
           /\ processed' = processed \cup (b.first..b.last)
           /\ cursor' = IF commit /\ adapter = "open" THEN CursorOf(b) ELSE cursor
           /\ UNCHANGED <<log, adapter>>
    BY <1>9 DEF Finish
  <2> DEFINE r == [consumer[c] EXCEPT !.held = @ \ {b}]
  <2>2. b \in Existing(log)
    BY <1>b, <2>1 DEF Bounded
  <2>3. r \in Bounded(log)
    BY <1>b DEF Bounded
  <2>4. b.first \in 0..log - 1 /\ b.last \in 0..log - 1
    BY <2>2 DEF Existing
  <2>5. cursor' \in -1..log - 1 /\ processed' \subseteq 0..log - 1
    BY <1>a, <2>1, <2>4 DEF CursorOf
  <2> HIDE DEF r
  <2> QED  BY <1>a, <2>1, <2>3, <2>5, BoundsByOne DEF r
<1>10. ASSUME NEW c \in Consumers, CloseConsumer(c) PROVE BoundsInv'
  <2> DEFINE s == consumer[c]
  <2>1. PICK rest \in {s.buffer, <<>>} :
          /\ consumer' = [consumer EXCEPT ![c] =
              [s EXCEPT !.status = "closed", !.buffer = rest,
                        !.woken = @ \o s.waiting, !.waiting = <<>>]]
          /\ UNCHANGED <<log, cursor, adapter, processed>>
    BY <1>10 DEF CloseConsumer
  <2> DEFINE r == [s EXCEPT !.status = "closed", !.buffer = rest,
                            !.woken = @ \o s.waiting, !.waiting = <<>>]
  <2>2. rest \in Seq(Existing(log)) /\ s.woken \o s.waiting \in Seq(Existing(log))
        /\ <<>> \in Seq(Existing(log))
    BY <1>b, EmptySeq, ConcatProperties DEF Bounded
  <2>3. r \in Bounded(log)
    BY <1>b, <2>2 DEF Bounded, Statuses
  <2> HIDE DEF r
  <2> QED  BY <1>a, <2>1, <2>3, BoundsByOne DEF r
<1> QED
  BY <1>1, <1>2, <1>3, <1>4, <1>5, <1>6, <1>7, <1>8, <1>9, <1>10 DEF Next

LEMMA BoundsAreTypes == BoundsInv => TypeOK
<1> SUFFICES ASSUME BoundsInv PROVE TypeOK
  OBVIOUS
<1>1. log \in Nat /\ MaxEvents \in Nat /\ log <= MaxEvents
  BY DEF BoundsInv, EventsAreBounded
<1>2. Bounded(log) \subseteq Bounded(MaxEvents) /\ Existing(MaxEvents) = Batch
      /\ Existing(log) \subseteq Existing(MaxEvents)
  BY <1>1, BoundsGrow DEF Existing, Batch
<1>3. \A r \in Bounded(log) : r \in Bounded(MaxEvents) /\ r.saved \in -1..log - 1
  BY <1>2 DEF Bounded
<1>4. \A r \in Bounded(MaxEvents) : r.saved \in -1..log - 1 =>
          r \in [status : {"none", "open", "closed"}, saved : -1..log - 1,
                 size : {Infinity} \cup {o.size : o \in Options},
                 limit : {1} \cup {o.limit : o \in Options},
                 start : 0..MaxEvents, current : 0..MaxEvents,
                 buffer : Seq(Batch), waiting : Seq(Batch), woken : Seq(Batch), settled : Nat,
                 held : SUBSET Batch, delivered : Seq(Batch)]
  BY <1>2 DEF Bounded, Statuses
<1> QED  BY <1>3, <1>4 DEF BoundsInv, TypeOK

\* A cursor names an event that exists, and no batch reaches over the end of the topic.
THEOREM EventLogTypes == BatchSizeIsPositive /\ EventsAreBounded /\ Spec => []TypeOK
BY BoundsInit, BoundsStep, BoundsAreTypes, PTL DEF Spec

=============================================================================
