---------------------------- MODULE KafkaLogProofs ----------------------------
(***************************************************************************)
(* At least once, for any partitions, batch size and number of consumers:  *)
(* what the committed offset of a partition has passed was given out, and  *)
(* the consumer has spoken for it.  The argument follows an offset from    *)
(* the batch to the commit: what is behind the place where the handler     *)
(* reads was given out, or waits in its batch.                             *)
(***************************************************************************)
EXTENDS KafkaLog, SequenceTheorems, WellFoundedInduction, TLAPS

Messages == {"good", "bad"}
Handlers == [stage : {"loop", "full", "rest"}, partition : Partitions, last : Int, at : Int,
             events : SUBSET Int, count : {0, 1}, stale : BOOLEAN]

\* What the argument needs to know of the types: no offset is behind the end of its
\* partition.
Types ==
    /\ log \in [Partitions -> Seq(Messages)]
    /\ committed \in [Partitions -> Int] /\ start \in [Partitions -> Int]
    /\ position \in [Partitions -> Int]
    /\ \A p \in Partitions : committed[p] <= Len(log[p]) /\ start[p] <= Len(log[p])
                             /\ position[p] <= Len(log[p])
    /\ emitted \in [Partitions -> SUBSET Int] /\ acknowledged \in [Partitions -> Int]
    /\ jumped \subseteq Partitions
    /\ commits \subseteq [partition : Partitions, next : Int]
    /\ \A f \in commits : f.next <= Len(log[f.partition])
    /\ handler = NoHandler \/ handler \in Handlers
    /\ handler # NoHandler => handler.at <= handler.last + 1
                              /\ handler.last + 1 <= Len(log[handler.partition])

IsGood(p, o) == log[p][o + 1] = "good"
GivenTo(p, n) == \A o \in 0..n - 1 : IsGood(p, o) => o \in emitted[p]
SpokenTo(p, n) == \A o \in 0..n - 1 : IsGood(p, o) => o \in emitted[p] /\ o < acknowledged[p]

OffsetInv == \A p \in Partitions \ jumped :
                 SpokenTo(p, committed[p]) /\ SpokenTo(p, start[p]) /\ SpokenTo(p, position[p])

CommitsInv == \A f \in commits : f.partition \notin jumped => GivenTo(f.partition, f.next)

\* How far the handler has read.
Read(h) == IF h.stage = "rest" THEN h.last + 1 ELSE h.at

HandlerInv == handler # NoHandler /\ handler.partition \notin jumped =>
    \A o \in 0..Read(handler) - 1 : IsGood(handler.partition, o) =>
        \/ o \in handler.events
        \/ /\ o \in emitted[handler.partition]
           /\ handler.count = 0 => o < acknowledged[handler.partition]

IInv == Types /\ OffsetInv /\ CommitsInv /\ HandlerInv

-----------------------------------------------------------------------------
LEMMA MaxOfTwo ==
    ASSUME NEW a \in Int, NEW b \in Int
    PROVE  Max({a, b}) \in Int /\ Max({a, b}) >= a /\ Max({a, b}) >= b
BY DEF Max

LEMMA MinOfSome ==
    ASSUME NEW n \in Int, NEW m \in Int, NEW S \in SUBSET (n..m), S # {}
    PROVE  Min(S) \in S
<1> DEFINE T == {k \in Nat : n + k \in S}
<1>1. T # {} /\ T \subseteq Nat
  <2>1. PICK k : k \in S
    OBVIOUS
  <2>2. k - n \in Nat /\ n + (k - n) = k
    BY <2>1
  <2>3. k - n \in T
    BY <2>1, <2>2
  <2> QED  BY <2>3
<1>2. PICK k \in T : \A l \in T : ~(<<l, k>> \in OpToRel(<, Nat))
  <2> HIDE DEF T
  <2> QED  BY <1>1, NatLessThanWellFounded, WFMin
<1>3. ASSUME NEW l \in T PROVE k <= l
  <2>1. <<l, k>> \in Nat \X Nat /\ <<l, k>>[1] = l /\ <<l, k>>[2] = k
    BY <1>1, <1>2
  <2>2. ~(l < k)
    BY <1>2, <2>1 DEF OpToRel
  <2>3. k \in Nat /\ l \in Nat
    OBVIOUS
  <2> QED  BY <2>2, <2>3
<1>4. n + k \in S /\ \A x \in S : n + k <= x
  <2>1. ASSUME NEW x \in S PROVE n + k <= x
    <3>1. x \in Int /\ x - n \in T
      BY <2>1
    <3>2. k <= x - n
      BY <1>3, <3>1
    <3> QED  BY <3>1, <3>2
  <2> QED  BY <2>1
<1> QED  BY <1>4 DEF Min

\* What was spoken for stays so.
LEMMA SpokenGrows ==
    ASSUME NEW p, NEW n \in Int, SpokenTo(p, n), log'[p] = log[p], emitted[p] \subseteq emitted'[p],
           acknowledged[p] \in Int, acknowledged'[p] \in Int, acknowledged'[p] >= acknowledged[p]
    PROVE  \A o \in 0..n - 1 : log'[p][o + 1] = "good" => o \in emitted'[p] /\ o < acknowledged'[p]
<1>1. \A o \in 0..n - 1 : o \in Int
  OBVIOUS
<1> QED  BY <1>1 DEF SpokenTo, IsGood

\* The consumer speaks for an offset of one partition.
LEMMA SpeaksFor ==
    ASSUME Types, NEW cursor \in [Partitions -> Int], Speaks(cursor)
    PROVE  /\ acknowledged' \in [Partitions -> Int]
           /\ \A p \in Partitions : acknowledged'[p] >= acknowledged[p] /\ acknowledged'[p] >= cursor[p]
<1>1. \A p \in Partitions : acknowledged[p] \in Int /\ cursor[p] \in Int
  BY DEF Types
<1>2. \A p \in Partitions : /\ Max({acknowledged[p], cursor[p]}) \in Int
                            /\ Max({acknowledged[p], cursor[p]}) >= acknowledged[p]
                            /\ Max({acknowledged[p], cursor[p]}) >= cursor[p]
  BY <1>1, MaxOfTwo
<1> QED  BY <1>2 DEF Speaks

\* Where a consumer begins, everything before was spoken for.
LEMMA Begins ==
    ASSUME IInv, NEW p \in Partitions
    PROVE  /\ Begin(p) \in Int /\ Begin(p) <= Len(log[p])
           /\ p \notin jumped => (start # Nowhere /\ committed[p] = NoOffset) \/ SpokenTo(p, Begin(p))
<1>1. Len(log[p]) \in Nat
  BY LenProperties DEF IInv, Types
<1>2. CASE committed[p] # NoOffset
  <2>1. Begin(p) = committed[p]
    BY <1>2 DEF Begin
  <2> QED  BY <1>1, <2>1 DEF IInv, Types, OffsetInv
<1>3. CASE committed[p] = NoOffset /\ start = Nowhere
  BY <1>1, <1>3 DEF Begin, SpokenTo
<1>4. CASE committed[p] = NoOffset /\ start # Nowhere
  BY <1>1, <1>4 DEF Begin
<1> QED  BY <1>2, <1>3, <1>4

LEMMA InitInv == Init => IInv
<1> SUFFICES ASSUME Init PROVE IInv
  OBVIOUS
<1>1. <<>> \in Seq(Messages) /\ Len(<<>>) = 0
  BY EmptySeq
<1>2. Types
  BY <1>1 DEF Init, Types, Nowhere, NoOffset, NoHandler
<1>3. \A p \in Partitions : SpokenTo(p, NoOffset)
  BY DEF SpokenTo, NoOffset
<1> QED  BY <1>2, <1>3 DEF Init, IInv, OffsetInv, CommitsInv, HandlerInv, Nowhere

LEMMA StepInv == IInv /\ [Next]_vars => IInv'
<1> SUFFICES ASSUME IInv, [Next]_vars PROVE IInv'
  OBVIOUS
<1> USE DEF IInv
<1>a. \A p \in Partitions : /\ Len(log[p]) \in Nat /\ log[p] \in Seq(Messages) /\ acknowledged[p] \in Int
                            /\ committed[p] \in Int /\ start[p] \in Int /\ position[p] \in Int
                            /\ emitted[p] \in SUBSET Int
  BY LenProperties DEF Types
<1>b. NoOffset \in Int /\ Nowhere \in [Partitions -> Int] /\ \A p \in Partitions : SpokenTo(p, NoOffset)
  BY DEF NoOffset, Nowhere, SpokenTo
<1>1. CASE UNCHANGED vars
  BY <1>1 DEF vars, consumer, history, Types, OffsetInv, CommitsInv, HandlerInv, SpokenTo, GivenTo, IsGood
<1>2. CASE connect \/ end \/ StartFails \/ closeConsumer
  BY <1>2 DEF connect, end, StartFails, closeConsumer, consumer, history, Types, OffsetInv, CommitsInv,
              HandlerInv, SpokenTo, GivenTo, IsGood
<1>3. CASE append
  <2>1. PICK p \in Partitions, message \in Messages :
           /\ log' = [log EXCEPT ![p] = Append(@, message)]
           /\ UNCHANGED <<committed, start, position, handler, commits, emitted, acknowledged, jumped>>
    BY <1>3 DEF append, consumer, history, Messages
  <2>2. /\ Append(log[p], message) \in Seq(Messages) /\ Len(Append(log[p], message)) = Len(log[p]) + 1
        /\ \A k \in 1..Len(log[p]) : Append(log[p], message)[k] = log[p][k]
    BY <1>a, AppendProperties
  <2>3. /\ log' \in [Partitions -> Seq(Messages)]
        /\ \A q \in Partitions : /\ Len(log'[q]) \in Int /\ Len(log[q]) <= Len(log'[q])
                                 /\ \A k \in 1..Len(log[q]) : log'[q][k] = log[q][k]
    BY <1>a, <2>1, <2>2 DEF Types
  <2>4. Types'
    <3>1. \A q \in Partitions : committed[q] <= Len(log'[q]) /\ start[q] <= Len(log'[q])
                                /\ position[q] <= Len(log'[q])
      BY <1>a, <2>3 DEF Types
    <3>2. \A f \in commits : f.next <= Len(log'[f.partition])
      BY <1>a, <2>3 DEF Types
    <3>3. handler # NoHandler => handler.last + 1 <= Len(log'[handler.partition])
      BY <1>a, <2>3 DEF Types, Handlers
    <3> QED  BY <2>1, <2>3, <3>1, <3>2, <3>3 DEF Types
  <2>5. ASSUME NEW q \in Partitions, NEW n \in Int, n <= Len(log[q])
        PROVE  /\ \A o \in 0..n - 1 : IsGood(q, o)' <=> IsGood(q, o)
               /\ SpokenTo(q, n)' <=> SpokenTo(q, n)
               /\ GivenTo(q, n)' <=> GivenTo(q, n)
    <3>1. \A o \in 0..n - 1 : o + 1 \in 1..Len(log[q])
      BY <1>a, <2>5
    <3>2. \A o \in 0..n - 1 : IsGood(q, o)' <=> IsGood(q, o)
      BY <2>3, <3>1 DEF IsGood
    <3> QED  BY <2>1, <3>2 DEF SpokenTo, GivenTo
  <2>6. OffsetInv'
    BY <1>a, <2>1, <2>5 DEF OffsetInv, Types
  <2>7. CommitsInv'
    BY <2>1, <2>5 DEF CommitsInv, Types
  <2>8. HandlerInv'
    <3>1. CASE handler = NoHandler
      BY <2>1, <3>1 DEF HandlerInv
    <3>2. CASE handler # NoHandler
      <4> DEFINE q == handler.partition
                 n == Read(handler)
      <4>1. q \in Partitions /\ n \in Int /\ n <= Len(log[q])
        BY <1>a, <3>2 DEF Types, Handlers, Read
      <4>2. \A o \in 0..n - 1 : o + 1 \in 1..Len(log[q])
        BY <1>a, <4>1
      <4>3. \A o \in 0..n - 1 : log'[q][o + 1] = log[q][o + 1]
        BY <2>3, <4>1, <4>2
      <4> QED  BY <2>1, <4>3 DEF HandlerInv, IsGood, Read
    <3> QED  BY <3>1, <3>2
  <2> QED  BY <2>4, <2>6, <2>7, <2>8
<1>4. CASE consume
  <2>1. /\ start' \in Cursors /\ position' = Nowhere /\ handler' = NoHandler /\ commits' = {}
        /\ Speaks(start') /\ UNCHANGED <<log, committed, emitted, jumped>>
    BY <1>4 DEF consume
  <2>2. /\ start' \in [Partitions -> Int]
        /\ \A p \in Partitions : start'[p] = NoOffset \/ \E f \in commits : f.partition = p /\ f.next = start'[p]
    BY <2>1, <1>b DEF Cursors, Types, Nowhere
  <2>3. acknowledged' \in [Partitions -> Int]
        /\ \A p \in Partitions : acknowledged'[p] >= acknowledged[p] /\ acknowledged'[p] >= start'[p]
    BY <2>1, <2>2, SpeaksFor
  <2>4. NoOffset <= NoOffset /\ \A p \in Partitions : NoOffset <= Len(log[p]) /\ Nowhere[p] = NoOffset
    BY <1>a DEF NoOffset, Nowhere
  <2>5. Types'
    BY <1>b, <2>1, <2>2, <2>3, <2>4 DEF Types
  <2>6. ASSUME NEW p \in Partitions, p \notin jumped
        PROVE  SpokenTo(p, committed[p])' /\ SpokenTo(p, start[p])' /\ SpokenTo(p, position[p])'
    <3>1. SpokenTo(p, committed[p])'
      <4>1. SpokenTo(p, committed[p]) /\ acknowledged'[p] \in Int /\ acknowledged'[p] >= acknowledged[p]
        BY <2>3, <2>6 DEF OffsetInv
      <4> QED  BY <1>a, <2>1, <4>1, SpokenGrows DEF SpokenTo, IsGood
    <3>2. SpokenTo(p, start[p])'
      <4>1. CASE start'[p] = NoOffset
        BY <4>1 DEF SpokenTo, NoOffset
      <4>2. CASE start'[p] # NoOffset
        <5>1. GivenTo(p, start'[p]) /\ start'[p] \in Int /\ acknowledged'[p] \in Int
              /\ acknowledged'[p] >= start'[p]
          BY <2>2, <2>3, <2>6, <4>2 DEF CommitsInv
        <5>2. \A o \in 0..start'[p] - 1 : o < acknowledged'[p]
          BY <5>1
        <5> QED  BY <2>1, <5>1, <5>2 DEF GivenTo, SpokenTo, IsGood
      <4> QED  BY <4>1, <4>2
    <3>3. SpokenTo(p, position[p])'
      BY <2>1, <2>4 DEF SpokenTo, NoOffset
    <3> QED  BY <3>1, <3>2, <3>3
  <2> QED  BY <2>1, <2>5, <2>6 DEF OffsetInv, CommitsInv, HandlerInv
<1>5. CASE Joins
  <2>1. /\ position' = [p \in Partitions |-> IF start[p] # NoOffset THEN start[p] ELSE Begin(p)]
        /\ jumped' = jumped \cup {p \in Partitions : start # Nowhere /\ start[p] = NoOffset
                                                       /\ committed[p] = NoOffset}
        /\ UNCHANGED <<log, committed, start, handler, commits, emitted, acknowledged>>
    BY <1>5 DEF Joins
  <2>2. ASSUME NEW p \in Partitions
        PROVE  /\ position'[p] \in Int /\ position'[p] <= Len(log[p])
               /\ p \notin jumped' => SpokenTo(p, position'[p])
    BY <1>a, <2>1, Begins DEF Types, OffsetInv
  <2>3. Types'
    BY <2>1, <2>2 DEF Types
  <2>4. OffsetInv'
    BY <2>1, <2>2 DEF OffsetInv, SpokenTo, IsGood
  <2>5. CommitsInv' /\ HandlerInv'
    BY <2>1 DEF CommitsInv, HandlerInv, GivenTo, IsGood
  <2> QED  BY <2>3, <2>4, <2>5
<1>6. CASE Rebalances
  <2>1. /\ position' = [p \in Partitions |-> Begin(p)]
        /\ jumped' = jumped \cup {p \in Partitions : start # Nowhere /\ committed[p] = NoOffset}
        /\ handler' = IF handler.stage = "idle" THEN handler ELSE [handler EXCEPT !.stale = TRUE]
        /\ UNCHANGED <<log, committed, start, commits, emitted, acknowledged>>
    BY <1>6 DEF Rebalances, consumer
  <2>2. ASSUME NEW p \in Partitions
        PROVE  /\ position'[p] \in Int /\ position'[p] <= Len(log[p])
               /\ p \notin jumped' => SpokenTo(p, position'[p])
    BY <2>1, Begins
  <2>3. \/ handler' = NoHandler /\ handler = NoHandler
        \/ /\ handler # NoHandler /\ handler' \in Handlers /\ handler'.partition = handler.partition
           /\ handler'.stage = handler.stage /\ handler'.at = handler.at /\ handler'.last = handler.last
           /\ handler'.events = handler.events /\ handler'.count = handler.count
    BY <2>1 DEF Types, Handlers, NoHandler
  <2>4. Types'
    BY <2>1, <2>2, <2>3 DEF Types
  <2>5. OffsetInv'
    BY <2>1, <2>2 DEF OffsetInv, SpokenTo, IsGood
  <2>6. CommitsInv' /\ HandlerInv'
    BY <2>1, <2>3 DEF CommitsInv, HandlerInv, GivenTo, IsGood, Read
  <2> QED  BY <2>4, <2>5, <2>6
<1>7. CASE Fetches
  <2>1. PICK p \in Partitions :
           /\ handler' = [stage |-> "loop", partition |-> p, last |-> Len(log[p]) - 1, at |-> position[p],
                          events |-> {}, count |-> 0, stale |-> FALSE]
           /\ position[p] < Len(log[p])
           /\ UNCHANGED <<log, committed, start, position, commits, emitted, acknowledged, jumped>>
    BY <1>7 DEF Fetches, consumer, history
  <2>2. Types'
    <3>1. Len(log[p]) - 1 \in Int /\ position[p] <= Len(log[p]) - 1 + 1
          /\ Len(log[p]) - 1 + 1 = Len(log[p])
      BY <1>a, <2>1
    <3>2. handler' \in Handlers
      BY <1>a, <2>1, <3>1 DEF Handlers
    <3>3. handler'.at = position[p] /\ handler'.last = Len(log[p]) - 1 /\ handler'.partition = p
      BY <2>1
    <3>4. handler'.at <= handler'.last + 1 /\ handler'.last + 1 <= Len(log'[handler'.partition])
      BY <1>a, <2>1, <3>1, <3>3
    <3> QED  BY <2>1, <3>2, <3>4 DEF Types
  <2>3. OffsetInv' /\ CommitsInv'
    BY <2>1 DEF OffsetInv, CommitsInv, SpokenTo, GivenTo, IsGood
  <2>4. HandlerInv'
    BY <2>1 DEF HandlerInv, OffsetInv, SpokenTo, IsGood, Read
  <2> QED  BY <2>2, <2>3, <2>4
<1>8. CASE Collects
  <2>1. /\ handler.stage = "loop" /\ UNCHANGED <<log, committed, start, position, commits, emitted, acknowledged, jumped>>
        /\ \/ handler' = NoHandler
           \/ handler' = [handler EXCEPT !.stage = "rest", !.events = @ \cup Good]
           \/ /\ Full # {}
              /\ handler' = [handler EXCEPT !.stage = "full", !.at = Min(Full) + 1,
                                            !.events = @ \cup {g \in Good : g <= Min(Full)}]
    BY <1>8 DEF Collects, consumer, history
  <2>2. handler \in Handlers /\ handler # NoHandler
    BY <2>1 DEF NoHandler, Types
  <2>3. handler.at \in Int /\ handler.last \in Int /\ Good \subseteq handler.at..handler.last
        /\ handler.partition \in Partitions
    BY <2>2 DEF Handlers, Good
  <2>4. Full # {} => Min(Full) \in Good
    <3>1. Full \in SUBSET (handler.at..handler.last) /\ Full \subseteq Good
      BY <2>3 DEF Full
    <3> QED  BY <2>3, <3>1, MinOfSome
  <2>5. OffsetInv' /\ CommitsInv'
    BY <2>1 DEF OffsetInv, CommitsInv, SpokenTo, GivenTo, IsGood
  <2>6. CASE handler' = NoHandler
    BY <2>1, <2>5, <2>6 DEF Types, HandlerInv
  <2>7. CASE handler' = [handler EXCEPT !.stage = "rest", !.events = @ \cup Good]
    <3>a. handler.at..handler.last \subseteq Int /\ handler.events \subseteq Int
      BY <2>2, <2>3 DEF Handlers
    <3>e. handler.events \cup Good \in SUBSET Int
      BY <2>3, <3>a
    <3>1. /\ handler' \in Handlers /\ handler'.stage = "rest" /\ handler'.events = handler.events \cup Good
          /\ handler'.partition = handler.partition /\ handler'.at = handler.at
          /\ handler'.last = handler.last /\ handler'.count = handler.count
      BY <2>2, <2>7, <3>e DEF Handlers
    <3>2. Types'
      BY <2>1, <2>2, <3>1 DEF Types
    <3>3. \A o \in 0..handler.last : IsGood(handler.partition, o) => o \in 0..handler.at - 1 \/ o \in Good
      BY <2>3 DEF IsGood, Good
    <3>4. HandlerInv'
      BY <2>1, <2>2, <2>3, <3>1, <3>3 DEF HandlerInv, Read, IsGood
    <3> QED  BY <2>5, <3>2, <3>4
  <2>8. CASE /\ Full # {}
             /\ handler' = [handler EXCEPT !.stage = "full", !.at = Min(Full) + 1,
                                           !.events = @ \cup {g \in Good : g <= Min(Full)}]
    <3> DEFINE m == Min(Full)
               some == {g \in Good : g <= m}
    <3>1. m \in Int /\ m <= handler.last /\ some \subseteq Int
      BY <2>3, <2>4, <2>8
    <3>e. handler.events \cup some \in SUBSET Int /\ m + 1 \in Int
      BY <2>2, <3>1 DEF Handlers
    <3>h. handler' = [handler EXCEPT !.stage = "full", !.at = m + 1, !.events = handler.events \cup some]
      BY <2>8
    <3> HIDE DEF m, some
    <3>2. /\ handler' \in Handlers /\ handler'.stage = "full" /\ handler'.events = handler.events \cup some
          /\ handler'.partition = handler.partition /\ handler'.at = m + 1
          /\ handler'.last = handler.last /\ handler'.count = handler.count
      BY <2>2, <3>e, <3>h DEF Handlers
    <3>3. Types'
      BY <2>1, <2>2, <2>3, <3>1, <3>2, SMTT(30) DEF Types
    <3>4. \A o \in 0..m : IsGood(handler.partition, o) => o \in 0..handler.at - 1 \/ o \in some
      BY <2>3, <3>1 DEF IsGood, Good, some
    <3>5. HandlerInv'
      BY <2>1, <2>2, <2>3, <3>1, <3>2, <3>4 DEF HandlerInv, Read, IsGood
    <3> QED  BY <2>5, <3>3, <3>5
  <2> QED  BY <2>1, <2>6, <2>7, <2>8
<1>9. ASSUME NEW p \in Partitions, NEW events \in SUBSET Int, NEW next \in Int, next <= Len(log[p]),
             emitted' = [emitted EXCEPT ![p] = @ \cup events],
             commits' = commits \cup {[partition |-> p, next |-> next]},
             UNCHANGED <<log, committed, start, position, acknowledged, jumped>>,
             p \notin jumped => \A o \in 0..next - 1 : IsGood(p, o) => o \in events \/ o \in emitted[p]
      PROVE  /\ OffsetInv' /\ CommitsInv' /\ emitted' \in [Partitions -> SUBSET Int]
             /\ \A q \in Partitions : emitted[q] \subseteq emitted'[q]
             /\ events \subseteq emitted'[p]
             /\ commits' \subseteq [partition : Partitions, next : Int]
             /\ \A f \in commits' : f.next <= Len(log'[f.partition])
  <2>1. /\ emitted' \in [Partitions -> SUBSET Int]
        /\ \A q \in Partitions : emitted[q] \subseteq emitted'[q]
        /\ emitted'[p] = emitted[p] \cup events
    BY <1>a, <1>9 DEF Types
  <2>2. OffsetInv'
    BY <1>9, <2>1 DEF OffsetInv, SpokenTo, IsGood
  <2>3. ASSUME NEW f \in commits', f.partition \notin jumped PROVE GivenTo(f.partition, f.next)'
    <3>1. CASE f \in commits
      BY <1>9, <2>1, <2>3, <3>1 DEF CommitsInv, GivenTo, IsGood, Types
    <3>2. CASE f = [partition |-> p, next |-> next]
      BY <1>9, <2>1, <2>3, <3>2 DEF GivenTo, IsGood
    <3> QED  BY <1>9, <3>1, <3>2
  <2>4. CommitsInv'
    BY <1>9, <2>3 DEF CommitsInv
  <2>5. /\ commits' \subseteq [partition : Partitions, next : Int]
        /\ \A f \in commits' : f.next <= Len(log'[f.partition])
    BY <1>9 DEF Types
  <2> QED  BY <2>1, <2>2, <2>4, <2>5
<1>10. CASE FullBatch
  <2>1. /\ handler.stage = "full" /\ UNCHANGED <<log, committed, start, position, acknowledged, jumped>>
        /\ \/ /\ GivesOut(handler.events, handler.at)
              /\ handler' = [handler EXCEPT !.stage = "loop", !.events = {}, !.count = 1]
           \/ /\ handler' = [handler EXCEPT !.stage = "loop", !.count = 1]
              /\ UNCHANGED <<emitted, commits>>
    BY <1>10 DEF FullBatch, consumer
  <2>2. handler \in Handlers /\ handler # NoHandler
    BY <2>1 DEF NoHandler, Types
  <2>3. handler.at \in Int /\ handler.partition \in Partitions /\ handler.events \in SUBSET Int
        /\ handler.last \in Int /\ handler.at <= Len(log[handler.partition])
    BY <1>a, <2>2 DEF Handlers, Types
  <2>4. handler.partition \notin jumped => \A o \in 0..handler.at - 1 : IsGood(handler.partition, o) =>
            o \in handler.events \/ o \in emitted[handler.partition]
    BY <2>1, <2>2 DEF HandlerInv, Read
  <2>5. /\ handler'.stage = "loop" /\ handler'.count = 1 /\ handler'.partition = handler.partition
        /\ handler'.at = handler.at /\ handler'.last = handler.last /\ handler' \in Handlers
        /\ handler'.events = {} \/ handler'.events = handler.events
    BY <2>1, <2>2 DEF Handlers
  <2>6. CASE /\ GivesOut(handler.events, handler.at)
             /\ handler' = [handler EXCEPT !.stage = "loop", !.events = {}, !.count = 1]
    <3>1. /\ OffsetInv' /\ CommitsInv' /\ emitted' \in [Partitions -> SUBSET Int]
          /\ \A q \in Partitions : emitted[q] \subseteq emitted'[q]
          /\ handler.events \subseteq emitted'[handler.partition]
          /\ commits' \subseteq [partition : Partitions, next : Int]
          /\ \A f \in commits' : f.next <= Len(log'[f.partition])
      BY <1>9, <2>1, <2>3, <2>4, <2>6 DEF GivesOut
    <3>2. Types'
      BY <2>1, <2>2, <2>5, <3>1 DEF Types
    <3>3. HandlerInv'
      BY <2>1, <2>3, <2>4, <2>5, <3>1 DEF HandlerInv, Read, IsGood
    <3> QED  BY <3>1, <3>2, <3>3
  <2>7. CASE /\ handler' = [handler EXCEPT !.stage = "loop", !.count = 1]
             /\ UNCHANGED <<emitted, commits>>
    <3>1. handler'.events = handler.events
      BY <2>2, <2>7 DEF Handlers
    <3>2. Types'
      BY <2>1, <2>2, <2>5, <2>7 DEF Types
    <3>3. HandlerInv'
      BY <2>1, <2>4, <2>5, <2>7, <3>1 DEF HandlerInv, Read, IsGood
    <3>4. OffsetInv' /\ CommitsInv'
      BY <2>1, <2>7 DEF OffsetInv, CommitsInv, SpokenTo, GivenTo, IsGood
    <3> QED  BY <3>2, <3>3, <3>4
  <2> QED  BY <2>1, <2>6, <2>7
<1>11. CASE Rest
  <2>1. /\ handler.stage = "rest" /\ handler' = NoHandler /\ UNCHANGED <<log, start, acknowledged, jumped>>
        /\ \/ UNCHANGED <<position, committed, emitted, commits>>
           \/ /\ handler.events = {} /\ handler.count = 0
              /\ Resolve(handler.partition, handler.last + 1) /\ UNCHANGED <<emitted, commits>>
           \/ /\ GivesOut(handler.events, handler.last + 1) /\ UNCHANGED <<position, committed>>
    BY <1>11 DEF Rest, consumer, MayCommitBad
  <2>2. handler \in Handlers /\ handler # NoHandler
    BY <2>1 DEF NoHandler, Types
  <2> DEFINE p == handler.partition
             next == handler.last + 1
  <2>3. p \in Partitions /\ handler.events \in SUBSET Int /\ next \in Int /\ next <= Len(log[p])
    BY <2>2 DEF Handlers, Types
  <2>4. p \notin jumped => \A o \in 0..next - 1 : IsGood(p, o) =>
            \/ o \in handler.events
            \/ o \in emitted[p] /\ (handler.count = 0 => o < acknowledged[p])
    <3>1. Read(handler) = next
      BY <2>1 DEF Read
    <3> QED  BY <2>2, <3>1 DEF HandlerInv
  <2>5. HandlerInv'
    BY <2>1 DEF HandlerInv
  <2> HIDE DEF p, next
  <2>6. CASE UNCHANGED <<position, committed, emitted, commits>>
    BY <2>1, <2>5, <2>6 DEF Types, OffsetInv, CommitsInv, SpokenTo, GivenTo, IsGood
  <2>7. CASE /\ handler.events = {} /\ handler.count = 0
             /\ Resolve(handler.partition, handler.last + 1) /\ UNCHANGED <<emitted, commits>>
    <3>1. p \notin jumped => SpokenTo(p, next)
      BY <2>4, <2>7 DEF SpokenTo
    <3>2. Resolve(p, next)
      BY <2>7 DEF p, next
    <3>3. CommitsInv'
      BY <2>1, <2>7 DEF CommitsInv, GivenTo, IsGood
    <3>4. /\ committed' \in [Partitions -> Int] /\ position' \in [Partitions -> Int]
          /\ \A q \in Partitions : /\ committed'[q] = IF q = p THEN next ELSE committed[q]
                                   /\ position'[q] = IF q = p THEN next ELSE position[q]
      BY <2>3, <3>2 DEF Resolve, Types
    <3>5. \A q \in Partitions \ jumped : /\ SpokenTo(q, committed'[q]) /\ SpokenTo(q, start[q])
                                         /\ SpokenTo(q, position'[q])
      BY <3>1, <3>4 DEF OffsetInv
    <3>6. OffsetInv'
      BY <2>1, <2>7, <3>5 DEF OffsetInv, SpokenTo, IsGood
    <3>7. Types'
      BY <2>1, <2>3, <2>7, <3>4 DEF Types
    <3> QED  BY <2>5, <3>3, <3>6, <3>7
  <2>8. CASE GivesOut(handler.events, handler.last + 1) /\ UNCHANGED <<position, committed>>
    <3>1. /\ emitted' = [emitted EXCEPT ![p] = @ \cup handler.events]
          /\ commits' = commits \cup {[partition |-> p, next |-> next]}
      BY <2>8 DEF GivesOut, p, next
    <3>2. /\ OffsetInv' /\ CommitsInv' /\ emitted' \in [Partitions -> SUBSET Int]
          /\ commits' \subseteq [partition : Partitions, next : Int]
          /\ \A f \in commits' : f.next <= Len(log'[f.partition])
      BY <1>9, <2>1, <2>3, <2>4, <2>8, <3>1
    <3> QED  BY <2>1, <2>5, <2>8, <3>2 DEF Types
  <2> QED  BY <2>1, <2>6, <2>7, <2>8 DEF p, next
<1>12. CASE commit \/ commitCursor
  <2>1. PICK f \in commits :
           /\ committed' = [committed EXCEPT ![f.partition] = f.next]
           /\ position' = [position EXCEPT ![f.partition] = f.next] \/ position' = position
           /\ Speaks([Nowhere EXCEPT ![f.partition] = f.next])
           /\ UNCHANGED <<log, start, handler, commits, emitted, jumped>>
    BY <1>12 DEF commit, commitCursor, Resolve, consumer
  <2> DEFINE p == f.partition
             next == f.next
             cursor == [Nowhere EXCEPT ![p] = next]
  <2>2. p \in Partitions /\ next \in Int /\ next <= Len(log[p]) /\ (p \notin jumped => GivenTo(p, next))
    BY DEF Types, CommitsInv
  <2>3. cursor \in [Partitions -> Int] /\ cursor[p] = next /\ Speaks(cursor)
    BY <1>b, <2>1, <2>2
  <2>4. /\ acknowledged' \in [Partitions -> Int] /\ acknowledged'[p] >= next
        /\ \A q \in Partitions : acknowledged'[q] >= acknowledged[q]
    BY <2>2, <2>3, SpeaksFor
  <2> HIDE DEF cursor
  <2>5. /\ committed' \in [Partitions -> Int] /\ position' \in [Partitions -> Int]
        /\ \A q \in Partitions : /\ committed'[q] = (IF q = p THEN next ELSE committed[q])
                                 /\ (position'[q] = next /\ q = p) \/ position'[q] = position[q]
    BY <2>1, <2>2 DEF Types
  <2>6. ASSUME NEW q \in Partitions, q \notin jumped, NEW n \in Int, SpokenTo(q, n) \/ (q = p /\ n = next)
        PROVE  SpokenTo(q, n)'
    BY <1>a, <2>1, <2>2, <2>4, <2>6, SMTT(30) DEF SpokenTo, GivenTo, IsGood
  <2>7. OffsetInv'
    BY <1>a, <2>1, <2>2, <2>5, <2>6 DEF OffsetInv, SpokenTo
  <2>8. CommitsInv'
    BY <2>1 DEF CommitsInv, GivenTo, IsGood
  <2>9. HandlerInv'
    <3>1. CASE handler = NoHandler
      BY <2>1, <3>1 DEF HandlerInv
    <3>2. CASE handler # NoHandler
      <4> DEFINE q == handler.partition
      <4>1. q \in Partitions /\ Read(handler) \in Int
        BY <3>2 DEF Types, Handlers, Read
      <4>2. acknowledged[q] \in Int /\ acknowledged'[q] \in Int /\ acknowledged'[q] >= acknowledged[q]
        BY <1>a, <2>4, <4>1
      <4>3. \A o \in 0..Read(handler) - 1 : o < acknowledged[q] => o < acknowledged'[q]
        BY <4>1, <4>2
      <4> QED  BY <2>1, <3>2, <4>3 DEF HandlerInv, IsGood, Read
    <3> QED  BY <3>1, <3>2
  <2>10. Types'
    BY <2>1, <2>2, <2>4, <2>5 DEF Types
  <2> QED  BY <2>7, <2>8, <2>9, <2>10
<1> QED
  BY <1>1, <1>2, <1>3, <1>4, <1>5, <1>6, <1>7, <1>8, <1>10, <1>11, <1>12 DEF Next

\* At least once: what the committed offset of a partition has passed was given out, and
\* the consumer has committed or resumed from its batch or a later one; unless a cursor
\* without the partition made a consumer begin at the end.
THEOREM AtLeastOnce == Spec => []CommittedWasGivenOut
<1>1. ASSUME IInv PROVE CommittedWasGivenOut
  BY <1>1 DEF IInv, OffsetInv, SpokenTo, IsGood, CommittedWasGivenOut, getCursor
<1> QED  BY <1>1, InitInv, StepInv, PTL DEF Spec

-----------------------------------------------------------------------------
(* The types: no offset is before the beginning of its partition, once a consumer has   *)
(* joined, and no event that is given out is behind the end of it.                      *)

OffsetsAreBounded == MaxOffset \in Nat

BoundsInv ==
    /\ IInv
    /\ OffsetsAreBounded
    /\ state \in {"none", "open", "ending"} /\ run \in {"none", "starting", "joined", "failed"}
    /\ \A p \in Partitions : /\ Len(log[p]) <= MaxOffset
                             /\ NoOffset <= committed[p] /\ NoOffset <= start[p]
                             /\ NoOffset <= position[p]
                             /\ run = "joined" => 0 <= position[p]
                             /\ emitted[p] \subseteq 0..Len(log[p]) - 1
    /\ \A f \in commits : 0 <= f.next
    /\ handler # NoHandler => /\ 0 <= handler.at
                              /\ handler.events \subseteq 0..Len(log[handler.partition]) - 1

LEMMA BeginIsBounded ==
    ASSUME BoundsInv, NEW p \in Partitions
    PROVE  Begin(p) \in Nat
<1>1. Len(log[p]) \in Nat /\ committed[p] \in Int /\ NoOffset <= committed[p]
  BY LenProperties DEF BoundsInv, IInv, Types
<1> QED  BY <1>1 DEF Begin, NoOffset

LEMMA BoundsInit == OffsetsAreBounded /\ Init => BoundsInv
<1> SUFFICES ASSUME OffsetsAreBounded, Init PROVE BoundsInv
  OBVIOUS
<1>1. <<>> \in Seq(Messages) /\ Len(<<>>) = 0
  BY EmptySeq
<1> QED  BY <1>1, InitInv DEF Init, BoundsInv, OffsetsAreBounded, Nowhere, NoOffset

LEMMA BoundsStep == BoundsInv /\ [Next]_vars => BoundsInv'
<1> SUFFICES ASSUME BoundsInv, [Next]_vars PROVE BoundsInv'
  OBVIOUS
<1>a. IInv /\ IInv' /\ Types /\ Types' /\ OffsetsAreBounded /\ OffsetsAreBounded'
  BY StepInv DEF BoundsInv, IInv, OffsetsAreBounded
<1>b. \A p \in Partitions :
          /\ Len(log[p]) \in Nat /\ log[p] \in Seq(Messages) /\ Len(log[p]) <= MaxOffset
          /\ committed[p] \in Int /\ start[p] \in Int /\ position[p] \in Int
          /\ NoOffset <= committed[p] /\ NoOffset <= start[p] /\ NoOffset <= position[p]
          /\ run = "joined" => 0 <= position[p]
          /\ emitted[p] \subseteq 0..Len(log[p]) - 1
  BY <1>a, LenProperties DEF Types, BoundsInv
<1>c. NoOffset \in Int /\ NoOffset <= NoOffset /\ NoOffset <= 0 /\ \A p \in Partitions : Nowhere[p] = NoOffset
  BY DEF NoOffset, Nowhere
<1>d. \A f \in commits : f.partition \in Partitions /\ f.next \in Nat
  BY <1>a DEF Types, BoundsInv
<1>e. handler # NoHandler =>
          /\ handler \in Handlers /\ handler.partition \in Partitions
          /\ handler.at \in Nat /\ handler.last \in Int
          /\ handler.last + 1 <= Len(log[handler.partition]) /\ handler.at <= handler.last + 1
          /\ handler.events \subseteq 0..Len(log[handler.partition]) - 1
  BY <1>a DEF Types, BoundsInv, Handlers
<1>1. CASE UNCHANGED vars
  BY <1>1, <1>a DEF vars, consumer, history, BoundsInv
<1>2. CASE connect \/ end \/ StartFails \/ closeConsumer
  BY <1>2, <1>a DEF connect, end, StartFails, closeConsumer, consumer, history, BoundsInv
<1>3. CASE append
  <2>1. PICK p \in Partitions, message \in Messages :
           /\ Len(log[p]) < MaxOffset
           /\ log' = [log EXCEPT ![p] = Append(@, message)]
           /\ UNCHANGED <<state, run, committed, start, position, handler, commits, emitted>>
    BY <1>3 DEF append, consumer, history, Messages
  <2>2. Len(Append(log[p], message)) = Len(log[p]) + 1
    BY <1>b, AppendProperties
  <2>3. \A q \in Partitions : Len(log'[q]) <= MaxOffset /\ Len(log'[q]) \in Nat /\ Len(log[q]) <= Len(log'[q])
    BY <1>a, <1>b, <2>1, <2>2 DEF Types, OffsetsAreBounded
  <2>4. \A q \in Partitions : 0..Len(log[q]) - 1 \subseteq 0..Len(log'[q]) - 1
    BY <1>b, <2>3
  <2>5. handler # NoHandler => handler.events \subseteq 0..Len(log'[handler.partition]) - 1
    BY <1>e, <2>4
  <2>6. \A q \in Partitions : emitted[q] \subseteq 0..Len(log'[q]) - 1
    BY <1>b, <2>4
  <2> QED  BY <1>a, <2>1, <2>3, <2>5, <2>6 DEF BoundsInv
<1>4. CASE consume
  <2>1. /\ start' \in Cursors /\ position' = Nowhere /\ handler' = NoHandler /\ commits' = {}
        /\ run' = "starting" /\ UNCHANGED <<state, log, committed, emitted>>
    BY <1>4 DEF consume
  <2>2. \A p \in Partitions : NoOffset <= start'[p]
    <3>1. \/ start' = Nowhere
          \/ \E f \in commits : start' = [Nowhere EXCEPT ![f.partition] = f.next]
      BY <2>1 DEF Cursors
    <3>2. ASSUME NEW f \in commits, start' = [Nowhere EXCEPT ![f.partition] = f.next], NEW p \in Partitions
          PROVE  NoOffset <= start'[p]
      <4>1. start'[p] = f.next \/ start'[p] = Nowhere[p]
        BY <3>2 DEF Nowhere
      <4> QED  BY <1>c, <1>d, <4>1 DEF NoOffset
    <3> QED  BY <1>c, <3>1, <3>2
  <2> QED  BY <1>a, <1>c, <2>1, <2>2 DEF BoundsInv
<1>5. CASE Joins \/ Rebalances
  <2>1. /\ UNCHANGED <<state, log, committed, start, commits, emitted>>
        /\ run' \in {"none", "starting", "joined", "failed"}
    BY <1>5 DEF Joins, Rebalances, consumer, BoundsInv
  <2>2. \A p \in Partitions : 0 <= position'[p] /\ NoOffset <= position'[p]
    <3>1. \A p \in Partitions : \/ position'[p] = Begin(p)
                                \/ position'[p] = start[p] /\ start[p] # NoOffset
      BY <1>5 DEF Joins, Rebalances
    <3> QED  BY <1>b, <3>1, BeginIsBounded DEF NoOffset
  <2>3. handler' # NoHandler => /\ handler # NoHandler /\ handler'.at = handler.at
                                /\ handler'.events = handler.events
                                /\ handler'.partition = handler.partition
    <3>1. CASE handler = NoHandler
      BY <1>5, <3>1 DEF Joins, Rebalances, NoHandler
    <3>2. CASE handler # NoHandler
      BY <1>5, <1>e, <3>2 DEF Joins, Rebalances, Handlers
    <3> QED  BY <3>1, <3>2
  <2> QED  BY <1>a, <2>1, <2>2, <2>3 DEF BoundsInv
<1>6. CASE Fetches
  <2>1. PICK p \in Partitions :
           /\ run = "joined"
           /\ handler' = [stage |-> "loop", partition |-> p, last |-> Len(log[p]) - 1, at |-> position[p],
                          events |-> {}, count |-> 0, stale |-> FALSE]
           /\ UNCHANGED <<state, run, log, committed, start, position, commits, emitted>>
    BY <1>6 DEF Fetches, consumer, history
  <2>2. handler'.at = position[p] /\ handler'.events = {}
    BY <2>1
  <2>3. 0 <= handler'.at
    BY <1>b, <2>1, <2>2
  <2> QED  BY <1>a, <2>1, <2>2, <2>3 DEF BoundsInv
<1>7. CASE Collects
  <2>1. /\ handler.stage = "loop" /\ UNCHANGED <<state, run, log, committed, start, position, commits, emitted>>
        /\ \/ handler' = NoHandler
           \/ handler' = [handler EXCEPT !.stage = "rest", !.events = @ \cup Good]
           \/ /\ Full # {}
              /\ handler' = [handler EXCEPT !.stage = "full", !.at = Min(Full) + 1,
                                            !.events = @ \cup {g \in Good : g <= Min(Full)}]
    BY <1>7 DEF Collects, consumer, history
  <2>2. handler # NoHandler
    BY <2>1 DEF NoHandler
  <2>3. (\A x \in Good : x \in handler.at..handler.last) /\ (\A x \in Full : x \in Good)
    BY DEF Good, Full
  <2>4. Good \subseteq 0..Len(log[handler.partition]) - 1
    <3>1. handler.at..handler.last \subseteq 0..Len(log[handler.partition]) - 1
      BY <1>b, <1>e, <2>2
    <3> QED  BY <2>3, <3>1
  <2>5. Full # {} => Min(Full) \in Nat
    <3>1. /\ Full \in SUBSET (handler.at..handler.last)
          /\ handler.at \in Int /\ handler.last \in Int
      <4>1. \A x \in Full : x \in handler.at..handler.last
        BY <2>3
      <4> QED  BY <1>e, <2>2, <4>1
    <3>2. Full # {} => Min(Full) \in handler.at..handler.last
      BY <3>1, MinOfSome
    <3> QED  BY <1>e, <2>2, <3>1, <3>2
  <2>6. handler' # NoHandler => /\ 0 <= handler'.at /\ handler'.partition = handler.partition
                                /\ handler'.events \subseteq handler.events \cup Good
    <3>1. CASE handler' = NoHandler
      BY <3>1
    <3>2. CASE handler' = [handler EXCEPT !.stage = "rest", !.events = @ \cup Good]
      <4>1. handler'.at = handler.at /\ handler'.partition = handler.partition
            /\ handler'.events = handler.events \cup Good
        BY <1>e, <2>2, <3>2 DEF Handlers
      <4> QED  BY <1>e, <2>2, <4>1
    <3>3. CASE /\ Full # {}
               /\ handler' = [handler EXCEPT !.stage = "full", !.at = Min(Full) + 1,
                                             !.events = @ \cup {g \in Good : g <= Min(Full)}]
      <4>1. handler'.at = Min(Full) + 1 /\ handler'.partition = handler.partition
            /\ handler'.events = handler.events \cup {g \in Good : g <= Min(Full)}
        BY <1>e, <2>2, <3>3 DEF Handlers
      <4> QED  BY <2>5, <3>3, <4>1
    <3> QED  BY <2>1, <3>1, <3>2, <3>3
  <2>7. handler' # NoHandler => handler'.events \subseteq 0..Len(log[handler'.partition]) - 1
    BY <1>e, <2>2, <2>4, <2>6
  <2> QED  BY <1>a, <2>1, <2>6, <2>7 DEF BoundsInv
<1>8. ASSUME handler # NoHandler, NEW next \in Nat,
             GivesOut(handler.events, next) \/ UNCHANGED <<emitted, commits>>
      PROVE  /\ \A p \in Partitions : emitted'[p] \subseteq 0..Len(log[p]) - 1
             /\ \A f \in commits' : 0 <= f.next
  <2>1. CASE UNCHANGED <<emitted, commits>>
    BY <1>b, <1>d, <2>1
  <2>2. CASE GivesOut(handler.events, next)
    <3>1. \A p \in Partitions : \/ emitted'[p] = emitted[p]
                                \/ p = handler.partition /\ emitted'[p] = emitted[p] \cup handler.events
      BY <1>a, <2>2 DEF GivesOut, Types
    <3>2. \A f \in commits' : f \in commits \/ f.next = next
      BY <2>2 DEF GivesOut
    <3> QED  BY <1>b, <1>d, <1>e, <1>8, <3>1, <3>2
  <2> QED  BY <1>8, <2>1, <2>2
<1>9. CASE FullBatch
  <2>1. /\ handler.stage = "full" /\ UNCHANGED <<state, run, log, committed, start, position>>
        /\ GivesOut(handler.events, handler.at) \/ UNCHANGED <<emitted, commits>>
        /\ \/ handler' = [handler EXCEPT !.stage = "loop", !.events = {}, !.count = 1]
           \/ handler' = [handler EXCEPT !.stage = "loop", !.count = 1]
    BY <1>9 DEF FullBatch, consumer
  <2>2. handler # NoHandler
    BY <2>1 DEF NoHandler
  <2>3. /\ handler'.at = handler.at /\ handler'.partition = handler.partition
        /\ handler'.events \subseteq handler.events
    BY <1>e, <2>1, <2>2 DEF Handlers
  <2> QED  BY <1>a, <1>e, <1>8, <2>1, <2>2, <2>3 DEF BoundsInv
<1>10. CASE Rest
  <2>1. /\ handler.stage = "rest" /\ handler' = NoHandler /\ UNCHANGED <<state, run, log, start>>
        /\ \/ UNCHANGED <<position, committed, emitted, commits>>
           \/ /\ Resolve(handler.partition, handler.last + 1) /\ UNCHANGED <<emitted, commits>>
           \/ /\ GivesOut(handler.events, handler.last + 1) /\ UNCHANGED <<position, committed>>
    BY <1>10 DEF Rest, consumer
  <2>2. handler # NoHandler /\ handler.last + 1 \in Nat
    BY <1>e, <2>1 DEF NoHandler
  <2>3. \A p \in Partitions :
           /\ committed'[p] = committed[p] \/ committed'[p] = handler.last + 1
           /\ position'[p] = position[p] \/ position'[p] = handler.last + 1
    BY <1>a, <2>1 DEF Resolve, Types
  <2>4. \A p \in Partitions : /\ NoOffset <= committed'[p] /\ NoOffset <= position'[p]
                              /\ run = "joined" => 0 <= position'[p]
    BY <1>b, <2>2, <2>3 DEF NoOffset
  <2> QED  BY <1>a, <1>8, <2>1, <2>2, <2>4 DEF BoundsInv
<1>11. CASE commit \/ commitCursor
  <2>1. PICK f \in commits :
           /\ committed' = [committed EXCEPT ![f.partition] = f.next]
           /\ position' = [position EXCEPT ![f.partition] = f.next] \/ position' = position
           /\ UNCHANGED <<state, run, log, start, handler, commits, emitted>>
    BY <1>11 DEF commit, commitCursor, Resolve, consumer
  <2>2. \A p \in Partitions : /\ committed'[p] = committed[p] \/ committed'[p] = f.next
                              /\ position'[p] = position[p] \/ position'[p] = f.next
    BY <1>a, <2>1 DEF Types
  <2>3. \A p \in Partitions : /\ NoOffset <= committed'[p] /\ NoOffset <= position'[p]
                              /\ run = "joined" => 0 <= position'[p]
    BY <1>b, <1>d, <2>2 DEF NoOffset
  <2> QED  BY <1>a, <2>1, <2>3 DEF BoundsInv
<1> QED
  BY <1>1, <1>2, <1>3, <1>4, <1>5, <1>6, <1>7, <1>9, <1>10, <1>11 DEF Next

LEMMA BoundsAreTypes == BoundsInv => TypeOK
<1> SUFFICES ASSUME BoundsInv PROVE TypeOK
  OBVIOUS
<1>1. \A p \in Partitions : Len(log[p]) \in Nat
  BY LenProperties DEF BoundsInv, IInv, Types
<1>2. \A p \in Partitions : committed[p] \in NoOffset..MaxOffset /\ position[p] \in NoOffset..MaxOffset
  BY <1>1 DEF BoundsInv, OffsetsAreBounded, IInv, Types, NoOffset
<1> QED  BY <1>2 DEF BoundsInv, IInv, Types, TypeOK

\* An offset names a message of its partition or its end, and what was given out was there.
THEOREM KafkaTypes == OffsetsAreBounded /\ Spec => []TypeOK
BY BoundsInit, BoundsStep, BoundsAreTypes, PTL DEF Spec

=============================================================================
