------------------------- MODULE DbTransactionsProofs -------------------------
(***************************************************************************)
(* Two theorems about the transactions of one connection, for any tree of  *)
(* calls: every variable keeps its type, the count of open transactions    *)
(* being bounded by the number of calls; and when nothing is in progress,  *)
(* a write is durable exactly if the call that made it and those around it *)
(* succeeded.                                                              *)
(***************************************************************************)
EXTENDS DbTransactions, FiniteSetTheorems, SequenceTheorems, WellFoundedInduction, TLAPS

\* Finitely many calls, each made by a program or by the callback of another.
CallsAreKnown == /\ IsFiniteSet(Txns) /\ None \notin Txns
                 /\ Parent \in [Txns -> Txns \cup {None}]

Statement(t, op, ok) == [txn |-> t, op |-> op, ok |-> ok]

Frames == [savepoint : Nat, writes : SUBSET Txns]
Statements == [txn : Txns, op : {"open", "commit", "rollback"}, ok : BOOLEAN]
Scopes == {"none", "opening", "using", "closing", "rollback", "over"}

Types == /\ CallsAreKnown
         /\ db \in Seq(Frames) /\ durable \subseteq Txns /\ wire \in Seq(Statements)
         /\ depth \in Int /\ level \in [Txns -> Int]
         /\ scope \in [Txns -> Scopes] /\ fn \in [Txns -> {"none", "running", "over"}]
         /\ committing \in [Txns -> BOOLEAN] /\ settled \in [Txns -> BOOLEAN]
         /\ signal \in [Txns -> BOOLEAN]
         /\ outcome \in [Txns -> Ending] /\ result \in [Txns -> Ending]
         /\ wrote \subseteq Txns /\ strayed \in {"no", "nested", "late"}

-----------------------------------------------------------------------------
(* The connection: what each statement does to the stack of frames. *)

\* A set of positions has a greatest one.
LEMMA Greatest ==
    ASSUME NEW n \in Nat, NEW S \in SUBSET (1..n), S # {}
    PROVE  \E k \in S : \A j \in S : j <= k
<1> DEFINE T == {m \in 0..n : n - m \in S}
<1>1. T \in SUBSET Nat /\ T # {}
  <2>1. PICK k \in S : TRUE
    OBVIOUS
  <2>2. n - k \in 0..n /\ n - (n - k) = k
    BY <2>1
  <2>3. n - k \in T
    BY <2>1, <2>2
  <2>4. T \in SUBSET Nat
    OBVIOUS
  <2> HIDE DEF T
  <2> QED  BY <2>3, <2>4
<1>2. PICK m \in T : \A l \in T : ~(<<l, m>> \in OpToRel(<, Nat))
  BY <1>1, NatLessThanWellFounded, WFMin
<1>3. ASSUME NEW j \in S PROVE j <= n - m
  <2>1. n - j \in T
    OBVIOUS
  <2>2. /\ <<n - j, m>> \in Nat \X Nat /\ <<n - j, m>>[1] = n - j
        /\ <<n - j, m>>[2] = m
    BY <1>1, <2>1
  <2>3. ~(n - j < m)
    BY <1>2, <2>1, <2>2 DEF OpToRel
  <2> QED  BY <2>3
<1>4. n - m \in S
  OBVIOUS
<1> QED  BY <1>3, <1>4

\* Where the frame of a savepoint is.
LEMMA AtFacts ==
    ASSUME Types, NEW sp \in Nat, Has(sp)
    PROVE  /\ At(sp) \in 1..Len(db) /\ At(sp) \in DOMAIN db
           /\ sp = 0 => At(sp) = 1
           /\ sp # 0 => /\ db[At(sp)].savepoint = sp
                        /\ \A j \in DOMAIN db : j > At(sp) => db[j].savepoint # sp
<1>0. db \in Seq(Frames) /\ DOMAIN db = 1..Len(db) /\ Len(db) \in Nat
  BY DEF Types
<1>1. CASE sp = 0
  <2>1. At(sp) = 1 /\ db # <<>>
    BY <1>1 DEF At, Has
  <2>2. Len(db) # 0
    BY <1>0, <2>1, EmptySeq
  <2> QED  BY <1>0, <1>1, <2>1, <2>2
<1>2. CASE sp # 0
  <2> DEFINE S == {k \in DOMAIN db : db[k].savepoint = sp}
  <2>1. S \in SUBSET (1..Len(db)) /\ S # {}
    BY <1>0, <1>2 DEF Has
  <2>2. PICK k \in S : \A j \in S : j <= k
    BY <1>0, <2>1, Greatest
  <2>3. k \in DOMAIN db /\ db[k].savepoint = sp /\ \A j \in k + 1..Len(db) : db[j].savepoint # sp
    <3>1. ASSUME NEW j \in k + 1..Len(db), db[j].savepoint = sp PROVE FALSE
      <4>1. j \in S /\ j > k
        BY <1>0, <2>1, <2>2, <3>1
      <4> QED  BY <1>0, <2>1, <2>2, <4>1
    <3> QED  BY <2>2, <3>1
  <2>4. /\ At(sp) \in DOMAIN db /\ db[At(sp)].savepoint = sp
        /\ \A j \in At(sp) + 1..Len(db) : db[j].savepoint # sp
    BY <1>2, <2>3 DEF At
  <2> QED  BY <1>0, <1>2, <2>4
<1> QED  BY <1>1, <1>2

LEMMA SavepointFacts == ASSUME NEW d \in Int PROVE /\ Savepoint(d) \in Nat
                                                   /\ d >= 0 => Savepoint(d) = d
                                                   /\ Savepoint(d) <= d \/ Savepoint(d) = 0
BY DEF Savepoint

\* SAVEPOINT and BEGIN put an empty frame on top, or are refused.
LEMMA OpenFacts ==
    ASSUME Types, NEW t \in Txns, NEW sp \in Nat, SendOpen(t, sp)
    PROVE  /\ durable' = durable
           /\ \/ db' = db /\ wire' = Append(wire, Statement(t, "open", FALSE))
              \/ /\ wire' = Append(wire, Statement(t, "open", TRUE))
                 /\ sp = 0 => db = <<>>
                 /\ db' \in Seq(Frames) /\ Len(db') = Len(db) + 1
                 /\ \A k \in 1..Len(db) : db'[k] = db[k]
                 /\ db'[Len(db) + 1] = Frame(sp)
<1>1. Frame(sp) \in Frames
  BY DEF Frame, Frames
<1>2. db \in Seq(Frames)
  BY DEF Types
<1>3. /\ Append(db, Frame(sp)) \in Seq(Frames) /\ Len(Append(db, Frame(sp))) = Len(db) + 1
      /\ \A k \in 1..Len(db) : Append(db, Frame(sp))[k] = db[k]
      /\ Append(db, Frame(sp))[Len(db) + 1] = Frame(sp)
  BY <1>1, <1>2
<1> QED  BY <1>3 DEF SendOpen, Refuse, Send, Statement

WritesFrom(k) == UNION {db[j].writes : j \in k..Len(db)}

\* COMMIT and RELEASE give the writes of the frames that end to the one below.
LEMMA CommitFacts ==
    ASSUME Types, NEW t \in Txns, NEW sp \in Nat, SendCommit(t, sp)
    PROVE  \/ /\ db' = db /\ durable' = durable
              /\ wire' = Append(wire, Statement(t, "commit", FALSE))
           \/ /\ wire' = Append(wire, Statement(t, "commit", TRUE))
              /\ Has(sp) /\ At(sp) \in DOMAIN db
              /\ \/ /\ At(sp) = 1 /\ db' = <<>>
                    /\ durable' = durable \cup WritesFrom(1)
                 \/ /\ At(sp) # 1 /\ durable' = durable
                    /\ db' \in Seq(Frames) /\ Len(db') = At(sp) - 1
                    /\ \A j \in 1..At(sp) - 2 : db'[j] = db[j]
                    /\ db'[At(sp) - 1].savepoint = db[At(sp) - 1].savepoint
                    /\ db'[At(sp) - 1].writes = db[At(sp) - 1].writes \cup WritesFrom(At(sp))
<1>1. CASE Refuse(t, "commit")
  BY <1>1 DEF Refuse, Send, Statement
<1>2. CASE ~Refuse(t, "commit")
  <2>1. Has(sp) /\ wire' = Append(wire, Statement(t, "commit", TRUE))
    BY <1>2 DEF SendCommit, Send, Statement
  <2>2. /\ At(sp) \in 1..Len(db) /\ At(sp) \in DOMAIN db /\ db \in Seq(Frames)
        /\ Len(db) \in Nat
    <3>1. db \in Seq(Frames) /\ Len(db) \in Nat
      BY DEF Types
    <3> QED  BY <2>1, <3>1, AtFacts
  <2>3. CASE At(sp) = 1
    BY <1>2, <2>1, <2>2, <2>3 DEF SendCommit, WritesFrom
  <2>4. CASE At(sp) # 1
    <3> DEFINE k == At(sp)
               rest == SubSeq(db, 1, k - 1)
    <3>1. k - 1 \in 1..Len(db) /\ k \in 1..Len(db) /\ k - 1 \in Nat
      BY <2>2, <2>4
    <3>2. /\ db' = [rest EXCEPT ![k - 1].writes = @ \cup WritesFrom(k)]
          /\ durable' = durable
      BY <1>2, <2>4 DEF SendCommit, WritesFrom
    <3>3. /\ rest \in Seq(Frames) /\ Len(rest) = k - 1
          /\ \A j \in 1..k - 1 : rest[j] = db[j]
      BY <2>2, <3>1
    <3>4. WritesFrom(k) \in SUBSET Txns
      <4>1. \A j \in k..Len(db) : db[j].writes \in SUBSET Txns
        <5>1. \A j \in k..Len(db) : db[j] \in Frames
          BY <2>2, <3>1
        <5> QED  BY <5>1 DEF Frames
      <4> QED  BY <4>1 DEF WritesFrom
    <3>5. rest[k - 1] \in Frames /\ DOMAIN rest = 1..k - 1
      BY <3>1, <3>3
    <3> DEFINE top == [savepoint |-> db[k - 1].savepoint, writes |-> db[k - 1].writes \cup WritesFrom(k)]
    <3>6. [rest[k - 1] EXCEPT !.writes = @ \cup WritesFrom(k)] = top /\ top \in Frames
      <4>1. PICK f \in Frames : rest[k - 1] = f /\ db[k - 1] = f
        BY <3>1, <3>3, <3>5
      <4>2. [f EXCEPT !.writes = @ \cup WritesFrom(k)]
                = [savepoint |-> f.savepoint, writes |-> f.writes \cup WritesFrom(k)]
        BY <4>1 DEF Frames
      <4>3. f.savepoint \in Nat /\ f.writes \cup WritesFrom(k) \in SUBSET Txns
        BY <3>4, <4>1 DEF Frames
      <4> QED  BY <4>1, <4>2, <4>3 DEF Frames
    <3>7. db' = [rest EXCEPT ![k - 1] = top]
      BY <3>2, <3>6
    <3> HIDE DEF rest, top
    <3>8. /\ db' \in Seq(Frames) /\ Len(db') = k - 1 /\ db'[k - 1] = top
          /\ \A j \in 1..k - 2 : db'[j] = rest[j]
      BY <3>1, <3>3, <3>5, <3>6, <3>7
    <3>9. \A j \in 1..k - 2 : db'[j] = db[j]
      BY <3>1, <3>3, <3>8
    <3>10. /\ db'[k - 1].savepoint = db[k - 1].savepoint
           /\ db'[k - 1].writes = db[k - 1].writes \cup WritesFrom(k)
      BY <3>8 DEF top
    <3>11. durable' = durable
      BY <3>2
    <3> QED  BY <2>1, <2>2, <2>4, <3>8, <3>9, <3>10, <3>11
  <2> QED  BY <2>3, <2>4
<1> QED  BY <1>1, <1>2

\* ROLLBACK leaves nothing, ROLLBACK TO an empty frame of the savepoint.
LEMMA RollbackFacts ==
    ASSUME Types, NEW t \in Txns, NEW sp \in Nat, SendRollback(t, sp)
    PROVE  /\ durable' = durable
           /\ \/ ~Has(sp) /\ db' = db /\ wire' = Append(wire, Statement(t, "rollback", FALSE))
              \/ /\ wire' = Append(wire, Statement(t, "rollback", TRUE))
                 /\ Has(sp) /\ At(sp) \in DOMAIN db
                 /\ \/ sp = 0 /\ db' = <<>>
                    \/ /\ sp # 0 /\ db' \in Seq(Frames) /\ Len(db') = At(sp)
                       /\ \A j \in 1..At(sp) - 1 : db'[j] = db[j]
                       /\ db'[At(sp)] = Frame(sp)
<1>1. CASE ~Has(sp)
  BY <1>1 DEF SendRollback, Refuse, Send, Statement
<1>2. CASE Has(sp)
  <2>1. wire' = Append(wire, Statement(t, "rollback", TRUE)) /\ durable' = durable
    BY <1>2 DEF SendRollback, Send, Statement
  <2>2. /\ At(sp) \in 1..Len(db) /\ At(sp) \in DOMAIN db /\ db \in Seq(Frames)
        /\ Len(db) \in Nat /\ (sp = 0 => At(sp) = 1)
    BY <1>2, AtFacts DEF Types
  <2> DEFINE rest == SubSeq(db, 1, At(sp) - 1)
  <2>3. /\ rest \in Seq(Frames) /\ Len(rest) = At(sp) - 1
        /\ \A j \in 1..At(sp) - 1 : rest[j] = db[j]
    BY <2>2
  <2>4. CASE sp = 0
    <3>1. db' = rest \o <<>>
      BY <1>2, <2>4 DEF SendRollback
    <3>2. rest = <<>>
      BY <2>2, <2>3, <2>4, EmptySeq
    <3> QED  BY <1>2, <2>1, <2>2, <2>4, <3>1, <3>2
  <2>5. CASE sp # 0
    <3>1. db' = rest \o <<Frame(sp)>>
      BY <1>2, <2>5 DEF SendRollback
    <3>2. Frame(sp) \in Frames
      BY DEF Frame, Frames
    <3>3. <<Frame(sp)>> \in Seq(Frames) /\ Len(<<Frame(sp)>>) = 1 /\ <<Frame(sp)>>[1] = Frame(sp)
      BY <3>2
    <3> DEFINE k == At(sp)
    <3> HIDE DEF rest, k
    <3>4. /\ db' \in Seq(Frames) /\ Len(db') = k
          /\ \A j \in 1..k - 1 : db'[j] = rest[j]
          /\ db'[k] = Frame(sp)
      <4>1. k \in Nat /\ k # 0 /\ Len(rest) = k - 1 /\ rest \in Seq(Frames)
        BY <2>2, <2>3 DEF k
      <4> QED  BY <3>1, <3>3, <4>1, ConcatProperties
    <3> QED  BY <1>2, <2>1, <2>2, <2>3, <2>5, <3>4 DEF k
  <2> QED  BY <2>4, <2>5
<1> QED  BY <1>1, <1>2

-----------------------------------------------------------------------------
(* Every variable keeps its type. *)

LEMMA Excepted ==
    ASSUME NEW S, NEW R, NEW f \in [S -> R], NEW x \in S, NEW v \in R
    PROVE  /\ [f EXCEPT ![x] = v] \in [S -> R] /\ [f EXCEPT ![x] = v][x] = v
           /\ \A y \in S : y # x => [f EXCEPT ![x] = v][y] = f[y]
BY Zenon

LEMMA WireGrows ==
    ASSUME Types, NEW t \in Txns, NEW op \in {"open", "commit", "rollback"}, NEW ok \in BOOLEAN
    PROVE  Append(wire, Statement(t, op, ok)) \in Seq(Statements)
<1>1. Statement(t, op, ok) \in Statements
  BY Zenon DEF Statement, Statements
<1>2. wire \in Seq(Statements)
  BY DEF Types
<1> QED  BY <1>1, <1>2, AppendProperties

\* A call ends, and a use of a transaction ends.
LEMMA EndFacts ==
    ASSUME Types, NEW t \in Txns, NEW how \in Ending, End(t, how)
    PROVE  /\ scope' \in [Txns -> Scopes] /\ result' \in [Txns -> Ending]
           /\ scope'[t] = "over" /\ result'[t] = First(result[t], how)
           /\ \A u \in Txns : u # t => scope'[u] = scope[u] /\ result'[u] = result[u]
<1>1. "over" \in Scopes /\ First(result[t], how) \in Ending
  BY DEF Scopes, First, Types
<1>2. /\ scope' = [scope EXCEPT ![t] = "over"]
      /\ result' = [result EXCEPT ![t] = First(result[t], how)]
  BY DEF End
<1>3. scope \in [Txns -> Scopes] /\ result \in [Txns -> Ending]
  BY DEF Types
<1> QED  BY <1>1, <1>2, <1>3

LEMMA EndUseFacts ==
    ASSUME Types, NEW t \in Txns, NEW how \in Ending, EndUse(t, how)
    PROVE  /\ scope' \in [Txns -> Scopes] /\ outcome' \in [Txns -> Ending]
           /\ scope[t] = "using" => scope'[t] = "closing" /\ outcome'[t] = how
           /\ scope[t] # "using" => scope'[t] = scope[t] /\ outcome'[t] = outcome[t]
           /\ \A u \in Txns : u # t => scope'[u] = scope[u] /\ outcome'[u] = outcome[u]
<1>1. "closing" \in Scopes
  BY DEF Scopes
<1>2. scope \in [Txns -> Scopes] /\ outcome \in [Txns -> Ending]
  BY DEF Types
<1>3. CASE scope[t] = "using"
  BY <1>1, <1>2, <1>3 DEF EndUse
<1>4. CASE scope[t] # "using"
  BY <1>2, <1>4 DEF EndUse
<1> QED  BY <1>3, <1>4

\* The statement that is answered is the first.
LEMMA AnswerFacts ==
    ASSUME Types, NEW op, Answer(op)
    PROVE  /\ wire # <<>> /\ Len(wire) \in Nat \ {0} /\ 1 \in DOMAIN wire
           /\ Head(wire) = wire[1] /\ wire[1] \in Statements /\ wire[1].txn \in Txns
           /\ wire[1].op = op /\ wire[1].ok \in BOOLEAN
           /\ wire' = Tail(wire) /\ wire' \in Seq(Statements) /\ Len(wire') = Len(wire) - 1
           /\ \A k \in 1..Len(wire) - 1 : wire'[k] = wire[k + 1]
           /\ db' = db /\ durable' = durable
<1>1. wire \in Seq(Statements) /\ wire # <<>>
  BY DEF Types, Answer
<1>2. Head(wire) \in Statements
  BY <1>1, HeadTailProperties
<1>3. /\ Tail(wire) \in Seq(Statements) /\ Len(Tail(wire)) = Len(wire) - 1
      /\ \A k \in 1..Len(wire) - 1 : Tail(wire)[k] = wire[k + 1]
      /\ Len(wire) \in Nat \ {0} /\ Head(wire) = wire[1] /\ 1 \in DOMAIN wire
  BY <1>1, HeadTailProperties, EmptySeq
<1>4. Head(wire).txn \in Txns /\ Head(wire).ok \in BOOLEAN
  BY <1>2, Zenon DEF Statements
<1>5. wire' = Tail(wire) /\ db' = db /\ durable' = durable /\ Head(wire).op = op
  BY DEF Answer
<1> QED  BY <1>1, <1>2, <1>3, <1>4, <1>5

LEMMA TypesInit == CallsAreKnown /\ Init => Types
<1> SUFFICES ASSUME CallsAreKnown, Init PROVE Types
  OBVIOUS
<1>1. /\ db \in Seq(Frames) /\ wire \in Seq(Statements)
  BY DEF Init
<1>2. committing \in [Txns -> BOOLEAN] /\ settled \in [Txns -> BOOLEAN] /\ signal \in [Txns -> BOOLEAN]
  BY Zenon DEF Init
<1> QED  BY <1>1, <1>2 DEF Init, Types, Scopes, Ending

LEMMA TypesCall == ASSUME Types, NEW t \in Txns, Call(t) PROVE Types'
<1>1. Savepoint(depth) \in Nat
  BY SavepointFacts DEF Types
<1>2. db' \in Seq(Frames) /\ durable' = durable /\ wire' \in Seq(Statements)
  <2>1. db \in Seq(Frames) /\ SendOpen(t, Savepoint(depth))
    BY DEF Types, Call
  <2> QED  BY <1>1, <2>1, OpenFacts, WireGrows
<1>3. scope' \in [Txns -> Scopes] /\ level' \in [Txns -> Int]
  BY DEF Call, Types, Scopes
<1> QED  BY <1>2, <1>3 DEF Types, Call, CallsAreKnown

LEMMA WriteFacts ==
    ASSUME Types, NEW t \in Txns, Write(t)
    PROVE  \/ db = <<>> /\ db' = db /\ durable' = durable \cup {t}
           \/ /\ db # <<>> /\ db' \in Seq(Frames) /\ Len(db') = Len(db) /\ Len(db) \in Nat \ {0}
              /\ durable' = durable
              /\ \A j \in 1..Len(db) : j # Len(db) => db'[j] = db[j]
              /\ db'[Len(db)].savepoint = db[Len(db)].savepoint
              /\ db'[Len(db)].writes = db[Len(db)].writes \cup {t}
<1>1. CASE db = <<>>
  BY <1>1 DEF Write
<1>2. CASE db # <<>>
  <2> DEFINE n == Len(db)
  <2>1. db \in Seq(Frames) /\ n \in Nat \ {0} /\ n \in DOMAIN db /\ DOMAIN db = 1..n
    BY <1>2, EmptySeq DEF Types
  <2>2. PICK f \in Frames : f = db[n]
    BY <2>1
  <2> DEFINE top == [savepoint |-> f.savepoint, writes |-> f.writes \cup {t}]
  <2>3. [f EXCEPT !.writes = @ \cup {t}] = top /\ top \in Frames
    <3>1. f.savepoint \in Nat /\ f.writes \cup {t} \in SUBSET Txns
      BY <2>2 DEF Frames
    <3>2. ASSUME NEW g \in Frames
          PROVE  [g EXCEPT !.writes = @ \cup {t}] = [savepoint |-> g.savepoint, writes |-> g.writes \cup {t}]
      BY DEF Frames
    <3> QED  BY <2>2, <3>1, <3>2 DEF Frames
  <2>4. db' = [db EXCEPT ![n] = [f EXCEPT !.writes = @ \cup {t}]] /\ durable' = durable
    BY <1>2, <2>2 DEF Write
  <2>5. top.savepoint = db[n].savepoint /\ top.writes = db[n].writes \cup {t}
    BY <2>2
  <2> HIDE DEF top, n
  <2>6. /\ db' \in Seq(Frames) /\ Len(db') = n /\ db'[n] = top
        /\ \A j \in 1..n : j # n => db'[j] = db[j]
    <3>1. db' = [db EXCEPT ![n] = top]
      BY <2>3, <2>4
    <3> QED  BY <2>1, <2>3, <3>1 DEF n
  <2> QED  BY <1>2, <2>1, <2>4, <2>5, <2>6 DEF n
<1> QED  BY <1>1, <1>2

LEMMA TypesWrite == ASSUME Types, NEW t \in Txns, Write(t) PROVE Types'
<1>1. db' \in Seq(Frames) /\ durable' \subseteq Txns
  BY WriteFacts DEF Types
<1>2. UNCHANGED <<wire, scope, fn, committing, settled, outcome, depth, level, signal, result>>
  BY DEF Write, tasks
<1> QED  BY <1>1, <1>2 DEF Types, Write, CallsAreKnown

LEMMA TypesCallback ==
    ASSUME Types, NEW t \in Txns, CallbackReturns(t) \/ CallbackThrows(t) PROVE Types'
<1>1. fn' \in [Txns -> {"none", "running", "over"}]
  BY DEF Types, CallbackReturns, CallbackThrows
<1>2. CASE CallbackThrows(t)
  <2>1. scope' \in [Txns -> Scopes] /\ outcome' \in [Txns -> Ending]
    BY <1>2, EndUseFacts DEF CallbackThrows, Ending
  <2> QED  BY <1>1, <1>2, <2>1 DEF Types, CallbackThrows, CallsAreKnown, connection
<1>3. CASE CallbackReturns(t) /\ ~Commits(t)
  BY <1>1, <1>3 DEF Types, CallbackReturns, CallsAreKnown, connection
<1>4. CASE CallbackReturns(t) /\ Commits(t)
  <2>1. Savepoint(level[t]) \in Nat
    BY SavepointFacts DEF Types
  <2>2. SendCommit(t, Savepoint(level[t])) /\ committing' = [committing EXCEPT ![t] = TRUE]
    BY <1>4, Zenon DEF CallbackReturns
  <2>3. committing' \in [Txns -> BOOLEAN]
    BY <2>2, Zenon DEF Types
  <2>4. db \in Seq(Frames) /\ durable \subseteq Txns
    BY DEF Types
  <2>5. WritesFrom(1) \subseteq Txns
    <3>1. \A j \in 1..Len(db) : db[j].writes \in SUBSET Txns
      <4>1. \A j \in 1..Len(db) : db[j] \in Frames
        BY <2>4
      <4> QED  BY <4>1 DEF Frames
    <3> QED  BY <3>1 DEF WritesFrom
  <2>6. db' \in Seq(Frames) /\ durable' \subseteq Txns /\ wire' \in Seq(Statements)
    <3>1. <<>> \in Seq(Frames)
      OBVIOUS
    <3>2. db' \in Seq(Frames) /\ durable' \subseteq Txns
      BY <2>1, <2>2, <2>4, <2>5, <3>1, CommitFacts
    <3> QED  BY <2>1, <2>2, <3>2, CommitFacts, WireGrows
  <2> QED  BY <1>1, <1>4, <2>3, <2>6 DEF Types, CallbackReturns, CallsAreKnown
<1> QED  BY <1>2, <1>3, <1>4

LEMMA TypesAbort == ASSUME Types, NEW t \in Txns, Abort(t) PROVE Types'
<1>1. signal' \in [Txns -> BOOLEAN]
  BY Zenon DEF Types, Abort
<1>2. scope' \in [Txns -> Scopes] /\ outcome' \in [Txns -> Ending]
  BY EndUseFacts DEF Abort, Ending
<1>3. result' \in [Txns -> Ending]
  BY DEF Types, Abort, First, Ending
<1> QED  BY <1>1, <1>2, <1>3 DEF Types, Abort, CallsAreKnown, connection

LEMMA TypesRollback == ASSUME Types, NEW t \in Txns, Rollback(t) PROVE Types'
<1>1. CASE settled[t]
  <2>1. outcome[t] \in Ending /\ End(t, outcome[t]) /\ UNCHANGED connection
    BY <1>1 DEF Types, Rollback
  <2>2. scope' \in [Txns -> Scopes] /\ result' \in [Txns -> Ending]
    BY <2>1, EndFacts
  <2> QED  BY <2>1, <2>2 DEF Types, Rollback, CallsAreKnown, connection
<1>2. CASE ~settled[t]
  <2>1. Savepoint(level[t]) \in Nat /\ db \in Seq(Frames)
    BY SavepointFacts DEF Types
  <2>2. SendRollback(t, Savepoint(level[t])) /\ scope' = [scope EXCEPT ![t] = "rollback"] /\ result' = result
    BY <1>2 DEF Rollback
  <2>3. db' \in Seq(Frames) /\ durable' = durable /\ wire' \in Seq(Statements)
    <3>1. <<>> \in Seq(Frames)
      OBVIOUS
    <3>2. db' \in Seq(Frames) /\ durable' = durable
      BY <2>1, <2>2, <3>1, RollbackFacts
    <3> QED  BY <2>1, <2>2, <3>2, RollbackFacts, WireGrows
  <2>4. scope' \in [Txns -> Scopes]
    BY <2>2 DEF Types, Scopes
  <2> QED  BY <2>2, <2>3, <2>4 DEF Types, Rollback, CallsAreKnown
<1> QED  BY <1>1, <1>2

LEMMA TypesAnswer == ASSUME Types, Opened \/ Committed \/ RolledBack PROVE Types'
<1>1. PICK op \in {"open", "commit", "rollback"} : Answer(op)
  BY DEF Opened, Committed, RolledBack
<1> DEFINE t == wire[1].txn
<1>2. /\ t \in Txns /\ t = Head(wire).txn /\ wire' \in Seq(Statements) /\ db' = db
      /\ durable' = durable
  BY <1>1, AnswerFacts
<1> HIDE DEF t
<1>3. depth \in Int /\ level \in [Txns -> Int]
  BY DEF Types
<1>4. CASE Opened
  <2>1. CASE End(t, "error") /\ UNCHANGED <<depth, fn, outcome>>
    <3>1. scope' \in [Txns -> Scopes] /\ result' \in [Txns -> Ending]
      BY <1>2, <2>1, EndFacts DEF Ending
    <3> QED  BY <1>2, <1>4, <2>1, <3>1 DEF Types, Opened, CallsAreKnown
  <2>2. CASE /\ depth' = level[t] + 1 /\ scope' \in [Txns -> Scopes] /\ outcome' \in [Txns -> Ending]
             /\ fn' \in [Txns -> {"none", "running", "over"}] /\ result' = result
    <3>1. depth' \in Int
      BY <1>2, <1>3, <2>2
    <3> QED  BY <1>2, <1>4, <2>2, <3>1 DEF Types, Opened, CallsAreKnown
  <2>3. CASE Head(wire).ok /\ signal[t]
    <3>1. /\ depth' = level[t] + 1 /\ scope' = [scope EXCEPT ![t] = "closing"]
          /\ outcome' = [outcome EXCEPT ![t] = "error"] /\ fn' = fn /\ result' = result
      BY <1>2, <1>4, <2>3 DEF Opened
    <3> QED  BY <2>2, <3>1 DEF Types, Scopes, Ending
  <2>4. CASE Head(wire).ok /\ ~signal[t]
    <3>1. /\ depth' = level[t] + 1 /\ scope' = [scope EXCEPT ![t] = "using"]
          /\ fn' = [fn EXCEPT ![t] = "running"] /\ outcome' = outcome /\ result' = result
      BY <1>2, <1>4, <2>4 DEF Opened
    <3> QED  BY <2>2, <3>1 DEF Types, Scopes, Ending
  <2> QED  BY <1>2, <1>4, <2>1, <2>3, <2>4 DEF Opened
<1>5. ASSUME Settle(t) \/ UNCHANGED <<settled, depth>>
      PROVE  settled' \in [Txns -> BOOLEAN] /\ depth' \in Int
  <2>1. CASE Settle(t)
    <3>1. settled' = [settled EXCEPT ![t] = TRUE] /\ depth' = depth - 1
      BY <2>1 DEF Settle
    <3>2. settled' \in [Txns -> BOOLEAN]
      BY <3>1, Zenon DEF Types
    <3> QED  BY <1>3, <3>1, <3>2
  <2>2. CASE UNCHANGED <<settled, depth>>
    BY <2>2 DEF Types
  <2> QED  BY <1>5, <2>1, <2>2
<1>6. CASE Committed
  <2>1. \E how \in Ending : EndUse(t, how)
    BY <1>2, <1>6 DEF Committed, Ending
  <2>2. scope' \in [Txns -> Scopes] /\ outcome' \in [Txns -> Ending]
    BY <1>2, <2>1, EndUseFacts
  <2>3. settled' \in [Txns -> BOOLEAN] /\ depth' \in Int
    BY <1>2, <1>5, <1>6 DEF Committed
  <2> QED  BY <1>2, <1>6, <2>2, <2>3 DEF Types, Committed, CallsAreKnown
<1>7. CASE RolledBack
  <2>1. End(t, outcome[t]) /\ outcome[t] \in Ending
    BY <1>2, <1>7 DEF RolledBack, Types
  <2>2. scope' \in [Txns -> Scopes] /\ result' \in [Txns -> Ending]
    BY <1>2, <2>1, EndFacts
  <2>3. settled' \in [Txns -> BOOLEAN] /\ depth' \in Int
    BY <1>2, <1>5, <1>7 DEF RolledBack
  <2> QED  BY <1>2, <1>7, <2>2, <2>3 DEF Types, RolledBack, CallsAreKnown
<1> QED  BY <1>4, <1>6, <1>7

LEMMA TypesStep == Types /\ [Next]_vars => Types'
<1> SUFFICES ASSUME Types, [Next]_vars PROVE Types'
  OBVIOUS
<1>1. CASE UNCHANGED vars
  BY <1>1 DEF Types, vars, connection, tasks, CallsAreKnown
<1>2. CASE Next
  BY <1>2, TypesCall, TypesWrite, TypesCallback, TypesAbort, TypesRollback, TypesAnswer DEF Next
<1> QED  BY <1>1, <1>2

-----------------------------------------------------------------------------
(* What a step does to the call it is of, and that it leaves the other calls alone. *)

Same(t) == /\ level'[t] = level[t] /\ scope'[t] = scope[t] /\ fn'[t] = fn[t]
           /\ committing'[t] = committing[t] /\ settled'[t] = settled[t]
           /\ signal'[t] = signal[t] /\ outcome'[t] = outcome[t] /\ result'[t] = result[t]

OthersSame(t) == \A u \in Txns : u # t => Same(u)

LEMMA CallEffect ==
    ASSUME Types, NEW t \in Txns, Call(t)
    PROVE  /\ OthersSame(t) /\ scope[t] = "none" /\ scope'[t] = "opening" /\ level'[t] = depth
           /\ fn' = fn /\ committing' = committing /\ settled' = settled /\ signal' = signal
           /\ outcome' = outcome /\ result' = result /\ depth' = depth /\ wrote' = wrote
<1>1. /\ scope[t] = "none" /\ scope' = [scope EXCEPT ![t] = "opening"]
      /\ level' = [level EXCEPT ![t] = depth]
      /\ UNCHANGED <<depth, fn, committing, settled, signal, outcome, result, wrote>>
  BY DEF Call
<1>2. scope \in [Txns -> Scopes] /\ level \in [Txns -> Int]
  BY DEF Types
<1> QED  BY <1>1, <1>2 DEF OthersSame, Same

LEMMA WriteEffect ==
    ASSUME NEW t, Write(t)
    PROVE  /\ \A u : Same(u) /\ scope' = scope
           /\ wire' = wire /\ depth' = depth /\ wrote' = wrote \cup {t}
           /\ fn[t] = "running" /\ ~Awaiting(t)
BY DEF Write, Same, tasks

LEMMA ReturnEffect ==
    ASSUME Types, NEW t \in Txns, CallbackReturns(t)
    PROVE  /\ OthersSame(t) /\ fn[t] = "running" /\ ~Awaiting(t) /\ fn'[t] = "over"
           /\ committing'[t] = (committing[t] \/ ~signal[t])
           /\ ~signal[t] => SendCommit(t, Savepoint(level[t]))
           /\ signal[t] => UNCHANGED connection
           /\ level' = level /\ scope' = scope /\ settled' = settled /\ signal' = signal
           /\ outcome' = outcome /\ result' = result /\ depth' = depth /\ wrote' = wrote
           /\ strayed' = strayed
<1>1. /\ fn[t] = "running" /\ ~Awaiting(t) /\ fn' = [fn EXCEPT ![t] = "over"]
      /\ UNCHANGED <<depth, level, scope, settled, signal, outcome, result, wrote, strayed>>
  BY DEF CallbackReturns
<1>2. /\ ~signal[t] => /\ SendCommit(t, Savepoint(level[t]))
                       /\ committing' = [committing EXCEPT ![t] = TRUE]
      /\ signal[t] => UNCHANGED connection /\ committing' = committing
  BY Zenon DEF CallbackReturns, Commits
<1>3. fn'[t] = "over" /\ \A u \in Txns : u # t => fn'[u] = fn[u]
  BY <1>1 DEF Types
<1>4. /\ committing'[t] = (committing[t] \/ ~signal[t])
      /\ \A u \in Txns : u # t => committing'[u] = committing[u]
  <2>1. CASE signal[t]
    BY <1>2, <2>1, Zenon DEF Types
  <2>2. CASE ~signal[t]
    BY <1>2, <2>2, Zenon DEF Types
  <2> QED  BY <2>1, <2>2
<1> QED  BY <1>1, <1>2, <1>3, <1>4 DEF OthersSame, Same

LEMMA ThrowEffect ==
    ASSUME Types, NEW t \in Txns, CallbackThrows(t)
    PROVE  /\ OthersSame(t) /\ fn[t] = "running" /\ ~Awaiting(t) /\ fn'[t] = "over"
           /\ scope[t] = "using" => scope'[t] = "closing" /\ outcome'[t] = "error"
           /\ scope[t] # "using" => scope'[t] = scope[t] /\ outcome'[t] = outcome[t]
           /\ UNCHANGED connection
           /\ level' = level /\ committing' = committing /\ settled' = settled /\ signal' = signal
           /\ result' = result /\ depth' = depth /\ wrote' = wrote /\ strayed' = strayed
<1>1. /\ fn[t] = "running" /\ ~Awaiting(t) /\ fn' = [fn EXCEPT ![t] = "over"]
      /\ EndUse(t, "error") /\ UNCHANGED connection
      /\ UNCHANGED <<depth, level, committing, settled, signal, result, wrote, strayed>>
  BY DEF CallbackThrows
<1>2. fn'[t] = "over" /\ \A u \in Txns : u # t => fn'[u] = fn[u]
  BY <1>1 DEF Types
<1> QED  BY <1>1, <1>2, EndUseFacts DEF OthersSame, Same, Ending

LEMMA AbortEffect ==
    ASSUME Types, NEW t \in Txns, Abort(t)
    PROVE  /\ OthersSame(t) /\ Parent[t] = None /\ InProgress(t) /\ ~signal[t] /\ signal'[t] = TRUE
           /\ result'[t] = First(result[t], "error")
           /\ scope[t] = "using" => scope'[t] = "closing" /\ outcome'[t] = "error"
           /\ scope[t] # "using" => scope'[t] = scope[t] /\ outcome'[t] = outcome[t]
           /\ UNCHANGED connection
           /\ level' = level /\ committing' = committing /\ settled' = settled /\ fn' = fn
           /\ depth' = depth /\ wrote' = wrote
           /\ strayed' = IF Awaiting(t) /\ strayed = "no" THEN "nested" ELSE strayed
<1>1. /\ Parent[t] = None /\ InProgress(t) /\ ~signal[t]
      /\ result' = [result EXCEPT ![t] = First(result[t], "error")]
      /\ EndUse(t, "error") /\ UNCHANGED connection
      /\ UNCHANGED <<depth, level, fn, committing, settled, wrote>>
      /\ strayed' = IF Awaiting(t) /\ strayed = "no" THEN "nested" ELSE strayed
  BY DEF Abort
<1>2. signal'[t] = TRUE /\ \A u \in Txns : u # t => signal'[u] = signal[u]
  BY Zenon DEF Abort, Types
<1>3. /\ result'[t] = First(result[t], "error")
      /\ \A u \in Txns : u # t => result'[u] = result[u]
  BY <1>1 DEF Types
<1> QED  BY <1>1, <1>2, <1>3, EndUseFacts DEF OthersSame, Same, Ending

LEMMA RollbackEffect ==
    ASSUME Types, NEW t \in Txns, Rollback(t)
    PROVE  /\ OthersSame(t) /\ scope[t] = "closing"
           /\ settled[t] => /\ scope'[t] = "over" /\ result'[t] = First(result[t], outcome[t])
                            /\ UNCHANGED connection
           /\ ~settled[t] => /\ scope'[t] = "rollback" /\ result'[t] = result[t]
                             /\ SendRollback(t, Savepoint(level[t]))
           /\ level' = level /\ committing' = committing /\ settled' = settled /\ signal' = signal
           /\ outcome' = outcome /\ fn' = fn /\ depth' = depth /\ wrote' = wrote
           /\ strayed' = strayed
<1>1. /\ scope[t] = "closing"
      /\ settled[t] => End(t, outcome[t]) /\ UNCHANGED connection
      /\ ~settled[t] => /\ SendRollback(t, Savepoint(level[t]))
                        /\ scope' = [scope EXCEPT ![t] = "rollback"] /\ result' = result
      /\ UNCHANGED <<depth, level, fn, committing, settled, signal, outcome, wrote, strayed>>
  BY DEF Rollback
<1>2. outcome[t] \in Ending
  BY DEF Types
<1>3. CASE settled[t]
  BY <1>1, <1>2, <1>3, EndFacts DEF OthersSame, Same
<1>4. CASE ~settled[t]
  <2>1. scope'[t] = "rollback" /\ \A u \in Txns : u # t => scope'[u] = scope[u]
    BY <1>1, <1>4 DEF Types
  <2> QED  BY <1>1, <1>4, <2>1 DEF OthersSame, Same
<1> QED  BY <1>3, <1>4

LEMMA OpenedEffect ==
    ASSUME Types, Opened, NEW t, t = wire[1].txn
    PROVE  /\ OthersSame(t) /\ Answer("open") /\ t \in Txns
           /\ ~wire[1].ok => /\ scope'[t] = "over" /\ result'[t] = First(result[t], "error")
                             /\ depth' = depth /\ fn' = fn /\ outcome' = outcome
           /\ wire[1].ok => depth' = level[t] + 1 /\ result' = result
           /\ wire[1].ok /\ signal[t] => /\ scope'[t] = "closing" /\ outcome'[t] = "error" /\ fn' = fn
           /\ wire[1].ok /\ ~signal[t] => /\ scope'[t] = "using" /\ fn'[t] = "running"
                                          /\ outcome' = outcome
           /\ level' = level /\ committing' = committing /\ settled' = settled /\ signal' = signal
           /\ wrote' = wrote /\ strayed' = strayed
<1>1. t \in Txns /\ t = Head(wire).txn /\ Head(wire).ok = wire[1].ok /\ wire[1].ok \in BOOLEAN
  BY AnswerFacts DEF Opened
<1>2. Answer("open") /\ UNCHANGED <<level, committing, settled, signal, wrote, strayed>>
  BY DEF Opened
<1>3. scope \in [Txns -> Scopes] /\ outcome \in [Txns -> Ending] /\ fn \in [Txns -> {"none", "running", "over"}]
  BY DEF Types
<1>4. CASE ~wire[1].ok
  <2>1. End(t, "error") /\ UNCHANGED <<depth, fn, outcome>>
    BY <1>1, <1>4 DEF Opened
  <2> QED  BY <1>1, <1>2, <1>4, <2>1, EndFacts DEF OthersSame, Same, Ending
<1>5. CASE wire[1].ok /\ signal[t]
  <2>1. /\ depth' = level[t] + 1 /\ scope' = [scope EXCEPT ![t] = "closing"]
        /\ outcome' = [outcome EXCEPT ![t] = "error"] /\ fn' = fn /\ result' = result
    BY <1>1, <1>5 DEF Opened
  <2> QED  BY <1>1, <1>2, <1>3, <1>5, <2>1 DEF OthersSame, Same
<1>6. CASE wire[1].ok /\ ~signal[t]
  <2>1. /\ depth' = level[t] + 1 /\ scope' = [scope EXCEPT ![t] = "using"]
        /\ fn' = [fn EXCEPT ![t] = "running"] /\ outcome' = outcome /\ result' = result
    BY <1>1, <1>6 DEF Opened
  <2> QED  BY <1>1, <1>2, <1>3, <1>6, <2>1 DEF OthersSame, Same
<1> QED  BY <1>4, <1>5, <1>6

LEMMA SettleFacts ==
    ASSUME Types, NEW t \in Txns, NEW ok \in BOOLEAN,
           IF ok THEN Settle(t) ELSE UNCHANGED <<settled, depth>>
    PROVE  /\ settled'[t] = (settled[t] \/ ok) /\ depth' = IF ok THEN depth - 1 ELSE depth
           /\ \A u \in Txns : u # t => settled'[u] = settled[u]
<1>1. CASE ok
  BY <1>1, Zenon DEF Settle, Types
<1>2. CASE ~ok
  BY <1>2, Zenon DEF Types
<1> QED  BY <1>1, <1>2

LEMMA CommittedEffect ==
    ASSUME Types, Committed, NEW t, t = wire[1].txn
    PROVE  /\ OthersSame(t) /\ Answer("commit") /\ t \in Txns
           /\ settled'[t] = (settled[t] \/ wire[1].ok)
           /\ depth' = IF wire[1].ok THEN depth - 1 ELSE depth
           /\ scope[t] = "using" => /\ scope'[t] = "closing"
                                    /\ outcome'[t] = IF wire[1].ok THEN "value" ELSE "error"
           /\ scope[t] # "using" => scope'[t] = scope[t] /\ outcome'[t] = outcome[t]
           /\ level' = level /\ fn' = fn /\ committing' = committing /\ signal' = signal
           /\ result' = result /\ wrote' = wrote /\ strayed' = strayed
<1>1. t \in Txns /\ t = Head(wire).txn /\ Head(wire).ok = wire[1].ok /\ wire[1].ok \in BOOLEAN
  BY AnswerFacts DEF Committed
<1>2. /\ Answer("commit") /\ UNCHANGED <<level, fn, committing, signal, result, wrote, strayed>>
      /\ IF wire[1].ok THEN Settle(t) ELSE UNCHANGED <<settled, depth>>
      /\ EndUse(t, IF wire[1].ok THEN "value" ELSE "error")
  BY <1>1 DEF Committed
<1>3. (IF wire[1].ok THEN "value" ELSE "error") \in Ending
  BY DEF Ending
<1>4. /\ settled'[t] = (settled[t] \/ wire[1].ok) /\ depth' = IF wire[1].ok THEN depth - 1 ELSE depth
      /\ \A u \in Txns : u # t => settled'[u] = settled[u]
  BY <1>1, <1>2, SettleFacts
<1> QED  BY <1>1, <1>2, <1>3, <1>4, EndUseFacts DEF OthersSame, Same

LEMMA RolledBackEffect ==
    ASSUME Types, RolledBack, NEW t, t = wire[1].txn
    PROVE  /\ OthersSame(t) /\ Answer("rollback") /\ t \in Txns
           /\ settled'[t] = (settled[t] \/ wire[1].ok)
           /\ depth' = IF wire[1].ok THEN depth - 1 ELSE depth
           /\ scope'[t] = "over" /\ result'[t] = First(result[t], outcome[t])
           /\ level' = level /\ fn' = fn /\ committing' = committing /\ signal' = signal
           /\ outcome' = outcome /\ wrote' = wrote /\ strayed' = strayed
<1>1. t \in Txns /\ t = Head(wire).txn /\ Head(wire).ok = wire[1].ok /\ wire[1].ok \in BOOLEAN
  BY AnswerFacts DEF RolledBack
<1>2. /\ Answer("rollback") /\ UNCHANGED <<level, fn, committing, signal, outcome, wrote, strayed>>
      /\ IF wire[1].ok THEN Settle(t) ELSE UNCHANGED <<settled, depth>>
      /\ End(t, outcome[t])
  BY <1>1 DEF RolledBack
<1>3. outcome[t] \in Ending
  BY <1>1 DEF Types
<1>4. /\ settled'[t] = (settled[t] \/ wire[1].ok) /\ depth' = IF wire[1].ok THEN depth - 1 ELSE depth
      /\ \A u \in Txns : u # t => settled'[u] = settled[u]
  BY <1>1, <1>2, SettleFacts
<1> QED  BY <1>1, <1>2, <1>3, <1>4, EndFacts DEF OthersSame, Same

-----------------------------------------------------------------------------
(* What is known of a call and of the statements on their way, also after a callback has  *)
(* gone on: only a call that was aborted is rolled back while its commit is under way.    *)

CallFits(t) ==
    /\ fn[t] = "running" => ~committing[t] /\ (scope[t] = "using" \/ signal[t])
    /\ signal[t] => Parent[t] = None /\ scope[t] # "none"
    /\ committing[t] => fn[t] = "over"
    /\ scope[t] \in {"none", "opening"} => fn[t] = "none"
    /\ scope[t] \in {"none", "opening", "using"} => ~settled[t]

StatementFits(t, op) ==
    /\ op = "open" => scope[t] = "opening"
    /\ op = "commit" => /\ committing[t] /\ ~settled[t]
                        /\ scope[t] = "using" \/ (signal[t] /\ scope[t] \in {"closing", "rollback"})
    /\ op = "rollback" => scope[t] = "rollback" /\ (settled[t] => signal[t])

InOrder(s, r) == s.txn = r.txn => s.op = "commit" /\ r.op = "rollback" /\ signal[r.txn]

WireFits == \A k \in 1..Len(wire) : /\ StatementFits(wire[k].txn, wire[k].op)
                                    /\ \A j \in 1..k - 1 : InOrder(wire[j], wire[k])

Fits == WireFits /\ \A t \in Txns : CallFits(t)

LEMMA WireTypes ==
    ASSUME Types, NEW k \in 1..Len(wire)
    PROVE  wire[k].txn \in Txns /\ wire[k].op \in {"open", "commit", "rollback"}
<1>1. wire[k] \in Statements
  BY DEF Types
<1> QED  BY <1>1, Zenon DEF Statements

LEMMA FitsStay ==
    ASSUME Types, NEW t \in Txns, OthersSame(t), Fits, CallFits(t)',
           wire' = wire, signal[t] => signal'[t],
           \A op \in {"open", "commit", "rollback"} : StatementFits(t, op) => StatementFits(t, op)'
    PROVE  Fits'
<1>1. wire \in Seq(Statements) /\ Len(wire) \in Nat
  BY DEF Types
<1>2. ASSUME NEW k \in 1..Len(wire) PROVE wire[k].txn \in Txns /\ wire[k].op \in {"open", "commit", "rollback"}
  BY <1>2, WireTypes
<1>3. ASSUME NEW u \in Txns PROVE CallFits(u)'
  BY <1>3 DEF OthersSame, Same, Fits, CallFits
<1>4. ASSUME NEW u \in Txns, NEW op \in {"open", "commit", "rollback"}, StatementFits(u, op)
      PROVE  StatementFits(u, op)'
  BY <1>4 DEF OthersSame, Same, StatementFits
<1>5. ASSUME NEW u \in Txns, signal[u] PROVE signal'[u]
  BY <1>5 DEF OthersSame, Same
<1>6. ASSUME NEW k \in 1..Len(wire)
      PROVE  /\ StatementFits(wire[k].txn, wire[k].op)'
             /\ \A j \in 1..k - 1 : InOrder(wire[j], wire[k])'
  <2>1. StatementFits(wire[k].txn, wire[k].op)'
    BY <1>2, <1>4 DEF Fits, WireFits
  <2>2. ASSUME NEW j \in 1..k - 1 PROVE InOrder(wire[j], wire[k])'
    BY <1>1, <1>2, <1>5 DEF Fits, WireFits, InOrder
  <2> QED  BY <2>1, <2>2
<1> QED  BY <1>3, <1>6 DEF Fits, WireFits

\* A statement is sent.
LEMMA FitsGrow ==
    ASSUME Types, NEW t \in Txns, OthersSame(t), Fits, CallFits(t)', signal[t] => signal'[t],
           NEW op \in {"open", "commit", "rollback"}, NEW ok \in BOOLEAN,
           wire' = Append(wire, Statement(t, op, ok)), StatementFits(t, op)',
           \A o \in {"open", "commit", "rollback"} : StatementFits(t, o) =>
               StatementFits(t, o)' /\ o = "commit" /\ op = "rollback" /\ signal'[t]
    PROVE  Fits'
<1> DEFINE n == Len(wire)
<1>1. wire \in Seq(Statements) /\ n \in Nat
  BY DEF Types
<1>2. ASSUME NEW k \in 1..n PROVE wire[k].txn \in Txns /\ wire[k].op \in {"open", "commit", "rollback"}
  BY <1>2, WireTypes
<1>3. ASSUME NEW u \in Txns PROVE CallFits(u)'
  BY <1>3 DEF OthersSame, Same, Fits, CallFits
<1>4. ASSUME NEW u \in Txns, NEW o \in {"open", "commit", "rollback"}, StatementFits(u, o)
      PROVE  StatementFits(u, o)'
  BY <1>4 DEF OthersSame, Same, StatementFits
<1>5. ASSUME NEW u \in Txns, signal[u] PROVE signal'[u]
  BY <1>5 DEF OthersSame, Same
<1>6. /\ Len(wire') = n + 1 /\ wire'[n + 1] = Statement(t, op, ok)
      /\ \A k \in 1..n : wire'[k] = wire[k]
  BY <1>1
<1>7. Statement(t, op, ok).txn = t /\ Statement(t, op, ok).op = op
  BY DEF Statement
<1>8. ASSUME NEW k \in 1..n
      PROVE  /\ StatementFits(wire[k].txn, wire[k].op)'
             /\ \A j \in 1..k - 1 : signal'[wire[k].txn] \/ ~signal[wire[k].txn]
  BY <1>2, <1>4, <1>5 DEF Fits, WireFits
<1> HIDE DEF n
<1>9. ASSUME NEW k \in 1..n + 1, NEW j \in 1..k - 1 PROVE InOrder(wire[j], wire[k])'
  <2>1. CASE k # n + 1
    <3>1. k \in 1..n /\ j \in 1..n /\ wire'[k] = wire[k] /\ wire'[j] = wire[j]
      BY <1>1, <1>6, <2>1
    <3>2. InOrder(wire[j], wire[k]) /\ wire[k].txn \in Txns
      BY <1>2, <3>1 DEF Fits, WireFits, n
    <3> QED  BY <1>5, <3>1, <3>2 DEF InOrder
  <2>2. CASE k = n + 1
    <3>1. j \in 1..n /\ wire'[j] = wire[j] /\ wire'[k].txn = t /\ wire'[k].op = op
      BY <1>1, <1>6, <1>7, <2>2
    <3>2. wire[j].txn = t => wire[j].op = "commit" /\ op = "rollback" /\ signal'[t]
      BY <1>2, <3>1 DEF Fits, WireFits, n
    <3> QED  BY <3>1, <3>2 DEF InOrder
  <2> QED  BY <2>1, <2>2
<1>10. ASSUME NEW k \in 1..n + 1 PROVE StatementFits(wire[k].txn, wire[k].op)'
  <2>1. CASE k # n + 1
    <3>1. k \in 1..n /\ wire'[k] = wire[k]
      BY <1>1, <1>6, <2>1
    <3> QED  BY <1>8, <3>1 DEF StatementFits
  <2>2. CASE k = n + 1
    BY <1>6, <1>7, <2>2 DEF StatementFits
  <2> QED  BY <2>1, <2>2
<1> QED  BY <1>3, <1>6, <1>9, <1>10 DEF Fits, WireFits

\* A statement is answered.
LEMMA FitsShrink ==
    ASSUME Types, NEW op, Answer(op), Fits, NEW t, t = wire[1].txn, OthersSame(t), CallFits(t)',
           signal' = signal,
           op = "commit" /\ signal[t] /\ StatementFits(t, "rollback") => StatementFits(t, "rollback")'
    PROVE  Fits'
<1> DEFINE n == Len(wire)
<1>1. /\ wire \in Seq(Statements) /\ n \in Nat \ {0} /\ Len(wire') = n - 1 /\ t \in Txns
      /\ wire[1].op = op /\ \A k \in 1..n - 1 : wire'[k] = wire[k + 1]
  BY AnswerFacts DEF Types
<1>2. ASSUME NEW k \in 1..n PROVE wire[k].txn \in Txns /\ wire[k].op \in {"open", "commit", "rollback"}
  BY <1>2, WireTypes
<1>3. ASSUME NEW u \in Txns PROVE CallFits(u)'
  BY <1>3 DEF OthersSame, Same, Fits, CallFits
<1>4. ASSUME NEW k \in 1..n, NEW j \in 1..k - 1
      PROVE  InOrder(wire[j], wire[k]) /\ StatementFits(wire[k].txn, wire[k].op)
  BY DEF Fits, WireFits
<1> HIDE DEF n
<1>5. ASSUME NEW k \in 1..n - 1 PROVE StatementFits(wire[k].txn, wire[k].op)'
  <2>1. /\ k + 1 \in 1..n /\ 1 \in 1..(k + 1) - 1 /\ wire'[k] = wire[k + 1]
    BY <1>1
  <2>2. /\ wire[k + 1].txn \in Txns /\ InOrder(wire[1], wire[k + 1])
        /\ StatementFits(wire[k + 1].txn, wire[k + 1].op)
    BY <1>2, <1>4, <2>1
  <2> PICK u, o : u = wire[k + 1].txn /\ o = wire[k + 1].op
    OBVIOUS
  <2>3. StatementFits(u, o)'
    <3>1. CASE u # t
      BY <2>2, <3>1 DEF OthersSame, Same, StatementFits
    <3>2. CASE u = t
      BY <1>1, <2>2, <3>2 DEF InOrder
    <3> QED  BY <3>1, <3>2
  <2> QED  BY <2>1, <2>3 DEF StatementFits
<1>6. ASSUME NEW k \in 1..n - 1, NEW j \in 1..k - 1 PROVE InOrder(wire[j], wire[k])'
  <2>1. /\ k + 1 \in 1..n /\ j + 1 \in 1..(k + 1) - 1 /\ wire'[k] = wire[k + 1] /\ wire'[j] = wire[j + 1]
    BY <1>1
  <2>2. InOrder(wire[j + 1], wire[k + 1])
    BY <1>4, <2>1
  <2> QED  BY <2>1, <2>2 DEF InOrder
<1> QED  BY <1>1, <1>3, <1>5, <1>6 DEF Fits, WireFits

LEMMA FirstFits ==
    ASSUME Types, NEW op, Answer(op), Fits
    PROVE  StatementFits(wire[1].txn, op) /\ CallFits(wire[1].txn)
BY AnswerFacts DEF Fits, WireFits

LEMMA FitsInit == CallsAreKnown /\ Init => Fits
<1> SUFFICES ASSUME CallsAreKnown, Init PROVE Fits
  OBVIOUS
<1>1. wire = <<>>
  BY DEF Init
<1>2. Len(wire) = 0
  BY <1>1
<1>3. ASSUME NEW t \in Txns PROVE CallFits(t)
  BY DEF Init, CallFits
<1> QED  BY <1>2, <1>3 DEF Fits, WireFits

LEMMA FitsCalls ==
    ASSUME Types, Fits, NEW t \in Txns,
           Call(t) \/ Write(t) \/ CallbackReturns(t) \/ CallbackThrows(t)
    PROVE  Fits'
<1>1. CallFits(t)
  BY DEF Fits
<1>2. CASE Call(t)
  <2>1. CallFits(t)' /\ StatementFits(t, "open")'
    BY <1>1, <1>2, CallEffect DEF CallFits, StatementFits
  <2>2. PICK ok \in BOOLEAN : wire' = Append(wire, Statement(t, "open", ok))
    <3>1. SendOpen(t, Savepoint(depth)) /\ Savepoint(depth) \in Nat
      BY <1>2, SavepointFacts DEF Call, Types
    <3> QED  BY <3>1, OpenFacts
  <2>3. \A o \in {"open", "commit", "rollback"} : ~StatementFits(t, o)
    BY <1>2, CallEffect DEF StatementFits
  <2>4. OthersSame(t) /\ (signal[t] => signal'[t])
    BY <1>2, CallEffect
  <2> QED  BY <2>1, <2>2, <2>3, <2>4, FitsGrow, Zenon
<1>3. CASE Write(t)
  <2>1. OthersSame(t) /\ Same(t) /\ wire' = wire
    BY <1>3, WriteEffect DEF OthersSame
  <2>2. /\ CallFits(t)' /\ (signal[t] => signal'[t])
        /\ \A op \in {"open", "commit", "rollback"} : StatementFits(t, op) => StatementFits(t, op)'
    BY <1>1, <2>1 DEF Same, CallFits, StatementFits
  <2> QED  BY <2>1, <2>2, FitsStay
<1>4. CASE CallbackReturns(t) /\ signal[t]
  <2>1. /\ CallFits(t)' /\ OthersSame(t) /\ wire' = wire /\ (signal[t] => signal'[t])
        /\ \A op \in {"open", "commit", "rollback"} : StatementFits(t, op) => StatementFits(t, op)'
    BY <1>1, <1>4, ReturnEffect DEF CallFits, StatementFits, connection
  <2> QED  BY <2>1, FitsStay
<1>5. CASE CallbackReturns(t) /\ ~signal[t]
  <2>1. PICK ok \in BOOLEAN : wire' = Append(wire, Statement(t, "commit", ok))
    <3>1. SendCommit(t, Savepoint(level[t])) /\ Savepoint(level[t]) \in Nat
      BY <1>5, ReturnEffect, SavepointFacts DEF Types
    <3> QED  BY <3>1, CommitFacts
  <2>2. /\ fn[t] = "running" /\ scope[t] = "using" /\ ~committing[t] /\ ~settled[t]
    BY <1>1, <1>5, ReturnEffect DEF CallFits
  <2>3. /\ fn'[t] = "over" /\ committing'[t] /\ scope'[t] = "using" /\ ~settled'[t] /\ ~signal'[t]
    BY <1>5, <2>2, ReturnEffect
  <2>4. CallFits(t)' /\ StatementFits(t, "commit")'
    BY <2>3 DEF CallFits, StatementFits
  <2>5. \A o \in {"open", "commit", "rollback"} : ~StatementFits(t, o)
    BY <2>2 DEF StatementFits
  <2>6. OthersSame(t) /\ (signal[t] => signal'[t])
    BY <1>5, ReturnEffect
  <2> QED  BY <2>1, <2>4, <2>5, <2>6, FitsGrow, Zenon
<1>6. CASE CallbackThrows(t)
  <2>1. OthersSame(t) /\ wire' = wire /\ (signal[t] => signal'[t])
    BY <1>6, ThrowEffect DEF connection
  <2>2. CallFits(t)'
    BY <1>1, <1>6, ThrowEffect DEF CallFits
  <2>3. \A op \in {"open", "commit", "rollback"} : StatementFits(t, op) => StatementFits(t, op)'
    BY <1>1, <1>6, ThrowEffect DEF CallFits, StatementFits
  <2> QED  BY <2>1, <2>2, <2>3, FitsStay
<1> QED  BY <1>2, <1>3, <1>4, <1>5, <1>6

LEMMA FitsRest ==
    ASSUME Types, Fits, NEW t \in Txns, Abort(t) \/ Rollback(t)
    PROVE  Fits'
<1>1. CallFits(t)
  BY DEF Fits
<1>2. CASE Abort(t)
  <2>1. OthersSame(t) /\ wire' = wire /\ (signal[t] => signal'[t])
    BY <1>2, AbortEffect DEF connection
  <2>2. CallFits(t)'
    BY <1>1, <1>2, AbortEffect DEF CallFits, InProgress
  <2>3. \A op \in {"open", "commit", "rollback"} : StatementFits(t, op) => StatementFits(t, op)'
    BY <1>1, <1>2, AbortEffect DEF CallFits, StatementFits
  <2> QED  BY <2>1, <2>2, <2>3, FitsStay
<1>3. CASE Rollback(t) /\ settled[t]
  <2>1. OthersSame(t) /\ wire' = wire /\ (signal[t] => signal'[t])
    BY <1>3, RollbackEffect DEF connection
  <2>2. CallFits(t)'
    BY <1>1, <1>3, RollbackEffect DEF CallFits
  <2>3. \A op \in {"open", "commit", "rollback"} : StatementFits(t, op) => StatementFits(t, op)'
    BY <1>3, RollbackEffect DEF StatementFits
  <2> QED  BY <2>1, <2>2, <2>3, FitsStay
<1>4. CASE Rollback(t) /\ ~settled[t]
  <2>1. PICK ok \in BOOLEAN : wire' = Append(wire, Statement(t, "rollback", ok))
    <3>1. SendRollback(t, Savepoint(level[t])) /\ Savepoint(level[t]) \in Nat
      BY <1>4, RollbackEffect, SavepointFacts DEF Types
    <3> QED  BY <3>1, RollbackFacts
  <2>2. /\ scope[t] = "closing" /\ scope'[t] = "rollback" /\ ~settled'[t] /\ OthersSame(t)
        /\ signal'[t] = signal[t] /\ fn'[t] = fn[t] /\ committing'[t] = committing[t]
    BY <1>4, RollbackEffect
  <2>3. CallFits(t)' /\ StatementFits(t, "rollback")'
    BY <1>1, <2>2 DEF CallFits, StatementFits
  <2>4. \A o \in {"open", "commit", "rollback"} : StatementFits(t, o) =>
            StatementFits(t, o)' /\ o = "commit" /\ "rollback" = "rollback" /\ signal'[t]
    BY <2>2 DEF StatementFits
  <2> QED  BY <2>1, <2>2, <2>3, <2>4, FitsGrow, Zenon
<1> QED  BY <1>2, <1>3, <1>4

LEMMA FitsAnswers == ASSUME Types, Fits, Opened \/ Committed \/ RolledBack PROVE Fits'
<1>0. PICK t : t = wire[1].txn
  OBVIOUS
<1>1. CASE Opened
  <2>1. StatementFits(t, "open") /\ CallFits(t)
    BY <1>0, <1>1, FirstFits DEF Opened
  <2>2. wire[1].ok \in BOOLEAN
    BY <1>1, AnswerFacts DEF Opened
  <2>3. CallFits(t)' /\ OthersSame(t) /\ signal' = signal /\ Answer("open")
    BY <1>0, <1>1, <2>1, <2>2, OpenedEffect DEF CallFits, StatementFits
  <2> QED  BY <1>0, <2>3, FitsShrink
<1>2. CASE Committed
  <2>1. StatementFits(t, "commit") /\ CallFits(t)
    BY <1>0, <1>2, FirstFits DEF Committed
  <2>2. CallFits(t)'
    BY <1>0, <1>2, <2>1, CommittedEffect DEF CallFits, StatementFits
  <2>3. OthersSame(t) /\ signal' = signal /\ Answer("commit")
    BY <1>0, <1>2, CommittedEffect
  <2>4. signal[t] /\ StatementFits(t, "rollback") => StatementFits(t, "rollback")'
    BY <1>0, <1>2, CommittedEffect DEF StatementFits
  <2> QED  BY <1>0, <2>2, <2>3, <2>4, FitsShrink
<1>3. CASE RolledBack
  <2>1. StatementFits(t, "rollback") /\ CallFits(t)
    BY <1>0, <1>3, FirstFits DEF RolledBack
  <2>2. CallFits(t)'
    BY <1>0, <1>3, <2>1, RolledBackEffect DEF CallFits, StatementFits
  <2>3. OthersSame(t) /\ signal' = signal /\ Answer("rollback")
    BY <1>0, <1>3, RolledBackEffect
  <2> QED  BY <1>0, <2>2, <2>3, FitsShrink
<1> QED  BY <1>1, <1>2, <1>3

LEMMA FitsStep == Types /\ Fits /\ [Next]_vars => Fits'
<1> SUFFICES ASSUME Types, Fits, [Next]_vars PROVE Fits'
  OBVIOUS
<1>1. CASE UNCHANGED vars
  BY <1>1 DEF vars, connection, tasks, Fits, WireFits, CallFits, StatementFits, InOrder
<1>2. CASE Next
  BY <1>2, FitsCalls, FitsRest, FitsAnswers DEF Next
<1> QED  BY <1>1, <1>2

-----------------------------------------------------------------------------
(* The count of open transactions.  Every call may raise it and lower it once; only one   *)
(* that is called by no other may lower it twice, by its commit and by the rollback that   *)
(* an abort has sent after it, and it has raised it before.                               *)

Begun == {t \in Txns : scope[t] # "none"}
Settled == {t \in Txns : settled[t]}
Roots == {t \in Txns : Parent[t] = None /\ InProgress(t)}
IsOpen(t) == scope[t] \in {"using", "closing", "rollback"}

Counts ==
    /\ depth <= Cardinality(Begun) /\ depth + Cardinality(Settled) >= 0
    /\ \A t \in Txns : Parent[t] = None /\ IsOpen(t) => depth + Cardinality(Settled) >= 1
    /\ \A t \in Txns : IF scope[t] = "none" THEN level[t] = 0
                       ELSE /\ level[t] < Cardinality(Begun)
                            /\ level[t] + Cardinality(Settled) >= 0
    /\ \A t, u \in Roots : t = u
    /\ \A k \in 1..Len(db) : db[k].savepoint < Cardinality(Begun)

LEMMA CountTypes ==
    ASSUME Types
    PROVE  /\ Cardinality(Begun) \in 0..Cardinality(Txns)
           /\ Cardinality(Settled) \in 0..Cardinality(Txns)
           /\ Cardinality(Txns) \in Nat /\ IsFiniteSet(Begun) /\ IsFiniteSet(Settled)
<1>1. IsFiniteSet(Txns) /\ Begun \in SUBSET Txns /\ Settled \in SUBSET Txns
  BY DEF Types, CallsAreKnown, Begun, Settled
<1>2. /\ \A S \in SUBSET Txns : IsFiniteSet(S) /\ Cardinality(S) <= Cardinality(Txns)
      /\ \A S : IsFiniteSet(S) => Cardinality(S) \in Nat
  BY <1>1, FS_Subset, FS_CardinalityType
<1> QED  BY <1>1, <1>2

\* One more call is settled, or the same are.
LEMMA SettledGrows ==
    ASSUME Types, Types', NEW t \in Txns, OthersSame(t), settled[t] => settled'[t]
    PROVE  Cardinality(Settled)' = IF settled'[t] /\ ~settled[t] THEN Cardinality(Settled) + 1
                                   ELSE Cardinality(Settled)
<1>1. \A u \in Txns : u # t => settled'[u] = settled[u]
  BY DEF OthersSame, Same
<1>2. Settled' = {u \in Txns : settled'[u]}
  BY DEF Settled
<1>3. CASE settled'[t] /\ ~settled[t]
  <2>1. Settled' = Settled \cup {t} /\ t \notin Settled
    BY <1>1, <1>2, <1>3 DEF Settled
  <2>2. Cardinality(Settled') = Cardinality(Settled) + 1
    BY <2>1, CountTypes, FS_AddElement
  <2> QED  BY <1>3, <2>2
<1>4. CASE ~(settled'[t] /\ ~settled[t])
  <2>1. Settled' = Settled
    BY <1>1, <1>2, <1>4 DEF Settled
  <2> QED  BY <1>4, <2>1
<1> QED  BY <1>3, <1>4

LEMMA BegunStays ==
    ASSUME Types, Types', NEW t \in Txns, OthersSame(t), scope[t] # "none", scope'[t] # "none"
    PROVE  Cardinality(Begun)' = Cardinality(Begun)
<1>1. Begun' = Begun
  BY DEF OthersSame, Same, Begun
<1> QED  BY <1>1

\* A step of a call that has begun.
LEMMA CountsKept ==
    ASSUME Types, Types', Counts, NEW t \in Txns, OthersSame(t), level'[t] = level[t],
           scope[t] # "none", scope'[t] # "none", InProgress(t)' => InProgress(t),
           settled[t] => settled'[t],
           depth' <= Cardinality(Begun), depth' + Cardinality(Settled)' >= 0,
           \/ depth' + Cardinality(Settled)' >= 1
           \/ \A u \in Txns : Parent[u] = None => ~IsOpen(u)',
           \A k \in 1..Len(db') : db'[k].savepoint < Cardinality(Begun)
    PROVE  Counts'
<1>1. /\ Cardinality(Begun)' = Cardinality(Begun) /\ Cardinality(Settled)' >= Cardinality(Settled)
      /\ Cardinality(Settled)' \in Nat /\ Cardinality(Settled) \in Nat
      /\ Cardinality(Begun) \in Nat
  BY BegunStays, SettledGrows, CountTypes
<1>2. \A u \in Txns : /\ level'[u] = level[u] /\ level[u] \in Int
                      /\ (scope'[u] = "none") <=> (scope[u] = "none")
                      /\ InProgress(u)' => InProgress(u)
  BY DEF OthersSame, Same, Types, InProgress
<1>3. \A u \in Txns : IF scope'[u] = "none" THEN level'[u] = 0
                      ELSE level'[u] < Cardinality(Begun)' /\ level'[u] + Cardinality(Settled)' >= 0
  <2> SUFFICES ASSUME NEW u \in Txns, scope'[u] # "none"
               PROVE  level'[u] < Cardinality(Begun)' /\ level'[u] + Cardinality(Settled)' >= 0
    BY <1>2 DEF Counts
  <2>1. level[u] < Cardinality(Begun) /\ level[u] + Cardinality(Settled) >= 0
    BY <1>2 DEF Counts
  <2> QED  BY <1>1, <1>2, <2>1
<1>4. Parent' = Parent /\ None' = None
  OBVIOUS
<1>5. \A u, v \in Roots' : u = v
  <2>1. Roots' \subseteq Roots
    BY <1>2 DEF Roots, InProgress
  <2> QED  BY <2>1 DEF Counts
<1> QED  BY <1>1, <1>3, <1>5 DEF Counts

\* A step that leaves the count alone.
LEMMA CountsStay ==
    ASSUME Types, Types', Counts, NEW t \in Txns, OthersSame(t), level'[t] = level[t],
           scope[t] # "none", scope'[t] # "none", InProgress(t)' => InProgress(t),
           settled'[t] = settled[t], IsOpen(t)' => IsOpen(t), depth' = depth,
           \A k \in 1..Len(db') : db'[k].savepoint < Cardinality(Begun)
    PROVE  Counts'
<1>1. Cardinality(Settled)' = Cardinality(Settled)
  BY SettledGrows
<1>2. \A u \in Txns : IsOpen(u)' => IsOpen(u)
  BY DEF OthersSame, Same, IsOpen
<1>3. depth' <= Cardinality(Begun) /\ depth' + Cardinality(Settled)' >= 0
  BY <1>1 DEF Counts
<1>4. \/ depth' + Cardinality(Settled)' >= 1
      \/ \A u \in Txns : Parent[u] = None => ~IsOpen(u)'
  BY <1>1, <1>2 DEF Counts
<1> QED  BY <1>3, <1>4, CountsKept

LEMMA CountsInit == CallsAreKnown /\ Init => Counts
<1> SUFFICES ASSUME CallsAreKnown, Init PROVE Counts
  OBVIOUS
<1>1. Types
  BY TypesInit
<1>2. Cardinality(Begun) \in Nat /\ Cardinality(Settled) \in Nat
  BY <1>1, CountTypes
<1>3. db = <<>> /\ depth = 0 /\ Len(db) = 0
  BY DEF Init
<1>4. \A t \in Txns : scope[t] = "none" /\ level[t] = 0
  BY DEF Init
<1> QED  BY <1>2, <1>3, <1>4 DEF Counts, IsOpen, InProgress, Roots

LEMMA CountsCall == ASSUME Types, Types', Counts, NEW t \in Txns, Call(t) PROVE Counts'
<1> DEFINE B == Cardinality(Begun)
           S == Cardinality(Settled)
<1>1. /\ OthersSame(t) /\ scope[t] = "none" /\ scope'[t] = "opening" /\ level'[t] = depth
      /\ settled' = settled /\ depth' = depth
  BY CallEffect
<1>2. B \in Nat /\ S \in Nat /\ depth \in Int /\ IsFiniteSet(Begun)
  BY CountTypes DEF Types
<1>3. Begun' = Begun \cup {t} /\ t \notin Begun
  BY <1>1 DEF OthersSame, Same, Begun
<1>4. Cardinality(Begun') = B + 1
  BY <1>2, <1>3, FS_AddElement
<1>5. Cardinality(Begun)' = B + 1 /\ Cardinality(Settled)' = S
  BY <1>1, <1>4 DEF Settled
<1>6. depth <= B /\ depth + S >= 0
  BY DEF Counts
<1> HIDE DEF B, S
<1>7. \A u \in Txns : u # t => level'[u] = level[u] /\ scope'[u] = scope[u] /\ level[u] \in Int
  BY <1>1 DEF OthersSame, Same, Types
<1>8. ASSUME NEW u \in Txns
      PROVE  IF scope'[u] = "none" THEN level'[u] = 0 ELSE level'[u] < B + 1 /\ level'[u] + S >= 0
  <2>1. CASE u = t
    BY <1>1, <1>2, <1>6, <2>1
  <2>2. CASE u # t
    <3>1. IF scope[u] = "none" THEN level[u] = 0 ELSE level[u] < B /\ level[u] + S >= 0
      BY DEF Counts, B, S
    <3> QED  BY <1>2, <1>7, <2>2, <3>1
  <2> QED  BY <2>1, <2>2
<1>9. ASSUME NEW u \in Txns, Parent[u] = None, IsOpen(u)' PROVE depth' + S >= 1
  <2>1. IsOpen(u)
    BY <1>1, <1>7, <1>9 DEF IsOpen
  <2> QED  BY <1>1, <1>9, <2>1 DEF Counts, S
<1>10. ASSUME NEW u \in Roots', NEW v \in Roots' PROVE u = v
  <2>1. Parent[t] = None => \A w \in Txns : Parent[w] = None => ~InProgress(w)
    BY DEF Call, Awaiting, Calls
  <2>2. Roots' \subseteq Roots \cup {t}
    BY <1>7 DEF InProgress, Roots
  <2>3. t \in Roots' => Roots = {}
    BY <2>1 DEF Roots
  <2> QED  BY <2>2, <2>3 DEF Counts
<1>11. ASSUME NEW k \in 1..Len(db') PROVE db'[k].savepoint < B + 1
  <2>1. Savepoint(depth) \in Nat /\ Savepoint(depth) < B + 1
    BY <1>2, <1>6, SavepointFacts
  <2>2. \A j \in 1..Len(db) : db[j].savepoint < B + 1
    <3>1. \A j \in 1..Len(db) : db[j].savepoint < B /\ db[j].savepoint \in Nat
      <4>1. \A j \in 1..Len(db) : db[j] \in Frames
        BY DEF Types
      <4> QED  BY <4>1 DEF Counts, B, Frames
    <3> QED  BY <1>2, <3>1
  <2>3. SendOpen(t, Savepoint(depth))
    BY DEF Call
  <2>4. Frame(Savepoint(depth)).savepoint = Savepoint(depth)
    BY DEF Frame
  <2>5. Len(db) \in Nat
    BY DEF Types
  <2>6. \/ db' = db
        \/ /\ Len(db') = Len(db) + 1 /\ \A j \in 1..Len(db) : db'[j] = db[j]
           /\ db'[Len(db) + 1] = Frame(Savepoint(depth))
    BY <2>1, <2>3, OpenFacts
  <2>7. CASE db' = db
    BY <2>2, <2>7
  <2>8. CASE db' # db
    BY <2>1, <2>2, <2>4, <2>5, <2>6, <2>8
  <2> QED  BY <2>7, <2>8
<1>12. depth' <= B + 1 /\ depth' + S >= 0
  BY <1>1, <1>2, <1>6
<1> QED  BY <1>5, <1>8, <1>9, <1>10, <1>11, <1>12 DEF Counts

\* The savepoints of the frames are those there were, or that of the statement.
LEMMA SavepointsBounded ==
    ASSUME Types, Counts, NEW t \in Txns, scope[t] # "none",
           \A k \in 1..Len(db') : \/ \E j \in 1..Len(db) : db'[k].savepoint = db[j].savepoint
                                  \/ db'[k].savepoint = Savepoint(level[t])
    PROVE  \A k \in 1..Len(db') : db'[k].savepoint < Cardinality(Begun)
<1>1. /\ level[t] \in Int /\ level[t] < Cardinality(Begun) /\ Cardinality(Begun) \in Nat
      /\ Cardinality(Begun) # 0
  <2>1. t \in Begun
    BY DEF Begun
  <2>2. Cardinality(Begun) # 0
    BY <2>1, CountTypes, FS_EmptySet
  <2> QED  BY <2>2, CountTypes DEF Types, Counts
<1>2. Savepoint(level[t]) < Cardinality(Begun)
  BY <1>1 DEF Savepoint
<1> QED  BY <1>2 DEF Counts

LEMMA CountsCalls ==
    ASSUME Types, Types', Counts, Fits, NEW t \in Txns,
           Write(t) \/ CallbackReturns(t) \/ CallbackThrows(t) \/ Abort(t) \/ Rollback(t)
    PROVE  Counts'
<1>1. CallFits(t) /\ scope[t] \in Scopes
  BY DEF Fits, Types
<1>2. Len(db) \in Nat
  BY DEF Types
<1>3. scope[t] # "none"
  <2>1. CASE Write(t) \/ CallbackReturns(t) \/ CallbackThrows(t)
    <3>1. fn[t] = "running"
      BY <2>1 DEF Write, CallbackReturns, CallbackThrows
    <3> QED  BY <1>1, <3>1 DEF CallFits
  <2>2. CASE Abort(t) \/ Rollback(t)
    BY <2>2 DEF Abort, InProgress, Rollback
  <2> QED  BY <2>1, <2>2
<1>4. Savepoint(level[t]) \in Nat
  BY SavepointFacts DEF Types
<1>5. CASE Write(t)
  <2>1. \A k \in 1..Len(db') : \E j \in 1..Len(db) : db'[k].savepoint = db[j].savepoint
    BY <1>2, <1>5, WriteFacts
  <2>2. OthersSame(t) /\ Same(t) /\ scope' = scope /\ depth' = depth
    BY <1>5, WriteEffect DEF OthersSame
  <2>3. /\ level'[t] = level[t] /\ scope'[t] # "none" /\ (InProgress(t)' => InProgress(t))
        /\ settled'[t] = settled[t] /\ (IsOpen(t)' => IsOpen(t))
    BY <1>3, <2>2 DEF Same, InProgress, IsOpen
  <2> QED  BY <1>3, <2>1, <2>2, <2>3, SavepointsBounded, CountsStay
<1>6. CASE CallbackReturns(t)
  <2>1. \A k \in 1..Len(db') : \E j \in 1..Len(db) : db'[k].savepoint = db[j].savepoint
    <3>1. CASE signal[t]
      BY <1>6, <3>1, ReturnEffect DEF connection
    <3>2. CASE ~signal[t]
      <4>1. SendCommit(t, Savepoint(level[t]))
        BY <1>6, <3>2, ReturnEffect
      <4>2. \/ db' = db \/ db' = <<>>
            \/ /\ Len(db') = At(Savepoint(level[t])) - 1 /\ At(Savepoint(level[t])) \in DOMAIN db
               /\ At(Savepoint(level[t])) # 1
               /\ \A j \in 1..At(Savepoint(level[t])) - 2 : db'[j] = db[j]
               /\ db'[At(Savepoint(level[t])) - 1].savepoint
                    = db[At(Savepoint(level[t])) - 1].savepoint
        BY <1>4, <4>1, CommitFacts
      <4>3. CASE db' = db \/ db' = <<>>
        BY <4>3
      <4>4. CASE ~(db' = db \/ db' = <<>>)
        <5>1. PICK a : a = At(Savepoint(level[t]))
          OBVIOUS
        <5>2. /\ Len(db') = a - 1 /\ a \in 1..Len(db) /\ a # 1
              /\ \A j \in 1..a - 2 : db'[j] = db[j]
              /\ db'[a - 1].savepoint = db[a - 1].savepoint
          BY <4>2, <4>4, <5>1 DEF Types
        <5>3. ASSUME NEW k \in 1..Len(db') PROVE k \in 1..Len(db) /\ db'[k].savepoint = db[k].savepoint
          BY <1>2, <5>2
        <5> QED  BY <5>3
      <4> QED  BY <4>3, <4>4
    <3> QED  BY <3>1, <3>2
  <2>2. /\ OthersSame(t) /\ level'[t] = level[t] /\ scope'[t] # "none"
        /\ (InProgress(t)' => InProgress(t)) /\ settled'[t] = settled[t] /\ (IsOpen(t)' => IsOpen(t))
        /\ depth' = depth
    BY <1>3, <1>6, ReturnEffect DEF InProgress, IsOpen
  <2> QED  BY <1>3, <2>1, <2>2, SavepointsBounded, CountsStay
<1>7. CASE CallbackThrows(t)
  <2>1. /\ OthersSame(t) /\ level'[t] = level[t] /\ scope'[t] # "none"
        /\ (InProgress(t)' => InProgress(t)) /\ settled'[t] = settled[t] /\ (IsOpen(t)' => IsOpen(t))
        /\ depth' = depth /\ db' = db
    BY <1>3, <1>7, ThrowEffect DEF InProgress, IsOpen, connection
  <2> QED  BY <1>3, <2>1, SavepointsBounded, CountsStay
<1>8. CASE Abort(t)
  <2>1. /\ OthersSame(t) /\ level'[t] = level[t] /\ scope'[t] # "none"
        /\ (InProgress(t)' => InProgress(t)) /\ settled'[t] = settled[t] /\ (IsOpen(t)' => IsOpen(t))
        /\ depth' = depth /\ db' = db
    BY <1>3, <1>8, AbortEffect DEF InProgress, IsOpen, connection
  <2> QED  BY <1>3, <2>1, SavepointsBounded, CountsStay
<1>9. CASE Rollback(t)
  <2>1. \A k \in 1..Len(db') : \/ \E j \in 1..Len(db) : db'[k].savepoint = db[j].savepoint
                               \/ db'[k].savepoint = Savepoint(level[t])
    <3>1. CASE settled[t]
      BY <1>9, <3>1, RollbackEffect DEF connection
    <3>2. CASE ~settled[t]
      <4>0. PICK sp, a : sp \in Nat /\ sp = Savepoint(level[t]) /\ a = At(sp)
        BY <1>4
      <4>1. SendRollback(t, sp) /\ Frame(sp).savepoint = sp
        BY <1>9, <3>2, <4>0, RollbackEffect DEF Frame
      <4>2. \/ db' = db \/ db' = <<>>
            \/ /\ a \in 1..Len(db) /\ Len(db') = a
               /\ \A j \in 1..a - 1 : db'[j] = db[j]
               /\ db'[a] = Frame(sp)
        <5>1. DOMAIN db = 1..Len(db)
          BY DEF Types
        <5>2. \/ db' = db \/ db' = <<>>
              \/ /\ At(sp) \in DOMAIN db /\ Len(db') = At(sp)
                 /\ \A j \in 1..At(sp) - 1 : db'[j] = db[j]
                 /\ db'[At(sp)] = Frame(sp)
          BY <4>0, <4>1, RollbackFacts
        <5> QED  BY <4>0, <5>1, <5>2
      <4>3. CASE db' = db \/ db' = <<>>
        BY <4>3
      <4>4. CASE ~(db' = db \/ db' = <<>>)
        <5>1. ASSUME NEW k \in 1..Len(db'), k # a PROVE k \in 1..Len(db) /\ db'[k] = db[k]
          BY <1>2, <4>2, <4>4, <5>1
        <5> QED  BY <4>0, <4>1, <4>2, <4>4, <5>1
      <4> QED  BY <4>3, <4>4
    <3> QED  BY <3>1, <3>2
  <2>2. /\ OthersSame(t) /\ level'[t] = level[t] /\ scope'[t] # "none"
        /\ (InProgress(t)' => InProgress(t)) /\ settled'[t] = settled[t] /\ (IsOpen(t)' => IsOpen(t))
        /\ depth' = depth
    BY <1>3, <1>9, RollbackEffect DEF InProgress, IsOpen
  <2> QED  BY <1>3, <2>1, <2>2, SavepointsBounded, CountsStay
<1> QED  BY <1>5, <1>6, <1>7, <1>8, <1>9

LEMMA CountsAnswers ==
    ASSUME Types, Types', Counts, Fits, Opened \/ Committed \/ RolledBack PROVE Counts'
<1>0. PICK t : t = wire[1].txn
  OBVIOUS
<1>1. PICK op \in {"open", "commit", "rollback"} : Answer(op)
  BY DEF Opened, Committed, RolledBack
<1>2. t \in Txns /\ db' = db /\ wire[1].op = op /\ wire[1].ok \in BOOLEAN
  BY <1>0, <1>1, AnswerFacts
<1>3. StatementFits(t, op) /\ CallFits(t)
  BY <1>0, <1>1, FirstFits
<1>4. scope[t] # "none"
  BY <1>1, <1>3 DEF StatementFits
<1>5. \A k \in 1..Len(db') : db'[k].savepoint < Cardinality(Begun)
  BY <1>2 DEF Counts
<1>6. /\ Cardinality(Begun) \in Nat /\ Cardinality(Settled) \in Nat /\ depth \in Int
      /\ level[t] \in Int /\ level[t] < Cardinality(Begun) /\ level[t] + Cardinality(Settled) >= 0
      /\ depth <= Cardinality(Begun) /\ depth + Cardinality(Settled) >= 0
  BY <1>2, <1>4, CountTypes DEF Types, Counts
<1>7. CASE Opened
  <2>1. /\ OthersSame(t) /\ level'[t] = level[t] /\ scope'[t] # "none" /\ settled'[t] = settled[t]
        /\ Answer("open")
    BY <1>0, <1>2, <1>4, <1>7, OpenedEffect
  <2>2. Cardinality(Settled)' = Cardinality(Settled)
    BY <1>2, <2>1, SettledGrows
  <2>3. scope[t] = "opening"
    BY <1>1, <1>2, <1>3, <2>1, AnswerFacts DEF StatementFits
  <2>4. CASE ~wire[1].ok
    <3>1. depth' = depth /\ scope'[t] = "over"
      BY <1>0, <1>7, <2>4, OpenedEffect
    <3> QED  BY <1>2, <1>4, <1>5, <2>1, <3>1, CountsStay DEF InProgress, IsOpen
  <2>5. CASE wire[1].ok
    <3>1. depth' = level[t] + 1
      BY <1>0, <1>7, <2>5, OpenedEffect
    <3>2. depth' <= Cardinality(Begun) /\ depth' + Cardinality(Settled)' >= 1
      BY <1>6, <2>2, <3>1
    <3>3. depth' + Cardinality(Settled)' >= 0
      BY <1>6, <2>2, <3>1
    <3> QED  BY <1>2, <1>4, <1>5, <2>1, <2>3, <3>2, <3>3, CountsKept DEF InProgress
  <2> QED  BY <1>2, <2>4, <2>5
<1>8. CASE Committed
  <2>1. /\ OthersSame(t) /\ level'[t] = level[t] /\ Answer("commit")
        /\ settled'[t] = (settled[t] \/ wire[1].ok)
        /\ depth' = IF wire[1].ok THEN depth - 1 ELSE depth
        /\ scope'[t] # "none" /\ (InProgress(t)' => InProgress(t)) /\ (IsOpen(t)' => IsOpen(t))
    BY <1>0, <1>4, <1>8, CommittedEffect DEF InProgress, IsOpen
  <2>2. ~settled[t]
    BY <1>1, <1>2, <1>3, <2>1, AnswerFacts DEF StatementFits
  <2>3. CASE ~wire[1].ok
    <3>1. settled'[t] = settled[t] /\ depth' = depth
      BY <1>2, <2>1, <2>3, Zenon DEF Types
    <3> QED  BY <1>2, <1>4, <1>5, <2>1, <3>1, CountsStay
  <2>4. CASE wire[1].ok
    <3>1. Cardinality(Settled)' = Cardinality(Settled) + 1 /\ settled'[t]
      BY <1>2, <2>1, <2>2, <2>4, SettledGrows
    <3>2. depth' + Cardinality(Settled)' = depth + Cardinality(Settled) /\ depth' <= Cardinality(Begun)
      BY <1>6, <2>1, <2>4, <3>1
    <3>3. \A u \in Txns : IsOpen(u)' => IsOpen(u)
      BY <2>1 DEF OthersSame, Same, IsOpen
    <3>4. \/ depth' + Cardinality(Settled)' >= 1
          \/ \A u \in Txns : Parent[u] = None => ~IsOpen(u)'
      BY <3>2, <3>3 DEF Counts
    <3> QED  BY <1>2, <1>4, <1>5, <1>6, <2>1, <3>1, <3>2, <3>4, CountsKept
  <2> QED  BY <1>2, <2>3, <2>4
<1>9. CASE RolledBack
  <2>1. /\ OthersSame(t) /\ level'[t] = level[t] /\ Answer("rollback")
        /\ settled'[t] = (settled[t] \/ wire[1].ok)
        /\ depth' = IF wire[1].ok THEN depth - 1 ELSE depth
        /\ scope'[t] = "over" /\ ~InProgress(t)' /\ ~IsOpen(t)'
    BY <1>0, <1>9, RolledBackEffect DEF InProgress, IsOpen
  <2>2. scope[t] = "rollback" /\ (settled[t] => signal[t])
    BY <1>1, <1>2, <1>3, <2>1, AnswerFacts DEF StatementFits
  <2>3. CASE ~wire[1].ok
    <3>1. settled'[t] = settled[t] /\ depth' = depth
      BY <1>2, <2>1, <2>3, Zenon DEF Types
    <3> QED  BY <1>2, <1>4, <1>5, <2>1, <3>1, CountsStay
  <2>4. \A u \in Txns : IsOpen(u)' => IsOpen(u)
    BY <2>1 DEF OthersSame, Same, IsOpen
  <2>5. CASE wire[1].ok /\ ~settled[t]
    <3>1. Cardinality(Settled)' = Cardinality(Settled) + 1 /\ settled'[t]
      BY <1>2, <2>1, <2>5, SettledGrows
    <3>2. depth' + Cardinality(Settled)' = depth + Cardinality(Settled) /\ depth' <= Cardinality(Begun)
      BY <1>6, <2>1, <2>5, <3>1
    <3>3. \/ depth' + Cardinality(Settled)' >= 1
          \/ \A u \in Txns : Parent[u] = None => ~IsOpen(u)'
      BY <2>4, <3>2 DEF Counts
    <3> QED  BY <1>2, <1>4, <1>5, <1>6, <2>1, <3>1, <3>2, <3>3, CountsKept
  <2>6. CASE wire[1].ok /\ settled[t]
    <3>1. Cardinality(Settled)' = Cardinality(Settled) /\ settled'[t]
      BY <1>2, <2>1, <2>6, SettledGrows
    <3>2. Parent[t] = None /\ IsOpen(t) /\ InProgress(t)
      BY <1>3, <2>2, <2>6 DEF CallFits, IsOpen, InProgress
    <3>3. depth + Cardinality(Settled) >= 1
      BY <1>2, <3>2 DEF Counts
    <3>4. depth' + Cardinality(Settled)' >= 0 /\ depth' <= Cardinality(Begun)
      BY <1>6, <2>1, <2>6, <3>1, <3>3
    <3>5. ASSUME NEW u \in Txns, Parent[u] = None PROVE ~IsOpen(u)'
      <4>1. CASE u = t
        BY <2>1, <4>1
      <4>2. CASE u # t
        BY <1>2, <2>4, <3>2, <3>5, <4>2 DEF Counts, IsOpen, InProgress, Roots
      <4> QED  BY <4>1, <4>2
    <3> QED  BY <1>2, <1>4, <1>5, <2>1, <3>1, <3>4, <3>5, CountsKept
  <2> QED  BY <1>2, <2>3, <2>5, <2>6
<1> QED  BY <1>7, <1>8, <1>9

CountInv == Types /\ Fits /\ Counts

LEMMA CountStep == CountInv /\ [Next]_vars => CountInv'
<1> SUFFICES ASSUME CountInv, [Next]_vars PROVE CountInv'
  OBVIOUS
<1>1. Types' /\ Fits' /\ Types /\ Fits /\ Counts
  BY TypesStep, FitsStep DEF CountInv
<1>2. CASE UNCHANGED vars
  <2>1. Counts'
    BY <1>1, <1>2 DEF vars, connection, tasks, Counts, Begun, Settled, IsOpen, InProgress, Roots
  <2> QED  BY <1>1, <2>1 DEF CountInv
<1>3. CASE Next
  BY <1>1, <1>3, CountsCall, CountsCalls, CountsAnswers DEF Next, CountInv
<1> QED  BY <1>2, <1>3

-----------------------------------------------------------------------------
(* As long as no callback goes on after an abort the calls in progress are a path: all    *)
(* but the innermost one wait in their callbacks, and what is on the wire is of that one. *)

CallIsSound(t) ==
    /\ InProgress(t) => result[t] = (IF signal[t] THEN "error" ELSE "none")
    /\ scope[t] = "none" => result[t] = "none"
    /\ scope[t] = "over" => result[t] # "none"
    /\ scope[t] \in {"none", "opening", "using"} => outcome[t] = "none"
    /\ scope[t] = "using" => /\ ~signal[t]
                             /\ fn[t] = IF committing[t] THEN "over" ELSE "running"
    /\ scope[t] = "closing" => /\ outcome[t] \in {"value", "error"}
                               /\ outcome[t] = "value" => settled[t] /\ committing[t]
    /\ scope[t] = "rollback" => outcome[t] = "error"
    /\ settled[t] /\ InProgress(t) => committing[t] /\ (outcome[t] = "error" => signal[t])

Path == {t \in Txns : InProgress(t)}

Paths ==
    /\ \A t \in Path : IF Parent[t] = None THEN level[t] = 0
                       ELSE /\ Parent[t] \in Path /\ level[t] = level[Parent[t]] + 1
                            /\ level[t] > 0
    /\ \A t, u \in Path : level[t] = level[u] => t = u
    /\ \A t, u \in Path : level[t] <= level[u] => t \in Around(u)

Waits(t) == scope[t] = "using" /\ fn[t] = "running" /\ Awaiting(t)

\* The commit of a call is executed but not answered.
CommitOnly(t, ok) == wire = <<Statement(t, "commit", ok)>>
CommitAndRollback(t, ok) ==
    wire = <<Statement(t, "commit", ok), Statement(t, "rollback", ~ok)>>

\* What is sent and not answered, by what the innermost call does.
WireIsOf(t) ==
    /\ scope[t] = "opening" => \E ok \in BOOLEAN : wire = <<Statement(t, "open", ok)>>
    /\ scope[t] = "using" => IF committing[t] THEN \E ok \in BOOLEAN : CommitOnly(t, ok)
                             ELSE wire = <<>>
    /\ scope[t] = "closing" => \/ wire = <<>>
                               \/ /\ signal[t] /\ committing[t] /\ ~settled[t]
                                  /\ \E ok \in BOOLEAN : CommitOnly(t, ok)
    /\ scope[t] = "rollback" => \/ wire = <<Statement(t, "rollback", ~settled[t])>>
                                \/ /\ signal[t] /\ committing[t] /\ ~settled[t]
                                   /\ \E ok \in BOOLEAN : CommitAndRollback(t, ok)

DepthIsOf(t) == depth = IF scope[t] = "opening" \/ settled[t] THEN level[t] ELSE level[t] + 1

Innermost(t) == /\ t \in Path /\ Awaiting(None)
                /\ \A u \in Path : u # t => level[u] < level[t] /\ Waits(u)
                /\ WireIsOf(t) /\ DepthIsOf(t)

AtRest == Path = {} /\ wire = <<>> /\ depth = 0

\* The calls whose frame is on the stack.
Framed == {t \in Path :
              \/ scope[t] = "opening" /\ wire = <<Statement(t, "open", TRUE)>>
              \/ /\ scope[t] \in {"using", "closing"} /\ ~settled[t]
                 /\ ~CommitOnly(t, TRUE)}

Control == /\ \A t \in Txns : CallIsSound(t)
           /\ Paths
           /\ AtRest \/ \E t \in Txns : Innermost(t)

-----------------------------------------------------------------------------
LEMMA StatementFacts ==
    ASSUME NEW t, NEW op, NEW ok
    PROVE  /\ Statement(t, op, ok).txn = t /\ Statement(t, op, ok).op = op
           /\ Statement(t, op, ok).ok = ok
           /\ \A u, o, k : Statement(t, op, ok) = Statement(u, o, k) => t = u /\ op = o /\ ok = k
<1>1. /\ Statement(t, op, ok).txn = t /\ Statement(t, op, ok).op = op
      /\ Statement(t, op, ok).ok = ok
  BY DEF Statement
<1>2. ASSUME NEW u, NEW o, NEW k, Statement(t, op, ok) = Statement(u, o, k) PROVE t = u /\ op = o /\ ok = k
  BY <1>2 DEF Statement
<1> QED  BY <1>1, <1>2

\* The calls around one: it is among them, and with one the call that made it.
LEMMA AroundFacts ==
    ASSUME CallsAreKnown, NEW t \in Txns
    PROVE  /\ t \in Around(t) /\ Around(t) \subseteq Txns
           /\ Parent[t] # None => Parent[t] \in Txns /\ Around(Parent[t]) \subseteq Around(t)
           /\ \A S \in SUBSET Txns : t \in S /\ Closed(S) => Around(t) \subseteq S
<1>1. t \in Around(t) /\ Around(t) \subseteq Txns
  BY DEF Around
<1>2. \A S \in SUBSET Txns : t \in S /\ Closed(S) => Around(t) \subseteq S
  BY DEF Around
<1>3. ASSUME Parent[t] # None PROVE Parent[t] \in Txns /\ Around(Parent[t]) \subseteq Around(t)
  <2>1. Parent[t] \in Txns
    BY <1>3 DEF CallsAreKnown
  <2>2. ASSUME NEW S \in SUBSET Txns, t \in S, Closed(S) PROVE Parent[t] \in S
    BY <1>3, <2>2 DEF Closed
  <2>3. ASSUME NEW u \in Around(Parent[t]) PROVE u \in Around(t)
    BY <2>2 DEF Around
  <2> QED  BY <2>1, <2>3
<1> QED  BY <1>1, <1>2, <1>3

LEMMA PathFacts ==
    ASSUME Types
    PROVE  /\ Path \subseteq Txns /\ \A t \in Path : level[t] \in Int
           /\ \A t \in Txns : t \in Path <=> scope[t] \in {"opening", "using", "closing", "rollback"}
BY DEF Path, InProgress, Types, Scopes

\* The innermost call is the one that is not awaiting another.
LEMMA InnermostFacts ==
    ASSUME Types, Control, NEW t, Innermost(t)
    PROVE  /\ t \in Txns /\ ~Awaiting(t)
           /\ Framed \ {t} = Path \ {t}
           /\ \A u \in Path : ~Awaiting(u) \/ ~Waits(u) => u = t
<1>1. t \in Txns /\ t \in Path
  BY PathFacts DEF Innermost
<1>2. ~Awaiting(t)
  <2> SUFFICES ASSUME NEW c \in Txns, Parent[c] = t, c \in Path PROVE FALSE
    BY DEF Awaiting, Calls, Path
  <2>1. t # None
    BY <1>1 DEF Types, CallsAreKnown
  <2>2. level[c] = level[t] + 1 /\ level[c] \in Int /\ level[t] \in Int
    BY <1>1, <2>1, PathFacts DEF Control, Paths
  <2>3. c # t /\ level[c] < level[t]
    BY <2>2 DEF Innermost
  <2> QED  BY <2>2, <2>3
<1>3. ASSUME NEW u \in Path, u # t PROVE u \in Framed
  <2>1. u \in Txns /\ scope[u] = "using"
    BY <1>3, PathFacts DEF Innermost, Waits
  <2>2. ~settled[u]
    <3>1. fn[u] = "running" /\ ~committing[u]
      BY <1>3, <2>1 DEF Innermost, Waits, Control, CallIsSound
    <3> QED  BY <1>3, <2>1, <3>1 DEF Control, CallIsSound, Path
  <2>3. ~CommitOnly(u, TRUE)
    <3> SUFFICES ASSUME CommitOnly(u, TRUE) PROVE FALSE
      OBVIOUS
    <3>0. wire = <<Statement(u, "commit", TRUE)>>
      BY DEF CommitOnly
    <3>1. Len(wire) = 1 /\ wire[1] = Statement(u, "commit", TRUE) /\ wire # <<>>
      BY <3>0
    <3>2. PICK op, ok : wire[1] = Statement(t, op, ok)
      <4>1. ASSUME NEW op, NEW ok, wire = <<Statement(t, op, ok)>> PROVE wire[1] = Statement(t, op, ok)
        BY <4>1
      <4>2. ASSUME NEW op, NEW ok, NEW s, wire = <<Statement(t, op, ok), s>> PROVE FALSE
        BY <3>1, <4>2
      <4>3. scope[t] \in {"opening", "using", "closing", "rollback"}
        BY <1>1, PathFacts
      <4>4. \/ wire = <<>> \/ \E op, ok : wire = <<Statement(t, op, ok)>>
            \/ \E op, ok, s : wire = <<Statement(t, op, ok), s>>
        BY <4>3, Zenon DEF Innermost, WireIsOf, CommitOnly, CommitAndRollback
      <4> QED  BY <3>1, <4>1, <4>2, <4>4, Zenon
    <3>3. Statement(u, "commit", TRUE).txn = Statement(t, op, ok).txn
      BY <3>1, <3>2
    <3> QED  BY <1>3, <3>3 DEF Statement
  <2> QED  BY <1>3, <2>1, <2>2, <2>3 DEF Framed
<1>4. Framed \subseteq Path
  BY DEF Framed
<1>5. ASSUME NEW u \in Path, ~Awaiting(u) \/ ~Waits(u) PROVE u = t
  BY <1>5 DEF Innermost, Waits
<1> QED  BY <1>1, <1>2, <1>3, <1>4, <1>5

\* The path stays, and the innermost call goes on.
LEMMA PathStays ==
    ASSUME Types, Types', Control, NEW t, Innermost(t), OthersSame(t), level'[t] = level[t],
           InProgress(t)', CallIsSound(t)', WireIsOf(t)', DepthIsOf(t)'
    PROVE  Control' /\ Innermost(t)' /\ Path' = Path
<1>1. t \in Path /\ t \in Txns
  BY InnermostFacts DEF Innermost
<1>2. \A u \in Txns : InProgress(u)' <=> InProgress(u)
  BY <1>1 DEF OthersSame, Same, InProgress, Path
<1>3. Path' = Path
  BY <1>2 DEF Path
<1>4. \A u \in Txns : level'[u] = level[u]
  BY DEF OthersSame, Same
<1>5. \A u \in Txns : Awaiting(u)' <=> Awaiting(u)
  BY <1>2 DEF Awaiting, Calls
<1>6. Awaiting(None)' <=> Awaiting(None)
  BY <1>2 DEF Awaiting, Calls
<1>7. \A u \in Path : u # t => Waits(u)'
  <2> SUFFICES ASSUME NEW u \in Path, u # t PROVE Waits(u)'
    OBVIOUS
  <2>1. u \in Txns /\ Waits(u)
    BY PathFacts DEF Innermost
  <2> QED  BY <1>5, <2>1 DEF Waits, OthersSame, Same
<1>8. Innermost(t)'
  BY <1>1, <1>3, <1>4, <1>6, <1>7, PathFacts DEF Innermost
<1>9. Paths'
  BY <1>3, <1>4, PathFacts DEF Control, Paths
<1>10. ASSUME NEW u \in Txns PROVE CallIsSound(u)'
  <2>1. CASE u = t
    BY <2>1
  <2>2. CASE u # t
    <3>1. CallIsSound(u) /\ Same(u)
      BY <2>2 DEF Control, OthersSame
    <3> QED  BY <3>1 DEF CallIsSound, Same, InProgress
  <2> QED  BY <2>1, <2>2
<1> QED  BY <1>1, <1>3, <1>8, <1>9, <1>10 DEF Control

\* The innermost call is over.
LEMMA PathShrinks ==
    ASSUME Types, Types', Control, Fits, NEW t, Innermost(t), OthersSame(t), scope'[t] = "over",
           CallIsSound(t)', wire' = <<>>, depth' = level[t]
    PROVE  Control' /\ Path' = Path \ {t} /\ Framed' = Framed \ {t}
<1>1. t \in Path /\ t \in Txns
  BY InnermostFacts DEF Innermost
<1>2. \A u \in Txns : u # t => (InProgress(u)' <=> InProgress(u)) /\ level'[u] = level[u]
  BY DEF OthersSame, Same, InProgress
<1>3. Path' = Path \ {t}
  BY <1>1, <1>2 DEF Path, InProgress
<1>4. Paths'
  <2>1. ASSUME NEW u \in Path', Parent[u] # None
        PROVE  Parent[u] \in Path' /\ level'[u] = level'[Parent[u]] + 1 /\ level'[u] > 0
    <3>1. /\ u \in Path /\ u # t /\ u \in Txns /\ Parent[u] \in Path
          /\ level[u] = level[Parent[u]] + 1 /\ level[u] > 0
      BY <1>3, <2>1, PathFacts DEF Control, Paths
    <3>2. Parent[u] # t
      BY <3>1, InnermostFacts DEF Awaiting, Calls, Path
    <3> QED  BY <1>2, <1>3, <3>1, <3>2, PathFacts
  <2>2. ASSUME NEW u \in Path', Parent[u] = None PROVE level'[u] = 0
    BY <1>2, <1>3, <2>2, PathFacts DEF Control, Paths
  <2>3. \A u, v \in Path' : /\ level'[u] = level'[v] => u = v
                            /\ level'[u] <= level'[v] => u \in Around(v)
    BY <1>2, <1>3, PathFacts DEF Control, Paths
  <2> QED  BY <2>1, <2>2, <2>3 DEF Paths
<1>5. ASSUME NEW u \in Txns PROVE CallIsSound(u)'
  <2>1. CASE u = t
    BY <2>1
  <2>2. CASE u # t
    <3>1. CallIsSound(u) /\ Same(u)
      BY <2>2 DEF Control, OthersSame
    <3> QED  BY <3>1 DEF CallIsSound, Same, InProgress
  <2> QED  BY <2>1, <2>2
<1>6. AtRest' \/ \E u \in Txns : Innermost(u)'
  <2>1. CASE Parent[t] = None
    <3>1. level[t] = 0
      BY <1>1, <2>1 DEF Control, Paths
    <3>2. ASSUME NEW u \in Path, u # t PROVE FALSE
      <4>1. level[u] < 0 /\ level[u] \in Int
        BY <3>1, <3>2, PathFacts DEF Innermost
      <4> QED  BY <4>1 DEF Control, Paths
    <3>3. Path' = {}
      BY <1>3, <3>2
    <3> QED  BY <3>1, <3>3 DEF AtRest
  <2>2. CASE Parent[t] # None
    <3>1. PICK p : p = Parent[t]
      OBVIOUS
    <3>2. p \in Path /\ level[t] = level[p] + 1 /\ p # t /\ p \in Txns
      <4>1. p \in Path /\ level[t] = level[p] + 1
        BY <1>1, <2>2, <3>1 DEF Control, Paths
      <4> QED  BY <4>1, PathFacts
    <3>3. Waits(p) /\ level[p] < level[t]
      BY <3>2 DEF Innermost
    <3>4. ~settled[p] /\ ~committing[p]
      BY <3>2, <3>3 DEF Waits, Control, CallIsSound, Fits, CallFits
    <3>5. WireIsOf(p)' /\ DepthIsOf(p)'
      <4>1. scope'[p] = "using" /\ ~settled'[p] /\ ~committing'[p] /\ level'[p] = level[p]
        BY <3>2, <3>3, <3>4 DEF OthersSame, Same, Waits
      <4> QED  BY <3>2, <4>1, PathFacts DEF WireIsOf, DepthIsOf
    <3>6. Awaiting(None)'
      <4>1. PICK r \in Txns : Parent[r] = None /\ r \in Path
        BY DEF Innermost, Awaiting, Calls, Path
      <4>2. r # t
        BY <2>2, <4>1
      <4>3. InProgress(r)'
        BY <1>2, <4>1, <4>2 DEF Path
      <4> QED  BY <4>1, <4>3 DEF Awaiting, Calls
    <3>7. ASSUME NEW u \in Path', u # p PROVE level'[u] < level'[p] /\ Waits(u)'
      <4>1. u \in Path /\ u # t /\ u \in Txns /\ Waits(u) /\ level[u] < level[t]
        BY <1>3, <3>7, PathFacts DEF Innermost
      <4>2. level[u] # level[p]
        BY <3>2, <3>7, <4>1 DEF Control, Paths
      <4>3. level[u] < level[p]
        BY <3>2, <4>1, <4>2, PathFacts
      <4>4. PICK c \in Txns : Parent[c] = u /\ InProgress(c)
        BY <4>1 DEF Waits, Awaiting, Calls
      <4>5. c # t
        BY <3>1, <3>7, <4>4
      <4>6. Awaiting(u)'
        BY <1>2, <4>4, <4>5 DEF Awaiting, Calls
      <4> QED  BY <1>2, <3>2, <4>1, <4>3, <4>6 DEF Waits, OthersSame, Same
    <3>8. Innermost(p)'
      BY <1>3, <3>2, <3>5, <3>6, <3>7 DEF Innermost
    <3> QED  BY <3>2, <3>8
  <2> QED  BY <2>1, <2>2
<1>7. Framed' = Framed \ {t}
  <2>1. ASSUME NEW u \in Path, u # t PROVE u \in Framed /\ u \in Framed'
    <3>1. u \in Framed /\ u \in Path' /\ u \in Txns /\ Waits(u)
      BY <1>3, <2>1, InnermostFacts, PathFacts DEF Innermost
    <3>2. scope'[u] = "using" /\ ~settled'[u]
      BY <2>1, <3>1 DEF Waits, Fits, CallFits, OthersSame, Same
    <3>3. ~CommitOnly(u, TRUE)'
      <4>1. wire' # <<Statement(u, "commit", TRUE)>>
        OBVIOUS
      <4> QED  BY <4>1 DEF CommitOnly
    <3> QED  BY <3>1, <3>2, <3>3 DEF Framed
  <2>2. Framed \subseteq Path /\ Framed' \subseteq Path'
    BY DEF Framed
  <2> QED  BY <1>3, <2>1, <2>2
<1> QED  BY <1>3, <1>4, <1>5, <1>6, <1>7 DEF Control

-----------------------------------------------------------------------------
(* The stack has a frame of each call that is framed, and a write in it is of a call      *)
(* within all whose frame covers it.                                                      *)

StackOK ==
    /\ \A j, k \in 1..Len(db) : j < k => db[j].savepoint <= db[k].savepoint
    /\ \A k \in 1..Len(db) : /\ (db[k].savepoint = 0) <=> (k = 1)
                             /\ k > 1 => \E u \in Framed : level[u] + 1 = db[k].savepoint
    /\ Framed = {} => Len(db) = 0
    /\ \A u \in Framed : \E k \in 1..Len(db) : db[k].savepoint = level[u]

\* A call's commit is executed; or it is to be rolled back.
Passed(t) == InProgress(t) /\ \/ outcome[t] = "value"
                              \/ CommitOnly(t, TRUE) \/ CommitAndRollback(t, TRUE)
Done(t) == result[t] = "value" \/ (signal[t] /\ committing[t]) \/ Passed(t)
Doomed(t) == result[t] = "error" \/ (scope[t] \in {"closing", "rollback"} /\ outcome[t] = "error")

\* What is settled of a call stays so.
GoesOn == \A u \in Txns : /\ (Done(u) => Done(u)') /\ (Doomed(u) => Doomed(u)')
                          /\ u \in Framed => level'[u] = level[u]

-----------------------------------------------------------------------------
\* The first statement on the wire is of the innermost call.
LEMMA WireFacts ==
    ASSUME Types, Fits, Control
    PROVE  /\ \A t : Innermost(t) /\ wire # <<>> => wire[1].txn = t
           /\ \A u \in Txns : CommitOnly(u, TRUE) \/ CommitAndRollback(u, TRUE) => committing[u] /\ wire # <<>> /\ wire[1].txn = u
<1>1. ASSUME NEW t, Innermost(t), wire # <<>> PROVE wire[1].txn = t
  <2>1. \A op, ok : wire = <<Statement(t, op, ok)>> => wire[1].txn = t
    BY DEF Statement
  <2>2. \A op, ok, s : wire = <<Statement(t, op, ok), s>> => wire[1].txn = t
    BY DEF Statement
  <2>3. scope[t] \in {"opening", "using", "closing", "rollback"}
    BY <1>1, PathFacts DEF Innermost
  <2>4. \/ wire = <<>> \/ \E op, ok : wire = <<Statement(t, op, ok)>>
        \/ \E op, ok, s : wire = <<Statement(t, op, ok), s>>
    <3>1. WireIsOf(t)
      BY <1>1 DEF Innermost
    <3>2. CASE scope[t] = "opening"
      BY <3>1, <3>2, Zenon DEF WireIsOf
    <3>3. CASE scope[t] = "using"
      BY <3>1, <3>3, Zenon DEF WireIsOf, CommitOnly
    <3>4. CASE scope[t] = "closing"
      BY <3>1, <3>4, Zenon DEF WireIsOf, CommitOnly
    <3>5. CASE scope[t] = "rollback"
      BY <3>1, <3>5, Zenon DEF WireIsOf, CommitAndRollback
    <3> QED  BY <2>3, <3>2, <3>3, <3>4, <3>5
  <2> QED  BY <1>1, <2>1, <2>2, <2>4, Zenon
<1>2. ASSUME NEW u \in Txns, CommitOnly(u, TRUE) \/ CommitAndRollback(u, TRUE)
      PROVE  committing[u] /\ wire # <<>> /\ wire[1].txn = u
  <2> DEFINE c == Statement(u, "commit", TRUE)
             r == Statement(u, "rollback", ~TRUE)
  <2>0. wire = <<c>> \/ wire = <<c, r>>
    BY <1>2, Zenon DEF CommitOnly, CommitAndRollback
  <2> HIDE DEF c, r
  <2>1. Len(wire) \in {1, 2} /\ 1 \in 1..Len(wire) /\ wire # <<>> /\ wire[1] = c
    BY <2>0
  <2>2. wire[1].txn = u /\ wire[1].op = "commit"
    BY <2>1 DEF c, Statement
  <2> QED  BY <2>1, <2>2 DEF Fits, WireFits, StatementFits
<1> QED  BY <1>1, <1>2

\* Only the innermost call can have passed.
LEMMA PassedFacts ==
    ASSUME Types, Fits, Control, NEW u \in Txns, Passed(u)
    PROVE  Innermost(u)
<1>1. u \in Path
  BY DEF Passed, Path
<1>2. ~Waits(u)
  <2>1. CASE outcome[u] = "value"
    BY <2>1 DEF Control, CallIsSound, Waits
  <2>2. CASE CommitOnly(u, TRUE) \/ CommitAndRollback(u, TRUE)
    <3>1. committing[u]
      BY <2>2, WireFacts
    <3> QED  BY <3>1 DEF Waits, Fits, CallFits
  <2> QED  BY <2>1, <2>2 DEF Passed
<1>3. PICK t \in Txns : Innermost(t)
  BY <1>1 DEF Control, AtRest
<1> QED  BY <1>1, <1>2, <1>3, InnermostFacts

\* A step of the innermost call, or of one that begins when none is in progress.
LEMMA OthersGoOn ==
    ASSUME Types, Fits, Control, NEW t \in Txns, OthersSame(t),
           \A u \in Txns : Innermost(u) => u = t \/ ~Passed(u),
           Done(t) => Done(t)', Doomed(t) => Doomed(t)', t \in Framed => level'[t] = level[t]
    PROVE  GoesOn
<1>1. ASSUME NEW u \in Txns, u # t
      PROVE  /\ (Done(u) => Done(u)') /\ (Doomed(u) => Doomed(u)') /\ level'[u] = level[u]
  <2>1. ~Passed(u) /\ Same(u)
    BY <1>1, PassedFacts DEF OthersSame
  <2> QED  BY <2>1 DEF Done, Doomed, Same
<1>2. \A u \in Txns : /\ (Done(u) => Done(u)') /\ (Doomed(u) => Doomed(u)')
                      /\ u \in Framed => level'[u] = level[u]
  BY <1>1
<1> QED  BY <1>2 DEF GoesOn
-----------------------------------------------------------------------------
(* A step keeps control. *)

LEMMA OnWire ==
    ASSUME NEW s
    PROVE  /\ <<s>> # <<>> /\ <<s>>[1] = s /\ Tail(<<s>>) = <<>> /\ Append(<<>>, s) = <<s>>
           /\ \A r : /\ Append(<<s>>, r) = <<s, r>> /\ <<s, r>> # <<>> /\ <<s, r>>[1] = s
                     /\ Tail(<<s, r>>) = <<r>>
<1>1. <<s>> # <<>> /\ <<s>>[1] = s
  OBVIOUS
<1>2. Tail(<<s>>) = <<>>
  OBVIOUS
<1>3. Append(<<>>, s) = <<s>>
  OBVIOUS
<1>4. ASSUME NEW r PROVE Append(<<s>>, r) = <<s, r>> /\ <<s, r>> # <<>> /\ <<s, r>>[1] = s
  <2>1. <<s>> \in Seq({s, r}) /\ <<s, r>> \in Seq({s, r}) /\ Len(<<s>>) = 1 /\ Len(<<s, r>>) = 2
    OBVIOUS
  <2>2. /\ Append(<<s>>, r) \in Seq({s, r}) /\ Len(Append(<<s>>, r)) = 2
        /\ Append(<<s>>, r)[1] = <<s, r>>[1] /\ Append(<<s>>, r)[2] = <<s, r>>[2]
    BY <2>1, AppendProperties
  <2>3. \A i \in 1..2 : Append(<<s>>, r)[i] = <<s, r>>[i]
    BY <2>2
  <2>4. Append(<<s>>, r) = <<s, r>>
    BY <2>1, <2>2, <2>3, SeqEqual
  <2> QED  BY <2>4
<1>5. ASSUME NEW r PROVE Tail(<<s, r>>) = <<r>>
  OBVIOUS
<1> QED  BY <1>1, <1>2, <1>3, <1>4, <1>5

\* A call whose callback runs has a frame, before and after a step of another.
LEMMA RunningIsFramed ==
    ASSUME Types, Types', Fits, Fits', NEW u \in Path, Same(u),
           scope[u] = "using", fn[u] = "running"
    PROVE  u \in Framed /\ u \in Framed'
<1>1. /\ u \in Txns /\ scope[u] = "using" /\ scope'[u] = "using" /\ fn[u] = "running"
      /\ u \in Path'
  BY PathFacts DEF Same, Path, InProgress
<1>2. ~settled[u] /\ ~committing[u] /\ ~settled'[u] /\ ~committing'[u]
  BY <1>1 DEF Fits, CallFits, Same
<1> DEFINE c == Statement(u, "commit", TRUE)
<1>3. c.txn = u /\ c.op = "commit"
  BY DEF Statement
<1> HIDE DEF c
<1>4. ~CommitOnly(u, TRUE)
  <2> SUFFICES ASSUME wire = <<c>> PROVE FALSE
    BY DEF CommitOnly, c
  <2>1. 1 \in 1..Len(wire) /\ wire[1] = c
    OBVIOUS
  <2> QED  BY <1>2, <1>3, <2>1 DEF Fits, WireFits, StatementFits
<1>5. ~CommitOnly(u, TRUE)'
  <2> SUFFICES ASSUME wire' = <<c>> PROVE FALSE
    BY DEF CommitOnly, c
  <2>1. 1 \in 1..Len(wire') /\ wire'[1] = c
    OBVIOUS
  <2> QED  BY <1>2, <1>3, <2>1 DEF Fits, WireFits, StatementFits
<1> QED  BY <1>1, <1>2, <1>4, <1>5 DEF Framed

LEMMA FramedStays ==
    ASSUME Types, Types', Fits, Fits', NEW t, Innermost(t), OthersSame(t), Path' = Path
    PROVE  Framed' \ {t} = Framed \ {t}
<1>1. ASSUME NEW u \in Path, u # t PROVE u \in Framed /\ u \in Framed'
  <2>1. Same(u) /\ scope[u] = "using" /\ fn[u] = "running"
    BY <1>1, PathFacts DEF Innermost, OthersSame, Waits
  <2> QED  BY <2>1, RunningIsFramed
<1>2. Framed \subseteq Path /\ Framed' \subseteq Path'
  BY DEF Framed
<1> QED  BY <1>1, <1>2

\* Nothing changes but a callback that nobody listens to any more.
LEMMA ControlSame ==
    ASSUME Types, Types', Fits, Control, NEW t \in Txns, OthersSame(t),
           UNCHANGED <<wire, depth, level, scope, committing, settled, signal, outcome, result>>,
           scope[t] = "using" => fn'[t] = fn[t]
    PROVE  Control' /\ GoesOn /\ Framed' = Framed
<1>1. Path' = Path /\ (\A p : Awaiting(p)' <=> Awaiting(p))
  BY DEF Path, InProgress, Awaiting, Calls
<1>2. \A u \in Txns : fn'[u] = fn[u] \/ scope[u] # "using"
  BY DEF OthersSame, Same
<1>3. \A u \in Txns : Waits(u)' <=> Waits(u)
  BY <1>1, <1>2 DEF Waits
<1>4. \A u, ok : /\ CommitOnly(u, ok)' <=> CommitOnly(u, ok)
                 /\ CommitAndRollback(u, ok)' <=> CommitAndRollback(u, ok)
  BY DEF CommitOnly, CommitAndRollback
<1>5. Framed' = Framed
  BY <1>1, <1>4 DEF Framed
<1>6. ASSUME NEW u \in Txns, CallIsSound(u) PROVE CallIsSound(u)'
  BY <1>2, <1>6 DEF CallIsSound, InProgress
<1>7. \A u \in Txns : (WireIsOf(u)' <=> WireIsOf(u)) /\ (DepthIsOf(u)' <=> DepthIsOf(u))
  BY <1>4 DEF WireIsOf, DepthIsOf
<1>8. \A u \in Txns : Innermost(u) => Innermost(u)'
  BY <1>1, <1>3, <1>7, PathFacts DEF Innermost
<1>9. Paths'
  BY <1>1, PathFacts DEF Control, Paths
<1>10. Control'
  BY <1>1, <1>6, <1>8, <1>9 DEF Control, AtRest
<1>11. \A u \in Txns : (Done(u)' <=> Done(u)) /\ (Doomed(u)' <=> Doomed(u))
  BY <1>4 DEF Done, Doomed, Passed, InProgress
<1>12. GoesOn
  BY <1>11 DEF GoesOn
<1> QED  BY <1>5, <1>10, <1>12

\* A call begins: at rest, or in the callback of the innermost one.
LEMMA CallControl ==
    ASSUME Types, Types', Fits, Fits', Control, NEW t \in Txns, Call(t), strayed' = "no"
    PROVE  /\ Control' /\ GoesOn /\ strayed = "no" /\ depth >= 0 /\ t \notin Framed
           /\ level'[t] = depth
           /\ depth = 0 \/ \E p \in Framed : level[p] + 1 = depth
           /\ \A u \in Framed : level[u] < depth
           /\ \/ Framed' = Framed /\ db' = db
              \/ /\ Framed' = Framed \cup {t}
                 /\ depth = 0 => db = <<>>
                 /\ db' \in Seq(Frames) /\ Len(db') = Len(db) + 1
                 /\ \A k \in 1..Len(db) : db'[k] = db[k]
                 /\ db'[Len(db) + 1] = Frame(depth)
<1>1. /\ OthersSame(t) /\ scope[t] = "none" /\ scope'[t] = "opening" /\ level'[t] = depth
      /\ depth \in Int /\ depth' = depth
  BY CallEffect DEF Types
<1>2. /\ ~Awaiting(Parent[t]) /\ (Parent[t] # None => fn[Parent[t]] = "running" /\ ~signal[Parent[t]])
      /\ strayed = "no" /\ SendOpen(t, Savepoint(depth))
  BY DEF Call, Aborted
<1>3. t \notin Path /\ t \notin Framed
  BY <1>1 DEF Path, InProgress, Framed
<1>5. /\ wire = <<>> /\ depth >= 0
      /\ \A u \in Path : /\ level[u] < depth /\ u \in Txns /\ scope[u] = "using" /\ fn[u] = "running"
                         /\ u = Parent[t] \/ Awaiting(u)
      /\ Parent[t] = None => Path = {} /\ depth = 0
      /\ Parent[t] # None => Parent[t] \in Path /\ level[Parent[t]] + 1 = depth /\ Awaiting(None)
                             /\ depth > 0 /\ Innermost(Parent[t])
  <2>1. CASE Parent[t] = None
    BY <1>2, <2>1 DEF Control, Innermost, AtRest
  <2>2. CASE Parent[t] # None
    <3>1. PICK p : p = Parent[t]
      OBVIOUS
    <3>2. p \in Txns /\ fn[p] = "running" /\ ~signal[p] /\ ~Awaiting(p)
      BY <1>2, <2>2, <3>1 DEF Types, CallsAreKnown
    <3>3. scope[p] = "using" /\ ~committing[p] /\ ~settled[p]
      BY <3>2 DEF Fits, CallFits
    <3>4. p \in Path
      BY <3>2, <3>3, PathFacts
    <3>5. PICK q \in Txns : Innermost(q)
      BY <3>4 DEF Control, AtRest
    <3>6. p = q
      BY <3>2, <3>4, <3>5, InnermostFacts
    <3>7. Innermost(p) /\ wire = <<>> /\ depth = level[p] + 1 /\ Awaiting(None)
      BY <3>3, <3>5, <3>6 DEF Innermost, WireIsOf, DepthIsOf
    <3>8. level[p] >= 0 /\ level[p] \in Int
      BY <3>4, PathFacts DEF Control, Paths
    <3>9. ASSUME NEW u \in Path
          PROVE  /\ level[u] < depth /\ u \in Txns /\ scope[u] = "using" /\ fn[u] = "running"
                 /\ u = Parent[t] \/ Awaiting(u)
      <4>1. CASE u = p
        BY <3>1, <3>2, <3>3, <3>7, <3>8, <4>1
      <4>2. CASE u # p
        BY <3>7, <3>8, <4>2, PathFacts DEF Innermost, Waits
      <4> QED  BY <4>1, <4>2
    <3> QED  BY <2>2, <3>1, <3>4, <3>7, <3>8, <3>9
  <2> QED  BY <2>1, <2>2
<1>6. PICK ok \in BOOLEAN :
         /\ wire' = <<Statement(t, "open", ok)>>
         /\ ~ok => db' = db
         /\ ok => /\ depth = 0 => db = <<>>
                  /\ db' \in Seq(Frames) /\ Len(db') = Len(db) + 1
                  /\ \A k \in 1..Len(db) : db'[k] = db[k]
                  /\ db'[Len(db) + 1] = Frame(depth)
  <2>1. Savepoint(depth) = depth /\ depth \in Nat
    BY <1>1, <1>5, SavepointFacts
  <2>2. \/ db' = db /\ wire' = Append(<<>>, Statement(t, "open", FALSE))
        \/ /\ wire' = Append(<<>>, Statement(t, "open", TRUE))
           /\ depth = 0 => db = <<>>
           /\ db' \in Seq(Frames) /\ Len(db') = Len(db) + 1
           /\ \A k \in 1..Len(db) : db'[k] = db[k]
           /\ db'[Len(db) + 1] = Frame(depth)
    BY <1>2, <1>5, <2>1, OpenFacts
  <2>3. \A ok \in BOOLEAN : Append(<<>>, Statement(t, "open", ok)) = <<Statement(t, "open", ok)>>
    BY OnWire
  <2>4. \/ db' = db /\ wire' = <<Statement(t, "open", FALSE)>>
        \/ /\ wire' = <<Statement(t, "open", TRUE)>>
           /\ depth = 0 => db = <<>>
           /\ db' \in Seq(Frames) /\ Len(db') = Len(db) + 1
           /\ \A k \in 1..Len(db) : db'[k] = db[k]
           /\ db'[Len(db) + 1] = Frame(depth)
    BY <2>2, <2>3
  <2> QED  BY <2>4
<1>7. Path' = Path \cup {t}
  BY <1>1 DEF Path, InProgress, OthersSame, Same
<1>8. \A u \in Path : level'[u] = level[u] /\ scope'[u] = "using" /\ fn'[u] = "running" /\ Same(u)
  <2> SUFFICES ASSUME NEW u \in Path PROVE level'[u] = level[u] /\ scope'[u] = "using" /\ fn'[u] = "running" /\ Same(u)
    OBVIOUS
  <2>1. u # t /\ u \in Txns /\ scope[u] = "using" /\ fn[u] = "running"
    BY <1>3, <1>5
  <2>2. Same(u)
    BY <1>1, <2>1 DEF OthersSame
  <2> QED  BY <2>1, <2>2 DEF Same
<1>9. Awaiting(Parent[t])' /\ \A p : Awaiting(p) => Awaiting(p)'
  <2>1. \A u \in Txns : InProgress(u) => InProgress(u)'
    BY <1>7 DEF Path
  <2>2. InProgress(t)'
    BY <1>7 DEF Path
  <2> QED  BY <2>1, <2>2 DEF Awaiting, Calls
<1>10. Innermost(t)'
  <2>1. WireIsOf(t)' /\ DepthIsOf(t)'
    BY <1>1, <1>6 DEF WireIsOf, DepthIsOf
  <2>2. Awaiting(None)'
    BY <1>5, <1>9
  <2>3. \A u \in Path' : u # t => level'[u] < level'[t] /\ Waits(u)'
    BY <1>1, <1>5, <1>7, <1>8, <1>9 DEF Waits
  <2> QED  BY <1>7, <2>1, <2>2, <2>3 DEF Innermost
<1>11. Paths'
  <2>1. \A u \in Path' : IF Parent[u] = None THEN level'[u] = 0
                         ELSE /\ Parent[u] \in Path' /\ level'[u] = level'[Parent[u]] + 1
                              /\ level'[u] > 0
    <3>1. ASSUME NEW u \in Path
          PROVE  IF Parent[u] = None THEN level'[u] = 0
                 ELSE /\ Parent[u] \in Path' /\ level'[u] = level'[Parent[u]] + 1
                      /\ level'[u] > 0
      <4>1. IF Parent[u] = None THEN level[u] = 0
            ELSE Parent[u] \in Path /\ level[u] = level[Parent[u]] + 1 /\ level[u] > 0
        BY DEF Control, Paths
      <4> QED  BY <1>7, <1>8, <4>1
    <3>2. CASE Parent[t] = None
      BY <1>1, <1>5, <1>7, <3>1, <3>2
    <3>3. CASE Parent[t] # None
      BY <1>1, <1>5, <1>7, <1>8, <3>1, <3>3
    <3> QED  BY <3>2, <3>3
  <2>2. \A u, v \in Path' : level'[u] = level'[v] => u = v
    BY <1>1, <1>5, <1>7, <1>8, PathFacts DEF Control, Paths
  <2>3. ASSUME NEW u \in Path', NEW v \in Path', level'[u] <= level'[v] PROVE u \in Around(v)
    <3>0. CallsAreKnown
      BY DEF Types
    <3>1. CASE u \in Path /\ v \in Path
      BY <1>8, <2>3, <3>1 DEF Control, Paths
    <3>2. CASE u = t
      <4>1. v = t
        BY <1>1, <1>5, <1>7, <1>8, <2>3, <3>2, PathFacts
      <4> QED  BY <3>0, <3>2, <4>1, AroundFacts
    <3>3. CASE u \in Path /\ v = t
      <4>1. PICK p : p = Parent[t]
        OBVIOUS
      <4>2. p \in Path /\ p # None /\ level[p] + 1 = depth /\ level[u] < depth
        BY <1>5, <3>3, <4>1
      <4>3. level[u] <= level[p]
        BY <3>3, <4>2, <1>1, PathFacts
      <4>4. u \in Around(p)
        BY <3>3, <4>2, <4>3 DEF Control, Paths
      <4> QED  BY <3>0, <3>3, <4>1, <4>2, <4>4, AroundFacts
    <3> QED  BY <1>7, <2>3, <3>1, <3>2, <3>3
  <2> QED  BY <2>1, <2>2, <2>3 DEF Paths
<1>12. CallIsSound(t) /\ ~signal[t] /\ fn[t] = "none" /\ ~settled[t] /\ ~committing[t]
  BY <1>1 DEF Control, Fits, CallFits
<1>13. \A u \in Txns : CallIsSound(u)'
  <2>1. CallIsSound(t)'
    BY <1>1, <1>12, CallEffect DEF CallIsSound, InProgress
  <2>2. ASSUME NEW u \in Txns, u # t PROVE CallIsSound(u)'
    <3>1. CallIsSound(u) /\ Same(u)
      BY <1>1, <2>2 DEF Control, OthersSame
    <3> QED  BY <3>1 DEF CallIsSound, Same, InProgress
  <2> QED  BY <2>1, <2>2
<1>14. Control'
  BY <1>10, <1>11, <1>13 DEF Control
<1>15. Framed = Path /\ \A u \in Path : u \in Framed'
  <2>1. \A u \in Path : u \in Framed /\ u \in Framed'
    BY <1>5, <1>8, RunningIsFramed
  <2> QED  BY <2>1 DEF Framed
<1>16. t \in Framed' <=> ok
  <2>1. t \in Framed' <=> wire' = <<Statement(t, "open", TRUE)>>
    BY <1>1, <1>7 DEF Framed
  <2>2. wire'[1].ok = ok
    BY <1>6 DEF Statement
  <2>3. wire' = <<Statement(t, "open", TRUE)>> => wire'[1].ok = TRUE
    BY DEF Statement
  <2> QED  BY <1>6, <2>1, <2>2, <2>3
<1>17. Framed' \subseteq Path'
  BY DEF Framed
<1>18. ok => Framed' = Framed \cup {t}
  BY <1>7, <1>15, <1>16, <1>17
<1>19. ~ok => Framed' = Framed
  BY <1>7, <1>15, <1>16, <1>17, <1>3
<1>20. GoesOn
  <2>1. ~Done(t) /\ ~Doomed(t)
    BY <1>1, <1>12 DEF CallIsSound, Done, Doomed, Passed, InProgress
  <2>2. \A u \in Txns : ~Passed(u)
    <3> SUFFICES ASSUME NEW u \in Txns, Passed(u) PROVE FALSE
      OBVIOUS
    <3>1. u \in Path /\ scope[u] = "using"
      BY <1>5 DEF Passed, Path
    <3>2. outcome[u] = "none"
      BY <3>1 DEF Control, CallIsSound
    <3> QED  BY <1>5, <3>2, WireFacts DEF Passed
  <2> QED  BY <1>1, <1>3, <2>1, <2>2, OthersGoOn
<1>21. depth = 0 \/ \E p \in Framed : level[p] + 1 = depth
  BY <1>5, <1>15
<1> QED  BY <1>1, <1>2, <1>3, <1>5, <1>6, <1>14, <1>15, <1>18, <1>19, <1>20, <1>21

LEMMA InnermostGoesOn ==
    ASSUME Types, Fits, Control, NEW t, Innermost(t), OthersSame(t), level'[t] = level[t],
           Done(t) => Done(t)', Doomed(t) => Doomed(t)'
    PROVE  GoesOn
<1>1. t \in Txns
  BY InnermostFacts
<1>2. ASSUME NEW u \in Txns, Innermost(u) PROVE u = t
  <2>1. u \in Path /\ ~Awaiting(u)
    BY <1>2, InnermostFacts DEF Innermost
  <2> QED  BY <2>1, InnermostFacts
<1> QED  BY <1>1, <1>2, OthersGoOn

\* A call in progress that is not awaiting another is the innermost.
LEMMA IsInnermost ==
    ASSUME Types, Control, NEW t \in Txns, InProgress(t), ~Awaiting(t) \/ ~Waits(t)
    PROVE  Innermost(t)
<1>1. t \in Path
  BY DEF Path
<1>2. PICK u \in Txns : Innermost(u)
  BY <1>1 DEF Control, AtRest
<1> QED  BY <1>1, <1>2, InnermostFacts

\* A step of the innermost call after which it is still in progress.
LEMMA InnermostStays ==
    ASSUME Types, Types', Fits, Fits', Control, NEW t \in Txns, Innermost(t), OthersSame(t),
           level'[t] = level[t], InProgress(t)', CallIsSound(t)', WireIsOf(t)', DepthIsOf(t)',
           Done(t) => Done(t)', Doomed(t) => Doomed(t)'
    PROVE  /\ Control' /\ GoesOn
           /\ Framed' = IF t \in Framed' THEN Framed \cup {t} ELSE Framed \ {t}
<1>1. Control' /\ Path' = Path
  BY PathStays
<1>2. Framed' \ {t} = Framed \ {t}
  BY <1>1, FramedStays
<1>3. GoesOn
  BY InnermostGoesOn
<1>4. CASE t \in Framed'
  <2>1. Framed' = Framed \cup {t}
    BY <1>2, <1>4
  <2> QED  BY <1>1, <1>3, <1>4, <2>1
<1>5. CASE t \notin Framed'
  <2>1. Framed' = Framed \ {t}
    BY <1>2, <1>5
  <2> QED  BY <1>1, <1>3, <1>5, <2>1
<1> QED  BY <1>4, <1>5

\* The callback of a call that was aborted ends: nobody notices.
LEMMA UnheardControl ==
    ASSUME Types, Types', Fits, Control, NEW t \in Txns, signal[t],
           CallbackReturns(t) \/ CallbackThrows(t)
    PROVE  /\ Control' /\ GoesOn /\ Framed' = Framed /\ db' = db /\ durable' = durable
           /\ wrote' = wrote
<1>1. scope[t] # "using"
  BY DEF Control, CallIsSound
<1>2. /\ UNCHANGED <<wire, depth, level, scope, committing, settled, signal, outcome, result>>
      /\ OthersSame(t) /\ db' = db /\ durable' = durable /\ wrote' = wrote
  <2>1. CASE CallbackReturns(t)
    BY <2>1 DEF CallbackReturns, Commits, connection, OthersSame, Same, Types
  <2>2. CASE CallbackThrows(t)
    BY <1>1, <2>2 DEF CallbackThrows, EndUse, connection, OthersSame, Same, Types
  <2> QED  BY <2>1, <2>2
<1> QED  BY <1>1, <1>2, ControlSame

\* What is known of the innermost call when its callback runs.
LEMMA RunningFacts ==
    ASSUME Types, Fits, Control, NEW t \in Txns, fn[t] = "running", ~signal[t], ~Awaiting(t)
    PROVE  /\ Innermost(t) /\ t \in Path /\ scope[t] = "using" /\ ~committing[t] /\ ~settled[t]
           /\ wire = <<>> /\ depth = level[t] + 1 /\ outcome[t] = "none" /\ result[t] = "none"
           /\ t \in Framed /\ Framed = Path /\ level[t] \in Int /\ level[t] >= 0
<1>1. scope[t] = "using" /\ ~committing[t] /\ ~settled[t]
  BY DEF Fits, CallFits
<1>2. t \in Path /\ InProgress(t)
  BY <1>1 DEF Path, InProgress
<1>3. Innermost(t)
  BY <1>2, IsInnermost
<1>4. wire = <<>> /\ depth = level[t] + 1
  BY <1>1, <1>3 DEF Innermost, WireIsOf, DepthIsOf
<1>5. outcome[t] = "none" /\ result[t] = "none"
  BY <1>1, <1>2 DEF Control, CallIsSound
<1>6. t \in Framed
  <2>1. wire # <<Statement(t, "commit", TRUE)>>
    BY <1>4
  <2> QED  BY <1>1, <1>2, <2>1 DEF Framed, CommitOnly
<1>7. Framed = Path
  BY <1>2, <1>3, <1>6, InnermostFacts
<1>8. level[t] >= 0 /\ level[t] \in Int
  BY <1>2, PathFacts DEF Control, Paths
<1> QED  BY <1>1, <1>2, <1>3, <1>4, <1>5, <1>6, <1>7, <1>8

LEMMA ThrowControl ==
    ASSUME Types, Types', Fits, Fits', Control, NEW t \in Txns, CallbackThrows(t), ~signal[t]
    PROVE  /\ Control' /\ GoesOn /\ Framed' = Framed /\ db' = db /\ durable' = durable
           /\ wrote' = wrote
<1>1. /\ OthersSame(t) /\ scope[t] = "using" /\ scope'[t] = "closing" /\ outcome'[t] = "error"
      /\ level' = level /\ committing' = committing /\ settled' = settled /\ signal' = signal
      /\ result' = result /\ depth' = depth /\ wrote' = wrote /\ wire' = wire /\ db' = db
      /\ durable' = durable
  <2>1. scope[t] = "using"
    BY ThrowEffect DEF Fits, CallFits
  <2> QED  BY <2>1, ThrowEffect DEF connection
<1>2. /\ Innermost(t) /\ t \in Path /\ ~committing[t] /\ ~settled[t] /\ wire = <<>>
      /\ depth = level[t] + 1 /\ outcome[t] = "none" /\ result[t] = "none" /\ t \in Framed
  BY RunningFacts, ThrowEffect
<1>3. InProgress(t)' /\ CallIsSound(t)'
  BY <1>1, <1>2 DEF InProgress, CallIsSound
<1>4. WireIsOf(t)' /\ DepthIsOf(t)'
  BY <1>1, <1>2 DEF WireIsOf, DepthIsOf
<1>5. ~Done(t) /\ ~Doomed(t)
  <2>1. ~CommitOnly(t, TRUE) /\ ~CommitAndRollback(t, TRUE)
    BY <1>2, WireFacts
  <2> QED  BY <1>1, <1>2, <2>1 DEF Done, Doomed, Passed
<1>6. t \in Framed'
  <2>1. wire' # <<Statement(t, "commit", TRUE)>>
    BY <1>1, <1>2
  <2> QED  BY <1>1, <1>2, <1>3, <2>1 DEF Framed, CommitOnly, Path
<1>7. Control' /\ GoesOn /\ Framed' = Framed \cup {t}
  BY <1>1, <1>2, <1>3, <1>4, <1>5, <1>6, InnermostStays
<1> QED  BY <1>1, <1>2, <1>7

\* The commit is sent.
LEMMA ReturnControl ==
    ASSUME Types, Types', Fits, Fits', Control, NEW t \in Txns, CallbackReturns(t), ~signal[t]
    PROVE  /\ Control' /\ GoesOn /\ wrote' = wrote
           /\ t \in Framed /\ level[t] \in Nat /\ \A u \in Framed : u # t => level[u] < level[t]
           /\ \/ Framed' = Framed /\ db' = db /\ durable' = durable
              \/ /\ Framed' = Framed \ {t} /\ Done(t)'
                 /\ SendCommit(t, level[t]) /\ ~Refuse(t, "commit")
<1>1. /\ OthersSame(t) /\ fn'[t] = "over" /\ committing'[t] /\ SendCommit(t, Savepoint(level[t]))
      /\ level' = level /\ scope' = scope /\ settled' = settled /\ signal' = signal
      /\ outcome' = outcome /\ result' = result /\ depth' = depth /\ wrote' = wrote
  BY ReturnEffect
<1>2. /\ Innermost(t) /\ t \in Path /\ scope[t] = "using" /\ ~settled[t] /\ wire = <<>>
      /\ depth = level[t] + 1 /\ outcome[t] = "none" /\ result[t] = "none" /\ t \in Framed
      /\ Framed = Path /\ level[t] \in Int /\ level[t] >= 0
  BY RunningFacts, ReturnEffect
<1>3. SendCommit(t, level[t])
  BY <1>1, <1>2, SavepointFacts
<1>4. PICK ok \in BOOLEAN : /\ CommitOnly(t, ok)' /\ wire' = <<Statement(t, "commit", ok)>>
                            /\ ~ok => db' = db /\ durable' = durable
                            /\ ok => ~Refuse(t, "commit")
  <2>0. \A ok \in BOOLEAN : Append(<<>>, Statement(t, "commit", ok)) = <<Statement(t, "commit", ok)>>
    BY OnWire
  <2>1. CASE Refuse(t, "commit")
    <3>1. wire' = Append(<<>>, Statement(t, "commit", FALSE)) /\ db' = db /\ durable' = durable
      BY <1>2, <2>1 DEF Refuse, Send, Statement
    <3>2. wire' = <<Statement(t, "commit", FALSE)>>
      BY <2>0, <3>1
    <3> QED  BY <3>1, <3>2 DEF CommitOnly
  <2>2. CASE ~Refuse(t, "commit")
    <3>1. wire' = Append(<<>>, Statement(t, "commit", TRUE))
      BY <1>2, <1>3, <2>2 DEF SendCommit, Send, Statement
    <3>2. wire' = <<Statement(t, "commit", TRUE)>>
      BY <2>0, <3>1
    <3> QED  BY <2>2, <3>2 DEF CommitOnly
  <2> QED  BY <2>1, <2>2
<1>5. InProgress(t)' /\ CallIsSound(t)'
  BY <1>1, <1>2 DEF InProgress, CallIsSound
<1>6. WireIsOf(t)' /\ DepthIsOf(t)'
  BY <1>1, <1>2, <1>4 DEF WireIsOf, DepthIsOf
<1>7. ~Done(t) /\ ~Doomed(t)
  <2>1. ~CommitOnly(t, TRUE) /\ ~CommitAndRollback(t, TRUE)
    BY <1>2, WireFacts
  <2> QED  BY <1>1, <1>2, <2>1 DEF Done, Doomed, Passed
<1>8. Control' /\ GoesOn /\ Framed' = IF t \in Framed' THEN Framed \cup {t} ELSE Framed \ {t}
  BY <1>1, <1>2, <1>5, <1>6, <1>7, InnermostStays
<1>9. \A u \in Framed : u # t => level[u] < level[t]
  BY <1>2 DEF Innermost
<1>10. CASE ok
  <2>1. CommitOnly(t, TRUE)'
    BY <1>4, <1>10
  <2>2. t \notin Framed' /\ Done(t)'
    BY <1>1, <1>2, <1>5, <2>1 DEF Framed, Done, Passed
  <2> QED  BY <1>1, <1>2, <1>3, <1>4, <1>8, <1>9, <1>10, <2>2
<1>11. CASE ~ok
  <2>1. ~CommitOnly(t, TRUE)'
    <3>1. Statement(t, "commit", ok).ok = ok /\ Statement(t, "commit", TRUE).ok = TRUE
      BY DEF Statement
    <3>2. wire'[1] = Statement(t, "commit", ok)
      BY <1>4
    <3>3. wire' = <<Statement(t, "commit", TRUE)>> => wire'[1] = Statement(t, "commit", TRUE)
      OBVIOUS
    <3>4. wire' # <<Statement(t, "commit", TRUE)>>
      BY <1>11, <3>1, <3>2, <3>3
    <3> QED  BY <3>4 DEF CommitOnly
  <2>2. t \in Framed'
    BY <1>1, <1>2, <1>5, <2>1 DEF Framed, Path
  <2>3. Framed' = Framed
    BY <1>2, <1>8, <2>2
  <2> QED  BY <1>1, <1>2, <1>4, <1>8, <1>9, <1>11, <2>3
<1> QED  BY <1>10, <1>11

LEMMA AbortControl ==
    ASSUME Types, Types', Fits, Fits', Control, NEW t \in Txns, Abort(t), strayed' = "no"
    PROVE  /\ Control' /\ GoesOn /\ Framed' = Framed /\ db' = db /\ durable' = durable
           /\ wrote' = wrote /\ strayed = "no"
<1>1. /\ OthersSame(t) /\ InProgress(t) /\ ~signal[t] /\ signal'[t] = TRUE
      /\ result'[t] = First(result[t], "error")
      /\ scope[t] = "using" => scope'[t] = "closing" /\ outcome'[t] = "error"
      /\ scope[t] # "using" => scope'[t] = scope[t] /\ outcome'[t] = outcome[t]
      /\ level' = level /\ committing' = committing /\ settled' = settled /\ fn' = fn
      /\ depth' = depth /\ wrote' = wrote /\ wire' = wire /\ db' = db /\ durable' = durable
      /\ ~Awaiting(t) /\ strayed = "no"
  BY AbortEffect DEF connection
<1>2. Innermost(t) /\ t \in Path /\ CallIsSound(t)
  BY <1>1, IsInnermost DEF Innermost, Control
<1>3. scope[t] \in {"opening", "using", "closing", "rollback"}
  BY <1>2, PathFacts
<1>4. InProgress(t)' /\ result'[t] = "error" /\ result[t] = "none"
  BY <1>1, <1>2, <1>3 DEF InProgress, CallIsSound, First
<1>5. CallIsSound(t)'
  <2>1. scope[t] = "using" => ~settled[t]
    BY DEF Fits, CallFits
  <2> QED  BY <1>1, <1>2, <1>3, <1>4, <2>1 DEF CallIsSound, InProgress
<1>6. \A u, ok : CommitOnly(u, ok)' <=> CommitOnly(u, ok)
  BY <1>1 DEF CommitOnly
<1>7. \A u, ok : CommitAndRollback(u, ok)' <=> CommitAndRollback(u, ok)
  BY <1>1 DEF CommitAndRollback
<1>8. WireIsOf(t)'
  <2>0. WireIsOf(t) /\ (scope[t] = "using" => ~settled[t])
    BY <1>2 DEF Innermost, Fits, CallFits
  <2>1. CASE scope[t] = "opening"
    BY <1>1, <2>0, <2>1 DEF WireIsOf
  <2>2. CASE scope[t] = "using"
    BY <1>1, <1>6, <2>0, <2>2 DEF WireIsOf
  <2>3. CASE scope[t] = "closing"
    BY <1>1, <1>6, <2>0, <2>3 DEF WireIsOf
  <2>4. CASE scope[t] = "rollback"
    BY <1>1, <1>7, <2>0, <2>4 DEF WireIsOf
  <2> QED  BY <1>3, <2>1, <2>2, <2>3, <2>4
<1>9. DepthIsOf(t)'
  BY <1>1, <1>2, <1>3 DEF Innermost, DepthIsOf
<1>10. Done(t) => Done(t)'
  BY <1>1, <1>2, <1>4, <1>6, <1>7 DEF Done, Passed, CallIsSound
<1>11. Doomed(t) => Doomed(t)'
  BY <1>4 DEF Doomed
<1>12. t \in Framed' <=> t \in Framed
  <2>1. Path' = Path
    BY <1>1, <1>4 DEF Path, OthersSame, Same, InProgress
  <2> QED  BY <1>1, <1>3, <1>6, <2>1 DEF Framed
<1>13. Control' /\ GoesOn /\ Framed' = IF t \in Framed' THEN Framed \cup {t} ELSE Framed \ {t}
  BY <1>1, <1>2, <1>4, <1>5, <1>8, <1>9, <1>10, <1>11, InnermostStays
<1>14. Framed' = Framed
  BY <1>12, <1>13
<1> QED  BY <1>1, <1>13, <1>14

\* The rollback is sent, and succeeds exactly if the call has a frame; or the call ends.
LEMMA RollbackControl ==
    ASSUME Types, Types', Fits, Fits', Control, StackOK, NEW t \in Txns, Rollback(t)
    PROVE  /\ Control' /\ GoesOn /\ wrote' = wrote
           /\ \/ Framed' = Framed /\ db' = db /\ durable' = durable
              \/ /\ t \in Framed /\ level[t] \in Nat /\ \A u \in Framed : u # t => level[u] < level[t]
                 /\ Framed' = Framed \ {t} /\ Doomed(t)'
                 /\ SendRollback(t, level[t]) /\ Has(level[t])
<1>1. /\ OthersSame(t) /\ scope[t] = "closing"
      /\ level' = level /\ committing' = committing /\ settled' = settled /\ signal' = signal
      /\ outcome' = outcome /\ fn' = fn /\ depth' = depth /\ wrote' = wrote
  BY RollbackEffect
<1>2. Innermost(t) /\ t \in Path /\ CallIsSound(t)
  <2>1. InProgress(t) /\ ~Waits(t)
    BY <1>1 DEF InProgress, Waits
  <2> QED  BY <2>1, IsInnermost DEF Innermost, Control
<1>3. /\ InProgress(t) /\ result[t] = (IF signal[t] THEN "error" ELSE "none")
      /\ outcome[t] \in {"value", "error"} /\ (outcome[t] = "value" => settled[t] /\ committing[t])
      /\ WireIsOf(t) /\ DepthIsOf(t) /\ level[t] \in Int /\ level[t] >= 0
  <2>1. level[t] >= 0 /\ level[t] \in Int
    BY <1>2, PathFacts DEF Control, Paths
  <2> QED  BY <1>1, <1>2, <2>1 DEF CallIsSound, InProgress, Innermost
<1>4. \A u \in Framed : u # t => level[u] < level[t]
  BY <1>2 DEF Innermost, Framed
<1>5. CASE settled[t]
  <2>1. /\ wire' = wire /\ db' = db /\ durable' = durable /\ scope'[t] = "over"
        /\ result'[t] = First(result[t], outcome[t])
    BY <1>5, RollbackEffect DEF connection
  <2>2. wire = <<>> /\ depth' = level[t] /\ wire' = <<>>
    BY <1>1, <1>3, <1>5, <2>1 DEF WireIsOf, DepthIsOf
  <2>3. CallIsSound(t)'
    BY <1>3, <2>1 DEF CallIsSound, InProgress, First
  <2>4. Control' /\ Framed' = Framed \ {t}
    BY <1>1, <1>2, <2>1, <2>2, <2>3, PathShrinks
  <2>5. t \notin Framed
    BY <1>1, <1>5 DEF Framed
  <2>6. Done(t) => Done(t)'
    <3>1. ~CommitOnly(t, TRUE) /\ ~CommitAndRollback(t, TRUE)
      BY <2>2, WireFacts
    <3> QED  BY <1>1, <1>3, <2>1, <3>1 DEF Done, Passed, First
  <2>7. Doomed(t) => Doomed(t)'
    BY <1>3, <2>1 DEF Doomed, First
  <2>8. GoesOn
    BY <1>1, <1>2, <2>6, <2>7, InnermostGoesOn
  <2>9. Framed' = Framed
    BY <2>4, <2>5
  <2> QED  BY <1>1, <2>1, <2>4, <2>8, <2>9
<1>6. CASE ~settled[t]
  <2>1. /\ scope'[t] = "rollback" /\ result'[t] = result[t]
        /\ SendRollback(t, Savepoint(level[t])) /\ outcome[t] = "error"
    BY <1>3, <1>6, RollbackEffect
  <2>2. SendRollback(t, level[t])
    BY <1>3, <2>1, SavepointFacts
  <2>3. t \in Framed <=> ~CommitOnly(t, TRUE)
    BY <1>1, <1>2, <1>6 DEF Framed
  <2>4. t \in Framed => Has(level[t])
    <3> SUFFICES ASSUME t \in Framed PROVE Has(level[t])
      OBVIOUS
    <3>1. PICK k \in 1..Len(db) : db[k].savepoint = level[t]
      BY DEF StackOK
    <3>2. db \in Seq(Frames)
      BY DEF Types
    <3>3. k \in DOMAIN db /\ db # <<>>
      BY <3>1, <3>2
    <3> QED  BY <3>1, <3>3 DEF Has
  <2>5. t \notin Framed => ~Has(level[t]) /\ Framed = {}
    <3> SUFFICES ASSUME t \notin Framed PROVE ~Has(level[t]) /\ Framed = {}
      OBVIOUS
    <3>1. CommitOnly(t, TRUE)
      BY <2>3
    <3>2. wire # <<>>
      BY <3>1, WireFacts
    <3>3. signal[t]
      BY <1>1, <1>3, <3>2 DEF WireIsOf
    <3>4. level[t] = 0
      BY <1>2, <3>3 DEF Fits, CallFits, Control, Paths
    <3>5. Framed = {}
      <4> SUFFICES ASSUME NEW u \in Framed PROVE FALSE
        OBVIOUS
      <4>1. u \in Path /\ u # t
        BY DEF Framed
      <4>2. level[u] < 0 /\ level[u] \in Int
        BY <1>4, <3>4, <4>1, PathFacts
      <4> QED  BY <4>1, <4>2 DEF Control, Paths
    <3>6. db = <<>>
      <4>1. Len(db) = 0 /\ db \in Seq(Frames)
        BY <3>5 DEF StackOK, Types
      <4> QED  BY <4>1, EmptySeq
    <3> QED  BY <3>4, <3>5, <3>6 DEF Has
  <2>6. wire' = Append(wire, Statement(t, "rollback", Has(level[t])))
    <3>1. CASE Has(level[t])
      <4>1. wire' = Append(wire, Statement(t, "rollback", TRUE))
        BY <2>2, <3>1 DEF SendRollback, Send, Statement
      <4>2. Has(level[t]) = TRUE
        BY <3>1 DEF Has
      <4> QED  BY <4>1, <4>2
    <3>2. CASE ~Has(level[t])
      <4>1. wire' = Append(wire, Statement(t, "rollback", FALSE))
        BY <2>2, <3>2 DEF SendRollback, Refuse, Send, Statement
      <4>2. Has(level[t]) = FALSE
        BY <3>2 DEF Has
      <4> QED  BY <4>1, <4>2
    <3> QED  BY <3>1, <3>2
  <2>7. \/ wire = <<>> /\ wire' = <<Statement(t, "rollback", TRUE)>> /\ t \in Framed
        \/ /\ signal[t] /\ committing[t]
           /\ \E ok \in BOOLEAN : CommitOnly(t, ok) /\ CommitAndRollback(t, ok)'
    <3>1. CASE wire = <<>>
      <4>1. t \in Framed
        BY <2>3, <3>1, WireFacts
      <4>2. wire' = Append(<<>>, Statement(t, "rollback", TRUE))
        BY <2>4, <2>6, <3>1, <4>1
      <4>3. wire' = <<Statement(t, "rollback", TRUE)>>
        BY <4>2, OnWire
      <4> QED  BY <3>1, <4>1, <4>3
    <3>2. CASE wire # <<>>
      <4>1. PICK ok \in BOOLEAN : CommitOnly(t, ok)
        BY <1>1, <1>3, <3>2 DEF WireIsOf
      <4>2. signal[t] /\ committing[t]
        BY <1>1, <1>3, <3>2 DEF WireIsOf
      <4>3. wire = <<Statement(t, "commit", ok)>>
        BY <4>1 DEF CommitOnly
      <4>4. Has(level[t]) = ~ok
        <5>1. CASE ok
          <6>1. CommitOnly(t, TRUE)
            BY <4>1, <5>1
          <6> QED  BY <2>3, <2>5, <5>1, <6>1 DEF Has
        <5>2. CASE ~ok
          <6>1. wire # <<Statement(t, "commit", TRUE)>>
            <7>1. Statement(t, "commit", ok).ok = FALSE /\ Statement(t, "commit", TRUE).ok = TRUE
              BY <5>2 DEF Statement
            <7>2. wire[1] = Statement(t, "commit", ok)
              BY <4>3
            <7>3. wire = <<Statement(t, "commit", TRUE)>> => wire[1] = Statement(t, "commit", TRUE)
              OBVIOUS
            <7> QED  BY <7>1, <7>2, <7>3
          <6>2. Has(level[t])
            BY <2>3, <2>4, <6>1 DEF CommitOnly
          <6> QED  BY <5>2, <6>2 DEF Has
        <5> QED  BY <5>1, <5>2
      <4>5. wire' = Append(<<Statement(t, "commit", ok)>>, Statement(t, "rollback", ~ok))
        BY <2>6, <4>3, <4>4
      <4>6. CommitAndRollback(t, ok)'
        BY <4>5, OnWire DEF CommitAndRollback
      <4> QED  BY <4>1, <4>2, <4>6
    <3> QED  BY <3>1, <3>2
  <2>8. InProgress(t)' /\ CallIsSound(t)'
    BY <1>1, <1>3, <1>6, <2>1 DEF InProgress, CallIsSound
  <2>9. WireIsOf(t)' /\ DepthIsOf(t)'
    <3>1. ~settled[t] /\ ~settled'[t]
      BY <1>1, <1>6
    <3>2. wire' = <<Statement(t, "rollback", TRUE)>> => wire' = <<Statement(t, "rollback", ~settled'[t])>>
      <4>1. ~settled'[t] = TRUE
        BY <3>1
      <4> QED  BY <4>1
    <3>3. WireIsOf(t)'
      BY <1>1, <2>1, <2>7, <3>1, <3>2 DEF WireIsOf
    <3> QED  BY <1>1, <1>3, <2>1, <3>3 DEF DepthIsOf
  <2>10. (Done(t) => Done(t)') /\ (Doomed(t) => Doomed(t)') /\ Doomed(t)'
    <3>1. Doomed(t)'
      BY <1>1, <2>1 DEF Doomed
    <3>2. wire = <<>> => ~Passed(t)
      BY <2>1, WireFacts DEF Passed
    <3>3. Done(t) => Done(t)'
      BY <1>1, <2>1, <2>7, <3>2 DEF Done
    <3> QED  BY <3>1, <3>3
  <2>11. Control' /\ GoesOn /\ Framed' = IF t \in Framed' THEN Framed \cup {t} ELSE Framed \ {t}
    BY <1>1, <1>2, <2>8, <2>9, <2>10, InnermostStays
  <2>12. Framed' = Framed \ {t}
    <3>1. t \notin Framed'
      BY <2>1 DEF Framed
    <3> QED  BY <2>11, <3>1
  <2>13. CASE t \in Framed
    BY <1>1, <1>3, <1>4, <2>2, <2>4, <2>10, <2>11, <2>12, <2>13
  <2>14. CASE t \notin Framed
    <3>1. Framed' = Framed
      BY <2>12, <2>14
    <3>2. db' = db /\ durable' = durable
      BY <2>2, <2>5, <2>14 DEF SendRollback, Refuse
    <3> QED  BY <1>1, <2>11, <3>1, <3>2
  <2> QED  BY <2>13, <2>14
<1> QED  BY <1>5, <1>6

\* An answer is to the innermost call.
LEMMA AnswerInnermost ==
    ASSUME Types, Fits, Control, NEW op \in {"open", "commit", "rollback"}, Answer(op),
           NEW t, t = wire[1].txn
    PROVE  /\ t \in Txns /\ Innermost(t) /\ StatementFits(t, op) /\ CallFits(t) /\ CallIsSound(t)
           /\ InProgress(t) /\ t \in Path /\ WireIsOf(t) /\ DepthIsOf(t) /\ level[t] \in Int
<1>1. t \in Txns /\ StatementFits(t, op) /\ CallFits(t)
  BY AnswerFacts, FirstFits
<1>2. InProgress(t) /\ ~Waits(t)
  BY <1>1 DEF StatementFits, CallFits, InProgress, Waits
<1>3. Innermost(t) /\ t \in Path
  BY <1>1, <1>2, IsInnermost DEF Path
<1> QED  BY <1>1, <1>2, <1>3, PathFacts DEF Innermost, Control

LEMMA OpenedControl ==
    ASSUME Types, Types', Fits, Fits', Control, Opened
    PROVE  Control' /\ GoesOn /\ Framed' = Framed
<1>1. PICK t : t = wire[1].txn
  OBVIOUS
<1>2. Answer("open") /\ OthersSame(t) /\ level' = level /\ committing' = committing
      /\ settled' = settled /\ signal' = signal
  BY <1>1, OpenedEffect
<1>3. /\ t \in Txns /\ Innermost(t) /\ scope[t] = "opening" /\ CallFits(t) /\ CallIsSound(t)
      /\ InProgress(t) /\ t \in Path /\ DepthIsOf(t) /\ level[t] \in Int
  BY <1>1, <1>2, AnswerInnermost DEF StatementFits
<1>4. PICK ok \in BOOLEAN : wire = <<Statement(t, "open", ok)>>
  BY <1>3 DEF Innermost, WireIsOf
<1>5. wire[1].ok = ok /\ wire' = <<>>
  <2>1. wire[1] = Statement(t, "open", ok) /\ wire' = Tail(wire) /\ Tail(wire) = <<>>
    BY <1>2, <1>4, OnWire DEF Answer
  <2> QED  BY <2>1 DEF Statement
<1>6. /\ ~committing[t] /\ ~settled[t] /\ fn[t] = "none" /\ outcome[t] = "none" /\ depth = level[t]
      /\ result[t] = (IF signal[t] THEN "error" ELSE "none")
  BY <1>3 DEF CallFits, CallIsSound, DepthIsOf
<1>7. ~Done(t) /\ (Doomed(t) => signal[t])
  <2>1. ~CommitOnly(t, TRUE) /\ ~CommitAndRollback(t, TRUE)
    BY <1>3, <1>6, WireFacts
  <2> QED  BY <1>3, <1>6, <2>1 DEF Done, Doomed, Passed
<1>8. t \in Framed <=> ok
  <2>1. t \in Framed <=> wire = <<Statement(t, "open", TRUE)>>
    BY <1>3 DEF Framed
  <2>2. wire = <<Statement(t, "open", TRUE)>> => wire[1] = Statement(t, "open", TRUE)
    OBVIOUS
  <2>3. Statement(t, "open", TRUE).ok = TRUE
    BY DEF Statement
  <2> QED  BY <1>4, <1>5, <2>1, <2>2, <2>3
<1>9. CASE ~ok
  <2>1. /\ scope'[t] = "over" /\ result'[t] = First(result[t], "error") /\ depth' = depth
        /\ fn' = fn /\ outcome' = outcome
    BY <1>1, <1>5, <1>9, OpenedEffect
  <2>2. CallIsSound(t)'
    BY <1>2, <1>6, <2>1 DEF CallIsSound, InProgress, First
  <2>3. Control' /\ Framed' = Framed \ {t}
    BY <1>2, <1>3, <1>5, <1>6, <2>1, <2>2, PathShrinks
  <2>4. Framed' = Framed
    BY <1>8, <1>9, <2>3
  <2>5. Doomed(t)'
    BY <1>6, <2>1 DEF Doomed, First
  <2>6. GoesOn
    BY <1>2, <1>3, <1>7, <2>5, InnermostGoesOn
  <2> QED  BY <2>3, <2>4, <2>6
<1>10. CASE ok
  <2>1. /\ depth' = level[t] + 1 /\ result' = result
        /\ signal[t] => scope'[t] = "closing" /\ outcome'[t] = "error"
        /\ ~signal[t] => scope'[t] = "using" /\ fn'[t] = "running" /\ outcome' = outcome
    BY <1>1, <1>5, <1>10, OpenedEffect
  <2>2. InProgress(t)' /\ CallIsSound(t)'
    BY <1>2, <1>6, <2>1 DEF CallIsSound, InProgress
  <2>3. WireIsOf(t)' /\ DepthIsOf(t)'
    BY <1>2, <1>5, <1>6, <2>1 DEF WireIsOf, DepthIsOf
  <2>4. Doomed(t) => Doomed(t)'
    BY <1>7, <2>1 DEF Doomed
  <2>5. t \in Framed'
    <3>1. ~CommitOnly(t, TRUE)'
      <4>1. wire' # <<Statement(t, "commit", TRUE)>>
        BY <1>5
      <4> QED  BY <4>1 DEF CommitOnly
    <3> QED  BY <1>2, <1>3, <1>6, <2>1, <2>2, <3>1 DEF Framed, Path
  <2>6. Control' /\ GoesOn /\ Framed' = Framed \cup {t}
    BY <1>2, <1>3, <1>7, <2>2, <2>3, <2>4, <2>5, InnermostStays
  <2> QED  BY <1>8, <1>10, <2>6
<1> QED  BY <1>9, <1>10

LEMMA CommittedControl ==
    ASSUME Types, Types', Fits, Fits', Control, Committed
    PROVE  Control' /\ GoesOn /\ Framed' = Framed
<1>1. PICK t : t = wire[1].txn
  OBVIOUS
<1>2. /\ Answer("commit") /\ OthersSame(t)
      /\ scope[t] # "using" => scope'[t] = scope[t] /\ outcome'[t] = outcome[t]
      /\ level' = level /\ fn' = fn /\ committing' = committing /\ signal' = signal
      /\ result' = result
  BY <1>1, CommittedEffect
<1>3. /\ t \in Txns /\ Innermost(t) /\ CallFits(t) /\ CallIsSound(t)
      /\ InProgress(t) /\ t \in Path /\ WireIsOf(t) /\ DepthIsOf(t) /\ level[t] \in Int
      /\ committing[t] /\ ~settled[t]
      /\ scope[t] = "using" \/ (signal[t] /\ scope[t] \in {"closing", "rollback"})
  BY <1>1, <1>2, AnswerInnermost DEF StatementFits
<1>4. /\ depth = level[t] + 1 /\ (scope[t] = "using" => ~signal[t] /\ fn[t] = "over" /\ outcome[t] = "none")
      /\ scope[t] # "using" => outcome[t] = "error"
      /\ result[t] = (IF signal[t] THEN "error" ELSE "none")
  BY <1>3 DEF DepthIsOf, CallIsSound
<1>5. PICK ok \in BOOLEAN :
         /\ wire[1].ok = ok
         /\ \/ scope[t] \in {"using", "closing"} /\ CommitOnly(t, ok) /\ wire' = <<>>
            \/ /\ scope[t] = "rollback" /\ CommitAndRollback(t, ok)
               /\ wire' = <<Statement(t, "rollback", ~ok)>>
  <2>1. wire # <<>> /\ wire' = Tail(wire) /\ wire[1].op = "commit"
    BY <1>2, AnswerFacts
  <2>2. CASE scope[t] \in {"using", "closing"}
    <3>1. PICK ok \in BOOLEAN : CommitOnly(t, ok)
      BY <1>3, <2>1, <2>2 DEF WireIsOf
    <3>2. wire[1] = Statement(t, "commit", ok) /\ Tail(wire) = <<>>
      BY <3>1, OnWire DEF CommitOnly
    <3>3. wire[1].ok = ok
      BY <3>2 DEF Statement
    <3> QED  BY <2>1, <2>2, <3>1, <3>2, <3>3
  <2>3. CASE scope[t] = "rollback"
    <3>1. ~(wire = <<Statement(t, "rollback", ~settled[t])>>)
      <4> SUFFICES ASSUME wire = <<Statement(t, "rollback", ~settled[t])>> PROVE FALSE
        OBVIOUS
      <4>1. wire[1] = Statement(t, "rollback", ~settled[t])
        OBVIOUS
      <4> QED  BY <2>1, <4>1 DEF Statement
    <3>2. PICK ok \in BOOLEAN : CommitAndRollback(t, ok)
      BY <1>3, <2>3, <3>1 DEF WireIsOf
    <3>3. wire[1] = Statement(t, "commit", ok) /\ Tail(wire) = <<Statement(t, "rollback", ~ok)>>
      BY <3>2, OnWire DEF CommitAndRollback
    <3>4. wire[1].ok = ok
      BY <3>3 DEF Statement
    <3> QED  BY <2>1, <2>3, <3>2, <3>3, <3>4
  <2> QED  BY <1>3, <2>2, <2>3
<1>6. /\ settled'[t] = ok /\ depth' = IF ok THEN depth - 1 ELSE depth
      /\ scope[t] = "using" => /\ scope'[t] = "closing"
                               /\ outcome'[t] = IF ok THEN "value" ELSE "error"
  BY <1>1, <1>3, <1>5, CommittedEffect
<1>7. InProgress(t)' /\ CallIsSound(t)'
  BY <1>2, <1>3, <1>4, <1>6 DEF InProgress, CallIsSound
<1>8. DepthIsOf(t)'
  BY <1>2, <1>3, <1>4, <1>6 DEF DepthIsOf
<1>9. WireIsOf(t)'
  <2>1. CASE scope[t] \in {"using", "closing"}
    <3>1. wire' = <<>> /\ scope'[t] = "closing"
      BY <1>2, <1>5, <1>6, <2>1
    <3> QED  BY <3>1 DEF WireIsOf
  <2>2. CASE scope[t] = "rollback"
    <3>1. wire' = <<Statement(t, "rollback", ~settled'[t])>> /\ scope'[t] = "rollback"
      <4>1. (~settled'[t]) = ~ok
        BY <1>6
      <4>2. scope[t] \notin {"using", "closing"} /\ scope'[t] = "rollback"
        BY <1>2, <2>2
      <4>3. wire' = <<Statement(t, "rollback", ~ok)>>
        BY <1>5, <4>2
      <4> QED  BY <4>1, <4>2, <4>3
    <3> QED  BY <3>1 DEF WireIsOf
  <2> QED  BY <1>3, <2>1, <2>2
<1>10. Doomed(t) => Doomed(t)'
  BY <1>2, <1>3, <1>4, <1>6 DEF Doomed
<1>11. Done(t) => Done(t)'
  <2>1. CASE signal[t]
    BY <1>2, <1>3, <2>1 DEF Done
  <2>2. CASE ~signal[t]
    <3>1. scope[t] = "using" /\ outcome[t] = "none" /\ CommitOnly(t, ok)
      BY <1>3, <1>4, <1>5, <2>2
    <3>2. ok => Done(t)'
      BY <1>6, <1>7, <3>1 DEF Done, Passed
    <3>3. ~ok => ~CommitOnly(t, TRUE) /\ ~CommitAndRollback(t, TRUE)
      <4>1. CommitOnly(t, TRUE) => wire[1] = Statement(t, "commit", TRUE)
        BY OnWire DEF CommitOnly
      <4>2. CommitAndRollback(t, TRUE) => wire[1] = Statement(t, "commit", TRUE)
        BY OnWire DEF CommitAndRollback
      <4>3. Statement(t, "commit", TRUE).ok = TRUE
        BY DEF Statement
      <4> QED  BY <1>5, <4>1, <4>2, <4>3
    <3>4. Done(t) => CommitOnly(t, TRUE) \/ CommitAndRollback(t, TRUE)
      BY <1>4, <2>2, <3>1 DEF Done, Passed
    <3> QED  BY <3>2, <3>3, <3>4
  <2> QED  BY <2>1, <2>2
<1>12. Control' /\ GoesOn /\ Framed' = IF t \in Framed' THEN Framed \cup {t} ELSE Framed \ {t}
  BY <1>2, <1>3, <1>7, <1>8, <1>9, <1>10, <1>11, InnermostStays
<1>13. t \in Framed' <=> t \in Framed
  <2>1. CASE scope[t] = "rollback"
    BY <1>2, <2>1 DEF Framed
  <2>2. CASE scope[t] \in {"using", "closing"} /\ ok
    <3>1. CommitOnly(t, TRUE)
      BY <1>5, <2>2
    <3> QED  BY <1>2, <1>6, <2>2, <3>1 DEF Framed
  <2>3. CASE scope[t] \in {"using", "closing"} /\ ~ok
    <3>1. ~CommitOnly(t, TRUE)
      <4>1. CommitOnly(t, TRUE) => wire[1] = Statement(t, "commit", TRUE)
        BY OnWire DEF CommitOnly
      <4>2. Statement(t, "commit", TRUE).ok = TRUE
        BY DEF Statement
      <4> QED  BY <1>5, <2>3, <4>1, <4>2
    <3>2. ~CommitOnly(t, TRUE)'
      <4>0. wire' = <<>>
        BY <1>5, <2>3
      <4>1. wire' # <<Statement(t, "commit", TRUE)>>
        BY <4>0
      <4> QED  BY <4>1 DEF CommitOnly
    <3>3. scope'[t] = "closing" /\ t \in Path' /\ ~settled'[t]
      BY <1>2, <1>3, <1>6, <1>7, <2>3 DEF Path
    <3> QED  BY <1>3, <2>3, <3>1, <3>2, <3>3 DEF Framed
  <2> QED  BY <1>3, <2>1, <2>2, <2>3
<1>14. Framed' = Framed
  BY <1>12, <1>13
<1> QED  BY <1>12, <1>14

LEMMA RolledBackControl ==
    ASSUME Types, Types', Fits, Fits', Control, RolledBack
    PROVE  Control' /\ GoesOn /\ Framed' = Framed
<1>1. PICK t : t = wire[1].txn
  OBVIOUS
<1>2. /\ Answer("rollback") /\ OthersSame(t)
      /\ settled'[t] = (settled[t] \/ wire[1].ok)
      /\ depth' = IF wire[1].ok THEN depth - 1 ELSE depth
      /\ scope'[t] = "over" /\ result'[t] = First(result[t], outcome[t])
      /\ level' = level /\ fn' = fn /\ committing' = committing /\ signal' = signal
      /\ outcome' = outcome
  BY <1>1, RolledBackEffect
<1>3. /\ t \in Txns /\ Innermost(t) /\ CallFits(t) /\ CallIsSound(t)
      /\ InProgress(t) /\ t \in Path /\ WireIsOf(t) /\ DepthIsOf(t) /\ level[t] \in Int
      /\ scope[t] = "rollback" /\ outcome[t] = "error"
      /\ result[t] = (IF signal[t] THEN "error" ELSE "none")
  <2>1. scope[t] = "rollback" /\ CallIsSound(t) /\ InProgress(t)
    BY <1>1, <1>2, AnswerInnermost DEF StatementFits
  <2>2. outcome[t] = "error" /\ result[t] = (IF signal[t] THEN "error" ELSE "none")
    BY <2>1 DEF CallIsSound
  <2> QED  BY <1>1, <1>2, <2>1, <2>2, AnswerInnermost
<1>4. wire = <<Statement(t, "rollback", ~settled[t])>>
  <2>1. wire # <<>> /\ wire[1].op = "rollback"
    BY <1>2, AnswerFacts
  <2>2. ASSUME NEW ok, CommitAndRollback(t, ok) PROVE FALSE
    <3>1. wire[1] = Statement(t, "commit", ok)
      BY <2>2, OnWire DEF CommitAndRollback
    <3> QED  BY <2>1, <3>1 DEF Statement
  <2> QED  BY <1>3, <2>2 DEF WireIsOf
<1>5. wire[1].ok = ~settled[t] /\ wire' = <<>>
  <2>1. wire[1] = Statement(t, "rollback", ~settled[t]) /\ Tail(wire) = <<>>
    BY <1>4, OnWire
  <2> QED  BY <1>2, <2>1, AnswerFacts DEF Statement
<1>6. depth' = level[t]
  <2>1. CASE settled[t]
    BY <1>2, <1>3, <1>5, <2>1 DEF DepthIsOf
  <2>2. CASE ~settled[t]
    <3>1. wire[1].ok
      BY <1>5, <2>2
    <3>2. depth' = depth - 1
      BY <1>2, <3>1
    <3>3. depth = level[t] + 1
      BY <1>3, <2>2 DEF DepthIsOf
    <3> QED  BY <1>3, <3>2, <3>3
  <2> QED  BY <2>1, <2>2
<1>7. CallIsSound(t)'
  BY <1>2, <1>3 DEF CallIsSound, InProgress, First
<1>8. Control' /\ Framed' = Framed \ {t}
  BY <1>2, <1>3, <1>5, <1>6, <1>7, PathShrinks
<1>9. t \notin Framed
  BY <1>3 DEF Framed
<1>10. Doomed(t)'
  BY <1>2, <1>3 DEF Doomed, First
<1>11. Done(t) => Done(t)'
  <2>1. ASSUME CommitOnly(t, TRUE) \/ CommitAndRollback(t, TRUE) PROVE FALSE
    <3>1. wire[1] = Statement(t, "commit", TRUE)
      <4>1. CommitOnly(t, TRUE) => wire[1] = Statement(t, "commit", TRUE)
        BY OnWire DEF CommitOnly
      <4>2. CommitAndRollback(t, TRUE) => wire[1] = Statement(t, "commit", TRUE)
        BY OnWire DEF CommitAndRollback
      <4> QED  BY <2>1, <4>1, <4>2
    <3>2. wire[1].op = "commit"
      BY <3>1 DEF Statement
    <3> QED  BY <1>2, <3>2, AnswerFacts
  <2> QED  BY <1>2, <1>3, <2>1 DEF Done, Passed
<1>12. GoesOn
  BY <1>2, <1>3, <1>10, <1>11, InnermostGoesOn
<1>13. Framed' = Framed
  BY <1>8, <1>9
<1> QED  BY <1>8, <1>12, <1>13
-----------------------------------------------------------------------------
(* What a frame holds. *)

\* No frame above the k-th is of the call's savepoint.
Covers(u, k) == \A j \in 1..Len(db) : j > k => db[j].savepoint # level[u]

\* A write of w may be in the k-th frame.
WriteFits(w, k) == /\ \A u \in Around(w) : Done(u) \/ (u \in Framed /\ Covers(u, k))
                   /\ \A u \in Framed : Covers(u, k) => u \in Around(w)

AllDone(w) == \A u \in Around(w) : Done(u)
Lost(w) == \E u \in Around(w) : Doomed(u)
InFrame(w) == \E k \in 1..Len(db) : w \in db[k].writes

WritesOK == /\ \A k \in 1..Len(db) : \A w \in db[k].writes : WriteFits(w, k)
            /\ \A w \in durable : AllDone(w)
            /\ \A w \in wrote : w \in durable \/ InFrame(w) \/ Lost(w)

LEMMA FrameTypes ==
    ASSUME Types
    PROVE  /\ Len(db) \in Nat
           /\ \A k \in 1..Len(db) : db[k].savepoint \in Nat /\ db[k].writes \subseteq Txns
           /\ \A u \in Framed : u \in Txns /\ level[u] \in Int
           /\ Len(db) = 0 <=> db = <<>>
<1>1. db \in Seq(Frames) /\ Len(db) \in Nat
  BY DEF Types
<1>2. \A k \in 1..Len(db) : db[k] \in Frames
  BY <1>1
<1>3. \A k \in 1..Len(db) : db[k].savepoint \in Nat /\ db[k].writes \subseteq Txns
  BY <1>2 DEF Frames
<1>4. \A u \in Framed : u \in Txns /\ level[u] \in Int
  BY PathFacts DEF Framed
<1> QED  BY <1>1, <1>3, <1>4, EmptySeq

\* What is done stays done, what is doomed stays doomed.
LEMMA GoesOnFacts ==
    ASSUME GoesOn, NEW w
    PROVE  (AllDone(w) => AllDone(w)') /\ (Lost(w) => Lost(w)')
<1>1. Around(w) \subseteq Txns
  BY DEF Around
<1> QED  BY <1>1 DEF GoesOn, AllDone, Lost

\* The stack stays as it is.
LEMMA StackStays ==
    ASSUME Types, StackOK, WritesOK, GoesOn, Framed' = Framed, db' = db, durable' = durable,
           wrote' = wrote
    PROVE  StackOK' /\ WritesOK'
<1>1. \A u \in Framed : level'[u] = level[u]
  BY FrameTypes DEF GoesOn
<1>2. StackOK'
  <2>1. /\ \A u \in Framed' : \E k \in 1..Len(db') : db'[k].savepoint = level'[u]
        /\ Framed' = {} => Len(db') = 0
    BY <1>1 DEF StackOK
  <2>2. \A k \in 1..Len(db') :
           /\ (db'[k].savepoint = 0) <=> (k = 1)
           /\ k > 1 => \E u \in Framed' : level'[u] + 1 = db'[k].savepoint
    BY <1>1 DEF StackOK
  <2>3. \A j, k \in 1..Len(db') : j < k => db'[j].savepoint <= db'[k].savepoint
    BY DEF StackOK
  <2> QED  BY <2>1, <2>2, <2>3 DEF StackOK
<1>3. \A u \in Framed, k \in 1..Len(db) : Covers(u, k)' <=> Covers(u, k)
  BY <1>1 DEF Covers
<1>4. ASSUME NEW k \in 1..Len(db), NEW w \in db[k].writes PROVE WriteFits(w, k)'
  <2>1. WriteFits(w, k) /\ Around(w) \subseteq Txns
    BY DEF WritesOK, Around
  <2> QED  BY <1>3, <2>1 DEF WriteFits, GoesOn
<1>5. WritesOK'
  <2>1. \A w : InFrame(w)' <=> InFrame(w)
    BY DEF InFrame
  <2> QED  BY <1>4, <2>1, GoesOnFacts DEF WritesOK
<1> QED  BY <1>2, <1>5

\* A frame is put on top.
LEMMA StackGrows ==
    ASSUME Types, StackOK, WritesOK, GoesOn, NEW t \in Txns, t \notin Framed,
           Framed' = Framed \cup {t}, NEW sp \in Nat, level'[t] = sp,
           sp = 0 \/ \E p \in Framed : level[p] + 1 = sp,
           \A u \in Framed : level[u] < sp, sp = 0 => db = <<>>,
           Len(db') = Len(db) + 1, \A k \in 1..Len(db) : db'[k] = db[k],
           db'[Len(db) + 1] = Frame(sp), durable' = durable, wrote' = wrote
    PROVE  StackOK' /\ WritesOK'
<1>1. PICK n : n = Len(db)
  OBVIOUS
<1>2. /\ n \in Nat /\ Len(db') = n + 1 /\ \A k \in 1..n : db'[k] = db[k] /\ db[k].savepoint \in Nat
      /\ db'[n + 1].savepoint = sp /\ db'[n + 1].writes = {}
  BY <1>1, FrameTypes DEF Frame
<1>3. \A u \in Framed : level'[u] = level[u] /\ level[u] \in Int /\ u # t
  BY FrameTypes DEF GoesOn
<1>4. ASSUME NEW k \in 1..n PROVE db[k].savepoint <= sp
  <2>1. CASE k = 1
    BY <1>1, <1>2, <2>1 DEF StackOK
  <2>2. CASE k # 1
    <3>1. PICK u \in Framed : level[u] + 1 = db[k].savepoint
      BY <1>1, <2>2 DEF StackOK
    <3> QED  BY <1>2, <1>3, <3>1
  <2> QED  BY <2>1, <2>2
<1>5. n = 0 <=> sp = 0
  <2>1. ASSUME NEW p \in Framed PROVE n # 0
    <3>1. PICK k \in 1..n : db[k].savepoint = level[p]
      BY <1>1, <2>1 DEF StackOK
    <3> QED  BY <1>2, <3>1
  <2> QED  BY <1>1, <2>1, FrameTypes
<1>6. StackOK'
  <2>1. \A j, k \in 1..Len(db') : j < k => db'[j].savepoint <= db'[k].savepoint
    <3> SUFFICES ASSUME NEW j \in 1..n + 1, NEW k \in 1..n + 1, j < k
                 PROVE  db'[j].savepoint <= db'[k].savepoint
      BY <1>2
    <3>1. CASE k = n + 1
      <4>1. j \in 1..n
        BY <1>2, <3>1
      <4> QED  BY <1>2, <1>4, <3>1, <4>1
    <3>2. CASE k # n + 1
      <4>1. j \in 1..n /\ k \in 1..n
        BY <1>2, <3>2
      <4> QED  BY <1>1, <1>2, <4>1 DEF StackOK
    <3> QED  BY <3>1, <3>2
  <2>2. ASSUME NEW k \in 1..n + 1
        PROVE  /\ (db'[k].savepoint = 0) <=> (k = 1)
               /\ k > 1 => \E u \in Framed' : level'[u] + 1 = db'[k].savepoint
    <3>1. CASE k = n + 1
      <4>1. (db'[k].savepoint = 0) <=> (k = 1)
        BY <1>2, <1>5, <3>1
      <4>2. k > 1 => \E u \in Framed : level[u] + 1 = sp
        BY <1>2, <1>5, <3>1
      <4> QED  BY <1>2, <1>3, <3>1, <4>1, <4>2
    <3>2. CASE k # n + 1
      <4>1. k \in 1..n
        BY <1>2, <3>2
      <4>2. /\ (db[k].savepoint = 0) <=> (k = 1)
            /\ k > 1 => \E u \in Framed : level[u] + 1 = db[k].savepoint
        BY <1>1, <4>1 DEF StackOK
      <4> QED  BY <1>2, <1>3, <4>1, <4>2
    <3> QED  BY <3>1, <3>2
  <2>3. ASSUME NEW u \in Framed' PROVE \E k \in 1..n + 1 : db'[k].savepoint = level'[u]
    <3>1. CASE u = t
      <4>1. n + 1 \in 1..n + 1
        BY <1>2
      <4> QED  BY <1>2, <3>1, <4>1
    <3>2. CASE u # t
      <4>1. PICK k \in 1..n : db[k].savepoint = level[u]
        BY <1>1, <2>3, <3>2 DEF StackOK
      <4>2. k \in 1..n + 1
        BY <1>2
      <4> QED  BY <1>2, <1>3, <2>3, <3>2, <4>1, <4>2
    <3> QED  BY <3>1, <3>2
  <2> QED  BY <1>2, <2>1, <2>2, <2>3 DEF StackOK
<1>7. ASSUME NEW u \in Framed, NEW k \in 1..n PROVE Covers(u, k)' <=> Covers(u, k)
  <2>1. level[u] # sp
    BY <1>3
  <2>2. Covers(u, k)' <=> \A j \in 1..n + 1 : j > k => db'[j].savepoint # level[u]
    BY <1>2, <1>3 DEF Covers
  <2>3. \A j \in 1..n + 1 : (j \in 1..n /\ db'[j].savepoint = db[j].savepoint) \/ db'[j].savepoint = sp
    <3> SUFFICES ASSUME NEW j \in 1..n + 1, j # n + 1 PROVE j \in 1..n /\ db'[j].savepoint = db[j].savepoint
      BY <1>2
    <3>1. j \in 1..n
      BY <1>2
    <3> QED  BY <1>2, <3>1
  <2>4. \A j \in 1..n : j \in 1..n + 1 /\ db'[j].savepoint = db[j].savepoint
    BY <1>2
  <2> QED  BY <1>1, <2>1, <2>2, <2>3, <2>4 DEF Covers
<1>8. ASSUME NEW k \in 1..n PROVE ~Covers(t, k)'
  <2>1. n + 1 \in 1..Len(db') /\ n + 1 > k
    BY <1>2
  <2> QED  BY <1>2, <2>1 DEF Covers
<1>9. ASSUME NEW k \in 1..n, NEW w \in db[k].writes PROVE WriteFits(w, k)'
  <2>1. WriteFits(w, k) /\ Around(w) \subseteq Txns
    BY <1>1 DEF WritesOK, Around
  <2> QED  BY <1>7, <1>8, <2>1 DEF WriteFits, GoesOn
<1>10. \A k \in 1..Len(db') : \A w \in db'[k].writes : k \in 1..n /\ w \in db[k].writes
  BY <1>2
<1>11. \A w : InFrame(w) => InFrame(w)'
  BY <1>1, <1>2 DEF InFrame
<1>12. WritesOK'
  <2>1. \A k \in 1..Len(db') : \A w \in db'[k].writes : WriteFits(w, k)'
    BY <1>9, <1>10
  <2> QED  BY <1>11, <2>1, GoesOnFacts DEF WritesOK
<1> QED  BY <1>6, <1>12

\* The innermost call writes.
LEMMA StackWrite ==
    ASSUME Types, Types', StackOK, WritesOK, GoesOn, NEW t \in Txns, Write(t), t \in Framed,
           Framed' = Framed, Around(t) \subseteq Framed, Framed \subseteq Around(t)
    PROVE  StackOK' /\ WritesOK'
<1>1. PICK n : n = Len(db)
  OBVIOUS
<1>2. db # <<>>
  <2>1. PICK k \in 1..Len(db) : db[k].savepoint = level[t]
    BY DEF StackOK
  <2> QED  BY <2>1
<1>3. /\ n \in Nat \ {0} /\ Len(db') = n /\ durable' = durable /\ wrote' = wrote \cup {t}
      /\ \A j \in 1..n : j # n => db'[j] = db[j]
      /\ db'[n].savepoint = db[n].savepoint /\ db'[n].writes = db[n].writes \cup {t}
  BY <1>1, <1>2, WriteFacts, WriteEffect
<1>4. \A j \in 1..n : db'[j].savepoint = db[j].savepoint /\ db[j].writes \subseteq db'[j].writes
  BY <1>3
<1>5. \A u \in Framed : level'[u] = level[u]
  BY FrameTypes DEF GoesOn
<1>6. StackOK'
  <2>1. /\ \A u \in Framed' : \E k \in 1..n : db'[k].savepoint = level'[u]
        /\ Framed' # {}
    BY <1>1, <1>4, <1>5 DEF StackOK
  <2>2. \A k \in 1..n :
           /\ (db'[k].savepoint = 0) <=> (k = 1)
           /\ k > 1 => \E u \in Framed' : level'[u] + 1 = db'[k].savepoint
    BY <1>1, <1>4, <1>5 DEF StackOK
  <2>3. \A j, k \in 1..n : j < k => db'[j].savepoint <= db'[k].savepoint
    BY <1>1, <1>4 DEF StackOK
  <2> QED  BY <1>3, <2>1, <2>2, <2>3 DEF StackOK
<1>7. \A u \in Framed, k \in 1..n : Covers(u, k)' <=> Covers(u, k)
  BY <1>1, <1>3, <1>4, <1>5 DEF Covers
<1>8. ASSUME NEW k \in 1..n, NEW w \in db[k].writes PROVE WriteFits(w, k)'
  <2>1. WriteFits(w, k) /\ Around(w) \subseteq Txns
    BY <1>1 DEF WritesOK, Around
  <2> QED  BY <1>7, <2>1 DEF WriteFits, GoesOn
<1>9. WriteFits(t, n)'
  <2>1. \A u \in Framed : Covers(u, n)'
    BY <1>3 DEF Covers
  <2> QED  BY <2>1 DEF WriteFits
<1>10. \A k \in 1..Len(db') : \A w \in db'[k].writes : WriteFits(w, k)'
  BY <1>3, <1>8, <1>9
<1>11. InFrame(t)' /\ \A w : InFrame(w) => InFrame(w)'
  <2>1. n \in 1..n /\ t \in db'[n].writes
    BY <1>3
  <2> QED  BY <1>1, <1>3, <1>4, <2>1 DEF InFrame
<1>12. WritesOK'
  BY <1>3, <1>10, <1>11, GoesOnFacts DEF WritesOK
<1> QED  BY <1>6, <1>12

-----------------------------------------------------------------------------
(* The stack is cut at the frame of the innermost call. *)

Cut(t, k) ==
    /\ k \in 1..Len(db) /\ db[k].savepoint = level[t] /\ (k = 1 => Framed \ {t} = {})
    /\ \A j \in 1..Len(db) : /\ j > k => db[j].savepoint # level[t]
                             /\ j >= k => \A u \in Framed \ {t} : db[j].savepoint # level[u]
    /\ \A u \in Framed \ {t} : \E j \in 1..k - 1 : db[j].savepoint = level[u]
    /\ \A j \in 2..k : \E u \in Framed \ {t} : level[u] + 1 = db[j].savepoint

LEMMA CutFacts ==
    ASSUME Types, StackOK, NEW t \in Framed, level[t] \in Nat, Has(level[t]),
           \A u \in Framed : u # t => level[u] < level[t]
    PROVE  Cut(t, At(level[t])) /\ (At(level[t]) = 1 <=> level[t] = 0)
<1>1. PICK n, k, sp : n = Len(db) /\ k = At(level[t]) /\ sp = level[t]
  OBVIOUS
<1>2. /\ n \in Nat /\ k \in 1..n /\ sp \in Nat /\ (sp = 0 => k = 1)
      /\ sp # 0 => db[k].savepoint = sp /\ \A j \in 1..n : j > k => db[j].savepoint # sp
  <2>1. db \in Seq(Frames) /\ DOMAIN db = 1..n
    BY <1>1 DEF Types
  <2> QED  BY <1>1, <2>1, AtFacts, FrameTypes
<1>3. /\ \A j \in 1..n : db[j].savepoint \in Nat
      /\ \A u \in Framed : level[u] \in Int
  BY <1>1, FrameTypes
<1>4. db[k].savepoint = sp /\ (k = 1 <=> sp = 0) /\ \A j \in 1..n : j > k => db[j].savepoint # sp
  <2>1. (db[k].savepoint = 0) <=> (k = 1)
    BY <1>1, <1>2 DEF StackOK
  <2>2. CASE sp = 0
    <3>1. \A j \in 1..n : j > 1 => db[j].savepoint # 0
      BY <1>1 DEF StackOK
    <3> QED  BY <1>2, <2>1, <2>2, <3>1
  <2>3. CASE sp # 0
    BY <1>2, <2>1, <2>3
  <2> QED  BY <2>2, <2>3
<1>5. \A j \in 1..n : j >= k => db[j].savepoint >= sp
  BY <1>1, <1>2, <1>3, <1>4 DEF StackOK
<1>6. ASSUME NEW u \in Framed \ {t} PROVE \E j \in 1..k - 1 : db[j].savepoint = level[u]
  <2>1. PICK j \in 1..n : db[j].savepoint = level[u]
    BY <1>1 DEF StackOK
  <2>2. level[u] < sp
    BY <1>1
  <2>3. ~(j >= k)
    BY <1>2, <1>3, <1>5, <2>1, <2>2
  <2> QED  BY <1>2, <2>1, <2>3
<1>7. ASSUME NEW j \in 2..k PROVE \E u \in Framed \ {t} : level[u] + 1 = db[j].savepoint
  <2>1. j \in 1..n /\ j > 1
    BY <1>2
  <2>2. PICK u \in Framed : level[u] + 1 = db[j].savepoint
    BY <1>1, <2>1 DEF StackOK
  <2>3. db[j].savepoint <= sp
    <3>1. CASE j = k
      BY <1>2, <1>4, <3>1
    <3>2. CASE j # k
      <4>1. j < k
        BY <1>2, <3>2
      <4> QED  BY <1>1, <1>2, <1>4, <2>1, <4>1 DEF StackOK
    <3> QED  BY <3>1, <3>2
  <2>4. u # t
    BY <1>1, <1>2, <1>3, <2>1, <2>2, <2>3
  <2> QED  BY <2>2, <2>4
<1>8. k = 1 => Framed \ {t} = {}
  BY <1>6
<1>9. \A j \in 1..n : j >= k => \A u \in Framed \ {t} : db[j].savepoint # level[u]
  <2>1. \A u \in Framed \ {t} : level[u] < sp
    BY <1>1
  <2> QED  BY <1>2, <1>3, <1>5, <2>1
<1> QED  BY <1>1, <1>2, <1>4, <1>6, <1>7, <1>8, <1>9 DEF Cut

\* Only frames of the others are left, and one more at most.
LEMMA CutStack ==
    ASSUME Types, StackOK, GoesOn, NEW t \in Framed, NEW k, Cut(t, k), Framed' = Framed \ {t},
           Len(db') \in Nat, Len(db') <= k, Len(db') >= k - 1, k = 1 => Len(db') = 0,
           \A j \in 1..Len(db') : db'[j].savepoint = db[j].savepoint
    PROVE  /\ StackOK'
           /\ \A u \in Framed', j \in 1..Len(db') : Covers(u, j)' <=> Covers(u, j)
<1>1. PICK n, m : n = Len(db) /\ m = Len(db')
  OBVIOUS
<1>2. n \in Nat /\ k \in 1..n /\ m \in Nat /\ m <= k /\ m >= k - 1 /\ (k = 1 => m = 0)
  BY <1>1, FrameTypes DEF Cut
<1>3. \A u \in Framed : level'[u] = level[u]
  BY FrameTypes DEF GoesOn
<1>4. \A j \in 1..m : j \in 1..n /\ db'[j].savepoint = db[j].savepoint
  BY <1>1, <1>2
<1>5. ASSUME NEW j \in 1..m, j > 1 PROVE \E u \in Framed' : level'[u] + 1 = db'[j].savepoint
  <2>1. j \in 2..k
    BY <1>2, <1>5
  <2>2. PICK u \in Framed \ {t} : level[u] + 1 = db[j].savepoint
    BY <2>1 DEF Cut
  <2> QED  BY <1>3, <1>4, <1>5, <2>2
<1>6. ASSUME NEW u \in Framed' PROVE \E j \in 1..m : db'[j].savepoint = level'[u]
  <2>1. PICK j \in 1..k - 1 : db[j].savepoint = level[u]
    BY <1>6 DEF Cut
  <2>2. j \in 1..m
    BY <1>2, <2>1
  <2> QED  BY <1>3, <1>4, <1>6, <2>1, <2>2
<1>7. Framed' = {} => m = 0
  <2>1. CASE k = 1
    BY <1>2, <2>1
  <2>2. CASE k # 1
    <3>1. k \in 2..k
      BY <1>2, <2>2
    <3>2. PICK u \in Framed \ {t} : TRUE
      BY <3>1 DEF Cut
    <3> QED  BY <3>2
  <2> QED  BY <2>1, <2>2
<1>8. StackOK'
  <2>1. \A i, j \in 1..m : i < j => db'[i].savepoint <= db'[j].savepoint
    BY <1>1, <1>4 DEF StackOK
  <2>2. \A j \in 1..m : (db'[j].savepoint = 0) <=> (j = 1)
    BY <1>1, <1>4 DEF StackOK
  <2> QED  BY <1>1, <1>5, <1>6, <1>7, <2>1, <2>2 DEF StackOK
<1>9. ASSUME NEW u \in Framed', NEW j \in 1..m PROVE Covers(u, j)' <=> Covers(u, j)
  <2>1. \A i \in 1..n : i > m => db[i].savepoint # level[u]
    <3>1. \A i \in 1..n : i >= k => db[i].savepoint # level[u]
      BY <1>1, <1>9 DEF Cut
    <3>2. \A i \in 1..n : i > m => i >= k
      BY <1>2
    <3> QED  BY <3>1, <3>2
  <2>2. Covers(u, j)' <=> \A i \in 1..m : i > j => db[i].savepoint # level[u]
    BY <1>1, <1>3, <1>4, <1>9 DEF Covers
  <2>3. \A i \in 1..n : i \in 1..m \/ i > m
    BY <1>2
  <2> QED  BY <1>1, <1>4, <2>1, <2>2, <2>3 DEF Covers
<1> QED  BY <1>1, <1>8, <1>9

\* The frames up to the call's are given to the one below, or are durable.
LEMMA StackCommit ==
    ASSUME Types, StackOK, WritesOK, GoesOn, NEW t \in Framed, level[t] \in Nat,
           \A u \in Framed : u # t => level[u] < level[t],
           Framed' = Framed \ {t}, Done(t)', SendCommit(t, level[t]), ~Refuse(t, "commit"),
           wrote' = wrote
    PROVE  StackOK' /\ WritesOK'
<1>1. PICK n, k : n = Len(db) /\ k = At(level[t])
  OBVIOUS
<1>2. t \in Txns /\ n \in Nat
  BY <1>1, FrameTypes
<1>3. /\ Has(level[t])
      /\ \/ /\ k = 1 /\ db' = <<>> /\ durable' = durable \cup WritesFrom(1)
         \/ /\ k # 1 /\ durable' = durable /\ Len(db') = k - 1
            /\ \A j \in 1..k - 2 : db'[j] = db[j]
            /\ db'[k - 1].savepoint = db[k - 1].savepoint
            /\ db'[k - 1].writes = db[k - 1].writes \cup WritesFrom(k)
  <2>1. ~(db' = db /\ durable' = durable /\ wire' = Append(wire, Statement(t, "commit", FALSE)))
    BY DEF Refuse, Send, Statement
  <2> QED  BY <1>1, <1>2, <2>1, CommitFacts
<1>4. Cut(t, k) /\ k \in 1..n
  BY <1>1, <1>3, CutFacts DEF Cut
<1>5. \A w : \A u \in Around(w) : Done(u) => Done(u)'
  BY DEF Around, GoesOn
<1>6. \A i \in 1..n : \A w \in db[i].writes : WriteFits(w, i)
  BY <1>1 DEF WritesOK
<1>7. ASSUME NEW i \in 1..n, NEW w \in db[i].writes, NEW u \in Around(w)
      PROVE  Done(u)' \/ (u \in Framed' /\ Covers(u, i))
  <2>1. Done(u) \/ (u \in Framed /\ Covers(u, i))
    BY <1>6 DEF WriteFits
  <2> QED  BY <1>5, <2>1
<1>8. \A w : w \in WritesFrom(k) <=> \E i \in k..n : w \in db[i].writes
  BY <1>1 DEF WritesFrom
<1>9. CASE k = 1
  <2>1. Len(db') = 0 /\ Framed' = {}
    BY <1>3, <1>4, <1>9 DEF Cut
  <2>2. StackOK'
    <3>1. Len(db') \in Nat /\ Len(db') <= k /\ Len(db') >= k - 1 /\ (k = 1 => Len(db') = 0)
          /\ \A j \in 1..Len(db') : db'[j].savepoint = db[j].savepoint
      BY <1>9, <2>1
    <3> QED  BY <1>4, <3>1, CutStack
  <2>3. \A w \in WritesFrom(k) : AllDone(w)'
    <3> SUFFICES ASSUME NEW w \in WritesFrom(k) PROVE AllDone(w)'
      OBVIOUS
    <3>1. PICK i \in 1..n : w \in db[i].writes
      BY <1>8, <1>9
    <3> QED  BY <1>7, <2>1, <3>1 DEF AllDone
  <2>4. \A w : InFrame(w) => w \in WritesFrom(k)
    BY <1>1, <1>8, <1>9 DEF InFrame
  <2>5. durable' = durable \cup WritesFrom(k)
    BY <1>3, <1>9
  <2> QED  BY <2>1, <2>2, <2>3, <2>4, <2>5, GoesOnFacts DEF WritesOK
<1>10. CASE k # 1
  <2>1. /\ durable' = durable /\ Len(db') = k - 1 /\ \A j \in 1..k - 2 : db'[j] = db[j]
        /\ db'[k - 1].savepoint = db[k - 1].savepoint
        /\ db'[k - 1].writes = db[k - 1].writes \cup WritesFrom(k)
        /\ k - 1 \in Nat /\ k - 1 \in 1..n
    BY <1>2, <1>3, <1>4, <1>10
  <2>2. \A j \in 1..k - 1 : db'[j].savepoint = db[j].savepoint
    BY <1>4, <2>1
  <2>3. /\ StackOK'
        /\ \A u \in Framed', j \in 1..k - 1 : Covers(u, j)' <=> Covers(u, j)
    <3>1. Len(db') \in Nat /\ Len(db') <= k /\ Len(db') >= k - 1 /\ (k = 1 => Len(db') = 0)
          /\ \A j \in 1..Len(db') : db'[j].savepoint = db[j].savepoint
      BY <1>4, <1>10, <2>1, <2>2
    <3> QED  BY <1>4, <2>1, <3>1, CutStack
  <2>4. ASSUME NEW j \in 1..k - 1, NEW w \in db[j].writes PROVE WriteFits(w, j)'
    <3>1. j \in 1..n
      BY <1>2, <1>4
    <3>2. \A u \in Around(w) : Done(u)' \/ (u \in Framed' /\ Covers(u, j)')
      BY <1>7, <2>3, <3>1
    <3>3. \A u \in Framed' : Covers(u, j)' => u \in Around(w)
      BY <1>6, <2>3, <3>1 DEF WriteFits
    <3> QED  BY <3>2, <3>3 DEF WriteFits
  <2>5. ASSUME NEW w \in WritesFrom(k) PROVE WriteFits(w, k - 1)'
    <3>1. PICK i \in k..n : w \in db[i].writes
      BY <1>8
    <3>2. i \in 1..n
      BY <1>4
    <3>3. \A u \in Framed' : Covers(u, i)
      <4> SUFFICES ASSUME NEW u \in Framed', NEW j \in 1..n, j > i PROVE db[j].savepoint # level[u]
        BY <1>1 DEF Covers
      <4>1. j >= k
        BY <1>4, <3>1
      <4> QED  BY <1>1, <1>4, <4>1 DEF Cut
    <3>4. \A u \in Framed' : Covers(u, k - 1)'
      BY <2>1 DEF Covers
    <3> QED  BY <1>6, <1>7, <3>1, <3>2, <3>3, <3>4 DEF WriteFits
  <2>6. \A j \in 1..Len(db') : \A w \in db'[j].writes : WriteFits(w, j)'
    <3> SUFFICES ASSUME NEW j \in 1..k - 1, NEW w \in db'[j].writes PROVE WriteFits(w, j)'
      BY <2>1
    <3>1. CASE j = k - 1
      <4>1. w \in db[k - 1].writes \/ w \in WritesFrom(k)
        BY <2>1, <3>1
      <4> QED  BY <2>4, <2>5, <3>1, <4>1
    <3>2. CASE j # k - 1
      <4>1. j \in 1..k - 2
        BY <1>4, <3>2
      <4> QED  BY <2>1, <2>4, <4>1
    <3> QED  BY <3>1, <3>2
  <2>7. ASSUME NEW w, InFrame(w) PROVE InFrame(w)'
    <3>1. PICK i \in 1..n : w \in db[i].writes
      BY <1>1, <2>7 DEF InFrame
    <3>2. CASE i \in 1..k - 2
      <4>1. w \in db'[i].writes /\ i \in 1..k - 1
        BY <1>4, <2>1, <3>1, <3>2
      <4> QED  BY <2>1, <4>1 DEF InFrame
    <3>3. CASE i \notin 1..k - 2
      <4>1. i = k - 1 \/ i \in k..n
        BY <1>4, <3>3
      <4>2. w \in db'[k - 1].writes /\ k - 1 \in 1..k - 1
        BY <1>8, <2>1, <3>1, <4>1
      <4> QED  BY <2>1, <4>2 DEF InFrame
    <3> QED  BY <3>2, <3>3
  <2> QED  BY <2>1, <2>3, <2>6, <2>7, GoesOnFacts DEF WritesOK
<1> QED  BY <1>9, <1>10

\* The frames from the call's on are lost, with writes that are all within the call.
LEMMA StackRollback ==
    ASSUME Types, StackOK, WritesOK, GoesOn, NEW t \in Framed, level[t] \in Nat,
           \A u \in Framed : u # t => level[u] < level[t],
           Framed' = Framed \ {t}, Doomed(t)', SendRollback(t, level[t]), Has(level[t]),
           wrote' = wrote
    PROVE  StackOK' /\ WritesOK'
<1>1. PICK n, k : n = Len(db) /\ k = At(level[t])
  OBVIOUS
<1>2. t \in Txns /\ n \in Nat
  BY <1>1, FrameTypes
<1>3. /\ durable' = durable
      /\ \/ level[t] = 0 /\ db' = <<>>
         \/ /\ level[t] # 0 /\ Len(db') = k
            /\ \A j \in 1..k - 1 : db'[j] = db[j]
            /\ db'[k] = Frame(level[t])
  BY <1>1, <1>2, RollbackFacts
<1>4. Cut(t, k) /\ k \in 1..n /\ (k = 1 <=> level[t] = 0)
  BY <1>1, CutFacts DEF Cut
<1>5. \A w : \A u \in Around(w) : Done(u) => Done(u)'
  BY DEF Around, GoesOn
<1>6. \A i \in 1..n : \A w \in db[i].writes : WriteFits(w, i)
  BY <1>1 DEF WritesOK
<1>7. ASSUME NEW i \in k..n, NEW w \in db[i].writes PROVE Lost(w)'
  <2>1. i \in 1..n /\ \A j \in 1..n : j > i => j > k
    BY <1>4
  <2>2. Covers(t, i)
    BY <1>1, <1>4, <2>1 DEF Covers, Cut
  <2>3. t \in Around(w)
    BY <1>6, <2>1, <2>2 DEF WriteFits
  <2> QED  BY <2>3 DEF Lost
<1>8. CASE level[t] = 0
  <2>1. Len(db') = 0 /\ k = 1
    BY <1>3, <1>4, <1>8
  <2>2. StackOK'
    <3>1. Len(db') \in Nat /\ Len(db') <= k /\ Len(db') >= k - 1 /\ (k = 1 => Len(db') = 0)
          /\ \A j \in 1..Len(db') : db'[j].savepoint = db[j].savepoint
      BY <2>1
    <3> QED  BY <1>4, <3>1, CutStack
  <2>3. \A w : InFrame(w) => Lost(w)'
    BY <1>1, <1>7, <2>1 DEF InFrame
  <2> QED  BY <1>3, <2>1, <2>2, <2>3, GoesOnFacts DEF WritesOK
<1>9. CASE level[t] # 0
  <2>1. /\ Len(db') = k /\ \A j \in 1..k - 1 : db'[j] = db[j]
        /\ db'[k].savepoint = level[t] /\ db'[k].writes = {} /\ k # 1
    BY <1>3, <1>4, <1>9 DEF Frame
  <2>2. \A j \in 1..k : db'[j].savepoint = db[j].savepoint
    <3>1. ASSUME NEW j \in 1..k, j # k PROVE j \in 1..k - 1
      BY <1>4, <3>1
    <3> QED  BY <1>4, <2>1, <3>1 DEF Cut
  <2>3. /\ StackOK'
        /\ \A u \in Framed', j \in 1..k : Covers(u, j)' <=> Covers(u, j)
    <3>1. Len(db') \in Nat /\ Len(db') <= k /\ Len(db') >= k - 1 /\ (k = 1 => Len(db') = 0)
          /\ \A j \in 1..Len(db') : db'[j].savepoint = db[j].savepoint
      BY <1>4, <2>1, <2>2
    <3> QED  BY <1>4, <2>1, <3>1, CutStack
  <2>4. ASSUME NEW j \in 1..k - 1, NEW w \in db[j].writes PROVE WriteFits(w, j)'
    <3>1. j \in 1..n /\ j \in 1..k /\ j < k
      BY <1>2, <1>4
    <3>2. ~Covers(t, j)
      BY <1>1, <1>4, <3>1 DEF Cut, Covers
    <3>3. WriteFits(w, j)
      BY <1>6, <3>1
    <3> QED  BY <1>5, <2>3, <3>1, <3>2, <3>3 DEF WriteFits
  <2>5. \A j \in 1..Len(db') : \A w \in db'[j].writes : WriteFits(w, j)'
    <3> SUFFICES ASSUME NEW j \in 1..k, NEW w \in db'[j].writes PROVE WriteFits(w, j)'
      BY <2>1
    <3>1. j # k
      BY <2>1
    <3>2. j \in 1..k - 1
      BY <1>4, <3>1
    <3> QED  BY <2>1, <2>4, <3>2
  <2>6. ASSUME NEW w, InFrame(w) PROVE InFrame(w)' \/ Lost(w)'
    <3>1. PICK i \in 1..n : w \in db[i].writes
      BY <1>1, <2>6 DEF InFrame
    <3>2. CASE i \in k..n
      BY <1>7, <3>1, <3>2
    <3>3. CASE i \notin k..n
      <4>1. i \in 1..k - 1 /\ i \in 1..k
        BY <1>4, <3>3
      <4>2. w \in db'[i].writes
        BY <2>1, <3>1, <4>1
      <4> QED  BY <2>1, <4>1, <4>2 DEF InFrame
    <3> QED  BY <3>2, <3>3
  <2> QED  BY <1>3, <2>3, <2>5, <2>6, GoesOnFacts DEF WritesOK
<1> QED  BY <1>8, <1>9
-----------------------------------------------------------------------------
(* The invariant, and what follows from it. *)

Sound == Control /\ StackOK /\ WritesOK

Inv == CountInv /\ (strayed = "no" => Sound)

LEMMA SoundInit == CallsAreKnown /\ Init => Sound
<1> SUFFICES ASSUME CallsAreKnown, Init PROVE Sound
  OBVIOUS
<1>1. /\ db = <<>> /\ Len(db) = 0 /\ durable = {} /\ wire = <<>> /\ depth = 0 /\ wrote = {}
      /\ \A t \in Txns : /\ scope[t] = "none" /\ result[t] = "none" /\ outcome[t] = "none"
                         /\ ~settled[t]
  BY DEF Init
<1>2. Path = {} /\ Framed = {}
  BY <1>1 DEF Path, InProgress, Framed
<1>3. Control
  BY <1>1, <1>2 DEF Control, CallIsSound, Paths, AtRest, InProgress
<1>4. StackOK
  BY <1>1, <1>2 DEF StackOK
<1>5. WritesOK
  BY <1>1 DEF WritesOK
<1> QED  BY <1>3, <1>4, <1>5 DEF Sound

LEMMA SoundWrite ==
    ASSUME Types, Types', Fits, Fits', Sound, NEW t \in Txns, Write(t), strayed' = "no"
    PROVE  Sound'
<1>1. /\ \A u : Same(u) /\ scope' = scope
      /\ wire' = wire /\ depth' = depth /\ fn[t] = "running" /\ ~Awaiting(t)
  BY WriteEffect
<1>2. ~signal[t] /\ strayed = "no"
  BY DEF Write, Types
<1>3. /\ Innermost(t) /\ t \in Framed /\ Framed = Path
  BY <1>1, <1>2, RunningFacts DEF Sound
<1>4. Control' /\ GoesOn /\ Framed' = Framed
  <2>1. /\ UNCHANGED <<wire, depth, level, scope, committing, settled, signal, outcome, result>>
        /\ fn'[t] = fn[t] /\ OthersSame(t)
    BY <1>1 DEF Write, tasks, Same, OthersSame
  <2> QED  BY <2>1, ControlSame DEF Sound
<1>5. Framed \subseteq Around(t)
  <2> SUFFICES ASSUME NEW u \in Path PROVE u \in Around(t)
    BY <1>3
  <2>1. level[u] <= level[t]
    BY <1>3, PathFacts DEF Innermost
  <2> QED  BY <1>3, <2>1 DEF Sound, Control, Paths
<1>6. Around(t) \subseteq Framed
  <2>1. Closed(Path) /\ Path \in SUBSET Txns
    BY PathFacts DEF Closed, Sound, Control, Paths
  <2> QED  BY <1>3, <2>1, AroundFacts DEF Types
<1>7. StackOK' /\ WritesOK'
  BY <1>3, <1>4, <1>5, <1>6, StackWrite DEF Sound
<1> QED  BY <1>4, <1>7 DEF Sound

LEMMA SoundCall ==
    ASSUME Types, Types', Fits, Fits', Sound, NEW t \in Txns, Call(t), strayed' = "no"
    PROVE  Sound'
<1>1. /\ Control' /\ GoesOn /\ depth >= 0 /\ t \notin Framed
      /\ level'[t] = depth
      /\ depth = 0 \/ \E p \in Framed : level[p] + 1 = depth
      /\ \A u \in Framed : level[u] < depth
      /\ \/ Framed' = Framed /\ db' = db
         \/ /\ Framed' = Framed \cup {t}
            /\ depth = 0 => db = <<>>
            /\ db' \in Seq(Frames) /\ Len(db') = Len(db) + 1
            /\ \A k \in 1..Len(db) : db'[k] = db[k]
            /\ db'[Len(db) + 1] = Frame(depth)
  BY CallControl DEF Sound
<1>2. durable' = durable /\ wrote' = wrote /\ depth \in Nat
  <2>1. depth \in Nat
    BY <1>1 DEF Types
  <2>2. durable' = durable
    BY DEF Call, SendOpen, Refuse
  <2> QED  BY <2>1, <2>2, CallEffect
<1>3. CASE Framed' = Framed /\ db' = db
  BY <1>1, <1>2, <1>3, StackStays DEF Sound
<1>4. CASE /\ Framed' = Framed \cup {t}
           /\ depth = 0 => db = <<>>
           /\ db' \in Seq(Frames) /\ Len(db') = Len(db) + 1
           /\ \A k \in 1..Len(db) : db'[k] = db[k]
           /\ db'[Len(db) + 1] = Frame(depth)
  <2>1. StackOK' /\ WritesOK'
    BY <1>1, <1>2, <1>4, StackGrows DEF Sound
  <2> QED  BY <1>1, <2>1 DEF Sound
<1> QED  BY <1>1, <1>3, <1>4

LEMMA SoundReturn ==
    ASSUME Types, Types', Fits, Fits', Sound, NEW t \in Txns, CallbackReturns(t)
    PROVE  Sound'
<1>1. CASE signal[t]
  BY <1>1, UnheardControl, StackStays DEF Sound
<1>2. CASE ~signal[t]
  <2>1. /\ Control' /\ GoesOn /\ wrote' = wrote
        /\ t \in Framed /\ level[t] \in Nat /\ \A u \in Framed : u # t => level[u] < level[t]
        /\ \/ Framed' = Framed /\ db' = db /\ durable' = durable
           \/ /\ Framed' = Framed \ {t} /\ Done(t)'
              /\ SendCommit(t, level[t]) /\ ~Refuse(t, "commit")
    BY <1>2, ReturnControl DEF Sound
  <2>2. CASE Framed' = Framed /\ db' = db /\ durable' = durable
    BY <2>1, <2>2, StackStays DEF Sound
  <2>3. CASE /\ Framed' = Framed \ {t} /\ Done(t)'
             /\ SendCommit(t, level[t]) /\ ~Refuse(t, "commit")
    BY <2>1, <2>3, StackCommit DEF Sound
  <2> QED  BY <2>1, <2>2, <2>3
<1> QED  BY <1>1, <1>2

LEMMA SoundThrow ==
    ASSUME Types, Types', Fits, Fits', Sound, NEW t \in Txns, CallbackThrows(t)
    PROVE  Sound'
<1>1. CASE signal[t]
  BY <1>1, UnheardControl, StackStays DEF Sound
<1>2. CASE ~signal[t]
  BY <1>2, ThrowControl, StackStays DEF Sound
<1> QED  BY <1>1, <1>2

LEMMA SoundAbort ==
    ASSUME Types, Types', Fits, Fits', Sound, NEW t \in Txns, Abort(t), strayed' = "no"
    PROVE  Sound'
BY AbortControl, StackStays DEF Sound

LEMMA SoundRollback ==
    ASSUME Types, Types', Fits, Fits', Sound, NEW t \in Txns, Rollback(t)
    PROVE  Sound'
<1>1. /\ Control' /\ GoesOn /\ wrote' = wrote
      /\ \/ Framed' = Framed /\ db' = db /\ durable' = durable
         \/ /\ t \in Framed /\ level[t] \in Nat /\ \A u \in Framed : u # t => level[u] < level[t]
            /\ Framed' = Framed \ {t} /\ Doomed(t)'
            /\ SendRollback(t, level[t]) /\ Has(level[t])
  BY RollbackControl DEF Sound
<1>2. CASE Framed' = Framed /\ db' = db /\ durable' = durable
  BY <1>1, <1>2, StackStays DEF Sound
<1>3. CASE /\ t \in Framed /\ level[t] \in Nat /\ \A u \in Framed : u # t => level[u] < level[t]
           /\ Framed' = Framed \ {t} /\ Doomed(t)'
           /\ SendRollback(t, level[t]) /\ Has(level[t])
  BY <1>1, <1>3, StackRollback DEF Sound
<1> QED  BY <1>1, <1>2, <1>3

LEMMA SoundAnswers ==
    ASSUME Types, Types', Fits, Fits', Sound, Opened \/ Committed \/ RolledBack
    PROVE  Sound'
<1>1. db' = db /\ durable' = durable /\ wrote' = wrote
  <2>1. CASE Opened
    BY <2>1 DEF Opened, Answer
  <2>2. CASE Committed
    BY <2>2 DEF Committed, Answer
  <2>3. CASE RolledBack
    BY <2>3 DEF RolledBack, Answer
  <2> QED  BY <2>1, <2>2, <2>3
<1>2. Control' /\ GoesOn /\ Framed' = Framed
  BY OpenedControl, CommittedControl, RolledBackControl DEF Sound
<1> QED  BY <1>1, <1>2, StackStays DEF Sound

LEMMA InvInit == CallsAreKnown /\ Init => Inv
BY TypesInit, FitsInit, CountsInit, SoundInit DEF Inv, CountInv

LEMMA InvStep == Inv /\ [Next]_vars => Inv'
<1> SUFFICES ASSUME Inv, [Next]_vars PROVE Inv'
  OBVIOUS
<1>1. Types /\ Fits /\ CountInv /\ CountInv' /\ Types' /\ Fits'
  BY CountStep DEF Inv, CountInv
<1>2. ASSUME strayed' = "no" PROVE Sound'
  <2>1. CASE UNCHANGED vars
    <3>1. Sound
      BY <1>2, <2>1 DEF Inv, vars
    <3>2. UNCHANGED <<db, durable, wire, depth, level, scope, fn, committing, settled, signal,
                      outcome, result, wrote>>
      BY <2>1 DEF vars, connection, tasks
    <3>3. \A u, ok : /\ CommitOnly(u, ok)' <=> CommitOnly(u, ok)
                     /\ CommitAndRollback(u, ok)' <=> CommitAndRollback(u, ok)
      BY <3>2 DEF CommitOnly, CommitAndRollback
    <3>4. Path' = Path /\ (\A p : Awaiting(p)' <=> Awaiting(p))
      BY <3>2 DEF Path, InProgress, Awaiting, Calls
    <3>5. Framed' = Framed
      BY <3>2, <3>3, <3>4 DEF Framed
    <3>6. \A u : /\ CallIsSound(u)' <=> CallIsSound(u)
                 /\ WireIsOf(u)' <=> WireIsOf(u)
                 /\ DepthIsOf(u)' <=> DepthIsOf(u)
                 /\ Waits(u)' <=> Waits(u)
      BY <3>2, <3>3, <3>4 DEF CallIsSound, InProgress, WireIsOf, DepthIsOf, Waits
    <3>7. \A u : Innermost(u)' <=> Innermost(u)
      BY <3>2, <3>4, <3>6 DEF Innermost
    <3>8. Control'
      BY <3>1, <3>2, <3>4, <3>6, <3>7 DEF Sound, Control, Paths, AtRest
    <3>9. \A u : (Done(u)' <=> Done(u)) /\ (Doomed(u)' <=> Doomed(u))
      BY <3>2, <3>3 DEF Done, Doomed, Passed, InProgress
    <3>10. GoesOn
      BY <3>2, <3>9 DEF GoesOn
    <3> QED  BY <1>1, <3>1, <3>2, <3>5, <3>8, <3>10, StackStays DEF Sound
  <2>2. CASE \E t \in Txns : Call(t) \/ Write(t) \/ CallbackReturns(t) \/ CallbackThrows(t)
                             \/ Abort(t) \/ Rollback(t)
    <3>1. PICK t \in Txns : Call(t) \/ Write(t) \/ CallbackReturns(t) \/ CallbackThrows(t)
                            \/ Abort(t) \/ Rollback(t)
      BY <2>2
    <3>2. CASE Call(t)
      <4>1. strayed = "no"
        BY <1>2, <3>2 DEF Call
      <4> QED  BY <1>1, <1>2, <3>2, <4>1, SoundCall DEF Inv
    <3>3. CASE Write(t)
      <4>1. strayed = "no"
        BY <1>2, <3>3 DEF Write
      <4> QED  BY <1>1, <1>2, <3>3, <4>1, SoundWrite DEF Inv
    <3>4. CASE CallbackReturns(t)
      <4>1. strayed = "no"
        BY <1>2, <3>4 DEF CallbackReturns
      <4> QED  BY <1>1, <3>4, <4>1, SoundReturn DEF Inv
    <3>5. CASE CallbackThrows(t)
      <4>1. strayed = "no"
        BY <1>2, <3>5 DEF CallbackThrows
      <4> QED  BY <1>1, <3>5, <4>1, SoundThrow DEF Inv
    <3>6. CASE Abort(t)
      <4>1. strayed = "no"
        BY <1>2, <3>6 DEF Abort
      <4> QED  BY <1>1, <1>2, <3>6, <4>1, SoundAbort DEF Inv
    <3>7. CASE Rollback(t)
      <4>1. strayed = "no"
        BY <1>2, <3>7 DEF Rollback
      <4> QED  BY <1>1, <3>7, <4>1, SoundRollback DEF Inv
    <3> QED  BY <3>1, <3>2, <3>3, <3>4, <3>5, <3>6, <3>7
  <2>3. CASE Opened \/ Committed \/ RolledBack
    <3>1. strayed = "no"
      BY <1>2, <2>3 DEF Opened, Committed, RolledBack
    <3> QED  BY <1>1, <2>3, <3>1, SoundAnswers DEF Inv
  <2> QED  BY <2>1, <2>2, <2>3 DEF Next
<1> QED  BY <1>1, <1>2 DEF Inv

LEMMA InvTypes == Inv => TypeOK
<1> SUFFICES ASSUME Inv PROVE TypeOK
  OBVIOUS
<1>1. Types /\ Counts /\ (strayed = "no" => Control)
  BY DEF Inv, CountInv, Sound
<1>2. PICK b, s, c : b = Cardinality(Begun) /\ s = Cardinality(Settled) /\ c = Cardinality(Txns)
  OBVIOUS
<1>3. b \in 0..c /\ s \in 0..c /\ c \in Nat
  BY <1>1, <1>2, CountTypes
<1>4. Depths = -c..c
  BY <1>2 DEF Depths
<1>5. depth \in Depths
  BY <1>1, <1>2, <1>3, <1>4 DEF Counts, Types
<1>6. level \in [Txns -> Depths]
  <2>1. ASSUME NEW t \in Txns PROVE level[t] \in Depths
    <3>1. level[t] \in Int
      BY <1>1 DEF Types
    <3>2. level[t] = 0 \/ (level[t] < b /\ level[t] + s >= 0)
      BY <1>1, <1>2 DEF Counts
    <3> QED  BY <1>3, <1>4, <3>1, <3>2
  <2>2. level \in [Txns -> Int]
    BY <1>1 DEF Types
  <2> QED  BY <2>1, <2>2
<1>7. \A k \in DOMAIN db : db[k].savepoint \in Depths /\ db[k].writes \subseteq Txns
  <2>1. DOMAIN db = 1..Len(db)
    BY <1>1 DEF Types
  <2>2. \A k \in 1..Len(db) : db[k].savepoint \in Nat /\ db[k].savepoint < b /\ db[k].writes \subseteq Txns
    BY <1>1, <1>2, FrameTypes DEF Counts
  <2> QED  BY <1>3, <1>4, <2>1, <2>2
<1>8. \A k \in DOMAIN wire : wire[k].op \in {"open", "commit", "rollback"}
  <2>1. DOMAIN wire = 1..Len(wire)
    BY <1>1 DEF Types
  <2> QED  BY <1>1, <2>1, WireTypes
<1>9. strayed = "no" => depth >= 0
  <2> SUFFICES ASSUME Control, ~AtRest PROVE depth >= 0
    BY <1>1 DEF AtRest
  <2>1. PICK t \in Txns : Innermost(t)
    BY DEF Control
  <2>2. level[t] >= 0 /\ level[t] \in Int
    BY <1>1, <2>1, PathFacts DEF Innermost, Control, Paths
  <2> QED  BY <2>1, <2>2 DEF Innermost, DepthIsOf
<1> QED  BY <1>1, <1>5, <1>6, <1>7, <1>8, <1>9 DEF TypeOK, Types, Scopes

LEMMA InvAllOrNothing == Inv => AllOrNothing
<1> SUFFICES ASSUME Inv, strayed = "no", Idle
             PROVE  /\ db = <<>> /\ depth = 0
                    /\ \A w \in wrote : (Succeeded(w) => w \in durable)
                                     /\ (w \in durable => MayHaveSucceeded(w))
  BY DEF AllOrNothing
<1>1. Types /\ Control /\ StackOK /\ WritesOK
  BY DEF Inv, CountInv, Sound
<1>2. \A t \in Txns : ~InProgress(t)
  BY DEF Idle
<1>3. Path = {} /\ Framed = {}
  BY <1>2 DEF Path, Framed
<1>4. AtRest
  BY <1>1, <1>3 DEF Control, Innermost
<1>5. db = <<>> /\ Len(db) = 0
  BY <1>1, <1>3, FrameTypes DEF StackOK
<1>6. ASSUME NEW w \in wrote, Succeeded(w) PROVE w \in durable
  <2>1. ~InFrame(w)
    BY <1>5 DEF InFrame
  <2>2. ~Lost(w)
    <3> SUFFICES ASSUME NEW u \in Around(w), Doomed(u) PROVE FALSE
      BY DEF Lost
    <3>1. u \in Txns /\ result[u] = "value"
      BY <1>6 DEF Succeeded, Around
    <3> QED  BY <1>2, <3>1 DEF Doomed, InProgress
  <2> QED  BY <1>1, <2>1, <2>2 DEF WritesOK
<1>7. ASSUME NEW w \in durable PROVE MayHaveSucceeded(w)
  <2> SUFFICES ASSUME NEW u \in Around(w) PROVE result[u] = "value" \/ (signal[u] /\ committing[u])
    BY DEF MayHaveSucceeded
  <2>1. u \in Txns /\ Done(u)
    BY <1>1 DEF WritesOK, AllDone, Around
  <2> QED  BY <1>2, <2>1 DEF Done, Passed
<1> QED  BY <1>4, <1>5, <1>6, <1>7 DEF AtRest

LEMMA SpecInv == CallsAreKnown => (Spec => []Inv)
<1>1. CallsAreKnown /\ Init => Inv
  BY InvInit
<1>2. Inv /\ [Next]_vars => Inv'
  BY InvStep
<1> QED  BY <1>1, <1>2, PTL DEF Spec

\* Every variable keeps its type.  The count of open transactions, the depth that each call
\* has read and the savepoints on the stack are bounded by the number of calls; the count is
\* not below zero as long as no callback goes on after an abort.
THEOREM TransactionTypes == CallsAreKnown => (Spec => []TypeOK)
<1>1. Inv => TypeOK
  BY InvTypes
<1> QED  BY <1>1, SpecInv, PTL

\* Whatever the callbacks throw and the database refuses, whenever the signals are aborted:
\* once nothing is in progress the connection is out of any transaction and the write of a
\* call is durable if it and all around it succeeded, and only then, but for a commit that
\* was under way at an abort.
THEOREM NothingHalfDurable == CallsAreKnown => (Spec => []AllOrNothing)
<1>1. Inv => AllOrNothing
  BY InvAllOrNothing
<1> QED  BY <1>1, SpecInv, PTL
=============================================================================
