----------------------------- MODULE QueuesProofs -----------------------------
(***************************************************************************)
(* No message of the three queues is lost before it is settled, for any    *)
(* consumers, messages and settings of the systems of MCQueues.  An        *)
(* operation on Redis works on ids that it has read round trips ago: such  *)
(* an id belongs to a message that has its data or is settled, whatever    *)
(* happened since.  The RabbitMQ adapter finds a delivery by the id in its *)
(* envelope: what it removes from the broker is the message that it was    *)
(* asked for.  The queue in memory keeps a message in one of three places, *)
(* or in more of them after a requeue that came too late: its steps are    *)
(* followed by the number of its copies, and by what waits for a timeout.  *)
(***************************************************************************)
EXTENDS MCQueues, FiniteSetTheorems, SequenceTheorems, WellFoundedInduction, TLAPS

\* A step of the system that model names is one of that system; the others stutter.
LEMMA EachStutters ==
    [MCNext]_mcvars => [Redis!Next]_(Redis!vars) /\ [Rabbit!Next]_(Rabbit!vars)
BY DEF MCNext, mcvars, redis, rabbit, Redis!vars, Redis!sets, Rabbit!vars, Rabbit!broker

-----------------------------------------------------------------------------
(* Redis. *)

Steps == {"idle", "moveExpired", "readDelayed", "moveDelayed", "readPending", "take",
          "clear", "requeue", "readForDlq", "route"}
Operations == [step : Steps, ids : SUBSET RedisIds, at : Nat]

\* What the argument needs to know of the types.  A score that is written is a time.
RedisTypes == /\ rNow \in Nat
              /\ pending \in [RedisIds -> Int] /\ rDelayed \in [RedisIds -> Int]
              /\ rInflight \in [RedisIds -> Int]
              /\ data \in [RedisIds -> Nat] /\ rSettled \subseteq RedisIds
              /\ job \in [Consumers -> Operations]
              /\ held \in [Consumers -> [RedisIds -> Int]]

Reachable(id) == pending[id] # Redis!Absent \/ rDelayed[id] # Redis!Absent
                 \/ rInflight[id] # Redis!Absent

\* The data and the sorted sets agree on a message that is not settled.
AgreeInv == \A id \in RedisIds \ rSettled : data[id] # 0 <=> Reachable(id)

\* What a consumer works on or was given has its data, or is settled.
JobInv == \A c \in Consumers :
             /\ \A id \in job[c].ids \cup Redis!Given(c) : data[id] # 0 \/ id \in rSettled
             /\ job[c].step = "clear" => job[c].ids \subseteq rSettled
             /\ job[c].step = "requeue" => job[c].at # 0

RedisInv == RedisTypes /\ AgreeInv /\ JobInv

-----------------------------------------------------------------------------
\* The operation of one consumer goes on to its next round trip.
LEMMA JobMoves ==
    ASSUME RedisInv, NEW c \in Consumers, job' \in [Consumers -> Operations],
           \A d \in Consumers : d # c => job'[d] = job[d],
           rSettled' = rSettled, data' \in [RedisIds -> Nat],
           \A id \in RedisIds : data[id] # 0 => data'[id] # 0,
           \A id \in job'[c].ids : data[id] # 0 \/ id \in rSettled,
           job'[c].step = "clear" => job'[c].ids \subseteq rSettled,
           job'[c].step = "requeue" => job'[c].at # 0,
           \A d \in Consumers : Redis!Given(d)'
                                \subseteq Redis!Given(d) \cup {id \in RedisIds : data[id] # 0}
    PROVE  JobInv'
<1>1. \A d \in Consumers : job[d].ids \subseteq RedisIds /\ job'[d].ids \subseteq RedisIds
                           /\ Redis!Given(d) \subseteq RedisIds
  BY DEF RedisInv, RedisTypes, Redis!Given, Operations
<1>2. ASSUME NEW d \in Consumers
      PROVE  /\ \A id \in job'[d].ids \cup Redis!Given(d)' : data'[id] # 0 \/ id \in rSettled'
             /\ job'[d].step = "clear" => job'[d].ids \subseteq rSettled'
             /\ job'[d].step = "requeue" => job'[d].at # 0
  <2>1. \A id \in Redis!Given(d)' : id \in RedisIds /\ (data[id] # 0 \/ id \in rSettled)
    BY <1>1 DEF RedisInv, JobInv
  <2>2. CASE d = c
    BY <1>1, <2>1, <2>2
  <2>3. CASE d # c
    BY <1>1, <2>1, <2>3 DEF RedisInv, JobInv
  <2> QED  BY <2>2, <2>3
<1> QED  BY <1>2 DEF JobInv

LEMMA RedisInit == Redis!Init => RedisInv
BY DEF Redis!Init, RedisInv, RedisTypes, Operations, AgreeInv, JobInv, Reachable, Redis!Given,
   Redis!Idle, Steps, Redis!Absent

\* The rounds of receive, and the reads of nack: they change only the job.
LEMMA ReadStep ==
    ASSUME RedisInv, NEW c \in Consumers,
           Redis!receive(c) \/ Redis!ReadsDelayed(c) \/ Redis!ReadsPending(c)
           \/ Redis!ReadsForDlq(c) \/ Redis!Disconnects(c)
    PROVE  RedisInv'
<1> USE DEF RedisInv
<1>1. UNCHANGED <<rNow, Redis!sets, data, held, rSettled>>
  BY DEF Redis!receive, Redis!ReadsDelayed, Redis!ReadsPending, Redis!ReadsForDlq,
     Redis!Disconnects
<1>2. \A set, time : Redis!Due(set, time) \subseteq {id \in RedisIds : set[id] # Redis!Absent}
  BY DEF Redis!Due
<1>3. job[c].at \in Nat /\ job[c].ids \subseteq RedisIds
  BY DEF RedisTypes, Operations
<1>4. \E step \in Steps, ids \in SUBSET RedisIds, at \in Nat :
         /\ Redis!Goto(c, step, ids, at) /\ step \notin {"clear", "requeue"}
         /\ \A id \in ids : id \in job[c].ids \/ Reachable(id)
  <2>1. CASE Redis!receive(c)
    BY <1>2, <2>1 DEF Redis!receive, RedisTypes, Reachable, Steps
  <2>2. CASE Redis!ReadsDelayed(c)
    <3> DEFINE due == Redis!Due(rDelayed, job[c].at)
    <3>1. IF due = {} THEN Redis!Goto(c, "readPending", {}, job[c].at)
                      ELSE Redis!Goto(c, "moveDelayed", due, job[c].at)
      BY <2>2 DEF Redis!ReadsDelayed, Redis!Goto
    <3>2. \A id \in due : id \in RedisIds /\ rDelayed[id] # Redis!Absent
      BY <1>2
    <3> HIDE DEF due
    <3>3. {"readPending", "moveDelayed"} \subseteq Steps \ {"clear", "requeue"}
      BY DEF Steps
    <3>4. CASE due = {}
      BY <1>3, <3>1, <3>3, <3>4
    <3>5. CASE due # {}
      BY <1>3, <3>1, <3>2, <3>3, <3>5 DEF Reachable
    <3> QED  BY <3>4, <3>5
  <2>3. CASE Redis!ReadsPending(c)
    <3>1. PICK ids \in Redis!Batches(job[c].at) :
              IF ids = {} THEN Redis!Return(c) ELSE Redis!Goto(c, "take", ids, job[c].at)
      BY <2>3 DEF Redis!ReadsPending
    <3>2. \A id \in ids : id \in RedisIds /\ pending[id] # Redis!Absent
      BY <1>2 DEF Redis!Batches
    <3>3. Redis!Return(c) => Redis!Goto(c, "idle", {}, 0)
      BY DEF Redis!Return, Redis!Goto, Redis!Idle
    <3> QED  BY <1>3, <3>1, <3>2, <3>3 DEF Reachable, Steps
  <2>4. CASE Redis!ReadsForDlq(c)
    BY <1>3, <2>4 DEF Redis!ReadsForDlq, Redis!Return, Redis!Goto, Redis!Idle, Steps
  <2>5. CASE Redis!Disconnects(c)
    <3>1. Redis!Goto(c, "idle", {}, 0)
      BY <2>5 DEF Redis!Disconnects, Redis!Return, Redis!Goto, Redis!Idle
    <3>2. "idle" \in Steps /\ "idle" \notin {"clear", "requeue"} /\ 0 \in Nat
          /\ {} \in SUBSET RedisIds
      BY DEF Steps
    <3> QED  BY <3>1, <3>2, Zenon
  <2> QED  BY <2>1, <2>2, <2>3, <2>4, <2>5
<1>5. PICK step \in Steps, ids \in SUBSET RedisIds, at \in Nat :
         /\ Redis!Goto(c, step, ids, at) /\ step \notin {"clear", "requeue"}
         /\ \A id \in ids : id \in job[c].ids \/ Reachable(id)
  BY <1>4
<1>6. \A id \in ids : data[id] # 0 \/ id \in rSettled
  BY <1>5 DEF AgreeInv, JobInv
<1>7. \A d \in Consumers : Redis!Given(d)' = Redis!Given(d)
  BY <1>1 DEF Redis!Given
<1>j. /\ job' \in [Consumers -> Operations]
     /\ job'[c].step = step /\ job'[c].ids = ids /\ job'[c].at = at
     /\ \A d \in Consumers : d # c => job'[d] = job[d]
  BY <1>5 DEF RedisTypes, Redis!Goto, Operations, Steps
<1>8. job' \in [Consumers -> Operations] /\ JobInv'
  BY <1>j, <1>1, <1>5, <1>6, <1>7, JobMoves DEF RedisTypes
<1> QED  BY <1>1, <1>8 DEF RedisTypes, AgreeInv, Reachable, Redis!sets

LEMMA RedisStep == RedisInv /\ [Redis!Next]_(Redis!vars) => RedisInv'
<1> SUFFICES ASSUME RedisInv, [Redis!Next]_(Redis!vars) PROVE RedisInv'
  OBVIOUS
<1> USE DEF RedisInv
<1>a. Redis!Absent \in Int /\ \A n \in Nat : n # Redis!Absent
  BY DEF Redis!Absent
<1>b. \A c \in Consumers : Redis!Return(c) => Redis!Goto(c, "idle", {}, 0)
  BY DEF Redis!Return, Redis!Goto, Redis!Idle
<1>c. \A c \in Consumers : job[c].ids \in SUBSET RedisIds /\ job[c].at \in Nat
                           /\ Redis!Given(c) \in SUBSET RedisIds
  BY DEF RedisTypes, Redis!Given, Operations
<1> HIDE DEF Redis!Absent
<1>1. CASE UNCHANGED Redis!vars
  BY <1>1 DEF Redis!vars, Redis!sets, RedisTypes, AgreeInv, JobInv, Reachable, Redis!Given
<1>2. CASE Redis!Tick
  BY <1>2 DEF Redis!Tick, Redis!sets, RedisTypes, AgreeInv, JobInv, Reachable, Redis!Given
<1>3. CASE Redis!sendBatch
  <2>1. PICK ids \in SUBSET Redis!NotSent \ {{}}, delayMs \in 0..1 :
           /\ data' = Redis!Zadd(data, ids, 1)
           /\ IF delayMs > 0
              THEN rDelayed' = Redis!Zadd(rDelayed, ids, rNow + delayMs) /\ UNCHANGED pending
              ELSE pending' = Redis!Zadd(pending, ids, rNow) /\ UNCHANGED rDelayed
           /\ UNCHANGED <<rNow, rInflight, dlq, job, held, rSettled>>
    BY <1>3 DEF Redis!sendBatch
  <2>2. ids \in SUBSET RedisIds /\ rNow \in Nat /\ rNow + delayMs \in Nat
    BY DEF Redis!NotSent, RedisTypes
  <2>3. data' \in [RedisIds -> Nat] /\ \A id \in RedisIds : data'[id] = IF id \in ids
            THEN 1 ELSE data[id]
    BY <2>1, <2>2 DEF RedisTypes, Redis!Zadd
  <2>4. /\ pending' \in [RedisIds -> Int] /\ rDelayed' \in [RedisIds -> Int]
        /\ \A id \in ids : pending'[id] # Redis!Absent \/ rDelayed'[id] # Redis!Absent
        /\ \A id \in RedisIds \ ids : pending'[id] = pending[id] /\ rDelayed'[id] = rDelayed[id]
    BY <1>a, <2>1, <2>2 DEF RedisTypes, Redis!Zadd
  <2>5. RedisTypes' /\ AgreeInv'
    BY <2>1, <2>3, <2>4 DEF RedisTypes, AgreeInv, Reachable
  <2>6. JobInv'
    BY <1>c, <2>1, <2>3 DEF JobInv, Redis!Given
  <2> QED  BY <2>5, <2>6
<1>4. ASSUME NEW c \in Consumers,
             Redis!receive(c) \/ Redis!ReadsDelayed(c) \/ Redis!ReadsPending(c)
             \/ Redis!ReadsForDlq(c) \/ Redis!Disconnects(c)
      PROVE  RedisInv'
  BY <1>4, ReadStep
<1>5. ASSUME NEW c \in Consumers, Redis!expireInflight(c) \/ Redis!MovesDelayed(c) PROVE RedisInv'
  <2>1. /\ UNCHANGED <<rNow, data, held, rSettled>>
        /\ pending' = Redis!Zadd(pending, job[c].ids, job[c].at)
        /\ \/ rInflight' = Redis!Zadd(rInflight, job[c].ids, Redis!Absent) /\ rDelayed' = rDelayed
           \/ rDelayed' = Redis!Zadd(rDelayed, job[c].ids, Redis!Absent) /\ rInflight' = rInflight
        /\ \E step \in Steps \ {"clear", "requeue"} : Redis!Goto(c, step, {}, job[c].at)
    BY <1>5 DEF Redis!expireInflight, Redis!MovesDelayed, Redis!Zrem, Steps
  <2>2. /\ pending' \in [RedisIds -> Int] /\ rDelayed' \in [RedisIds -> Int]
        /\ rInflight' \in [RedisIds -> Int]
        /\ \A id \in job[c].ids : pending'[id] # Redis!Absent
        /\ \A id \in RedisIds \ job[c].ids : pending'[id] = pending[id]
                                             /\ rDelayed'[id] = rDelayed[id]
                                             /\ rInflight'[id] = rInflight[id]
    BY <1>a, <1>c, <2>1 DEF RedisTypes, Redis!Zadd
  <2>3. AgreeInv'
    BY <2>1, <2>2 DEF AgreeInv, JobInv, Reachable
  <2>4. \A d \in Consumers : Redis!Given(d)' = Redis!Given(d)
    BY <2>1 DEF Redis!Given
  <2>s. PICK step \in Steps \ {"clear", "requeue"} : Redis!Goto(c, step, {}, job[c].at)
    BY <2>1
  <2>j. /\ job' \in [Consumers -> Operations]
       /\ job'[c].step = step /\ job'[c].ids = {} /\ job'[c].at = job[c].at
       /\ \A d \in Consumers : d # c => job'[d] = job[d]
    BY <1>c, <2>1, <2>s DEF RedisTypes, Redis!Goto, Operations, Steps
  <2>5. job' \in [Consumers -> Operations] /\ JobInv'
    BY <2>j, <2>1, <2>s, <2>4, JobMoves DEF RedisTypes
  <2> QED  BY <2>1, <2>2, <2>3, <2>5 DEF RedisTypes
<1>6. ASSUME NEW c \in Consumers, Redis!Takes(c) PROVE RedisInv'
  <2> DEFINE found == {id \in job[c].ids : data[id] # 0}
  <2>1. /\ UNCHANGED <<rNow, rDelayed, data, rSettled>> /\ Redis!Goto(c, "idle", {}, 0)
        /\ pending' = Redis!Zadd(pending, job[c].ids, Redis!Absent)
        /\ rInflight' = Redis!Zadd(rInflight, job[c].ids, job[c].at)
        /\ held' = [held EXCEPT ![c] = Redis!Zadd(held[c], found, job[c].at)]
    BY <1>b, <1>6 DEF Redis!Takes, Redis!Zrem
  <2>2. /\ pending' \in [RedisIds -> Int] /\ rInflight' \in [RedisIds -> Int]
        /\ \A id \in job[c].ids : rInflight'[id] # Redis!Absent
        /\ \A id \in RedisIds \ job[c].ids : pending'[id] = pending[id]
                                             /\ rInflight'[id] = rInflight[id]
    BY <1>a, <1>c, <2>1 DEF RedisTypes, Redis!Zadd
  <2>3. AgreeInv'
    BY <2>1, <2>2 DEF AgreeInv, JobInv, Reachable
  <2>4. /\ Redis!Zadd(held[c], found, job[c].at) \in [RedisIds -> Int]
        /\ \A id \in RedisIds : Redis!Zadd(held[c], found, job[c].at)[id]
                              = IF id \in found THEN job[c].at ELSE held[c][id]
    BY <1>c DEF RedisTypes, Redis!Zadd
  <2>5. held' \in [Consumers -> [RedisIds -> Int]]
    BY <2>1, <2>4 DEF RedisTypes
  <2>6. \A d \in Consumers : Redis!Given(d)'
                             \subseteq Redis!Given(d) \cup {id \in RedisIds : data[id] # 0}
    BY <2>1, <2>4 DEF Redis!Given, RedisTypes
  <2>j. /\ job' \in [Consumers -> Operations]
       /\ job'[c].step = "idle" /\ job'[c].ids = {} /\ job'[c].at = 0
       /\ \A d \in Consumers : d # c => job'[d] = job[d]
    BY <2>1 DEF RedisTypes, Redis!Goto, Operations, Steps
  <2>7. job' \in [Consumers -> Operations] /\ JobInv'
    BY <2>j, <2>1, <2>6, JobMoves DEF RedisTypes
  <2> QED  BY <2>1, <2>2, <2>3, <2>5, <2>7 DEF RedisTypes
<1>7. ASSUME NEW c \in Consumers, NEW ids \in SUBSET Redis!Given(c), Redis!GivesUp(c, ids)
      PROVE  held' \in [Consumers -> [RedisIds -> Int]]
      /\ \A d \in Consumers : Redis!Given(d)' \subseteq Redis!Given(d)
  <2>1. ids \in SUBSET RedisIds
    BY <1>c
  <2>2. /\ Redis!Zrem(held[c], ids) \in [RedisIds -> Int]
        /\ \A id \in RedisIds : Redis!Zrem(held[c], ids)[id] = IF id \in ids
                                THEN Redis!Absent ELSE held[c][id]
    BY <1>a, <2>1 DEF RedisTypes, Redis!Zrem, Redis!Zadd
  <2> QED  BY <1>7, <2>2 DEF Redis!GivesUp, RedisTypes, Redis!Given
<1>8. ASSUME NEW c \in Consumers, Redis!ack(c) PROVE RedisInv'
  <2>1. PICK ids \in SUBSET Redis!Given(c) :
           /\ rInflight' = Redis!Zadd(rInflight, ids, Redis!Absent)
           /\ data' = Redis!Zadd(data, ids, 0)
           /\ rSettled' = rSettled \cup ids /\ Redis!GivesUp(c, ids)
           /\ UNCHANGED <<rNow, pending, rDelayed, dlq, job>>
    BY <1>8 DEF Redis!ack, Redis!Zrem
  <2>2. ids \in SUBSET RedisIds /\ held' \in [Consumers -> [RedisIds -> Int]]
        /\ \A d \in Consumers : Redis!Given(d)' \subseteq Redis!Given(d)
    BY <1>c, <1>7, <2>1
  <2>3. /\ rInflight' \in [RedisIds -> Int] /\ data' \in [RedisIds -> Nat]
        /\ \A id \in RedisIds \ ids : rInflight'[id] = rInflight[id] /\ data'[id] = data[id]
    BY <1>a, <2>1, <2>2 DEF RedisTypes, Redis!Zadd
  <2>4. RedisTypes' /\ AgreeInv'
    BY <2>1, <2>2, <2>3 DEF RedisTypes, AgreeInv, Reachable
  <2>5. JobInv'
    BY <1>c, <2>1, <2>2, <2>3 DEF JobInv
  <2> QED  BY <2>4, <2>5
<1>9. ASSUME NEW c \in Consumers, Redis!nack(c) PROVE RedisInv'
  <2>1. PICK id \in Redis!Given(c) : \E step \in Steps, at \in Nat :
           /\ Redis!Goto(c, step, {id}, at) /\ Redis!GivesUp(c, {id})
           /\ UNCHANGED <<rNow, Redis!sets, data, dlq, rSettled>>
           /\ step = "clear" => data[id] = 0
           /\ step = "requeue" => at # 0
    <3>1. \A id \in Redis!Given(c) : data[id] \in Nat /\ data[id] + 1 \in Nat /\ data[id] + 1 # 0
      BY <1>c DEF RedisTypes
    <3> QED  BY <1>9, <3>1 DEF Redis!nack, Steps
  <2>2. id \in RedisIds /\ (data[id] # 0 \/ id \in rSettled)
    BY <1>c DEF JobInv
  <2>3. held' \in [Consumers -> [RedisIds -> Int]]
        /\ \A d \in Consumers : Redis!Given(d)' \subseteq Redis!Given(d)
    BY <1>7, <2>1
  <2>s. PICK step \in Steps, at \in Nat :
           /\ Redis!Goto(c, step, {id}, at) /\ Redis!GivesUp(c, {id})
           /\ UNCHANGED <<rNow, Redis!sets, data, dlq, rSettled>>
           /\ step = "clear" => data[id] = 0
           /\ step = "requeue" => at # 0
    BY <2>1
  <2>j. /\ job' \in [Consumers -> Operations]
       /\ job'[c].step = step /\ job'[c].ids = {id} /\ job'[c].at = at
       /\ \A d \in Consumers : d # c => job'[d] = job[d]
    BY <2>1, <2>2, <2>s DEF RedisTypes, Redis!Goto, Operations, Steps
  <2>4. job' \in [Consumers -> Operations] /\ JobInv'
    BY <2>j, <2>1, <2>s, <2>2, <2>3, JobMoves DEF RedisTypes
  <2> QED  BY <2>1, <2>3, <2>4 DEF RedisTypes, AgreeInv, Reachable, Redis!sets
<1>10. ASSUME NEW c \in Consumers, Redis!Clears(c) PROVE RedisInv'
  <2>1. /\ rInflight' = Redis!Zadd(rInflight, job[c].ids, Redis!Absent)
        /\ Redis!Goto(c, "idle", {}, 0)
        /\ job[c].ids \subseteq rSettled
        /\ UNCHANGED <<rNow, pending, rDelayed, data, dlq, held, rSettled>>
    BY <1>b, <1>10 DEF Redis!Clears, Redis!Zrem, JobInv
  <2>2. /\ rInflight' \in [RedisIds -> Int]
        /\ \A id \in RedisIds \ rSettled : rInflight'[id] = rInflight[id]
    BY <1>a, <1>c, <2>1 DEF RedisTypes, Redis!Zadd
  <2>3. \A d \in Consumers : Redis!Given(d)' = Redis!Given(d)
    BY <2>1 DEF Redis!Given
  <2>j. /\ job' \in [Consumers -> Operations]
       /\ job'[c].step = "idle" /\ job'[c].ids = {} /\ job'[c].at = 0
       /\ \A d \in Consumers : d # c => job'[d] = job[d]
    BY <2>1 DEF RedisTypes, Redis!Goto, Operations, Steps
  <2>4. job' \in [Consumers -> Operations] /\ JobInv'
    BY <2>j, <2>1, <2>3, JobMoves DEF RedisTypes
  <2> QED  BY <2>1, <2>2, <2>4 DEF RedisTypes, AgreeInv, Reachable
<1>11. ASSUME NEW c \in Consumers, Redis!Requeues(c) PROVE RedisInv'
  <2>1. PICK delay \in 0..1 :
           /\ rInflight' = Redis!Zadd(rInflight, job[c].ids, Redis!Absent)
           /\ data' = Redis!Zadd(data, job[c].ids, job[c].at)
           /\ IF delay > 0
              THEN rDelayed' = Redis!Zadd(rDelayed, job[c].ids, rNow + delay) /\ UNCHANGED pending
              ELSE pending' = Redis!Zadd(pending, job[c].ids, rNow) /\ UNCHANGED rDelayed
           /\ Redis!Goto(c, "idle", {}, 0) /\ job[c].at # 0
           /\ UNCHANGED <<rNow, dlq, held, rSettled>>
    BY <1>b, <1>11 DEF Redis!Requeues, Redis!Zrem, JobInv
  <2>2. rNow \in Nat /\ rNow + delay \in Nat
    BY DEF RedisTypes
  <2>3. /\ data' \in [RedisIds -> Nat] /\ rInflight' \in [RedisIds -> Int]
        /\ \A id \in RedisIds : data'[id] = IF id \in job[c].ids THEN job[c].at ELSE data[id]
        /\ \A id \in RedisIds \ job[c].ids : rInflight'[id] = rInflight[id]
    BY <1>a, <1>c, <2>1 DEF RedisTypes, Redis!Zadd
  <2>4. /\ pending' \in [RedisIds -> Int] /\ rDelayed' \in [RedisIds -> Int]
        /\ \A id \in job[c].ids : pending'[id] # Redis!Absent \/ rDelayed'[id] # Redis!Absent
        /\ \A id \in RedisIds \ job[c].ids : pending'[id] = pending[id]
                                             /\ rDelayed'[id] = rDelayed[id]
    BY <1>a, <1>c, <2>1, <2>2 DEF RedisTypes, Redis!Zadd
  <2>5. AgreeInv'
    BY <2>1, <2>3, <2>4 DEF AgreeInv, Reachable
  <2>6. \A d \in Consumers : Redis!Given(d)' = Redis!Given(d)
    BY <2>1 DEF Redis!Given
  <2>j. /\ job' \in [Consumers -> Operations]
       /\ job'[c].step = "idle" /\ job'[c].ids = {} /\ job'[c].at = 0
       /\ \A d \in Consumers : d # c => job'[d] = job[d]
    BY <2>1 DEF RedisTypes, Redis!Goto, Operations, Steps
  <2>7. job' \in [Consumers -> Operations] /\ JobInv'
    BY <2>j, <2>1, <2>3, <2>6, JobMoves DEF RedisTypes
  <2> QED  BY <2>1, <2>3, <2>4, <2>5, <2>7 DEF RedisTypes
<1>12. ASSUME NEW c \in Consumers, Redis!routeToDlq(c) PROVE RedisInv'
  <2>1. /\ rInflight' = Redis!Zadd(rInflight, job[c].ids, Redis!Absent)
        /\ data' = Redis!Zadd(data, job[c].ids, 0)
        /\ rSettled' = rSettled \cup job[c].ids /\ Redis!Goto(c, "idle", {}, 0)
        /\ UNCHANGED <<rNow, pending, rDelayed, held>>
    BY <1>b, <1>12 DEF Redis!routeToDlq, Redis!Zrem
  <2>2. /\ rInflight' \in [RedisIds -> Int] /\ data' \in [RedisIds -> Nat]
        /\ \A id \in RedisIds \ job[c].ids : rInflight'[id] = rInflight[id]
                                             /\ data'[id] = data[id]
    BY <1>a, <1>c, <2>1 DEF RedisTypes, Redis!Zadd
  <2>3. /\ job' \in [Consumers -> Operations]
        /\ \A d \in Consumers : job'[d] = IF d = c
                                THEN [step |-> "idle", ids |-> {}, at |-> 0] ELSE job[d]
    BY <2>1 DEF Redis!Goto, RedisTypes, Steps, Operations
  <2>4. RedisTypes' /\ AgreeInv'
    BY <1>c, <2>1, <2>2, <2>3 DEF RedisTypes, AgreeInv, Reachable
  <2>5. JobInv'
    BY <1>c, <2>1, <2>2, <2>3 DEF JobInv, Redis!Given
  <2> QED  BY <2>4, <2>5
<1> QED
  BY <1>1, <1>2, <1>3, <1>4, <1>5, <1>6, <1>8, <1>9, <1>10, <1>11, <1>12 DEF Redis!Next

-----------------------------------------------------------------------------
(* The types: what a job writes is a time that has been or an attempt that is allowed. *)

RedisLimits == RedisMaxTime \in Nat /\ MaxAttempts \in Nat \ {0}

Timed == {"moveExpired", "readDelayed", "moveDelayed", "readPending", "take"}

RedisBounds ==
    /\ RedisInv
    /\ RedisLimits
    /\ rNow \in 0..RedisMaxTime /\ data \in [RedisIds -> 0..MaxAttempts]
    /\ dlq \in [RedisIds -> Nat]
    /\ pending \in [RedisIds -> Redis!Absent..RedisMaxTime + 1]
    /\ rDelayed \in [RedisIds -> Redis!Absent..RedisMaxTime + 1]
    /\ rInflight \in [RedisIds -> Redis!Absent..RedisMaxTime + 1]
    /\ held \in [Consumers -> [RedisIds -> Redis!Absent..RedisMaxTime]]
    /\ \A c \in Consumers : /\ job[c].step \in Timed => job[c].at <= rNow
                            /\ job[c].step = "requeue" => job[c].at <= MaxAttempts

LEMMA ZaddIsBounded ==
    ASSUME NEW set, NEW ids, NEW S, set \in [RedisIds -> S], NEW score \in S
    PROVE  Redis!Zadd(set, ids, score) \in [RedisIds -> S]
BY DEF Redis!Zadd

\* What a step leaves of the jobs: one of them goes on.
LEMMA JobIsBounded ==
    ASSUME RedisBounds, NEW c \in Consumers, NEW step, NEW ids, NEW at,
           Redis!Goto(c, step, ids, at),
           rNow' \in Nat, rNow <= rNow', step \in Timed => at <= rNow',
           step = "requeue" => at <= MaxAttempts
    PROVE  \A d \in Consumers : /\ job'[d].step \in Timed => job'[d].at <= rNow'
                                /\ job'[d].step = "requeue" => job'[d].at <= MaxAttempts
<1>1. job \in [Consumers -> Operations] /\ rNow \in Nat
  BY DEF RedisBounds, RedisInv, RedisTypes
<1>2. \A d \in Consumers : job'[d] = IF d = c
                           THEN [step |-> step, ids |-> ids, at |-> at] ELSE job[d]
  BY <1>1 DEF Redis!Goto
<1>3. \A d \in Consumers : job[d].at \in Nat
  BY <1>1 DEF Operations
<1> QED  BY <1>1, <1>2, <1>3 DEF RedisBounds

LEMMA RedisBoundsInit == RedisLimits /\ Redis!Init => RedisBounds
BY RedisInit DEF Redis!Init, RedisBounds, RedisLimits, Redis!Idle, Redis!Absent, Timed

LEMMA RedisBoundsStep == RedisBounds /\ [Redis!Next]_(Redis!vars) => RedisBounds'
<1> SUFFICES ASSUME RedisBounds, [Redis!Next]_(Redis!vars) PROVE RedisBounds'
  OBVIOUS
<1>a. RedisInv /\ RedisInv' /\ RedisLimits /\ RedisLimits'
  BY RedisStep DEF RedisBounds, RedisLimits
<1>b. /\ rNow \in Nat /\ rNow <= RedisMaxTime /\ RedisMaxTime \in Nat /\ MaxAttempts \in Nat \ {0}
      /\ Redis!Absent \in Redis!Absent..RedisMaxTime + 1
      /\ Redis!Absent \in Redis!Absent..RedisMaxTime
      /\ 0 \in 0..MaxAttempts /\ 1 \in 0..MaxAttempts
  BY DEF RedisBounds, RedisLimits, Redis!Absent
<1>c. \A n \in Nat : /\ n <= rNow + 1 => n \in Redis!Absent..RedisMaxTime + 1
                     /\ n <= rNow => n \in Redis!Absent..RedisMaxTime
  BY <1>b DEF Redis!Absent
<1>d. \A c \in Consumers : job[c].at \in Nat
  BY <1>a DEF RedisInv, RedisTypes, Operations
<1>e. \A c \in Consumers : Redis!Return(c) => Redis!Goto(c, "idle", {}, 0)
  BY DEF Redis!Return, Redis!Goto, Redis!Idle
<1>f. "idle" \notin Timed /\ "clear" \notin Timed /\ "readForDlq" \notin Timed
      /\ "route" \notin Timed
      /\ "requeue" \notin Timed /\ "requeue" # "idle" /\ "requeue" # "clear"
      /\ "requeue" # "route"
      /\ "requeue" # "readForDlq" /\ \A step \in Timed : step # "requeue"
  BY DEF Timed
<1>g. {"moveExpired", "readDelayed", "moveDelayed", "readPending", "take"} = Timed
  BY DEF Timed
<1> HIDE DEF Redis!Absent, Timed
<1>1. CASE UNCHANGED Redis!vars
  BY <1>1, <1>a DEF Redis!vars, Redis!sets, RedisBounds
<1>2. CASE Redis!Tick
  <2>1. rNow' = rNow + 1 /\ rNow' \in 0..RedisMaxTime
        /\ UNCHANGED <<Redis!sets, data, dlq, job, held>>
    BY <1>2, <1>b DEF Redis!Tick
  <2>2. \A c \in Consumers : job[c].step \in Timed => job[c].at <= rNow'
    BY <1>b, <1>d, <2>1 DEF RedisBounds
  <2> QED  BY <1>a, <2>1, <2>2 DEF RedisBounds, Redis!sets
<1>3. CASE Redis!sendBatch
  <2>1. PICK ids \in SUBSET Redis!NotSent \ {{}}, delayMs \in 0..1 :
           /\ data' = Redis!Zadd(data, ids, 1)
           /\ IF delayMs > 0
              THEN rDelayed' = Redis!Zadd(rDelayed, ids, rNow + delayMs) /\ UNCHANGED pending
              ELSE pending' = Redis!Zadd(pending, ids, rNow) /\ UNCHANGED rDelayed
           /\ UNCHANGED <<rNow, rInflight, dlq, job, held, rSettled>>
    BY <1>3 DEF Redis!sendBatch
  <2>2. rNow \in Redis!Absent..RedisMaxTime + 1
        /\ rNow + delayMs \in Redis!Absent..RedisMaxTime + 1
    BY <1>b, <1>c
  <2>3. data' \in [RedisIds -> 0..MaxAttempts]
    <3>1. Redis!Zadd(data, ids, 1) \in [RedisIds -> 0..MaxAttempts]
      BY <1>b, ZaddIsBounded DEF RedisBounds
    <3> QED  BY <2>1, <3>1
  <2>4. pending' \in [RedisIds -> Redis!Absent..RedisMaxTime + 1]
        /\ rDelayed' \in [RedisIds -> Redis!Absent..RedisMaxTime + 1]
    <3>1. /\ Redis!Zadd(pending, ids, rNow) \in [RedisIds -> Redis!Absent..RedisMaxTime + 1]
          /\ Redis!Zadd(rDelayed, ids, rNow + delayMs)
                 \in [RedisIds -> Redis!Absent..RedisMaxTime + 1]
      BY <2>2, ZaddIsBounded DEF RedisBounds
    <3> QED  BY <2>1, <3>1 DEF RedisBounds
  <2> QED  BY <1>a, <2>1, <2>3, <2>4 DEF RedisBounds
<1>4. ASSUME NEW c \in Consumers,
             Redis!receive(c) \/ Redis!ReadsDelayed(c) \/ Redis!ReadsPending(c)
             \/ Redis!ReadsForDlq(c) \/ Redis!Disconnects(c)
      PROVE  RedisBounds'
  <2>1. UNCHANGED <<rNow, Redis!sets, data, dlq, held>>
    BY <1>4
       DEF Redis!receive, Redis!ReadsDelayed, Redis!ReadsPending, Redis!ReadsForDlq,
           Redis!Disconnects
  <2>2. \E step, ids, at : Redis!Goto(c, step, ids, at) /\ (step \in Timed => at <= rNow)
                           /\ step # "requeue"
    <3>1. CASE Redis!receive(c)
      <4>1. \E step \in Timed : \E ids : Redis!Goto(c, step, ids, rNow)
        BY <1>g, <3>1 DEF Redis!receive
      <4> QED  BY <1>b, <1>f, <4>1
    <3>2. CASE Redis!ReadsDelayed(c) \/ Redis!ReadsPending(c)
      <4>1. job[c].step \in Timed
        BY <1>g, <3>2 DEF Redis!ReadsDelayed, Redis!ReadsPending
      <4>2. job[c].at <= rNow
        BY <4>1 DEF RedisBounds
      <4>3. Redis!Return(c) \/ \E step \in Timed : \E ids : Redis!Goto(c, step, ids, job[c].at)
        BY <1>g, <3>2 DEF Redis!ReadsDelayed, Redis!ReadsPending
      <4> QED  BY <1>e, <1>f, <4>2, <4>3
    <3>3. CASE Redis!ReadsForDlq(c) \/ Redis!Disconnects(c)
      BY <1>e, <1>f, <3>3 DEF Redis!ReadsForDlq, Redis!Disconnects
    <3> QED  BY <1>4, <3>1, <3>2, <3>3
  <2>3. \A d \in Consumers : /\ job'[d].step \in Timed => job'[d].at <= rNow'
                             /\ job'[d].step = "requeue" => job'[d].at <= MaxAttempts
    BY <1>b, <2>1, <2>2, JobIsBounded
  <2> QED  BY <1>a, <2>1, <2>3 DEF RedisBounds, Redis!sets
<1>5. ASSUME NEW c \in Consumers,
             Redis!expireInflight(c) \/ Redis!MovesDelayed(c) \/ Redis!Takes(c)
      PROVE  RedisBounds'
  <2>1. job[c].step \in Timed /\ UNCHANGED <<rNow, data, dlq>>
    BY <1>5, <1>g DEF Redis!expireInflight, Redis!MovesDelayed, Redis!Takes
  <2>2. job[c].at \in Redis!Absent..RedisMaxTime + 1
        /\ job[c].at \in Redis!Absent..RedisMaxTime /\ job[c].at <= rNow
    BY <1>b, <1>c, <1>d, <2>1 DEF RedisBounds
  <2>3. /\ pending' \in [RedisIds -> Redis!Absent..RedisMaxTime + 1]
        /\ rDelayed' \in [RedisIds -> Redis!Absent..RedisMaxTime + 1]
        /\ rInflight' \in [RedisIds -> Redis!Absent..RedisMaxTime + 1]
    <3>1. \A set \in [RedisIds -> Redis!Absent..RedisMaxTime + 1] :
             /\ Redis!Zadd(set, job[c].ids, job[c].at)
                    \in [RedisIds -> Redis!Absent..RedisMaxTime + 1]
             /\ Redis!Zadd(set, job[c].ids, Redis!Absent)
                    \in [RedisIds -> Redis!Absent..RedisMaxTime + 1]
      BY <1>b, <2>2, ZaddIsBounded
    <3> QED  BY <1>5, <3>1
                DEF Redis!expireInflight, Redis!MovesDelayed, Redis!Takes, Redis!Zrem, RedisBounds
  <2>4. held' \in [Consumers -> [RedisIds -> Redis!Absent..RedisMaxTime]]
    <3>1. CASE Redis!Takes(c)
      <4>1. Redis!Zadd(held[c], {id \in job[c].ids : data[id] # 0}, job[c].at)
                \in [RedisIds -> Redis!Absent..RedisMaxTime]
        BY <2>2, ZaddIsBounded DEF RedisBounds
      <4> QED  BY <3>1, <4>1 DEF Redis!Takes, RedisBounds
    <3>2. CASE Redis!expireInflight(c) \/ Redis!MovesDelayed(c)
      BY <3>2 DEF Redis!expireInflight, Redis!MovesDelayed, RedisBounds
    <3> QED  BY <1>5, <3>1, <3>2
  <2>5. \E step, ids, at : Redis!Goto(c, step, ids, at) /\ (step \in Timed => at <= rNow)
                           /\ step # "requeue"
    <3>1. CASE Redis!Takes(c)
      BY <1>e, <1>f, <3>1 DEF Redis!Takes
    <3>2. CASE Redis!expireInflight(c) \/ Redis!MovesDelayed(c)
      <4>1. \E step \in Timed : Redis!Goto(c, step, {}, job[c].at)
        BY <1>g, <3>2 DEF Redis!expireInflight, Redis!MovesDelayed
      <4> QED  BY <1>f, <2>2, <4>1
    <3> QED  BY <1>5, <3>1, <3>2
  <2>6. \A d \in Consumers : /\ job'[d].step \in Timed => job'[d].at <= rNow'
                             /\ job'[d].step = "requeue" => job'[d].at <= MaxAttempts
    BY <1>b, <2>1, <2>5, JobIsBounded
  <2> QED  BY <1>a, <2>1, <2>3, <2>4, <2>6 DEF RedisBounds
<1>6. ASSUME NEW c \in Consumers, NEW ids, Redis!GivesUp(c, ids)
      PROVE  held' \in [Consumers -> [RedisIds -> Redis!Absent..RedisMaxTime]]
  <2>1. Redis!Zrem(held[c], ids) \in [RedisIds -> Redis!Absent..RedisMaxTime]
    BY <1>b, ZaddIsBounded DEF Redis!Zrem, RedisBounds
  <2> QED  BY <1>6, <2>1 DEF Redis!GivesUp, RedisBounds
<1>7. ASSUME NEW c \in Consumers, Redis!ack(c) PROVE RedisBounds'
  <2>1. PICK ids \in SUBSET Redis!Given(c) \ {{}} :
           /\ rInflight' = Redis!Zrem(rInflight, ids) /\ data' = Redis!Zadd(data, ids, 0)
           /\ Redis!GivesUp(c, ids)
           /\ UNCHANGED <<rNow, pending, rDelayed, dlq, job>>
    BY <1>7 DEF Redis!ack
  <2>2. rInflight' \in [RedisIds -> Redis!Absent..RedisMaxTime + 1]
        /\ data' \in [RedisIds -> 0..MaxAttempts]
    BY <1>b, <2>1, ZaddIsBounded DEF Redis!Zrem, RedisBounds
  <2> QED  BY <1>a, <1>6, <2>1, <2>2 DEF RedisBounds
<1>8. ASSUME NEW c \in Consumers, Redis!nack(c) PROVE RedisBounds'
  <2>1. PICK id \in Redis!Given(c) :
           /\ Redis!GivesUp(c, {id}) /\ UNCHANGED <<rNow, Redis!sets, data, dlq>>
           /\ \/ Redis!Goto(c, "clear", {id}, 0) \/ Redis!Goto(c, "readForDlq", {id}, 0)
              \/ data[id] < MaxAttempts /\ Redis!Goto(c, "requeue", {id}, data[id] + 1)
    BY <1>8 DEF Redis!nack
  <2>2. id \in RedisIds /\ data[id] \in 0..MaxAttempts
    BY DEF Redis!Given, RedisBounds
  <2>3. \E step, at : Redis!Goto(c, step, {id}, at) /\ step \notin Timed
                      /\ (step = "requeue" => at <= MaxAttempts)
    BY <1>b, <1>f, <2>1, <2>2
  <2>4. \A d \in Consumers : /\ job'[d].step \in Timed => job'[d].at <= rNow'
                             /\ job'[d].step = "requeue" => job'[d].at <= MaxAttempts
    BY <1>b, <2>1, <2>3, JobIsBounded
  <2> QED  BY <1>a, <1>6, <2>1, <2>4 DEF RedisBounds, Redis!sets
<1>9. ASSUME NEW c \in Consumers,
             Redis!Clears(c) \/ Redis!Requeues(c) \/ Redis!routeToDlq(c)
      PROVE  RedisBounds'
  <2>1. rInflight' = Redis!Zrem(rInflight, job[c].ids) /\ UNCHANGED <<rNow, held>>
    BY <1>9 DEF Redis!Clears, Redis!Requeues, Redis!routeToDlq
  <2>2. rInflight' \in [RedisIds -> Redis!Absent..RedisMaxTime + 1]
    BY <1>b, <2>1, ZaddIsBounded DEF Redis!Zrem, RedisBounds
  <2>3. /\ pending' \in [RedisIds -> Redis!Absent..RedisMaxTime + 1]
        /\ rDelayed' \in [RedisIds -> Redis!Absent..RedisMaxTime + 1]
        /\ data' \in [RedisIds -> 0..MaxAttempts]
    <3>1. CASE Redis!Clears(c)
      BY <3>1 DEF Redis!Clears, RedisBounds
    <3>2. CASE Redis!routeToDlq(c)
      BY <1>b, <3>2, ZaddIsBounded DEF Redis!routeToDlq, RedisBounds
    <3>3. CASE Redis!Requeues(c)
      <4>1. PICK delay \in 0..1 :
               /\ data' = Redis!Zadd(data, job[c].ids, job[c].at)
               /\ IF delay > 0
                  THEN rDelayed' = Redis!Zadd(rDelayed, job[c].ids, rNow + delay)
                       /\ UNCHANGED pending
                  ELSE pending' = Redis!Zadd(pending, job[c].ids, rNow) /\ UNCHANGED rDelayed
        BY <3>3 DEF Redis!Requeues
      <4>2. rNow \in Redis!Absent..RedisMaxTime + 1
            /\ rNow + delay \in Redis!Absent..RedisMaxTime + 1
        BY <1>b, <1>c
      <4>3. job[c].at \in 0..MaxAttempts
        BY <1>b, <1>d, <3>3 DEF Redis!Requeues, RedisBounds
      <4>4. /\ Redis!Zadd(pending, job[c].ids, rNow)
                   \in [RedisIds -> Redis!Absent..RedisMaxTime + 1]
            /\ Redis!Zadd(rDelayed, job[c].ids, rNow + delay)
                   \in [RedisIds -> Redis!Absent..RedisMaxTime + 1]
            /\ Redis!Zadd(data, job[c].ids, job[c].at) \in [RedisIds -> 0..MaxAttempts]
        BY <4>2, <4>3, ZaddIsBounded DEF RedisBounds
      <4> QED  BY <4>1, <4>4 DEF RedisBounds
    <3> QED  BY <1>9, <3>1, <3>2, <3>3
  <2>4. dlq' \in [RedisIds -> Nat]
    BY <1>9 DEF Redis!Clears, Redis!Requeues, Redis!routeToDlq, RedisBounds
  <2>5. \A d \in Consumers : /\ job'[d].step \in Timed => job'[d].at <= rNow'
                             /\ job'[d].step = "requeue" => job'[d].at <= MaxAttempts
    <3>1. Redis!Goto(c, "idle", {}, 0)
      BY <1>9, <1>e DEF Redis!Clears, Redis!Requeues, Redis!routeToDlq
    <3> QED  BY <1>b, <1>f, <2>1, <3>1, JobIsBounded
  <2> QED  BY <1>a, <2>1, <2>2, <2>3, <2>4, <2>5 DEF RedisBounds
<1> QED
  BY <1>1, <1>2, <1>3, <1>4, <1>5, <1>7, <1>8, <1>9 DEF Redis!Next

LEMMA RedisTypesHold == RedisBounds => Redis!TypeOK
BY DEF RedisBounds, RedisInv, RedisTypes, Operations, Redis!TypeOK

-----------------------------------------------------------------------------
(* RabbitMQ. *)

\* The operator that the instance has counts as the one of the theorems about sets.
LEMMA SameCardinality == \A S : Rabbit!Cardinality(S) = Cardinality(S)
BY DEF Rabbit!Cardinality, Cardinality

Copy == [id : RabbitIds, attempt : Nat]
RabbitDelivery == [tag : Nat \ {0}, id : RabbitIds, attempt : Nat]
Stream == [start : {"none", "starting", "started", "failed"}, consumer : BOOLEAN,
           aborted : BOOLEAN, cancelling : BOOLEAN,
           done : BOOLEAN, waiting : BOOLEAN, pending : Seq(RabbitIds)]

\* What the argument needs to know of the types.
RabbitTypes == /\ ready \in Seq(Copy) /\ unacked \subseteq RabbitDelivery /\ IsFiniteSet(unacked)
               /\ bInflight \in [RabbitIds -> Nat] /\ draining \subseteq unacked
               /\ batch \subseteq RabbitIds /\ bHeld \subseteq RabbitIds /\ stream \in Stream

\* A tag names one delivery.
TagInv == \A u, v \in unacked : u.tag = v.tag => u = v

\* The tag that the adapter has for a message is one of its deliveries, and not one
\* that a requeue has still to acknowledge.
MapInv == \A id \in RabbitIds : bInflight[id] # 0 =>
              \E u \in unacked \ draining : u.tag = bInflight[id] /\ u.id = id

Queued(id) == \E n \in 1..Len(ready) : ready[n].id = id
Out(id) == \E u \in unacked \ draining : u.id = id

\* A delivery that waits for the drain does not count: its successor is on its way.
SafeInv == \A id \in sent \ (acked \cup bDlq) : Queued(id) \/ Out(id)

RabbitInv == RabbitTypes /\ TagInv /\ MapInv /\ SafeInv

-----------------------------------------------------------------------------
LEMMA PigeonHole ==
    \A S, T : IsFiniteSet(S) /\ IsFiniteSet(T) /\ Cardinality(T) < Cardinality(S) =>
        \A f \in [S -> T] : \E x, y \in S : x # y /\ f[x] = f[y]
BY FS_PigeonHole

LEMMA FreshTagIsFresh ==
    ASSUME RabbitTypes PROVE Rabbit!FreshTag \in Nat \ {0}
    /\ \A u \in unacked : u.tag # Rabbit!FreshTag
<1> DEFINE n == Cardinality(unacked)
           used(k) == \E u \in unacked : u.tag = k
<1>1. n \in Nat
  BY FS_CardinalityType DEF RabbitTypes
<1>2. \E k \in 1..n + 1 : ~used(k)
  <2>1. SUFFICES ASSUME \A k \in 1..n + 1 : used(k) PROVE FALSE
    OBVIOUS
  <2> DEFINE f == [k \in 1..n + 1 |-> CHOOSE u \in unacked : u.tag = k]
  <2>2. f \in [1..n + 1 -> unacked] /\ \A k \in 1..n + 1 : f[k].tag = k
    BY <2>1
  <2>3. IsFiniteSet(1..n + 1) /\ Cardinality(1..n + 1) = n + 1
    BY <1>1, FS_Interval
  <2>4. n < Cardinality(1..n + 1)
    BY <1>1, <2>3
  <2> HIDE DEF f
  <2>5. \E x, y \in 1..n + 1 : x # y /\ f[x] = f[y]
    <3>1. IsFiniteSet(unacked)
      BY DEF RabbitTypes
    <3>2. /\ IsFiniteSet(1..n + 1) /\ IsFiniteSet(unacked) /\ n < Cardinality(1..n + 1)
          => \A g \in [1..n + 1 -> unacked] : \E x, y \in 1..n + 1 : x # y /\ g[x] = g[y]
      BY PigeonHole, Zenon
    <3> QED  BY <2>2, <2>3, <2>4, <3>1, <3>2, Zenon
  <2> QED  BY <2>2, <2>5
<1>3. Rabbit!FreshTag \in 1..n + 1 /\ ~used(Rabbit!FreshTag)
  BY <1>2, SameCardinality DEF Rabbit!FreshTag
<1> QED  BY <1>1, <1>3

\* Where the message of a queue is after something was put behind or before it.
LEMMA Appended ==
    ASSUME RabbitTypes, NEW c \in Copy, ready' = Append(ready, c)
    PROVE  ready' \in Seq(Copy) /\ Queued(c.id)' /\ \A id : Queued(id) => Queued(id)'
<1>1. /\ Len(ready) \in Nat /\ Len(ready') = Len(ready) + 1 /\ ready'[Len(ready) + 1] = c
      /\ \A n \in 1..Len(ready) : ready'[n] = ready[n]
  BY AppendProperties, LenProperties DEF RabbitTypes
<1>2. ready' \in Seq(Copy)
  BY AppendProperties DEF RabbitTypes
<1> QED  BY <1>1, <1>2 DEF Queued

LEMMA Headed ==
    ASSUME RabbitTypes, ready # <<>>, ready' = Tail(ready)
    PROVE  /\ Head(ready) \in Copy /\ ready' \in Seq(Copy)
           /\ \A id : Queued(id) => Queued(id)' \/ id = Head(ready).id
<1>1. /\ Head(ready) \in Copy /\ ready' \in Seq(Copy) /\ Len(ready') = Len(ready) - 1
      /\ \A n \in 1..Len(ready') : ready'[n] = ready[n + 1]
      /\ Len(ready) \in Nat /\ Head(ready) = ready[1]
  BY HeadTailProperties, LenProperties DEF RabbitTypes
<1>2. ASSUME NEW id, NEW n \in 1..Len(ready), ready[n].id = id, n # 1 PROVE Queued(id)'
  <2>1. n - 1 \in 1..Len(ready') /\ ready'[n - 1] = ready[n]
    BY <1>1, <1>2
  <2> QED  BY <1>2, <2>1 DEF Queued
<1> QED  BY <1>1, <1>2 DEF Queued

\* The channel closes: what was delivered is before what was in the queue.
LEMMA Returned ==
    ASSUME RabbitTypes, NEW copies \in Rabbit!Copies(unacked), ready' = copies \o ready
    PROVE  /\ ready' \in Seq(Copy)
           /\ \A id : Queued(id) => Queued(id)'
           /\ \A u \in unacked : Queued(u.id)'
<1> DEFINE n == Cardinality(unacked)
<1>1. PICK f \in [1..n -> unacked] :
          /\ Rabbit!ToSet(f) = unacked
          /\ copies = [k \in DOMAIN f |-> [id |-> f[k].id, attempt |-> f[k].attempt]]
  BY SameCardinality DEF Rabbit!Copies
<1>2. n \in Nat
  BY FS_CardinalityType DEF RabbitTypes
<1>3. copies \in [1..n -> Copy] /\ \A k \in 1..n : copies[k].id = f[k].id
  BY <1>1 DEF RabbitTypes, RabbitDelivery, Copy
<1>4. copies \in Seq(Copy)
  BY <1>2, <1>3, SeqDef
<1>5. Len(copies) = n
  BY <1>2, <1>3, <1>4, LenProperties
<1>6. /\ ready' \in Seq(Copy) /\ Len(ready') = n + Len(ready) /\ Len(ready) \in Nat
      /\ \A k \in 1..n + Len(ready) : ready'[k] = IF k <= n THEN copies[k] ELSE ready[k - n]
  BY <1>4, <1>5, ConcatProperties, LenProperties DEF RabbitTypes
<1>7. ASSUME NEW u \in unacked PROVE Queued(u.id)'
  <2>1. PICK k \in 1..n : f[k] = u
    BY <1>1 DEF Rabbit!ToSet
  <2>2. k \in 1..Len(ready') /\ ready'[k].id = u.id
    BY <1>2, <1>3, <1>6, <2>1
  <2> QED  BY <2>2 DEF Queued
<1>8. ASSUME NEW id, NEW k \in 1..Len(ready), ready[k].id = id PROVE Queued(id)'
  <2>1. k + n \in 1..Len(ready') /\ ready'[k + n] = ready[k]
    BY <1>2, <1>6, <1>8
  <2> QED  BY <1>8, <2>1 DEF Queued
<1> QED  BY <1>6, <1>7, <1>8 DEF Queued

-----------------------------------------------------------------------------
\* A delivery: the queue gives its first message, under a tag of its own.
LEMMA DeliveredStep ==
    ASSUME RabbitInv, Rabbit!Delivered, UNCHANGED <<draining, sent, acked, bDlq>>
    PROVE  /\ ready' \in Seq(Copy) /\ unacked' \subseteq RabbitDelivery /\ IsFiniteSet(unacked')
           /\ bInflight' \in [RabbitIds -> Nat] /\ draining' \subseteq unacked'
           /\ Head(ready).id \in RabbitIds /\ TagInv' /\ MapInv' /\ SafeInv'
<1> USE DEF RabbitInv
<1> DEFINE id == Head(ready).id
           new == [tag |-> Rabbit!FreshTag, id |-> id, attempt |-> Head(ready).attempt]
<1>1. /\ ready # <<>> /\ ready' = Tail(ready) /\ unacked' = unacked \cup {new}
      /\ bInflight' = [bInflight EXCEPT ![id] = Rabbit!FreshTag]
  BY DEF Rabbit!Delivered
<1>2. /\ Head(ready) \in Copy /\ ready' \in Seq(Copy)
      /\ \A x : Queued(x) => Queued(x)' \/ x = id
  BY <1>1, Headed
<1>3. Rabbit!FreshTag \in Nat \ {0} /\ \A u \in unacked : u.tag # Rabbit!FreshTag
  BY FreshTagIsFresh
<1> HIDE DEF Queued
<1>4. id \in RabbitIds /\ new \in RabbitDelivery /\ new.tag = Rabbit!FreshTag /\ new.id = id
  BY <1>2, <1>3 DEF Copy, RabbitDelivery
<1> HIDE DEF new, id
<1>5. /\ unacked' \subseteq RabbitDelivery /\ IsFiniteSet(unacked')
      /\ bInflight' \in [RabbitIds -> Nat]
      /\ draining' \subseteq unacked' /\ new \in unacked' \ draining'
  BY <1>1, <1>3, <1>4, FS_AddElement DEF RabbitTypes
<1>6. TagInv'
  BY <1>1, <1>3, <1>4 DEF TagInv
<1>7. MapInv'
  BY <1>1, <1>4, <1>5 DEF MapInv, RabbitTypes
<1>8. SafeInv'
  BY <1>1, <1>2, <1>4, <1>5 DEF SafeInv, Out
<1> QED  BY <1>2, <1>4, <1>5, <1>6, <1>7, <1>8 DEF id

\* The delivery that is found by an id is of that message, and the only one.
LEMMA OfId ==
    ASSUME RabbitInv, NEW id \in RabbitIds, NEW u \in Rabbit!Of(id)
    PROVE  bInflight[id] # 0 /\ u.id = id /\ u \in unacked \ draining /\ Rabbit!Of(id) = {u}
<1>1. u \in unacked /\ u.tag = bInflight[id] /\ bInflight[id] # 0
  BY DEF RabbitInv, RabbitTypes, Rabbit!Of, RabbitDelivery
<1>2. PICK v \in unacked \ draining : v.tag = bInflight[id] /\ v.id = id
  BY <1>1 DEF RabbitInv, MapInv
<1>3. u = v /\ \A w \in Rabbit!Of(id) : w = u
  BY <1>1, <1>2 DEF RabbitInv, TagInv, Rabbit!Of
<1> QED  BY <1>1, <1>2, <1>3

LEMMA RabbitInit == Rabbit!Init => RabbitInv
<1> SUFFICES ASSUME Rabbit!Init PROVE RabbitInv
  OBVIOUS
<1>1. ready \in Seq(Copy) /\ Rabbit!NoStream \in Stream
  BY EmptySeq DEF Rabbit!Init, Rabbit!NoStream, Stream
<1>2. RabbitTypes
  BY <1>1, FS_EmptySet DEF Rabbit!Init, RabbitTypes
<1> QED  BY <1>2 DEF Rabbit!Init, RabbitInv, TagInv, MapInv, SafeInv

LEMMA RabbitStep == RabbitInv /\ [Rabbit!Next]_(Rabbit!vars) => RabbitInv'
<1> SUFFICES ASSUME RabbitInv, [Rabbit!Next]_(Rabbit!vars) PROVE RabbitInv'
  OBVIOUS
<1> USE DEF RabbitInv
<1>1. CASE UNCHANGED Rabbit!vars
  BY <1>1 DEF Rabbit!vars, Rabbit!broker, RabbitTypes, TagInv, MapInv, SafeInv, Queued, Out
<1>2. CASE Rabbit!Closes
  <2>1. PICK copies \in Rabbit!Copies(unacked) : ready' = copies \o ready
    BY <1>2 DEF Rabbit!Closes
  <2>2. /\ unacked' = {} /\ draining' = {} /\ bInflight' = [id \in RabbitIds |-> 0]
        /\ batch' = {} /\ bHeld' = {}
        /\ stream' = Rabbit!NoStream /\ UNCHANGED <<bDlq, sent, acked>>
    BY <1>2 DEF Rabbit!Closes
  <2>3. /\ ready' \in Seq(Copy) /\ \A id : Queued(id) => Queued(id)'
        /\ \A u \in unacked : Queued(u.id)'
    BY <2>1, Returned
  <2>4. Rabbit!NoStream \in Stream
    BY EmptySeq DEF Rabbit!NoStream, Stream
  <2>5. RabbitTypes' /\ TagInv' /\ MapInv'
    BY <2>2, <2>3, <2>4, FS_EmptySet DEF RabbitTypes, TagInv, MapInv
  <2>6. SafeInv'
    BY <2>2, <2>3 DEF SafeInv, Out
  <2> QED  BY <2>5, <2>6
<1>3. ASSUME NEW id \in RabbitIds, Rabbit!send(id) PROVE RabbitInv'
  <2> DEFINE c == [id |-> id, attempt |-> 1]
  <2>1. /\ ready' = Append(ready, c) /\ c \in Copy /\ c.id = id /\ sent' = sent \cup {id}
        /\ UNCHANGED <<unacked, bInflight, draining, batch, bHeld, stream, acked, bDlq>>
    BY <1>3 DEF Rabbit!send, Copy
  <2>2. ready' \in Seq(Copy) /\ Queued(id)' /\ \A x : Queued(x) => Queued(x)'
    BY <2>1, Appended
  <2>3. RabbitTypes' /\ TagInv' /\ MapInv'
    BY <2>1, <2>2 DEF RabbitTypes, TagInv, MapInv
  <2>4. SafeInv'
    BY <2>1, <2>2 DEF SafeInv, Out
  <2> QED  BY <2>3, <2>4
<1>4. ASSUME NEW id \in RabbitIds, Rabbit!nack(id) PROVE RabbitInv'
  <2>1. PICK u \in Rabbit!Of(id) : /\ bHeld' = bHeld \ {id} /\ Rabbit!Forget({id})
        /\ UNCHANGED <<batch, stream, sent, acked>>
                                   /\ (Rabbit!Requeues(u) \/ Rabbit!DeadLetters(u))
    BY <1>4 DEF Rabbit!nack
  <2>2. u.id = id /\ u \in unacked \ draining /\ u.tag = bInflight[id] /\ u \in RabbitDelivery
    BY OfId DEF Rabbit!Of, RabbitTypes
  <2>3. bInflight' \in [RabbitIds -> Nat]
        /\ \A x \in RabbitIds : bInflight'[x] = IF x = id THEN 0 ELSE bInflight[x]
    BY <2>1 DEF Rabbit!Forget, RabbitTypes
  <2>4. unacked' \ draining' = (unacked \ draining) \ {u} /\ unacked' \subseteq unacked
        /\ draining' \subseteq unacked' /\ IsFiniteSet(unacked')
    <3>1. unacked' = unacked \/ unacked' = unacked \ {u}
      BY <2>1 DEF Rabbit!Requeues, Rabbit!DeadLetters
    <3>2. IsFiniteSet(unacked')
      BY <3>1, FS_RemoveElement DEF RabbitTypes
    <3> QED  BY <2>1, <2>2, <3>2 DEF Rabbit!Requeues, Rabbit!DeadLetters, RabbitTypes
  <2>5. /\ ready' \in Seq(Copy) /\ (\A x : Queued(x) => Queued(x)')
               /\ (Queued(id)' \/ id \in bDlq')
        /\ bDlq \subseteq bDlq'
    <3>1. CASE Rabbit!Requeues(u)
      <4> DEFINE c == [id |-> u.id, attempt |-> u.attempt + 1]
      <4>1. c \in Copy /\ c.id = id /\ ready' = Append(ready, c) /\ bDlq' = bDlq
        BY <2>2, <3>1 DEF Rabbit!Requeues, Copy, RabbitDelivery
      <4> QED  BY <4>1, Appended
    <3>2. CASE Rabbit!DeadLetters(u)
      BY <2>2, <3>2 DEF Rabbit!DeadLetters, Queued, RabbitTypes
    <3> QED  BY <2>1, <3>1, <3>2
  <2>6. RabbitTypes' /\ TagInv'
    BY <2>1, <2>3, <2>4, <2>5 DEF RabbitTypes, TagInv
  <2>7. MapInv'
    BY <2>2, <2>3, <2>4 DEF MapInv
  <2>8. SafeInv'
    BY <2>1, <2>2, <2>4, <2>5 DEF SafeInv, Out
  <2> QED  BY <2>6, <2>7, <2>8
<1>5. CASE Rabbit!Gets
  <2>1. Rabbit!Delivered /\ UNCHANGED <<draining, sent, acked, bDlq, bHeld, stream>>
        /\ batch' = batch \cup {Head(ready).id}
    BY <1>5 DEF Rabbit!Gets
  <2> QED  BY <2>1, DeliveredStep DEF RabbitTypes
<1>6. CASE Rabbit!enqueue
  <2>1. Rabbit!Delivered /\ UNCHANGED <<draining, sent, acked, bDlq, batch>>
    BY <1>6 DEF Rabbit!enqueue
  <2>2. Head(ready).id \in RabbitIds
    BY <2>1, DeliveredStep
  <2>3. bHeld' \subseteq RabbitIds
    BY <1>6, <2>2 DEF Rabbit!enqueue, RabbitTypes
  <2>4. stream' \in Stream
    <3>1. stream.pending \in Seq(RabbitIds)
          /\ Append(stream.pending, Head(ready).id) \in Seq(RabbitIds)
      BY <2>2, AppendProperties DEF RabbitTypes, Stream
    <3> QED  BY <1>6, <3>1 DEF Rabbit!enqueue, RabbitTypes, Stream
  <2> QED  BY <2>1, <2>3, <2>4, DeliveredStep DEF RabbitTypes
<1>7. CASE Rabbit!ack
  <2>1. PICK ids \in SUBSET bHeld : /\ unacked' = unacked \ UNION {Rabbit!Of(id) : id \in ids}
                                    /\ Rabbit!Forget(ids)
                                    /\ bHeld' = bHeld \ ids
                                    /\ acked' = acked \cup {id \in ids : bInflight[id] # 0}
                                    /\ UNCHANGED <<ready, bDlq, batch, draining, stream, sent>>
    BY <1>7 DEF Rabbit!ack
  <2>2. \A id \in ids : id \in RabbitIds /\ \A u \in Rabbit!Of(id) : u.id = id
                        /\ u \notin draining /\ bInflight[id] # 0
    BY OfId DEF RabbitTypes
  <2>3. bInflight' \in [RabbitIds -> Nat]
        /\ \A x \in RabbitIds : bInflight'[x] = IF x \in ids THEN 0 ELSE bInflight[x]
    BY <2>1 DEF Rabbit!Forget, RabbitTypes
  <2>4. /\ unacked' \subseteq unacked /\ draining' \subseteq unacked'
        /\ \A u \in unacked \ draining : u \in unacked' \ draining'
                                         \/ (u.id \in acked' /\ u.id \in ids)
    <3>1. unacked' \subseteq unacked /\ draining' = draining /\ draining \subseteq unacked
      BY <2>1 DEF RabbitTypes
    <3>2. ASSUME NEW u \in draining PROVE u \in unacked'
      BY <2>1, <2>2, <3>1
    <3>3. ASSUME NEW u \in unacked \ draining, u \notin unacked'
          PROVE  u.id \in acked' /\ u.id \in ids
      <4>1. PICK id \in ids : u \in Rabbit!Of(id)
        BY <2>1, <3>3
      <4> QED  BY <2>1, <2>2, <4>1
    <3>4. draining' \subseteq unacked'
      BY <3>1, <3>2
    <3>5. ASSUME NEW u \in unacked \ draining
          PROVE  u \in unacked' \ draining' \/ (u.id \in acked' /\ u.id \in ids)
      <4>1. CASE u \in unacked'
        BY <3>1, <3>5, <4>1
      <4>2. CASE u \notin unacked'
        BY <3>3, <3>5, <4>2
      <4> QED  BY <4>1, <4>2
    <3> QED  BY <3>1, <3>4, <3>5
  <2>5. IsFiniteSet(unacked')
    BY <2>4, FS_Subset DEF RabbitTypes
  <2>6. RabbitTypes' /\ TagInv'
    BY <2>1, <2>3, <2>4, <2>5 DEF RabbitTypes, TagInv
  <2>7. MapInv'
    BY <2>3, <2>4 DEF MapInv
  <2>8. SafeInv'
    BY <2>1, <2>4 DEF SafeInv, Out, Queued
  <2> QED  BY <2>6, <2>7, <2>8
<1>8. CASE Rabbit!awaitDrain
  <2>1. /\ unacked' = unacked \ draining /\ draining' = {}
        /\ UNCHANGED <<ready, bDlq, bInflight, batch, bHeld, stream, sent, acked>>
    BY <1>8 DEF Rabbit!awaitDrain
  <2>2. IsFiniteSet(unacked')
    BY <2>1, FS_Subset DEF RabbitTypes
  <2> QED  BY <2>1, <2>2 DEF RabbitTypes, TagInv, MapInv, SafeInv, Out, Queued
<1>9. CASE Rabbit!connect \/ Rabbit!ConnectSettles \/ Rabbit!assertQueue \/ Rabbit!receive
           \/ Rabbit!receiveFails \/ Rabbit!subscribe
           \/ Rabbit!StartSettles \/ Rabbit!next \/ Rabbit!Abort \/ Rabbit!return \/ Rabbit!finish
  <2>1. UNCHANGED <<ready, unacked, bDlq, bInflight, draining, sent, acked>>
    BY <1>9
       DEF Rabbit!connect, Rabbit!ConnectSettles, Rabbit!assertQueue, Rabbit!receive,
           Rabbit!receiveFails, Rabbit!subscribe, Rabbit!StartSettles,
                Rabbit!next, Rabbit!Abort, Rabbit!return, Rabbit!finish,
                Rabbit!UnchangedButStream, Rabbit!broker
  <2>2. batch' \subseteq RabbitIds /\ stream' \in Stream
    <3>1. stream.pending # <<>> => Tail(stream.pending) \in Seq(RabbitIds)
      BY HeadTailProperties DEF RabbitTypes, Stream
    <3>2. batch' \subseteq RabbitIds
      BY <1>9
         DEF Rabbit!connect, Rabbit!ConnectSettles, Rabbit!assertQueue, Rabbit!receive,
             Rabbit!receiveFails, Rabbit!subscribe,
                  Rabbit!StartSettles, Rabbit!next, Rabbit!Abort, Rabbit!return, Rabbit!finish,
                  Rabbit!UnchangedButStream, RabbitTypes
    <3>3. CASE UNCHANGED stream
      BY <3>2, <3>3 DEF RabbitTypes
    <3>4. CASE Rabbit!subscribe \/ Rabbit!StartSettles
      BY <3>2, <3>4 DEF Rabbit!subscribe, Rabbit!StartSettles, RabbitTypes, Stream
    <3>5. CASE Rabbit!next
      BY <3>2, <3>1, <3>5 DEF Rabbit!next, RabbitTypes, Stream
    <3>6. CASE Rabbit!Abort \/ Rabbit!return \/ Rabbit!finish
      <4>1. CASE Rabbit!Abort
        BY <3>2, <4>1 DEF Rabbit!Abort, RabbitTypes, Stream
      <4>2. CASE Rabbit!return
        BY <3>2, <4>2 DEF Rabbit!return, RabbitTypes, Stream
      <4>3. CASE Rabbit!finish
        BY <3>2, <4>3 DEF Rabbit!finish, RabbitTypes, Stream
      <4> QED  BY <3>6, <4>1, <4>2, <4>3
    <3> QED  BY <1>9, <3>2, <3>3, <3>4, <3>5, <3>6
             DEF Rabbit!connect, Rabbit!ConnectSettles, Rabbit!assertQueue, Rabbit!receive,
                 Rabbit!receiveFails
  <2>3. bHeld' \subseteq RabbitIds
    <3>1. stream.pending # <<>> => Head(stream.pending) \in RabbitIds
      BY HeadTailProperties DEF RabbitTypes, Stream
    <3> QED  BY <1>9, <3>1
                DEF Rabbit!connect, Rabbit!ConnectSettles, Rabbit!assertQueue, Rabbit!receive,
                    Rabbit!receiveFails, Rabbit!subscribe,
                Rabbit!StartSettles, Rabbit!next, Rabbit!Abort, Rabbit!return, Rabbit!finish,
                Rabbit!UnchangedButStream, RabbitTypes
  <2> QED  BY <2>1, <2>2, <2>3 DEF RabbitTypes, TagInv, MapInv, SafeInv, Out, Queued
<1> QED  BY <1>1, <1>2, <1>3, <1>4, <1>5, <1>6, <1>7, <1>8, <1>9 DEF Rabbit!Next

-----------------------------------------------------------------------------
(* The types: what is at the broker or on its way was sent, within its attempts. *)

AttemptsArePositive == MaxAttempts \in Nat \ {0}

Known == [id : sent, attempt : 1..MaxAttempts]
KnownDelivery == [tag : Nat \ {0}, id : sent, attempt : 1..MaxAttempts]

Connection == [state : {"none", "connecting", "open"}, attempts : 0..4, closes : Nat]

RabbitBounds ==
    /\ RabbitInv /\ AttemptsArePositive
    /\ conn \in Connection /\ asserted \in {"no", "dlq", "queue", "yes"}
    /\ ready \in Seq(Known) /\ unacked \subseteq KnownDelivery
    /\ sent \subseteq RabbitIds /\ batch \cup bHeld \cup acked \cup bDlq \subseteq sent
    /\ stream.pending \in Seq(sent)

\* Whoever waits waits for a consumer that is there, and a consumer that is there after the
\* end is being cancelled.
StreamInv ==
    /\ stream.waiting => stream.start = "started" /\ ~stream.done
    /\ stream.consumer => stream.start = "started" /\ (stream.done => stream.cancelling)
    /\ stream.start = "none" => ~stream.done
    /\ stream.start = "starting" /\ stream.done => stream.aborted
    /\ stream.start = "failed" => stream.done

LEMMA SequencesGrow ==
    ASSUME NEW A, NEW B, A \subseteq B
    PROVE  Seq(A) \subseteq Seq(B)
<1>1. ASSUME NEW q \in Seq(A) PROVE q \in Seq(B)
  <2>1. Len(q) \in Nat /\ q \in [1..Len(q) -> A]
    BY LenProperties
  <2>2. q \in [1..Len(q) -> B]
    BY <2>1
  <2> QED  BY <2>1, <2>2
<1> QED  BY <1>1

LEMMA RabbitBoundsInit == AttemptsArePositive /\ Rabbit!Init => RabbitBounds
<1> SUFFICES ASSUME AttemptsArePositive, Rabbit!Init PROVE RabbitBounds
  OBVIOUS
<1>1. ready \in Seq(Known) /\ stream.pending \in Seq(sent)
  BY EmptySeq DEF Rabbit!Init, Rabbit!NoStream
<1> QED  BY <1>1, RabbitInit DEF Rabbit!Init, RabbitBounds, Connection

\* A delivery moves the first message of the queue, which was sent.
LEMMA DeliveredIsKnown ==
    ASSUME RabbitBounds, Rabbit!Delivered, sent' = sent
    PROVE  /\ ready' \in Seq(Known)' /\ unacked' \subseteq KnownDelivery'
    /\ Head(ready).id \in sent
<1>1. Head(ready) \in Known /\ Tail(ready) \in Seq(Known)
  BY HeadTailProperties DEF RabbitBounds, Rabbit!Delivered
<1>2. Rabbit!FreshTag \in Nat \ {0}
  BY FreshTagIsFresh DEF RabbitBounds, RabbitInv
<1> QED  BY <1>1, <1>2 DEF Rabbit!Delivered, RabbitBounds, Known, KnownDelivery

\* What comes back when the channel closes was sent.
LEMMA ReturnedAreKnown ==
    ASSUME RabbitBounds, NEW copies \in Rabbit!Copies(unacked), ready' = copies \o ready
    PROVE  ready' \in Seq(Known)
<1> DEFINE n == Cardinality(unacked)
<1>1. PICK f \in [1..n -> unacked] :
          copies = [k \in DOMAIN f |-> [id |-> f[k].id, attempt |-> f[k].attempt]]
  BY SameCardinality DEF Rabbit!Copies
<1>2. n \in Nat
  BY FS_CardinalityType DEF RabbitBounds, RabbitInv, RabbitTypes
<1>3. copies \in [1..n -> Known]
  BY <1>1 DEF RabbitBounds, Known, KnownDelivery
<1>4. copies \in Seq(Known)
  BY <1>2, <1>3, SeqDef
<1> QED  BY <1>4, ConcatProperties DEF RabbitBounds

LEMMA RabbitBoundsStep == RabbitBounds /\ [Rabbit!Next]_(Rabbit!vars) => RabbitBounds'
<1> SUFFICES ASSUME RabbitBounds, [Rabbit!Next]_(Rabbit!vars) PROVE RabbitBounds'
  OBVIOUS
<1>a. RabbitInv /\ RabbitInv' /\ AttemptsArePositive
  BY RabbitStep DEF RabbitBounds
<1>b. sent' = sent => Known' = Known /\ KnownDelivery' = KnownDelivery
  BY DEF Known, KnownDelivery
<1>c. stream \in Stream /\ unacked \subseteq RabbitDelivery
  BY <1>a DEF RabbitInv, RabbitTypes
<1>1. CASE UNCHANGED Rabbit!vars
  BY <1>1, <1>a, <1>b DEF Rabbit!vars, Rabbit!broker, RabbitBounds
<1>2. CASE Rabbit!connect \/ Rabbit!ConnectSettles \/ Rabbit!assertQueue
  <2>1. UNCHANGED <<Rabbit!broker, batch, bHeld, stream, sent, acked>>
    BY <1>2 DEF Rabbit!connect, Rabbit!ConnectSettles, Rabbit!assertQueue
  <2>2. conn' \in Connection /\ asserted' \in {"no", "dlq", "queue", "yes"}
    <3>1. conn \in Connection /\ asserted \in {"no", "dlq", "queue", "yes"}
      BY DEF RabbitBounds
    <3>2. CASE Rabbit!connect
      BY <3>1, <3>2 DEF Rabbit!connect, Connection
    <3>3. CASE Rabbit!ConnectSettles
      <4>1. /\ conn.attempts \in 0..4 /\ conn.closes \in Nat
            /\ conn = [state |-> conn.state, attempts |-> conn.attempts, closes |-> conn.closes]
        BY <3>1 DEF Connection
      <4>2. \/ conn' = [state |-> "open", attempts |-> 0, closes |-> conn.closes]
            \/ /\ conn.attempts + 1 < 5
               /\ conn' = [state |-> conn.state, attempts |-> conn.attempts + 1,
                           closes |-> conn.closes]
            \/ conn' = [state |-> "none", attempts |-> 0, closes |-> conn.closes]
        BY <3>3, <4>1 DEF Rabbit!ConnectSettles, Rabbit!ConnectAttempts
      <4>3. conn.state = "connecting" /\ asserted' = asserted
        BY <3>3 DEF Rabbit!ConnectSettles
      <4>4. conn' \in Connection
        BY <4>1, <4>2, <4>3 DEF Connection
      <4> QED  BY <3>1, <4>3, <4>4
    <3>4. CASE Rabbit!assertQueue
      BY <3>1, <3>4 DEF Rabbit!assertQueue
    <3> QED  BY <1>2, <3>2, <3>3, <3>4
  <2> QED  BY <1>a, <1>b, <2>1, <2>2 DEF RabbitBounds, Rabbit!broker
<1>3. CASE Rabbit!Closes
  <2>1. PICK copies \in Rabbit!Copies(unacked) : ready' = copies \o ready
    BY <1>3 DEF Rabbit!Closes
  <2>2. /\ unacked' = {} /\ batch' = {} /\ bHeld' = {} /\ asserted' = "no"
        /\ stream'.pending = <<>> /\ UNCHANGED <<bDlq, sent, acked>>
    BY <1>3 DEF Rabbit!Closes, Rabbit!NoStream
  <2>3. conn' \in Connection
    <3>1. /\ conn.attempts \in 0..4 /\ conn.closes \in Nat
          /\ conn = [state |-> conn.state, attempts |-> conn.attempts, closes |-> conn.closes]
      BY DEF RabbitBounds, Connection
    <3>2. conn' = [state |-> "none", attempts |-> conn.attempts, closes |-> conn.closes + 1]
      BY <1>3, <3>1 DEF Rabbit!Closes
    <3> QED  BY <3>1, <3>2 DEF Connection
  <2>4. ready' \in Seq(Known) /\ stream'.pending \in Seq(sent)
    BY <2>1, <2>2, ReturnedAreKnown, EmptySeq
  <2> QED  BY <1>a, <1>b, <2>2, <2>3, <2>4 DEF RabbitBounds
<1>4. ASSUME NEW id \in RabbitIds, Rabbit!send(id) PROVE RabbitBounds'
  <2>1. /\ sent' = sent \cup {id} /\ ready' = Append(ready, [id |-> id, attempt |-> 1])
        /\ UNCHANGED <<conn, asserted, unacked, bDlq, batch, bHeld, stream, acked>>
    BY <1>4 DEF Rabbit!send
  <2>2. /\ Known \subseteq Known' /\ KnownDelivery \subseteq KnownDelivery'
        /\ [id |-> id, attempt |-> 1] \in Known'
    BY <1>a, <2>1 DEF Known, KnownDelivery, AttemptsArePositive
  <2>3. Seq(Known) \subseteq Seq(Known') /\ Seq(sent) \subseteq Seq(sent')
    BY <2>1, <2>2, SequencesGrow
  <2>4. ready \in Seq(Known') /\ stream.pending \in Seq(sent')
    BY <2>3 DEF RabbitBounds
  <2>5. ready' \in Seq(Known')
    BY <2>1, <2>2, <2>4, AppendProperties
  <2> QED  BY <1>a, <2>1, <2>2, <2>4, <2>5 DEF RabbitBounds
<1>5. ASSUME NEW id \in RabbitIds, Rabbit!nack(id) PROVE RabbitBounds'
  <2>1. PICK u \in Rabbit!Of(id) :
           /\ id \in bHeld /\ bHeld' = bHeld \ {id}
           /\ \/ u.attempt + 1 <= MaxAttempts /\ Rabbit!Requeues(u)
              \/ Rabbit!DeadLetters(u)
           /\ UNCHANGED <<conn, asserted, batch, stream, sent, acked>>
    BY <1>5 DEF Rabbit!nack
  <2>2. u \in KnownDelivery
    BY DEF Rabbit!Of, RabbitBounds
  <2>3. unacked' \subseteq unacked
    BY <2>1 DEF Rabbit!Requeues, Rabbit!DeadLetters
  <2>4. ready' \in Seq(Known) /\ bDlq' \subseteq sent
    <3>1. CASE u.attempt + 1 <= MaxAttempts /\ Rabbit!Requeues(u)
      <4>1. [id |-> u.id, attempt |-> u.attempt + 1] \in Known
        BY <1>a, <2>2, <3>1 DEF Known, KnownDelivery, AttemptsArePositive
      <4> QED  BY <3>1, <4>1, AppendProperties DEF Rabbit!Requeues, RabbitBounds
    <3>2. CASE Rabbit!DeadLetters(u)
      BY <2>2, <3>2 DEF Rabbit!DeadLetters, RabbitBounds, KnownDelivery
    <3> QED  BY <2>1, <3>1, <3>2
  <2> QED  BY <1>a, <1>b, <2>1, <2>3, <2>4 DEF RabbitBounds
<1>6. CASE Rabbit!Gets
  <2>1. Rabbit!Delivered /\ UNCHANGED <<conn, asserted, bDlq, bHeld, stream, sent, acked>>
        /\ batch' = batch \cup {Head(ready).id}
    BY <1>6 DEF Rabbit!Gets
  <2> QED  BY <1>a, <1>b, <2>1, DeliveredIsKnown DEF RabbitBounds
<1>7. CASE Rabbit!enqueue
  <2>1. Rabbit!Delivered /\ UNCHANGED <<conn, asserted, bDlq, batch, sent, acked>>
    BY <1>7 DEF Rabbit!enqueue
  <2>2. Head(ready).id \in sent /\ ready' \in Seq(Known)' /\ unacked' \subseteq KnownDelivery'
    BY <2>1, DeliveredIsKnown
  <2>3. bHeld' \subseteq sent
    BY <1>7, <2>2 DEF Rabbit!enqueue, RabbitBounds
  <2>4. stream'.pending \in Seq(sent)
    <3>1. stream.pending \in Seq(sent) /\ Append(stream.pending, Head(ready).id) \in Seq(sent)
      BY <2>2, AppendProperties DEF RabbitBounds
    <3> QED  BY <1>c, <1>7, <3>1 DEF Rabbit!enqueue, Stream
  <2> QED  BY <1>a, <1>b, <2>1, <2>2, <2>3, <2>4 DEF RabbitBounds
<1>8. CASE Rabbit!receive \/ Rabbit!receiveFails \/ Rabbit!ack \/ Rabbit!awaitDrain
  <2>1. /\ UNCHANGED <<conn, asserted, ready, bDlq, stream, sent>> /\ unacked' \subseteq unacked
        /\ batch' \subseteq batch /\ bHeld' \subseteq bHeld \cup batch
        /\ acked' \subseteq acked \cup bHeld
    BY <1>8 DEF Rabbit!receive, Rabbit!receiveFails, Rabbit!ack, Rabbit!awaitDrain, Rabbit!broker
  <2> QED  BY <1>a, <1>b, <2>1 DEF RabbitBounds
<1>9. CASE Rabbit!subscribe \/ Rabbit!StartSettles \/ Rabbit!Abort \/ Rabbit!return
           \/ Rabbit!finish
  <2>1. UNCHANGED <<conn, asserted, ready, unacked, bDlq, batch, bHeld, sent, acked>>
    BY <1>9
       DEF Rabbit!subscribe, Rabbit!StartSettles, Rabbit!Abort, Rabbit!return, Rabbit!finish,
           Rabbit!UnchangedButStream, Rabbit!broker
  <2>2. stream'.pending = stream.pending
    BY <1>c, <1>9
       DEF Rabbit!subscribe, Rabbit!StartSettles, Rabbit!Abort, Rabbit!return, Rabbit!finish,
           Stream
  <2> QED  BY <1>a, <1>b, <2>1, <2>2 DEF RabbitBounds
<1>10. CASE Rabbit!next
  <2>1. UNCHANGED <<conn, asserted, ready, unacked, bDlq, batch, sent, acked>>
    BY <1>10 DEF Rabbit!next, Rabbit!UnchangedButStream, Rabbit!broker
  <2>2. stream.pending # <<>> => Head(stream.pending) \in sent
        /\ Tail(stream.pending) \in Seq(sent)
    BY HeadTailProperties DEF RabbitBounds
  <2>3. bHeld' \subseteq sent /\ stream'.pending \in Seq(sent)
    BY <1>c, <1>10, <2>2 DEF Rabbit!next, RabbitBounds, Stream
  <2> QED  BY <1>a, <1>b, <2>1, <2>3 DEF RabbitBounds
<1> QED
  BY <1>1, <1>2, <1>3, <1>4, <1>5, <1>6, <1>7, <1>8, <1>9, <1>10 DEF Rabbit!Next

LEMMA RabbitTypesHold == RabbitBounds => Rabbit!TypeOK
<1> SUFFICES ASSUME RabbitBounds PROVE Rabbit!TypeOK
  OBVIOUS
<1>1. \A n \in DOMAIN ready : ready[n].id \in RabbitIds /\ ready[n].attempt \in 1..MaxAttempts
  <2>1. \A n \in DOMAIN ready : ready[n] \in Known
    BY LenProperties, ElementOfSeq DEF RabbitBounds
  <2> QED  BY <2>1 DEF RabbitBounds, Known
<1>2. \A id \in RabbitIds : bInflight[id] # 0 => Rabbit!Of(id) # {}
  BY DEF RabbitBounds, RabbitInv, MapInv, Rabbit!Of
<1> QED  BY <1>1, <1>2 DEF RabbitBounds, RabbitInv, RabbitTypes, Connection, Rabbit!TypeOK

LEMMA SubscriptionStep == RabbitTypes /\ StreamInv /\ [Rabbit!Next]_(Rabbit!vars) => StreamInv'
<1> SUFFICES ASSUME stream \in Stream, StreamInv, [Rabbit!Next]_(Rabbit!vars) PROVE StreamInv'
  BY DEF RabbitTypes
<1> USE DEF StreamInv
<1>1. CASE UNCHANGED stream
  BY <1>1
<1>2. CASE Rabbit!Closes
  BY <1>2 DEF Rabbit!Closes, Rabbit!NoStream
<1>3. CASE Rabbit!subscribe \/ Rabbit!StartSettles
  <2>1. CASE Rabbit!subscribe
    BY <2>1 DEF Rabbit!subscribe, Stream
  <2>2. CASE Rabbit!StartSettles
    BY <2>2 DEF Rabbit!StartSettles, Stream
  <2> QED  BY <1>3, <2>1, <2>2
<1>4. CASE Rabbit!enqueue \/ Rabbit!next
  BY <1>4 DEF Rabbit!enqueue, Rabbit!next, Stream
<1>5. CASE Rabbit!Abort \/ Rabbit!return \/ Rabbit!finish
  BY <1>5 DEF Rabbit!Abort, Rabbit!return, Rabbit!finish, Stream
<1> QED
  BY <1>1, <1>2, <1>3, <1>4, <1>5
     DEF Rabbit!Next, Rabbit!vars, Rabbit!connect, Rabbit!ConnectSettles, Rabbit!assertQueue,
         Rabbit!send, Rabbit!nack, Rabbit!Gets, Rabbit!receive, Rabbit!receiveFails,
         Rabbit!ack, Rabbit!awaitDrain

-----------------------------------------------------------------------------
(* The in-memory queue: what is selected from a sequence, and how many are. *)

LEMMA LeastOfSome ==
    ASSUME NEW S \in SUBSET Nat, S # {}
    PROVE  \E i \in S : \A j \in S : i <= j
<1>1. PICK i \in S : \A j \in S : ~(<<j, i>> \in OpToRel(<, Nat))
  BY NatLessThanWellFounded, WFMin
<1>2. ASSUME NEW j \in S PROVE i <= j
  <2>1. <<j, i>> \in Nat \X Nat /\ <<j, i>>[1] = j /\ <<j, i>>[2] = i
    OBVIOUS
  <2>2. ~(j < i)
    BY <1>1, <2>1 DEF OpToRel
  <2> QED  BY <2>2
<1> QED  BY <1>2

LEMMA MinOfSome ==
    ASSUME NEW S \in SUBSET Nat, S # {}
    PROVE  Min(S) \in S /\ \A j \in S : Min(S) <= j
BY LeastOfSome DEF Min

\* The last of some places.
LEMMA MaxOfSome ==
    ASSUME NEW n \in Nat, NEW S \in SUBSET (1..n), S # {}
    PROVE  Max(S) \in S /\ \A j \in S : Max(S) >= j
<1> DEFINE T == {m \in 0..n : n - m \in S}
<1>1. T \in SUBSET Nat /\ T # {}
  <2>1. PICK k \in S : TRUE
    OBVIOUS
  <2>2. n - k \in 0..n /\ n - (n - k) = k
    BY <2>1
  <2>3. n - k \in T
    BY <2>1, <2>2
  <2>4. T \in SUBSET Nat
    OBVIOUS
  <2> HIDE DEF T
  <2> QED  BY <2>3, <2>4
<1>2. PICK m \in T : \A l \in T : m <= l
  <2> HIDE DEF T
  <2> QED  BY <1>1, LeastOfSome
<1>3. n - m \in S /\ m \in 0..n
  OBVIOUS
<1>4. ASSUME NEW j \in S PROVE n - m >= j
  <2>1. n - j \in 0..n /\ n - (n - j) = j
    OBVIOUS
  <2>2. m <= n - j
    BY <1>2, <2>1
  <2> QED  BY <1>3, <2>2
<1> HIDE DEF T
<1> QED  BY <1>3, <1>4 DEF Max

\* Keep gives the items at the places of I, each once.
LEMMA KeepProperties ==
    ASSUME NEW S, NEW s \in Seq(S), NEW I \in SUBSET (1..Len(s))
    PROVE  /\ IsFiniteSet(I) /\ Cardinality(I) \in Nat
           /\ Keep(s, I) \in Seq(S) /\ Len(Keep(s, I)) = Cardinality(I)
           /\ \E f \in Bijection(1..Cardinality(I), I) :
                 \A k \in 1..Cardinality(I) : Keep(s, I)[k] = s[f[k]]
<1> DEFINE n == Cardinality(I)
           upto(i) == {j \in I : j <= i}
           rank == [i \in I |-> Cardinality(upto(i))]
           f == [k \in 1..n |-> CHOOSE i \in I : Cardinality(upto(i)) = k]
<1>1. IsFiniteSet(I) /\ n \in Nat
  <2>1. IsFiniteSet(1..Len(s))
    BY FS_Interval, LenProperties
  <2> QED  BY <2>1, FS_Subset, FS_CardinalityType
<1>2. ASSUME NEW i \in I
      PROVE  IsFiniteSet(upto(i)) /\ Cardinality(upto(i)) \in 1..n
  <2>1. upto(i) \in SUBSET I /\ i \in upto(i)
    OBVIOUS
  <2>2. IsFiniteSet(upto(i)) /\ Cardinality(upto(i)) <= n /\ Cardinality(upto(i)) \in Nat
    BY <1>1, <2>1, FS_Subset, FS_CardinalityType
  <2>3. Cardinality(upto(i)) # 0
    BY <2>1, <2>2, FS_EmptySet
  <2> QED  BY <1>1, <2>2, <2>3
<1>3. ASSUME NEW i \in I, NEW j \in I, Cardinality(upto(i)) = Cardinality(upto(j)) PROVE i = j
  <2>1. ASSUME NEW a \in I, NEW b \in I, a < b, Cardinality(upto(a)) = Cardinality(upto(b)) PROVE FALSE
    <3>0. I \subseteq Nat
      BY LenProperties
    <3>1. upto(a) \in SUBSET upto(b)
      <4>1. \A l \in I : l <= a => l <= b
        BY <2>1, <3>0
      <4> QED  BY <4>1
    <3>2. upto(a) = upto(b)
      BY <1>2, <2>1, <3>1, FS_Subset
    <3>3. b \in upto(b) /\ b \notin upto(a)
      BY <2>1
    <3> QED  BY <3>2, <3>3
  <2> QED  BY <1>3, <2>1
<1>4. rank \in Injection(I, 1..n)
  <2>1. rank \in [I -> 1..n]
    BY <1>2
  <2>2. \A a, b \in I : rank[a] = rank[b] => a = b
    BY <1>3
  <2> HIDE DEF rank
  <2> QED  BY <2>1, <2>2 DEF Injection, IsInjective
<1>5. rank \in Surjection(I, 1..n)
  <2>1. IsFiniteSet(1..n) /\ Cardinality(1..n) = n
    BY <1>1, FS_Interval
  <2> HIDE DEF rank
  <2> QED  BY <1>1, <1>4, <2>1, FS_Injection
<1>6. ASSUME NEW k \in 1..n PROVE \E i \in I : Cardinality(upto(i)) = k
  <2>1. \E i \in I : rank[i] = k
    <3> HIDE DEF rank
    <3> QED  BY <1>5 DEF Surjection
  <2> QED  BY <2>1
<1>7. \A k \in 1..n : f[k] \in I /\ Cardinality(upto(f[k])) = k
  BY <1>6
<1>8. \A i \in I : \E k \in 1..n : f[k] = i
  <2> SUFFICES ASSUME NEW i \in I PROVE f[Cardinality(upto(i))] = i
    BY <1>2
  <2> DEFINE k == Cardinality(upto(i))
  <2>1. k \in 1..n
    BY <1>2
  <2>2. f[k] \in I /\ Cardinality(upto(f[k])) = k
    BY <1>7, <2>1
  <2> HIDE DEF f
  <2> QED  BY <1>3, <2>2
<1>9. f \in Bijection(1..n, I)
  <2>1. f \in [1..n -> I]
    BY <1>7
  <2>2. \A a, b \in 1..n : f[a] = f[b] => a = b
    <3> SUFFICES ASSUME NEW a \in 1..n, NEW b \in 1..n, f[a] = f[b] PROVE a = b
      OBVIOUS
    <3>1. a = Cardinality(upto(f[a])) /\ b = Cardinality(upto(f[b]))
      BY <1>7
    <3> HIDE DEF f
    <3> QED  BY <3>1
  <2> HIDE DEF f
  <2> QED  BY <1>8, <2>1, <2>2 DEF Bijection, Injection, IsInjective, Surjection
<1>10. Keep(s, I) = [k \in 1..n |-> s[f[k]]]
  BY DEF Keep
<1>11. \A k \in 1..n : s[f[k]] \in S
  <2> HIDE DEF f
  <2> QED  BY <1>7, ElementOfSeq
<1>12. Keep(s, I) \in Seq(S) /\ Len(Keep(s, I)) = n
  <2> HIDE DEF f, n
  <2>1. Keep(s, I) \in [1..n -> S]
    BY <1>10, <1>11
  <2> QED  BY <1>1, <2>1, SeqDef, LenProperties
<1>13. \A k \in 1..n : Keep(s, I)[k] = s[f[k]]
  BY <1>10
<1> HIDE DEF f
<1> QED  BY <1>1, <1>9, <1>12, <1>13

\* How many items of s are in T.
Among(s, T) == Cardinality({i \in 1..Len(s) : s[i] \in T})

LEMMA AmongType ==
    ASSUME NEW S, NEW s \in Seq(S), NEW T
    PROVE  /\ IsFiniteSet({i \in 1..Len(s) : s[i] \in T}) /\ Among(s, T) \in Nat
           /\ Among(s, T) = 0 <=> \A i \in 1..Len(s) : s[i] \notin T
<1> DEFINE I == {i \in 1..Len(s) : s[i] \in T}
<1>1. IsFiniteSet(I)
  <2>1. IsFiniteSet(1..Len(s)) /\ I \in SUBSET (1..Len(s))
    BY FS_Interval, LenProperties
  <2> QED  BY <2>1, FS_Subset
<1>2. Cardinality(I) \in Nat /\ (Cardinality(I) = 0 <=> I = {})
  BY <1>1, FS_CardinalityType, FS_EmptySet
<1> QED  BY <1>1, <1>2 DEF Among

\* A one-to-one map between two sets.
LEMMA SameNumber ==
    ASSUME NEW A, NEW B, IsFiniteSet(A), NEW f \in [A -> B],
           \A a, b \in A : f[a] = f[b] => a = b,
           \A b \in B : \E a \in A : f[a] = b
    PROVE  IsFiniteSet(B) /\ Cardinality(B) = Cardinality(A)
<1>1. f \in Bijection(A, B)
  BY DEF Bijection, Injection, IsInjective, Surjection
<1>2. ExistsBijection(A, B)
  BY <1>1 DEF ExistsBijection
<1> QED  BY <1>2, FS_Bijection

\* Two sets without a common element.
LEMMA SumNumber ==
    ASSUME NEW A, NEW B, IsFiniteSet(A), IsFiniteSet(B), A \cap B = {}
    PROVE  IsFiniteSet(A \cup B) /\ Cardinality(A \cup B) = Cardinality(A) + Cardinality(B)
<1>1. Cardinality(A \cap B) = 0 /\ Cardinality(A) \in Nat /\ Cardinality(B) \in Nat
  BY FS_EmptySet, FS_CardinalityType
<1>2. /\ IsFiniteSet(A \cup B)
      /\ Cardinality(A \cup B) = Cardinality(A) + Cardinality(B) - Cardinality(A \cap B)
  BY FS_Union
<1> QED  BY <1>1, <1>2

LEMMA AmongConcat ==
    ASSUME NEW S, NEW s \in Seq(S), NEW t \in Seq(S), NEW T
    PROVE  s \o t \in Seq(S) /\ Among(s \o t, T) = Among(s, T) + Among(t, T)
<1> DEFINE A == {i \in 1..Len(s) : s[i] \in T}
           B == {i \in 1..Len(t) : t[i] \in T}
           C == {i \in Len(s) + 1..Len(s) + Len(t) : t[i - Len(s)] \in T}
           f == [i \in B |-> Len(s) + i]
<1>1. Len(s) \in Nat /\ Len(t) \in Nat
  BY LenProperties
<1>2. IsFiniteSet(A) /\ IsFiniteSet(B) /\ Among(s, T) = Cardinality(A) /\ Among(t, T) = Cardinality(B)
  BY AmongType DEF Among
<1>3. IsFiniteSet(C) /\ Cardinality(C) = Cardinality(B)
  <2>1. f \in [B -> C]
    <3>1. ASSUME NEW i \in B PROVE Len(s) + i \in C
      <4>1. i \in 1..Len(t) /\ t[i] \in T /\ Len(s) + i - Len(s) = i
        BY <1>1
      <4> QED  BY <1>1, <4>1
    <3> QED  BY <3>1
  <2>2. \A a, b \in B : f[a] = f[b] => a = b
    BY <1>1
  <2>3. \A c \in C : \E a \in B : f[a] = c
    <3> SUFFICES ASSUME NEW c \in C PROVE c - Len(s) \in B /\ Len(s) + (c - Len(s)) = c
      OBVIOUS
    <3> QED  BY <1>1
  <2> HIDE DEF f, B, C
  <2> QED  BY <1>2, <2>1, <2>2, <2>3, SameNumber
<1>4. A \cap C = {}
  BY <1>1
<1>5. /\ s \o t \in Seq(S) /\ Len(s \o t) = Len(s) + Len(t)
      /\ \A i \in 1..Len(s) : (s \o t)[i] = s[i]
      /\ \A i \in Len(s) + 1..Len(s) + Len(t) : (s \o t)[i] = t[i - Len(s)]
  <2>1. /\ s \o t \in Seq(S) /\ Len(s \o t) = Len(s) + Len(t)
        /\ \A i \in 1..Len(s) + Len(t) : (s \o t)[i] = IF i <= Len(s) THEN s[i] ELSE t[i - Len(s)]
    BY ConcatProperties
  <2> QED  BY <1>1, <2>1
<1>6. {i \in 1..Len(s \o t) : (s \o t)[i] \in T} = A \cup C
  <2>1. 1..Len(s) + Len(t) = (1..Len(s)) \cup (Len(s) + 1..Len(s) + Len(t))
    BY <1>1
  <2> QED  BY <1>5, <2>1
<1>7. Cardinality(A \cup C) = Cardinality(A) + Cardinality(C)
  <2> HIDE DEF A, C
  <2> QED  BY <1>2, <1>3, <1>4, SumNumber
<1> HIDE DEF A, B, C
<1> QED  BY <1>2, <1>3, <1>5, <1>6, <1>7 DEF Among

LEMMA AmongOne ==
    ASSUME NEW e, NEW T
    PROVE  Among(<<e>>, T) = IF e \in T THEN 1 ELSE 0
<1>1. {i \in 1..Len(<<e>>) : <<e>>[i] \in T} = IF e \in T THEN {1} ELSE {}
  <2>1. 1..Len(<<e>>) = {1}
    OBVIOUS
  <2> QED  BY <2>1
<1> QED  BY <1>1, FS_EmptySet, FS_Singleton DEF Among

LEMMA AmongAppend ==
    ASSUME NEW S, NEW s \in Seq(S), NEW e \in S, NEW T
    PROVE  Append(s, e) \in Seq(S) /\ Among(Append(s, e), T) = Among(s, T) + (IF e \in T THEN 1 ELSE 0)
<1>1. <<e>> \in Seq(S) /\ Append(s, e) = s \o <<e>>
  BY AppendIsConcat
<1>2. \A t \in Seq(S) : s \o t \in Seq(S) /\ Among(s \o t, T) = Among(s, T) + Among(t, T)
  BY AmongConcat
<1> QED  BY <1>1, <1>2, AmongOne

\* A sequence that is cut in two.
LEMMA AmongCut ==
    ASSUME NEW S, NEW s \in Seq(S), NEW n \in 0..Len(s), NEW T
    PROVE  /\ SubSeq(s, 1, n) \in Seq(S) /\ SubSeq(s, n + 1, Len(s)) \in Seq(S)
           /\ Len(SubSeq(s, 1, n)) = n /\ \A i \in 1..n : SubSeq(s, 1, n)[i] = s[i]
           /\ Among(s, T) = Among(SubSeq(s, 1, n), T) + Among(SubSeq(s, n + 1, Len(s)), T)
<1> DEFINE u == SubSeq(s, 1, n)
           v == SubSeq(s, n + 1, Len(s))
<1>1. Len(s) \in Nat /\ n \in Nat
  BY LenProperties
<1>2. PICK l \in Nat : l = Len(s)
  BY <1>1
<1>3. u \in Seq(S) /\ Len(u) = n /\ \A i \in 1..n : u[i] = s[i]
  <2>1. \A i \in 1..n : s[i] \in S
    BY <1>1, ElementOfSeq
  <2>2. \A i \in 1..n - 1 + 1 : u[i] = s[1 + i - 1]
    BY <1>1, <2>1, SubSeqProperties
  <2>3. u \in Seq(S) /\ Len(u) = IF 1 <= n THEN n - 1 + 1 ELSE 0
    BY <1>1, <2>1, SubSeqProperties
  <2> HIDE DEF u
  <2> QED  BY <1>1, <2>2, <2>3
<1>4. v \in Seq(S) /\ Len(v) = l - n /\ \A i \in 1..l - n : v[i] = s[n + i]
  <2>1. \A i \in n + 1..l : s[i] \in S
    BY <1>1, <1>2, ElementOfSeq
  <2>2. \A i \in 1..l - (n + 1) + 1 : v[i] = s[(n + 1) + i - 1]
    BY <1>1, <1>2, <2>1, SubSeqProperties
  <2>3. v \in Seq(S) /\ Len(v) = IF n + 1 <= l THEN l - (n + 1) + 1 ELSE 0
    BY <1>1, <1>2, <2>1, SubSeqProperties
  <2> HIDE DEF v
  <2>4. l - (n + 1) + 1 = l - n /\ n \in 0..l
    BY <1>1, <1>2
  <2>5. \A i \in 1..l - n : (n + 1) + i - 1 = n + i
    BY <1>1
  <2> QED  BY <1>2, <2>2, <2>3, <2>4, <2>5
<1> HIDE DEF u, v
<1>5. u \o v = s
  <2>1. /\ u \o v \in Seq(S) /\ Len(u \o v) = n + (l - n)
        /\ \A i \in 1..n + (l - n) : (u \o v)[i] = IF i <= n THEN u[i] ELSE v[i - n]
    <3>1. u \in Seq(S) /\ v \in Seq(S)
      BY <1>3, <1>4
    <3>2. /\ u \o v \in Seq(S) /\ Len(u \o v) = Len(u) + Len(v)
          /\ \A i \in 1..Len(u) + Len(v) : (u \o v)[i] = IF i <= Len(u) THEN u[i] ELSE v[i - Len(u)]
      BY <3>1, ConcatProperties
    <3>3. Len(u) = n /\ Len(v) = l - n
      BY <1>3, <1>4
    <3> QED  BY <3>2, <3>3
  <2>2. n + (l - n) = l
    BY <1>1, <1>2
  <2>3. ASSUME NEW i \in 1..l PROVE (u \o v)[i] = s[i]
    <3>1. CASE i <= n
      BY <1>1, <1>2, <1>3, <2>1, <2>2, <3>1
    <3>2. CASE ~(i <= n)
      <4>1. i - n \in 1..l - n /\ n + (i - n) = i
        BY <1>1, <1>2, <3>2
      <4> QED  BY <1>4, <2>1, <2>2, <3>2, <4>1
    <3> QED  BY <3>1, <3>2
  <2> QED  BY <1>2, <2>1, <2>2, <2>3, SeqEqual
<1>6. Among(s, T) = Among(u, T) + Among(v, T)
  <2>1. u \in Seq(S) /\ v \in Seq(S)
    BY <1>3, <1>4
  <2>2. Among(u \o v, T) = Among(u, T) + Among(v, T)
    BY <2>1, AmongConcat
  <2> QED  BY <1>5, <2>2
<1> QED  BY <1>3, <1>4, <1>6 DEF u, v

\* What is kept and what is not, are all.
LEMMA AmongKeep ==
    ASSUME NEW S, NEW s \in Seq(S), NEW I \in SUBSET (1..Len(s)), NEW T
    PROVE  Among(Keep(s, I), T) = Cardinality({i \in I : s[i] \in T})
<1> DEFINE n == Cardinality(I)
           A == {k \in 1..n : Keep(s, I)[k] \in T}
           B == {i \in I : s[i] \in T}
<1>1. PICK f \in Bijection(1..n, I) : \A k \in 1..n : Keep(s, I)[k] = s[f[k]]
  BY KeepProperties
<1>2. Keep(s, I) \in Seq(S) /\ Len(Keep(s, I)) = n
  BY KeepProperties
<1>3. /\ f \in [1..n -> I] /\ \A a, b \in 1..n : f[a] = f[b] => a = b
      /\ \A i \in I : \E k \in 1..n : f[k] = i
  BY DEF Bijection, Injection, IsInjective, Surjection
<1> DEFINE g == [k \in A |-> f[k]]
<1>4. IsFiniteSet(A) /\ Among(Keep(s, I), T) = Cardinality(A)
  BY <1>2, AmongType DEF Among
<1>5. g \in [A -> B]
  BY <1>1, <1>3
<1>6. \A a, b \in A : g[a] = g[b] => a = b
  BY <1>3
<1>7. \A b \in B : \E a \in A : g[a] = b
  BY <1>1, <1>3
<1> HIDE DEF g, A, B
<1>8. Cardinality(B) = Cardinality(A)
  BY <1>4, <1>5, <1>6, <1>7, SameNumber
<1> QED  BY <1>4, <1>8 DEF B

LEMMA AmongKept ==
    ASSUME NEW S, NEW s \in Seq(S), NEW I \in SUBSET (1..Len(s)), NEW T
    PROVE  Among(s, T) = Among(Keep(s, I), T) + Among(Keep(s, (1..Len(s)) \ I), T)
<1> DEFINE J == (1..Len(s)) \ I
           A == {i \in I : s[i] \in T}
           B == {i \in J : s[i] \in T}
<1>1. J \in SUBSET (1..Len(s))
  OBVIOUS
<1>2. Among(Keep(s, I), T) = Cardinality(A) /\ Among(Keep(s, J), T) = Cardinality(B)
  <2> HIDE DEF J
  <2> QED  BY <1>1, AmongKeep
<1>3. IsFiniteSet(A) /\ IsFiniteSet(B) /\ A \cap B = {}
  <2>1. A \in SUBSET I /\ B \in SUBSET J /\ A \cap B = {}
    OBVIOUS
  <2>2. IsFiniteSet(I) /\ IsFiniteSet(J)
    <3> HIDE DEF J
    <3> QED  BY <1>1, KeepProperties
  <2> HIDE DEF A, B, J
  <2> QED  BY <2>1, <2>2, FS_Subset
<1>4. {i \in 1..Len(s) : s[i] \in T} = A \cup B
  OBVIOUS
<1> HIDE DEF A, B, J
<1>5. Cardinality(A \cup B) = Cardinality(A) + Cardinality(B)
  BY <1>3, SumNumber
<1> QED  BY <1>2, <1>4, <1>5 DEF Among, J

\* Every item that is kept is one of s at a place of I, and the other way round.
LEMMA KeepItems ==
    ASSUME NEW S, NEW s \in Seq(S), NEW I \in SUBSET (1..Len(s))
    PROVE  /\ Keep(s, I) \in Seq(S)
           /\ \A k \in 1..Len(Keep(s, I)) : \E i \in I : Keep(s, I)[k] = s[i]
           /\ \A i \in I : \E k \in 1..Len(Keep(s, I)) : Keep(s, I)[k] = s[i]
<1>1. PICK f \in Bijection(1..Cardinality(I), I) :
        \A k \in 1..Cardinality(I) : Keep(s, I)[k] = s[f[k]]
  BY KeepProperties
<1>2. Keep(s, I) \in Seq(S) /\ Len(Keep(s, I)) = Cardinality(I)
  BY KeepProperties
<1>3. f \in [1..Cardinality(I) -> I] /\ \A i \in I : \E k \in 1..Cardinality(I) : f[k] = i
  BY DEF Bijection, Injection, Surjection
<1>4. \A k \in 1..Len(Keep(s, I)) : \E i \in I : Keep(s, I)[k] = s[i]
  BY <1>1, <1>2, <1>3
<1>5. \A i \in I : \E k \in 1..Len(Keep(s, I)) : Keep(s, I)[k] = s[i]
  BY <1>1, <1>2, <1>3
<1> QED  BY <1>2, <1>4, <1>5

-----------------------------------------------------------------------------
(* The in-memory queue: the copies of a message. *)

Entry == [bucket : Nat, due : Nat, msg : Message]
Held  == [msg : Message, at : Nat]

MessageOf(id) == {m \in Message : m.id = id}
EntryOf(id)   == {e \in Entry : e.msg.id = id}
HeldOf(id)    == {d \in Held : d.msg.id = id}

\* How many copies one queue has.
Here(m, d, f, id) == Among(m, MessageOf(id)) + Among(d, EntryOf(id)) + Among(f, HeldOf(id))
HereAt(q, id) == Here(messages[q], delayed[q], inflight[q], id)

InQueue(q, m, d, f, id) ==
    ({<<q, "messages">>} \X {i \in DOMAIN m : m[i].id = id})
       \cup ({<<q, "delayed">>} \X {i \in DOMAIN Msgs(d) : Msgs(d)[i].id = id})
       \cup ({<<q, "inflight">>} \X {i \in DOMAIN Msgs(f) : Msgs(f)[i].id = id})

Elsewhere(q, id) == UNION {PlacesAt(r, id) : r \in Queues \ {q}}

LEMMA PairsNumber ==
    ASSUME NEW x, NEW A, IsFiniteSet(A)
    PROVE  IsFiniteSet({x} \X A) /\ Cardinality({x} \X A) = Cardinality(A)
<1> DEFINE f == [a \in A |-> <<x, a>>]
<1>1. f \in [A -> {x} \X A]
  OBVIOUS
<1>2. \A a, b \in A : f[a] = f[b] => a = b
  OBVIOUS
<1>3. \A b \in {x} \X A : \E a \in A : f[a] = b
  OBVIOUS
<1> HIDE DEF f
<1> QED  BY <1>1, <1>2, <1>3, SameNumber

LEMMA InQueueNumber ==
    ASSUME NEW q, NEW m \in Seq(Message), NEW d \in Seq(Entry), NEW f \in Seq(Held), NEW id
    PROVE  /\ IsFiniteSet(InQueue(q, m, d, f, id)) /\ Here(m, d, f, id) \in Nat
           /\ Cardinality(InQueue(q, m, d, f, id)) = Here(m, d, f, id)
<1> DEFINE A == {i \in DOMAIN m : m[i].id = id}
           B == {i \in DOMAIN Msgs(d) : Msgs(d)[i].id = id}
           C == {i \in DOMAIN Msgs(f) : Msgs(f)[i].id = id}
           PA == {<<q, "messages">>} \X A
           PB == {<<q, "delayed">>} \X B
           PC == {<<q, "inflight">>} \X C
<1>1. IsFiniteSet(A) /\ Cardinality(A) = Among(m, MessageOf(id)) /\ Among(m, MessageOf(id)) \in Nat
  <2>1. A = {i \in 1..Len(m) : m[i] \in MessageOf(id)}
    BY LenProperties, ElementOfSeq DEF MessageOf
  <2> QED  BY <2>1, AmongType DEF Among
<1>2. IsFiniteSet(B) /\ Cardinality(B) = Among(d, EntryOf(id)) /\ Among(d, EntryOf(id)) \in Nat
  <2>1. B = {i \in 1..Len(d) : d[i] \in EntryOf(id)}
    BY LenProperties, ElementOfSeq DEF EntryOf, Msgs
  <2> QED  BY <2>1, AmongType DEF Among
<1>3. IsFiniteSet(C) /\ Cardinality(C) = Among(f, HeldOf(id)) /\ Among(f, HeldOf(id)) \in Nat
  <2>1. C = {i \in 1..Len(f) : f[i] \in HeldOf(id)}
    BY LenProperties, ElementOfSeq DEF HeldOf, Msgs
  <2> QED  BY <2>1, AmongType DEF Among
<1> HIDE DEF A, B, C
<1>4. /\ IsFiniteSet(PA) /\ Cardinality(PA) = Cardinality(A)
      /\ IsFiniteSet(PB) /\ Cardinality(PB) = Cardinality(B)
      /\ IsFiniteSet(PC) /\ Cardinality(PC) = Cardinality(C)
  BY <1>1, <1>2, <1>3, PairsNumber
<1>5. PA \cap PB = {} /\ (PA \cup PB) \cap PC = {}
  OBVIOUS
<1> HIDE DEF PA, PB, PC
<1>6. IsFiniteSet(PA \cup PB) /\ Cardinality(PA \cup PB) = Cardinality(PA) + Cardinality(PB)
  BY <1>4, <1>5, SumNumber
<1>7. /\ IsFiniteSet((PA \cup PB) \cup PC)
      /\ Cardinality((PA \cup PB) \cup PC) = Cardinality(PA \cup PB) + Cardinality(PC)
  BY <1>4, <1>5, <1>6, SumNumber
<1>8. InQueue(q, m, d, f, id) = (PA \cup PB) \cup PC
  BY DEF InQueue, PA, PB, PC, A, B, C
<1> QED  BY <1>1, <1>2, <1>3, <1>4, <1>6, <1>7, <1>8 DEF Here

\* The copies of a message when only queue q changes.
LEMMA CopiesMove ==
    ASSUME TypeOK, TypeOK', NEW q \in Queues, NEW id, IsFiniteSet(Places(id)),
           \A r \in Queues \ {q} : PlacesAt(r, id)' = PlacesAt(r, id)
    PROVE  /\ IsFiniteSet(Places(id)') /\ Copies(id) \in Nat /\ Copies(id)' \in Nat
           /\ HereAt(q, id) \in Nat /\ HereAt(q, id)' \in Nat /\ HereAt(q, id) <= Copies(id)
           /\ Copies(id)' = Copies(id) - HereAt(q, id) + HereAt(q, id)'
<1> DEFINE E == Elsewhere(q, id)
           A == PlacesAt(q, id)
           B == PlacesAt(q, id)'
<1>1. IsFiniteSet(A) /\ Cardinality(A) = HereAt(q, id) /\ HereAt(q, id) \in Nat
  <2>1. /\ messages[q] \in Seq(Message) /\ delayed[q] \in Seq(Entry) /\ inflight[q] \in Seq(Held)
    BY DEF TypeOK, Entry, Held
  <2>2. A = InQueue(q, messages[q], delayed[q], inflight[q], id)
    BY DEF PlacesAt, InQueue
  <2> QED  BY <2>1, <2>2, InQueueNumber DEF HereAt
<1>2. IsFiniteSet(B) /\ Cardinality(B) = HereAt(q, id)' /\ HereAt(q, id)' \in Nat
  <2>1. /\ messages'[q] \in Seq(Message) /\ delayed'[q] \in Seq(Entry) /\ inflight'[q] \in Seq(Held)
    BY DEF TypeOK, Entry, Held, Message
  <2>2. B = InQueue(q, messages'[q], delayed'[q], inflight'[q], id)
    BY DEF PlacesAt, InQueue, Msgs
  <2>3. HereAt(q, id)' = Here(messages'[q], delayed'[q], inflight'[q], id)
    BY DEF HereAt, Here, MessageOf, EntryOf, HeldOf, Message, Entry, Held, Among
  <2> QED  BY <2>1, <2>2, <2>3, InQueueNumber
<1>3. Places(id) = E \cup A /\ Places(id)' = E \cup B
  BY DEF Places, Elsewhere
<1>4. A \cap E = {} /\ B \cap E = {}
  <2>1. ASSUME NEW r PROVE \A p \in PlacesAt(r, id) : p[1][1] = r
    BY DEF PlacesAt
  <2>2. \A p \in PlacesAt(q, id)' : p[1][1] = q
    BY DEF PlacesAt
  <2> QED  BY <2>1, <2>2 DEF Elsewhere
<1> HIDE DEF E, A, B
<1>5. IsFiniteSet(E) /\ Cardinality(E) \in Nat
  <2>1. E \in SUBSET Places(id)
    BY <1>3
  <2> QED  BY <2>1, FS_Subset, FS_CardinalityType
<1>6. /\ IsFiniteSet(E \cup A) /\ Cardinality(E \cup A) = Cardinality(E) + Cardinality(A)
      /\ IsFiniteSet(E \cup B) /\ Cardinality(E \cup B) = Cardinality(E) + Cardinality(B)
  BY <1>1, <1>2, <1>4, <1>5, SumNumber
<1>7. Copies(id) = Cardinality(E) + HereAt(q, id) /\ Copies(id)' = Cardinality(E) + HereAt(q, id)'
  BY <1>1, <1>2, <1>3, <1>6 DEF Copies
<1> QED  BY <1>1, <1>2, <1>3, <1>5, <1>6, <1>7

-----------------------------------------------------------------------------
(* The in-memory queue: the map of the deliveries. *)

Unique(f) == \A i, j \in 1..Len(f) : f[i].msg.id = f[j].msg.id => i = j

LEMMA UniqueNumber ==
    ASSUME NEW f \in Seq(Held)
    PROVE  Unique(f) <=> \A id : Among(f, HeldOf(id)) <= 1
<1> DEFINE K(id) == {i \in 1..Len(f) : f[i] \in HeldOf(id)}
<1>1. ASSUME NEW id
      PROVE  /\ IsFiniteSet(K(id)) /\ Cardinality(K(id)) = Among(f, HeldOf(id))
             /\ Among(f, HeldOf(id)) \in Nat
             /\ K(id) = {i \in 1..Len(f) : f[i].msg.id = id}
  <2>1. \A i \in 1..Len(f) : f[i] \in Held
    BY ElementOfSeq
  <2> QED  BY <2>1, AmongType DEF Among, HeldOf
<1>2. ASSUME Unique(f), NEW id PROVE Among(f, HeldOf(id)) <= 1
  <2>1. CASE K(id) = {}
    BY <1>1, <2>1, FS_EmptySet
  <2>2. CASE K(id) # {}
    <3>1. PICK i \in K(id) : TRUE
      BY <2>2
    <3>2. K(id) = {i}
      <4> SUFFICES ASSUME NEW j \in K(id) PROVE j = i
        <5> HIDE DEF K
        <5> QED  BY <3>1
      <4>1. i \in 1..Len(f) /\ j \in 1..Len(f) /\ f[i].msg.id = f[j].msg.id
        <5>1. K(id) = {l \in 1..Len(f) : f[l].msg.id = id}
          BY <1>1
        <5> HIDE DEF K
        <5> QED  BY <3>1, <5>1
      <4> QED  BY <1>2, <4>1 DEF Unique
    <3> HIDE DEF K
    <3>3. Cardinality({i}) = 1
      BY FS_Singleton
    <3>4. Cardinality(K(id)) = 1
      BY <3>2, <3>3
    <3>5. Cardinality(K(id)) = Among(f, HeldOf(id))
      BY <1>1
    <3> QED  BY <3>4, <3>5
  <2> QED  BY <2>1, <2>2
<1>3. ASSUME \A id : Among(f, HeldOf(id)) <= 1, NEW i \in 1..Len(f), NEW j \in 1..Len(f),
             f[i].msg.id = f[j].msg.id, i # j
      PROVE  FALSE
  <2> DEFINE id == f[i].msg.id
  <2>1. i \in K(id) /\ j \in K(id) \ {i}
    BY <1>1, <1>3
  <2>2. IsFiniteSet(K(id)) /\ Cardinality(K(id)) <= 1 /\ Cardinality(K(id)) \in Nat
    BY <1>1, <1>3
  <2> HIDE DEF K, id
  <2>3. IsFiniteSet(K(id) \ {i}) /\ Cardinality(K(id) \ {i}) = Cardinality(K(id)) - 1
    BY <2>1, <2>2, FS_RemoveElement
  <2>4. Cardinality(K(id) \ {i}) # 0 /\ Cardinality(K(id) \ {i}) \in Nat
    BY <2>1, <2>3, FS_EmptySet, FS_CardinalityType
  <2> QED  BY <2>2, <2>3, <2>4
<1> QED  BY <1>2, <1>3 DEF Unique

\* A delivery with this id is there.
LEMMA HeldNumber ==
    ASSUME NEW f \in Seq(Held), NEW id
    PROVE  Among(f, HeldOf(id)) \in Nat
           /\ (Among(f, HeldOf(id)) # 0 <=> \E i \in 1..Len(f) : f[i].msg.id = id)
<1>1. \A i \in 1..Len(f) : f[i] \in Held
  BY ElementOfSeq
<1>2. /\ Among(f, HeldOf(id)) \in Nat
      /\ Among(f, HeldOf(id)) = 0 <=> \A i \in 1..Len(f) : f[i] \notin HeldOf(id)
  BY AmongType
<1>3. \A i \in 1..Len(f) : f[i] \in HeldOf(id) <=> f[i].msg.id = id
  BY <1>1 DEF HeldOf
<1> QED  BY <1>2, <1>3

LEMMA DeliveryType ==
    ASSUME NEW m \in Message, now \in Nat
    PROVE  Delivery(m) \in Held /\ Delivery(m).msg.id = m.id
BY DEF Message, Held, Delivery

LEMMA DeliverOne ==
    ASSUME NEW d \in Seq(Held), NEW m \in Message, now \in Nat
    PROVE  /\ Deliver(d, m) \in Seq(Held)
           /\ \A id : Among(Deliver(d, m), HeldOf(id)) =
                          IF id = m.id /\ Among(d, HeldOf(id)) = 0 THEN 1 ELSE Among(d, HeldOf(id))
           /\ \A k \in 1..Len(Deliver(d, m)) :
                 Deliver(d, m)[k] = Delivery(m) \/ \E i \in 1..Len(d) : Deliver(d, m)[k] = d[i]
<1> DEFINE there == \E i \in DOMAIN d : d[i].msg.id = m.id
<1>1. DOMAIN d = 1..Len(d) /\ Len(d) \in Nat /\ \A i \in 1..Len(d) : d[i] \in Held
  BY LenProperties, ElementOfSeq
<1>2. Delivery(m) \in Held /\ Delivery(m).msg.id = m.id
  BY DeliveryType
<1>3. CASE there
  <2>1. Deliver(d, m) = [i \in 1..Len(d) |-> IF d[i].msg.id = m.id THEN Delivery(m) ELSE d[i]]
    BY <1>1, <1>3 DEF Deliver
  <2>2. Deliver(d, m) \in [1..Len(d) -> Held]
    BY <1>1, <1>2, <2>1
  <2>3. Deliver(d, m) \in Seq(Held) /\ Len(Deliver(d, m)) = Len(d)
    BY <1>1, <2>2, SeqDef, LenProperties
  <2>4. \A i \in 1..Len(d) : Deliver(d, m)[i] \in Held /\ Deliver(d, m)[i].msg.id = d[i].msg.id
    BY <1>1, <1>2, <2>1
  <2>5. ASSUME NEW id PROVE Among(Deliver(d, m), HeldOf(id)) = Among(d, HeldOf(id))
    <3>1. \A i \in 1..Len(d) : Deliver(d, m)[i] \in HeldOf(id) <=> d[i] \in HeldOf(id)
      BY <1>1, <2>4 DEF HeldOf
    <3> QED  BY <2>3, <3>1 DEF Among
  <2>6. Among(d, HeldOf(m.id)) # 0
    BY <1>1, <1>3, HeldNumber
  <2>7. \A k \in 1..Len(d) : Deliver(d, m)[k] = Delivery(m) \/ Deliver(d, m)[k] = d[k]
    BY <2>1
  <2> QED  BY <2>3, <2>5, <2>6, <2>7
<1>4. CASE ~there
  <2>1. Deliver(d, m) = Append(d, Delivery(m))
    BY <1>4 DEF Deliver
  <2>2. Among(d, HeldOf(m.id)) = 0
    BY <1>1, <1>4, HeldNumber
  <2>3. ASSUME NEW id
        PROVE  Among(Deliver(d, m), HeldOf(id)) =
                   IF id = m.id /\ Among(d, HeldOf(id)) = 0 THEN 1 ELSE Among(d, HeldOf(id))
    <3>1. Among(Deliver(d, m), HeldOf(id)) = Among(d, HeldOf(id)) + (IF Delivery(m) \in HeldOf(id) THEN 1 ELSE 0)
      BY <1>2, <2>1, AmongAppend
    <3>2. Delivery(m) \in HeldOf(id) <=> id = m.id
      BY <1>2 DEF HeldOf
    <3>3. Among(d, HeldOf(id)) \in Nat
      BY HeldNumber
    <3> QED  BY <2>2, <3>1, <3>2, <3>3
  <2>4. /\ Deliver(d, m) \in Seq(Held) /\ Len(Deliver(d, m)) = Len(d) + 1
        /\ \A i \in 1..Len(d) : Deliver(d, m)[i] = d[i]
        /\ Deliver(d, m)[Len(d) + 1] = Delivery(m)
    BY <1>1, <1>2, <2>1, AppendProperties
  <2>5. \A k \in 1..Len(d) + 1 : k = Len(d) + 1 \/ k \in 1..Len(d)
    BY <1>1
  <2> QED  BY <2>3, <2>4, <2>5
<1> QED  BY <1>3, <1>4

Chain(d, ms) == CHOOSE g : g = [i \in 0..Len(ms) |-> IF i = 0 THEN d ELSE Deliver(g[i-1], ms[i])]

\* The chain of maps exists: take the shortest for which there is none.
LEMMA ChainExists ==
    ASSUME NEW d, NEW ms \in Seq(Message)
    PROVE  /\ Chain(d, ms)[0] = d /\ DeliverAll(d, ms) = Chain(d, ms)[Len(ms)]
           /\ \A i \in 1..Len(ms) : Chain(d, ms)[i] = Deliver(Chain(d, ms)[i-1], ms[i])
<1> DEFINE Is(g, n) == g = [i \in 0..n |-> IF i = 0 THEN d ELSE Deliver(g[i-1], ms[i])]
           B == {n \in 0..Len(ms) : ~\E g : Is(g, n)}
<1>0. Len(ms) \in Nat
  BY LenProperties
<1>1. B = {}
  <2> SUFFICES ASSUME B # {} PROVE FALSE
    OBVIOUS
  <2>1. PICK n \in B : \A k \in B : n <= k
    <3>1. B \in SUBSET Nat
      BY <1>0
    <3> HIDE DEF B
    <3> QED  BY <3>1, LeastOfSome
  <2>2. n # 0
    <3>1. Is([i \in 0..0 |-> d], 0)
      OBVIOUS
    <3> HIDE DEF Is
    <3> QED  BY <3>1
  <2>3. n - 1 \in 0..Len(ms) /\ n - 1 \notin B /\ n \in Nat
    <3>1. n \in 0..Len(ms)
      OBVIOUS
    <3>2. n \in Nat /\ n - 1 \in 0..Len(ms) /\ ~(n <= n - 1)
      BY <1>0, <2>2, <3>1
    <3> HIDE DEF B
    <3> QED  BY <2>1, <3>2
  <2>4. PICK g : Is(g, n - 1)
    <3> HIDE DEF Is
    <3> QED  BY <2>3
  <2> DEFINE h == [i \in 0..n |-> IF i < n THEN g[i] ELSE Deliver(g[n-1], ms[n])]
  <2>5. g = [i \in 0..n - 1 |-> IF i = 0 THEN d ELSE Deliver(g[i-1], ms[i])]
    BY <2>4
  <2>6. ASSUME NEW i \in 0..n PROVE h[i] = IF i = 0 THEN d ELSE Deliver(h[i-1], ms[i])
    <3>1. CASE i = 0
      <4>1. g[0] = d
        BY <2>2, <2>3, <2>5
      <4> QED  BY <2>2, <2>3, <3>1, <4>1
    <3>2. CASE i # 0 /\ i < n
      <4>1. g[i] = Deliver(g[i-1], ms[i])
        BY <2>3, <2>5, <3>2
      <4>2. h[i] = g[i] /\ h[i-1] = g[i-1]
        BY <2>3, <3>2
      <4> QED  BY <3>2, <4>1, <4>2
    <3>3. CASE i = n
      <4>1. h[n] = Deliver(g[n-1], ms[n]) /\ h[n-1] = g[n-1]
        BY <2>2, <2>3
      <4> QED  BY <2>2, <3>3, <4>1
    <3> QED  BY <2>3, <3>1, <3>2, <3>3
  <2>7. Is(h, n)
    <3>1. h = [i \in 0..n |-> h[i]]
      OBVIOUS
    <3>2. [i \in 0..n |-> h[i]] = [i \in 0..n |-> IF i = 0 THEN d ELSE Deliver(h[i-1], ms[i])]
      <4> HIDE DEF h
      <4> QED  BY <2>6
    <3> HIDE DEF h
    <3> QED  BY <3>1, <3>2
  <2> HIDE DEF Is, h
  <2> QED  BY <2>1, <2>7
<1>2. \E g : Is(g, Len(ms))
  <2>1. Len(ms) \in 0..Len(ms)
    BY <1>0
  <2> HIDE DEF Is
  <2> QED  BY <1>1, <2>1
<1>3. Is(Chain(d, ms), Len(ms))
  BY <1>2 DEF Chain
<1>4. DeliverAll(d, ms) = Chain(d, ms)[Len(ms)]
  BY DEF DeliverAll, Chain
<1> DEFINE c == Chain(d, ms)
<1>5. c = [i \in 0..Len(ms) |-> IF i = 0 THEN d ELSE Deliver(c[i-1], ms[i])]
  BY <1>3
<1> HIDE DEF c
<1>6. c[0] = d /\ \A i \in 1..Len(ms) : c[i] = Deliver(c[i-1], ms[i])
  BY <1>0, <1>5
<1> QED  BY <1>4, <1>6 DEF c

\* All of them: the ids are those that were there and those that came, once each, and an entry
\* is one that was there or made of a message that came.
LEMMA DeliverMany ==
    ASSUME NEW d \in Seq(Held), NEW ms \in Seq(Message), now \in Nat, Unique(d)
    PROVE  /\ DeliverAll(d, ms) \in Seq(Held) /\ Unique(DeliverAll(d, ms))
           /\ \A id : Among(DeliverAll(d, ms), HeldOf(id)) =
                          IF Among(d, HeldOf(id)) = 0 /\ Among(ms, MessageOf(id)) = 0 THEN 0 ELSE 1
           /\ \A k \in 1..Len(DeliverAll(d, ms)) :
                 \/ \E i \in 1..Len(d) : DeliverAll(d, ms)[k] = d[i]
                 \/ \E j \in 1..Len(ms) : DeliverAll(d, ms)[k] = Delivery(ms[j])
<1> DEFINE c == Chain(d, ms)
           Came(n, id) == \E j \in 1..n : ms[j].id = id
           Good(n) == /\ c[n] \in Seq(Held)
                      /\ \A id : Among(c[n], HeldOf(id)) =
                                     IF Among(d, HeldOf(id)) = 0 /\ ~Came(n, id) THEN 0 ELSE 1
                      /\ \A k \in 1..Len(c[n]) : \/ \E i \in 1..Len(d) : c[n][k] = d[i]
                                                 \/ \E j \in 1..n : c[n][k] = Delivery(ms[j])
           B == {n \in 0..Len(ms) : ~Good(n)}
<1>0. Len(ms) \in Nat /\ \A i \in 1..Len(ms) : ms[i] \in Message
  BY LenProperties, ElementOfSeq
<1>1. /\ c[0] = d /\ DeliverAll(d, ms) = c[Len(ms)]
      /\ \A i \in 1..Len(ms) : c[i] = Deliver(c[i-1], ms[i])
  BY ChainExists
<1> HIDE DEF c
<1>2. \A id : Among(d, HeldOf(id)) \in {0, 1}
  <2>1. \A id : Among(d, HeldOf(id)) <= 1 /\ Among(d, HeldOf(id)) \in Nat
    BY UniqueNumber, HeldNumber
  <2> QED  BY <2>1
<1>3. Good(0)
  <2>1. \A id : ~Came(0, id)
    OBVIOUS
  <2>2. ASSUME NEW k \in 1..Len(d) PROVE \E i \in 1..Len(d) : d[k] = d[i]
    OBVIOUS
  <2> HIDE DEF Came
  <2> QED  BY <1>1, <1>2, <2>1, <2>2
<1>4. ASSUME NEW n \in 1..Len(ms), Good(n - 1) PROVE Good(n)
  <2>1. c[n] = Deliver(c[n-1], ms[n]) /\ ms[n] \in Message /\ c[n-1] \in Seq(Held)
    BY <1>0, <1>1, <1>4
  <2>2. /\ c[n] \in Seq(Held)
        /\ \A id : Among(c[n], HeldOf(id)) =
                       IF id = ms[n].id /\ Among(c[n-1], HeldOf(id)) = 0 THEN 1
                       ELSE Among(c[n-1], HeldOf(id))
        /\ \A k \in 1..Len(c[n]) :
              c[n][k] = Delivery(ms[n]) \/ \E i \in 1..Len(c[n-1]) : c[n][k] = c[n-1][i]
    <3>1. PICK u, m : u = c[n-1] /\ m = ms[n]
      OBVIOUS
    <3>2. u \in Seq(Held) /\ m \in Message /\ c[n] = Deliver(u, m)
      BY <2>1, <3>1
    <3>3. /\ Deliver(u, m) \in Seq(Held)
          /\ \A id : Among(Deliver(u, m), HeldOf(id)) =
                         IF id = m.id /\ Among(u, HeldOf(id)) = 0 THEN 1 ELSE Among(u, HeldOf(id))
          /\ \A k \in 1..Len(Deliver(u, m)) :
                Deliver(u, m)[k] = Delivery(m) \/ \E i \in 1..Len(u) : Deliver(u, m)[k] = u[i]
      BY <3>2, DeliverOne
    <3> QED  BY <3>1, <3>2, <3>3
  <2>3. 1..n = (1..n - 1) \cup {n}
    BY <1>0
  <2>4. \A id : Came(n, id) <=> Came(n - 1, id) \/ id = ms[n].id
    BY <2>3
  <2>5. \A id : Among(c[n], HeldOf(id)) =
                    IF Among(d, HeldOf(id)) = 0 /\ ~Came(n, id) THEN 0 ELSE 1
    <3> HIDE DEF Came
    <3> QED  BY <1>4, <2>2, <2>4
  <2>6. ASSUME NEW k \in 1..Len(c[n])
        PROVE  \/ \E i \in 1..Len(d) : c[n][k] = d[i]
               \/ \E j \in 1..n : c[n][k] = Delivery(ms[j])
    <3>1. CASE c[n][k] = Delivery(ms[n])
      BY <2>3, <3>1
    <3>2. ASSUME NEW i \in 1..Len(c[n-1]), c[n][k] = c[n-1][i]
          PROVE  \/ \E l \in 1..Len(d) : c[n][k] = d[l]
                 \/ \E j \in 1..n : c[n][k] = Delivery(ms[j])
      BY <1>4, <2>3, <3>2
    <3> QED  BY <2>2, <3>1, <3>2
  <2> QED  BY <2>2, <2>5, <2>6
<1>5. B = {}
  <2> SUFFICES ASSUME B # {} PROVE FALSE
    OBVIOUS
  <2>1. PICK n \in B : \A k \in B : n <= k
    <3>1. B \in SUBSET Nat
      BY <1>0
    <3> HIDE DEF B
    <3> QED  BY <3>1, LeastOfSome
  <2>2. n \in 0..Len(ms) /\ ~Good(n)
    OBVIOUS
  <2> HIDE DEF Good
  <2>3. n # 0
    BY <1>3, <2>2
  <2>4. n \in 1..Len(ms) /\ n - 1 \in 0..Len(ms) /\ ~(n <= n - 1)
    BY <1>0, <2>2, <2>3
  <2>5. Good(n - 1)
    BY <2>1, <2>4
  <2> QED  BY <1>4, <2>2, <2>4, <2>5
<1>6. Good(Len(ms))
  <2>1. Len(ms) \in 0..Len(ms)
    BY <1>0
  <2> HIDE DEF Good
  <2> QED  BY <1>5, <2>1
<1>7. \A id : Among(ms, MessageOf(id)) = 0 <=> ~Came(Len(ms), id)
  <2> SUFFICES ASSUME NEW id PROVE Among(ms, MessageOf(id)) = 0 <=> ~Came(Len(ms), id)
    OBVIOUS
  <2>1. Among(ms, MessageOf(id)) = 0 <=> \A i \in 1..Len(ms) : ms[i] \notin MessageOf(id)
    BY AmongType
  <2>2. \A i \in 1..Len(ms) : ms[i] \in MessageOf(id) <=> ms[i].id = id
    BY <1>0 DEF MessageOf
  <2> QED  BY <2>1, <2>2
<1>8. Unique(DeliverAll(d, ms))
  <2>1. \A id : Among(c[Len(ms)], HeldOf(id)) <= 1
    <3> HIDE DEF Came
    <3> QED  BY <1>6
  <2> QED  BY <1>1, <1>6, <2>1, UniqueNumber
<1> HIDE DEF Came
<1> QED  BY <1>1, <1>6, <1>7, <1>8

-----------------------------------------------------------------------------
(* The in-memory queue: buckets and timeouts. *)

LEMMA CeilProperties ==
    ASSUME NEW t \in Nat
    PROVE  /\ CeilSecond(t) \in Nat
           /\ CeilSecond(t) * Second >= t /\ CeilSecond(t) * Second < t + Second
<1>1. Second \in Nat /\ Second > 0
  BY QueueAssumption DEF QueueAssumption
<1>2. \A a \in Nat, d \in Nat : d > 0 => /\ a \div d \in Nat /\ (a \div d) * d <= a
                                         /\ a < (a \div d) * d + d
  OBVIOUS
<1>3. t + Second - 1 \in Nat
  BY <1>1
<1>4. PICK a \in Nat, k \in Int : a = t + Second - 1 /\ k = a \div Second
  BY <1>1, <1>3
<1>5. k \in Nat /\ k * Second <= a /\ a < k * Second + Second
  BY <1>1, <1>2, <1>4
<1>6. CeilSecond(t) = k
  BY <1>4 DEF CeilSecond
<1>7. PICK x \in Nat : x = k * Second
  BY <1>1, <1>5
<1> QED  BY <1>1, <1>4, <1>5, <1>6, <1>7

LEMMA Scaled ==
    ASSUME NEW a \in Nat, NEW b \in Nat, a <= b
    PROVE  a * Second \in Nat /\ b * Second \in Nat /\ a * Second <= b * Second
           /\ Second * a = a * Second
<1>1. Second \in Nat
  BY QueueAssumption DEF QueueAssumption
<1>2. \A s \in Nat : a * s \in Nat /\ b * s \in Nat /\ a * s <= b * s /\ s * a = a * s
  OBVIOUS
<1> QED  BY <1>1, <1>2

Items(s) == {s[i] : i \in 1..Len(s)}

LEMMA ItemsNumber ==
    ASSUME NEW S, NEW s \in Seq(S), NEW x
    PROVE  /\ x \in Items(s) <=> Among(s, {x}) # 0
           /\ Among(s, {x}) \in Nat
BY AmongType DEF Items

LEMMA InsertCuts ==
    ASSUME NEW s, NEW i, NEW e
    PROVE  InsertAt(s, i, e) = SubSeq(s, 1, i - 1) \o <<e>> \o SubSeq(s, i, Len(s))
BY Zenon DEF InsertAt

LEMMA IntoBucketProperties ==
    ASSUME NEW s \in Seq(Entry), NEW e \in Entry
    PROVE  /\ IntoBucket(s, e) \in Seq(Entry)
           /\ \A T : Among(IntoBucket(s, e), T) = Among(s, T) + (IF e \in T THEN 1 ELSE 0)
           /\ Items(IntoBucket(s, e)) = Items(s) \cup {e}
<1> DEFINE same == {i \in DOMAIN s : s[i].bucket = e.bucket}
<1>1. DOMAIN s = 1..Len(s) /\ Len(s) \in Nat
  BY LenProperties
<1>2. /\ IntoBucket(s, e) \in Seq(Entry)
      /\ \A T : Among(IntoBucket(s, e), T) = Among(s, T) + (IF e \in T THEN 1 ELSE 0)
  <2>1. CASE same = {}
    <3>1. IntoBucket(s, e) = Append(s, e)
      BY <2>1 DEF IntoBucket
    <3> QED  BY <3>1, AmongAppend
  <2>2. CASE same # {}
    <3> DEFINE k == Max(same)
               u == SubSeq(s, 1, k)
               v == SubSeq(s, k + 1, Len(s))
    <3>1. k \in 1..Len(s)
      <4>1. same \in SUBSET (1..Len(s))
        BY <1>1
      <4> HIDE DEF same
      <4> QED  BY <1>1, <2>2, <4>1, MaxOfSome
    <3>2. IntoBucket(s, e) = u \o <<e>> \o v
      <4>1. IntoBucket(s, e) = InsertAt(s, k + 1, e)
        BY <2>2 DEF IntoBucket
      <4> HIDE DEF k
      <4>2. PICK l : l = k + 1 /\ l - 1 = k
        <5>1. k + 1 = k + 1 /\ (k + 1) - 1 = k
          BY <1>1, <3>1
        <5> QED  BY <5>1
      <4>3. InsertAt(s, l, e) = SubSeq(s, 1, l - 1) \o <<e>> \o SubSeq(s, l, Len(s))
        BY InsertCuts
      <4>4. SubSeq(s, 1, l - 1) = u /\ SubSeq(s, l, Len(s)) = v
        BY <4>2
      <4>5. IntoBucket(s, e) = InsertAt(s, l, e)
        BY <4>1, <4>2
      <4> HIDE DEF u, v
      <4> QED  BY <4>3, <4>4, <4>5
    <3> HIDE DEF k
    <3>3. /\ u \in Seq(Entry) /\ v \in Seq(Entry)
          /\ \A T : Among(s, T) = Among(u, T) + Among(v, T)
      <4>1. k \in 0..Len(s)
        BY <1>1, <3>1
      <4> QED  BY <4>1, AmongCut
    <3> HIDE DEF u, v
    <3>4. PICK w : w = <<e>>
      OBVIOUS
    <3>5. w \in Seq(Entry) /\ \A T : Among(w, T) = IF e \in T THEN 1 ELSE 0
      BY <3>4, AmongOne
    <3>6. u \o w \in Seq(Entry) /\ \A T : Among(u \o w, T) = Among(u, T) + Among(w, T)
      BY <3>3, <3>5, AmongConcat
    <3>7. PICK x : x = u \o w
      OBVIOUS
    <3>8. x \o v \in Seq(Entry) /\ \A T : Among(x \o v, T) = Among(x, T) + Among(v, T)
      <4>1. x \in Seq(Entry) /\ v \in Seq(Entry)
        BY <3>3, <3>6, <3>7
      <4> QED  BY <4>1, AmongConcat
    <3>9. IntoBucket(s, e) = x \o v
      BY <3>2, <3>4, <3>7
    <3>10. ASSUME NEW T
           PROVE  Among(IntoBucket(s, e), T) = Among(s, T) + (IF e \in T THEN 1 ELSE 0)
      <4>1. /\ Among(IntoBucket(s, e), T) = Among(u, T) + Among(w, T) + Among(v, T)
            /\ Among(s, T) = Among(u, T) + Among(v, T)
        BY <3>3, <3>6, <3>7, <3>8, <3>9
      <4>2. Among(u, T) \in Nat /\ Among(v, T) \in Nat /\ Among(w, T) = IF e \in T THEN 1 ELSE 0
        BY <3>3, <3>5, AmongType
      <4> QED  BY <4>1, <4>2
    <3> QED  BY <3>8, <3>9, <3>10
  <2> QED  BY <2>1, <2>2
<1>3. ASSUME NEW x PROVE x \in Items(IntoBucket(s, e)) <=> x \in Items(s) \/ x = e
  <2>1. Among(IntoBucket(s, e), {x}) = Among(s, {x}) + (IF e = x THEN 1 ELSE 0)
    BY <1>2
  <2>2. /\ x \in Items(IntoBucket(s, e)) <=> Among(IntoBucket(s, e), {x}) # 0
        /\ x \in Items(s) <=> Among(s, {x}) # 0
        /\ Among(s, {x}) \in Nat
    BY <1>2, ItemsNumber
  <2> QED  BY <2>1, <2>2
<1> QED  BY <1>2, <1>3

\* The bucket of an entry is the one of its time.
InBucket(s) == \A e \in Items(s) : e.bucket = CeilSecond(e.due)

LEMMA DelayProperties ==
    ASSUME NEW s \in Seq(Entry), NEW m \in Message, NEW ms \in Nat, now \in Nat
    PROVE  /\ Delay(s, m, ms) \in Seq(Entry)
           /\ \A id : Among(Delay(s, m, ms), EntryOf(id)) =
                          Among(s, EntryOf(id)) + (IF m.id = id THEN 1 ELSE 0)
           /\ Items(s) \subseteq Items(Delay(s, m, ms)) /\ Delay(s, m, ms) # <<>>
           /\ InBucket(s) => InBucket(Delay(s, m, ms))
<1> DEFINE e == [bucket |-> CeilSecond(now + ms), due |-> now + ms, msg |-> m]
<1>1. e \in Entry
  <2>1. now + ms \in Nat
    OBVIOUS
  <2> QED  BY <2>1, CeilProperties DEF Entry
<1>2. Delay(s, m, ms) = IntoBucket(s, e)
  BY DEF Delay
<1>3. \A id : e \in EntryOf(id) <=> m.id = id
  BY <1>1 DEF EntryOf
<1>4. e.bucket = CeilSecond(e.due)
  OBVIOUS
<1> HIDE DEF e
<1>5. /\ IntoBucket(s, e) \in Seq(Entry)
      /\ \A T : Among(IntoBucket(s, e), T) = Among(s, T) + (IF e \in T THEN 1 ELSE 0)
      /\ Items(IntoBucket(s, e)) = Items(s) \cup {e}
  BY <1>1, IntoBucketProperties
<1>6. IntoBucket(s, e) # <<>>
  <2>1. e \in Items(IntoBucket(s, e))
    BY <1>5
  <2>2. Items(<<>>) = {}
    BY DEF Items
  <2> QED  BY <2>1, <2>2
<1>7. ASSUME NEW id
      PROVE  Among(IntoBucket(s, e), EntryOf(id)) =
                 Among(s, EntryOf(id)) + (IF m.id = id THEN 1 ELSE 0)
  BY <1>3, <1>5
<1>8. InBucket(s) => InBucket(IntoBucket(s, e))
  BY <1>4, <1>5 DEF InBucket
<1> QED  BY <1>2, <1>5, <1>6, <1>7, <1>8

LEMMA MaxOfTwo ==
    ASSUME NEW a \in Int, NEW b \in Int
    PROVE  Max({a, b}) = IF a >= b THEN a ELSE b
<1>1. \E x \in {a, b} : \A y \in {a, b} : x >= y
  OBVIOUS
<1>2. Max({a, b}) \in {a, b} /\ \A y \in {a, b} : Max({a, b}) >= y
  BY <1>1 DEF Max
<1> QED  BY <1>2

\* The timeout comes when the first bucket is due.
LEMMA TimerProperties ==
    ASSUME NEW q, NEW s \in Seq(Entry), s # <<>>, now \in Nat
    PROVE  /\ TimerFor(q, s).queue = q /\ TimerFor(q, s).at \in Nat
           /\ TimerFor(q, s) = [queue |-> q, at |-> TimerFor(q, s).at]
           /\ \A e \in Items(s) : TimerFor(q, s).at <= Max({now, e.bucket * Second})
<1> DEFINE S == {s[i].bucket : i \in DOMAIN s}
<1>1. DOMAIN s = 1..Len(s) /\ Len(s) \in Nat /\ Len(s) # 0 /\ \A i \in 1..Len(s) : s[i] \in Entry
  BY LenProperties, ElementOfSeq, EmptySeq
<1>2. S \in SUBSET Nat /\ S # {}
  <2>1. 1 \in DOMAIN s
    BY <1>1
  <2> QED  BY <1>1, <2>1 DEF Entry
<1>3. \A e \in Items(s) : e.bucket \in S
  BY <1>1 DEF Items
<1> DEFINE least == Min(S)
<1>4. least \in Nat /\ \A j \in S : least <= j
  <2> HIDE DEF S
  <2> QED  BY <1>2, MinOfSome
<1>5. TimerFor(q, s) = [queue |-> q, at |-> IF Second * least > now THEN Second * least ELSE now]
  BY DEF TimerFor
<1> HIDE DEF least, S
<1>6. least * Second \in Nat /\ Second * least = least * Second
  BY <1>4, Scaled
<1>7. ASSUME NEW e \in Items(s) PROVE TimerFor(q, s).at <= Max({now, e.bucket * Second})
  <2>1. e.bucket \in Nat /\ least <= e.bucket
    BY <1>2, <1>3, <1>4
  <2>2. least * Second <= e.bucket * Second /\ e.bucket * Second \in Nat
    BY <1>4, <2>1, Scaled
  <2>3. Max({now, e.bucket * Second}) = IF now >= e.bucket * Second THEN now ELSE e.bucket * Second
    BY <2>2, MaxOfTwo
  <2> QED  BY <1>5, <1>6, <2>2, <2>3
<1> QED  BY <1>5, <1>6, <1>7

\* The entries after each message of a batch.
IsBatch(c, q, n, ms) ==
    /\ c[0] = delayed[q]
    /\ \A i \in 1..n : c[i] = Delay(c[i-1], NewMessage(generated + i), ms)

\* They exist by the same argument.
LEMMA BatchExists ==
    ASSUME NEW q, NEW n \in Nat, NEW ms
    PROVE  IsBatch(DelayBatch(q, n, ms), q, n, ms)
<1> DEFINE Is(g, k) == g = [i \in 0..k |-> IF i = 0 THEN delayed[q]
                                           ELSE Delay(g[i-1], NewMessage(generated + i), ms)]
           B == {k \in 0..n : ~\E g : Is(g, k)}
<1>1. B = {}
  <2> SUFFICES ASSUME B # {} PROVE FALSE
    OBVIOUS
  <2>1. PICK k \in B : \A l \in B : k <= l
    <3>1. B \in SUBSET Nat
      OBVIOUS
    <3> HIDE DEF B
    <3> QED  BY <3>1, LeastOfSome
  <2>2. k # 0
    <3>1. Is([i \in 0..0 |-> delayed[q]], 0)
      OBVIOUS
    <3> HIDE DEF Is
    <3> QED  BY <3>1
  <2>3. k - 1 \in 0..n /\ k - 1 \notin B /\ k \in Nat
    <3>1. k \in 0..n
      OBVIOUS
    <3>2. k \in Nat /\ k - 1 \in 0..n /\ ~(k <= k - 1)
      BY <2>2, <3>1
    <3> HIDE DEF B
    <3> QED  BY <2>1, <3>2
  <2>4. PICK g : Is(g, k - 1)
    <3> HIDE DEF Is
    <3> QED  BY <2>3
  <2> DEFINE h == [i \in 0..k |-> IF i < k THEN g[i]
                                  ELSE Delay(g[k-1], NewMessage(generated + k), ms)]
  <2>5. g = [i \in 0..k - 1 |-> IF i = 0 THEN delayed[q]
                                ELSE Delay(g[i-1], NewMessage(generated + i), ms)]
    BY <2>4
  <2>6. ASSUME NEW i \in 0..k
        PROVE  h[i] = IF i = 0 THEN delayed[q] ELSE Delay(h[i-1], NewMessage(generated + i), ms)
    <3>1. CASE i = 0
      <4>1. g[0] = delayed[q]
        BY <2>2, <2>3, <2>5
      <4> QED  BY <2>2, <2>3, <3>1, <4>1
    <3>2. CASE i # 0 /\ i < k
      <4>1. g[i] = Delay(g[i-1], NewMessage(generated + i), ms)
        BY <2>3, <2>5, <3>2
      <4>2. h[i] = g[i] /\ h[i-1] = g[i-1]
        BY <2>3, <3>2
      <4> QED  BY <3>2, <4>1, <4>2
    <3>3. CASE i = k
      <4>1. h[k] = Delay(g[k-1], NewMessage(generated + k), ms) /\ h[k-1] = g[k-1]
        BY <2>2, <2>3
      <4> QED  BY <2>2, <3>3, <4>1
    <3> QED  BY <2>3, <3>1, <3>2, <3>3
  <2>7. Is(h, k)
    <3>1. h = [i \in 0..k |-> h[i]]
      OBVIOUS
    <3>2. [i \in 0..k |-> h[i]] = [i \in 0..k |-> IF i = 0 THEN delayed[q]
                                                 ELSE Delay(h[i-1], NewMessage(generated + i), ms)]
      <4> HIDE DEF h
      <4> QED  BY <2>6
    <3> HIDE DEF h
    <3> QED  BY <3>1, <3>2
  <2> HIDE DEF Is, h
  <2> QED  BY <2>1, <2>7
<1>2. \E g : Is(g, n)
  <2> HIDE DEF Is
  <2> QED  BY <1>1
<1> DEFINE c == DelayBatch(q, n, ms)
<1>3. c = CHOOSE g : Is(g, n)
  BY DEF DelayBatch
<1>4. Is(c, n)
  <2> HIDE DEF Is, c
  <2> QED  BY <1>2, <1>3
<1>5. c = [i \in 0..n |-> IF i = 0 THEN delayed[q]
                          ELSE Delay(c[i-1], NewMessage(generated + i), ms)]
  BY <1>4
<1> HIDE DEF c
<1>6. c[0] = delayed[q] /\ \A i \in 1..n : c[i] = Delay(c[i-1], NewMessage(generated + i), ms)
  BY <1>5
<1>7. IsBatch(c, q, n, ms)
  BY <1>6 DEF IsBatch
<1> QED  BY <1>7 DEF c

LEMMA NewMessageType ==
    ASSUME generated \in Nat, NEW i \in Nat \ {0}, generated + i <= MaxIds
    PROVE  NewMessage(generated + i) \in Message /\ NewMessage(generated + i).id = generated + i
<1>1. generated + i \in Ids
  BY QueueAssumption DEF Ids, QueueAssumption
<1>2. 1 \in 1..MaxAttempts /\ 0 \in Nat
  BY QueueAssumption DEF QueueAssumption
<1> QED  BY <1>1, <1>2 DEF NewMessage, Message

\* One message more of each id of the batch, and nothing else changes.
LEMMA BatchProperties ==
    ASSUME now \in Nat, generated \in Nat, NEW q, delayed[q] \in Seq(Entry), NEW n \in Nat,
           generated + n <= MaxIds, NEW ms \in Nat, NEW k \in 0..n
    PROVE  /\ DelayBatch(q, n, ms)[k] \in Seq(Entry)
           /\ \A id : Among(DelayBatch(q, n, ms)[k], EntryOf(id)) =
                          Among(delayed[q], EntryOf(id))
                             + (IF id \in generated + 1..generated + k THEN 1 ELSE 0)
           /\ Items(delayed[q]) \subseteq Items(DelayBatch(q, n, ms)[k])
           /\ k # 0 => DelayBatch(q, n, ms)[k] # <<>>
           /\ InBucket(delayed[q]) => InBucket(DelayBatch(q, n, ms)[k])
<1>0. PICK c : c = DelayBatch(q, n, ms) /\ IsBatch(c, q, n, ms)
  <2>1. IsBatch(DelayBatch(q, n, ms), q, n, ms)
    BY BatchExists
  <2> QED  BY <2>1
<1>1. c = DelayBatch(q, n, ms) /\ c[0] = delayed[q]
      /\ \A i \in 1..n : c[i] = Delay(c[i-1], NewMessage(generated + i), ms)
  BY <1>0 DEF IsBatch
<1> DEFINE From(l) == generated + 1..generated + l
           Good(l) == /\ c[l] \in Seq(Entry)
                      /\ \A id : Among(c[l], EntryOf(id)) =
                                     Among(delayed[q], EntryOf(id)) + (IF id \in From(l) THEN 1 ELSE 0)
                      /\ Items(delayed[q]) \subseteq Items(c[l])
                      /\ l # 0 => c[l] # <<>>
                      /\ InBucket(delayed[q]) => InBucket(c[l])
           B == {l \in 0..n : ~Good(l)}
<1>2. Good(0)
  <2>1. \A id : id \notin From(0)
    OBVIOUS
  <2>2. \A id : Among(delayed[q], EntryOf(id)) \in Nat
    BY AmongType
  <2> HIDE DEF From
  <2> QED  BY <1>1, <2>1, <2>2
<1>3. ASSUME NEW l \in 1..n, Good(l - 1) PROVE Good(l)
  <2>1. c[l] = Delay(c[l-1], NewMessage(generated + l), ms) /\ c[l-1] \in Seq(Entry)
    BY <1>1, <1>3
  <2>2. NewMessage(generated + l) \in Message /\ NewMessage(generated + l).id = generated + l
    <3>1. l \in Nat \ {0} /\ generated + l <= MaxIds
      BY QueueAssumption DEF QueueAssumption
    <3> QED  BY <3>1, NewMessageType
  <2>3. PICK s, m : s = c[l-1] /\ m = NewMessage(generated + l)
    OBVIOUS
  <2>4. s \in Seq(Entry) /\ m \in Message /\ m.id = generated + l /\ c[l] = Delay(s, m, ms)
    BY <2>1, <2>2, <2>3
  <2>5. /\ Delay(s, m, ms) \in Seq(Entry)
        /\ \A id : Among(Delay(s, m, ms), EntryOf(id)) =
                       Among(s, EntryOf(id)) + (IF m.id = id THEN 1 ELSE 0)
        /\ Items(s) \subseteq Items(Delay(s, m, ms)) /\ Delay(s, m, ms) # <<>>
        /\ InBucket(s) => InBucket(Delay(s, m, ms))
    BY <2>4, DelayProperties
  <2>6. \A id : /\ id \in From(l) <=> id \in From(l - 1) \/ id = generated + l
                /\ ~(id \in From(l - 1) /\ id = generated + l)
    OBVIOUS
  <2>7. ASSUME NEW id
        PROVE  Among(c[l], EntryOf(id)) =
                   Among(delayed[q], EntryOf(id)) + (IF id \in From(l) THEN 1 ELSE 0)
    <3>1. Among(c[l], EntryOf(id)) = Among(s, EntryOf(id)) + (IF generated + l = id THEN 1 ELSE 0)
      BY <2>4, <2>5
    <3>2. Among(s, EntryOf(id))
              = Among(delayed[q], EntryOf(id)) + (IF id \in From(l - 1) THEN 1 ELSE 0)
      BY <1>3, <2>3
    <3>3. Among(delayed[q], EntryOf(id)) \in Nat
      BY AmongType
    <3>4. /\ id \in From(l) <=> id \in From(l - 1) \/ id = generated + l
          /\ ~(id \in From(l - 1) /\ id = generated + l)
      BY <2>6
    <3> HIDE DEF From
    <3> QED  BY <3>1, <3>2, <3>3, <3>4
  <2>8. Items(delayed[q]) \subseteq Items(s) /\ (InBucket(delayed[q]) => InBucket(s))
    BY <1>3, <2>3
  <2> HIDE DEF From
  <2> QED  BY <2>4, <2>5, <2>7, <2>8
<1>4. B = {}
  <2> SUFFICES ASSUME B # {} PROVE FALSE
    OBVIOUS
  <2>1. PICK l \in B : \A j \in B : l <= j
    <3>1. B \in SUBSET Nat
      OBVIOUS
    <3> HIDE DEF B
    <3> QED  BY <3>1, LeastOfSome
  <2>2. l \in 0..n /\ ~Good(l)
    OBVIOUS
  <2> HIDE DEF Good
  <2>3. l # 0
    BY <1>2, <2>2
  <2>4. l \in 1..n /\ l - 1 \in 0..n /\ ~(l <= l - 1)
    BY <2>2, <2>3
  <2>5. Good(l - 1)
    BY <2>1, <2>4
  <2> QED  BY <1>3, <2>2, <2>4, <2>5
<1>5. Good(k)
  <2> HIDE DEF Good
  <2> QED  BY <1>4
<1> QED  BY <1>1, <1>5

-----------------------------------------------------------------------------
(* The in-memory queue: what holds in every state. *)

\* How many copies of a message there may be.
Limit(id) == (IF id \in accepted \ settled THEN 1 ELSE 0) + late[id]

Account(id) == /\ IsFiniteSet(Places(id)) /\ Copies(id) <= Limit(id)
               /\ id \notin accepted => late[id] = 0
               /\ id \in accepted \ settled /\ ~ended => Copies(id) >= 1

\* What is settled was accepted: only a copy can be acknowledged.
MemoryTypes == TypeOK /\ settled \subseteq accepted
CopiesInv   == \A id \in Ids : Account(id)
ScheduleInv == DelayedIsScheduled /\ \A q \in Queues : InBucket(delayed[q])
MemoryInv   == MemoryTypes /\ CopiesInv /\ ScheduleInv

LEMMA QueueTypes ==
    ASSUME TypeOK, NEW q \in Queues
    PROVE  /\ messages[q] \in Seq(Message) /\ delayed[q] \in Seq(Entry)
           /\ inflight[q] \in Seq(Held) /\ Unique(inflight[q])
           /\ DOMAIN messages[q] = 1..Len(messages[q]) /\ DOMAIN delayed[q] = 1..Len(delayed[q])
           /\ DOMAIN inflight[q] = 1..Len(inflight[q])
<1>1. /\ messages[q] \in Seq(Message) /\ delayed[q] \in Seq(Entry) /\ inflight[q] \in Seq(Held)
  BY DEF TypeOK, Entry, Held
<1>2. /\ DOMAIN messages[q] = 1..Len(messages[q]) /\ DOMAIN delayed[q] = 1..Len(delayed[q])
      /\ DOMAIN inflight[q] = 1..Len(inflight[q])
  BY <1>1, LenProperties
<1>3. Unique(inflight[q])
  BY <1>2 DEF TypeOK, Unique
<1> QED  BY <1>1, <1>2, <1>3

\* A step that changes one queue.
LEMMA OneChanges ==
    ASSUME TypeOK, NEW q \in Queues, NEW m \in Seq(Message), NEW d \in Seq(Entry),
           NEW f \in Seq(Held), Unique(f),
           messages' = [messages EXCEPT ![q] = m], delayed' = [delayed EXCEPT ![q] = d],
           inflight' = [inflight EXCEPT ![q] = f],
           timers' \subseteq [queue : Queues, at : Nat], now' \in Nat, ended' \in BOOLEAN,
           generated' \in 0..MaxIds, accepted' \subseteq 1..generated',
           settled' \subseteq Ids, late' \in [Ids -> Nat]
    PROVE  /\ TypeOK' /\ \A id : HereAt(q, id)' = Here(m, d, f, id)
           /\ messages'[q] = m /\ delayed'[q] = d /\ inflight'[q] = f
           /\ \A r \in Queues \ {q} : /\ messages'[r] = messages[r] /\ delayed'[r] = delayed[r]
                                      /\ inflight'[r] = inflight[r]
                                      /\ \A id : PlacesAt(r, id)' = PlacesAt(r, id)
<1>1. messages'[q] = m /\ delayed'[q] = d /\ inflight'[q] = f
  BY DEF TypeOK
<1>2. \A r \in Queues \ {q} : /\ messages'[r] = messages[r] /\ delayed'[r] = delayed[r]
                              /\ inflight'[r] = inflight[r]
  BY DEF TypeOK
<1>3. \A r \in Queues \ {q} : \A id : PlacesAt(r, id)' = PlacesAt(r, id)
  BY <1>2 DEF PlacesAt, Msgs
<1>4. \A id : HereAt(q, id)' = Here(m, d, f, id)
  BY <1>1 DEF HereAt, Here, MessageOf, EntryOf, HeldOf, Message, Entry, Held, Among
<1>5. /\ messages' \in [Queues -> Seq(Message)] /\ delayed' \in [Queues -> Seq(Entry)]
      /\ inflight' \in [Queues -> Seq(Held)]
  BY DEF TypeOK, Entry, Held
<1>6. ASSUME NEW r \in Queues, NEW i \in DOMAIN inflight'[r], NEW j \in DOMAIN inflight'[r],
             inflight'[r][i].msg.id = inflight'[r][j].msg.id
      PROVE  i = j
  <2>1. CASE r = q
    <3>1. DOMAIN f = 1..Len(f)
      BY LenProperties
    <3> QED  BY <1>1, <1>6, <2>1, <3>1 DEF Unique
  <2>2. CASE r # q
    BY <1>2, <1>6, <2>2 DEF TypeOK
  <2> QED  BY <2>1, <2>2
<1>7. TypeOK'
  BY <1>5, <1>6 DEF TypeOK, Entry, Held, Message
<1> QED  BY <1>1, <1>2, <1>3, <1>4, <1>7

\* The account of a message whose places change in one queue.
LEMMA AccountMoves ==
    ASSUME TypeOK, TypeOK', NEW q \in Queues, NEW id \in Ids, Account(id),
           \A r \in Queues \ {q} : PlacesAt(r, id)' = PlacesAt(r, id),
           HereAt(q, id)' + Limit(id) <= HereAt(q, id) + Limit(id)',
           id \notin accepted' => late'[id] = 0,
           id \in accepted' \ settled' /\ ~ended' =>
               \/ HereAt(q, id)' >= 1
               \/ HereAt(q, id)' >= HereAt(q, id) /\ id \in accepted \ settled /\ ~ended
    PROVE  Account(id)'
<1>1. /\ IsFiniteSet(Places(id)') /\ Copies(id) \in Nat /\ Copies(id)' \in Nat
      /\ HereAt(q, id) \in Nat /\ HereAt(q, id)' \in Nat /\ HereAt(q, id) <= Copies(id)
      /\ Copies(id)' = Copies(id) - HereAt(q, id) + HereAt(q, id)'
  BY CopiesMove DEF Account
<1>2. Limit(id) \in Nat /\ Limit(id)' \in Nat
  BY DEF Limit, TypeOK
<1>3. Copies(id)' <= Limit(id)'
  <2>1. Copies(id) <= Limit(id)
    BY DEF Account
  <2> HIDE DEF Limit
  <2> QED  BY <1>1, <1>2, <2>1
<1>4. id \in accepted' \ settled' /\ ~ended' => Copies(id)' >= 1
  BY <1>1 DEF Account
<1> QED  BY <1>1, <1>3, <1>4 DEF Account

\* Nothing is known of an id that was not given out.
LEMMA FreshAccount ==
    ASSUME MemoryTypes, CopiesInv, NEW id \in Ids, id > generated
    PROVE  id \notin accepted /\ id \notin settled /\ late[id] = 0 /\ Places(id) = {}
<1>1. id \notin accepted /\ id \notin settled
  BY DEF MemoryTypes, TypeOK, Ids
<1>2. Account(id)
  BY DEF CopiesInv
<1>3. late[id] = 0 /\ Limit(id) = 0
  BY <1>1, <1>2 DEF Account, Limit
<1>4. Copies(id) \in Nat /\ Copies(id) <= 0 /\ IsFiniteSet(Places(id))
  BY <1>2, <1>3, FS_CardinalityType DEF Account, Copies
<1>5. Places(id) = {}
  BY <1>4, FS_EmptySet DEF Copies
<1> QED  BY <1>1, <1>3, <1>5

\* A copy in a queue is one of an accepted message.
LEMMA CopyIsKnown ==
    ASSUME MemoryTypes, CopiesInv, NEW q \in Queues, NEW id \in Ids, HereAt(q, id) # 0
    PROVE  id \in accepted /\ HereAt(q, id) <= Limit(id)
<1>1. Account(id)
  BY DEF CopiesInv
<1>2. HereAt(q, id) \in Nat /\ HereAt(q, id) <= Copies(id) /\ Copies(id) \in Nat
  <2>1. /\ messages[q] \in Seq(Message) /\ delayed[q] \in Seq(Entry) /\ inflight[q] \in Seq(Held)
    BY QueueTypes DEF MemoryTypes
  <2>2. PlacesAt(q, id) = InQueue(q, messages[q], delayed[q], inflight[q], id)
    BY DEF PlacesAt, InQueue
  <2>3. HereAt(q, id) \in Nat /\ Cardinality(PlacesAt(q, id)) = HereAt(q, id)
    BY <2>1, <2>2, InQueueNumber DEF HereAt
  <2>4. PlacesAt(q, id) \subseteq Places(id)
    BY DEF Places
  <2> QED  BY <1>1, <2>3, <2>4, FS_Subset, FS_CardinalityType DEF Account, Copies
<1>3. Limit(id) \in Nat
  BY DEF Limit, MemoryTypes, TypeOK
<1>4. HereAt(q, id) <= Limit(id)
  <2> HIDE DEF Limit
  <2> QED  BY <1>1, <1>2, <1>3 DEF Account
<1>5. id \in accepted
  <2> SUFFICES ASSUME id \notin accepted PROVE FALSE
    OBVIOUS
  <2>1. Limit(id) = 0
    BY <1>1 DEF Account, Limit
  <2> QED  BY <1>2, <1>4, <2>1
<1> QED  BY <1>4, <1>5

-----------------------------------------------------------------------------
(* The in-memory queue: its steps. *)

\* A timeout of queue q will come for each of the entries s.
Covered(q, s, ts, time) ==
    \A e \in Items(s) : \E t \in ts : t.queue = q /\ t.at <= Max({time, e.bucket * Second})

LEMMA ScheduledItems ==
    ASSUME NEW s \in Seq(Entry), NEW q, NEW ts, NEW time
    PROVE  Covered(q, s, ts, time) <=>
               \A i \in DOMAIN s : \E t \in ts : t.queue = q /\ t.at <= Max({time, s[i].bucket * Second})
<1>1. DOMAIN s = 1..Len(s)
  BY LenProperties
<1> QED  BY <1>1 DEF Covered, Items

LEMMA WasCovered ==
    ASSUME TypeOK, ScheduleInv, NEW q \in Queues
    PROVE  Covered(q, delayed[q], timers, now)
<1>1. delayed[q] \in Seq(Entry)
  BY QueueTypes
<1>2. \A i \in DOMAIN delayed[q] :
         \E t \in timers : t.queue = q /\ t.at <= Max({now, delayed[q][i].bucket * Second})
  BY DEF ScheduleInv, DelayedIsScheduled
<1> QED  BY <1>1, <1>2, ScheduledItems

\* The timeouts, when the delayed messages of one queue change.
LEMMA ScheduleMoves ==
    ASSUME TypeOK, TypeOK', ScheduleInv, NEW q \in Queues, now' = now,
           \A r \in Queues \ {q} : delayed'[r] = delayed[r],
           \A t \in timers : t.queue # q => t \in timers',
           Covered(q, delayed'[q], timers', now), InBucket(delayed'[q])
    PROVE  ScheduleInv'
<1>1. \A r \in Queues : delayed[r] \in Seq(Entry) /\ delayed'[r] \in Seq(Entry)
  BY DEF TypeOK, Entry, Message
<1>2. ASSUME NEW r \in Queues, NEW i \in DOMAIN delayed'[r]
      PROVE  \E t \in timers' : t.queue = r /\ t.at <= Max({now', delayed'[r][i].bucket * Second})
  <2>1. CASE r = q
    BY <1>1, <1>2, <2>1, ScheduledItems
  <2>2. CASE r # q
    BY <1>2, <2>2 DEF ScheduleInv, DelayedIsScheduled
  <2> QED  BY <2>1, <2>2
<1>3. DelayedIsScheduled'
  BY <1>2 DEF DelayedIsScheduled
<1>4. \A r \in Queues : InBucket(delayed'[r])
  BY DEF ScheduleInv
<1>5. \A r \in Queues : InBucket(delayed[r])'
  BY <1>4 DEF InBucket, Items, CeilSecond
<1> QED  BY <1>3, <1>5 DEF ScheduleInv

\* The messages of a batch: one of each id.
LEMMA FreshNumber ==
    ASSUME generated \in Nat, NEW k \in Nat, generated + k <= MaxIds, NEW id
    PROVE  /\ [i \in 1..k |-> NewMessage(generated + i)] \in Seq(Message)
           /\ Among([i \in 1..k |-> NewMessage(generated + i)], MessageOf(id)) =
                  IF id \in generated + 1..generated + k THEN 1 ELSE 0
<1> DEFINE s == [i \in 1..k |-> NewMessage(generated + i)]
<1>1. ASSUME NEW i \in 1..k
      PROVE  NewMessage(generated + i) \in Message /\ NewMessage(generated + i).id = generated + i
  <2>1. i \in Nat \ {0} /\ generated + i <= MaxIds
    BY QueueAssumption DEF QueueAssumption
  <2> QED  BY <2>1, NewMessageType
<1>2. s \in Seq(Message) /\ Len(s) = k /\ \A i \in 1..k : s[i] = NewMessage(generated + i)
  <2>1. s \in [1..k -> Message]
    BY <1>1
  <2> QED  BY <2>1
<1> HIDE DEF s
<1>3. \A i \in 1..k : s[i] \in MessageOf(id) <=> generated + i = id
  BY <1>1, <1>2 DEF MessageOf
<1>4. Among(s, MessageOf(id)) = IF id \in generated + 1..generated + k THEN 1 ELSE 0
  <2>1. CASE id \in generated + 1..generated + k
    <3>1. {i \in 1..Len(s) : s[i] \in MessageOf(id)} = {id - generated}
      BY <1>2, <1>3, <2>1
    <3> QED  BY <2>1, <3>1, FS_Singleton DEF Among
  <2>2. CASE id \notin generated + 1..generated + k
    <3>1. \A i \in 1..k : generated + i \in generated + 1..generated + k
      OBVIOUS
    <3>2. {i \in 1..Len(s) : s[i] \in MessageOf(id)} = {}
      BY <1>2, <1>3, <2>2, <3>1
    <3> QED  BY <2>2, <3>2, FS_EmptySet DEF Among
  <2> QED  BY <2>1, <2>2
<1> QED  BY <1>2, <1>4 DEF s

LEMMA SendBatchStep ==
    ASSUME MemoryInv, NEW q \in Queues, NEW n \in 1..MaxBatch, NEW ms \in Delays, SendBatch(q, n, ms)
    PROVE  MemoryInv'
<1> DEFINE free == MaxBufferSize - Len(messages[q])
           room == IF free > 0 THEN free ELSE 0
           fits == IF ms > 0 \/ n <= room THEN n ELSE room
           new  == [i \in 1..fits |-> NewMessage(generated + i)]
           From(k) == generated + 1..generated + k
           m == IF ms > 0 THEN messages[q] ELSE messages[q] \o new
           d == IF ms > 0 THEN DelayBatch(q, n, ms)[n] ELSE delayed[q]
<1>1. TypeOK /\ settled \subseteq accepted /\ CopiesInv /\ ScheduleInv
  BY DEF MemoryInv, MemoryTypes
<1>2. /\ generated \in Nat /\ n \in Nat /\ n # 0 /\ ms \in Nat /\ generated + n <= MaxIds /\ now \in Nat
      /\ MaxIds \in Nat
  BY <1>1, QueueAssumption DEF TypeOK, SendBatch, QueueAssumption
<1>3. /\ messages[q] \in Seq(Message) /\ delayed[q] \in Seq(Entry)
      /\ inflight[q] \in Seq(Held) /\ Unique(inflight[q])
  BY <1>1, QueueTypes
<1>4. fits \in 0..n /\ (ms > 0 => fits = n)
  <2>1. Len(messages[q]) \in Nat /\ MaxBufferSize \in Nat
    BY <1>3, LenProperties, QueueAssumption DEF QueueAssumption
  <2>2. room \in Nat
    BY <2>1
  <2> HIDE DEF room
  <2> QED  BY <1>2, <2>2
<1>5. /\ ended = FALSE /\ ended' = FALSE /\ generated' = generated + n
      /\ accepted' = accepted \cup {NewMessage(generated + i).id : i \in 1..fits}
      /\ messages' = [messages EXCEPT ![q] = m] /\ delayed' = [delayed EXCEPT ![q] = d]
      /\ timers' = timers \cup (IF ms > 0 THEN {TimerFor(q, DelayBatch(q, n, ms)[i]) : i \in 1..n} ELSE {})
      /\ inflight' = inflight /\ now' = now /\ settled' = settled /\ late' = late
  BY <1>1 DEF SendBatch, TypeOK
<1> HIDE DEF fits
<1>6. accepted' = accepted \cup From(fits)
  <2>1. \A i \in 1..fits : NewMessage(generated + i).id = generated + i
    BY DEF NewMessage
  <2>2. {NewMessage(generated + i).id : i \in 1..fits} = From(fits)
    <3>1. ASSUME NEW x \in From(fits) PROVE x - generated \in 1..fits /\ generated + (x - generated) = x
      BY <1>2, <1>4
    <3>2. ASSUME NEW i \in 1..fits PROVE generated + i \in From(fits)
      BY <1>2, <1>4
    <3> HIDE DEF From
    <3> QED  BY <2>1, <3>1, <3>2
  <2> QED  BY <1>5, <2>2
<1>7. /\ new \in Seq(Message)
      /\ \A id : Among(new, MessageOf(id)) = IF id \in From(fits) THEN 1 ELSE 0
  <2>1. fits \in Nat /\ generated + fits <= MaxIds
    BY <1>2, <1>4
  <2> QED  BY <1>2, <2>1, FreshNumber
<1> HIDE DEF new
<1>8. /\ m \in Seq(Message)
      /\ \A id : Among(m, MessageOf(id)) = Among(messages[q], MessageOf(id))
                     + (IF ~(ms > 0) /\ id \in From(fits) THEN 1 ELSE 0)
  <2> HIDE DEF From
  <2>1. messages[q] \o new \in Seq(Message)
        /\ \A id : Among(messages[q] \o new, MessageOf(id))
                       = Among(messages[q], MessageOf(id)) + Among(new, MessageOf(id))
    BY <1>3, <1>7, AmongConcat
  <2>2. \A id : Among(messages[q], MessageOf(id)) \in Nat
    BY <1>3, AmongType
  <2> QED  BY <1>3, <1>7, <2>1, <2>2
<1>9. ASSUME ms > 0, NEW k \in 0..n
      PROVE  /\ DelayBatch(q, n, ms)[k] \in Seq(Entry)
             /\ \A id : Among(DelayBatch(q, n, ms)[k], EntryOf(id)) =
                          Among(delayed[q], EntryOf(id)) + (IF id \in From(k) THEN 1 ELSE 0)
             /\ k # 0 => DelayBatch(q, n, ms)[k] # <<>>
             /\ InBucket(DelayBatch(q, n, ms)[k])
  <2>1. InBucket(delayed[q])
    BY <1>1 DEF ScheduleInv
  <2> QED  BY <1>2, <1>3, <2>1, BatchProperties
<1>10. /\ d \in Seq(Entry)
       /\ \A id : Among(d, EntryOf(id)) = Among(delayed[q], EntryOf(id))
                      + (IF ms > 0 /\ id \in From(fits) THEN 1 ELSE 0)
  <2>1. \A id : Among(delayed[q], EntryOf(id)) \in Nat
    BY <1>3, AmongType
  <2>2. n \in 0..n
    BY <1>2
  <2> HIDE DEF From
  <2> QED  BY <1>3, <1>4, <1>9, <2>1, <2>2
<1>11. /\ timers' \subseteq [queue : Queues, at : Nat]
       /\ ms > 0 => Covered(q, d, timers', now)
  <2>1. ASSUME ms > 0, NEW i \in 1..n
        PROVE  /\ TimerFor(q, DelayBatch(q, n, ms)[i]) \in [queue : Queues, at : Nat]
               /\ Covered(q, DelayBatch(q, n, ms)[i], {TimerFor(q, DelayBatch(q, n, ms)[i])}, now)
    <3>1. PICK s : s = DelayBatch(q, n, ms)[i]
      OBVIOUS
    <3>2. s \in Seq(Entry) /\ s # <<>>
      BY <1>2, <1>9, <2>1, <3>1
    <3>3. /\ TimerFor(q, s).queue = q /\ TimerFor(q, s).at \in Nat
          /\ TimerFor(q, s) = [queue |-> q, at |-> TimerFor(q, s).at]
          /\ \A e \in Items(s) : TimerFor(q, s).at <= Max({now, e.bucket * Second})
      BY <1>2, <3>2, TimerProperties
    <3>4. TimerFor(q, s) \in [queue : Queues, at : Nat]
      BY <3>3
    <3>5. Covered(q, s, {TimerFor(q, s)}, now)
      BY <3>3 DEF Covered
    <3> QED  BY <3>1, <3>4, <3>5
  <2>2. n \in 1..n
    BY <1>2
  <2>3. timers' \subseteq [queue : Queues, at : Nat]
    <3>1. timers \subseteq [queue : Queues, at : Nat]
      BY <1>1 DEF TypeOK
    <3>2. timers' = timers \cup (IF ms > 0 THEN {TimerFor(q, DelayBatch(q, n, ms)[i]) : i \in 1..n}
                                ELSE {})
      BY <1>5
    <3>3. ASSUME ms > 0
          PROVE  {TimerFor(q, DelayBatch(q, n, ms)[i]) : i \in 1..n} \subseteq [queue : Queues, at : Nat]
      BY <2>1, <3>3
    <3> QED  BY <3>1, <3>2, <3>3
  <2>4. ASSUME ms > 0 PROVE Covered(q, d, timers', now)
    <3>1. TimerFor(q, d) \in timers' /\ Covered(q, d, {TimerFor(q, d)}, now)
      BY <1>5, <2>1, <2>2, <2>4
    <3> HIDE DEF d
    <3> QED  BY <3>1 DEF Covered
  <2> QED  BY <2>3, <2>4
<1>12. Covered(q, delayed[q], timers, now)
  BY <1>1, WasCovered
<1>13. Covered(q, d, timers', now) /\ InBucket(d)
  <2>1. CASE ms > 0
    BY <1>2, <1>9, <1>11, <2>1
  <2>2. CASE ~(ms > 0)
    BY <1>1, <1>5, <1>12, <2>2 DEF Covered, ScheduleInv
  <2> QED  BY <2>1, <2>2
<1>14. generated' \in 0..MaxIds /\ accepted' \subseteq 1..generated'
  <2>1. From(fits) \subseteq 1..generated + n
    BY <1>2, <1>4
  <2>2. 1..generated \subseteq 1..generated + n
    BY <1>2
  <2>3. accepted \subseteq 1..generated
    BY <1>1 DEF TypeOK
  <2> QED  BY <1>2, <1>5, <1>6, <2>1, <2>2, <2>3
<1> HIDE DEF m, d
<1>15. /\ TypeOK' /\ \A id : HereAt(q, id)' = Here(m, d, inflight[q], id)
       /\ delayed'[q] = d
       /\ \A r \in Queues \ {q} : /\ delayed'[r] = delayed[r]
                                  /\ \A id : PlacesAt(r, id)' = PlacesAt(r, id)
  <2>1. inflight' = [inflight EXCEPT ![q] = inflight[q]]
    BY <1>1, <1>5 DEF TypeOK
  <2>2. settled' \subseteq Ids /\ late' \in [Ids -> Nat] /\ now' \in Nat /\ ended' \in BOOLEAN
    BY <1>1, <1>5 DEF TypeOK
  <2>3. /\ TypeOK /\ m \in Seq(Message) /\ d \in Seq(Entry) /\ inflight[q] \in Seq(Held)
        /\ Unique(inflight[q]) /\ timers' \subseteq [queue : Queues, at : Nat]
        /\ messages' = [messages EXCEPT ![q] = m] /\ delayed' = [delayed EXCEPT ![q] = d]
    BY <1>1, <1>3, <1>5, <1>8, <1>10, <1>11
  <2>4. PICK h : h = inflight[q]
    OBVIOUS
  <2>5. h \in Seq(Held) /\ Unique(h) /\ inflight' = [inflight EXCEPT ![q] = h]
    BY <2>1, <2>3, <2>4
  <2>6. /\ TypeOK' /\ \A id : HereAt(q, id)' = Here(m, d, h, id)
        /\ messages'[q] = m /\ delayed'[q] = d /\ inflight'[q] = h
        /\ \A r \in Queues \ {q} : /\ messages'[r] = messages[r] /\ delayed'[r] = delayed[r]
                                   /\ inflight'[r] = inflight[r]
                                   /\ \A id : PlacesAt(r, id)' = PlacesAt(r, id)
    BY <1>14, <2>2, <2>3, <2>5, OneChanges
  <2> QED  BY <2>4, <2>6
<1>16. ScheduleInv'
  <2>1. \A t \in timers : t \in timers'
    BY <1>5
  <2> QED  BY <1>1, <1>5, <1>13, <1>15, <2>1, ScheduleMoves
<1>17. ASSUME NEW id \in Ids PROVE Account(id)'
  <2>1. HereAt(q, id)' = HereAt(q, id) + (IF id \in From(fits) THEN 1 ELSE 0) /\ HereAt(q, id) \in Nat
    <3>1. /\ Among(messages[q], MessageOf(id)) \in Nat /\ Among(delayed[q], EntryOf(id)) \in Nat
          /\ Among(inflight[q], HeldOf(id)) \in Nat
      BY <1>3, AmongType
    <3>2. /\ HereAt(q, id)' = Among(m, MessageOf(id)) + Among(d, EntryOf(id)) + Among(inflight[q], HeldOf(id))
          /\ HereAt(q, id) = Among(messages[q], MessageOf(id)) + Among(delayed[q], EntryOf(id))
                               + Among(inflight[q], HeldOf(id))
      BY <1>15 DEF Here, HereAt
    <3>3. /\ Among(m, MessageOf(id)) = Among(messages[q], MessageOf(id))
                     + (IF ~(ms > 0) /\ id \in From(fits) THEN 1 ELSE 0)
          /\ Among(d, EntryOf(id)) = Among(delayed[q], EntryOf(id))
                      + (IF ms > 0 /\ id \in From(fits) THEN 1 ELSE 0)
      BY <1>8, <1>10
    <3> HIDE DEF From
    <3> QED  BY <3>1, <3>2, <3>3
  <2>2. id \in From(fits) => id \notin accepted /\ id \notin settled /\ late[id] = 0
    <3>1. id \in From(fits) => id > generated
      BY <1>2
    <3> QED  BY <1>1, <3>1, FreshAccount DEF MemoryTypes
  <2>3. Account(id) /\ late[id] \in Nat
    BY <1>1 DEF CopiesInv, TypeOK
  <2> HIDE DEF From
  <2>4. /\ Limit(id)' = (IF id \in accepted' \ settled THEN 1 ELSE 0) + late[id]
        /\ Limit(id) = (IF id \in accepted \ settled THEN 1 ELSE 0) + late[id]
    BY <1>5 DEF Limit
  <2>5. HereAt(q, id)' + Limit(id) <= HereAt(q, id) + Limit(id)'
    BY <1>6, <2>1, <2>2, <2>3, <2>4
  <2>6. id \notin accepted' => late'[id] = 0
    BY <1>5, <1>6, <2>3 DEF Account
  <2>7. id \in accepted' \ settled' /\ ~ended' =>
            \/ HereAt(q, id)' >= 1
            \/ HereAt(q, id)' >= HereAt(q, id) /\ id \in accepted \ settled /\ ~ended
    BY <1>5, <1>6, <2>1
  <2> QED  BY <1>1, <1>15, <2>3, <2>5, <2>6, <2>7, AccountMoves
<1>18. settled' \subseteq accepted'
  BY <1>1, <1>5, <1>6
<1> QED  BY <1>15, <1>16, <1>17, <1>18 DEF MemoryInv, MemoryTypes, CopiesInv, Ids

\* Dropping the bucket or the time of delivery keeps the messages.
LEMMA MsgsOfEntries ==
    ASSUME NEW s \in Seq(Entry)
    PROVE  /\ Msgs(s) \in Seq(Message) /\ Len(Msgs(s)) = Len(s)
           /\ \A i \in 1..Len(s) : Msgs(s)[i] = s[i].msg
           /\ \A id : Among(Msgs(s), MessageOf(id)) = Among(s, EntryOf(id))
<1>1. DOMAIN s = 1..Len(s) /\ Len(s) \in Nat /\ \A i \in 1..Len(s) : s[i] \in Entry
  BY LenProperties, ElementOfSeq
<1>2. Msgs(s) \in [1..Len(s) -> Message]
  BY <1>1 DEF Msgs, Entry
<1>3. Msgs(s) \in Seq(Message) /\ Len(Msgs(s)) = Len(s)
  BY <1>1, <1>2
<1>4. \A i \in 1..Len(s) : Msgs(s)[i] = s[i].msg
  BY <1>1 DEF Msgs
<1>5. ASSUME NEW id PROVE Among(Msgs(s), MessageOf(id)) = Among(s, EntryOf(id))
  <2>1. \A i \in 1..Len(s) : Msgs(s)[i] \in MessageOf(id) <=> s[i] \in EntryOf(id)
    BY <1>1, <1>4 DEF MessageOf, EntryOf, Entry
  <2> QED  BY <1>3, <2>1 DEF Among
<1> QED  BY <1>3, <1>4, <1>5

LEMMA MsgsOfHeld ==
    ASSUME NEW s \in Seq(Held)
    PROVE  /\ Msgs(s) \in Seq(Message) /\ Len(Msgs(s)) = Len(s)
           /\ \A i \in 1..Len(s) : Msgs(s)[i] = s[i].msg
           /\ \A id : Among(Msgs(s), MessageOf(id)) = Among(s, HeldOf(id))
<1>1. DOMAIN s = 1..Len(s) /\ Len(s) \in Nat /\ \A i \in 1..Len(s) : s[i] \in Held
  BY LenProperties, ElementOfSeq
<1>2. Msgs(s) \in [1..Len(s) -> Message]
  BY <1>1 DEF Msgs, Held
<1>3. Msgs(s) \in Seq(Message) /\ Len(Msgs(s)) = Len(s)
  BY <1>1, <1>2
<1>4. \A i \in 1..Len(s) : Msgs(s)[i] = s[i].msg
  BY <1>1 DEF Msgs
<1>5. ASSUME NEW id PROVE Among(Msgs(s), MessageOf(id)) = Among(s, HeldOf(id))
  <2>1. \A i \in 1..Len(s) : Msgs(s)[i] \in MessageOf(id) <=> s[i] \in HeldOf(id)
    BY <1>1, <1>4 DEF MessageOf, HeldOf, Held
  <2> QED  BY <1>3, <2>1 DEF Among
<1> QED  BY <1>3, <1>4, <1>5

\* What is due becomes available, the rest stays.
LEMMA Promotion ==
    ASSUME TypeOK, NEW q \in Queues
    PROVE  /\ Promoted(q) \in Seq(Message) /\ NotDue(q) \in Seq(Entry)
           /\ \A id : Among(Promoted(q), MessageOf(id)) + Among(NotDue(q), EntryOf(id))
                          = Among(messages[q], MessageOf(id)) + Among(delayed[q], EntryOf(id))
           /\ Items(NotDue(q)) \subseteq Items(delayed[q])
           /\ \A e \in Items(delayed[q]) : e \in Items(NotDue(q)) \/ IsDue(e)
<1> DEFINE s == delayed[q]
           I == Due(q)
           J == (1..Len(s)) \ I
<1>1. s \in Seq(Entry) /\ messages[q] \in Seq(Message) /\ DOMAIN s = 1..Len(s)
  BY QueueTypes
<1>2. /\ I \in SUBSET (1..Len(s)) /\ J \in SUBSET (1..Len(s))
      /\ NotDue(q) = Keep(s, J) /\ Promoted(q) = messages[q] \o Msgs(Keep(s, I))
      /\ \A i \in 1..Len(s) : i \in J \/ IsDue(s[i])
  BY <1>1 DEF Due, NotDue, Promoted
<1> HIDE DEF s, I, J
<1>3. /\ Keep(s, I) \in Seq(Entry) /\ Keep(s, J) \in Seq(Entry)
      /\ \A k \in 1..Len(Keep(s, J)) : \E i \in J : Keep(s, J)[k] = s[i]
      /\ \A i \in J : \E k \in 1..Len(Keep(s, J)) : Keep(s, J)[k] = s[i]
  BY <1>1, <1>2, KeepItems
<1>4. PICK u, v : u = Keep(s, I) /\ v = Keep(s, J)
  OBVIOUS
<1>5. \A id : Among(s, EntryOf(id)) = Among(u, EntryOf(id)) + Among(v, EntryOf(id))
  BY <1>1, <1>2, <1>4, AmongKept DEF J
<1>6. u \in Seq(Entry) /\ v \in Seq(Entry) /\ messages[q] \in Seq(Message)
  BY <1>1, <1>3, <1>4
<1>7. Msgs(u) \in Seq(Message) /\ \A id : Among(Msgs(u), MessageOf(id)) = Among(u, EntryOf(id))
  BY <1>6, MsgsOfEntries
<1>8. PICK w : w = Msgs(u)
  OBVIOUS
<1>9. w \in Seq(Message)
  BY <1>7, <1>8
<1>10. messages[q] \o w \in Seq(Message)
       /\ \A id : Among(messages[q] \o w, MessageOf(id))
                      = Among(messages[q], MessageOf(id)) + Among(w, MessageOf(id))
  BY <1>6, <1>9, AmongConcat
<1>11. ASSUME NEW id
       PROVE  Among(Promoted(q), MessageOf(id)) + Among(NotDue(q), EntryOf(id))
                  = Among(messages[q], MessageOf(id)) + Among(s, EntryOf(id))
  <2>1. /\ Among(messages[q], MessageOf(id)) \in Nat /\ Among(u, EntryOf(id)) \in Nat
        /\ Among(v, EntryOf(id)) \in Nat
    BY <1>6, AmongType
  <2>2. Among(w, MessageOf(id)) = Among(u, EntryOf(id))
    BY <1>7, <1>8
  <2>3. Among(messages[q] \o w, MessageOf(id))
            = Among(messages[q], MessageOf(id)) + Among(w, MessageOf(id))
    BY <1>10
  <2>4. Promoted(q) = messages[q] \o w /\ NotDue(q) = v
    BY <1>2, <1>4, <1>8
  <2>5. Among(s, EntryOf(id)) = Among(u, EntryOf(id)) + Among(v, EntryOf(id))
    BY <1>5
  <2> QED  BY <2>1, <2>2, <2>3, <2>4, <2>5
<1>12. /\ Items(v) \subseteq Items(s)
       /\ \A e \in Items(s) : e \in Items(v) \/ IsDue(e)
  <2>1. \A i \in J : \E k \in 1..Len(v) : v[k] = s[i]
    BY <1>3, <1>4
  <2>2. Items(v) \subseteq Items(s)
    <3>1. \A k \in 1..Len(v) : \E i \in J : v[k] = s[i]
      BY <1>3, <1>4
    <3> QED  BY <1>2, <3>1 DEF Items
  <2>3. ASSUME NEW i \in 1..Len(s) PROVE s[i] \in Items(v) \/ IsDue(s[i])
    BY <1>2, <2>1 DEF Items
  <2> QED  BY <2>2, <2>3 DEF Items
<1>13. Promoted(q) = messages[q] \o w /\ NotDue(q) = v
  BY <1>2, <1>4, <1>8
<1>14. messages[q] \o w \in Seq(Message)
  BY <1>10
<1> QED  BY <1>6, <1>11, <1>12, <1>13, <1>14 DEF s

\* What has expired comes back, the rest stays in flight.
LEMMA Expiry ==
    ASSUME TypeOK, NEW q \in Queues
    PROVE  /\ Expired(q) \in Seq(Message) /\ NotExpired(q) \in Seq(Held) /\ Unique(NotExpired(q))
           /\ \A id : Among(Expired(q), MessageOf(id)) + Among(NotExpired(q), HeldOf(id))
                          = Among(inflight[q], HeldOf(id))
           /\ Items(NotExpired(q)) \subseteq Items(inflight[q])
           /\ \A m \in Items(Expired(q)) : \E d \in Items(inflight[q]) : IsExpired(d) /\ m = d.msg
<1> DEFINE s == inflight[q]
           I == Overdue(q)
           J == (1..Len(s)) \ I
<1>1. s \in Seq(Held) /\ Unique(s) /\ DOMAIN s = 1..Len(s)
  BY QueueTypes
<1>2. /\ I \in SUBSET (1..Len(s)) /\ J \in SUBSET (1..Len(s))
      /\ NotExpired(q) = Keep(s, J) /\ Expired(q) = Msgs(Keep(s, I))
      /\ \A i \in I : IsExpired(s[i])
  BY <1>1 DEF Overdue, NotExpired, Expired
<1> HIDE DEF s, I, J
<1>3. /\ Keep(s, I) \in Seq(Held) /\ Keep(s, J) \in Seq(Held)
      /\ \A k \in 1..Len(Keep(s, J)) : \E i \in J : Keep(s, J)[k] = s[i]
      /\ \A k \in 1..Len(Keep(s, I)) : \E i \in I : Keep(s, I)[k] = s[i]
  BY <1>1, <1>2, KeepItems
<1>4. PICK u, v : u = Keep(s, I) /\ v = Keep(s, J)
  OBVIOUS
<1>5. \A id : Among(s, HeldOf(id)) = Among(u, HeldOf(id)) + Among(v, HeldOf(id))
  BY <1>1, <1>2, <1>4, AmongKept DEF J
<1>6. u \in Seq(Held) /\ v \in Seq(Held)
  BY <1>3, <1>4
<1>7. /\ Msgs(u) \in Seq(Message) /\ Len(Msgs(u)) = Len(u)
      /\ \A i \in 1..Len(u) : Msgs(u)[i] = u[i].msg
      /\ \A id : Among(Msgs(u), MessageOf(id)) = Among(u, HeldOf(id))
  BY <1>6, MsgsOfHeld
<1>8. Unique(v)
  <2>1. ASSUME NEW id PROVE Among(v, HeldOf(id)) <= 1
    <3>1. Among(s, HeldOf(id)) <= 1 /\ Among(s, HeldOf(id)) \in Nat
      BY <1>1, UniqueNumber, HeldNumber
    <3>2. Among(u, HeldOf(id)) \in Nat /\ Among(v, HeldOf(id)) \in Nat
      BY <1>6, HeldNumber
    <3> QED  BY <1>5, <3>1, <3>2
  <2> QED  BY <1>6, <2>1, UniqueNumber
<1>9. Items(v) \subseteq Items(s)
  <2>1. \A k \in 1..Len(v) : \E i \in J : v[k] = s[i]
    BY <1>3, <1>4
  <2> QED  BY <1>2, <2>1 DEF Items
<1>10. \A m \in Items(Msgs(u)) : \E d \in Items(s) : IsExpired(d) /\ m = d.msg
  <2> SUFFICES ASSUME NEW k \in 1..Len(u)
               PROVE  \E d \in Items(s) : IsExpired(d) /\ Msgs(u)[k] = d.msg
    BY <1>7 DEF Items
  <2>1. PICK i \in I : u[k] = s[i]
    BY <1>3, <1>4
  <2>2. s[i] \in Items(s) /\ IsExpired(s[i]) /\ Msgs(u)[k] = s[i].msg
    BY <1>2, <1>7, <2>1 DEF Items
  <2> QED  BY <2>2
<1>11. Expired(q) = Msgs(u) /\ NotExpired(q) = v
  BY <1>2, <1>4
<1>12. ASSUME NEW id
       PROVE  Among(Msgs(u), MessageOf(id)) + Among(v, HeldOf(id)) = Among(s, HeldOf(id))
  BY <1>5, <1>7
<1> QED  BY <1>6, <1>7, <1>8, <1>9, <1>10, <1>11, <1>12 DEF s

LEMMA ReceiveStep ==
    ASSUME MemoryInv, NEW q \in Queues, NEW count \in 1..MaxBatch, Receive(q, count)
    PROVE  MemoryInv'
<1> DEFINE avail == Promoted(q) \o Expired(q)
           n == Min({count, Len(avail)})
<1>1. TypeOK /\ settled \subseteq accepted /\ CopiesInv /\ ScheduleInv /\ now \in Nat
  BY DEF MemoryInv, MemoryTypes, TypeOK
<1>2. /\ messages[q] \in Seq(Message) /\ delayed[q] \in Seq(Entry)
      /\ inflight[q] \in Seq(Held) /\ Unique(inflight[q])
  BY <1>1, QueueTypes
<1>3. /\ Promoted(q) \in Seq(Message) /\ NotDue(q) \in Seq(Entry)
      /\ \A id : Among(Promoted(q), MessageOf(id)) + Among(NotDue(q), EntryOf(id))
                     = Among(messages[q], MessageOf(id)) + Among(delayed[q], EntryOf(id))
      /\ Items(NotDue(q)) \subseteq Items(delayed[q])
  BY <1>1, Promotion
<1>4. /\ Expired(q) \in Seq(Message) /\ NotExpired(q) \in Seq(Held) /\ Unique(NotExpired(q))
      /\ \A id : Among(Expired(q), MessageOf(id)) + Among(NotExpired(q), HeldOf(id))
                     = Among(inflight[q], HeldOf(id))
  BY <1>1, Expiry
<1>5. PICK p, x, ne, nd : p = Promoted(q) /\ x = Expired(q) /\ ne = NotExpired(q) /\ nd = NotDue(q)
  OBVIOUS
<1>6. PICK a : a = p \o x
  OBVIOUS
<1>7. a \in Seq(Message)
      /\ \A id : Among(a, MessageOf(id)) = Among(p, MessageOf(id)) + Among(x, MessageOf(id))
  <2>1. p \in Seq(Message) /\ x \in Seq(Message)
    BY <1>3, <1>4, <1>5
  <2> QED  BY <1>6, <2>1, AmongConcat
<1>8. PICK k \in 0..Len(a) : k = n
  <2>1. avail = a
    BY <1>5, <1>6
  <2>2. Len(a) \in Nat /\ count \in Nat
    BY <1>7, LenProperties
  <2> HIDE DEF avail
  <2>3. {count, Len(avail)} \in SUBSET Nat /\ {count, Len(avail)} # {}
    BY <2>1, <2>2
  <2>4. n \in {count, Len(avail)} /\ n <= Len(avail)
    BY <2>3, MinOfSome
  <2> QED  BY <2>1, <2>2, <2>4
<1>9. PICK taken, m : taken = SubSeq(a, 1, k) /\ m = SubSeq(a, k + 1, Len(a))
  OBVIOUS
<1>10. /\ taken \in Seq(Message) /\ m \in Seq(Message)
       /\ \A id : Among(a, MessageOf(id)) = Among(taken, MessageOf(id)) + Among(m, MessageOf(id))
  BY <1>7, <1>9, AmongCut
<1>11. PICK f : f = DeliverAll(ne, taken)
  OBVIOUS
<1>12. /\ f \in Seq(Held) /\ Unique(f)
       /\ \A id : Among(f, HeldOf(id)) =
                      IF Among(ne, HeldOf(id)) = 0 /\ Among(taken, MessageOf(id)) = 0 THEN 0 ELSE 1
  <2>1. ne \in Seq(Held) /\ Unique(ne)
    BY <1>4, <1>5
  <2> QED  BY <1>1, <1>10, <1>11, <2>1, DeliverMany
<1>13. /\ messages' = [messages EXCEPT ![q] = m] /\ delayed' = [delayed EXCEPT ![q] = nd]
       /\ inflight' = [inflight EXCEPT ![q] = f] /\ ~ended
       /\ UNCHANGED <<timers, now, ended, generated, accepted, settled, late>>
  BY <1>5, <1>6, <1>8, <1>9, <1>11 DEF Receive, history
<1>14. nd \in Seq(Entry)
  BY <1>3, <1>5
<1>15. /\ TypeOK' /\ \A id : HereAt(q, id)' = Here(m, nd, f, id)
       /\ delayed'[q] = nd
       /\ \A r \in Queues \ {q} : /\ delayed'[r] = delayed[r]
                                  /\ \A id : PlacesAt(r, id)' = PlacesAt(r, id)
  <2>1. /\ timers' \subseteq [queue : Queues, at : Nat] /\ now' \in Nat /\ ended' \in BOOLEAN
        /\ generated' \in 0..MaxIds /\ accepted' \subseteq 1..generated'
        /\ settled' \subseteq Ids /\ late' \in [Ids -> Nat]
    BY <1>1, <1>13 DEF TypeOK
  <2>2. /\ messages' = [messages EXCEPT ![q] = m] /\ delayed' = [delayed EXCEPT ![q] = nd]
        /\ inflight' = [inflight EXCEPT ![q] = f]
    BY <1>13
  <2>3. /\ TypeOK' /\ \A id : HereAt(q, id)' = Here(m, nd, f, id)
        /\ messages'[q] = m /\ delayed'[q] = nd /\ inflight'[q] = f
        /\ \A r \in Queues \ {q} : /\ messages'[r] = messages[r] /\ delayed'[r] = delayed[r]
                                   /\ inflight'[r] = inflight[r]
                                   /\ \A id : PlacesAt(r, id)' = PlacesAt(r, id)
    <3>1. /\ TypeOK /\ m \in Seq(Message) /\ nd \in Seq(Entry) /\ f \in Seq(Held) /\ Unique(f)
      BY <1>1, <1>10, <1>12, <1>14
    <3> QED  BY <2>1, <2>2, <3>1, OneChanges
  <2> QED  BY <2>3
<1>16. ScheduleInv'
  <2>1. Covered(q, delayed[q], timers, now) /\ InBucket(delayed[q])
    BY <1>1, WasCovered DEF ScheduleInv
  <2>2. Covered(q, nd, timers', now) /\ InBucket(nd)
    BY <1>3, <1>5, <1>13, <2>1 DEF Covered, InBucket
  <2>3. now' = now /\ \A t \in timers : t \in timers'
    BY <1>13
  <2> QED  BY <1>1, <1>15, <2>2, <2>3, ScheduleMoves
<1>17. ASSUME NEW id \in Ids PROVE Account(id)'
  <2> DEFINE cp == Among(p, MessageOf(id))
             cx == Among(x, MessageOf(id))
             cne == Among(ne, HeldOf(id))
             cnd == Among(nd, EntryOf(id))
             ct == Among(taken, MessageOf(id))
             cm == Among(m, MessageOf(id))
             cf == Among(f, HeldOf(id))
  <2>1. /\ cp \in Nat /\ cx \in Nat /\ cne \in Nat /\ cnd \in Nat /\ ct \in Nat /\ cm \in Nat
        /\ cf \in Nat
    BY <1>3, <1>4, <1>5, <1>10, <1>12, AmongType
  <2>2. HereAt(q, id) = cp + cnd + cx + cne
    <3>1. /\ cp + cnd = Among(messages[q], MessageOf(id)) + Among(delayed[q], EntryOf(id))
          /\ cx + cne = Among(inflight[q], HeldOf(id))
      BY <1>3, <1>4, <1>5
    <3>2. /\ Among(messages[q], MessageOf(id)) \in Nat /\ Among(delayed[q], EntryOf(id)) \in Nat
          /\ Among(inflight[q], HeldOf(id)) \in Nat
      BY <1>2, AmongType
    <3> HIDE DEF cp, cx, cne, cnd
    <3> QED  BY <2>1, <3>1, <3>2 DEF HereAt, Here
  <2>3. HereAt(q, id)' = cm + cnd + cf
    BY <1>15 DEF Here
  <2>4. cp + cx = ct + cm
    BY <1>7, <1>10
  <2>5. cf = IF cne = 0 /\ ct = 0 THEN 0 ELSE 1
    BY <1>12
  <2> HIDE DEF cp, cx, cne, cnd, ct, cm, cf
  <2>6. /\ HereAt(q, id)' <= HereAt(q, id) /\ HereAt(q, id) \in Nat /\ HereAt(q, id)' \in Nat
        /\ HereAt(q, id) >= 1 => HereAt(q, id)' >= 1
    BY <2>1, <2>2, <2>3, <2>4, <2>5
  <2>7. Limit(id)' = Limit(id) /\ Limit(id) \in Nat
    BY <1>1, <1>13 DEF Limit, TypeOK
  <2>8. Account(id) /\ accepted' = accepted /\ settled' = settled /\ late' = late /\ ended' = ended
    BY <1>1, <1>13 DEF CopiesInv
  <2>9. HereAt(q, id)' + Limit(id) <= HereAt(q, id) + Limit(id)'
    BY <2>6, <2>7
  <2>10. id \notin accepted' => late'[id] = 0
    BY <2>8 DEF Account
  <2>11. id \in accepted' \ settled' /\ ~ended' =>
            \/ HereAt(q, id)' >= 1
            \/ HereAt(q, id)' >= HereAt(q, id) /\ id \in accepted \ settled /\ ~ended
    BY <2>6, <2>8
  <2> QED  BY <1>1, <1>15, <2>8, <2>9, <2>10, <2>11, AccountMoves
<1>18. settled' \subseteq accepted'
  BY <1>1, <1>13
<1> QED  BY <1>15, <1>16, <1>17, <1>18 DEF MemoryInv, MemoryTypes, CopiesInv, Ids

LEMMA TimerStep ==
    ASSUME MemoryInv, NEW t \in timers, TimerFires(t)
    PROVE  MemoryInv'
<1> DEFINE q == t.queue
<1>1. TypeOK /\ settled \subseteq accepted /\ CopiesInv /\ ScheduleInv /\ now \in Nat
  BY DEF MemoryInv, MemoryTypes, TypeOK
<1>2. q \in Queues
  BY <1>1 DEF TypeOK
<1> HIDE DEF q
<1>3. /\ messages[q] \in Seq(Message) /\ delayed[q] \in Seq(Entry)
      /\ inflight[q] \in Seq(Held) /\ Unique(inflight[q])
  BY <1>1, <1>2, QueueTypes
<1>4. /\ Promoted(q) \in Seq(Message) /\ NotDue(q) \in Seq(Entry)
      /\ \A id : Among(Promoted(q), MessageOf(id)) + Among(NotDue(q), EntryOf(id))
                     = Among(messages[q], MessageOf(id)) + Among(delayed[q], EntryOf(id))
      /\ Items(NotDue(q)) \subseteq Items(delayed[q])
  BY <1>1, <1>2, Promotion
<1>5. PICK m, d, f : m = Promoted(q) /\ d = NotDue(q) /\ f = inflight[q]
  OBVIOUS
<1>6. /\ messages' = [messages EXCEPT ![q] = m] /\ delayed' = [delayed EXCEPT ![q] = d]
      /\ inflight' = [inflight EXCEPT ![q] = f]
      /\ timers' = (timers \ {t}) \cup (IF d = <<>> THEN {} ELSE {TimerFor(q, d)})
      /\ UNCHANGED <<now, ended, generated, accepted, settled, late>>
  BY <1>1, <1>5 DEF TimerFires, history, q, TypeOK
<1>7. m \in Seq(Message) /\ d \in Seq(Entry) /\ f \in Seq(Held) /\ Unique(f)
  BY <1>3, <1>4, <1>5
<1>8. d # <<>> => /\ TimerFor(q, d) \in [queue : Queues, at : Nat]
                  /\ Covered(q, d, {TimerFor(q, d)}, now)
  <2> SUFFICES ASSUME d # <<>> PROVE /\ TimerFor(q, d) \in [queue : Queues, at : Nat]
                                     /\ Covered(q, d, {TimerFor(q, d)}, now)
    OBVIOUS
  <2>1. /\ TimerFor(q, d).queue = q /\ TimerFor(q, d).at \in Nat
        /\ TimerFor(q, d) = [queue |-> q, at |-> TimerFor(q, d).at]
        /\ \A e \in Items(d) : TimerFor(q, d).at <= Max({now, e.bucket * Second})
    BY <1>1, <1>7, TimerProperties
  <2>2. TimerFor(q, d) \in [queue : Queues, at : Nat]
    BY <1>2, <2>1
  <2> QED  BY <2>1, <2>2 DEF Covered
<1>9. timers' \subseteq [queue : Queues, at : Nat]
  BY <1>1, <1>6, <1>8 DEF TypeOK
<1>10. /\ TypeOK' /\ \A id : HereAt(q, id)' = Here(m, d, f, id)
       /\ delayed'[q] = d
       /\ \A r \in Queues \ {q} : /\ delayed'[r] = delayed[r]
                                  /\ \A id : PlacesAt(r, id)' = PlacesAt(r, id)
  <2>1. /\ now' \in Nat /\ ended' \in BOOLEAN
        /\ generated' \in 0..MaxIds /\ accepted' \subseteq 1..generated'
        /\ settled' \subseteq Ids /\ late' \in [Ids -> Nat]
    BY <1>1, <1>6 DEF TypeOK
  <2>2. /\ messages' = [messages EXCEPT ![q] = m] /\ delayed' = [delayed EXCEPT ![q] = d]
        /\ inflight' = [inflight EXCEPT ![q] = f]
    BY <1>6
  <2>3. /\ TypeOK' /\ \A id : HereAt(q, id)' = Here(m, d, f, id)
        /\ messages'[q] = m /\ delayed'[q] = d /\ inflight'[q] = f
        /\ \A r \in Queues \ {q} : /\ messages'[r] = messages[r] /\ delayed'[r] = delayed[r]
                                   /\ inflight'[r] = inflight[r]
                                   /\ \A id : PlacesAt(r, id)' = PlacesAt(r, id)
    BY <1>1, <1>2, <1>7, <1>9, <2>1, <2>2, OneChanges
  <2> QED  BY <2>3
<1>11. ScheduleInv'
  <2>1. InBucket(delayed[q])
    BY <1>1, <1>2 DEF ScheduleInv
  <2>2. InBucket(d)
    BY <1>4, <1>5, <2>1 DEF InBucket
  <2>3. Covered(q, d, timers', now)
    <3>1. CASE d = <<>>
      <4>1. Items(d) = {}
        BY <3>1 DEF Items
      <4> QED  BY <4>1 DEF Covered
    <3>2. CASE d # <<>>
      BY <1>6, <1>8, <3>2 DEF Covered
    <3> QED  BY <3>1, <3>2
  <2>4. \A u \in timers : u.queue # q => u \in timers'
    BY <1>6 DEF q
  <2>5. now' = now
    BY <1>6
  <2> QED  BY <1>1, <1>2, <1>10, <2>2, <2>3, <2>4, <2>5, ScheduleMoves
<1>12. ASSUME NEW id \in Ids PROVE Account(id)'
  <2>1. HereAt(q, id)' = HereAt(q, id) /\ HereAt(q, id) \in Nat
    <3>1. /\ Among(messages[q], MessageOf(id)) \in Nat /\ Among(delayed[q], EntryOf(id)) \in Nat
          /\ Among(inflight[q], HeldOf(id)) \in Nat
          /\ Among(m, MessageOf(id)) \in Nat /\ Among(d, EntryOf(id)) \in Nat
      BY <1>3, <1>7, AmongType
    <3>2. Among(m, MessageOf(id)) + Among(d, EntryOf(id))
              = Among(messages[q], MessageOf(id)) + Among(delayed[q], EntryOf(id))
      BY <1>4, <1>5
    <3>3. HereAt(q, id)' = Among(m, MessageOf(id)) + Among(d, EntryOf(id)) + Among(inflight[q], HeldOf(id))
      BY <1>5, <1>10 DEF Here
    <3>4. HereAt(q, id) = Among(messages[q], MessageOf(id)) + Among(delayed[q], EntryOf(id))
                             + Among(inflight[q], HeldOf(id))
      BY DEF HereAt, Here
    <3> QED  BY <3>1, <3>2, <3>3, <3>4
  <2>2. Limit(id)' = Limit(id) /\ Limit(id) \in Nat
    BY <1>1, <1>6 DEF Limit, TypeOK
  <2>3. Account(id) /\ accepted' = accepted /\ settled' = settled /\ late' = late /\ ended' = ended
    BY <1>1, <1>6 DEF CopiesInv
  <2>4. HereAt(q, id)' + Limit(id) <= HereAt(q, id) + Limit(id)'
    BY <2>1, <2>2
  <2>5. id \notin accepted' => late'[id] = 0
    BY <2>3 DEF Account
  <2>6. id \in accepted' \ settled' /\ ~ended' =>
            \/ HereAt(q, id)' >= 1
            \/ HereAt(q, id)' >= HereAt(q, id) /\ id \in accepted \ settled /\ ~ended
    BY <2>1, <2>3
  <2> QED  BY <1>1, <1>2, <1>10, <2>3, <2>4, <2>5, <2>6, AccountMoves
<1>13. settled' \subseteq accepted'
  BY <1>1, <1>6
<1> QED  BY <1>10, <1>11, <1>12, <1>13 DEF MemoryInv, MemoryTypes, CopiesInv, Ids

\* What is left when the deliveries of some ids are taken out.
LEMMA WithoutIds ==
    ASSUME NEW s \in Seq(Held), NEW G
    PROVE  /\ Without(s, G) \in Seq(Held) /\ (Unique(s) => Unique(Without(s, G)))
           /\ \A id : Among(Without(s, G), HeldOf(id)) = IF id \in G THEN 0 ELSE Among(s, HeldOf(id))
           /\ Items(Without(s, G)) \subseteq Items(s)
<1> DEFINE I == {i \in 1..Len(s) : s[i].msg.id \notin G}
           f == Keep(s, I)
<1>1. DOMAIN s = 1..Len(s) /\ \A i \in 1..Len(s) : s[i] \in Held
  BY LenProperties, ElementOfSeq
<1>2. Without(s, G) = f
  BY <1>1 DEF Without
<1>3. I \in SUBSET (1..Len(s))
  OBVIOUS
<1>4. f \in Seq(Held) /\ \A k \in 1..Len(f) : \E i \in I : f[k] = s[i]
  <2> HIDE DEF I
  <2> QED  BY <1>3, KeepItems
<1>5. ASSUME NEW id
      PROVE  Among(f, HeldOf(id)) = IF id \in G THEN 0 ELSE Among(s, HeldOf(id))
  <2>1. Among(f, HeldOf(id)) = Cardinality({i \in I : s[i] \in HeldOf(id)})
    <3> HIDE DEF I
    <3> QED  BY <1>3, AmongKeep
  <2>2. CASE id \in G
    <3>1. {i \in I : s[i] \in HeldOf(id)} = {}
      BY <2>2 DEF HeldOf
    <3> QED  BY <2>1, <2>2, <3>1, FS_EmptySet
  <2>3. CASE id \notin G
    <3>1. {i \in I : s[i] \in HeldOf(id)} = {i \in 1..Len(s) : s[i] \in HeldOf(id)}
      BY <2>3 DEF HeldOf
    <3> QED  BY <2>1, <2>3, <3>1 DEF Among
  <2> QED  BY <2>2, <2>3
<1> HIDE DEF f
<1>6. ASSUME Unique(s) PROVE Unique(f)
  <2>1. ASSUME NEW id PROVE Among(f, HeldOf(id)) <= 1
    <3>1. Among(s, HeldOf(id)) <= 1
      BY <1>6, UniqueNumber
    <3> QED  BY <1>5, <3>1
  <2> QED  BY <1>4, <2>1, UniqueNumber
<1>7. Items(f) \subseteq Items(s)
  BY <1>4 DEF Items
<1> QED  BY <1>2, <1>4, <1>5, <1>6, <1>7

LEMMA MessagesWithout ==
    ASSUME NEW s \in Seq(Message), NEW G
    PROVE  /\ Keep(s, {i \in DOMAIN s : s[i].id \notin G}) \in Seq(Message)
           /\ \A id : Among(Keep(s, {i \in DOMAIN s : s[i].id \notin G}), MessageOf(id))
                          = IF id \in G THEN 0 ELSE Among(s, MessageOf(id))
<1> DEFINE I == {i \in DOMAIN s : s[i].id \notin G}
           f == Keep(s, I)
<1>1. DOMAIN s = 1..Len(s) /\ \A i \in 1..Len(s) : s[i] \in Message
  BY LenProperties, ElementOfSeq
<1>2. I \in SUBSET (1..Len(s))
  BY <1>1
<1>3. f \in Seq(Message)
  <2> HIDE DEF I
  <2> QED  BY <1>2, KeepItems
<1>4. ASSUME NEW id
      PROVE  Among(f, MessageOf(id)) = IF id \in G THEN 0 ELSE Among(s, MessageOf(id))
  <2>1. Among(f, MessageOf(id)) = Cardinality({i \in I : s[i] \in MessageOf(id)})
    <3> HIDE DEF I
    <3> QED  BY <1>2, AmongKeep
  <2>2. CASE id \in G
    <3>1. {i \in I : s[i] \in MessageOf(id)} = {}
      BY <2>2 DEF MessageOf
    <3> QED  BY <2>1, <2>2, <3>1, FS_EmptySet
  <2>3. CASE id \notin G
    <3>1. {i \in I : s[i] \in MessageOf(id)} = {i \in 1..Len(s) : s[i] \in MessageOf(id)}
      BY <1>1, <2>3 DEF MessageOf
    <3> QED  BY <2>1, <2>3, <3>1 DEF Among
  <2> QED  BY <2>2, <2>3
<1> QED  BY <1>3, <1>4

LEMMA AckStep ==
    ASSUME MemoryInv, NEW q \in Queues, NEW ids, Ack(q, ids)
    PROVE  MemoryInv'
<1> DEFINE taken == ids \cap InflightIds(q)
           gone == IF taken = ids THEN {}
                   ELSE ids \cap {messages[q][i].id : i \in DOMAIN messages[q]}
           kept == Keep(messages[q], {i \in DOMAIN messages[q] : messages[q][i].id \notin gone})
           left == Without(inflight[q], taken)
<1>1. TypeOK /\ settled \subseteq accepted /\ CopiesInv /\ ScheduleInv /\ now \in Nat
  BY DEF MemoryInv, MemoryTypes, TypeOK
<1>2. /\ messages[q] \in Seq(Message) /\ delayed[q] \in Seq(Entry)
      /\ inflight[q] \in Seq(Held) /\ Unique(inflight[q])
      /\ DOMAIN messages[q] = 1..Len(messages[q]) /\ DOMAIN inflight[q] = 1..Len(inflight[q])
  BY <1>1, QueueTypes
<1>3. /\ ~ended /\ messages' = [messages EXCEPT ![q] = kept]
      /\ inflight' = [inflight EXCEPT ![q] = left]
      /\ delayed' = [delayed EXCEPT ![q] = delayed[q]]
      /\ settled' = settled \cup taken \cup gone
      /\ UNCHANGED <<delayed, timers, now, ended, generated, accepted, late>>
  BY <1>1 DEF Ack, TypeOK
<1>4. \A id : id \in taken => Among(inflight[q], HeldOf(id)) # 0
  BY <1>2, HeldNumber DEF InflightIds
<1>5. ASSUME NEW id, id \in gone PROVE Among(messages[q], MessageOf(id)) # 0
  <2>1. PICK i \in 1..Len(messages[q]) : messages[q][i].id = id
    BY <1>2, <1>5
  <2>2. messages[q][i] \in MessageOf(id)
    BY <1>2, <2>1, ElementOfSeq DEF MessageOf
  <2> QED  BY <1>2, <2>2, AmongType
<1>6. \A id : id \in gone \/ id \in taken => id \in Ids
  <2>1. /\ \A i \in 1..Len(messages[q]) : messages[q][i] \in Message
        /\ \A i \in 1..Len(inflight[q]) : inflight[q][i] \in Held
    BY <1>2, ElementOfSeq
  <2> QED  BY <1>2, <2>1 DEF InflightIds, Message, Held
<1> HIDE DEF taken, gone
<1>7. PICK m, f, d : m = kept /\ f = left /\ d = delayed[q]
  OBVIOUS
<1>8. /\ m \in Seq(Message) /\ \A id : Among(m, MessageOf(id))
                                     = IF id \in gone THEN 0 ELSE Among(messages[q], MessageOf(id))
  <2>1. PICK s : s = messages[q]
    OBVIOUS
  <2>2. PICK k : k = Keep(s, {i \in DOMAIN s : s[i].id \notin gone})
    OBVIOUS
  <2>3. s \in Seq(Message)
    BY <1>2, <2>1
  <2>4. /\ k \in Seq(Message)
        /\ \A id : Among(k, MessageOf(id)) = IF id \in gone THEN 0 ELSE Among(s, MessageOf(id))
    BY <2>2, <2>3, MessagesWithout
  <2>5. m = k
    BY <1>7, <2>1, <2>2
  <2> QED  BY <2>1, <2>4, <2>5
<1>9. /\ f \in Seq(Held) /\ Unique(f)
      /\ \A id : Among(f, HeldOf(id)) = IF id \in taken THEN 0 ELSE Among(inflight[q], HeldOf(id))
  BY <1>2, <1>7, WithoutIds
<1>10. /\ messages' = [messages EXCEPT ![q] = m] /\ delayed' = [delayed EXCEPT ![q] = d]
       /\ inflight' = [inflight EXCEPT ![q] = f]
  BY <1>3, <1>7
<1>11. ASSUME NEW id \in Ids
       PROVE  LET a == Among(messages[q], MessageOf(id)) + Among(delayed[q], EntryOf(id))
                       + Among(inflight[q], HeldOf(id))
                  b == Among(m, MessageOf(id)) + Among(d, EntryOf(id)) + Among(f, HeldOf(id))
              IN  /\ HereAt(q, id) = a /\ Here(m, d, f, id) = b /\ a \in Nat /\ b \in Nat /\ b <= a
                  /\ id \in taken \cup gone => b < a
                  /\ id \notin taken \cup gone => a = b
  <2>1. /\ Among(messages[q], MessageOf(id)) \in Nat /\ Among(delayed[q], EntryOf(id)) \in Nat
        /\ Among(inflight[q], HeldOf(id)) \in Nat
    BY <1>2, AmongType
  <2>2. HereAt(q, id) = Among(messages[q], MessageOf(id)) + Among(delayed[q], EntryOf(id))
                           + Among(inflight[q], HeldOf(id))
        /\ Here(m, d, f, id) = Among(m, MessageOf(id)) + Among(d, EntryOf(id)) + Among(f, HeldOf(id))
    BY DEF HereAt, Here
  <2>3. /\ Among(m, MessageOf(id)) = IF id \in gone THEN 0 ELSE Among(messages[q], MessageOf(id))
        /\ Among(f, HeldOf(id)) = IF id \in taken THEN 0 ELSE Among(inflight[q], HeldOf(id))
        /\ d = delayed[q]
    BY <1>7, <1>8, <1>9
  <2>4. /\ id \in taken => Among(inflight[q], HeldOf(id)) # 0
        /\ id \in gone => Among(messages[q], MessageOf(id)) # 0
    BY <1>4, <1>5
  <2> QED  BY <2>1, <2>2, <2>3, <2>4
<1>12. \A id \in taken \cup gone : id \in accepted
  <2> SUFFICES ASSUME NEW id \in taken \cup gone PROVE id \in accepted
    OBVIOUS
  <2>1. id \in Ids
    BY <1>6
  <2>2. HereAt(q, id) # 0
    BY <1>11, <2>1
  <2> QED  BY <1>1, <2>1, <2>2, CopyIsKnown DEF MemoryTypes
<1>13. settled' \subseteq accepted' /\ settled' \subseteq Ids
  BY <1>1, <1>3, <1>6, <1>12 DEF TypeOK
<1>14. /\ TypeOK' /\ \A id : HereAt(q, id)' = Here(m, d, f, id)
       /\ delayed'[q] = d
       /\ \A r \in Queues \ {q} : /\ delayed'[r] = delayed[r]
                                  /\ \A id : PlacesAt(r, id)' = PlacesAt(r, id)
  <2>1. /\ timers' \subseteq [queue : Queues, at : Nat] /\ now' \in Nat /\ ended' \in BOOLEAN
        /\ generated' \in 0..MaxIds /\ accepted' \subseteq 1..generated'
        /\ settled' \subseteq Ids /\ late' \in [Ids -> Nat]
    BY <1>1, <1>3, <1>13 DEF TypeOK
  <2>2. TypeOK /\ m \in Seq(Message) /\ d \in Seq(Entry) /\ f \in Seq(Held) /\ Unique(f)
    BY <1>1, <1>2, <1>7, <1>8, <1>9
  <2>3. /\ TypeOK' /\ \A id : HereAt(q, id)' = Here(m, d, f, id)
        /\ messages'[q] = m /\ delayed'[q] = d /\ inflight'[q] = f
        /\ \A r \in Queues \ {q} : /\ messages'[r] = messages[r] /\ delayed'[r] = delayed[r]
                                   /\ inflight'[r] = inflight[r]
                                   /\ \A id : PlacesAt(r, id)' = PlacesAt(r, id)
    BY <1>10, <2>1, <2>2, OneChanges
  <2> QED  BY <2>3
<1>15. ScheduleInv'
  <2>1. Covered(q, d, timers', now) /\ InBucket(d) /\ now' = now /\ \A t \in timers : t \in timers'
    BY <1>1, <1>3, <1>7, WasCovered DEF ScheduleInv
  <2> QED  BY <1>1, <1>14, <2>1, ScheduleMoves
<1>16. ASSUME NEW id \in Ids PROVE Account(id)'
  <2>1. /\ HereAt(q, id) \in Nat /\ HereAt(q, id)' \in Nat /\ HereAt(q, id)' <= HereAt(q, id)
        /\ id \in taken \cup gone => HereAt(q, id)' < HereAt(q, id)
        /\ id \notin taken \cup gone => HereAt(q, id)' = HereAt(q, id)
    BY <1>11, <1>14
  <2>2. Account(id) /\ accepted' = accepted /\ late' = late /\ ended' = ended /\ late[id] \in Nat
    BY <1>1, <1>3 DEF CopiesInv, TypeOK
  <2>3. /\ Limit(id)' = (IF id \in accepted \ settled' THEN 1 ELSE 0) + late[id]
        /\ Limit(id) = (IF id \in accepted \ settled THEN 1 ELSE 0) + late[id]
    BY <1>3 DEF Limit
  <2>4. HereAt(q, id)' + Limit(id) <= HereAt(q, id) + Limit(id)'
    BY <1>3, <2>1, <2>2, <2>3
  <2>5. id \notin accepted' => late'[id] = 0
    BY <2>2 DEF Account
  <2>6. id \in accepted' \ settled' /\ ~ended' =>
            \/ HereAt(q, id)' >= 1
            \/ HereAt(q, id)' >= HereAt(q, id) /\ id \in accepted \ settled /\ ~ended
    BY <1>3, <2>1, <2>2
  <2> QED  BY <1>1, <1>14, <2>2, <2>4, <2>5, <2>6, AccountMoves
<1> QED  BY <1>13, <1>14, <1>15, <1>16 DEF MemoryInv, MemoryTypes, CopiesInv, Ids

\* What nack finds is a copy in the queue.
LEMMA FoundMessage ==
    ASSUME TypeOK, NEW q \in Queues, NEW id, NEW m \in Found(q, id)
    PROVE  m \in Message /\ m.id = id /\ HereAt(q, id) # 0
<1>1. /\ messages[q] \in Seq(Message) /\ delayed[q] \in Seq(Entry) /\ inflight[q] \in Seq(Held)
  BY QueueTypes
<1>2. PICK u, v, w : u = messages[q] /\ v = Msgs(inflight[q]) /\ w = Msgs(delayed[q])
  OBVIOUS
<1>3. /\ u \in Seq(Message) /\ v \in Seq(Message) /\ w \in Seq(Message)
      /\ Among(v, MessageOf(id)) = Among(inflight[q], HeldOf(id))
      /\ Among(w, MessageOf(id)) = Among(delayed[q], EntryOf(id))
  BY <1>1, <1>2, MsgsOfEntries, MsgsOfHeld
<1>4. PICK x : x = u \o v
  OBVIOUS
<1>5. x \in Seq(Message) /\ Among(x, MessageOf(id)) = Among(u, MessageOf(id)) + Among(v, MessageOf(id))
  BY <1>3, <1>4, AmongConcat
<1>6. PICK all : all = x \o w
  OBVIOUS
<1>7. /\ all \in Seq(Message)
      /\ Among(all, MessageOf(id)) = Among(x, MessageOf(id)) + Among(w, MessageOf(id))
  <2>1. x \in Seq(Message) /\ w \in Seq(Message)
    BY <1>3, <1>5
  <2> QED  BY <1>6, <2>1, AmongConcat
<1>8. DOMAIN all = 1..Len(all) /\ \A i \in 1..Len(all) : all[i] \in Message
  BY <1>7, LenProperties, ElementOfSeq
<1> DEFINE I == {i \in DOMAIN all : all[i].id = id}
<1>9. I # {} /\ m = all[Min(I)]
  BY <1>2, <1>4, <1>6 DEF Found
<1>10. Min(I) \in I
  <2>1. I \in SUBSET Nat
    BY <1>8
  <2> HIDE DEF I
  <2> QED  BY <1>9, <2>1, MinOfSome
<1>11. m \in Message /\ m.id = id /\ Among(all, MessageOf(id)) # 0
  <2>1. PICK i \in 1..Len(all) : m = all[i] /\ all[i].id = id
    BY <1>8, <1>9, <1>10
  <2>2. all[i] \in MessageOf(id)
    BY <1>8, <2>1 DEF MessageOf
  <2> QED  BY <1>7, <1>8, <2>1, <2>2, AmongType
<1>12. HereAt(q, id) # 0
  <2>1. /\ Among(u, MessageOf(id)) \in Nat /\ Among(v, MessageOf(id)) \in Nat
        /\ Among(w, MessageOf(id)) \in Nat
    BY <1>3, AmongType
  <2>2. HereAt(q, id) = Among(u, MessageOf(id)) + Among(w, MessageOf(id)) + Among(v, MessageOf(id))
    BY <1>2, <1>3 DEF HereAt, Here
  <2> QED  BY <1>5, <1>7, <1>11, <2>1, <2>2
<1> QED  BY <1>11, <1>12

\* The dead letter queue gets no copy, or one with a fresh id.
LEMMA RouteCases ==
    ASSUME TypeOK, NEW q \in Queues, RouteToDlq(q)
    PROVE  \/ /\ UNCHANGED <<messages, accepted>>
              /\ generated' \in Nat /\ generated' >= generated /\ generated' <= MaxIds
           \/ \E r \in Queues : /\ generated + 1 \in Ids /\ generated' = generated + 1
                                /\ accepted' = accepted \cup {generated + 1}
                                /\ messages' = [messages EXCEPT ![r] =
                                                  Append(messages[r], NewMessage(generated + 1))]
<1>1. generated \in Nat /\ generated <= MaxIds /\ MaxIds \in Nat
  BY QueueAssumption DEF TypeOK, QueueAssumption
<1> DEFINE r == DeadLetterQueue[q]
<1>2. r # NoQueue => r \in Queues
  BY QueueAssumption DEF QueueAssumption
<1>3. r = NoQueue => UNCHANGED <<messages, generated, accepted>>
  BY DEF RouteToDlq
<1>4. r # NoQueue => /\ generated + 1 \in Ids /\ generated' = generated + 1
                     /\ \/ UNCHANGED <<messages, accepted>>
                        \/ /\ accepted' = accepted \cup {generated + 1}
                           /\ messages' = [messages EXCEPT ![r] =
                                             Append(messages[r], NewMessage(generated + 1))]
  BY DEF RouteToDlq, TypeOK
<1> HIDE DEF r
<1>5. generated + 1 \in Ids => generated + 1 <= MaxIds
  BY <1>1 DEF Ids
<1> QED  BY <1>1, <1>2, <1>3, <1>4, <1>5

\* A message goes to the dead letter queue, and g is left in flight in queue q.
LEMMA RouteStep ==
    ASSUME MemoryInv, NEW q \in Queues, RouteToDlq(q), NEW g \in Seq(Held), Unique(g),
           inflight' = [inflight EXCEPT ![q] = g], UNCHANGED <<delayed, timers, now, ended>>,
           settled \subseteq settled', settled' \subseteq accepted, late' \in [Ids -> Nat],
           \A id \in Ids :
              /\ id \notin accepted => late'[id] = 0
              /\ Among(g, HeldOf(id)) <= Among(inflight[q], HeldOf(id))
              /\ id \notin settled' => Among(g, HeldOf(id)) = Among(inflight[q], HeldOf(id))
              /\ Among(g, HeldOf(id)) + Limit(id)
                     <= Among(inflight[q], HeldOf(id))
                           + (IF id \in accepted \ settled' THEN 1 ELSE 0) + late'[id]
    PROVE  MemoryInv'
<1>1. TypeOK /\ settled \subseteq accepted /\ CopiesInv /\ ScheduleInv /\ now \in Nat
      /\ generated \in Nat /\ MaxIds \in Nat
  <2>1. TypeOK /\ settled \subseteq accepted /\ CopiesInv /\ ScheduleInv
    BY DEF MemoryInv, MemoryTypes
  <2>2. now \in Nat /\ generated \in 0..MaxIds /\ MaxIds \in Nat
    BY <2>1, QueueAssumption DEF TypeOK, QueueAssumption
  <2> QED  BY <2>1, <2>2
<1>2. /\ messages[q] \in Seq(Message) /\ delayed[q] \in Seq(Entry)
      /\ inflight[q] \in Seq(Held) /\ Unique(inflight[q])
  BY <1>1, QueueTypes
<1>3. ScheduleInv'
  <2>1. delayed' = delayed /\ timers' = timers /\ now' = now
    OBVIOUS
  <2>2. DelayedIsScheduled'
    BY <1>1, <2>1 DEF ScheduleInv, DelayedIsScheduled
  <2>3. \A r \in Queues : InBucket(delayed[r])'
    BY <1>1, <2>1 DEF ScheduleInv, InBucket, Items, CeilSecond
  <2> QED  BY <2>2, <2>3 DEF ScheduleInv
<1>4. settled' \subseteq Ids
  BY <1>1 DEF TypeOK, Ids
<1>5. PICK u, d : u = messages[q] /\ d = delayed[q]
  OBVIOUS
<1>6. u \in Seq(Message) /\ d \in Seq(Entry) /\ delayed' = [delayed EXCEPT ![q] = d]
  BY <1>1, <1>2, <1>5 DEF TypeOK
<1>7. ASSUME NEW id \in Ids
      PROVE  /\ Among(u, MessageOf(id)) \in Nat /\ Among(d, EntryOf(id)) \in Nat
             /\ Among(g, HeldOf(id)) \in Nat /\ Among(inflight[q], HeldOf(id)) \in Nat
             /\ HereAt(q, id) = Among(u, MessageOf(id)) + Among(d, EntryOf(id))
                                   + Among(inflight[q], HeldOf(id))
             /\ Limit(id) \in Nat /\ late'[id] \in Nat
  <2>1. /\ Among(u, MessageOf(id)) \in Nat /\ Among(d, EntryOf(id)) \in Nat
        /\ Among(g, HeldOf(id)) \in Nat /\ Among(inflight[q], HeldOf(id)) \in Nat
    BY <1>2, <1>6, AmongType
  <2>2. HereAt(q, id) = Among(u, MessageOf(id)) + Among(d, EntryOf(id))
                           + Among(inflight[q], HeldOf(id))
    BY <1>5 DEF HereAt, Here
  <2>3. Limit(id) \in Nat /\ late'[id] \in Nat
    BY <1>1 DEF Limit, TypeOK
  <2> QED  BY <2>1, <2>2, <2>3
<1>8. CASE UNCHANGED <<messages, accepted>> /\ generated' \in Nat /\ generated' >= generated
           /\ generated' <= MaxIds
  <2>1. messages' = [messages EXCEPT ![q] = u]
    BY <1>1, <1>5, <1>8 DEF TypeOK
  <2>2. accepted' \subseteq 1..generated' /\ generated' \in 0..MaxIds
    <3>1. 1..generated \subseteq 1..generated'
      BY <1>1, <1>8
    <3> QED  BY <1>1, <1>8, <3>1 DEF TypeOK
  <2>3. timers' \subseteq [queue : Queues, at : Nat] /\ now' \in Nat /\ ended' \in BOOLEAN
    BY <1>1 DEF TypeOK
  <2>4. /\ TypeOK' /\ \A id : HereAt(q, id)' = Here(u, d, g, id)
        /\ messages'[q] = u /\ delayed'[q] = d /\ inflight'[q] = g
        /\ \A r \in Queues \ {q} : /\ messages'[r] = messages[r] /\ delayed'[r] = delayed[r]
                                   /\ inflight'[r] = inflight[r]
                                   /\ \A id : PlacesAt(r, id)' = PlacesAt(r, id)
    BY <1>1, <1>4, <1>6, <2>1, <2>2, <2>3, OneChanges
  <2>5. ASSUME NEW id \in Ids PROVE Account(id)'
    <3>1. HereAt(q, id)' = Among(u, MessageOf(id)) + Among(d, EntryOf(id)) + Among(g, HeldOf(id))
      BY <2>4 DEF Here
    <3>2. Limit(id)' = (IF id \in accepted \ settled' THEN 1 ELSE 0) + late'[id]
      BY <1>8 DEF Limit
    <3>3. HereAt(q, id)' + Limit(id) <= HereAt(q, id) + Limit(id)'
      BY <1>7, <3>1, <3>2
    <3>4. Account(id)
      BY <1>1 DEF CopiesInv
    <3>5. id \notin settled' => HereAt(q, id)' = HereAt(q, id) /\ HereAt(q, id) \in Nat
      BY <1>7, <3>1
    <3>6. id \in accepted' \ settled' /\ ~ended' =>
            \/ HereAt(q, id)' >= 1
            \/ HereAt(q, id)' >= HereAt(q, id) /\ id \in accepted \ settled /\ ~ended
      BY <1>8, <3>5
    <3>7. id \notin accepted' => late'[id] = 0
      BY <1>8
    <3> QED  BY <1>1, <2>4, <3>3, <3>4, <3>6, <3>7, AccountMoves
  <2>6. settled' \subseteq accepted'
    BY <1>8
  <2> QED  BY <1>3, <2>4, <2>5, <2>6 DEF MemoryInv, MemoryTypes, CopiesInv, Ids
<1>9. ASSUME NEW r \in Queues, generated + 1 \in Ids, generated' = generated + 1,
             accepted' = accepted \cup {generated + 1},
             messages' = [messages EXCEPT ![r] = Append(messages[r], NewMessage(generated + 1))]
      PROVE  MemoryInv'
  <2>1. PICK new, nm : new = generated + 1 /\ nm = NewMessage(new)
    OBVIOUS
  <2>2. nm \in Message /\ nm.id = new /\ new \in Ids /\ new > generated
    <3>1. 1 \in Nat \ {0} /\ generated + 1 <= MaxIds
      BY <1>1, <1>9 DEF Ids
    <3> QED  BY <1>1, <1>9, <2>1, <3>1, NewMessageType
  <2>3. messages[r] \in Seq(Message) /\ delayed[r] \in Seq(Entry) /\ inflight[r] \in Seq(Held)
        /\ DOMAIN messages[r] = 1..Len(messages[r]) /\ Len(messages[r]) \in Nat
    BY <1>1, QueueTypes, LenProperties
  <2>4. PICK s, a : s = messages[r] /\ a = Append(s, nm)
    OBVIOUS
  <2>5. /\ s \in Seq(Message) /\ a \in Seq(Message)
        /\ \A id : Among(a, MessageOf(id)) = Among(s, MessageOf(id)) + (IF id = new THEN 1 ELSE 0)
    <3>1. s \in Seq(Message)
      BY <2>3, <2>4
    <3>2. \A id : nm \in MessageOf(id) <=> id = new
      BY <2>2 DEF MessageOf
    <3>3. /\ Append(s, nm) \in Seq(Message)
          /\ \A T : Among(Append(s, nm), T) = Among(s, T) + (IF nm \in T THEN 1 ELSE 0)
      BY <2>2, <3>1, AmongAppend
    <3>4. \A id : Among(a, MessageOf(id))
                      = Among(s, MessageOf(id)) + (IF nm \in MessageOf(id) THEN 1 ELSE 0)
      BY <2>4, <3>3
    <3> QED  BY <2>4, <3>1, <3>2, <3>3, <3>4
  <2>6. /\ messages'[r] = a /\ \A x \in Queues \ {r} : messages'[x] = messages[x]
        /\ inflight'[q] = g /\ \A x \in Queues \ {q} : inflight'[x] = inflight[x]
        /\ delayed' = delayed
    BY <1>1, <1>9, <2>1, <2>4 DEF TypeOK
  <2>7. TypeOK'
    <3>1. messages' \in [Queues -> Seq(Message)] /\ inflight' \in [Queues -> Seq(Held)]
      BY <1>1, <1>9, <2>1, <2>4, <2>5 DEF TypeOK, Held
    <3>2. accepted' \subseteq 1..generated' /\ generated' \in 0..MaxIds
      <4>1. 1..generated \subseteq 1..generated + 1 /\ generated + 1 \in 1..generated + 1
            /\ generated + 1 \in 0..MaxIds
        BY <1>1, <1>9 DEF Ids
      <4> QED  BY <1>1, <1>9, <4>1 DEF TypeOK
    <3>3. ASSUME NEW x \in Queues, NEW i \in DOMAIN inflight'[x], NEW j \in DOMAIN inflight'[x],
                 inflight'[x][i].msg.id = inflight'[x][j].msg.id
          PROVE  i = j
      <4>1. CASE x = q
        <5>1. DOMAIN g = 1..Len(g)
          BY LenProperties
        <5> QED  BY <2>6, <3>3, <4>1, <5>1 DEF Unique
      <4>2. CASE x # q
        BY <1>1, <2>6, <3>3, <4>2 DEF TypeOK
      <4> QED  BY <4>1, <4>2
    <3> QED  BY <1>1, <1>4, <3>1, <3>2, <3>3 DEF TypeOK, Held, Message
  <2>8. ASSUME NEW id \in Ids, id # new, NEW x \in Queues \ {q}
        PROVE  PlacesAt(x, id)' = PlacesAt(x, id)
    <3>1. {i \in DOMAIN messages'[x] : messages'[x][i].id = id}
             = {i \in DOMAIN messages[x] : messages[x][i].id = id}
      <4>1. CASE x = r
        <5>1. {i \in DOMAIN a : a[i].id = id} = {i \in DOMAIN s : s[i].id = id}
          <6>1. /\ DOMAIN s = 1..Len(s) /\ Len(s) \in Nat /\ DOMAIN a = 1..Len(s) + 1
                /\ \A i \in 1..Len(s) : a[i] = s[i]
                /\ a[Len(s) + 1] = nm
            BY <2>2, <2>4, <2>5, LenProperties, AppendProperties
          <6> QED  BY <2>2, <2>8, <6>1
        <5> QED  BY <2>4, <2>6, <4>1, <5>1
      <4>2. CASE x # r
        BY <2>6, <4>2
      <4> QED  BY <4>1, <4>2
    <3>2. inflight'[x] = inflight[x] /\ delayed'[x] = delayed[x]
      BY <2>6
    <3> QED  BY <3>1, <3>2 DEF PlacesAt, Msgs
  <2>9. \A id : HereAt(q, id)' = Here(messages'[q], d, g, id)
    BY <1>5, <2>6 DEF HereAt, Here, MessageOf, EntryOf, HeldOf, Message, Entry, Held, Among
  <2>10. ASSUME NEW id \in Ids, id # new PROVE Account(id)'
    <3>1. Among(messages'[q], MessageOf(id)) = Among(u, MessageOf(id))
      <4>1. CASE q = r
        <5>1. s = u /\ messages'[q] = a
          BY <1>5, <2>4, <2>6, <4>1
        <5>2. Among(s, MessageOf(id)) \in Nat
          BY <2>5, AmongType
        <5> QED  BY <2>5, <2>10, <5>1, <5>2
      <4>2. CASE q # r
        BY <1>5, <2>6, <4>2
      <4> QED  BY <4>1, <4>2
    <3>2. HereAt(q, id)' = Among(u, MessageOf(id)) + Among(d, EntryOf(id)) + Among(g, HeldOf(id))
      BY <2>9, <3>1 DEF Here
    <3>3. Limit(id)' = (IF id \in accepted \ settled' THEN 1 ELSE 0) + late'[id]
      BY <1>9, <2>1, <2>10 DEF Limit
    <3>4. HereAt(q, id)' + Limit(id) <= HereAt(q, id) + Limit(id)'
      BY <1>7, <3>2, <3>3
    <3>5. Account(id)
      BY <1>1 DEF CopiesInv
    <3>6. id \notin settled' => HereAt(q, id)' = HereAt(q, id) /\ HereAt(q, id) \in Nat
      BY <1>7, <3>2
    <3>7. id \in accepted' \ settled' /\ ~ended' =>
            \/ HereAt(q, id)' >= 1
            \/ HereAt(q, id)' >= HereAt(q, id) /\ id \in accepted \ settled /\ ~ended
      BY <1>9, <2>1, <2>10, <3>6
    <3>8. id \notin accepted' => late'[id] = 0
      BY <1>9
    <3>9. \A x \in Queues \ {q} : PlacesAt(x, id)' = PlacesAt(x, id)
      BY <2>8, <2>10
    <3> QED  BY <1>1, <2>7, <3>4, <3>5, <3>7, <3>8, <3>9, AccountMoves
  <2>11. Account(new)'
    <3>1. new \notin accepted /\ new \notin settled /\ late[new] = 0 /\ Places(new) = {}
      BY <1>1, <2>2, FreshAccount DEF MemoryTypes
    <3>2. \A x \in Queues : PlacesAt(x, new) = {}
      BY <3>1 DEF Places
    <3>3. ASSUME NEW x \in Queues
          PROVE  /\ Among(messages[x], MessageOf(new)) = 0 /\ Among(delayed[x], EntryOf(new)) = 0
                 /\ Among(inflight[x], HeldOf(new)) = 0
      <4>1. messages[x] \in Seq(Message) /\ delayed[x] \in Seq(Entry) /\ inflight[x] \in Seq(Held)
        BY <1>1, QueueTypes
      <4>2. PlacesAt(x, new) = InQueue(x, messages[x], delayed[x], inflight[x], new)
        BY DEF PlacesAt, InQueue
      <4>3. Here(messages[x], delayed[x], inflight[x], new) = 0
        BY <3>2, <4>1, <4>2, InQueueNumber, FS_EmptySet
      <4>4. /\ Among(messages[x], MessageOf(new)) \in Nat /\ Among(delayed[x], EntryOf(new)) \in Nat
            /\ Among(inflight[x], HeldOf(new)) \in Nat
        BY <4>1, AmongType
      <4> QED  BY <4>3, <4>4 DEF Here
    <3>4. Among(g, HeldOf(new)) = 0
      BY <1>7, <2>2, <3>3
    <3>5. ASSUME NEW x \in Queues
          PROVE  /\ Among(delayed'[x], EntryOf(new)) = 0 /\ Among(inflight'[x], HeldOf(new)) = 0
                 /\ Among(messages'[x], MessageOf(new)) = IF x = r THEN 1 ELSE 0
      <4>1. Among(messages'[x], MessageOf(new)) = IF x = r THEN 1 ELSE 0
        <5>1. CASE x = r
          <6>1. Among(s, MessageOf(new)) = 0 /\ messages'[x] = a
            BY <2>4, <2>6, <3>3, <5>1
          <6>2. Among(a, MessageOf(new)) = Among(s, MessageOf(new)) + 1
            BY <2>5
          <6> QED  BY <5>1, <6>1, <6>2
        <5>2. CASE x # r
          BY <2>6, <3>3, <5>2
        <5> QED  BY <5>1, <5>2
      <4>2. Among(inflight'[x], HeldOf(new)) = 0
        BY <2>6, <3>3, <3>4
      <4> QED  BY <2>6, <3>3, <4>1, <4>2
    <3>6. ASSUME NEW x \in Queues
          PROVE  HereAt(x, new)' = (IF x = r THEN 1 ELSE 0) /\ HereAt(x, new) = 0
      <4>1. HereAt(x, new)' = Here(messages'[x], delayed'[x], inflight'[x], new)
        BY DEF HereAt, Here, MessageOf, EntryOf, HeldOf, Message, Entry, Held, Among
      <4> QED  BY <3>3, <3>5, <4>1 DEF HereAt, Here
    <3>7. ASSUME NEW x \in Queues \ {r} PROVE PlacesAt(x, new)' = PlacesAt(x, new)
      <4>1. messages'[x] \in Seq(Message) /\ delayed'[x] \in Seq(Entry) /\ inflight'[x] \in Seq(Held)
        BY <2>7 DEF TypeOK, Entry, Held, Message
      <4>2. PlacesAt(x, new)' = InQueue(x, messages'[x], delayed'[x], inflight'[x], new)
        BY DEF PlacesAt, InQueue, Msgs
      <4>3. Here(messages'[x], delayed'[x], inflight'[x], new) = 0
        BY <3>5 DEF Here
      <4>4. PlacesAt(x, new)' = {}
        BY <4>1, <4>2, <4>3, InQueueNumber, FS_EmptySet
      <4> QED  BY <3>2, <4>4
    <3>8. Limit(new)' = 1 /\ Limit(new) = 0 /\ new \in accepted'
      <4>1. new \notin settled' /\ late'[new] = 0 /\ new \in accepted'
        BY <1>9, <2>1, <2>2, <3>1
      <4> QED  BY <3>1, <4>1 DEF Limit
    <3>9. HereAt(r, new)' = 1 /\ HereAt(r, new) = 0
      BY <3>6
    <3>10. Account(new)
      BY <1>1, <2>2 DEF CopiesInv
    <3> QED  BY <1>1, <2>2, <2>7, <3>7, <3>8, <3>9, <3>10, AccountMoves
  <2>12. \A id \in Ids : Account(id)'
    BY <2>10, <2>11
  <2>13. settled' \subseteq accepted'
    BY <1>9
  <2> QED  BY <1>3, <2>7, <2>12, <2>13 DEF MemoryInv, MemoryTypes, CopiesInv, Ids
<1>10. \/ UNCHANGED <<messages, accepted>> /\ generated' \in Nat /\ generated' >= generated
          /\ generated' <= MaxIds
       \/ \E r \in Queues : /\ generated + 1 \in Ids /\ generated' = generated + 1
                            /\ accepted' = accepted \cup {generated + 1}
                            /\ messages' = [messages EXCEPT ![r] =
                                              Append(messages[r], NewMessage(generated + 1))]
  BY <1>1, RouteCases
<1> QED  BY <1>8, <1>9, <1>10

LEMMA NackDeadLetterStep ==
    ASSUME MemoryInv, NEW q \in Queues, NEW id, NackDeadLetter(q, id)
    PROVE  MemoryInv'
<1>1. TypeOK /\ settled \subseteq accepted /\ CopiesInv
  BY DEF MemoryInv, MemoryTypes
<1>2. PICK g : g = inflight[q]
  OBVIOUS
<1>3. g \in Seq(Held) /\ Unique(g)
  BY <1>1, <1>2, QueueTypes
<1>4. RouteToDlq(q) /\ UNCHANGED <<delayed, inflight, timers, now, ended, settled, late>>
  BY DEF NackDeadLetter
<1>5. inflight' = [inflight EXCEPT ![q] = g]
  BY <1>1, <1>2, <1>4 DEF TypeOK
<1>6. ASSUME NEW i \in Ids
      PROVE  /\ i \notin accepted => late'[i] = 0
             /\ Among(g, HeldOf(i)) <= Among(inflight[q], HeldOf(i))
             /\ i \notin settled' => Among(g, HeldOf(i)) = Among(inflight[q], HeldOf(i))
             /\ Among(g, HeldOf(i)) + Limit(i)
                    <= Among(inflight[q], HeldOf(i))
                          + (IF i \in accepted \ settled' THEN 1 ELSE 0) + late'[i]
  <2>1. Account(i) /\ late[i] \in Nat /\ Among(g, HeldOf(i)) \in Nat
    BY <1>1, <1>3, HeldNumber DEF CopiesInv, TypeOK
  <2>2. Limit(i) = (IF i \in accepted \ settled' THEN 1 ELSE 0) + late'[i]
    BY <1>4 DEF Limit
  <2>3. i \notin accepted => late'[i] = 0
    BY <1>4, <2>1 DEF Account
  <2> QED  BY <1>2, <1>4, <2>1, <2>2, <2>3
<1>7. settled' \subseteq accepted /\ settled \subseteq settled' /\ late' \in [Ids -> Nat]
  BY <1>1, <1>4 DEF TypeOK
<1> QED  BY <1>3, <1>4, <1>5, <1>6, <1>7, RouteStep

LEMMA NackRequeueStep ==
    ASSUME MemoryInv, NEW q \in Queues, NEW id, NEW ms \in Delays, NackRequeue(q, id, ms)
    PROVE  MemoryInv'
<1>1. TypeOK /\ settled \subseteq accepted /\ CopiesInv /\ ScheduleInv /\ now \in Nat
  BY DEF MemoryInv, MemoryTypes, TypeOK
<1>2. /\ messages[q] \in Seq(Message) /\ delayed[q] \in Seq(Entry)
      /\ inflight[q] \in Seq(Held) /\ Unique(inflight[q])
      /\ DOMAIN inflight[q] = 1..Len(inflight[q])
  BY <1>1, QueueTypes
<1> DEFINE again(m) == [m EXCEPT !.attempt = @ + 1]
           isLate == id \notin InflightIds(q)
<1>3. PICK m \in Found(q, id) :
         /\ ~ended /\ inflight' = [inflight EXCEPT ![q] = Without(inflight[q], {id})]
         /\ IF OutOfAttempts(again(m))
            THEN RouteToDlq(q) /\ settled' = settled \cup {id} /\ UNCHANGED <<delayed, timers>>
            ELSE /\ IF ms > 0
                    THEN /\ delayed' = [delayed EXCEPT ![q] = Delay(delayed[q], again(m), ms)]
                         /\ timers' = timers \cup {TimerFor(q, delayed'[q])}
                         /\ UNCHANGED messages
                    ELSE /\ messages' = [messages EXCEPT ![q] = Append(messages[q], again(m))]
                         /\ UNCHANGED <<delayed, timers>>
                 /\ UNCHANGED <<generated, accepted, settled>>
         /\ late' = [late EXCEPT ![id] = IF isLate THEN late[id] + 1 ELSE late[id]]
         /\ UNCHANGED <<now, ended>>
  <2>1. ASSUME NEW m \in Found(q, id) PROVE id \in Ids
    BY <1>1, <2>1, FoundMessage DEF Message
  <2> QED  BY <1>1, <2>1 DEF NackRequeue, TypeOK
<1>4. m \in Message /\ m.id = id /\ HereAt(q, id) # 0 /\ id \in Ids
  <2>1. m \in Message /\ m.id = id /\ HereAt(q, id) # 0
    BY <1>1, FoundMessage
  <2> QED  BY <2>1 DEF Message
<1>5. id \in accepted
  BY <1>1, <1>4, CopyIsKnown DEF MemoryTypes
<1>6. PICK g : g = Without(inflight[q], {id})
  OBVIOUS
<1>7. /\ g \in Seq(Held) /\ Unique(g)
      /\ \A i : Among(g, HeldOf(i)) = IF i = id THEN 0 ELSE Among(inflight[q], HeldOf(i))
  <2>1. \A i : i \in {id} <=> i = id
    OBVIOUS
  <2> QED  BY <1>2, <1>6, <2>1, WithoutIds
<1>8. /\ isLate => Among(inflight[q], HeldOf(id)) = 0
      /\ ~isLate => Among(inflight[q], HeldOf(id)) = 1
  <2>1. isLate <=> Among(inflight[q], HeldOf(id)) = 0
    <3>1. Among(inflight[q], HeldOf(id)) # 0 <=> \E i \in 1..Len(inflight[q]) : inflight[q][i].msg.id = id
      BY <1>2, HeldNumber
    <3>2. id \in InflightIds(q) <=> \E i \in 1..Len(inflight[q]) : inflight[q][i].msg.id = id
      BY <1>2 DEF InflightIds
    <3> QED  BY <3>1, <3>2
  <2>2. Among(inflight[q], HeldOf(id)) \in Nat /\ Among(inflight[q], HeldOf(id)) <= 1
    BY <1>2, HeldNumber, UniqueNumber
  <2> HIDE DEF isLate
  <2> QED  BY <2>1, <2>2
<1> HIDE DEF isLate
<1>9. /\ late' \in [Ids -> Nat] /\ \A i \in Ids : i # id => late'[i] = late[i]
      /\ late'[id] = IF isLate THEN late[id] + 1 ELSE late[id]
      /\ \A i \in Ids : late[i] \in Nat
  BY <1>1, <1>3, <1>4 DEF TypeOK
<1>10. inflight' = [inflight EXCEPT ![q] = g] /\ now' = now /\ ended' = ended
  BY <1>3, <1>6
<1>11. \A i \in Ids : i \notin accepted => late'[i] = 0
  BY <1>1, <1>5, <1>9 DEF CopiesInv, Account
<1>12. CASE OutOfAttempts(again(m))
  <2>1. RouteToDlq(q) /\ settled' = settled \cup {id} /\ UNCHANGED <<delayed, timers>>
    BY <1>3, <1>12
  <2>2. ASSUME NEW i \in Ids
        PROVE  /\ i \notin accepted => late'[i] = 0
               /\ Among(g, HeldOf(i)) <= Among(inflight[q], HeldOf(i))
               /\ i \notin settled' => Among(g, HeldOf(i)) = Among(inflight[q], HeldOf(i))
               /\ Among(g, HeldOf(i)) + Limit(i)
                      <= Among(inflight[q], HeldOf(i))
                            + (IF i \in accepted \ settled' THEN 1 ELSE 0) + late'[i]
    <3>1. late[i] \in Nat /\ Among(inflight[q], HeldOf(i)) \in Nat
      BY <1>2, <1>9, HeldNumber
    <3>2. Limit(i) = (IF i \in accepted \ settled THEN 1 ELSE 0) + late[i]
      BY DEF Limit
    <3>3. CASE i = id
      BY <1>7, <1>8, <1>9, <1>11, <2>1, <3>1, <3>2, <3>3
    <3>4. CASE i # id
      BY <1>7, <1>9, <1>11, <2>1, <3>1, <3>2, <3>4
    <3> QED  BY <3>3, <3>4
  <2>3. settled' \subseteq accepted /\ settled \subseteq settled'
    BY <1>1, <1>5, <2>1
  <2>4. UNCHANGED <<delayed, timers, now, ended>>
    BY <1>10, <2>1
  <2> QED  BY <1>7, <1>9, <1>10, <2>1, <2>2, <2>3, <2>4, RouteStep
<1>13. CASE ~OutOfAttempts(again(m))
  <2>1. PICK a : a = again(m)
    OBVIOUS
  <2>2. a \in Message /\ a.id = id
    <3>1. m \in [id : Ids, attempt : 1..MaxAttempts, given : Nat]
      BY <1>4 DEF Message
    <3>2. m.attempt + 1 \in 1..MaxAttempts
      <4>1. again(m).attempt = m.attempt + 1
        BY <3>1
      <4>2. MaxAttempts \in Nat
        BY QueueAssumption DEF QueueAssumption
      <4> QED  BY <1>13, <3>1, <4>1, <4>2 DEF OutOfAttempts
    <3> QED  BY <1>4, <2>1, <3>1, <3>2 DEF Message
  <2> HIDE DEF again
  <2> DEFINE u == IF ms > 0 THEN messages[q] ELSE Append(messages[q], a)
             d == IF ms > 0 THEN Delay(delayed[q], a, ms) ELSE delayed[q]
  <2>3. /\ messages' = [messages EXCEPT ![q] = u] /\ delayed' = [delayed EXCEPT ![q] = d]
        /\ timers' = timers \cup (IF ms > 0 THEN {TimerFor(q, d)} ELSE {})
        /\ UNCHANGED <<generated, accepted, settled>>
    BY <1>1, <1>3, <1>13, <2>1 DEF TypeOK
  <2>4. /\ u \in Seq(Message)
        /\ \A i : Among(u, MessageOf(i)) = Among(messages[q], MessageOf(i))
                                              + (IF ~(ms > 0) /\ i = id THEN 1 ELSE 0)
    <3>1. /\ Append(messages[q], a) \in Seq(Message)
          /\ \A T : Among(Append(messages[q], a), T)
                        = Among(messages[q], T) + (IF a \in T THEN 1 ELSE 0)
      BY <1>2, <2>2, AmongAppend
    <3>2. \A i : a \in MessageOf(i) <=> i = id
      BY <2>2 DEF MessageOf
    <3>3. \A i : Among(messages[q], MessageOf(i)) \in Nat
      BY <1>2, AmongType
    <3> QED  BY <1>2, <3>1, <3>2, <3>3
  <2>5. ms \in Nat
    BY QueueAssumption DEF QueueAssumption
  <2>6. /\ d \in Seq(Entry) /\ InBucket(d) /\ (ms > 0 => d # <<>>)
        /\ \A i : Among(d, EntryOf(i)) = Among(delayed[q], EntryOf(i))
                                            + (IF ms > 0 /\ i = id THEN 1 ELSE 0)
    <3>1. InBucket(delayed[q])
      BY <1>1 DEF ScheduleInv
    <3>2. /\ Delay(delayed[q], a, ms) \in Seq(Entry)
          /\ \A i : Among(Delay(delayed[q], a, ms), EntryOf(i)) =
                        Among(delayed[q], EntryOf(i)) + (IF a.id = i THEN 1 ELSE 0)
          /\ Delay(delayed[q], a, ms) # <<>>
          /\ InBucket(Delay(delayed[q], a, ms))
      BY <1>1, <1>2, <2>2, <2>5, <3>1, DelayProperties
    <3>3. \A i : Among(delayed[q], EntryOf(i)) \in Nat
      BY <1>2, AmongType
    <3> QED  BY <1>2, <2>2, <3>1, <3>2, <3>3
  <2> HIDE DEF u
  <2>7. Covered(q, delayed[q], timers, now)
    BY <1>1, WasCovered
  <2>8. Covered(q, d, timers', now) /\ timers' \subseteq [queue : Queues, at : Nat]
    <3>1. CASE ms > 0
      <4> HIDE DEF d
      <4>1. /\ TimerFor(q, d).queue = q /\ TimerFor(q, d).at \in Nat
            /\ TimerFor(q, d) = [queue |-> q, at |-> TimerFor(q, d).at]
            /\ \A e \in Items(d) : TimerFor(q, d).at <= Max({now, e.bucket * Second})
        BY <1>1, <2>6, <3>1, TimerProperties
      <4>2. TimerFor(q, d) \in [queue : Queues, at : Nat] /\ TimerFor(q, d) \in timers'
        BY <2>3, <3>1, <4>1
      <4>3. timers' = timers \cup {TimerFor(q, d)}
        BY <2>3, <3>1
      <4> QED  BY <1>1, <4>1, <4>2, <4>3 DEF Covered, TypeOK
    <3>2. CASE ~(ms > 0)
      BY <1>1, <2>3, <2>7, <3>2 DEF TypeOK
    <3> QED  BY <3>1, <3>2
  <2> HIDE DEF d
  <2>9. /\ TypeOK' /\ \A i : HereAt(q, i)' = Here(u, d, g, i)
        /\ messages'[q] = u /\ delayed'[q] = d /\ inflight'[q] = g
        /\ \A r \in Queues \ {q} : /\ messages'[r] = messages[r] /\ delayed'[r] = delayed[r]
                                   /\ inflight'[r] = inflight[r]
                                   /\ \A i : PlacesAt(r, i)' = PlacesAt(r, i)
    <3>1. /\ now' \in Nat /\ ended' \in BOOLEAN
          /\ generated' \in 0..MaxIds /\ accepted' \subseteq 1..generated'
          /\ settled' \subseteq Ids
      BY <1>1, <1>10, <2>3 DEF TypeOK
    <3>2. /\ messages' = [messages EXCEPT ![q] = u] /\ delayed' = [delayed EXCEPT ![q] = d]
      BY <2>3
    <3> QED  BY <1>1, <1>7, <1>9, <1>10, <2>4, <2>6, <2>8, <3>1, <3>2, OneChanges
  <2>10. ScheduleInv'
    <3>1. \A t \in timers : t \in timers'
      BY <2>3
    <3> QED  BY <1>1, <1>10, <2>6, <2>8, <2>9, <3>1, ScheduleMoves
  <2>11. ASSUME NEW i \in Ids PROVE Account(i)'
    <3>1. /\ Among(messages[q], MessageOf(i)) \in Nat /\ Among(delayed[q], EntryOf(i)) \in Nat
          /\ Among(inflight[q], HeldOf(i)) \in Nat /\ late[i] \in Nat
      BY <1>2, <1>9, AmongType
    <3>2. HereAt(q, i) = Among(messages[q], MessageOf(i)) + Among(delayed[q], EntryOf(i))
                           + Among(inflight[q], HeldOf(i))
      BY DEF HereAt, Here
    <3>3. HereAt(q, i)' = Among(u, MessageOf(i)) + Among(d, EntryOf(i)) + Among(g, HeldOf(i))
      BY <2>9 DEF Here
    <3>4. /\ HereAt(q, i)' + late[i] = HereAt(q, i) + late'[i] /\ HereAt(q, i)' >= HereAt(q, i)
          /\ HereAt(q, i) \in Nat /\ HereAt(q, i)' \in Nat
      <4>1. CASE i = id
        <5>1. /\ Among(u, MessageOf(i)) = Among(messages[q], MessageOf(i)) + (IF ms > 0 THEN 0 ELSE 1)
              /\ Among(d, EntryOf(i)) = Among(delayed[q], EntryOf(i)) + (IF ms > 0 THEN 1 ELSE 0)
              /\ Among(g, HeldOf(i)) = 0
          BY <1>7, <2>4, <2>6, <3>1, <4>1
        <5>2. /\ isLate => Among(inflight[q], HeldOf(i)) = 0
              /\ ~isLate => Among(inflight[q], HeldOf(i)) = 1
              /\ late'[i] = IF isLate THEN late[i] + 1 ELSE late[i]
          BY <1>8, <1>9, <4>1
        <5> QED  BY <3>1, <3>2, <3>3, <5>1, <5>2
      <4>2. CASE i # id
        <5>1. /\ Among(u, MessageOf(i)) = Among(messages[q], MessageOf(i))
              /\ Among(d, EntryOf(i)) = Among(delayed[q], EntryOf(i))
              /\ Among(g, HeldOf(i)) = Among(inflight[q], HeldOf(i))
              /\ late'[i] = late[i]
          BY <1>7, <1>9, <2>4, <2>6, <3>1, <4>2
        <5> QED  BY <3>1, <3>2, <3>3, <5>1
      <4> QED  BY <4>1, <4>2
    <3>5. /\ Limit(i)' = (IF i \in accepted \ settled THEN 1 ELSE 0) + late'[i]
          /\ Limit(i) = (IF i \in accepted \ settled THEN 1 ELSE 0) + late[i]
          /\ late'[i] \in Nat
      BY <1>9, <2>3 DEF Limit
    <3>6. HereAt(q, i)' + Limit(i) <= HereAt(q, i) + Limit(i)'
      BY <3>1, <3>4, <3>5
    <3>7. Account(i)
      BY <1>1 DEF CopiesInv
    <3>8. i \notin accepted' => late'[i] = 0
      BY <1>11, <2>3
    <3>9. i \in accepted' \ settled' /\ ~ended' =>
            \/ HereAt(q, i)' >= 1
            \/ HereAt(q, i)' >= HereAt(q, i) /\ i \in accepted \ settled /\ ~ended
      BY <1>10, <2>3, <3>4
    <3>10. \A r \in Queues \ {q} : PlacesAt(r, i)' = PlacesAt(r, i)
      BY <2>9
    <3> QED  BY <1>1, <2>9, <3>6, <3>7, <3>8, <3>9, <3>10, AccountMoves
  <2>12. settled' \subseteq accepted'
    BY <1>1, <2>3
  <2> QED  BY <2>9, <2>10, <2>11, <2>12 DEF MemoryInv, MemoryTypes, CopiesInv, Ids
<1> QED  BY <1>12, <1>13

LEMMA EndStep ==
    ASSUME MemoryInv, End
    PROVE  MemoryInv'
<1>1. TypeOK /\ settled \subseteq accepted /\ CopiesInv
  BY DEF MemoryInv, MemoryTypes
<1>2. /\ messages' = [q \in Queues |-> <<>>] /\ delayed' = [q \in Queues |-> <<>>]
      /\ inflight' = [q \in Queues |-> <<>>] /\ timers' = {} /\ ended' = TRUE
      /\ UNCHANGED <<now, generated, accepted, settled, late>>
  BY DEF End, history
<1>3. TypeOK'
  BY <1>1, <1>2 DEF TypeOK, Message
<1>4. ASSUME NEW id \in Ids PROVE Account(id)'
  <2>1. \A q \in Queues : PlacesAt(q, id)' = {}
    BY <1>2 DEF PlacesAt, Msgs
  <2>2. Places(id)' = {}
    BY <2>1 DEF Places
  <2>3. Copies(id)' = 0 /\ IsFiniteSet(Places(id)')
    BY <2>2, FS_EmptySet DEF Copies
  <2>4. Limit(id)' \in Nat
    BY <1>1, <1>2 DEF Limit, TypeOK
  <2>5. Account(id)
    BY <1>1 DEF CopiesInv
  <2> QED  BY <1>2, <2>3, <2>4, <2>5 DEF Account
<1>5. ScheduleInv'
  <2>1. DelayedIsScheduled'
    BY <1>2 DEF DelayedIsScheduled
  <2>2. \A q \in Queues : InBucket(delayed[q])'
    BY <1>2 DEF InBucket, Items
  <2> QED  BY <2>1, <2>2 DEF ScheduleInv
<1>6. settled' \subseteq accepted'
  BY <1>1, <1>2
<1> QED  BY <1>3, <1>4, <1>5, <1>6 DEF MemoryInv, MemoryTypes, CopiesInv, Ids

\* Time goes on, or nothing happens.
LEMMA TimePasses ==
    ASSUME MemoryInv, now' \in Nat, now' >= now,
           UNCHANGED <<messages, delayed, inflight, timers, ended, generated, accepted, settled, late>>
    PROVE  MemoryInv'
<1>1. TypeOK /\ settled \subseteq accepted /\ CopiesInv /\ ScheduleInv
  BY DEF MemoryInv, MemoryTypes
<1>2. TypeOK'
  BY <1>1 DEF TypeOK, Message
<1>3. ASSUME NEW id \in Ids PROVE Account(id)'
  <2>1. Places(id)' = Places(id)
    BY DEF Places, PlacesAt, Msgs
  <2>2. Copies(id)' = Copies(id) /\ Limit(id)' = Limit(id)
    BY <2>1 DEF Copies, Limit
  <2>3. Account(id)
    BY <1>1 DEF CopiesInv
  <2> QED  BY <2>1, <2>2, <2>3 DEF Account
<1>4. ScheduleInv'
  <2>1. ASSUME NEW q \in Queues, NEW i \in DOMAIN delayed[q]
        PROVE  \E t \in timers : t.queue = q /\ t.at <= Max({now', delayed[q][i].bucket * Second})
    <3>1. PICK t \in timers : t.queue = q /\ t.at <= Max({now, delayed[q][i].bucket * Second})
      BY <1>1, <2>1 DEF ScheduleInv, DelayedIsScheduled
    <3>2. delayed[q][i].bucket \in Nat /\ t.at \in Nat /\ now \in Nat
      <4>1. delayed[q] \in Seq(Entry) /\ DOMAIN delayed[q] = 1..Len(delayed[q])
        BY <1>1, QueueTypes
      <4>2. delayed[q][i] \in Entry
        BY <2>1, <4>1, ElementOfSeq
      <4> QED  BY <1>1, <4>2 DEF Entry, TypeOK
    <3>3. PICK b : b = delayed[q][i].bucket * Second
      OBVIOUS
    <3>4. b \in Nat
      BY <3>2, <3>3, Scaled
    <3>5. /\ Max({now, b}) = IF now >= b THEN now ELSE b
          /\ Max({now', b}) = IF now' >= b THEN now' ELSE b
      BY <3>2, <3>4, MaxOfTwo
    <3>6. t.at <= Max({now, b})
      BY <3>1, <3>3
    <3>7. t.at <= Max({now', b})
      BY <3>2, <3>4, <3>5, <3>6
    <3> QED  BY <3>1, <3>3, <3>7
  <2>2. DelayedIsScheduled'
    BY <2>1 DEF DelayedIsScheduled
  <2>3. \A q \in Queues : InBucket(delayed[q])'
    BY <1>1 DEF ScheduleInv, InBucket, Items, CeilSecond
  <2> QED  BY <2>2, <2>3 DEF ScheduleInv
<1>5. settled' \subseteq accepted'
  BY <1>1
<1> QED  BY <1>2, <1>3, <1>4, <1>5 DEF MemoryInv, MemoryTypes, CopiesInv, Ids

LEMMA MemoryInit == Init => MemoryInv
<1> SUFFICES ASSUME Init PROVE MemoryInv
  OBVIOUS
<1>1. TypeOK
  <2>1. /\ messages \in [Queues -> Seq(Message)]
        /\ delayed \in [Queues -> Seq([bucket : Nat, due : Nat, msg : Message])]
        /\ inflight \in [Queues -> Seq([msg : Message, at : Nat])]
    BY DEF Init
  <2>2. timers = {} /\ now = 0 /\ ended = FALSE /\ accepted = {} /\ settled = {}
        /\ late \in [Ids -> Nat]
    BY DEF Init
  <2>3. generated \in 0..MaxIds
    BY QueueAssumption DEF Init, QueueAssumption
  <2>4. \A q \in Queues : \A i, j \in DOMAIN inflight[q] :
           inflight[q][i].msg.id = inflight[q][j].msg.id => i = j
    BY DEF Init
  <2> QED  BY <2>1, <2>2, <2>3, <2>4 DEF TypeOK
<1>2. ASSUME NEW id \in Ids PROVE Account(id)
  <2>1. \A q \in Queues : PlacesAt(q, id) = {}
    BY DEF Init, PlacesAt, Msgs
  <2>2. Places(id) = {}
    BY <2>1 DEF Places
  <2>3. Copies(id) = 0 /\ IsFiniteSet(Places(id))
    BY <2>2, FS_EmptySet DEF Copies
  <2> QED  BY <2>3 DEF Account, Limit, Init
<1>3. ScheduleInv
  BY DEF Init, ScheduleInv, DelayedIsScheduled, InBucket, Items
<1> QED  BY <1>1, <1>2, <1>3 DEF MemoryInv, MemoryTypes, CopiesInv, Init

LEMMA MemoryStep == MemoryInv /\ [Next]_vars => MemoryInv'
<1> SUFFICES ASSUME MemoryInv, [Next]_vars PROVE MemoryInv'
  OBVIOUS
<1>1. CASE UNCHANGED vars
  <2>1. now \in Nat
    BY DEF MemoryInv, MemoryTypes, TypeOK
  <2> QED  BY <1>1, <2>1, TimePasses DEF vars, history
<1>2. CASE Tick
  <2>1. now \in Nat
    BY DEF MemoryInv, MemoryTypes, TypeOK
  <2>2. now' = now + 1 /\ UNCHANGED <<messages, delayed, inflight, timers, ended, generated,
                                      accepted, settled, late>>
    BY <1>2 DEF Tick, stores, history
  <2> QED  BY <2>1, <2>2, TimePasses
<1>3. CASE End
  BY <1>3, EndStep
<1>4. ASSUME NEW t \in timers, TimerFires(t) PROVE MemoryInv'
  BY <1>4, TimerStep
<1>5. ASSUME NEW q \in Queues, NEW n \in 1..MaxBatch, NEW ms \in Delays, SendBatch(q, n, ms)
      PROVE  MemoryInv'
  BY <1>5, SendBatchStep
<1>6. ASSUME NEW q \in Queues, NEW count \in 1..MaxBatch, Receive(q, count) PROVE MemoryInv'
  BY <1>6, ReceiveStep
<1>7. ASSUME NEW q \in Queues, NEW ids, Ack(q, ids) PROVE MemoryInv'
  BY <1>7, AckStep
<1>8. ASSUME NEW q \in Queues, NEW id, NackDeadLetter(q, id) PROVE MemoryInv'
  BY <1>8, NackDeadLetterStep
<1>9. ASSUME NEW q \in Queues, NEW id, NEW ms \in Delays, NackRequeue(q, id, ms) PROVE MemoryInv'
  BY <1>9, NackRequeueStep
<1> QED  BY <1>1, <1>2, <1>3, <1>4, <1>5, <1>6, <1>7, <1>8, <1>9 DEF Next

-----------------------------------------------------------------------------
(* The in-memory queue: what its steps may not do. *)

LEMMA SetOfItems ==
    ASSUME NEW S, NEW s \in Seq(S)
    PROVE  ToSet(s) = Items(s)
<1>1. DOMAIN s = 1..Len(s)
  BY LenProperties
<1> QED  BY <1>1 DEF ToSet, Items

\* In flight after a receive: what was and has not expired, and what is delivered.
LEMMA InflightAfterReceive ==
    ASSUME TypeOK, NEW q \in Queues, NEW count \in 1..MaxBatch, Receive(q, count),
           NEW e \in Items(inflight'[q])
    PROVE  \/ e \in Items(inflight[q])
           \/ \E m \in Items(Promoted(q)) \cup Items(Expired(q)) : e = Delivery(m)
<1>1. Promoted(q) \in Seq(Message) /\ Expired(q) \in Seq(Message)
      /\ NotExpired(q) \in Seq(Held) /\ Unique(NotExpired(q)) /\ now \in Nat
      /\ Items(NotExpired(q)) \subseteq Items(inflight[q])
  BY Promotion, Expiry DEF TypeOK
<1>2. PICK p, x, ne : p = Promoted(q) /\ x = Expired(q) /\ ne = NotExpired(q)
  OBVIOUS
<1>3. p \in Seq(Message) /\ x \in Seq(Message) /\ ne \in Seq(Held) /\ Unique(ne)
  BY <1>1, <1>2
<1>4. PICK a : a = p \o x
  OBVIOUS
<1>5. /\ a \in Seq(Message) /\ Len(a) = Len(p) + Len(x) /\ Len(p) \in Nat /\ Len(x) \in Nat
      /\ \A i \in 1..Len(p) + Len(x) : a[i] = IF i <= Len(p) THEN p[i] ELSE x[i - Len(p)]
  BY <1>3, <1>4, ConcatProperties, LenProperties
<1>6. PICK n : n = Min({count, Len(a)})
  OBVIOUS
<1>7. n \in 0..Len(a)
  <2>1. {count, Len(a)} \in SUBSET Nat /\ {count, Len(a)} # {} /\ count \in Nat
    BY <1>5
  <2>2. n \in {count, Len(a)} /\ n <= Len(a)
    BY <1>6, <2>1, MinOfSome
  <2> QED  BY <1>5, <2>1, <2>2
<1>8. PICK taken : taken = SubSeq(a, 1, n)
  OBVIOUS
<1>9. taken \in Seq(Message) /\ Len(taken) = n /\ \A i \in 1..n : taken[i] = a[i]
  BY <1>5, <1>7, <1>8, AmongCut
<1>10. PICK f : f = DeliverAll(ne, taken)
  OBVIOUS
<1>11. inflight'[q] = f
  BY <1>2, <1>4, <1>6, <1>8, <1>10 DEF Receive, TypeOK
<1>12. /\ f \in Seq(Held)
       /\ \A k \in 1..Len(f) : \/ \E i \in 1..Len(ne) : f[k] = ne[i]
                               \/ \E j \in 1..Len(taken) : f[k] = Delivery(taken[j])
  BY <1>1, <1>3, <1>9, <1>10, DeliverMany
<1>13. PICK k \in 1..Len(f) : e = f[k]
  BY <1>11 DEF Items
<1>14. CASE \E i \in 1..Len(ne) : f[k] = ne[i]
  BY <1>1, <1>2, <1>13, <1>14 DEF Items
<1>15. ASSUME NEW j \in 1..Len(taken), f[k] = Delivery(taken[j])
       PROVE  \E m \in Items(p) \cup Items(x) : e = Delivery(m)
  <2>1. j \in 1..n /\ j \in 1..Len(p) + Len(x) /\ taken[j] = a[j]
    BY <1>5, <1>7, <1>9, <1>15
  <2>2. CASE j <= Len(p)
    <3>1. taken[j] \in Items(p)
      BY <1>5, <2>1, <2>2 DEF Items
    <3> QED  BY <1>13, <1>15, <3>1
  <2>3. CASE ~(j <= Len(p))
    <3>1. taken[j] = x[j - Len(p)] /\ j - Len(p) \in 1..Len(x)
      BY <1>5, <2>1, <2>3
    <3>2. taken[j] \in Items(x)
      BY <3>1 DEF Items
    <3> QED  BY <1>13, <1>15, <3>2
  <2> QED  BY <2>2, <2>3
<1> QED  BY <1>2, <1>12, <1>13, <1>14, <1>15

\* Only a receive puts something in flight.
LEMMA InflightShrinks ==
    ASSUME TypeOK, NEW q \in Queues, [Next]_vars, ~(\E count \in 1..MaxBatch : Receive(q, count))
    PROVE  Items(inflight'[q]) \subseteq Items(inflight[q])
<1>1. \A r \in Queues : inflight[r] \in Seq(Held) /\ DOMAIN inflight = Queues
  BY QueueTypes DEF TypeOK
<1>2. CASE inflight'[q] = inflight[q]
  BY <1>2
<1>3. ASSUME NEW G, inflight'[q] = Without(inflight[q], G)
      PROVE  Items(inflight'[q]) \subseteq Items(inflight[q])
  BY <1>1, <1>3, WithoutIds
<1>4. CASE UNCHANGED vars \/ Tick
  BY <1>2, <1>4 DEF vars, Tick, stores
<1>5. CASE End
  <2>1. inflight'[q] = <<>>
    BY <1>5 DEF End
  <2> QED  BY <2>1 DEF Items
<1>6. ASSUME NEW t \in timers, TimerFires(t) PROVE inflight' = inflight
  BY <1>6 DEF TimerFires
<1>7. ASSUME NEW r \in Queues, NEW n \in 1..MaxBatch, NEW ms \in Delays, SendBatch(r, n, ms)
      PROVE  inflight' = inflight
  BY <1>7 DEF SendBatch
<1>8. ASSUME NEW r \in Queues, NEW count \in 1..MaxBatch, Receive(r, count)
      PROVE  inflight'[q] = inflight[q]
  <2>1. r # q
    BY <1>8
  <2> QED  BY <1>1, <1>8, <2>1 DEF Receive
<1>9. ASSUME NEW r \in Queues, NEW ids, Ack(r, ids)
      PROVE  inflight'[q] = inflight[q] \/ \E G : inflight'[q] = Without(inflight[q], G)
  BY <1>1, <1>9 DEF Ack
<1>10. ASSUME NEW r \in Queues, NEW id, NackDeadLetter(r, id) PROVE inflight' = inflight
  BY <1>10 DEF NackDeadLetter
<1>11. ASSUME NEW r \in Queues, NEW id, NEW ms \in Delays, NackRequeue(r, id, ms)
       PROVE  inflight'[q] = inflight[q] \/ \E G : inflight'[q] = Without(inflight[q], G)
  <2>1. inflight' = [inflight EXCEPT ![r] = Without(inflight[r], {id})]
    BY <1>11 DEF NackRequeue
  <2> QED  BY <1>1, <2>1
<1> QED  BY <1>2, <1>3, <1>4, <1>5, <1>6, <1>7, <1>8, <1>9, <1>10, <1>11 DEF Next

\* A message in flight has the only copy, unless a requeue of it came late.
LEMMA HiddenStep ==
    ASSUME MemoryInv, [Next]_vars, NEW q \in Queues, NEW d \in ToSet(inflight[q]),
           NEW e \in ToSet(inflight'[q]), MemoryInv',
           d.msg.id = e.msg.id, e.msg.given > d.msg.given, late[d.msg.id] = 0
    PROVE  now - d.at >= VisibilityTimeout
<1>1. TypeOK /\ CopiesInv /\ settled \subseteq accepted /\ now \in Nat
  BY DEF MemoryInv, MemoryTypes, TypeOK
<1>2. /\ inflight[q] \in Seq(Held) /\ Unique(inflight[q]) /\ messages[q] \in Seq(Message)
      /\ delayed[q] \in Seq(Entry)
  BY <1>1, QueueTypes
<1>3. d \in Items(inflight[q]) /\ e \in Items(inflight'[q])
  <2>1. inflight'[q] \in Seq(Held)
    BY DEF MemoryInv, MemoryTypes, TypeOK, Held, Message
  <2> QED  BY <1>2, <2>1, SetOfItems
<1>4. PICK i \in 1..Len(inflight[q]) : d = inflight[q][i]
  BY <1>3 DEF Items
<1>5. d \in Held
  BY <1>2, <1>4, ElementOfSeq
<1>6. ASSUME NEW c \in Items(inflight[q]), c.msg.id = d.msg.id PROVE c = d
  BY <1>2, <1>4, <1>6 DEF Items, Unique
<1>7. e \notin Items(inflight[q])
  <2> SUFFICES ASSUME e \in Items(inflight[q]) PROVE FALSE
    OBVIOUS
  <2>1. e = d
    BY <1>6
  <2>2. d.msg.given \in Nat
    BY <1>5 DEF Held, Message
  <2> QED  BY <2>1, <2>2
<1>8. PICK count \in 1..MaxBatch : Receive(q, count)
  BY <1>1, <1>3, <1>7, InflightShrinks
<1>9. PICK m \in Items(Promoted(q)) \cup Items(Expired(q)) : e = Delivery(m)
  BY <1>1, <1>3, <1>7, <1>8, InflightAfterReceive
<1>10. /\ Promoted(q) \in Seq(Message) /\ Expired(q) \in Seq(Message)
       /\ \A c \in Items(Expired(q)) : \E b \in Items(inflight[q]) : IsExpired(b) /\ c = b.msg
       /\ \A id : Among(Promoted(q), MessageOf(id)) + Among(NotDue(q), EntryOf(id))
                          = Among(messages[q], MessageOf(id)) + Among(delayed[q], EntryOf(id))
       /\ NotDue(q) \in Seq(Entry)
  BY <1>1, Promotion, Expiry
<1>11. m \in Message /\ m.id = d.msg.id
  <2>1. m \in Message
    BY <1>9, <1>10, ElementOfSeq DEF Items
  <2> QED  BY <1>1, <1>9, <2>1, DeliveryType
<1>12. CASE m \in Items(Expired(q))
  <2>1. PICK b \in Items(inflight[q]) : IsExpired(b) /\ m = b.msg
    BY <1>10, <1>12
  <2>2. b = d
    BY <1>6, <1>11, <2>1
  <2>3. d.at \in Nat /\ VisibilityTimeout \in Nat
    BY <1>5, QueueAssumption DEF Held, QueueAssumption
  <2> QED  BY <1>1, <2>1, <2>2, <2>3 DEF IsExpired
<1>13. CASE m \in Items(Promoted(q))
  <2>1. PICK id \in Ids : id = m.id
    BY <1>11 DEF Message
  <2>2. Among(Promoted(q), MessageOf(id)) # 0
    <3>1. PICK k \in 1..Len(Promoted(q)) : m = Promoted(q)[k]
      BY <1>13 DEF Items
    <3>2. Promoted(q)[k] \in MessageOf(id)
      BY <1>11, <2>1, <3>1 DEF MessageOf
    <3> QED  BY <1>10, <3>2, AmongType
  <2>3. Among(inflight[q], HeldOf(id)) # 0
    BY <1>2, <1>4, <1>11, <2>1, HeldNumber
  <2>4. /\ Among(Promoted(q), MessageOf(id)) \in Nat /\ Among(NotDue(q), EntryOf(id)) \in Nat
        /\ Among(messages[q], MessageOf(id)) \in Nat /\ Among(delayed[q], EntryOf(id)) \in Nat
        /\ Among(inflight[q], HeldOf(id)) \in Nat
    BY <1>2, <1>10, AmongType
  <2>5. Among(Promoted(q), MessageOf(id)) + Among(NotDue(q), EntryOf(id))
            = Among(messages[q], MessageOf(id)) + Among(delayed[q], EntryOf(id))
    BY <1>10
  <2>6. HereAt(q, id) = Among(messages[q], MessageOf(id)) + Among(delayed[q], EntryOf(id))
                           + Among(inflight[q], HeldOf(id))
    BY DEF HereAt, Here
  <2>7. HereAt(q, id) >= 2
    BY <2>2, <2>3, <2>4, <2>5, <2>6
  <2>8. HereAt(q, id) <= Limit(id)
    <3>1. HereAt(q, id) # 0
      BY <2>7
    <3> QED  BY <1>1, <2>1, <3>1, CopyIsKnown DEF MemoryTypes
  <2>9. Limit(id) \in {0, 1}
    BY <1>11, <2>1 DEF Limit
  <2> QED  BY <2>4, <2>6, <2>7, <2>8, <2>9
<1> QED  BY <1>9, <1>12, <1>13

\* A delayed message leaves when its bucket is due.
LEMMA EarlyStep ==
    ASSUME MemoryInv, [Next]_vars, MemoryInv', ~ended', NEW q \in Queues,
           NEW e \in ToSet(delayed[q]), e \notin ToSet(delayed'[q])
    PROVE  e.due < now + Second
<1>1. TypeOK /\ ScheduleInv /\ now \in Nat /\ generated \in Nat
  <2>1. TypeOK /\ ScheduleInv
    BY DEF MemoryInv, MemoryTypes
  <2>2. now \in Nat /\ generated \in 0..MaxIds
    BY <2>1 DEF TypeOK
  <2>3. MaxIds \in Nat
    BY QueueAssumption DEF QueueAssumption
  <2> QED  BY <2>1, <2>2, <2>3
<1>2. \A r \in Queues : delayed[r] \in Seq(Entry) /\ DOMAIN delayed = Queues
  BY <1>1, QueueTypes DEF TypeOK
<1>3. e \in Items(delayed[q]) /\ e \notin Items(delayed'[q])
  <2>1. delayed'[q] \in Seq(Entry)
    BY DEF MemoryInv, MemoryTypes, TypeOK, Entry, Message
  <2> QED  BY <1>2, <2>1, SetOfItems
<1>4. e \in Entry /\ e.bucket = CeilSecond(e.due)
  BY <1>1, <1>2, <1>3, ElementOfSeq DEF ScheduleInv, InBucket, Items
<1>5. ASSUME IsDue(e) PROVE e.due < now + Second
  <2>1. e.due \in Nat /\ CeilSecond(e.due) \in Nat /\ CeilSecond(now) \in Nat
    BY <1>1, <1>4, CeilProperties DEF Entry
  <2>2. CeilSecond(e.due) <= CeilSecond(now)
    BY <1>4, <1>5 DEF IsDue
  <2>3. CeilSecond(e.due) * Second >= e.due /\ CeilSecond(now) * Second < now + Second
    BY <1>1, <2>1, CeilProperties
  <2>4. /\ CeilSecond(e.due) * Second \in Nat /\ CeilSecond(now) * Second \in Nat
        /\ CeilSecond(e.due) * Second <= CeilSecond(now) * Second
    BY <2>1, <2>2, Scaled
  <2>5. PICK x \in Nat, y \in Nat : x = CeilSecond(e.due) * Second /\ y = CeilSecond(now) * Second
    BY <2>4
  <2>6. x >= e.due /\ y < now + Second /\ x <= y
    BY <2>3, <2>4, <2>5
  <2>7. Second \in Nat
    BY QueueAssumption DEF QueueAssumption
  <2> QED  BY <1>1, <2>1, <2>6, <2>7
<1>6. ASSUME NEW r \in Queues, delayed' = [delayed EXCEPT ![r] = NotDue(r)]
      PROVE  IsDue(e)
  <2>1. r = q /\ delayed'[q] = NotDue(q)
    BY <1>2, <1>3, <1>6
  <2> QED  BY <1>1, <1>3, <2>1, Promotion
<1>7. delayed'[q] # delayed[q]
  BY <1>3
<1>8. ~ UNCHANGED vars /\ ~Tick /\ ~End
  BY <1>7 DEF vars, stores, Tick, End
<1>9. ASSUME NEW t \in timers, TimerFires(t) PROVE IsDue(e)
  <2>1. t.queue \in Queues
    BY <1>1 DEF TypeOK
  <2> QED  BY <1>6, <1>9, <2>1 DEF TimerFires
<1>10. ASSUME NEW r \in Queues, NEW count \in 1..MaxBatch, Receive(r, count) PROVE IsDue(e)
  BY <1>6, <1>10 DEF Receive
<1>11. ASSUME NEW r \in Queues, NEW n \in 1..MaxBatch, NEW ms \in Delays, SendBatch(r, n, ms)
       PROVE  FALSE
  <2>1. ms > 0 /\ r = q /\ delayed'[q] = DelayBatch(q, n, ms)[n]
    BY <1>2, <1>7, <1>11 DEF SendBatch
  <2>2. n \in Nat /\ n \in 0..n /\ ms \in Nat /\ generated + n <= MaxIds
    BY <1>11, QueueAssumption DEF SendBatch, QueueAssumption
  <2>3. Items(delayed[q]) \subseteq Items(DelayBatch(q, n, ms)[n])
    BY <1>1, <1>2, <2>2, BatchProperties
  <2> QED  BY <1>3, <2>1, <2>3
<1>12. ASSUME NEW r \in Queues, NEW ids, Ack(r, ids) PROVE FALSE
  BY <1>7, <1>12 DEF Ack
<1>13. ASSUME NEW r \in Queues, NEW id, NackDeadLetter(r, id) PROVE FALSE
  BY <1>7, <1>13 DEF NackDeadLetter
<1>14. ASSUME NEW r \in Queues, NEW id, NEW ms \in Delays, NackRequeue(r, id, ms) PROVE FALSE
  <2>1. PICK m \in Found(r, id) :
           \/ UNCHANGED delayed
           \/ delayed' = [delayed EXCEPT ![r] = Delay(delayed[r], [m EXCEPT !.attempt = @ + 1], ms)]
              /\ ~OutOfAttempts([m EXCEPT !.attempt = @ + 1])
    BY <1>14 DEF NackRequeue
  <2>2. PICK a : a = [m EXCEPT !.attempt = @ + 1]
    OBVIOUS
  <2>3. r = q /\ delayed'[q] = Delay(delayed[q], a, ms) /\ ~OutOfAttempts(a)
    BY <1>2, <1>7, <2>1, <2>2
  <2>4. a \in Message /\ ms \in Nat
    <3>1. m \in Message
      BY <1>1, <1>14, FoundMessage
    <3>2. MaxAttempts \in Nat /\ ms \in Nat
      BY QueueAssumption DEF QueueAssumption
    <3> QED  BY <2>2, <2>3, <3>1, <3>2 DEF Message, OutOfAttempts
  <2>5. delayed[q] \in Seq(Entry)
    BY <1>2
  <2>6. Items(delayed[q]) \subseteq Items(Delay(delayed[q], a, ms))
    BY <1>1, <2>4, <2>5, DelayProperties
  <2> QED  BY <1>3, <2>3, <2>6
<1> QED  BY <1>5, <1>8, <1>9, <1>10, <1>11, <1>12, <1>13, <1>14 DEF Next

LEMMA MemoryStutters == [MCNext]_mcvars => [Next]_vars
BY DEF MCNext, mcvars

LEMMA MemoryHolds == MCSpec => []MemoryInv
<1>1. MCInit => MemoryInv
  BY MemoryInit DEF MCInit
<1>2. MemoryInv /\ [MCNext]_mcvars => MemoryInv'
  BY MemoryStep, MemoryStutters
<1> QED  BY <1>1, <1>2, PTL DEF MCSpec

-----------------------------------------------------------------------------
(* The theorems. *)

\* On Redis: however the round trips of consumers and lost connections interleave, a
\* message that nobody has settled keeps its data and is in one of the sorted sets.
THEOREM NotStranded == MCSpec => [](Redis!TypeOK /\ Redis!NothingIsStranded)
<1>1. MCInit => RedisBounds
  BY RedisBoundsInit, RedisAssumption, QueueAssumption
     DEF MCInit, RedisLimits, RedisAssumption, QueueAssumption
<1>2. RedisBounds /\ [MCNext]_mcvars => RedisBounds'
  BY RedisBoundsStep, EachStutters
<1>3. ASSUME RedisBounds PROVE Redis!TypeOK /\ Redis!NothingIsStranded
  BY <1>3, RedisTypesHold
     DEF RedisBounds, RedisInv, AgreeInv, Redis!NothingIsStranded, Redis!NotSent, Reachable
<1> QED  BY <1>1, <1>2, <1>3, PTL DEF MCSpec

\* On RabbitMQ: a message that was sent is in the queue, delivered, acknowledged or dead,
\* wherever the channel closes.
THEOREM NoLoss == MCSpec => [](Rabbit!TypeOK /\ Rabbit!NothingIsLost)
<1>1. MCInit => RabbitBounds
  BY RabbitBoundsInit, QueueAssumption DEF MCInit, AttemptsArePositive, QueueAssumption
<1>2. RabbitBounds /\ [MCNext]_mcvars => RabbitBounds'
  BY RabbitBoundsStep, EachStutters
<1>3. ASSUME RabbitBounds PROVE Rabbit!TypeOK /\ Rabbit!NothingIsLost
  <2>1. DOMAIN ready = 1..Len(ready)
    BY <1>3, LenProperties DEF RabbitBounds, RabbitInv, RabbitTypes
  <2> QED  BY <1>3, <2>1, RabbitTypesHold
           DEF RabbitBounds, RabbitInv, SafeInv, Rabbit!NothingIsLost, Queued, Out
<1> QED  BY <1>1, <1>2, <1>3, PTL DEF MCSpec

\* On RabbitMQ: a subscription that is over leaves no consumer at the broker and nobody
\* waiting, whenever its signal was aborted.
THEOREM SubscriptionsEnd == MCSpec => []Rabbit!SubscriptionEnds
<1>1. MCInit => RabbitBounds /\ StreamInv
  BY RabbitBoundsInit, QueueAssumption
     DEF MCInit, AttemptsArePositive, QueueAssumption, Rabbit!Init, Rabbit!NoStream, StreamInv
<1>2. RabbitBounds /\ StreamInv /\ [MCNext]_mcvars => RabbitBounds' /\ StreamInv'
  BY RabbitBoundsStep, SubscriptionStep, EachStutters DEF RabbitBounds, RabbitInv
<1>3. ASSUME StreamInv, RabbitBounds PROVE Rabbit!SubscriptionEnds
  BY <1>3 DEF StreamInv, Rabbit!SubscriptionEnds, RabbitBounds, RabbitInv, RabbitTypes, Stream
<1> QED  BY <1>1, <1>2, <1>3, PTL DEF MCSpec

\* Both together, as the run checks it.
THEOREM NoMessageIsLost == MCSpec => []NothingIsLost
<1>1. (Redis!TypeOK /\ Redis!NothingIsStranded) /\ (Rabbit!TypeOK /\ Rabbit!NothingIsLost)
      /\ Rabbit!SubscriptionEnds => NothingIsLost
  BY DEF NothingIsLost
<1> QED  BY <1>1, NotStranded, NoLoss, SubscriptionsEnd, PTL

\* In memory: an accepted message is somewhere until it is settled, in one copy and one more
\* for each requeue that came too late, for any queues and options.
THEOREM MessagesKept == MCSpec => []MessagesAreKept
<1>1. ASSUME MemoryInv PROVE MessagesAreKept
  <2>1. \A id \in accepted : id \in Ids
    BY <1>1, QueueAssumption DEF MemoryInv, MemoryTypes, TypeOK, Ids, QueueAssumption
  <2>2. ASSUME NEW id \in accepted
        PROVE  /\ Copies(id) <= (IF id \in settled THEN 0 ELSE 1) + late[id]
               /\ ~ended /\ id \notin settled => Copies(id) >= 1
    BY <1>1, <2>1, <2>2 DEF MemoryInv, CopiesInv, Account, Limit
  <2> QED  BY <2>2 DEF MessagesAreKept, NothingVanishes, CopiesAreAccountedFor
<1> QED  BY <1>1, MemoryHolds, PTL

\* In memory: a message that one consumer holds is not given to another before its visibility
\* timeout, whatever is sent, acknowledged, requeued and promoted in between.
THEOREM HeldAreHidden == MCSpec => HeldMessagesAreHidden
<1>1. MemoryInv /\ MemoryInv' /\ [Next]_vars =>
         [\A q \in Queues : \A d \in ToSet(inflight[q]), e \in ToSet(inflight'[q]) :
             d.msg.id = e.msg.id /\ e.msg.given > d.msg.given /\ late[d.msg.id] = 0
                 => now - d.at >= VisibilityTimeout]_vars
  BY HiddenStep
<1> QED  BY <1>1, MemoryHolds, MemoryStutters, PTL DEF MCSpec, HeldMessagesAreHidden

\* In memory: a delayed message has a timeout that will promote it, and comes out less than a
\* second before its time, however long a second is.
THEOREM DelaysKept == MCSpec => DelaysAreKept
<1>1. MemoryInv => TypeOK /\ DelayedIsScheduled
  BY DEF MemoryInv, MemoryTypes, ScheduleInv
<1>2. MemoryInv /\ MemoryInv' /\ [Next]_vars =>
         [~ended' => \A q \in Queues :
             \A e \in ToSet(delayed[q]) \ ToSet(delayed'[q]) : e.due < now + Second]_vars
  BY EarlyStep
<1> QED  BY <1>1, <1>2, MemoryHolds, MemoryStutters, PTL DEF MCSpec, DelaysAreKept, LessThanASecondEarly

=============================================================================
