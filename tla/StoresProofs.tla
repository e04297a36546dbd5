----------------------------- MODULE StoresProofs -----------------------------
(***************************************************************************)
(* Theorems about what keeps data, for every value of the constants: the   *)
(* cache, the connections, the notifications and the transactions of a     *)
(* database, the event logs and the object storage.  Each section has the  *)
(* inductive invariant of one of them, what a step of it preserves, and    *)
(* the theorem that follows.                                               *)
(***************************************************************************)
EXTENDS MCStores, FiniteSetTheorems, SequenceTheorems,
        WellFoundedInduction, TLAPS

\* The system that "model" names takes its steps, and the others stutter.
LEMMA EachStutters ==
    [MCNext]_mcvars => /\ [Kafka!Next]_kafka /\ [Connections!Next]_connections
                       /\ [Notes!Next]_notifications /\ [Caching!Next]_caching /\ [Store!Next]_storage
BY DEF MCNext, mcvars

-----------------------------------------------------------------------------
(* The cache. *)

\* What is in the store, and what is known of it: a value is there from when it was written
\* until it expires.  Redis has nothing that is expired.
CacheCalls == [step : {"free", "compute", "write"}, ttl : {0}, value : 0..MaxValues]
CacheAnswers == [kind : {"null", "has", "stored", "computed"}, value : -1..MaxValues, at : 0..MaxTime]
Lives == [from : 0..MaxTime, to : 0..Caching!Never]

CacheType == /\ now \in 0..MaxTime /\ backend \in {"none", "memory", "redis"} /\ client \in BOOLEAN
             /\ (client => backend = "redis")
             /\ entry \in [value : -1..MaxValues, expiresAt : 0..Caching!Never]
             /\ values \in 0..MaxValues /\ call \in [Callers -> CacheCalls]
             /\ answer \in [Callers -> CacheAnswers] /\ life \in [0..MaxValues -> Lives]

CacheEntry == IF entry.value = -1 THEN entry = Caching!Missing
              ELSE /\ life[entry.value].from <= now /\ life[entry.value].to = entry.expiresAt
                   /\ backend = "redis" => now < entry.expiresAt
                   /\ backend # "none"

\* What was answered at this time was there then.
WasThere(a, n, e, l) == /\ a.at <= n
                        /\ a.kind = "stored" /\ a.at = n =>
                              /\ a.value \in 1..MaxValues
                              /\ l[a.value].from <= n /\ n <= l[a.value].to
                              /\ l[a.value].to = n => e.value # a.value

CacheInv == CacheType /\ CacheEntry /\ \A c \in Callers : WasThere(answer[c], now, entry, life)

-----------------------------------------------------------------------------
USE CachingAssumption DEF CachingAssumption, Caching!Never

\* The two definitions of what is there agree that an entry is there that is not expired.
LEMMA PresentFacts ==
    ASSUME CacheInv, Caching!Present
    PROVE  /\ entry.value \in 0..MaxValues /\ life[entry.value].from <= now
           /\ life[entry.value].to = entry.expiresAt /\ now < entry.expiresAt
<1>1. entry # Caching!Missing
  BY DEF Caching!Present, Caching!hasMemory, Caching!hasRedis
<1>2. entry.value \in 0..MaxValues
  BY <1>1 DEF CacheInv, CacheType, CacheEntry
<1>3. now < entry.expiresAt
  BY <1>2 DEF Caching!Present, Caching!hasMemory, Caching!hasRedis, Caching!expired, CacheInv, CacheType, CacheEntry
<1>4. QED  BY <1>2, <1>3 DEF CacheInv, CacheEntry

\* What ends is there until now, and the other lives are as they were.
LEMMA EndedFacts ==
    ASSUME CacheInv
    PROVE  /\ Caching!Ended \in [0..MaxValues -> Lives]
           /\ \A v \in 0..MaxValues :
                 /\ Caching!Ended[v].from = life[v].from
                 /\ Caching!Ended[v].to = IF Caching!Present /\ v = entry.value THEN now ELSE life[v].to
<1>1. CASE Caching!Present
  <2>1. entry.value \in 0..MaxValues /\ life \in [0..MaxValues -> Lives] /\ now \in 0..MaxTime
    BY <1>1, PresentFacts DEF CacheInv, CacheType
  <2>2. Caching!Ended = [life EXCEPT ![entry.value].to = now]
    BY <1>1 DEF Caching!Ended
  <2>3. QED  BY <1>1, <2>1, <2>2 DEF Lives
<1>2. CASE ~Caching!Present
  BY <1>2 DEF Caching!Ended, CacheInv, CacheType
<1>3. QED  BY <1>1, <1>2

\* A write ends the entry and begins another.
LEMMA WriteFacts ==
    ASSUME CacheInv, NEW value \in 0..MaxValues, NEW ttl \in 0..2, Caching!Writes(value, ttl),
           UNCHANGED <<now, backend>>
    PROVE  /\ entry' \in [value : -1..MaxValues, expiresAt : 0..Caching!Never]
           /\ life' \in [0..MaxValues -> Lives] /\ CacheEntry'
           /\ \A a \in CacheAnswers : WasThere(a, now, entry, life) => WasThere(a, now', entry', life')
<1> DEFINE e == Caching!Expires(ttl)
<1>1. e \in 0..Caching!Never /\ now < e
  BY DEF Caching!Expires, CacheInv, CacheType
<1>2. /\ entry' = [value |-> value, expiresAt |-> e] /\ backend # "none"
      /\ life' = [Caching!Ended EXCEPT ![value] = [from |-> now, to |-> e]]
  BY DEF Caching!Writes, Caching!setMemory, Caching!setRedis, CacheInv, CacheType
<1> HIDE DEF e
<1>3. /\ life' \in [0..MaxValues -> Lives] /\ life'[value] = [from |-> now, to |-> e]
      /\ \A v \in 0..MaxValues \ {value} : life'[v] = Caching!Ended[v]
  <2>1. [from |-> now, to |-> e] \in Lives /\ Caching!Ended \in [0..MaxValues -> Lives]
    BY <1>1, EndedFacts DEF Lives, CacheInv, CacheType
  <2>2. QED  BY <1>2, <2>1
<1>4. CacheEntry'
  BY <1>1, <1>2, <1>3 DEF CacheEntry, CacheInv, CacheType
<1>5. ASSUME NEW a \in CacheAnswers, WasThere(a, now, entry, life) PROVE WasThere(a, now', entry', life')
  <2>1. a.at <= now'
    BY <1>5 DEF WasThere
  <2>2. ASSUME a.kind = "stored", a.at = now'
        PROVE  /\ a.value \in 1..MaxValues /\ life'[a.value].from <= now' /\ now' <= life'[a.value].to
               /\ life'[a.value].to = now' => entry'.value # a.value
    <3>1. /\ a.value \in 1..MaxValues /\ a.value \in 0..MaxValues
          /\ life[a.value].from <= now /\ now <= life[a.value].to
      BY <1>5, <2>2 DEF WasThere
    <3>2. CASE a.value = value
      BY <1>1, <1>3, <3>1, <3>2 DEF CacheInv, CacheType
    <3>3. CASE a.value # value
      <4>1. life'[a.value].from = life[a.value].from /\ life'[a.value].to \in {now, life[a.value].to}
        BY <1>3, <3>1, <3>3, EndedFacts
      <4>2. entry'.value # a.value
        BY <1>2, <3>3
      <4>3. QED  BY <3>1, <4>1, <4>2 DEF CacheInv, CacheType
    <3>4. QED  BY <3>2, <3>3
  <2>3. QED  BY <2>1, <2>2 DEF WasThere
<1>6. entry' \in [value : -1..MaxValues, expiresAt : 0..Caching!Never]
  BY <1>1, <1>2
<1>7. QED  BY <1>3, <1>4, <1>5, <1>6

\* What is read is there.
LEMMA ReadFacts ==
    ASSUME CacheInv, Caching!Reads, UNCHANGED <<now, backend, life>>
    PROVE  /\ entry' \in [value : -1..MaxValues, expiresAt : 0..Caching!Never] /\ CacheEntry'
           /\ \A a \in CacheAnswers : WasThere(a, now, entry, life) => WasThere(a, now', entry', life')
           /\ Caching!Present => entry' = entry
<1>1. entry' = entry \/ entry' = Caching!Missing
  BY DEF Caching!Reads, Caching!getMemory, Caching!getRedis
<1>2. Caching!Present => entry' = entry
  BY DEF Caching!Reads, Caching!getMemory, Caching!getRedis, Caching!Present, Caching!hasMemory, Caching!hasRedis
<1>3. CASE entry' = entry
  BY <1>3, <1>2 DEF CacheInv, CacheType, CacheEntry, WasThere
<1>4. CASE entry' = Caching!Missing
  BY <1>4, <1>2 DEF CacheInv, CacheType, CacheEntry, WasThere, Caching!Missing
<1>5. QED  BY <1>1, <1>3, <1>4

\* The answer that the entry gives.
LEMMA StoredFacts ==
    ASSUME CacheInv, Caching!Present, entry.value # 0,
           NEW a, a = [kind |-> "stored", value |-> entry.value, at |-> now]
    PROVE  a \in CacheAnswers /\ WasThere(a, now, entry, life)
<1>1. /\ entry.value \in 1..MaxValues /\ life[entry.value].from <= now
      /\ life[entry.value].to = entry.expiresAt /\ now < entry.expiresAt /\ now \in 0..MaxTime
      /\ entry.expiresAt \in 0..Caching!Never
  BY PresentFacts DEF CacheInv, CacheType
<1>2. a \in CacheAnswers
  BY <1>1 DEF CacheAnswers
<1>3. WasThere(a, now, entry, life)
  BY <1>1 DEF WasThere
<1>4. QED  BY <1>2, <1>3

\* Answers that say nothing of the store.
LEMMA OtherAnswers ==
    ASSUME CacheInv, NEW kind_ \in {"has", "computed"}, NEW v \in -1..MaxValues
    PROVE  /\ [kind |-> kind_, value |-> v, at |-> now] \in CacheAnswers
           /\ WasThere([kind |-> kind_, value |-> v, at |-> now], now, entry, life)
           /\ Caching!Null \in CacheAnswers /\ WasThere(Caching!Null, now, entry, life)
BY DEF CacheInv, CacheType, CacheAnswers, WasThere, Caching!Null

LEMMA CacheInit == Caching!Init => CacheInv
<1> SUFFICES ASSUME Caching!Init PROVE CacheInv
  OBVIOUS
<1> USE DEF Caching!Init
<1>1. /\ entry \in [value : -1..MaxValues, expiresAt : 0..Caching!Never] /\ CacheEntry
      /\ now \in 0..MaxTime /\ values \in 0..MaxValues /\ backend = "none" /\ client = FALSE
  BY DEF Caching!Missing, CacheEntry
<1>2. call \in [Callers -> CacheCalls] /\ answer \in [Callers -> CacheAnswers]
  BY DEF Caching!Free, Caching!Null, CacheCalls, CacheAnswers
<1>3. life \in [0..MaxValues -> Lives]
  BY DEF Lives
<1>4. CacheType
  BY <1>1, <1>2, <1>3 DEF CacheType
<1>5. \A c \in Callers : WasThere(answer[c], now, entry, life)
  BY DEF Caching!Init, Caching!Null, WasThere
<1>6. QED  BY <1>1, <1>4, <1>5 DEF CacheInv

\* Whatever a call does: the store is as it should be after it, and its answer is one that was there.
LEMMA CacheCall ==
    ASSUME CacheInv, NEW c \in Callers, NEW a \in CacheAnswers, WasThere(a, now', entry', life'), UNCHANGED <<now, backend, client>>,
           \/ answer' = [answer EXCEPT ![c] = a] \/ answer' = answer,
           entry' \in [value : -1..MaxValues, expiresAt : 0..Caching!Never],
           life' \in [0..MaxValues -> Lives], CacheEntry',
           \A b \in CacheAnswers : WasThere(b, now, entry, life) => WasThere(b, now', entry', life'),
           values' \in 0..MaxValues, call' \in [Callers -> CacheCalls]
    PROVE  CacheInv'
<1>1. answer \in [Callers -> CacheAnswers] /\ \A d \in Callers : WasThere(answer[d], now, entry, life)
  BY DEF CacheInv, CacheType
<1>2. \A d \in Callers : WasThere(answer[d], now', entry', life')
  BY <1>1
<1>3. answer' \in [Callers -> CacheAnswers] /\ \A d \in Callers : WasThere(answer'[d], now', entry', life')
  BY <1>1, <1>2
<1>4. CacheType'
  BY <1>3 DEF CacheInv, CacheType
<1>5. QED  BY <1>3, <1>4 DEF CacheInv

\* connect, end and the clock.
LEMMA CacheRest == CacheInv /\ (Caching!connect \/ Caching!end \/ Caching!Tick) => CacheInv'
<1> SUFFICES ASSUME CacheInv, Caching!connect \/ Caching!end \/ Caching!Tick PROVE CacheInv'
  OBVIOUS
<1>0. answer \in [Callers -> CacheAnswers] /\ \A d \in Callers : WasThere(answer[d], now, entry, life)
  BY DEF CacheInv, CacheType
<1>1. CASE Caching!connect
  <2> USE <1>1 DEF Caching!connect, Caching!connectMemory, Caching!connectRedis
  <2>0. /\ backend' \in {"none", "memory", "redis"} /\ (client' => backend' = "redis")
        /\ backend' # "none" /\ (backend # "none" => backend' = backend)
    BY DEF CacheInv, CacheType
  <2>01. client' \in BOOLEAN
    BY DEF CacheInv, CacheType
  <2>1. CacheType' /\ CacheEntry'
    <3>1. CacheType'
      BY <2>0, <2>01 DEF CacheInv, CacheType
    <3>2. CacheEntry'
      BY <2>0 DEF CacheInv, CacheEntry
    <3>3. QED  BY <3>1, <3>2
  <2>2. \A d \in Callers : WasThere(answer'[d], now', entry', life')
    BY <1>0
  <2>3. QED  BY <2>1, <2>2 DEF CacheInv
<1>2. CASE Caching!end
  <2> USE <1>2 DEF Caching!end, Caching!endMemory, Caching!endRedis, Caching!Missing
  <2>0. client' \in BOOLEAN /\ (client' => backend' = "redis")
    <3>1. (client' = client \/ client' = FALSE) /\ backend' = backend
      OBVIOUS
    <3>2. client \in BOOLEAN /\ (client => backend = "redis")
      BY DEF CacheInv, CacheType
    <3>3. CASE client' = FALSE
      <4>1. client' \in BOOLEAN /\ ~client'
        BY <3>3
      <4>2. QED  BY <4>1, Zenon
    <3>4. CASE client' = client
      BY <3>1, <3>2, <3>4
    <3>5. QED  BY <3>1, <3>3, <3>4, Zenon
  <2>01. entry' \in [value : -1..MaxValues, expiresAt : 0..Caching!Never]
    BY DEF CacheInv, CacheType
  <2>1. CacheType' /\ CacheEntry'
    <3>1. CacheType'
      BY <2>0, <2>01 DEF CacheInv, CacheType
    <3>2. CacheEntry'
      BY DEF CacheInv, CacheEntry
    <3>3. QED  BY <3>1, <3>2
  <2>2. \A d \in Callers : WasThere(answer'[d], now', entry', life')
    BY <1>0 DEF WasThere
  <2>3. QED  BY <2>1, <2>2 DEF CacheInv
<1>3. CASE Caching!Tick
  <2> USE <1>3 DEF Caching!Tick, Caching!Missing
  <2>1. CacheType' /\ CacheEntry'
    BY DEF CacheInv, CacheType, CacheEntry, Lives
  <2>2. \A d \in Callers : WasThere(answer'[d], now', entry', life')
    <3>1. ASSUME NEW d \in Callers PROVE answer'[d].at < now'
      <4>1. answer[d].at <= now /\ answer[d].at \in Int /\ now \in Int
        BY <1>0 DEF WasThere, CacheAnswers, CacheInv, CacheType
      <4>2. QED  BY <4>1
    <3>2. ASSUME NEW d \in Callers PROVE answer'[d].at \in Int /\ now' \in Int
      BY <1>0 DEF CacheAnswers, CacheInv, CacheType
    <3>3. QED  BY <3>1, <3>2 DEF WasThere
  <2>3. QED  BY <2>1, <2>2 DEF CacheInv
<1>4. QED  BY <1>1, <1>2, <1>3

\* A call that reads.
LEMMA CacheReads ==
    ASSUME CacheInv, NEW c \in Callers, Caching!get(c) \/ Caching!has(c) \/ Caching!getOrSet(c)
    PROVE  CacheInv'
<1>1. /\ Caching!Reads /\ UNCHANGED <<now, backend, client, values, life>>
      /\ \/ Caching!Present /\ entry.value # 0 /\ Caching!Answers(c, "stored", entry.value) /\ call' = call
         \/ Caching!Present /\ Caching!Answers(c, "has", entry.value) /\ call' = call
         \/ /\ answer' = [answer EXCEPT ![c] = Caching!Null]
            /\ \/ call' = call
               \/ call' = [call EXCEPT ![c] = [Caching!Free EXCEPT !.step = "compute"]]
  BY DEF Caching!get, Caching!has, Caching!getOrSet
<1>2. /\ entry' \in [value : -1..MaxValues, expiresAt : 0..Caching!Never] /\ CacheEntry'
      /\ \A a \in CacheAnswers : WasThere(a, now, entry, life) => WasThere(a, now', entry', life')
  BY <1>1, ReadFacts
<1>3. /\ call' \in [Callers -> CacheCalls] /\ values' \in 0..MaxValues /\ life' \in [0..MaxValues -> Lives]
  <2>1. [Caching!Free EXCEPT !.step = "compute"] \in CacheCalls
    BY DEF Caching!Free, CacheCalls
  <2>2. QED  BY <1>1, <2>1 DEF CacheInv, CacheType
<1>4. ASSUME NEW a \in CacheAnswers, WasThere(a, now, entry, life), answer' = [answer EXCEPT ![c] = a]
      PROVE  CacheInv'
  BY <1>1, <1>2, <1>3, <1>4, CacheCall
<1>5. CASE Caching!Present /\ entry.value # 0 /\ Caching!Answers(c, "stored", entry.value)
  BY <1>4, <1>5, StoredFacts DEF Caching!Answers
<1>6. CASE Caching!Present /\ Caching!Answers(c, "has", entry.value)
  <2>1. entry.value \in -1..MaxValues
    BY DEF CacheInv, CacheType
  <2>2. QED  BY <1>4, <1>6, <2>1, OtherAnswers DEF Caching!Answers
<1>7. CASE answer' = [answer EXCEPT ![c] = Caching!Null]
  <2>1. 0 \in -1..MaxValues
    OBVIOUS
  <2>2. QED  BY <1>4, <1>7, <2>1, OtherAnswers
<1>8. QED  BY <1>1, <1>5, <1>6, <1>7

\* A call that writes, or fails to.
LEMMA CacheWrites ==
    ASSUME CacheInv, NEW c \in Callers, Caching!set(c) \/ Caching!Stores(c)
    PROVE  CacheInv'
<1>1. PICK value \in 0..MaxValues, ttl \in 0..2 :
         /\ UNCHANGED <<now, backend, client>> /\ values' \in 0..MaxValues /\ call' \in [Callers -> CacheCalls]
         /\ \/ /\ Caching!Writes(value, ttl)
               /\ \/ answer' = [answer EXCEPT ![c] = Caching!Null]
                  \/ answer' = [answer EXCEPT ![c] = [kind |-> "computed", value |-> value, at |-> now]]
            \/ UNCHANGED <<entry, life, answer>>
  <2>1. CASE Caching!set(c)
    <3>1. PICK ttl \in 0..2, value \in {0, values + 1} :
            /\ value <= MaxValues /\ values' = IF value = 0 THEN values ELSE value
            /\ Caching!Writes(value, ttl) /\ answer' = [answer EXCEPT ![c] = Caching!Null]
            /\ UNCHANGED <<now, backend, client, call>>
      BY <2>1 DEF Caching!set
    <3>2. value \in 0..MaxValues /\ values' \in 0..MaxValues /\ call' \in [Callers -> CacheCalls]
      BY <3>1 DEF CacheInv, CacheType
    <3>3. QED  BY <3>1, <3>2
  <2>2. CASE Caching!Stores(c)
    <3> DEFINE value == call[c].value
    <3>1. PICK ttl \in 0..2 :
            /\ \/ Caching!Writes(value, ttl) /\ Caching!Answers(c, "computed", value)
               \/ UNCHANGED <<entry, life, answer>>
            /\ call' = [call EXCEPT ![c] = Caching!Free]
            /\ UNCHANGED <<now, backend, client, values>>
      BY <2>2 DEF Caching!Stores
    <3>2. value \in 0..MaxValues /\ values' \in 0..MaxValues /\ call' \in [Callers -> CacheCalls]
      BY <3>1 DEF CacheInv, CacheType, CacheCalls, Caching!Free
    <3> HIDE DEF value
    <3>3. QED  BY <3>1, <3>2 DEF Caching!Answers
  <2>3. QED  BY <2>1, <2>2
<1>2. CASE UNCHANGED <<entry, life, answer>>
  BY <1>1, <1>2 DEF CacheInv, CacheType, CacheEntry
<1>3. ASSUME NEW a \in CacheAnswers, WasThere(a, now, entry, life), answer' = [answer EXCEPT ![c] = a],
             Caching!Writes(value, ttl)
      PROVE  CacheInv'
  <2>1. /\ entry' \in [value : -1..MaxValues, expiresAt : 0..Caching!Never]
        /\ life' \in [0..MaxValues -> Lives] /\ CacheEntry'
        /\ \A b \in CacheAnswers : WasThere(b, now, entry, life) => WasThere(b, now', entry', life')
    BY <1>1, <1>3, WriteFacts
  <2>2. QED  BY <1>1, <1>3, <2>1, CacheCall
<1>4. QED
  <2>1. value \in -1..MaxValues
    BY <1>1
  <2>2. QED  BY <1>1, <1>2, <1>3, <2>1, OtherAnswers

LEMMA CacheDeletes == ASSUME CacheInv, NEW c \in Callers, Caching!delete(c) PROVE CacheInv'
<1>1. /\ entry' = Caching!Missing /\ life' = Caching!Ended /\ answer' = [answer EXCEPT ![c] = Caching!Null]
      /\ UNCHANGED <<now, backend, client, call, values>>
  BY DEF Caching!delete, Caching!deleteMemory, Caching!deleteRedis
<1>2. entry' \in [value : -1..MaxValues, expiresAt : 0..Caching!Never] /\ CacheEntry'
  BY <1>1 DEF Caching!Missing, CacheEntry
<1>3. life' \in [0..MaxValues -> Lives]
  BY <1>1, EndedFacts
<1>4. ASSUME NEW a \in CacheAnswers, WasThere(a, now, entry, life) PROVE WasThere(a, now', entry', life')
  <2>1. ASSUME a.kind = "stored", a.at = now
        PROVE /\ a.value \in 1..MaxValues /\ life'[a.value].from <= now /\ now <= life'[a.value].to
              /\ entry'.value # a.value
    <3>1. /\ a.value \in 1..MaxValues /\ a.value \in 0..MaxValues
          /\ life[a.value].from <= now /\ now <= life[a.value].to
      BY <1>4, <2>1 DEF WasThere
    <3>2. life'[a.value].from = life[a.value].from /\ life'[a.value].to \in {now, life[a.value].to}
      BY <1>1, <3>1, EndedFacts
    <3>3. QED  BY <1>1, <3>1, <3>2 DEF Caching!Missing, CacheInv, CacheType
  <2>2. QED  BY <1>1, <1>4, <2>1 DEF WasThere
<1>5. call' \in [Callers -> CacheCalls] /\ values' \in 0..MaxValues
  BY <1>1 DEF CacheInv, CacheType
<1>6. Caching!Null \in CacheAnswers /\ WasThere(Caching!Null, now, entry, life)
  <2>1. 0 \in -1..MaxValues
    OBVIOUS
  <2>2. QED  BY <2>1, OtherAnswers
<1>7. QED  BY <1>1, <1>2, <1>3, <1>4, <1>5, <1>6, CacheCall

LEMMA CacheStep == CacheInv /\ [Caching!Next]_caching => CacheInv'
<1> SUFFICES ASSUME CacheInv, [Caching!Next]_caching PROVE CacheInv'
  OBVIOUS
<1>1. CASE UNCHANGED caching
  BY <1>1 DEF caching, CacheInv, CacheType, CacheEntry
<1>2. ASSUME NEW c \in Callers, Caching!Computes(c) PROVE CacheInv'
  <2>1. /\ UNCHANGED <<now, backend, client, entry, answer, life>> /\ values' \in 0..MaxValues
        /\ call' \in [Callers -> CacheCalls]
    <3>1. UNCHANGED <<now, backend, client, entry, answer, life>>
      BY <1>2 DEF Caching!Computes
    <3>2. values' \in 0..MaxValues
      BY <1>2 DEF Caching!Computes, CacheInv, CacheType
    <3>3. [call[c] EXCEPT !.step = "write", !.value = values'] \in CacheCalls
      <4>1. call[c] \in CacheCalls
        BY DEF CacheInv, CacheType
      <4> DEFINE old == call[c]
                 new == values'
      <4> HIDE DEF old, new
      <4>2. old \in CacheCalls /\ new \in 0..MaxValues
        BY <3>2, <4>1 DEF old, new
      <4>3. [old EXCEPT !.step = "write", !.value = new] \in CacheCalls
        BY <4>2 DEF CacheCalls
      <4>4. QED  BY <4>3 DEF old, new
    <3>03. Caching!Free \in CacheCalls
      BY DEF Caching!Free, CacheCalls
    <3>4. \/ call' = [call EXCEPT ![c] = [call[c] EXCEPT !.step = "write", !.value = values']]
          \/ call' = [call EXCEPT ![c] = Caching!Free]
      BY <1>2 DEF Caching!Computes, CacheInv, CacheType
    <3>5. call' \in [Callers -> CacheCalls]
      BY <3>3, <3>03, <3>4 DEF CacheInv, CacheType
    <3>6. QED  BY <3>1, <3>2, <3>5
  <2>2. QED  BY <2>1 DEF CacheInv, CacheType, CacheEntry
<1>3. QED  BY <1>1, <1>2, CacheRest, CacheReads, CacheWrites, CacheDeletes DEF Caching!Next

\* For any callers, clock and values: a value that a cache answers was the value of its key at
\* some time of the call.
THEOREM CacheIsFresh == MCSpec => []NothingStaleIsReturned
<1>1. MCInit => CacheInv
  BY CacheInit DEF MCInit
<1>2. CacheInv /\ [MCNext]_mcvars => CacheInv'
  BY CacheStep, EachStutters
<1>3. CacheInv => NothingStaleIsReturned
  <2> SUFFICES ASSUME CacheInv PROVE NothingStaleIsReturned
    OBVIOUS
  <2>1. Caching!TypeOK
    BY DEF CacheInv, CacheType, CacheCalls, Caching!TypeOK
  <2>2. Caching!NothingStaleIsReturned
    BY DEF CacheInv, WasThere, Caching!NothingStaleIsReturned
  <2>3. QED  BY <2>1, <2>2 DEF NothingStaleIsReturned
<1>4. QED  BY <1>1, <1>2, <1>3, PTL DEF MCSpec

HIDE CachingAssumption DEF CachingAssumption, Caching!Never

-----------------------------------------------------------------------------
(* Connections. *)

\* The rows that the batch of a call has written, and the adapters that are open.
Table == Conns \X (0..BatchSize)
Written(c) == {i \in 1..BatchSize : <<c, i>> \in rows \/ \E s \in Connections!Sessions : <<c, i>> \in pending[s]}
Open == {c \in Conns : handle[c] = "open"}

ConnType ==
    /\ cBackend \in {"none", "memory", "sqlite", "mysql", "postgres"}
    /\ handle \in [Conns -> {"none", "acquiring", "open", "over"}]
    /\ cClient \in [Conns -> {"none", "out", "returned", "destroyed"}]
    /\ cSignal \in [Conns -> BOOLEAN] /\ heard \in [Conns -> BOOLEAN] /\ owner \in [Conns -> BOOLEAN]
    /\ work \in [Conns -> [op : {"none", "batch", "stream", "closing"}, done : 0..BatchSize]]
    /\ begun \in [Connections!Sessions -> BOOLEAN]
    /\ pending \in [Connections!Sessions -> SUBSET Table] /\ rows \subseteq Table
    /\ batch \in [Conns -> {"none", "whole", "failed"}]

\* In SQLite the connector counts its adapters.
ConnCount == /\ refs = IF cBackend \in Connections!InProcess THEN Cardinality(Open) ELSE 0
             /\ cBackend = "none" => \A c \in Conns : handle[c] = "none"

\* What a call holds is what its stage has given it, and a transaction keeps its client out.
ConnHolds(c) ==
    /\ handle[c] \in {"none", "acquiring"} =>
          /\ cClient[c] = "none" /\ ~heard[c] /\ work[c] = Connections!NoWork /\ ~owner[c]
          /\ batch[c] = "none"
    /\ handle[c] = "over" => cClient[c] # "out" /\ work[c] = Connections!NoWork
    /\ heard[c] => handle[c] = "open" /\ cClient[c] = "out" /\ cBackend \in Connections!Pooled
    /\ begun[c] => owner[c] /\ cClient[c] = "out" /\ cBackend \in Connections!Pooled
    /\ cBackend \in Connections!Pooled /\ cClient[c] = "returned" => handle[c] = "over"

\* A batch that goes on has written the rows behind it, and one that has failed not the last.
ConnRows(c) ==
    /\ \/ handle[c] \in {"none", "acquiring"}
       \/ handle[c] = "open" /\ batch[c] = "none" /\ work[c].op # "batch"
       => Written(c) = {}
    /\ work[c].op = "batch" => /\ batch[c] = "none" /\ work[c].done < BatchSize
                               /\ cBackend \in Connections!Pooled
                               /\ \A i \in Written(c) : i <= work[c].done
    /\ batch[c] = "failed" => /\ BatchSize \notin Written(c)
                              /\ cBackend \in Connections!InProcess => Written(c) = {}

ConnInv == ConnType /\ ConnCount /\ \A c \in Conns : ConnHolds(c) /\ ConnRows(c)

-----------------------------------------------------------------------------
USE ConnectionsAssumption DEF ConnectionsAssumption, Connections!InProcess, Connections!Pooled, Connections!NoWork

\* A function of Booleans that is changed at one argument.
LEMMA BoolExcept ==
    ASSUME NEW S, NEW f \in [S -> BOOLEAN], NEW x \in S, NEW b \in BOOLEAN
    PROVE  /\ [f EXCEPT ![x] = b] \in [S -> BOOLEAN] /\ [f EXCEPT ![x] = b][x] = b
           /\ \A y \in S \ {x} : [f EXCEPT ![x] = b][y] = f[y]
<1>1. [f EXCEPT ![x] = b] \in [S -> BOOLEAN]  BY Zenon
<1>2. [f EXCEPT ![x] = b][x] = b  BY Zenon
<1>3. \A y \in S \ {x} : [f EXCEPT ![x] = b][y] = f[y]  BY Zenon
<1>4. QED  BY <1>1, <1>2, <1>3, Zenon

\* A statement adds its rows to those of the session's transaction, or to the table.
LEMMA WritesFacts ==
    ASSUME ConnType, NEW c \in Conns, NEW new \in SUBSET ({c} \X (0..BatchSize)),
           Connections!Writes(c, new)
    PROVE  /\ begun' = begun /\ pending' \in [Connections!Sessions -> SUBSET Table]
           /\ rows' \subseteq Table
           /\ \A d \in Conns \ {c} : Written(d)' \subseteq Written(d)
           /\ Written(c)' \subseteq Written(c) \cup {i \in 1..BatchSize : <<c, i>> \in new}
<1>1. Connections!Session(c) \in Connections!Sessions /\ new \subseteq Table
  BY DEF Connections!Session, Connections!Sessions, Table
<1>2. \A s \in Connections!Sessions : pending'[s] \subseteq pending[s] \cup new
  BY <1>1 DEF Connections!Writes, ConnType
<1>3. rows' \subseteq rows \cup new
  BY DEF Connections!Writes
<1>4. begun' = begun /\ pending' \in [Connections!Sessions -> SUBSET Table] /\ rows' \subseteq Table
  BY <1>1 DEF Connections!Writes, ConnType
<1>5. \A d \in Conns, i \in 1..BatchSize : <<d, i>> \in new => d = c
  OBVIOUS
<1>6. \A d \in Conns \ {c} : Written(d)' \subseteq Written(d)
  BY <1>2, <1>3, <1>5 DEF Written
<1>7. Written(c)' \subseteq Written(c) \cup {i \in 1..BatchSize : <<c, i>> \in new}
  BY <1>2, <1>3 DEF Written
<1>8. QED  BY <1>4, <1>6, <1>7

\* The end of a transaction keeps some of the rows that were pending in its session.
LEMMA EndsFacts ==
    ASSUME ConnType, NEW c \in Conns, NEW kept,
           kept \subseteq pending[Connections!Session(c)], Connections!Ends(c, kept)
    PROVE  /\ begun' \in [Connections!Sessions -> BOOLEAN]
           /\ \A d \in Conns \ {c} : begun'[d] = begun[d]
           /\ begun'[c] => begun[c] /\ cBackend \notin Connections!Pooled
           /\ pending' \in [Connections!Sessions -> SUBSET Table] /\ rows' \subseteq Table
           /\ \A d \in Conns : Written(d)' \subseteq Written(d)
           /\ owner' \in [Conns -> BOOLEAN] /\ owner'[c] = FALSE
           /\ \A d \in Conns \ {c} : owner'[d] = owner[d]
<1>1. Connections!Session(c) \in Connections!Sessions
  BY DEF Connections!Session, Connections!Sessions
<1>2. begun' \in [Connections!Sessions -> BOOLEAN] /\ begun'[Connections!Session(c)] = FALSE
      /\ \A s \in Connections!Sessions \ {Connections!Session(c)} : begun'[s] = begun[s]
  <2>1. begun' = [begun EXCEPT ![Connections!Session(c)] = FALSE]
    BY DEF Connections!Ends
  <2>2. begun \in [Connections!Sessions -> BOOLEAN]
    BY DEF ConnType
  <2>3. QED  BY <1>1, <2>1, <2>2, BoolExcept
<1>3. \A d \in Conns \ {c} : d \in Connections!Sessions \ {Connections!Session(c)}
  BY DEF Connections!Session, Connections!Sessions
<1>4. begun'[c] => begun[c] /\ cBackend \notin Connections!Pooled
  <2>1. CASE cBackend \in Connections!InProcess
    <3>1. c \in Connections!Sessions \ {Connections!Session(c)}
      BY <2>1 DEF Connections!Session, Connections!Sessions
    <3>2. QED  BY <1>2, <2>1, <3>1
  <2>2. CASE cBackend \notin Connections!InProcess
    <3>1. Connections!Session(c) = c
      BY <2>2 DEF Connections!Session
    <3>2. QED  BY <1>2, <3>1
  <2>3. QED  BY <2>1, <2>2
<1>5. owner' \in [Conns -> BOOLEAN] /\ owner'[c] = FALSE /\ \A d \in Conns \ {c} : owner'[d] = owner[d]
  <2>1. owner' = [owner EXCEPT ![c] = FALSE]
    BY DEF Connections!Ends
  <2>2. owner \in [Conns -> BOOLEAN]
    BY DEF ConnType
  <2>3. QED  BY <2>1, <2>2, BoolExcept
<1>6. pending' \in [Connections!Sessions -> SUBSET Table] /\ rows' \subseteq Table
  BY <1>1 DEF Connections!Ends, ConnType
<1>7. \A d \in Conns : Written(d)' \subseteq Written(d)
  <2>1. \A s \in Connections!Sessions : pending'[s] \subseteq pending[s]
    BY <1>1 DEF Connections!Ends, ConnType
  <2>2. rows' \subseteq rows \cup pending[Connections!Session(c)]
    BY DEF Connections!Ends
  <2>3. QED  BY <1>1, <2>1, <2>2 DEF Written
<1>8. QED  BY <1>2, <1>3, <1>4, <1>5, <1>6, <1>7, Zenon

\* What a step of one call leaves of another.
Kept(d) == /\ handle'[d] = handle[d] /\ cClient'[d] = cClient[d] /\ heard'[d] = heard[d]
           /\ work'[d] = work[d] /\ owner'[d] = owner[d] /\ batch'[d] = batch[d]
           /\ begun'[d] = begun[d] /\ Written(d)' \subseteq Written(d)

\* What holds of a call holds of it after a step that leaves it so.
LEMMA KeptFacts ==
    ASSUME NEW d \in Conns, ConnHolds(d), ConnRows(d), Kept(d), cBackend' = cBackend
    PROVE  ConnHolds(d)' /\ ConnRows(d)'
<1>1. ConnHolds(d)'
  BY Zenon DEF ConnHolds, Kept
<1>2. ConnRows(d)'
  <2>1. Written(d) = {} => Written(d)' = {}
    BY DEF Kept
  <2>2. \A i : i \notin Written(d) => i \notin Written(d)'
    BY DEF Kept
  <2> HIDE DEF Written
  <2>3. QED  BY <2>1, <2>2 DEF ConnRows, Kept
<1>3. QED  BY <1>1, <1>2

\* A step of a call is shown for the call itself, and for the others by what it leaves.
LEMMA OneCallSteps ==
    ASSUME ConnInv, NEW c \in Conns, cBackend' = cBackend, \A d \in Conns \ {c} : Kept(d),
           ConnType', ConnCount', ConnHolds(c)', ConnRows(c)'
    PROVE  ConnInv'
<1>1. \A d \in Conns \ {c} : ConnHolds(d)' /\ ConnRows(d)'
  BY KeptFacts DEF ConnInv
<1>2. \A d \in Conns : ConnHolds(d)' /\ ConnRows(d)'
  BY <1>1, Zenon
<1>3. QED  BY <1>2 DEF ConnInv

\* The adapters that are open are counted when one is opened or closed.
LEMMA OpenCounts ==
    ASSUME ConnType, NEW c \in Conns, NEW x, handle' = [handle EXCEPT ![c] = x]
    PROVE  /\ Cardinality(Open) \in 0..Cardinality(Conns)
           /\ handle[c] # "open" /\ x = "open" => Cardinality(Open)' = Cardinality(Open) + 1
           /\ handle[c] = "open" /\ x # "open" => Cardinality(Open)' = Cardinality(Open) - 1
           /\ handle[c] # "open" /\ x # "open" => Open' = Open
<1>1. IsFiniteSet(Open) /\ Cardinality(Open) <= Cardinality(Conns) /\ Cardinality(Open) \in Nat
      /\ Cardinality(Conns) \in Nat
  BY FS_Subset, FS_CardinalityType, Open \subseteq Conns DEF Open
<1>2. \A d \in Conns : handle'[d] = IF d = c THEN x ELSE handle[d]
  BY DEF ConnType
<1>3. CASE handle[c] # "open" /\ x = "open"
  <2>1. Open' = Open \cup {c} /\ c \notin Open
    BY <1>2, <1>3 DEF Open
  <2>2. Cardinality(Open \cup {c}) = Cardinality(Open) + 1
    BY <1>1, <2>1, FS_AddElement
  <2>3. QED  BY <1>1, <1>3, <2>1, <2>2
<1>4. CASE handle[c] = "open" /\ x # "open"
  <2>1. Open' = Open \ {c} /\ c \in Open
    BY <1>2, <1>4 DEF Open
  <2>2. Cardinality(Open \ {c}) = Cardinality(Open) - 1
    BY <1>1, <2>1, FS_RemoveElement
  <2>3. QED  BY <1>1, <1>4, <2>1, <2>2
<1>5. CASE handle[c] # "open" /\ x # "open"
  <2>1. Open' = Open
    BY <1>2, <1>5 DEF Open
  <2>2. QED  BY <1>1, <1>5, <2>1
<1>6. CASE handle[c] = "open" /\ x = "open"
  BY <1>1, <1>6
<1>7. QED  BY <1>3, <1>4, <1>5, <1>6

\* What is neither opened nor closed is counted as it was.
LEMMA CountStays ==
    ASSUME ConnCount, UNCHANGED <<cBackend, handle, refs>>
    PROVE  ConnCount'
BY DEF ConnCount, Open

-----------------------------------------------------------------------------
(* Statements. *)

\* What a call is waiting for, changed in one field.
LEMMA WorkRecord ==
    ASSUME NEW w \in [op : {"none", "batch", "stream", "closing"}, done : 0..BatchSize]
    PROVE  /\ w.op \in {"none", "batch", "stream", "closing"} /\ w.done \in 0..BatchSize
           /\ \A n : [w EXCEPT !.done = n] = [op |-> w.op, done |-> n]
           /\ \A o : [w EXCEPT !.op = o] = [op |-> o, done |-> w.done]
OBVIOUS

\* BEGIN opens a transaction where there is none.
LEMMA BeginKeeps ==
    ASSUME ConnInv, NEW c \in Conns, Connections!begin(c)
    PROVE  ConnInv'
<1> USE DEF Connections!begin, Connections!Free, Connections!Works, Connections!pool
<1>0. ConnType /\ ConnCount /\ ConnHolds(c) /\ ConnRows(c)
  BY DEF ConnInv
<1>1. Connections!Session(c) \in Connections!Sessions
      /\ \A d \in Conns \ {c} : d \in Connections!Sessions \ {Connections!Session(c)}
  BY DEF Connections!Session, Connections!Sessions
<1>2. /\ begun' \in [Connections!Sessions -> BOOLEAN]
      /\ \A s \in Connections!Sessions \ {Connections!Session(c)} : begun'[s] = begun[s]
  BY <1>0, <1>1, BoolExcept DEF ConnType
<1>3. owner' \in [Conns -> BOOLEAN] /\ owner'[c] = TRUE /\ \A d \in Conns \ {c} : owner'[d] = owner[d]
  BY <1>0, BoolExcept DEF ConnType
<1>4. ConnType'
  BY <1>0, <1>2, <1>3 DEF ConnType, Table
<1>5. \A d \in Conns \ {c} : Kept(d)
  BY <1>1, <1>2, <1>3 DEF Kept, Written
<1>6. ConnHolds(c)'
  <2>1. cBackend \in Connections!InProcess => begun'[c] = begun[c]
    <3>1. SUFFICES ASSUME cBackend \in Connections!InProcess
                   PROVE  c \in Connections!Sessions \ {Connections!Session(c)}
      BY <1>2
    <3>2. QED  BY <3>1 DEF Connections!Session, Connections!Sessions
  <2>2. owner'[c] /\ cClient'[c] = "out" /\ handle'[c] = "open" /\ UNCHANGED <<heard, cBackend>>
    BY <1>3
  <2>3. cBackend \in Connections!Pooled \/ ~begun'[c]
    <3>1. cBackend = "none" => handle[c] = "none"
      BY <1>0 DEF ConnCount
    <3>2. cBackend \in Connections!Pooled \/ cBackend \in Connections!InProcess
      BY <1>0, <3>1 DEF ConnType
    <3>3. QED  BY <1>0, <2>1, <3>2 DEF ConnHolds
  <2>4. QED  BY <1>0, <2>2, <2>3 DEF ConnHolds
<1>7. ConnRows(c)'
  BY <1>0 DEF ConnRows, Written
<1>8. QED  BY <1>0, <1>4, <1>5, <1>6, <1>7, OneCallSteps, CountStays

\* COMMIT and ROLLBACK end it, and a client that is gone has none.
LEMMA EndingKeeps ==
    ASSUME ConnInv, NEW c \in Conns, Connections!commit(c) \/ Connections!rollback(c)
    PROVE  ConnInv'
<1> USE DEF Connections!commit, Connections!rollback, Connections!Free, Connections!Works,
            Connections!pool, Connections!data
<1>0. ConnType /\ ConnCount /\ ConnHolds(c) /\ ConnRows(c)
  BY DEF ConnInv
<1>1. /\ UNCHANGED <<cBackend, handle, refs, cClient, heard, work, batch, cSignal>>
      /\ handle[c] = "open" /\ owner[c]
  OBVIOUS
<1>2. /\ begun' \in [Connections!Sessions -> BOOLEAN]
      /\ \A d \in Conns \ {c} : begun'[d] = begun[d]
      /\ begun'[c] => begun[c] /\ (cClient[c] # "out" \/ cBackend \notin Connections!Pooled)
      /\ pending' \in [Connections!Sessions -> SUBSET Table] /\ rows' \subseteq Table
      /\ \A d \in Conns : Written(d)' \subseteq Written(d)
      /\ owner' \in [Conns -> BOOLEAN] /\ owner'[c] = FALSE
      /\ \A d \in Conns \ {c} : owner'[d] = owner[d]
  <2>1. CASE \E kept \in SUBSET pending[Connections!Session(c)] : Connections!Ends(c, kept)
    BY <1>0, <2>1, EndsFacts
  <2>2. CASE /\ cClient[c] # "out" /\ owner' = [owner EXCEPT ![c] = FALSE]
             /\ UNCHANGED <<begun, pending, rows>>
    <3>1. owner' \in [Conns -> BOOLEAN] /\ owner'[c] = FALSE /\ \A d \in Conns \ {c} : owner'[d] = owner[d]
      BY <1>0, <2>2, BoolExcept DEF ConnType
    <3>2. QED  BY <1>0, <2>2, <3>1 DEF ConnType, Written
  <2>3. QED  BY <2>1, <2>2
<1>3. ConnType'
  BY <1>0, <1>1, <1>2 DEF ConnType, Table
<1>4. \A d \in Conns \ {c} : Kept(d)
  BY <1>1, <1>2 DEF Kept
<1>5. ConnHolds(c)'
  BY <1>0, <1>1, <1>2 DEF ConnHolds
<1>6. ConnRows(c)'
  <2> HIDE DEF Written
  <2>1. QED  BY <1>0, <1>1, <1>2 DEF ConnRows
<1>7. QED  BY <1>0, <1>1, <1>3, <1>4, <1>5, <1>6, OneCallSteps, CountStays

\* A statement writes its one row, which is none of a batch's.
LEMMA ExecuteKeeps ==
    ASSUME ConnInv, NEW c \in Conns, Connections!execute(c)
    PROVE  ConnInv'
<1> USE DEF Connections!execute, Connections!Free, Connections!Works, Connections!pool
<1>0. ConnType /\ ConnCount /\ ConnHolds(c) /\ ConnRows(c)
  BY DEF ConnInv
<1>1. UNCHANGED <<cBackend, handle, refs, cClient, heard, work, batch, owner, cSignal>>
  OBVIOUS
<1>2. Connections!Writes(c, {<<c, 0>>})
  BY DEF Connections!executeMemory, Connections!executeSqlite, Connections!executeMysql, Connections!executePostgres
<1>3. /\ begun' = begun /\ pending' \in [Connections!Sessions -> SUBSET Table]
      /\ rows' \subseteq Table /\ \A d \in Conns \ {c} : Written(d)' \subseteq Written(d)
      /\ Written(c)' \subseteq Written(c) \cup {i \in 1..BatchSize : <<c, i>> \in {<<c, 0>>}}
  <2>1. {<<c, 0>>} \in SUBSET ({c} \X (0..BatchSize))
    OBVIOUS
  <2>2. QED  BY <1>0, <1>2, <2>1, WritesFacts
<1>4. Written(c)' \subseteq Written(c)
  <2> HIDE DEF Written
  <2>1. QED  BY <1>3
<1>5. ConnType'
  BY <1>0, <1>1, <1>3 DEF ConnType, Table
<1>6. \A d \in Conns \ {c} : Kept(d)
  BY <1>1, <1>3 DEF Kept
<1>7. ConnHolds(c)'
  BY <1>0, <1>1, <1>3, Zenon DEF ConnHolds
<1>8. ConnRows(c)'
  <2> HIDE DEF Written
  <2>1. QED  BY <1>0, <1>1, <1>4 DEF ConnRows
<1>9. QED  BY <1>0, <1>1, <1>5, <1>6, <1>7, <1>8, OneCallSteps, CountStays

\* A batch is written whole in the process, or none of it; in a pool's client it begins.
LEMMA BatchKeeps ==
    ASSUME ConnInv, NEW c \in Conns, Connections!executeBatch(c)
    PROVE  ConnInv'
<1> USE DEF Connections!executeBatch, Connections!Free, Connections!Works, Connections!pool, Connections!data
<1>0. ConnType /\ ConnCount /\ ConnHolds(c) /\ ConnRows(c)
  BY DEF ConnInv
<1>1. /\ UNCHANGED <<cBackend, handle, refs, cClient, heard, owner, cSignal>>
      /\ handle[c] = "open" /\ batch[c] = "none" /\ cClient[c] = "out" /\ work[c] = [op |-> "none", done |-> 0]
      /\ Written(c) = {}
  BY <1>0 DEF ConnRows
<1>2. \/ /\ cBackend \in Connections!InProcess /\ work' = work
         /\ Connections!Writes(c, {c} \X (1..BatchSize)) /\ batch' = [batch EXCEPT ![c] = "whole"]
      \/ /\ cBackend \in Connections!InProcess /\ UNCHANGED <<work, begun, pending, rows>>
         /\ batch' = [batch EXCEPT ![c] = "failed"]
      \/ /\ cBackend \in Connections!Pooled /\ UNCHANGED <<begun, pending, rows, batch>>
         /\ work' = [work EXCEPT ![c] = [op |-> "batch", done |-> 0]]
  BY DEF Connections!executeBatchSqlite, Connections!executeBatchMemory,
         Connections!executeBatchMysql, Connections!executeBatchPostgres
<1>3. CASE /\ cBackend \in Connections!InProcess /\ work' = work
           /\ Connections!Writes(c, {c} \X (1..BatchSize)) /\ batch' = [batch EXCEPT ![c] = "whole"]
  <2>1. /\ begun' = begun /\ pending' \in [Connections!Sessions -> SUBSET Table]
        /\ rows' \subseteq Table /\ \A d \in Conns \ {c} : Written(d)' \subseteq Written(d)
    BY <1>0, <1>3, WritesFacts
  <2>2. ConnType'
    BY <1>0, <1>1, <1>3, <2>1 DEF ConnType, Table
  <2>3. \A d \in Conns \ {c} : Kept(d)
    BY <1>0, <1>1, <1>3, <2>1 DEF Kept, ConnType
  <2>4. ConnHolds(c)'
    BY <1>0, <1>1, <1>3, <2>1 DEF ConnHolds
  <2>5. ConnRows(c)'
    BY <1>0, <1>1, <1>3, <2>1 DEF ConnRows, ConnType
  <2>6. QED  BY <1>0, <1>1, <2>2, <2>3, <2>4, <2>5, OneCallSteps, CountStays
<1>4. CASE /\ cBackend \in Connections!InProcess /\ UNCHANGED <<work, begun, pending, rows>>
           /\ batch' = [batch EXCEPT ![c] = "failed"]
  <2>1. \A d \in Conns : Written(d)' = Written(d)
    BY <1>4 DEF Written
  <2>2. ConnType'
    BY <1>0, <1>1, <1>4 DEF ConnType, Table
  <2>3. \A d \in Conns \ {c} : Kept(d)
    BY <1>0, <1>1, <1>4, <2>1 DEF Kept, ConnType
  <2>4. ConnHolds(c)'
    BY <1>0, <1>1, <1>4 DEF ConnHolds
  <2>5. ConnRows(c)'
    BY <1>0, <1>1, <1>4, <2>1 DEF ConnRows, ConnType
  <2>6. QED  BY <1>0, <1>1, <2>2, <2>3, <2>4, <2>5, OneCallSteps, CountStays
<1>5. CASE /\ cBackend \in Connections!Pooled /\ UNCHANGED <<begun, pending, rows, batch>>
           /\ work' = [work EXCEPT ![c] = [op |-> "batch", done |-> 0]]
  <2>1. \A d \in Conns : Written(d)' = Written(d)
    BY <1>5 DEF Written
  <2>2. ConnType'
    BY <1>0, <1>1, <1>5 DEF ConnType, Table
  <2>3. \A d \in Conns \ {c} : Kept(d)
    BY <1>0, <1>1, <1>5, <2>1 DEF Kept, ConnType
  <2>4. ConnHolds(c)'
    BY <1>0, <1>1, <1>5 DEF ConnHolds
  <2>5. ConnRows(c)'
    BY <1>0, <1>1, <1>5, <2>1 DEF ConnRows, ConnType
  <2>6. QED  BY <1>0, <1>1, <2>2, <2>3, <2>4, <2>5, OneCallSteps, CountStays
<1>6. QED  BY <1>2, <1>3, <1>4, <1>5, Zenon

\* A batch in a pool's client goes on with its next row, or fails with those behind it.
LEMMA BatchGoesOnKeeps ==
    ASSUME ConnInv, NEW c \in Conns, Connections!BatchGoesOn(c)
    PROVE  ConnInv'
<1> USE DEF Connections!BatchGoesOn, Connections!Works, Connections!pool, Connections!data
<1>0. ConnType /\ ConnCount /\ ConnHolds(c) /\ ConnRows(c)
  BY DEF ConnInv
<1>1. /\ UNCHANGED <<cBackend, handle, refs, cClient, heard, owner, cSignal>>
      /\ handle[c] = "open" /\ batch[c] = "none" /\ work[c].op = "batch" /\ work[c].done \in 0..(BatchSize - 1)
      /\ cBackend \in Connections!Pooled /\ \A i \in Written(c) : i <= work[c].done
  BY <1>0 DEF ConnRows, ConnType
<1>2. CASE /\ Connections!Writes(c, {<<c, work[c].done + 1>>})
           /\ work' = [work EXCEPT ![c] = IF @.done + 1 = BatchSize THEN Connections!NoWork
                                          ELSE [@ EXCEPT !.done = work[c].done + 1]]
           /\ batch' = [batch EXCEPT ![c] = IF work[c].done + 1 = BatchSize THEN "whole" ELSE @]
  <2> DEFINE n == work[c].done
  <2>1. {<<c, n + 1>>} \in SUBSET ({c} \X (0..BatchSize))
    BY <1>1
  <2>2. /\ begun' = begun /\ pending' \in [Connections!Sessions -> SUBSET Table]
        /\ rows' \subseteq Table /\ \A d \in Conns \ {c} : Written(d)' \subseteq Written(d)
        /\ Written(c)' \subseteq Written(c) \cup {i \in 1..BatchSize : <<c, i>> \in {<<c, n + 1>>}}
    BY <1>0, <1>2, <2>1, WritesFacts
  <2>3. \A i \in Written(c)' : i <= n + 1
    BY <1>0, <1>1, <2>2 DEF Written
  <2> DEFINE new == IF n + 1 = BatchSize THEN [op |-> "none", done |-> 0] ELSE [op |-> "batch", done |-> n + 1]
  <2>4. work' = [work EXCEPT ![c] = new]
    <3>1. [work[c] EXCEPT !.done = n + 1] = [op |-> "batch", done |-> n + 1]
      BY <1>0, <1>1, WorkRecord DEF ConnType
    <3>2. CASE n + 1 = BatchSize
      BY <1>2, <3>2
    <3>3. CASE n + 1 # BatchSize
      <4>1. work' = [work EXCEPT ![c] = [work[c] EXCEPT !.done = n + 1]]
        BY <1>2, <3>3
      <4>2. QED  BY <3>1, <3>3, <4>1
    <3>4. QED  BY <3>2, <3>3
  <2>41. new \in [op : {"none", "batch", "stream", "closing"}, done : 0..BatchSize]
    BY <1>1
  <2>42. batch' = [batch EXCEPT ![c] = IF n + 1 = BatchSize THEN "whole" ELSE "none"]
    BY <1>1, <1>2
  <2>43. work' \in [Conns -> [op : {"none", "batch", "stream", "closing"}, done : 0..BatchSize]]
        /\ work'[c] = new /\ \A d \in Conns \ {c} : work'[d] = work[d]
    <3> HIDE DEF new
    <3>1. QED  BY <1>0, <2>4, <2>41 DEF ConnType
  <2>44. batch' \in [Conns -> {"none", "whole", "failed"}]
        /\ batch'[c] = (IF n + 1 = BatchSize THEN "whole" ELSE "none") /\ \A d \in Conns \ {c} : batch'[d] = batch[d]
    BY <1>0, <2>42 DEF ConnType
  <2>5. ConnType'
    BY <1>0, <1>1, <2>43, <2>44, <2>2 DEF ConnType, Table
  <2>6. \A d \in Conns \ {c} : Kept(d)
    BY <1>0, <1>1, <2>43, <2>44, <2>2 DEF Kept, ConnType
  <2>7. ConnHolds(c)'
    BY <1>0, <1>1, <2>2, <2>43, <2>44 DEF ConnHolds
  <2>8. ConnRows(c)'
    <3> HIDE DEF Written
    <3>1. QED  BY <1>0, <1>1, <2>3, <2>43, <2>44 DEF ConnRows
  <2>9. QED  BY <1>0, <1>1, <2>5, <2>6, <2>7, <2>8, OneCallSteps, CountStays
<1>3. CASE /\ UNCHANGED <<begun, pending, rows>> /\ work' = [work EXCEPT ![c] = Connections!NoWork]
           /\ batch' = [batch EXCEPT ![c] = "failed"]
  <2>1. \A d \in Conns : Written(d)' = Written(d)
    BY <1>3 DEF Written
  <2>2. ConnType'
    BY <1>0, <1>1, <1>3 DEF ConnType, Table
  <2>3. \A d \in Conns \ {c} : Kept(d)
    BY <1>0, <1>1, <1>3, <2>1 DEF Kept, ConnType
  <2>4. ConnHolds(c)'
    BY <1>0, <1>1, <1>3 DEF ConnHolds, ConnType
  <2>5. BatchSize \notin Written(c)
    BY <1>1
  <2>6. ConnRows(c)'
    <3> HIDE DEF Written
    <3>1. QED  BY <1>0, <1>1, <1>3, <2>1, <2>5 DEF ConnRows, ConnType
  <2>7. QED  BY <1>0, <1>1, <2>2, <2>3, <2>4, <2>6, OneCallSteps, CountStays
<1>4. QED  BY <1>2, <1>3

\* A stream is begun and ends with no row written.
LEMMA StreamKeeps ==
    ASSUME ConnInv, NEW c \in Conns, Connections!stream(c) \/ Connections!StreamEnds(c)
    PROVE  ConnInv'
<1> USE DEF Connections!stream, Connections!StreamEnds, Connections!streamPostgres, Connections!streamMysql,
            Connections!Works, Connections!Free, Connections!pool, Connections!data
<1>0. ConnType /\ ConnCount /\ ConnHolds(c) /\ ConnRows(c)
  BY DEF ConnInv
<1>1. /\ UNCHANGED <<cBackend, handle, refs, cClient, heard, owner, cSignal, batch, begun, pending, rows>>
      /\ handle[c] = "open" /\ work[c].op # "batch"
      /\ cBackend \in {"mysql", "postgres"} => (cClient[c] # "returned")
  BY <1>0 DEF ConnHolds
<1>2. /\ work' \in [Conns -> [op : {"none", "batch", "stream", "closing"}, done : 0..BatchSize]]
      /\ work'[c].op # "batch" /\ \A d \in Conns \ {c} : work'[d] = work[d]
  <2>1. PICK o \in {"none", "stream", "closing"}, n \in 0..BatchSize :
            work' = [work EXCEPT ![c] = [op |-> o, done |-> n]]
    <3>1. /\ work[c].op \in {"none", "batch", "stream", "closing"} /\ work[c].done \in 0..BatchSize
          /\ \A o : [work[c] EXCEPT !.op = o] = [op |-> o, done |-> work[c].done]
      BY <1>0, WorkRecord DEF ConnType
    <3>2. \/ work' = [work EXCEPT ![c] = [work[c] EXCEPT !.op = "stream"]]
          \/ work' = [work EXCEPT ![c] = [work[c] EXCEPT !.op = "closing"]]
          \/ work' = [work EXCEPT ![c] = [op |-> "none", done |-> 0]]
      BY <1>0 DEF ConnType
    <3>3. CASE work' = [work EXCEPT ![c] = [work[c] EXCEPT !.op = "stream"]]
      <4>1. work' = [work EXCEPT ![c] = [op |-> "stream", done |-> work[c].done]]
        BY <3>1, <3>3
      <4>2. QED  BY <3>1, <4>1
    <3>4. CASE work' = [work EXCEPT ![c] = [work[c] EXCEPT !.op = "closing"]]
      <4>1. work' = [work EXCEPT ![c] = [op |-> "closing", done |-> work[c].done]]
        BY <3>1, <3>4
      <4>2. QED  BY <3>1, <4>1
    <3>5. CASE work' = [work EXCEPT ![c] = [op |-> "none", done |-> 0]]
      <4>1. "none" \in {"none", "stream", "closing"} /\ 0 \in 0..BatchSize
        OBVIOUS
      <4>2. QED  BY <3>5, <4>1, Zenon
    <3>6. QED  BY <3>2, <3>3, <3>4, <3>5
  <2>2. [op |-> o, done |-> n] \in [op : {"none", "batch", "stream", "closing"}, done : 0..BatchSize]
        /\ [op |-> o, done |-> n].op # "batch"
    OBVIOUS
  <2> DEFINE new == [op |-> o, done |-> n]
  <2> HIDE DEF new
  <2>3. work' = [work EXCEPT ![c] = new]
    BY <2>1 DEF new
  <2>4. new \in [op : {"none", "batch", "stream", "closing"}, done : 0..BatchSize] /\ new.op # "batch"
    BY <2>2 DEF new
  <2>5. QED  BY <1>0, <2>3, <2>4 DEF ConnType
<1>3. \A d \in Conns : Written(d)' = Written(d)
  BY <1>1 DEF Written
<1>4. ConnType'
  BY <1>0, <1>1, <1>2 DEF ConnType, Table
<1>5. \A d \in Conns \ {c} : Kept(d)
  BY <1>1, <1>2, <1>3 DEF Kept
<1>6. ConnHolds(c)'
  BY <1>0, <1>1 DEF ConnHolds
<1>7. ConnRows(c)'
  <2> HIDE DEF Written
  <2>1. QED  BY <1>0, <1>1, <1>2, <1>3 DEF ConnRows
<1>8. QED  BY <1>0, <1>1, <1>4, <1>5, <1>6, <1>7, OneCallSteps, CountStays

-----------------------------------------------------------------------------
(* Connections. *)

\* A connector is created when there is none.
LEMMA CreateKeeps ==
    ASSUME ConnInv, Connections!create
    PROVE  ConnInv'
<1> USE DEF Connections!create, Connections!data
<1>0. ConnType /\ ConnCount /\ \A c \in Conns : ConnHolds(c) /\ ConnRows(c)
  BY DEF ConnInv
<1>1. /\ UNCHANGED <<handle, refs, cClient, heard, work, owner, cSignal, batch, begun, pending, rows>>
      /\ cBackend' \in {"memory", "sqlite", "mysql", "postgres"}
      /\ refs = 0 /\ \A c \in Conns : handle[c] = "none"
  BY <1>0 DEF ConnCount
<1>2. ConnType'
  BY <1>0, <1>1 DEF ConnType, Table
<1>3. ConnCount'
  <2>1. Open' = {}
    BY <1>1 DEF Open
  <2>2. Cardinality({}) = 0
    BY FS_EmptySet
  <2>3. QED  BY <1>1, <2>1, <2>2 DEF ConnCount
<1>4. ASSUME NEW c \in Conns PROVE ConnHolds(c)' /\ ConnRows(c)'
  <2>1. ConnHolds(c) /\ ConnRows(c) /\ handle[c] = "none"
    BY <1>0, <1>1
  <2>2. Written(c)' = Written(c)
    BY <1>1 DEF Written
  <2>3. ConnHolds(c)'
    BY <1>1, <2>1 DEF ConnHolds
  <2>4. ConnRows(c)'
    <3> HIDE DEF Written
    <3>1. QED  BY <1>0, <1>1, <2>1, <2>2 DEF ConnRows, ConnHolds
  <2>5. QED  BY <2>3, <2>4
<1>5. QED  BY <1>2, <1>3, <1>4 DEF ConnInv

\* The end of SQLite's database takes it from those that have it.
LEMMA EndKeeps ==
    ASSUME ConnInv, Connections!end
    PROVE  ConnInv'
<1> USE DEF Connections!end
<1>0. ConnType /\ ConnCount /\ \A c \in Conns : ConnHolds(c) /\ ConnRows(c)
  BY DEF ConnInv
<1>1. /\ UNCHANGED <<cBackend, handle, refs, heard, work, owner, cSignal, batch, rows>>
      /\ cBackend = "sqlite"
  OBVIOUS
<1>2. /\ begun' \in [Connections!Sessions -> BOOLEAN]
  <2>1. begun' = [begun EXCEPT ![None] = FALSE] /\ None \in Connections!Sessions
    BY DEF Connections!Sessions
  <2>2. QED  BY <1>0, <2>1, BoolExcept DEF ConnType
<1>3. /\ pending' \in [Connections!Sessions -> SUBSET Table]
      /\ \A s \in Connections!Sessions : pending'[s] \subseteq pending[s]
  BY <1>0 DEF ConnType, Connections!Sessions
<1>4. cClient' = [c \in Conns |-> IF cClient[c] = "out" THEN "destroyed" ELSE cClient[c]]
  OBVIOUS
<1>5. ConnType'
  BY <1>0, <1>1, <1>2, <1>3, <1>4 DEF ConnType, Table
<1>6. ConnCount'
  BY <1>0, <1>1, CountStays
<1>7. ASSUME NEW c \in Conns PROVE ConnHolds(c)' /\ ConnRows(c)'
  <2>1. ConnHolds(c) /\ ConnRows(c) /\ cClient'[c] = IF cClient[c] = "out" THEN "destroyed" ELSE cClient[c]
    BY <1>0, <1>4
  <2>2. Written(c)' \subseteq Written(c)
    BY <1>1, <1>3 DEF Written
  <2>3. ConnHolds(c)'
    BY <1>1, <2>1 DEF ConnHolds
  <2>4. ConnRows(c)'
    <3> HIDE DEF Written
    <3>1. QED  BY <1>1, <2>1, <2>2 DEF ConnRows
  <2>5. QED  BY <2>3, <2>4
<1>8. QED  BY <1>5, <1>6, <1>7 DEF ConnInv

\* A call of a pool waits for its client.
LEMMA WithConnectionKeeps ==
    ASSUME ConnInv, NEW c \in Conns, Connections!withConnection(c)
    PROVE  ConnInv'
<1> USE DEF Connections!withConnection, Connections!pool, Connections!data
<1>0. ConnType /\ ConnCount /\ ConnHolds(c) /\ ConnRows(c)
  BY DEF ConnInv
<1>1. /\ UNCHANGED <<cBackend, refs, cClient, heard, work, owner, cSignal, batch, begun, pending, rows>>
      /\ handle[c] = "none" /\ handle' = [handle EXCEPT ![c] = "acquiring"]
      /\ cBackend \in Connections!Pooled
  OBVIOUS
<1>2. /\ handle' \in [Conns -> {"none", "acquiring", "open", "over"}] /\ handle'[c] = "acquiring"
      /\ \A d \in Conns \ {c} : handle'[d] = handle[d]
  BY <1>0, <1>1 DEF ConnType
<1>3. ConnType'
  BY <1>0, <1>1, <1>2 DEF ConnType, Table
<1>4. ConnCount'
  BY <1>0, <1>1 DEF ConnCount
<1>5. \A d \in Conns : Written(d)' = Written(d)
  BY <1>1 DEF Written
<1>6. \A d \in Conns \ {c} : Kept(d)
  BY <1>1, <1>2, <1>5 DEF Kept
<1>7. ConnHolds(c)'
  BY <1>0, <1>1, <1>2, Zenon DEF ConnHolds
<1>8. ConnRows(c)'
  <2> HIDE DEF Written
  <2>1. QED  BY <1>0, <1>1, <1>2, <1>5 DEF ConnRows, ConnHolds
<1>9. QED  BY <1>0, <1>1, <1>3, <1>4, <1>6, <1>7, <1>8, OneCallSteps

\* Whatever comes of a connect: the call is open with its client, or over without.
LEMMA ConnectKeeps ==
    ASSUME ConnInv, NEW c \in Conns, Connections!connect(c)
    PROVE  ConnInv'
<1> USE DEF Connections!connect, Connections!Opens
<1>0. ConnType /\ ConnCount /\ ConnHolds(c) /\ ConnRows(c)
  BY DEF ConnInv
<1>1. UNCHANGED <<cBackend, work, owner, cSignal, batch, begun, pending, rows>>
  BY DEF Connections!data
<1>2. handle[c] \in {"none", "acquiring"} /\ cClient[c] = "none" /\ ~heard[c] /\ cBackend # "none"
  BY <1>0 DEF ConnHolds, Connections!connectMemory, Connections!connectSqlite,
         Connections!connectMysql, Connections!connectPostgres
<1>3. PICK h \in {"open", "over"}, k \in {"none", "out", "returned", "destroyed"} :
          /\ handle' = [handle EXCEPT ![c] = h] /\ cClient' = [cClient EXCEPT ![c] = k]
          /\ h = "over" => k # "out"
          /\ h = "open" /\ cBackend \in Connections!Pooled => k = "out"
  <2>1. cClient = [cClient EXCEPT ![c] = "none"]
    BY <1>0, <1>2 DEF ConnType
  <2>2. CASE Connections!connectMemory(c)
    BY <2>2, Zenon DEF Connections!connectMemory
  <2>3. CASE Connections!connectSqlite(c)
    BY <2>3, Zenon DEF Connections!connectSqlite
  <2>4. CASE Connections!connectMysql(c)
    BY <2>1, <2>4, Zenon DEF Connections!connectMysql
  <2>5. CASE Connections!connectPostgres(c)
    BY <2>1, <2>5, Zenon DEF Connections!connectPostgres
  <2>6. QED  BY <2>2, <2>3, <2>4, <2>5
<1>4. /\ heard' \in [Conns -> BOOLEAN] /\ \A d \in Conns \ {c} : heard'[d] = heard[d]
      /\ heard'[c] => h = "open" /\ cBackend \in Connections!Pooled
  <2>1. CASE heard' = heard
    BY <1>0, <1>2, <2>1 DEF ConnType
  <2>2. CASE /\ heard' = [heard EXCEPT ![c] = TRUE] /\ cBackend \in Connections!Pooled
             /\ handle' = [handle EXCEPT ![c] = "open"]
    <3>1. heard' \in [Conns -> BOOLEAN] /\ \A d \in Conns \ {c} : heard'[d] = heard[d]
      BY <1>0, <2>2, BoolExcept DEF ConnType
    <3>2. h = "open"
      BY <1>0, <1>3, <2>2 DEF ConnType
    <3>3. QED  BY <2>2, <3>1, <3>2
  <2>3. QED  BY <2>1, <2>2 DEF Connections!connectMemory, Connections!connectSqlite,
         Connections!connectMysql, Connections!connectPostgres
<1>5. /\ handle' \in [Conns -> {"none", "acquiring", "open", "over"}] /\ handle'[c] = h
      /\ \A d \in Conns \ {c} : handle'[d] = handle[d]
      /\ cClient' \in [Conns -> {"none", "out", "returned", "destroyed"}] /\ cClient'[c] = k
      /\ \A d \in Conns \ {c} : cClient'[d] = cClient[d]
  BY <1>0, <1>3 DEF ConnType
<1>6. ConnType'
  BY <1>0, <1>1, <1>4, <1>5 DEF ConnType, Table
<1>7. ConnCount'
  <2>1. CASE cBackend \in Connections!InProcess
    <3>1. h = "open" /\ refs' = refs + 1
      BY <1>0, <1>3, <2>1 DEF Connections!connectMemory, Connections!connectSqlite,
         Connections!connectMysql, Connections!connectPostgres, ConnType
    <3>2. Cardinality(Open)' = Cardinality(Open) + 1
      BY <1>0, <1>2, <1>3, <3>1, OpenCounts
    <3>3. QED  BY <1>0, <1>1, <2>1, <3>1, <3>2 DEF ConnCount
  <2>2. CASE cBackend \notin Connections!InProcess
    BY <1>0, <1>1, <1>2, <2>2 DEF ConnCount, Connections!connectMemory, Connections!connectSqlite,
         Connections!connectMysql, Connections!connectPostgres
  <2>3. QED  BY <2>1, <2>2
<1>8. \A d \in Conns : Written(d)' = Written(d)
  BY <1>1 DEF Written
<1>9. \A d \in Conns \ {c} : Kept(d)
  BY <1>1, <1>4, <1>5, <1>8 DEF Kept
<1>10. ConnHolds(c)'
  BY <1>0, <1>1, <1>2, <1>3, <1>4, <1>5 DEF ConnHolds
<1>11. ConnRows(c)'
  <2> HIDE DEF Written
  <2>1. QED  BY <1>0, <1>1, <1>2, <1>5, <1>8 DEF ConnRows, ConnHolds
<1>12. QED  BY <1>0, <1>1, <1>6, <1>7, <1>9, <1>10, <1>11, OneCallSteps

\* The abort destroys the client that is heard of, and its transaction with it.
LEMMA AbortKeeps ==
    ASSUME ConnInv, NEW c \in Conns, Connections!Abort(c)
    PROVE  ConnInv'
<1> USE DEF Connections!Abort, Connections!Loses, Connections!data
<1>0. ConnType /\ ConnCount /\ ConnHolds(c) /\ ConnRows(c)
  BY DEF ConnInv
<1>1. /\ UNCHANGED <<cBackend, handle, refs, work, owner, batch, rows>>
      /\ cSignal' = [cSignal EXCEPT ![c] = TRUE] /\ heard' = [heard EXCEPT ![c] = FALSE]
  OBVIOUS
<1>2. cSignal' \in [Conns -> BOOLEAN]
  BY <1>0, <1>1, BoolExcept DEF ConnType
<1>3. heard' \in [Conns -> BOOLEAN] /\ heard'[c] = FALSE /\ \A d \in Conns \ {c} : heard'[d] = heard[d]
  BY <1>0, <1>1, BoolExcept DEF ConnType
<1>4. /\ begun' \in [Connections!Sessions -> BOOLEAN] /\ pending' \in [Connections!Sessions -> SUBSET Table]
      /\ cClient' \in [Conns -> {"none", "out", "returned", "destroyed"}]
      /\ \A d \in Conns \ {c} : begun'[d] = begun[d] /\ cClient'[d] = cClient[d]
      /\ \A s \in Connections!Sessions : pending'[s] \subseteq pending[s]
      /\ \/ heard[c] /\ begun'[c] = FALSE /\ cClient'[c] = "destroyed"
         \/ begun'[c] = begun[c] /\ cClient'[c] = cClient[c]
  <2>1. c \in Connections!Sessions /\ \A d \in Conns \ {c} : d \in Connections!Sessions \ {c}
    BY DEF Connections!Sessions
  <2>2. CASE heard[c]
    <3>1. begun' \in [Connections!Sessions -> BOOLEAN] /\ begun'[c] = FALSE
          /\ \A s \in Connections!Sessions \ {c} : begun'[s] = begun[s]
      <4>1. begun' = [begun EXCEPT ![c] = FALSE] /\ begun \in [Connections!Sessions -> BOOLEAN]
        BY <1>0, <2>2 DEF ConnType
      <4>2. QED  BY <2>1, <4>1, BoolExcept
    <3>2. pending' = [pending EXCEPT ![c] = {}] /\ cClient' = [cClient EXCEPT ![c] = "destroyed"]
      BY <2>2
    <3>3. pending' \in [Connections!Sessions -> SUBSET Table] /\ \A s \in Connections!Sessions : pending'[s] \subseteq pending[s]
      BY <1>0, <3>2 DEF ConnType
    <3>4. /\ cClient' \in [Conns -> {"none", "out", "returned", "destroyed"}] /\ cClient'[c] = "destroyed"
          /\ \A d \in Conns \ {c} : cClient'[d] = cClient[d]
      BY <1>0, <3>2 DEF ConnType
    <3>5. QED  BY <2>1, <2>2, <3>1, <3>3, <3>4
  <2>3. CASE ~heard[c]
    BY <1>0, <2>3 DEF ConnType, Connections!data
  <2>4. QED  BY <2>2, <2>3
<1>5. ConnType'
  BY <1>0, <1>1, <1>2, <1>3, <1>4 DEF ConnType, Table
<1>6. \A d \in Conns : Written(d)' \subseteq Written(d)
  BY <1>1, <1>4 DEF Written
<1>7. \A d \in Conns \ {c} : Kept(d)
  BY <1>1, <1>3, <1>4, <1>6 DEF Kept
<1>8. ConnHolds(c)'
  BY <1>0, <1>1, <1>3, <1>4 DEF ConnHolds
<1>9. ConnRows(c)'
  <2> HIDE DEF Written
  <2>1. QED  BY <1>0, <1>1, <1>6 DEF ConnRows
<1>10. QED  BY <1>0, <1>1, <1>5, <1>7, <1>8, <1>9, OneCallSteps, CountStays

\* A connection is given back with no transaction of its call on it.
LEMMA CloseKeeps ==
    ASSUME ConnInv, NEW c \in Conns, Connections!close(c)
    PROVE  ConnInv'
<1> USE DEF Connections!close, Connections!closeMemory, Connections!closeSqlite, Connections!closeMysql,
            Connections!closePostgres, Connections!Releases, Connections!data
<1>0. ConnType /\ ConnCount /\ ConnHolds(c) /\ ConnRows(c)
  BY DEF ConnInv
<1>1. /\ UNCHANGED <<cBackend, cSignal, batch, begun, pending>> /\ rows' \subseteq rows
      /\ handle[c] = "open" /\ handle' = [handle EXCEPT ![c] = "over"]
      /\ work' = [work EXCEPT ![c] = [op |-> "none", done |-> 0]]
      /\ cClient' = [cClient EXCEPT ![c] = IF cClient[c] = "out" THEN "returned" ELSE cClient[c]]
  OBVIOUS
<1>2. owner' \in [Conns -> BOOLEAN] /\ owner'[c] = FALSE /\ \A d \in Conns \ {c} : owner'[d] = owner[d]
  BY <1>0, BoolExcept DEF ConnType
<1>3. heard' \in [Conns -> BOOLEAN] /\ heard'[c] = FALSE /\ \A d \in Conns \ {c} : heard'[d] = heard[d]
  <2>1. heard' = [heard EXCEPT ![c] = FALSE] /\ heard \in [Conns -> BOOLEAN]
    BY <1>0 DEF ConnType
  <2>2. QED  BY <2>1, BoolExcept
<1>4. /\ handle' \in [Conns -> {"none", "acquiring", "open", "over"}] /\ handle'[c] = "over"
      /\ \A d \in Conns \ {c} : handle'[d] = handle[d]
      /\ cClient' \in [Conns -> {"none", "out", "returned", "destroyed"}] /\ cClient'[c] # "out"
      /\ \A d \in Conns \ {c} : cClient'[d] = cClient[d]
  BY <1>0, <1>1 DEF ConnType
<1>5. /\ work' \in [Conns -> [op : {"none", "batch", "stream", "closing"}, done : 0..BatchSize]]
      /\ work'[c] = [op |-> "none", done |-> 0] /\ \A d \in Conns \ {c} : work'[d] = work[d]
  BY <1>0, <1>1 DEF ConnType
<1>6. ConnType'
  BY <1>0, <1>1, <1>2, <1>3, <1>4, <1>5 DEF ConnType, Table
<1>7. ConnCount'
  <2>1. Cardinality(Open)' = Cardinality(Open) - 1
    <3>1. "over" # "open"
      OBVIOUS
    <3>2. QED  BY <1>0, <1>1, <3>1, OpenCounts, Zenon
  <2>2. cBackend # "none"
    BY <1>0, <1>1 DEF ConnCount
  <2>3. CASE cBackend \in Connections!InProcess
    BY <1>0, <1>1, <2>1, <2>2, <2>3 DEF ConnCount
  <2>4. CASE cBackend \notin Connections!InProcess
    BY <1>0, <1>1, <2>2, <2>4 DEF ConnCount
  <2>5. QED  BY <2>3, <2>4
<1>8. \A d \in Conns : Written(d)' \subseteq Written(d)
  BY <1>1 DEF Written
<1>9. \A d \in Conns \ {c} : Kept(d)
  BY <1>1, <1>2, <1>3, <1>4, <1>5, <1>8 DEF Kept
<1>10. ~begun'[c]
  BY <1>0, <1>1 DEF ConnHolds
<1>11. ConnHolds(c)'
  BY <1>0, <1>2, <1>3, <1>4, <1>5, <1>10 DEF ConnHolds
<1>12. ConnRows(c)'
  <2> HIDE DEF Written
  <2>1. QED  BY <1>0, <1>1, <1>4, <1>5, <1>8 DEF ConnRows
<1>13. QED  BY <1>0, <1>1, <1>6, <1>7, <1>9, <1>11, <1>12, OneCallSteps

-----------------------------------------------------------------------------
\* Connections begin with nothing open and nothing written.
LEMMA ConnInit == Connections!Init => ConnInv
<1> SUFFICES ASSUME Connections!Init PROVE ConnInv
  OBVIOUS
<1> USE DEF Connections!Init
<1>1. Open = {} /\ Cardinality({}) = 0
  BY FS_EmptySet DEF Open
<1>2. ConnType
  BY DEF ConnType, Connections!Sessions
<1>3. ConnCount
  BY <1>1 DEF ConnCount
<1>4. ASSUME NEW c \in Conns PROVE ConnHolds(c) /\ ConnRows(c)
  <2>1. Written(c) = {} /\ ~begun[c]
    BY DEF Written, Connections!Sessions
  <2>2. ConnHolds(c)
    BY <2>1 DEF ConnHolds
  <2>3. ConnRows(c)
    BY <2>1 DEF ConnRows
  <2>4. QED  BY <2>2, <2>3
<1>5. QED  BY <1>2, <1>3, <1>4 DEF ConnInv

\* Each step of a connector or of a call keeps what is known of the calls.
LEMMA ConnStep == ConnInv /\ [Connections!Next]_connections => ConnInv'
<1> SUFFICES ASSUME ConnInv, [Connections!Next]_connections PROVE ConnInv'
  OBVIOUS
<1>1. CASE Connections!create
  BY <1>1, CreateKeeps
<1>2. CASE Connections!end
  BY <1>2, EndKeeps
<1>3. ASSUME NEW c \in Conns, \/ Connections!withConnection(c) \/ Connections!connect(c) \/ Connections!Abort(c)
                              \/ Connections!close(c)
      PROVE  ConnInv'
  BY <1>3, WithConnectionKeeps, ConnectKeeps, AbortKeeps, CloseKeeps
<1>4. ASSUME NEW c \in Conns, \/ Connections!begin(c) \/ Connections!commit(c) \/ Connections!rollback(c)
                              \/ Connections!execute(c) \/ Connections!executeBatch(c)
      PROVE  ConnInv'
  BY <1>4, BeginKeeps, EndingKeeps, ExecuteKeeps, BatchKeeps
<1>5. ASSUME NEW c \in Conns, Connections!BatchGoesOn(c) \/ Connections!stream(c) \/ Connections!StreamEnds(c)
      PROVE  ConnInv'
  BY <1>5, BatchGoesOnKeeps, StreamKeeps
<1>6. CASE UNCHANGED connections
  <2>1. Open' = Open /\ \A c \in Conns : Written(c)' = Written(c)
    BY <1>6 DEF connections, Open, Written
  <2>2. QED
    <3> HIDE DEF Open, Written
    <3>1. QED  BY <1>6, <2>1 DEF ConnInv, ConnType, ConnCount, ConnHolds, ConnRows, connections, Table
<1>7. QED  BY <1>1, <1>2, <1>3, <1>4, <1>5, <1>6 DEF Connections!Next

\* What is known of the calls says that their connections are sound.
LEMMA ConnSound == ConnInv => ConnectionsAreSound
<1> SUFFICES ASSUME ConnInv PROVE ConnectionsAreSound
  OBVIOUS
<1>0. ConnType /\ ConnCount /\ \A c \in Conns : ConnHolds(c) /\ ConnRows(c)
  BY DEF ConnInv
<1>1. Connections!TypeOK
  <2>1. \A S : Connections!Cardinality(S) = Cardinality(S)
    BY DEF Connections!Cardinality, Cardinality
  <2>2. refs \in 0..Cardinality(Conns)
    <3>1. IsFiniteSet(Open) /\ Cardinality(Open) <= Cardinality(Conns) /\ Cardinality(Open) \in Nat
          /\ Cardinality(Conns) \in Nat
      BY FS_Subset, FS_CardinalityType, Open \subseteq Conns DEF Open
    <3>2. QED  BY <1>0, <3>1 DEF ConnCount
  <2>3. QED  BY <1>0, <2>1, <2>2 DEF Connections!TypeOK, ConnType, Table
<1>2. Connections!ClientsComeBack
  BY <1>0 DEF Connections!ClientsComeBack, ConnHolds
<1>3. Connections!FailedBatches
  <2>1. SUFFICES ASSUME NEW c \in Conns, batch[c] = "failed"
                 PROVE  IF cBackend \in Connections!InProcess THEN Connections!RowsOf(c) = {}
                                                  ELSE Connections!RowsOf(c) # 1..BatchSize
    BY DEF Connections!FailedBatches
  <2>2. Connections!RowsOf(c) \subseteq Written(c)
    BY DEF Connections!RowsOf, Written, Connections!Session, Connections!Sessions
  <2>3. QED  BY <1>0, <2>1, <2>2 DEF ConnRows
<1>4. QED  BY <1>1, <1>2, <1>3 DEF ConnectionsAreSound

\* A connection that was taken comes back, once and out of any transaction, and a batch
\* that fails has not written its rows: for any number of calls and rows (DB.withConnection,
\* over each connector).
THEOREM ConnectionsComeBack == MCSpec => []ConnectionsAreSound
<1>1. MCInit => ConnInv
  BY ConnInit DEF MCInit
<1>2. ConnInv /\ [MCNext]_mcvars => ConnInv'
  BY ConnStep, EachStutters
<1>3. ConnInv => ConnectionsAreSound
  BY ConnSound
<1>4. QED  BY <1>1, <1>2, <1>3, PTL DEF MCSpec

HIDE ConnectionsAssumption DEF ConnectionsAssumption, Connections!InProcess,
                                Connections!Pooled, Connections!NoWork

-----------------------------------------------------------------------------
(* Notifications. *)

\* A sequence of notifications that goes on from the a-th.
Run(q, a) == q \in Seq(Nat) /\ \A i \in 1..Len(q) : q[i] = a + i

NoteType ==
    /\ nBackend \in {"none", "memory", "postgres"} /\ notes \in 0..MaxNotes
    /\ subscriptions \subseteq Listeners
    /\ nState \in [Listeners -> {"none", "connecting", "listening", "closed"}]
    /\ loop \in [Listeners -> {"none", "reading", "leaving", "over"}]
    /\ nClient \in [Listeners -> {"none", "up", "listening", "ended"}]
    /\ first \in [Listeners -> Nat]
    /\ buffer \in [Listeners -> Seq(Nat)] /\ got \in [Listeners -> Seq(Nat)]
    /\ nWire \in [Listeners -> Seq(Nat)]

\* In which stage a listener is, and where it is known.
NoteStage(s) ==
    /\ nBackend # "postgres" => nClient[s] = "none" /\ nWire[s] = <<>> /\ nState[s] # "connecting"
    /\ nBackend # "memory" => s \notin subscriptions
    /\ nState[s] = "none" => nClient[s] = "none"
    /\ nState[s] \in {"none", "connecting"} => /\ loop[s] = "none" /\ s \notin subscriptions
                                               /\ got[s] = <<>> /\ buffer[s] = <<>>
    /\ nState[s] = "connecting" => nClient[s] \in {"up", "listening"}
    /\ nClient[s] \in {"none", "up"} => nWire[s] = <<>>
    /\ nState[s] = "listening" => IF nBackend = "memory" THEN s \in subscriptions ELSE nClient[s] = "listening"
    /\ loop[s] \in {"leaving", "over"} => nState[s] = "closed"
    /\ loop[s] = "over" => s \notin subscriptions /\ nClient[s] \in {"none", "ended"}

\* What a listener has, what its channel has and what is on its way are one run, that
\* ends with the last notification while its channel is open.
NoteRuns(s) ==
    /\ nState[s] = "connecting" => Len(nWire[s]) <= notes /\ Run(nWire[s], notes - Len(nWire[s]))
    /\ nState[s] \in {"listening", "closed"} =>
          Run(got[s], first[s]) /\ Run(buffer[s], first[s] + Len(got[s]))
    /\ nState[s] = "listening" =>
          /\ Run(nWire[s], first[s] + Len(got[s]) + Len(buffer[s]))
          /\ first[s] + Len(got[s]) + Len(buffer[s]) + Len(nWire[s]) = notes

NoteInv == NoteType /\ \A s \in Listeners : NoteStage(s) /\ NoteRuns(s)

-----------------------------------------------------------------------------
USE NotesAssumption DEF NotesAssumption, Notes!Open, Notes!Closes, Notes!Ends

\* Runs, as they are built and taken apart.
LEMMA RunEmpty == ASSUME NEW a \in Nat PROVE Run(<<>>, a)
BY DEF Run

LEMMA RunAppend ==
    ASSUME NEW q, NEW a \in Nat, Run(q, a)
    PROVE  Run(Append(q, a + Len(q) + 1), a) /\ Len(Append(q, a + Len(q) + 1)) = Len(q) + 1
<1> DEFINE r == Append(q, a + Len(q) + 1)
<1>1. q \in Seq(Nat) /\ Len(q) \in Nat /\ a + Len(q) + 1 \in Nat
  BY DEF Run
<1>2. r \in Seq(Nat) /\ Len(r) = Len(q) + 1
  BY <1>1
<1>3. \A i \in 1..Len(r) : r[i] = a + i
  BY <1>1 DEF Run
<1>4. QED  BY <1>2, <1>3 DEF Run

LEMMA RunTail ==
    ASSUME NEW q, NEW a \in Nat, Run(q, a), q # <<>>
    PROVE  /\ Head(q) = a + 1 /\ Run(Tail(q), a + 1) /\ Len(Tail(q)) = Len(q) - 1
           /\ Len(q) \in Nat \ {0} /\ Tail(q) \in Seq(Nat)
<1> DEFINE r == Tail(q)
<1>1. q \in Seq(Nat) /\ Len(q) \in Nat \ {0}
  BY DEF Run
<1>2. r \in Seq(Nat) /\ Len(r) = Len(q) - 1
  BY <1>1
<1>3. \A i \in 1..Len(r) : r[i] = (a + 1) + i
  BY <1>1 DEF Run
<1>4. Head(q) = a + 1
  BY <1>1 DEF Run
<1>5. QED  BY <1>1, <1>2, <1>3, <1>4 DEF Run

LEMMA RunSub ==
    ASSUME NEW q, NEW a \in Nat, Run(q, a), NEW k \in 0..Len(q)
    PROVE  Run(SubSeq(q, k + 1, Len(q)), a + k) /\ Len(SubSeq(q, k + 1, Len(q))) = Len(q) - k
<1> DEFINE r == SubSeq(q, k + 1, Len(q))
<1>1. q \in Seq(Nat) /\ Len(q) \in Nat /\ k \in Nat /\ k <= Len(q)
  BY DEF Run
<1>2. r \in Seq(Nat) /\ Len(r) = Len(q) - k
  BY <1>1
<1>3. \A i \in 1..Len(r) : r[i] = (a + k) + i
  BY <1>1, <1>2 DEF Run
<1>4. QED  BY <1>2, <1>3 DEF Run

LEMMA RunConcat ==
    ASSUME NEW p, NEW q, NEW a \in Nat, Run(p, a), Run(q, a + Len(p))
    PROVE  Run(p \o q, a) /\ Len(p \o q) = Len(p) + Len(q)
<1> DEFINE r == p \o q
<1>1. p \in Seq(Nat) /\ Len(p) \in Nat /\ q \in Seq(Nat) /\ Len(q) \in Nat
  BY DEF Run
<1>2. r \in Seq(Nat) /\ Len(r) = Len(p) + Len(q)
  BY <1>1
<1>3. \A i \in 1..Len(r) : r[i] = a + i
  BY <1>1 DEF Run
<1>4. QED  BY <1>2, <1>3 DEF Run

\* What a step of one listener leaves of another.
Spared(t) == /\ nState'[t] = nState[t] /\ loop'[t] = loop[t] /\ nClient'[t] = nClient[t]
             /\ first'[t] = first[t] /\ buffer'[t] = buffer[t] /\ got'[t] = got[t]
             /\ nWire'[t] = nWire[t] /\ (t \in subscriptions' <=> t \in subscriptions)

\* A step of a listener is shown for itself, and for the others by what it leaves.
LEMMA OneListenerSteps ==
    ASSUME NoteInv, NEW s \in Listeners, UNCHANGED <<nBackend, notes>>,
           \A t \in Listeners \ {s} : Spared(t), NoteType', NoteStage(s)', NoteRuns(s)'
    PROVE  NoteInv'
<1>1. ASSUME NEW t \in Listeners \ {s} PROVE NoteStage(t)' /\ NoteRuns(t)'
  <2>1. NoteStage(t) /\ NoteRuns(t) /\ Spared(t)
    BY DEF NoteInv
  <2>2. NoteStage(t)'
    BY <2>1, Zenon DEF NoteStage, Spared
  <2>3. NoteRuns(t)'
    BY <2>1 DEF NoteRuns, Spared
  <2>4. QED  BY <2>2, <2>3
<1>2. \A t \in Listeners : NoteStage(t)' /\ NoteRuns(t)'
  BY <1>1
<1>3. QED  BY <1>2 DEF NoteInv

-----------------------------------------------------------------------------
\* A connector is created when no listener is known to it.
LEMMA NotesCreate == ASSUME NoteInv, Notes!create PROVE NoteInv'
<1>0. /\ NoteType /\ \A s \in Listeners : NoteStage(s) /\ NoteRuns(s)
  BY DEF NoteInv
<1>1. /\ UNCHANGED <<notes, subscriptions, nState, loop, buffer, nClient, nWire, first, got>>
      /\ nBackend = "none" /\ nBackend' \in {"memory", "postgres"}
  BY DEF Notes!create, Notes!listener
<1>2. NoteType'
  BY <1>0, <1>1 DEF NoteType
<1>3. ASSUME NEW s \in Listeners PROVE NoteStage(s)' /\ NoteRuns(s)'
  <2>1. NoteStage(s) /\ NoteRuns(s)
    BY <1>0
  <2>2. nState[s] # "listening"
    BY <1>0, <1>1, <2>1 DEF NoteStage
  <2>3. NoteStage(s)'
    BY <1>1, <2>1, <2>2 DEF NoteStage
  <2>4. NoteRuns(s)'
    BY <1>1, <2>1 DEF NoteRuns
  <2>5. QED  BY <2>3, <2>4
<1>4. QED  BY <1>2, <1>3 DEF NoteInv

\* In memory a notification goes to the channels that are open, and the list keeps those.
LEMMA NotifyMemoryKeeps == ASSUME NoteInv, Notes!notifyMemory PROVE NoteInv'
<1>0. /\ NoteType /\ \A s \in Listeners : NoteStage(s) /\ NoteRuns(s)
  BY DEF NoteInv
<1>1. /\ UNCHANGED <<nBackend, nState, loop, nClient, nWire, first, got>>
      /\ nBackend = "memory" /\ notes < MaxNotes /\ notes' = notes + 1
      /\ subscriptions' = {s \in subscriptions : nState[s] = "listening"}
      /\ buffer' = [s \in Listeners |-> IF nState[s] = "listening" /\ s \in subscriptions
                                        THEN Append(buffer[s], notes') ELSE buffer[s]]
  BY DEF Notes!notifyMemory
<1>2. notes \in Nat /\ notes' \in 0..MaxNotes
  BY <1>0, <1>1 DEF NoteType
<1>3. ASSUME NEW s \in Listeners PROVE buffer'[s] = IF nState[s] = "listening" /\ s \in subscriptions
                                        THEN Append(buffer[s], notes + 1) ELSE buffer[s]
  BY <1>1
<1>4. NoteType'
  <2>1. buffer' \in [Listeners -> Seq(Nat)]
    BY <1>0, <1>1, <1>2 DEF NoteType
  <2>2. QED  BY <1>0, <1>1, <1>2, <2>1 DEF NoteType
<1>5. ASSUME NEW s \in Listeners PROVE NoteStage(s)' /\ NoteRuns(s)'
  <2>1. NoteStage(s) /\ NoteRuns(s)
    BY <1>0
  <2>2. NoteStage(s)'
    BY <1>1, <1>3, <2>1 DEF NoteStage
  <2>3. NoteRuns(s)'
    <3>1. CASE nState[s] = "listening"
      <4>1. s \in subscriptions /\ nWire[s] = <<>> /\ first[s] \in Nat
        BY <1>0, <1>1, <2>1, <3>1 DEF NoteStage, NoteType
      <4>2. /\ Run(got[s], first[s]) /\ Run(buffer[s], first[s] + Len(got[s]))
            /\ first[s] + Len(got[s]) + Len(buffer[s]) + Len(nWire[s]) = notes
        BY <2>1, <3>1 DEF NoteRuns
      <4>3. Len(got[s]) \in Nat /\ Len(buffer[s]) \in Nat /\ Len(nWire[s]) = 0
        BY <4>1, <4>2 DEF Run
      <4>4. notes + 1 = (first[s] + Len(got[s])) + Len(buffer[s]) + 1
        BY <1>2, <4>1, <4>2, <4>3
      <4>5. /\ Run(buffer'[s], first[s] + Len(got[s]))
            /\ Len(buffer'[s]) = Len(buffer[s]) + 1
        <5>1. first[s] + Len(got[s]) \in Nat
          BY <4>1, <4>3
        <5>2. buffer'[s] = Append(buffer[s], (first[s] + Len(got[s])) + Len(buffer[s]) + 1)
          BY <1>3, <3>1, <4>1, <4>4
        <5>3. QED  BY <4>2, <5>1, <5>2, RunAppend
      <4>6. Run(nWire'[s], first[s] + Len(got[s]) + Len(buffer'[s]))
        <5>1. first[s] + Len(got[s]) + Len(buffer'[s]) \in Nat
          BY <4>1, <4>3, <4>5
        <5>2. QED  BY <1>1, <4>1, <5>1, RunEmpty
      <4>7. first[s] + Len(got[s]) + Len(buffer'[s]) + Len(nWire'[s]) = notes'
        BY <1>1, <1>2, <4>1, <4>2, <4>3, <4>5
      <4>8. QED  BY <1>1, <3>1, <4>2, <4>5, <4>6, <4>7 DEF NoteRuns
    <3>2. CASE nState[s] # "listening"
      BY <1>1, <1>3, <2>1, <3>2 DEF NoteRuns, NoteStage
    <3>3. QED  BY <3>1, <3>2
  <2>4. QED  BY <2>2, <2>3
<1>6. QED  BY <1>4, <1>5 DEF NoteInv

\* PostgreSQL sends it to the clients that listen.
LEMMA NotifyPostgresKeeps == ASSUME NoteInv, Notes!notifyPostgres PROVE NoteInv'
<1>0. /\ NoteType /\ \A s \in Listeners : NoteStage(s) /\ NoteRuns(s)
  BY DEF NoteInv
<1>1. /\ UNCHANGED <<nBackend, subscriptions, nState, loop, buffer, nClient, first, got>>
      /\ nBackend = "postgres" /\ notes < MaxNotes /\ notes' = notes + 1
      /\ nWire' = [s \in Listeners |-> IF nClient[s] = "listening" THEN Append(nWire[s], notes')
                                                                  ELSE nWire[s]]
  BY DEF Notes!notifyPostgres
<1>2. notes \in Nat /\ notes' \in 0..MaxNotes
  BY <1>0, <1>1 DEF NoteType
<1>3. ASSUME NEW s \in Listeners PROVE nWire'[s] = IF nClient[s] = "listening" THEN Append(nWire[s], notes + 1)
                                                                              ELSE nWire[s]
  BY <1>1
<1>4. NoteType'
  <2>1. nWire' \in [Listeners -> Seq(Nat)]
    BY <1>0, <1>1, <1>2 DEF NoteType
  <2>2. QED  BY <1>0, <1>1, <1>2, <2>1 DEF NoteType
<1>5. ASSUME NEW s \in Listeners PROVE NoteStage(s)' /\ NoteRuns(s)'
  <2>1. NoteStage(s) /\ NoteRuns(s)
    BY <1>0
  <2>2. NoteStage(s)'
    BY <1>1, <1>3, <2>1 DEF NoteStage
  <2>3. NoteRuns(s)'
    <3>1. CASE nState[s] = "listening"
      <4>1. nClient[s] = "listening" /\ first[s] \in Nat
        BY <1>0, <1>1, <2>1, <3>1 DEF NoteStage, NoteType
      <4> DEFINE a == first[s] + Len(got[s]) + Len(buffer[s])
      <4>2. /\ Run(got[s], first[s]) /\ Run(buffer[s], first[s] + Len(got[s]))
            /\ Run(nWire[s], a) /\ a + Len(nWire[s]) = notes
        BY <2>1, <3>1 DEF NoteRuns
      <4>3. a \in Nat /\ Len(nWire[s]) \in Nat
        BY <4>1, <4>2 DEF Run
      <4>4. nWire'[s] = Append(nWire[s], a + Len(nWire[s]) + 1)
        BY <1>3, <4>1, <4>2
      <4>5. Run(nWire'[s], a) /\ Len(nWire'[s]) = Len(nWire[s]) + 1
        <5> HIDE DEF a
        <5>1. QED  BY <4>2, <4>3, <4>4, RunAppend
      <4>6. a + Len(nWire'[s]) = notes'
        <5> HIDE DEF a
        <5>1. QED  BY <1>1, <4>2, <4>3, <4>5
      <4>7. QED  BY <1>1, <3>1, <4>2, <4>5, <4>6 DEF NoteRuns
    <3>2. CASE nState[s] = "connecting" /\ nClient[s] = "listening"
      <4> DEFINE a == notes - Len(nWire[s])
      <4>01. Run(nWire[s], a) /\ Len(nWire[s]) <= notes
        BY <2>1, <3>2 DEF NoteRuns
      <4>02. Len(nWire[s]) \in Nat
        BY <1>0 DEF NoteType
      <4>1. Run(nWire[s], a) /\ a \in Nat /\ Len(nWire[s]) \in Nat
        BY <1>2, <4>01, <4>02
      <4>2. a + Len(nWire[s]) + 1 = notes + 1
        BY <1>2, <4>1
      <4>3. Run(nWire'[s], a) /\ Len(nWire'[s]) = Len(nWire[s]) + 1
        <5>1. nWire'[s] = Append(nWire[s], a + Len(nWire[s]) + 1)
          BY <1>3, <3>2, <4>2
        <5> HIDE DEF a
        <5>2. QED  BY <4>1, <5>1, RunAppend
      <4>4. notes' - Len(nWire'[s]) = a /\ Len(nWire'[s]) <= notes'
        <5>1. \A x, y \in Nat : (x + 1) - (y + 1) = x - y /\ (y <= x => y + 1 <= x + 1)
          OBVIOUS
        <5>2. (notes + 1) - (Len(nWire[s]) + 1) = a /\ Len(nWire[s]) + 1 <= notes + 1
          BY <1>2, <4>01, <4>02, <5>1
        <5>3. QED  BY <1>1, <4>3, <5>2, Zenon
      <4> HIDE DEF a
      <4>5. QED  BY <1>1, <3>2, <4>3, <4>4 DEF NoteRuns
    <3>3. CASE nState[s] = "connecting" /\ nClient[s] # "listening"
      <4>1. nWire'[s] = <<>>
        BY <1>3, <2>1, <3>3 DEF NoteStage
      <4>2. Len(nWire'[s]) = 0 /\ Run(nWire'[s], notes') /\ notes' \in Nat
        BY <1>2, <4>1, RunEmpty
      <4>3. notes' - Len(nWire'[s]) = notes' /\ Len(nWire'[s]) <= notes'
        <5>1. \A n \in Nat : n - 0 = n /\ 0 <= n
          OBVIOUS
        <5>2. QED  BY <4>2, <5>1, Zenon
      <4>4. QED  BY <1>1, <3>3, <4>2, <4>3 DEF NoteRuns
    <3>4. CASE nState[s] \in {"none", "closed"}
      BY <1>1, <1>3, <2>1, <3>4 DEF NoteRuns
    <3>5. QED  BY <1>0, <3>1, <3>2, <3>3, <3>4 DEF NoteType
  <2>4. QED  BY <2>2, <2>3
<1>6. QED  BY <1>4, <1>5 DEF NoteInv

-----------------------------------------------------------------------------
\* In memory a listener begins with what comes after.
LEMMA ListenMemoryKeeps == ASSUME NoteInv, NEW s \in Listeners, Notes!listenMemory(s) PROVE NoteInv'
<1>0. NoteType /\ NoteStage(s) /\ NoteRuns(s)
  BY DEF NoteInv
<1>1. /\ UNCHANGED <<nBackend, notes, loop, buffer, nClient, nWire, got>>
      /\ nBackend = "memory" /\ nState[s] = "none" /\ subscriptions' = subscriptions \cup {s}
      /\ nState' = [nState EXCEPT ![s] = "listening"] /\ first' = [first EXCEPT ![s] = notes]
  BY DEF Notes!listenMemory
<1>2. NoteType'
  BY <1>0, <1>1 DEF NoteType
<1>3. \A t \in Listeners \ {s} : Spared(t)
  BY <1>0, <1>1 DEF Spared, NoteType
<1>4. nState'[s] = "listening" /\ first'[s] = notes /\ notes \in Nat
  BY <1>0, <1>1 DEF NoteType
<1>5. NoteStage(s)'
  BY <1>0, <1>1, <1>4 DEF NoteStage
<1>6. NoteRuns(s)'
  <2>1. got'[s] = <<>> /\ buffer'[s] = <<>> /\ nWire'[s] = <<>>
    BY <1>0, <1>1 DEF NoteStage
  <2>2. Run(<<>>, notes) /\ Len(<<>>) = 0
    BY <1>4, RunEmpty
  <2>3. notes + 0 = notes
    BY <1>4
  <2>4. QED  BY <1>1, <1>4, <2>1, <2>2, <2>3 DEF NoteRuns
<1>7. QED  BY <1>1, <1>2, <1>3, <1>5, <1>6, OneListenerSteps

\* A client connects and sends LISTEN, or fails.
LEMMA ListenPostgresKeeps == ASSUME NoteInv, NEW s \in Listeners, Notes!listenPostgres(s) PROVE NoteInv'
<1>0. NoteType /\ NoteStage(s) /\ NoteRuns(s)
  BY DEF NoteInv
<1>1. /\ UNCHANGED <<nBackend, notes, subscriptions, loop, buffer, nWire, first, got>>
      /\ nBackend = "postgres" /\ nState[s] \in {"none", "connecting"}
  BY DEF Notes!listenPostgres
<1>2. PICK x \in {"connecting", "closed"}, k \in {"up", "listening", "ended"} :
          /\ nState' = [nState EXCEPT ![s] = x] /\ nClient' = [nClient EXCEPT ![s] = k]
          /\ \/ nState[s] = "none" /\ x = "connecting" /\ k = "up"
             \/ nState[s] = "connecting" /\ x = "connecting" /\ nClient[s] = "up" /\ k = "listening"
             \/ nState[s] = "connecting" /\ x = "closed" /\ k = "ended"
  <2>1. nState[s] = "connecting" => nState = [nState EXCEPT ![s] = "connecting"]
    BY <1>0 DEF NoteType
  <2>2. QED  BY <2>1, Zenon DEF Notes!listenPostgres
<1>3. /\ nState'[s] = x /\ nClient'[s] = k
      /\ \A t \in Listeners \ {s} : nState'[t] = nState[t] /\ nClient'[t] = nClient[t]
  BY <1>0, <1>2 DEF NoteType
<1>4. NoteType'
  BY <1>0, <1>1, <1>2 DEF NoteType
<1>5. \A t \in Listeners \ {s} : Spared(t)
  BY <1>1, <1>3 DEF Spared
<1>6. got[s] = <<>> /\ buffer[s] = <<>> /\ loop[s] = "none" /\ s \notin subscriptions
  BY <1>0, <1>1 DEF NoteStage
<1>7. NoteStage(s)'
  BY <1>0, <1>1, <1>2, <1>3, <1>6 DEF NoteStage
<1>8. NoteRuns(s)'
  <2>1. CASE x = "closed"
    <3>1. Run(<<>>, first[s]) /\ Run(<<>>, first[s] + 0) /\ Len(<<>>) = 0
      BY <1>0, RunEmpty DEF NoteType
    <3>2. QED  BY <1>1, <1>3, <1>6, <2>1, <3>1 DEF NoteRuns
  <2>2. CASE x = "connecting" /\ nState[s] = "connecting"
    BY <1>0, <1>1, <1>3, <2>2 DEF NoteRuns
  <2>3. CASE x = "connecting" /\ nState[s] = "none"
    <3>1. nWire'[s] = <<>> /\ notes \in Nat
      BY <1>0, <1>1, <2>3 DEF NoteStage, NoteType
    <3>2. Run(<<>>, notes - 0) /\ Len(<<>>) = 0 /\ 0 <= notes
      BY <3>1, RunEmpty
    <3>3. QED  BY <1>1, <1>3, <2>3, <3>1, <3>2 DEF NoteRuns
  <2>4. QED  BY <1>1, <2>1, <2>2, <2>3
<1>9. QED  BY <1>1, <1>4, <1>5, <1>7, <1>8, OneListenerSteps

\* The answer to LISTEN: the listener begins with what is still on its way.
LEMMA ListensKeeps == ASSUME NoteInv, NEW s \in Listeners, Notes!Listens(s) PROVE NoteInv'
<1>0. NoteType /\ NoteStage(s) /\ NoteRuns(s)
  BY DEF NoteInv
<1>1. /\ UNCHANGED <<nBackend, notes, subscriptions, loop, buffer, nClient, got>>
      /\ nState[s] = "connecting" /\ nClient[s] = "listening"
      /\ nState' = [nState EXCEPT ![s] = "listening"]
  BY DEF Notes!Listens
<1>2. PICK lost \in 0..Len(nWire[s]) :
          /\ nWire' = [nWire EXCEPT ![s] = SubSeq(nWire[s], lost + 1, Len(nWire[s]))]
          /\ first' = [first EXCEPT ![s] = notes - (Len(nWire[s]) - lost)]
  BY DEF Notes!Listens
<1> DEFINE w == SubSeq(nWire[s], lost + 1, Len(nWire[s]))
           a == notes - Len(nWire[s])
           f == notes - (Len(nWire[s]) - lost)
<1>3. Run(nWire[s], a) /\ Len(nWire[s]) <= notes
  BY <1>0, <1>1 DEF NoteRuns
<1>4. Len(nWire[s]) \in Nat /\ notes \in Nat /\ lost \in Nat /\ lost <= Len(nWire[s])
  BY <1>0, <1>2 DEF NoteType
<1>5. a \in Nat /\ f = a + lost /\ f \in Nat /\ f + (Len(nWire[s]) - lost) = notes
  BY <1>3, <1>4
<1>6. Run(w, f) /\ Len(w) = Len(nWire[s]) - lost
  <2> HIDE DEF a, f
  <2>1. QED  BY <1>2, <1>3, <1>5, RunSub
<1>7. nWire' = [nWire EXCEPT ![s] = w] /\ first' = [first EXCEPT ![s] = f]
  BY <1>2
<1>8. w \in Seq(Nat) /\ Len(w) \in Nat /\ f + Len(w) = notes
  <2> HIDE DEF w, f
  <2>1. w \in Seq(Nat) /\ Len(w) \in Nat
    BY <1>6 DEF Run
  <2>2. QED  BY <1>5, <1>6, <2>1, Zenon
<1> HIDE DEF w, a, f
<1>9. NoteType'
  BY <1>0, <1>1, <1>5, <1>7, <1>8 DEF NoteType
<1>10. /\ nWire'[s] = w /\ first'[s] = f /\ nState'[s] = "listening"
       /\ \A t \in Listeners \ {s} : nWire'[t] = nWire[t] /\ first'[t] = first[t] /\ nState'[t] = nState[t]
  BY <1>0, <1>1, <1>7 DEF NoteType
<1>11. \A t \in Listeners \ {s} : Spared(t)
  BY <1>1, <1>10 DEF Spared
<1>12. NoteStage(s)'
  BY <1>0, <1>1, <1>10 DEF NoteStage
<1>13. NoteRuns(s)'
  <2>1. got'[s] = <<>> /\ buffer'[s] = <<>>
    BY <1>0, <1>1 DEF NoteStage
  <2>2. Run(<<>>, f) /\ Len(<<>>) = 0 /\ f + 0 = f /\ f + 0 + 0 = f
    BY <1>5, RunEmpty
  <2>3. QED  BY <1>1, <1>6, <1>8, <1>10, <2>1, <2>2 DEF NoteRuns
<1>14. QED  BY <1>1, <1>9, <1>11, <1>12, <1>13, OneListenerSteps

\* A notification comes in, and is dropped when the channel is closed.
LEMMA NotifiedKeeps == ASSUME NoteInv, NEW s \in Listeners, Notes!Notified(s) PROVE NoteInv'
<1>0. NoteType /\ NoteStage(s) /\ NoteRuns(s)
  BY DEF NoteInv
<1> DEFINE w == Tail(nWire[s])
           h == Head(nWire[s])
           b == IF nState[s] = "listening" THEN Append(buffer[s], h) ELSE buffer[s]
<1>1. /\ UNCHANGED <<nBackend, notes, subscriptions, nState, loop, nClient, first, got>>
      /\ nState[s] \in {"listening", "closed"} /\ nWire[s] # <<>>
      /\ nWire' = [nWire EXCEPT ![s] = w]
  BY DEF Notes!Notified
<1>2. nWire[s] \in Seq(Nat) /\ buffer[s] \in Seq(Nat) /\ got[s] \in Seq(Nat) /\ first[s] \in Nat
  BY <1>0 DEF NoteType
<1>3. w \in Seq(Nat) /\ h \in Nat /\ b \in Seq(Nat)
  BY <1>1, <1>2
<1>4. buffer' = [buffer EXCEPT ![s] = b]
  <2>1. CASE nState[s] = "listening"
    BY <2>1 DEF Notes!Notified
  <2>2. CASE nState[s] # "listening"
    BY <1>0, <2>2 DEF Notes!Notified, NoteType
  <2>3. QED  BY <2>1, <2>2
<1>5. ASSUME nState[s] = "listening" PROVE NoteRuns(s)'
  <2> DEFINE p == first[s] + Len(got[s])
  <2>1. /\ Run(buffer[s], p) /\ Run(nWire[s], p + Len(buffer[s]))
        /\ p + Len(buffer[s]) + Len(nWire[s]) = notes
    BY <1>0, <1>5 DEF NoteRuns
  <2>2. p \in Nat /\ Len(buffer[s]) \in Nat
    BY <1>2
  <2>3. h = p + Len(buffer[s]) + 1 /\ Run(w, p + Len(buffer[s]) + 1) /\ Len(w) = Len(nWire[s]) - 1
        /\ Len(nWire[s]) \in Nat
    <3> HIDE DEF p
    <3>1. QED  BY <1>1, <2>1, <2>2, RunTail
  <2>4. Run(b, p) /\ Len(b) = Len(buffer[s]) + 1
    <3>1. b = Append(buffer[s], p + Len(buffer[s]) + 1)
      BY <1>5, <2>3
    <3> HIDE DEF p, b
    <3>2. QED  BY <2>1, <2>2, <3>1, RunAppend
  <2>5. p + Len(b) = p + Len(buffer[s]) + 1 /\ p + Len(b) + Len(w) = notes
    <3> HIDE DEF p, b, w
    <3>1. \A x, y, z \in Nat : x + (y + 1) = x + y + 1 /\ x + (y + 1) + (z - 1) = x + y + z
      OBVIOUS
    <3>2. /\ p + (Len(buffer[s]) + 1) = p + Len(buffer[s]) + 1
          /\ p + (Len(buffer[s]) + 1) + (Len(nWire[s]) - 1) = p + Len(buffer[s]) + Len(nWire[s])
      BY <2>2, <2>3, <3>1
    <3>3. QED  BY <2>1, <2>3, <2>4, <3>2
  <2>6. Run(w, p + Len(b))
    <3> HIDE DEF p, b, w
    <3>1. QED  BY <2>3, <2>5
  <2>7. QED
    <3> HIDE DEF b, w, h
    <3>1. buffer'[s] = b /\ nWire'[s] = w
      BY <1>0, <1>1, <1>4 DEF NoteType
    <3>2. QED  BY <1>0, <1>1, <1>5, <2>4, <2>5, <2>6, <3>1 DEF NoteRuns
<1>6. ASSUME nState[s] # "listening" PROVE NoteRuns(s)'
  BY <1>0, <1>1, <1>4, <1>6 DEF NoteRuns, NoteType
<1>7. NoteRuns(s)'
  BY <1>5, <1>6
<1> HIDE DEF w, h, b
<1>8. NoteType'
  BY <1>0, <1>1, <1>3, <1>4 DEF NoteType
<1>9. \A t \in Listeners \ {s} : Spared(t)
  BY <1>0, <1>1, <1>4 DEF Spared, NoteType
<1>10. NoteStage(s)'
  BY <1>0, <1>1 DEF NoteStage
<1>11. QED  BY <1>1, <1>7, <1>8, <1>9, <1>10, OneListenerSteps

-----------------------------------------------------------------------------
\* Whatever closes the channel of a listener leaves what it has and what its channel has.
LEMMA ClosingKeeps ==
    ASSUME NoteInv, NEW s \in Listeners,
           Notes!ClientError(s) \/ Notes!ClientEnd(s) \/ Notes!close(s)
    PROVE  NoteInv'
<1>0. NoteType /\ NoteStage(s) /\ NoteRuns(s)
  BY DEF NoteInv
<1>1. /\ UNCHANGED <<nBackend, notes, subscriptions, loop, buffer, first, got>>
      /\ nState[s] = "listening" /\ nState' = [nState EXCEPT ![s] = "closed"]
      /\ \/ UNCHANGED <<nClient, nWire>>
         \/ /\ nClient[s] = "listening" /\ nClient' = [nClient EXCEPT ![s] = "ended"]
            /\ nWire' = [nWire EXCEPT ![s] = <<>>]
  BY DEF Notes!ClientError, Notes!ClientEnd, Notes!close
<1>2. NoteType'
  <2>1. <<>> \in Seq(Nat)
    OBVIOUS
  <2>2. nWire' \in [Listeners -> Seq(Nat)]
    BY <1>0, <1>1, <2>1 DEF NoteType
  <2>3. QED  BY <1>0, <1>1, <2>2 DEF NoteType
<1>3. /\ nState'[s] = "closed"
      /\ \A t \in Listeners \ {s} : nState'[t] = nState[t] /\ nClient'[t] = nClient[t] /\ nWire'[t] = nWire[t]
      /\ \/ nClient'[s] = nClient[s] /\ nWire'[s] = nWire[s]
         \/ nClient[s] = "listening" /\ nClient'[s] = "ended" /\ nWire'[s] = <<>>
  BY <1>0, <1>1 DEF NoteType
<1>4. \A t \in Listeners \ {s} : Spared(t)
  BY <1>1, <1>3 DEF Spared
<1>5. NoteStage(s)'
  BY <1>0, <1>1, <1>3 DEF NoteStage
<1>6. NoteRuns(s)'
  BY <1>0, <1>1, <1>3 DEF NoteRuns
<1>7. QED  BY <1>1, <1>2, <1>4, <1>5, <1>6, OneListenerSteps

\* The consumer takes the first of its channel.
LEMMA ReadsKeeps == ASSUME NoteInv, NEW s \in Listeners, Notes!Reads(s) PROVE NoteInv'
<1>0. NoteType /\ NoteStage(s) /\ NoteRuns(s)
  BY DEF NoteInv
<1> DEFINE b == Tail(buffer[s])
           h == Head(buffer[s])
           g == Append(got[s], h)
<1>1. /\ UNCHANGED <<nBackend, notes, subscriptions, nState, nClient, nWire, first>>
      /\ nState[s] \in {"listening", "closed"} /\ loop[s] \in {"none", "reading"} /\ buffer[s] # <<>>
      /\ loop' = [loop EXCEPT ![s] = "reading"] /\ got' = [got EXCEPT ![s] = g]
      /\ buffer' = [buffer EXCEPT ![s] = b]
  BY DEF Notes!Reads
<1>2. buffer[s] \in Seq(Nat) /\ got[s] \in Seq(Nat) /\ first[s] \in Nat /\ nWire[s] \in Seq(Nat)
  BY <1>0 DEF NoteType
<1>3. b \in Seq(Nat) /\ h \in Nat /\ g \in Seq(Nat)
  BY <1>1, <1>2
<1>4. Run(got[s], first[s]) /\ Run(buffer[s], first[s] + Len(got[s]))
  BY <1>0, <1>1 DEF NoteRuns
<1>5. /\ first[s] + Len(got[s]) \in Nat /\ Len(got[s]) \in Nat /\ Len(nWire[s]) \in Nat
  BY <1>2
<1>6. /\ h = first[s] + Len(got[s]) + 1 /\ Run(b, first[s] + Len(got[s]) + 1)
      /\ Len(b) = Len(buffer[s]) - 1 /\ Len(buffer[s]) \in Nat \ {0}
  BY <1>1, <1>4, <1>5, RunTail
<1>7. Run(g, first[s]) /\ Len(g) = Len(got[s]) + 1
  <2>1. g = Append(got[s], first[s] + Len(got[s]) + 1)
    BY <1>6
  <2> HIDE DEF g, h
  <2>2. QED  BY <1>2, <1>4, <2>1, RunAppend
<1> HIDE DEF b, h, g
<1>8. /\ first[s] + Len(g) = first[s] + Len(got[s]) + 1
      /\ first[s] + Len(g) + Len(b) = first[s] + Len(got[s]) + Len(buffer[s])
  <2>1. \A x, y \in Nat, z \in Nat \ {0} : x + (y + 1) = x + y + 1 /\ x + (y + 1) + (z - 1) = x + y + z
    OBVIOUS
  <2>2. /\ first[s] + (Len(got[s]) + 1) = first[s] + Len(got[s]) + 1
        /\ first[s] + (Len(got[s]) + 1) + (Len(buffer[s]) - 1) = first[s] + Len(got[s]) + Len(buffer[s])
    BY <1>2, <1>5, <1>6, <2>1
  <2>3. QED  BY <1>6, <1>7, <2>2
<1>9. /\ loop'[s] = "reading" /\ got'[s] = g /\ buffer'[s] = b
      /\ \A t \in Listeners \ {s} : loop'[t] = loop[t] /\ got'[t] = got[t] /\ buffer'[t] = buffer[t]
  BY <1>0, <1>1 DEF NoteType
<1>10. NoteType'
  BY <1>0, <1>1, <1>3 DEF NoteType
<1>11. \A t \in Listeners \ {s} : Spared(t)
  BY <1>1, <1>9 DEF Spared
<1>12. NoteStage(s)'
  BY <1>0, <1>1, <1>9 DEF NoteStage
<1>13. NoteRuns(s)'
  <2>1. Run(got'[s], first'[s]) /\ Run(buffer'[s], first'[s] + Len(got'[s]))
    BY <1>1, <1>6, <1>7, <1>8, <1>9
  <2>2. nState[s] = "listening" =>
          /\ Run(nWire'[s], first'[s] + Len(got'[s]) + Len(buffer'[s]))
          /\ first'[s] + Len(got'[s]) + Len(buffer'[s]) + Len(nWire'[s]) = notes'
    BY <1>0, <1>1, <1>8, <1>9 DEF NoteRuns
  <2>3. QED  BY <1>1, <2>1, <2>2 DEF NoteRuns
<1>14. QED  BY <1>1, <1>10, <1>11, <1>12, <1>13, OneListenerSteps

\* The consumer leaves: what is left in its channel is dropped.
LEMMA LeavesKeeps == ASSUME NoteInv, NEW s \in Listeners, Notes!Leaves(s) PROVE NoteInv'
<1>0. NoteType /\ NoteStage(s) /\ NoteRuns(s)
  BY DEF NoteInv
<1>1. /\ UNCHANGED <<nBackend, notes, subscriptions, nClient, nWire, first, got>>
      /\ nState[s] \in {"listening", "closed"} /\ nState' = [nState EXCEPT ![s] = "closed"]
      /\ loop' = [loop EXCEPT ![s] = "leaving"] /\ buffer' = [buffer EXCEPT ![s] = <<>>]
  BY DEF Notes!Leaves
<1>2. <<>> \in Seq(Nat)
  OBVIOUS
<1>3. /\ nState'[s] = "closed" /\ loop'[s] = "leaving" /\ buffer'[s] = <<>>
      /\ \A t \in Listeners \ {s} : nState'[t] = nState[t] /\ loop'[t] = loop[t] /\ buffer'[t] = buffer[t]
  BY <1>0, <1>1, <1>2 DEF NoteType
<1>4. NoteType'
  BY <1>0, <1>1, <1>2 DEF NoteType
<1>5. \A t \in Listeners \ {s} : Spared(t)
  BY <1>1, <1>3 DEF Spared
<1>6. NoteStage(s)'
  BY <1>0, <1>1, <1>3 DEF NoteStage
<1>7. NoteRuns(s)'
  <2>1. Run(got[s], first[s])
    BY <1>0, <1>1 DEF NoteRuns
  <2>2. first[s] + Len(got[s]) \in Nat
    BY <1>0 DEF NoteType
  <2>3. Run(<<>>, first[s] + Len(got[s]))
    BY <2>2, RunEmpty
  <2>4. QED  BY <1>1, <1>3, <2>1, <2>3 DEF NoteRuns
<1>8. QED  BY <1>1, <1>4, <1>5, <1>6, <1>7, OneListenerSteps

\* Its channel's onClose takes it off the list, or ends its client.
LEMMA OnCloseKeeps ==
    ASSUME NoteInv, NEW s \in Listeners, Notes!onCloseMemory(s) \/ Notes!onClosePostgres(s)
    PROVE  NoteInv'
<1>0. NoteType /\ NoteStage(s) /\ NoteRuns(s)
  BY DEF NoteInv
<1>1. /\ UNCHANGED <<nBackend, notes, nState, buffer, first, got>>
      /\ loop[s] = "leaving" /\ loop' = [loop EXCEPT ![s] = "over"]
      /\ \/ nBackend = "memory" /\ subscriptions' = subscriptions \ {s} /\ UNCHANGED <<nClient, nWire>>
         \/ /\ nBackend = "postgres" /\ UNCHANGED subscriptions
            /\ nClient' = [nClient EXCEPT ![s] = "ended"] /\ nWire' = [nWire EXCEPT ![s] = <<>>]
  BY DEF Notes!onCloseMemory, Notes!onClosePostgres
<1>2. NoteType'
  <2>1. <<>> \in Seq(Nat)
    OBVIOUS
  <2>2. nWire' \in [Listeners -> Seq(Nat)]
    BY <1>0, <1>1, <2>1 DEF NoteType
  <2>3. QED  BY <1>0, <1>1, <2>2 DEF NoteType
<1>3. /\ loop'[s] = "over"
      /\ \A t \in Listeners \ {s} : loop'[t] = loop[t] /\ nClient'[t] = nClient[t] /\ nWire'[t] = nWire[t]
      /\ \/ nBackend = "memory" /\ nClient'[s] = nClient[s] /\ nWire'[s] = nWire[s]
         \/ nBackend = "postgres" /\ nClient'[s] = "ended" /\ nWire'[s] = <<>>
  BY <1>0, <1>1 DEF NoteType
<1>4. \A t \in Listeners \ {s} : Spared(t)
  BY <1>1, <1>3 DEF Spared
<1>5. nState[s] = "closed"
  BY <1>0, <1>1 DEF NoteStage
<1>6. NoteStage(s)'
  BY <1>0, <1>1, <1>3, <1>5 DEF NoteStage
<1>7. NoteRuns(s)'
  BY <1>0, <1>1, <1>5 DEF NoteRuns
<1>8. QED  BY <1>1, <1>2, <1>4, <1>6, <1>7, OneListenerSteps

-----------------------------------------------------------------------------
\* In the beginning nobody listens.
LEMMA NotesInit == Notes!Init => NoteInv
<1> SUFFICES ASSUME Notes!Init PROVE NoteInv
  OBVIOUS
<1>1. <<>> \in Seq(Nat)
  OBVIOUS
<1>2. NoteType
  BY <1>1 DEF Notes!Init, NoteType
<1>3. ASSUME NEW s \in Listeners PROVE NoteStage(s) /\ NoteRuns(s)
  BY DEF Notes!Init, NoteStage, NoteRuns
<1>4. QED  BY <1>2, <1>3 DEF NoteInv

\* Each step of a connector or of a listener keeps the runs.
LEMMA NotesStep == NoteInv /\ [Notes!Next]_notifications => NoteInv'
<1> SUFFICES ASSUME NoteInv, [Notes!Next]_notifications PROVE NoteInv'
  OBVIOUS
<1>1. CASE Notes!create \/ Notes!notifyMemory \/ Notes!notifyPostgres
  BY <1>1, NotesCreate, NotifyMemoryKeeps, NotifyPostgresKeeps
<1>2. ASSUME NEW s \in Listeners, \/ Notes!listenMemory(s) \/ Notes!listenPostgres(s) \/ Notes!Listens(s)
                                  \/ Notes!Notified(s)
      PROVE  NoteInv'
  BY <1>2, ListenMemoryKeeps, ListenPostgresKeeps, ListensKeeps, NotifiedKeeps
<1>3. ASSUME NEW s \in Listeners, \/ Notes!ClientError(s) \/ Notes!ClientEnd(s) \/ Notes!close(s)
      PROVE  NoteInv'
  BY <1>3, ClosingKeeps
<1>4. ASSUME NEW s \in Listeners, \/ Notes!Reads(s) \/ Notes!Leaves(s) \/ Notes!onCloseMemory(s)
                                  \/ Notes!onClosePostgres(s)
      PROVE  NoteInv'
  BY <1>4, ReadsKeeps, LeavesKeeps, OnCloseKeeps
<1>5. CASE UNCHANGED notifications
  BY <1>5 DEF NoteInv, NoteType, NoteStage, NoteRuns, notifications
<1>6. QED  BY <1>1, <1>2, <1>3, <1>4, <1>5 DEF Notes!Next

\* The runs say that every listener is told, and the stages that it leaves nothing.
LEMMA NotesTold == NoteInv => ListenersAreTold
<1> SUFFICES ASSUME NoteInv PROVE ListenersAreTold
  OBVIOUS
<1>0. NoteType /\ \A s \in Listeners : NoteStage(s) /\ NoteRuns(s)
  BY DEF NoteInv
<1>1. Notes!TypeOK
  BY <1>0 DEF Notes!TypeOK, NoteType
<1>2. Notes!ListenersLeaveNothing
  BY <1>0 DEF Notes!ListenersLeaveNothing, NoteStage
<1>3. Notes!EveryListenerIsTold
  <2> SUFFICES ASSUME NEW s \in Listeners
               PROVE  LET all == got[s] \o buffer[s] \o (IF nState[s] = "listening" THEN nWire[s] ELSE <<>>) IN
                      /\ \A i \in DOMAIN all : all[i] = first[s] + i
                      /\ nState[s] = "listening" => Len(all) = notes - first[s]
    BY DEF Notes!EveryListenerIsTold
  <2> DEFINE w == IF nState[s] = "listening" THEN nWire[s] ELSE <<>>
             p == got[s] \o buffer[s]
             all == p \o w
  <2>0. NoteStage(s) /\ NoteRuns(s) /\ first[s] \in Nat /\ nState[s] \in {"none", "connecting", "listening", "closed"}
    BY <1>0 DEF NoteType
  <2>1. Run(got[s], first[s]) /\ Run(buffer[s], first[s] + Len(got[s])) /\ Len(got[s]) \in Nat /\ Len(buffer[s]) \in Nat
    <3>1. CASE nState[s] \in {"none", "connecting"}
      <4>1. got[s] = <<>> /\ buffer[s] = <<>> /\ Len(<<>>) = 0 /\ first[s] + 0 \in Nat
        BY <2>0, <3>1 DEF NoteStage
      <4>2. QED  BY <2>0, <4>1, RunEmpty
    <3>2. CASE nState[s] \in {"listening", "closed"}
      BY <1>0, <2>0, <3>2 DEF NoteRuns, NoteType
    <3>3. QED  BY <2>0, <3>1, <3>2
  <2>2. Run(p, first[s]) /\ Len(p) = Len(got[s]) + Len(buffer[s])
    BY <2>0, <2>1, RunConcat
  <2> HIDE DEF p
  <2>3. first[s] + Len(p) = first[s] + Len(got[s]) + Len(buffer[s]) /\ first[s] + Len(p) \in Nat
    <3>1. \A x, y, z \in Nat : x + (y + z) = x + y + z /\ x + (y + z) \in Nat /\ y + z \in Nat
      OBVIOUS
    <3>2. /\ first[s] + (Len(got[s]) + Len(buffer[s])) = first[s] + Len(got[s]) + Len(buffer[s])
          /\ first[s] + (Len(got[s]) + Len(buffer[s])) \in Nat
      BY <2>0, <2>1, <3>1, Zenon
    <3>3. QED  BY <2>2, <3>2, Zenon
  <2>4. Run(w, first[s] + Len(p))
    <3>1. CASE nState[s] = "listening"
      BY <2>0, <2>3, <3>1 DEF NoteRuns
    <3>2. CASE nState[s] # "listening"
      BY <2>3, <3>2, RunEmpty
    <3>3. QED  BY <3>1, <3>2
  <2>5. nState[s] = "listening" => first[s] + Len(p) + Len(w) = notes /\ Len(w) \in Nat
    BY <1>0, <2>0, <2>3 DEF NoteRuns, NoteType
  <2> HIDE DEF w
  <2>6. Run(all, first[s]) /\ Len(all) = Len(p) + Len(w)
    BY <2>0, <2>2, <2>4, RunConcat
  <2>7. nState[s] = "listening" => Len(all) = notes - first[s]
    <3>1. \A x, y, z \in Nat : y + z = (x + y + z) - x
      OBVIOUS
    <3>2. Len(p) \in Nat
      <4>1. \A y, z \in Nat : y + z \in Nat
        OBVIOUS
      <4>2. QED  BY <2>1, <2>2, <4>1, Zenon
    <3> HIDE DEF all
    <3>3. QED  BY <2>0, <2>5, <2>6, <3>1, <3>2
  <2>8. \A i \in DOMAIN all : all[i] = first[s] + i
    <3> HIDE DEF all
    <3>1. DOMAIN all = 1..Len(all)
      BY <2>6 DEF Run
    <3>2. QED  BY <2>6, <3>1 DEF Run
  <2>9. QED  BY <2>7, <2>8 DEF w, p
<1>4. QED  BY <1>1, <1>2, <1>3 DEF ListenersAreTold

\* A listener has got every notification since it began, in order, and one that has been
\* left keeps neither its subscription nor its client: for any number of listeners and
\* notifications (listen and notify, in memory and of PostgreSQL).
THEOREM EveryNotificationArrives == MCSpec => []ListenersAreTold
<1>1. MCInit => NoteInv
  BY NotesInit DEF MCInit
<1>2. NoteInv /\ [MCNext]_mcvars => NoteInv'
  BY NotesStep, EachStutters
<1>3. NoteInv => ListenersAreTold
  BY NotesTold
<1>4. QED  BY <1>1, <1>2, <1>3, PTL DEF MCSpec

HIDE NotesAssumption DEF NotesAssumption, Notes!Open, Notes!Closes, Notes!Ends

-----------------------------------------------------------------------------
(* Transactions. *)

\* Which calls have been aborted, and which of them commit, by the same calls.
CommitInv == signal \in [DOMAIN signal -> BOOLEAN] /\ committing \in [DOMAIN signal -> BOOLEAN]

\* What a step of the transactions does to the two: only a callback that returns with its
\* signal not aborted begins a commit.
CommitMoves == /\ DOMAIN signal' = DOMAIN signal
               /\ \/ signal' = signal \/ \E t : signal' = [signal EXCEPT ![t] = TRUE]
               /\ \/ committing' = committing
                  \/ \E t : ~signal[t] /\ committing' = [committing EXCEPT ![t] = TRUE]

LEMMA NestedMoves == Nested!Next => CommitMoves
<1>1. ASSUME NEW t, Nested!CallbackReturns(t) PROVE CommitMoves
  BY <1>1, Zenon DEF Nested!CallbackReturns, Nested!Commits, CommitMoves
<1>2. ASSUME NEW t, Nested!Abort(t) PROVE CommitMoves
  <2>1. signal' = [signal EXCEPT ![t] = TRUE] /\ committing' = committing
    BY <1>2 DEF Nested!Abort
  <2>2. DOMAIN signal' = DOMAIN signal
    BY <2>1
  <2>3. QED  BY <2>1, <2>2 DEF CommitMoves
<1>3. ASSUME NEW t, Nested!Call(t) \/ Nested!Write(t) \/ Nested!CallbackThrows(t) \/ Nested!Rollback(t)
      PROVE  CommitMoves
  BY <1>3 DEF Nested!Call, Nested!Write, Nested!CallbackThrows, Nested!Rollback, Nested!tasks, CommitMoves
<1>4. ASSUME Nested!Opened \/ Nested!Committed \/ Nested!RolledBack PROVE CommitMoves
  BY <1>4 DEF Nested!Opened, Nested!Committed, Nested!RolledBack, CommitMoves
<1>5. QED  BY <1>1, <1>2, <1>3, <1>4 DEF Nested!Next

LEMMA InTurnMoves == InTurn!Next => CommitMoves
<1>1. ASSUME NEW t, InTurn!CallbackReturns(t) PROVE CommitMoves
  BY <1>1, Zenon DEF InTurn!CallbackReturns, InTurn!Commits, CommitMoves
<1>2. ASSUME NEW t, InTurn!Abort(t) PROVE CommitMoves
  <2>1. signal' = [signal EXCEPT ![t] = TRUE] /\ committing' = committing
    BY <1>2 DEF InTurn!Abort
  <2>2. DOMAIN signal' = DOMAIN signal
    BY <2>1
  <2>3. QED  BY <2>1, <2>2 DEF CommitMoves
<1>3. ASSUME NEW t, InTurn!Call(t) \/ InTurn!Write(t) \/ InTurn!CallbackThrows(t) \/ InTurn!Rollback(t)
      PROVE  CommitMoves
  BY <1>3 DEF InTurn!Call, InTurn!Write, InTurn!CallbackThrows, InTurn!Rollback, InTurn!tasks, CommitMoves
<1>4. ASSUME InTurn!Opened \/ InTurn!Committed \/ InTurn!RolledBack PROVE CommitMoves
  BY <1>4 DEF InTurn!Opened, InTurn!Committed, InTurn!RolledBack, CommitMoves
<1>5. QED  BY <1>1, <1>2, <1>3, <1>4 DEF InTurn!Next

LEMMA CommitInit == Nested!Init \/ InTurn!Init => CommitInv
BY DEF Nested!Init, InTurn!Init, CommitInv

LEMMA TransactionsMove == [MCNext]_mcvars => CommitMoves \/ UNCHANGED <<signal, committing>>
BY NestedMoves, InTurnMoves DEF MCNext, mcvars, transactions

\* One call is aborted, or one that is not begins its commit.
LEMMA CommitStep ==
    ASSUME CommitInv, CommitMoves \/ UNCHANGED <<signal, committing>>
    PROVE  /\ CommitInv'
           /\ \A t \in DOMAIN signal : signal[t] /\ ~committing[t] => ~committing'[t]
<1>1. CASE UNCHANGED <<signal, committing>>
  BY <1>1 DEF CommitInv
<1>2. CASE CommitMoves
  <2>1. signal' \in [DOMAIN signal -> BOOLEAN]
    <3>1. CASE signal' = signal
      BY <3>1 DEF CommitInv
    <3>2. CASE \E t : signal' = [signal EXCEPT ![t] = TRUE]
      BY <3>2, Zenon DEF CommitInv
    <3>3. QED  BY <1>2, <3>1, <3>2 DEF CommitMoves
  <2>2. /\ committing' \in [DOMAIN signal -> BOOLEAN]
        /\ \A t \in DOMAIN signal : signal[t] /\ ~committing[t] => ~committing'[t]
    <3>1. CASE committing' = committing
      BY <3>1 DEF CommitInv
    <3>2. CASE \E t : ~signal[t] /\ committing' = [committing EXCEPT ![t] = TRUE]
      <4>1. PICK t : ~signal[t] /\ committing' = [committing EXCEPT ![t] = TRUE]
        BY <3>2
      <4>2. committing' \in [DOMAIN signal -> BOOLEAN]
        BY <4>1, Zenon DEF CommitInv
      <4>3. ASSUME NEW u \in DOMAIN signal, signal[u], ~committing[u] PROVE ~committing'[u]
        <5>1. u # t
          BY <4>1, <4>3, Zenon
        <5>2. committing'[u] = committing[u]
          BY <4>1, <5>1, Zenon DEF CommitInv
        <5>3. QED  BY <4>3, <5>2, Zenon
      <4>4. QED  BY <4>2, <4>3, Zenon
    <3>3. QED  BY <1>2, <3>1, <3>2 DEF CommitMoves
  <2>3. DOMAIN signal' = DOMAIN signal
    BY <1>2 DEF CommitMoves
  <2>4. QED  BY <2>1, <2>2, <2>3 DEF CommitInv
<1>3. QED  BY <1>1, <1>2

\* A transaction whose caller was rejected by the signal does not begin to commit, whatever
\* its callback returns later (withTransaction's flatMap and withSignal), for a chain of any
\* length and any number of calls in turn.
THEOREM NoLateCommit == MCSpec => NoCommitAfterAbort
<1>1. MCInit => CommitInv
  BY CommitInit DEF MCInit
<1>2. CommitInv /\ [MCNext]_mcvars => CommitInv'
  BY CommitStep, TransactionsMove
<1>3. CommitInv /\ [MCNext]_mcvars =>
          [\A t \in DOMAIN signal : signal[t] /\ ~committing[t] => ~committing'[t]]_(Nested!vars)
  BY CommitStep, TransactionsMove
<1>4. QED  BY <1>1, <1>2, <1>3, PTL DEF MCSpec, NoCommitAfterAbort, Nested!NoCommitAfterAbort

-----------------------------------------------------------------------------
(* The object storage. *)

\* The calls of a storage, and what they have answered.
StoreCalls == [op : {"none", "put", "get", "head", "delete", "list"}, key : Keys \cup {0},
               step : {"idle", "reading", "sent", "body", "pulling", "listed"},
               entries : Seq(Keys), position : Nat, listed : Seq(Keys), metadata : Nat,
               always : SUBSET Keys, ever : SUBSET Keys]
StoreAnswers == [kind : {"none", "found", "missing", "failed"}, metadata : Nat, body : Nat]

\* The map in memory has a slot for each key that is there, and no other has it.
MapIsSound(s, o) == /\ \A k \in Keys : o[k] # 0 => \E i \in DOMAIN s : s[i] = k
                    /\ \A i \in DOMAIN s : s[i] # 0 => s[i] \in Keys /\ o[s[i]] # 0
                    /\ \A i, j \in DOMAIN s : s[i] = s[j] /\ s[i] # 0 => i = j

StoreType == /\ sBackend \in Store!Backends \cup {"none"} /\ puts \in Nat
             /\ objects \in [Keys -> 0..puts] /\ slots \in Seq(Keys \cup {0})
             /\ sCall \in [Callers -> StoreCalls] /\ sAnswer \in [Callers -> StoreAnswers]

\* A call of its kind: what it waits for, and that its history is about what is there.
CallIsSound(x, b, o) ==
    /\ (x.op = "none" <=> x = Store!Idle)
    /\ (x.op = "list" <=> x.step \in {"pulling", "listed"} \/ (x.step = "sent" /\ x.key = 0))
    /\ x.op # "none" => /\ b # "none"
                        /\ \A k \in x.always : o[k] # 0
                        /\ \A k \in Keys : o[k] # 0 => k \in x.ever
    /\ x.op \in {"put", "get", "head", "delete"} => x.key \in Keys
    /\ x.step = "reading" => x.op = "put"
    /\ x.op = "list" => x.key = 0
    /\ x.step = "body" => b = "gcs" /\ x.op = "get" /\ (o[x.key] # 0 => x.metadata <= o[x.key])

\* A listing of pages: what was given out and what is there to give out are in order, and have
\* all that was there all the time, up to where the next page goes on from.
Given(x, k) == \/ \E i \in DOMAIN x.listed : x.listed[i] = k
               \/ \E i \in DOMAIN x.entries : x.entries[i] = k
GoesOnFrom(x, k) == x.position # 0 \/ x.step = "sent" => k <= x.position
PagesAreSound(x) ==
    /\ \A i, j \in DOMAIN x.listed : i < j => x.listed[i] < x.listed[j]
    /\ \A i, j \in DOMAIN x.entries : i < j => x.entries[i] < x.entries[j]
    /\ \A i \in DOMAIN x.listed, j \in DOMAIN x.entries : x.listed[i] < x.entries[j]
    /\ \A k \in Keys : Given(x, k) => k \in x.ever /\ GoesOnFrom(x, k)
    /\ \A k \in x.always : GoesOnFrom(x, k) => Given(x, k)
    /\ x.step \in {"sent", "listed"} => x.entries = <<>>
    /\ x.step = "listed" => x.position = 0

\* A listing of the map: it has the keys of the slots it has passed.
ScanIsSound(x, s) ==
    /\ x.step \in {"pulling", "listed"}
    /\ \A i \in DOMAIN x.listed : x.listed[i] \in x.ever
    /\ \A i \in DOMAIN s : s[i] \in x.always =>
          /\ (i <= x.position => \E j \in DOMAIN x.listed : x.listed[j] = s[i])
          /\ (x.position < i => \A j \in DOMAIN x.listed : x.listed[j] # s[i])
          /\ (x.step = "listed" => i <= x.position)
    /\ \A i, j \in DOMAIN x.listed : x.listed[i] = x.listed[j] /\ x.listed[i] \in x.always => i = j

ListIsSound(x, b, s) ==
    x.op = "list" => IF b = "memory" THEN ScanIsSound(x, s)
                     ELSE PagesAreSound(x) /\ (b = "indexeddb" => x.position = 0)

AnswerIsSound(a, x, b) ==
    /\ x.op \in {"get", "head"} \/ b = "none" => a.kind = "none"
    /\ a.kind = "found" => IF b = "gcs" THEN a.body >= a.metadata ELSE a.body = a.metadata

StoreInv == /\ StoreType /\ MapIsSound(slots, objects)
            /\ \A c \in Callers : /\ sCall[c].metadata <= puts
                                  /\ CallIsSound(sCall[c], sBackend, objects)
                                  /\ ListIsSound(sCall[c], sBackend, slots)
                                  /\ AnswerIsSound(sAnswer[c], sCall[c], sBackend)
-----------------------------------------------------------------------------
USE StorageAssumption DEF StorageAssumption

LEMMA IdleIsSound ==
    /\ Store!Idle \in StoreCalls
    /\ \A b \in Store!Backends, o \in [Keys -> Nat], s \in Seq(Keys \cup {0}) :
          CallIsSound(Store!Idle, b, o) /\ ListIsSound(Store!Idle, b, s)
<1>1. Store!Idle \in StoreCalls
  BY DEF Store!Idle, StoreCalls
<1>2. \A b \in Store!Backends, o \in [Keys -> Nat], s \in Seq(Keys \cup {0}) :
         CallIsSound(Store!Idle, b, o) /\ ListIsSound(Store!Idle, b, s)
  BY DEF Store!Idle, CallIsSound, ListIsSound
<1>3. QED  BY <1>1, <1>2

LEMMA StoreInit == Store!Init => StoreInv
<1> SUFFICES ASSUME Store!Init PROVE StoreInv
  OBVIOUS
<1> USE DEF Store!Init
<1>1. StoreType
  <2>1. Store!NoAnswer \in StoreAnswers /\ objects \in [Keys -> 0..0] /\ puts = 0
    BY DEF Store!NoAnswer, StoreAnswers
  <2>2. QED  BY <2>1, IdleIsSound DEF StoreType
<1>2. MapIsSound(slots, objects)
  BY DEF MapIsSound
<1>3. ASSUME NEW c \in Callers
      PROVE  /\ sCall[c].metadata <= puts /\ CallIsSound(sCall[c], sBackend, objects)
             /\ ListIsSound(sCall[c], sBackend, slots) /\ AnswerIsSound(sAnswer[c], sCall[c], sBackend)
  BY DEF Store!Idle, Store!NoAnswer, CallIsSound, ListIsSound, AnswerIsSound
<1>4. QED  BY <1>1, <1>2, <1>3 DEF StoreInv

\* One call goes on while what is stored stays as it is.
LEMMA StoreCall ==
    ASSUME StoreInv, NEW c \in Callers, NEW new \in StoreCalls, NEW ans \in StoreAnswers,
           sCall' = [sCall EXCEPT ![c] = new], sAnswer' = [sAnswer EXCEPT ![c] = ans],
           UNCHANGED <<sBackend, objects, slots, puts>>, new.metadata <= puts,
           CallIsSound(new, sBackend, objects), ListIsSound(new, sBackend, slots),
           AnswerIsSound(ans, new, sBackend)
    PROVE  StoreInv'
<1>1. StoreType' /\ MapIsSound(slots, objects)'
  BY DEF StoreInv, StoreType
<1>2. ASSUME NEW d \in Callers
      PROVE  /\ sCall'[d].metadata <= puts' /\ CallIsSound(sCall'[d], sBackend', objects')
             /\ ListIsSound(sCall'[d], sBackend', slots') /\ AnswerIsSound(sAnswer'[d], sCall'[d], sBackend')
  <2>1. \/ sCall'[d] = new /\ sAnswer'[d] = ans
        \/ sCall'[d] = sCall[d] /\ sAnswer'[d] = sAnswer[d]
    BY DEF StoreInv, StoreType
  <2>2. QED  BY <2>1 DEF StoreInv
<1>3. QED  BY <1>1, <1>2 DEF StoreInv

NotedCall(x, stored, deleted) ==
    IF x.op = "none" THEN x ELSE [x EXCEPT !.always = @ \ deleted, !.ever = @ \cup stored]

\* What the history of a call notes when things are put and deleted.
LEMMA NotedIsSound ==
    ASSUME NEW x \in StoreCalls, NEW b \in Store!Backends, NEW o \in [Keys -> Nat], NEW o2 \in [Keys -> Nat],
           NEW s \in Seq(Keys \cup {0}), NEW s2 \in Seq(Keys \cup {0}),
           NEW stored \in SUBSET Keys, NEW deleted \in SUBSET Keys, MapIsSound(s, o),
           CallIsSound(x, b, o), ListIsSound(x, b, s),
           \A k \in Keys : o2[k] # 0 /\ k \notin stored => o[k] = o2[k],
           \A k \in stored : o2[k] >= x.metadata,
           \A k \in Keys \ deleted : o[k] # 0 => o2[k] # 0,
           \A i \in DOMAIN s2 : s2[i] # 0 /\ o[s2[i]] # 0 => i \in DOMAIN s /\ s[i] = s2[i],
           NEW y \in StoreCalls,
           y = NotedCall(x, stored, deleted)
    PROVE  CallIsSound(y, b, o2) /\ ListIsSound(y, b, s2)
<1>1. CASE x.op = "none"
  BY <1>1 DEF NotedCall, CallIsSound, ListIsSound, Store!Idle
<1>2. CASE x.op # "none"
  <2>1. /\ y.op = x.op /\ y.key = x.key /\ y.step = x.step /\ y.entries = x.entries
        /\ y.position = x.position /\ y.listed = x.listed /\ y.metadata = x.metadata
        /\ y.always = x.always \ deleted /\ y.ever = x.ever \cup stored
    BY <1>2 DEF NotedCall, StoreCalls
  <2>2. x.always \subseteq Keys /\ x.ever \subseteq Keys /\ x.metadata \in Nat
    BY DEF StoreCalls
  <2>3. CallIsSound(y, b, o2)
    <3>1. (y.op = "none" <=> y = Store!Idle)
      BY <1>2, <2>1 DEF Store!Idle
    <3>2. /\ \A k \in y.always : o2[k] # 0
          /\ \A k \in Keys : o2[k] # 0 => k \in y.ever
      BY <1>2, <2>1, <2>2 DEF CallIsSound
    <3>3. ASSUME y.step = "body" PROVE o2[y.key] # 0 => y.metadata <= o2[y.key]
      <4>1. y.key \in Keys /\ x.key = y.key /\ (o[x.key] # 0 => x.metadata <= o[x.key])
        BY <2>1, <3>3 DEF CallIsSound
      <4>2. QED  BY <2>1, <2>2, <4>1
    <3>4. QED  BY <1>2, <2>1, <3>1, <3>2, <3>3 DEF CallIsSound
  <2>4. CASE x.op # "list"
    BY <2>1, <2>3, <2>4 DEF ListIsSound
  <2>5. CASE x.op = "list" /\ b # "memory"
    <3>1. PagesAreSound(x)
      BY <2>5 DEF ListIsSound
    <3>2. \A k \in Keys : (Given(y, k) <=> Given(x, k)) /\ (GoesOnFrom(y, k) <=> GoesOnFrom(x, k))
      BY <2>1 DEF Given, GoesOnFrom
    <3>3. PagesAreSound(y)
      BY <2>1, <2>2, <3>1, <3>2 DEF PagesAreSound
    <3>4. QED  BY <2>1, <2>3, <2>5, <3>3 DEF ListIsSound
  <2>6. CASE x.op = "list" /\ b = "memory"
    <3>1. ScanIsSound(x, s)
      BY <2>6 DEF ListIsSound
    <3>2. ASSUME NEW i \in DOMAIN s2, s2[i] \in y.always PROVE i \in DOMAIN s /\ s[i] = s2[i] /\ s[i] \in x.always
      BY <2>1, <2>2, <2>6, <3>2 DEF CallIsSound
    <3>3. ScanIsSound(y, s2)
      BY <2>1, <3>1, <3>2 DEF ScanIsSound
    <3>4. QED  BY <2>1, <2>3, <2>6, <3>3 DEF ListIsSound
  <2>7. QED  BY <2>3, <2>4, <2>5, <2>6
<1>3. QED  BY <1>1, <1>2

\* What is stored changes, and each call has noted it; one of them may end.
LEMMA HistoryNoted ==
    ASSUME StoreInv, sBackend \in Store!Backends, NEW stored \in SUBSET Keys, NEW deleted \in SUBSET Keys,
           UNCHANGED <<sBackend, sAnswer>>, puts' \in Nat, puts' >= puts, objects' \in [Keys -> 0..puts'],
           slots' \in Seq(Keys \cup {0}), MapIsSound(slots', objects'),
           \A d \in Callers : /\ Store!Noted(stored, deleted)[d] \in StoreCalls
                              /\ Store!Noted(stored, deleted)[d].metadata = sCall[d].metadata
                              /\ Store!Noted(stored, deleted)[d].op = sCall[d].op
                              /\ CallIsSound(Store!Noted(stored, deleted)[d], sBackend, objects')
                              /\ ListIsSound(Store!Noted(stored, deleted)[d], sBackend, slots'),
           \/ sCall' = Store!Noted(stored, deleted)
           \/ \E c \in Callers : sCall' = [Store!Noted(stored, deleted) EXCEPT ![c] = Store!Idle]
    PROVE  StoreInv'
<1> DEFINE noted == Store!Noted(stored, deleted)
<1>1. DOMAIN noted = Callers /\ noted = [d \in Callers |-> noted[d]]
  BY DEF Store!Noted
<1> HIDE DEF noted
<1>2. sCall' \in [Callers -> StoreCalls] /\ \A d \in Callers : sCall'[d] \in {noted[d], Store!Idle}
  BY <1>1, IdleIsSound DEF noted
<1>3. StoreType'
  BY <1>2 DEF StoreInv, StoreType
<1>4. objects' \in [Keys -> Nat]
  OBVIOUS
<1>5. ASSUME NEW d \in Callers
      PROVE  /\ sCall'[d].metadata <= puts' /\ CallIsSound(sCall'[d], sBackend', objects')
             /\ ListIsSound(sCall'[d], sBackend', slots') /\ AnswerIsSound(sAnswer'[d], sCall'[d], sBackend')
  <2>1. /\ sCall[d].metadata \in Nat /\ sCall[d].metadata <= puts /\ puts \in Nat
        /\ AnswerIsSound(sAnswer[d], sCall[d], sBackend) /\ sBackend # "none"
    BY DEF StoreInv, StoreType, StoreCalls, Store!Backends
  <2>2. CASE sCall'[d] = noted[d]
    <3>1. sCall'[d].metadata <= puts' /\ sCall'[d].op = sCall[d].op
      BY <2>1, <2>2 DEF noted
    <3>2. AnswerIsSound(sAnswer'[d], sCall'[d], sBackend')
      BY <2>1, <3>1 DEF AnswerIsSound
    <3>3. QED  BY <2>2, <3>1, <3>2 DEF noted
  <2>3. CASE sCall'[d] = Store!Idle
    <3>1. CallIsSound(Store!Idle, sBackend', objects') /\ ListIsSound(Store!Idle, sBackend', slots')
      BY <1>4, IdleIsSound
    <3>2. Store!Idle.metadata = 0 /\ Store!Idle.op = "none"
      BY DEF Store!Idle
    <3>3. AnswerIsSound(sAnswer'[d], sCall'[d], sBackend')
      BY <2>1, <2>3, <3>2 DEF AnswerIsSound
    <3>4. QED  BY <2>3, <3>1, <3>2, <3>3
  <2>4. QED  BY <1>2, <2>2, <2>3
<1>6. QED  BY <1>3, <1>5 DEF StoreInv

\* An object is stored: each call that is under way notes it, and one of them may end.
LEMMA ObjectStored ==
    ASSUME StoreInv, sBackend \in Store!Backends, NEW k \in Keys, Store!Stores(k),
           UNCHANGED <<sBackend, sAnswer>>,
           \/ sCall' = Store!Noted({k}, {})
           \/ \E c \in Callers : sCall' = [Store!Noted({k}, {}) EXCEPT ![c] = Store!Idle]
    PROVE  StoreInv'
<1>1. /\ puts' = puts + 1 /\ puts' \in Nat /\ puts \in Nat /\ puts' >= puts
      /\ objects' = [objects EXCEPT ![k] = puts'] /\ objects' \in [Keys -> 0..puts']
      /\ objects \in [Keys -> Nat] /\ objects' \in [Keys -> Nat]
  BY DEF Store!Stores, StoreInv, StoreType
<1>2. /\ slots \in Seq(Keys \cup {0}) /\ slots' \in Seq(Keys \cup {0}) /\ MapIsSound(slots', objects')
      /\ \A i \in DOMAIN slots' : slots'[i] # 0 /\ objects[slots'[i]] # 0 =>
            i \in DOMAIN slots /\ slots[i] = slots'[i]
  <2>1. slots \in Seq(Keys \cup {0}) /\ MapIsSound(slots, objects) /\ k # 0
    BY DEF StoreInv, StoreType
  <2>2. CASE \E i \in DOMAIN slots : slots[i] = k
    <3>1. slots' = slots
      BY <2>2 DEF Store!Stores, Store!ToSet
    <3>2. MapIsSound(slots, objects')
      BY <1>1, <2>1, <2>2 DEF MapIsSound
    <3>3. QED  BY <2>1, <3>1, <3>2
  <2>3. CASE \A i \in DOMAIN slots : slots[i] # k
    <3>1. slots' = Append(slots, k)
      BY <2>3 DEF Store!Stores, Store!ToSet
    <3> DEFINE n == Len(slots)
    <3>2. /\ n \in Nat /\ DOMAIN slots = 1..n /\ DOMAIN slots' = 1..(n + 1)
          /\ slots'[n + 1] = k /\ \A i \in 1..n : slots'[i] = slots[i]
      BY <2>1, <3>1
    <3>3. objects[k] = 0
      BY <2>1, <2>3 DEF MapIsSound
    <3>4. slots' \in Seq(Keys \cup {0})
      BY <2>1, <3>1
    <3> HIDE DEF n
    <3>5. \A i \in DOMAIN slots' : (i \in DOMAIN slots /\ slots'[i] = slots[i]) \/ (i = n + 1 /\ slots'[i] = k)
      BY <3>2
    <3>6. MapIsSound(slots', objects')
      <4>1. ASSUME NEW l \in Keys, objects'[l] # 0 PROVE \E i \in DOMAIN slots' : slots'[i] = l
        BY <1>1, <2>1, <3>2, <4>1 DEF MapIsSound
      <4>2. ASSUME NEW i \in DOMAIN slots', slots'[i] # 0 PROVE slots'[i] \in Keys /\ objects'[slots'[i]] # 0
        BY <1>1, <2>1, <3>5, <4>2 DEF MapIsSound
      <4>3. ASSUME NEW i \in DOMAIN slots', NEW j \in DOMAIN slots', slots'[i] = slots'[j], slots'[i] # 0
            PROVE  i = j
        BY <2>1, <2>3, <3>5, <4>3 DEF MapIsSound
      <4>4. QED  BY <4>1, <4>2, <4>3 DEF MapIsSound
    <3>7. QED  BY <2>1, <3>3, <3>4, <3>5, <3>6
  <2>4. QED  BY <2>2, <2>3
<1>3. ASSUME NEW d \in Callers
      PROVE  /\ Store!Noted({k}, {})[d] \in StoreCalls
             /\ Store!Noted({k}, {})[d].metadata = sCall[d].metadata
             /\ Store!Noted({k}, {})[d].op = sCall[d].op
             /\ CallIsSound(Store!Noted({k}, {})[d], sBackend, objects')
             /\ ListIsSound(Store!Noted({k}, {})[d], sBackend, slots')
  <2> DEFINE x == sCall[d]
             y == Store!Noted({k}, {})[d]
  <2>1. /\ x \in StoreCalls /\ x.metadata <= puts /\ MapIsSound(slots, objects)
        /\ CallIsSound(x, sBackend, objects) /\ ListIsSound(x, sBackend, slots)
    BY DEF StoreInv, StoreType
  <2>2. y = NotedCall(x, {k}, {})
    BY DEF Store!Noted, NotedCall
  <2> HIDE DEF x, y
  <2>3. y \in StoreCalls /\ y.metadata = x.metadata /\ y.op = x.op /\ x.metadata \in Nat
    BY <2>1, <2>2 DEF NotedCall, StoreCalls
  <2>4. /\ \A l \in Keys : objects'[l] # 0 /\ l \notin {k} => objects[l] = objects'[l]
        /\ \A l \in {k} : objects'[l] >= x.metadata
        /\ \A l \in Keys \ {} : objects[l] # 0 => objects'[l] # 0
    BY <1>1, <2>1, <2>3
  <2>5. {k} \in SUBSET Keys /\ {} \in SUBSET Keys
    OBVIOUS
  <2>6. CallIsSound(y, sBackend, objects') /\ ListIsSound(y, sBackend, slots')
    BY <1>1, <1>2, <2>1, <2>2, <2>3, <2>4, <2>5, NotedIsSound
  <2>7. QED  BY <2>3, <2>6 DEF x, y
<1>4. {k} \in SUBSET Keys /\ {} \in SUBSET Keys
  OBVIOUS
<1>5. QED  BY <1>1, <1>2, <1>3, <1>4, HistoryNoted

\* Objects are removed.
LEMMA ObjectsRemoved ==
    ASSUME StoreInv, sBackend \in Store!Backends, NEW deleted \in SUBSET Keys,
           objects' = [k \in Keys |-> IF k \in deleted THEN 0 ELSE objects[k]],
           slots' = [i \in DOMAIN slots |-> IF slots[i] \in deleted THEN 0 ELSE slots[i]],
           UNCHANGED <<sBackend, sAnswer, puts>>,
           \/ sCall' = Store!Noted({}, deleted)
           \/ \E c \in Callers : sCall' = [Store!Noted({}, deleted) EXCEPT ![c] = Store!Idle]
    PROVE  StoreInv'
<1>1. /\ puts' \in Nat /\ puts \in Nat /\ puts' >= puts /\ objects' \in [Keys -> 0..puts']
      /\ objects \in [Keys -> Nat] /\ objects' \in [Keys -> Nat]
  BY DEF StoreInv, StoreType
<1>2. /\ slots \in Seq(Keys \cup {0}) /\ slots' \in Seq(Keys \cup {0}) /\ MapIsSound(slots', objects')
      /\ \A i \in DOMAIN slots' : slots'[i] # 0 /\ objects[slots'[i]] # 0 =>
            i \in DOMAIN slots /\ slots[i] = slots'[i]
  <2>1. slots \in Seq(Keys \cup {0}) /\ MapIsSound(slots, objects) /\ 0 \notin Keys
    BY DEF StoreInv, StoreType
  <2>2. slots' \in Seq(Keys \cup {0}) /\ DOMAIN slots' = DOMAIN slots
    BY <2>1
  <2>3. \A i \in DOMAIN slots' : i \in DOMAIN slots /\ slots'[i] = IF slots[i] \in deleted THEN 0 ELSE slots[i]
    OBVIOUS
  <2>4. \A k \in Keys : objects'[k] = IF k \in deleted THEN 0 ELSE objects[k]
    OBVIOUS
  <2>5. MapIsSound(slots', objects')
    <3>1. ASSUME NEW k \in Keys, objects'[k] # 0 PROVE \E i \in DOMAIN slots' : slots'[i] = k
      BY <2>1, <2>2, <2>3, <2>4, <3>1 DEF MapIsSound
    <3>2. ASSUME NEW i \in DOMAIN slots', slots'[i] # 0 PROVE slots'[i] \in Keys /\ objects'[slots'[i]] # 0
      BY <2>1, <2>3, <2>4, <3>2 DEF MapIsSound
    <3>3. ASSUME NEW i \in DOMAIN slots', NEW j \in DOMAIN slots', slots'[i] = slots'[j], slots'[i] # 0
          PROVE  i = j
      BY <2>1, <2>3, <3>3 DEF MapIsSound
    <3>4. QED  BY <3>1, <3>2, <3>3 DEF MapIsSound
  <2>6. QED  BY <2>1, <2>2, <2>3, <2>5
<1>3. ASSUME NEW d \in Callers
      PROVE  /\ Store!Noted({}, deleted)[d] \in StoreCalls
             /\ Store!Noted({}, deleted)[d].metadata = sCall[d].metadata
             /\ Store!Noted({}, deleted)[d].op = sCall[d].op
             /\ CallIsSound(Store!Noted({}, deleted)[d], sBackend, objects')
             /\ ListIsSound(Store!Noted({}, deleted)[d], sBackend, slots')
  <2> DEFINE x == sCall[d]
             y == Store!Noted({}, deleted)[d]
  <2>1. /\ x \in StoreCalls /\ MapIsSound(slots, objects)
        /\ CallIsSound(x, sBackend, objects) /\ ListIsSound(x, sBackend, slots)
    BY DEF StoreInv, StoreType
  <2>2. y = NotedCall(x, {}, deleted)
    BY DEF Store!Noted, NotedCall
  <2> HIDE DEF x, y
  <2>3. y \in StoreCalls /\ y.metadata = x.metadata /\ y.op = x.op
    BY <2>1, <2>2 DEF NotedCall, StoreCalls
  <2>4. /\ \A l \in Keys : objects'[l] # 0 /\ l \notin {} => objects[l] = objects'[l]
        /\ \A l \in {} : objects'[l] >= x.metadata
        /\ \A l \in Keys \ deleted : objects[l] # 0 => objects'[l] # 0
    OBVIOUS
  <2>5. {} \in SUBSET Keys
    OBVIOUS
  <2>6. CallIsSound(y, sBackend, objects') /\ ListIsSound(y, sBackend, slots')
    BY <1>1, <1>2, <2>1, <2>2, <2>3, <2>4, <2>5, NotedIsSound
  <2>7. QED  BY <2>3, <2>6 DEF x, y
<1>4. QED  BY <1>1, <1>2, <1>3, HistoryNoted

LEMMA ObjectRemoved ==
    ASSUME StoreInv, sBackend \in Store!Backends, NEW k \in Keys, Store!Removes(k),
           UNCHANGED <<sBackend, sAnswer>>,
           \/ sCall' = Store!Noted({}, {k})
           \/ \E c \in Callers : sCall' = [Store!Noted({}, {k}) EXCEPT ![c] = Store!Idle]
    PROVE  StoreInv'
<1>1. objects' = [l \in Keys |-> IF l \in {k} THEN 0 ELSE objects[l]]
  BY DEF Store!Removes, StoreInv, StoreType
<1>2. /\ slots' = [i \in DOMAIN slots |-> IF slots[i] \in {k} THEN 0 ELSE slots[i]]
      /\ UNCHANGED puts /\ {k} \in SUBSET Keys
  BY DEF Store!Removes
<1>3. QED  BY <1>1, <1>2, ObjectsRemoved

LEMMA SortedFacts ==
    ASSUME NEW S \in SUBSET Keys, NEW names \in Store!Sorted(S)
    PROVE  /\ names \in Seq(Keys) /\ Len(names) \in Nat /\ DOMAIN names = 1..Len(names)
           /\ \A i \in DOMAIN names : names[i] \in S
           /\ \A k \in S : \E i \in DOMAIN names : names[i] = k
           /\ \A i, j \in DOMAIN names : i < j => names[i] < names[j]
<1> DEFINE n == Cardinality(S)
<1>1. n \in Nat
  BY FS_Subset, FS_CardinalityType
<1>2. Store!Cardinality(S) = n
  BY DEF Store!Cardinality, Cardinality
<1> HIDE DEF n
<1>3. /\ names \in [1..n -> S] /\ S \subseteq Store!ToSet(names)
      /\ \A i, j \in 1..n : i < j => names[i] < names[j]
  BY <1>2 DEF Store!Sorted
<1>4. names \in Seq(Keys) /\ Len(names) = n /\ DOMAIN names = 1..n
  <2>1. names \in [1..n -> Keys]
    BY <1>3
  <2>2. names \in Seq(Keys)
    BY <1>1, <2>1, SeqDef
  <2>3. QED  BY <1>1, <2>1, <2>2
<1>5. S \subseteq {names[i] : i \in DOMAIN names}
  BY <1>3 DEF Store!ToSet
<1>6. QED  BY <1>1, <1>3, <1>4, <1>5

\* What comes next of what is there, from one token to another, or, with 0, to the end.
IsPage(page, there, from, token) ==
    /\ \A i \in DOMAIN page : page[i] \in there /\ from < page[i] /\ (token # 0 => page[i] <= token)
    /\ \A i, j \in DOMAIN page : i < j => page[i] < page[j]
    /\ \A k \in there : from < k /\ (token # 0 => k <= token) => \E i \in DOMAIN page : page[i] = k
    /\ token # 0 => from < token

\* The next page goes on where the last one ended.
LEMMA PageGivenOut ==
    ASSUME NEW x \in StoreCalls, NEW there \in SUBSET Keys, NEW page \in Seq(Keys), NEW token \in Nat,
           x.op = "list", x.step = "sent", PagesAreSound(x), x.always \subseteq there, there \subseteq x.ever,
           IsPage(page, there, x.position, token),
           NEW y \in StoreCalls, y.step = "pulling", y.entries = page, y.position = token,
           y.listed = x.listed, y.always = x.always, y.ever = x.ever
    PROVE  PagesAreSound(y)
<1> USE DEF IsPage
<1>1. /\ x.entries = <<>> /\ x.position \in Nat /\ x.listed \in Seq(Keys) /\ x.always \subseteq Keys
      /\ \A i \in DOMAIN x.listed : x.listed[i] \in Keys
      /\ \A i \in DOMAIN page : page[i] \in Keys
  BY DEF PagesAreSound, StoreCalls
<1>2. \A k \in Keys : Given(x, k) <=> \E i \in DOMAIN x.listed : x.listed[i] = k
  BY <1>1 DEF Given
<1>3. \A i \in DOMAIN x.listed : x.listed[i] <= x.position /\ x.listed[i] \in x.ever
  BY <1>1, <1>2 DEF PagesAreSound, GoesOnFrom
<1>4. \A k \in x.always : k <= x.position => \E i \in DOMAIN x.listed : x.listed[i] = k
  BY <1>1, <1>2 DEF PagesAreSound, GoesOnFrom
<1>5. \A i \in DOMAIN y.listed, j \in DOMAIN y.entries : y.listed[i] < y.entries[j]
  <2> SUFFICES ASSUME NEW i \in DOMAIN x.listed, NEW j \in DOMAIN page PROVE x.listed[i] < page[j]
    OBVIOUS
  <2>1. x.listed[i] <= x.position /\ x.position < page[j] /\ x.listed[i] \in Nat /\ page[j] \in Nat
    BY <1>1, <1>3
  <2>2. QED  BY <1>1, <2>1
<1>6. ASSUME NEW k \in Keys, Given(y, k) PROVE k \in y.ever /\ GoesOnFrom(y, k)
  <2>1. CASE \E i \in DOMAIN x.listed : x.listed[i] = k
    <3>1. k <= x.position /\ k \in x.ever /\ k \in Nat
      BY <1>3, <2>1
    <3>2. token # 0 => k <= token
      BY <1>1, <3>1
    <3>3. QED  BY <3>1, <3>2 DEF GoesOnFrom
  <2>2. CASE \E i \in DOMAIN page : page[i] = k
    BY <2>2 DEF GoesOnFrom
  <2>3. QED  BY <1>6, <2>1, <2>2 DEF Given
<1>7. ASSUME NEW k \in y.always, GoesOnFrom(y, k) PROVE Given(y, k)
  <2>1. k \in Keys /\ k \in Nat /\ k \in x.always /\ (token # 0 => k <= token)
    BY <1>1, <1>7 DEF GoesOnFrom
  <2>2. CASE k <= x.position
    BY <1>4, <2>1, <2>2 DEF Given
  <2>3. CASE x.position < k
    <3>1. \E i \in DOMAIN page : page[i] = k
      BY <2>1, <2>3
    <3>2. QED  BY <3>1 DEF Given
  <2>4. QED  BY <1>1, <2>1, <2>2, <2>3
<1>8. \A i, j \in DOMAIN y.listed : i < j => y.listed[i] < y.listed[j]
  BY DEF PagesAreSound
<1>9. QED  BY <1>5, <1>6, <1>7, <1>8 DEF PagesAreSound

\* The caller takes the first of the entries.
LEMMA EntryTaken ==
    ASSUME NEW x \in StoreCalls, NEW y \in StoreCalls, PagesAreSound(x), x.step = "pulling", x.entries # <<>>,
           y.step = x.step, y.entries = Tail(x.entries), y.listed = Append(x.listed, Head(x.entries)),
           y.position = x.position, y.always = x.always, y.ever = x.ever
    PROVE  PagesAreSound(y)
<1> DEFINE e == x.entries
           l == x.listed
           n == Len(e)
           m == Len(l)
<1>1. e \in Seq(Keys) /\ l \in Seq(Keys) /\ e # <<>>
  BY DEF StoreCalls
<1>2. /\ n \in Nat \ {0} /\ m \in Nat /\ DOMAIN e = 1..n /\ DOMAIN l = 1..m
      /\ \A i \in 1..n : e[i] \in Keys
      /\ \A i \in 1..m : l[i] \in Keys
  BY <1>1
<1>3. /\ DOMAIN Tail(e) = 1..(n - 1) /\ \A i \in 1..(n - 1) : Tail(e)[i] = e[i + 1]
      /\ DOMAIN Append(l, Head(e)) = 1..(m + 1)
      /\ \A i \in 1..m : Append(l, Head(e))[i] = l[i]
      /\ Append(l, Head(e))[m + 1] = e[1]
  BY <1>1, <1>2
<1>4. /\ DOMAIN y.entries = 1..(n - 1) /\ \A i \in 1..(n - 1) : y.entries[i] = e[i + 1]
      /\ DOMAIN y.listed = 1..(m + 1) /\ \A i \in 1..m : y.listed[i] = l[i]
      /\ y.listed[m + 1] = e[1]
  BY <1>3
<1>5. /\ \A i, j \in 1..m : i < j => l[i] < l[j]
      /\ \A i, j \in 1..n : i < j => e[i] < e[j]
      /\ \A i \in 1..m, j \in 1..n : l[i] < e[j]
  BY <1>2 DEF PagesAreSound
<1>6. \A k \in Keys : Given(x, k) <=> (\E i \in 1..m : l[i] = k) \/ (\E i \in 1..n : e[i] = k)
  BY <1>2 DEF Given
<1> HIDE DEF e, l, n, m
<1>7. \A k \in Keys : Given(y, k) <=> (\E i \in 1..(m + 1) : y.listed[i] = k) \/ (\E i \in 1..(n - 1) : e[i + 1] = k)
  <2>1. \A k \in Keys : (\E i \in DOMAIN y.listed : y.listed[i] = k) <=> \E i \in 1..(m + 1) : y.listed[i] = k
    BY <1>4, Zenon
  <2>2. \A k \in Keys : (\E i \in DOMAIN y.entries : y.entries[i] = k) <=> \E i \in 1..(n - 1) : e[i + 1] = k
    <3>1. ASSUME NEW k \in Keys, NEW i \in 1..(n - 1) PROVE y.entries[i] = k <=> e[i + 1] = k
      BY <1>4
    <3>2. DOMAIN y.entries = 1..(n - 1)
      BY <1>4
    <3>3. QED  BY <3>1, <3>2, Zenon
  <2>3. QED  BY <2>1, <2>2, Zenon DEF Given
<1>8. /\ \A k \in Keys : GoesOnFrom(y, k) <=> GoesOnFrom(x, k)
      /\ \A k \in Keys : Given(x, k) => k \in x.ever /\ GoesOnFrom(x, k)
      /\ \A k \in x.always : GoesOnFrom(x, k) => Given(x, k)
      /\ x.always \subseteq Keys
  BY DEF PagesAreSound, GoesOnFrom, StoreCalls
<1>9. \A k \in Keys : Given(y, k) <=> Given(x, k)
  <2>1. ASSUME NEW k \in Keys, Given(x, k) PROVE Given(y, k)
    <3>1. CASE \E i \in 1..m : l[i] = k
      <4>1. PICK i \in 1..m : l[i] = k
        BY <3>1
      <4>2. i \in 1..(m + 1) /\ y.listed[i] = k
        BY <1>2, <1>4, <4>1
      <4>3. QED  BY <1>7, <4>2
    <3>2. CASE \E i \in 1..n : e[i] = k
      <4>1. PICK i \in 1..n : e[i] = k
        BY <3>2
      <4>2. CASE i = 1
        <5>1. m + 1 \in 1..(m + 1) /\ y.listed[m + 1] = k
          BY <1>2, <1>4, <4>1, <4>2
        <5>2. QED  BY <1>7, <5>1
      <4>3. CASE i # 1
        <5>1. i - 1 \in 1..(n - 1) /\ e[(i - 1) + 1] = k
          BY <1>2, <4>1, <4>3
        <5>2. QED  BY <1>7, <5>1
      <4>4. QED  BY <4>2, <4>3
    <3>3. QED  BY <1>6, <2>1, <3>1, <3>2
  <2>2. ASSUME NEW k \in Keys, Given(y, k) PROVE Given(x, k)
    <3>1. CASE \E i \in 1..(m + 1) : y.listed[i] = k
      <4>1. PICK i \in 1..(m + 1) : y.listed[i] = k
        BY <3>1
      <4>2. (i \in 1..m /\ l[i] = k) \/ (1 \in 1..n /\ e[1] = k)
        BY <1>2, <1>4, <4>1
      <4>3. QED  BY <1>6, <4>2
    <3>2. CASE \E i \in 1..(n - 1) : e[i + 1] = k
      <4>1. PICK i \in 1..(n - 1) : e[i + 1] = k
        BY <3>2
      <4>2. i + 1 \in 1..n
        BY <1>2, <4>1
      <4>3. QED  BY <1>6, <4>1, <4>2
    <3>3. QED  BY <1>7, <2>2, <3>1, <3>2
  <2>3. QED  BY <2>1, <2>2
<1>10. \A i, j \in 1..(m + 1) : i < j => y.listed[i] < y.listed[j]
  <2> SUFFICES ASSUME NEW i \in 1..(m + 1), NEW j \in 1..(m + 1), i < j PROVE y.listed[i] < y.listed[j]
    OBVIOUS
  <2>1. i \in 1..m /\ y.listed[i] = l[i] /\ 1 \in 1..n
    BY <1>2, <1>4
  <2>2. (j \in 1..m /\ y.listed[j] = l[j]) \/ y.listed[j] = e[1]
    BY <1>2, <1>4
  <2>3. QED  BY <1>5, <2>1, <2>2
<1>11. \A i, j \in 1..(n - 1) : i < j => y.entries[i] < y.entries[j]
  BY <1>2, <1>4, <1>5
<1>12. \A i \in 1..(m + 1), j \in 1..(n - 1) : y.listed[i] < y.entries[j]
  <2> SUFFICES ASSUME NEW i \in 1..(m + 1), NEW j \in 1..(n - 1) PROVE y.listed[i] < y.entries[j]
    OBVIOUS
  <2>1. y.entries[j] = e[j + 1] /\ j + 1 \in 1..n /\ 1 \in 1..n /\ 1 < j + 1
    BY <1>2, <1>4
  <2>2. (i \in 1..m /\ y.listed[i] = l[i]) \/ y.listed[i] = e[1]
    BY <1>2, <1>4
  <2>3. QED  BY <1>5, <2>1, <2>2
<1>13. QED  BY <1>4, <1>8, <1>9, <1>10, <1>11, <1>12 DEF PagesAreSound

\* The next slot that has a key.
IsNextSlot(next, s, from) == /\ next \in DOMAIN s /\ from < next /\ s[next] # 0
                             /\ \A i \in DOMAIN s : from < i /\ s[i] # 0 => next <= i

\* The caller pulls the next key that is in the map.
LEMMA SlotTaken ==
    ASSUME NEW x \in StoreCalls, NEW y \in StoreCalls, NEW o \in [Keys -> Nat], NEW s \in Seq(Keys \cup {0}),
           MapIsSound(s, o), ScanIsSound(x, s), x.step = "pulling", \A k \in Keys : o[k] # 0 => k \in x.ever,
           NEW next \in Nat, IsNextSlot(next, s, x.position),
           y.step = x.step, y.listed = Append(x.listed, s[next]), y.position = next,
           y.always = x.always, y.ever = x.ever
    PROVE  ScanIsSound(y, s)
<1> USE DEF IsNextSlot
<1> DEFINE l == x.listed
           m == Len(l)
           k == s[next]
<1>1. l \in Seq(Keys) /\ x.position \in Nat /\ x.always \subseteq Keys /\ DOMAIN s = 1..Len(s) /\ Len(s) \in Nat
  BY DEF StoreCalls
<1>2. k \in Keys /\ k \in x.ever
  BY DEF MapIsSound
<1>3. /\ m \in Nat /\ DOMAIN l = 1..m /\ DOMAIN y.listed = 1..(m + 1)
      /\ y.listed[m + 1] = k /\ \A i \in 1..m : y.listed[i] = l[i]
  BY <1>1, <1>2
<1>4. /\ \A i \in 1..m : l[i] \in x.ever
      /\ \A i, j \in 1..m : l[i] = l[j] /\ l[i] \in x.always => i = j
      /\ \A i \in DOMAIN s : s[i] \in x.always =>
            /\ (i <= x.position => \E j \in 1..m : l[j] = s[i])
            /\ (x.position < i => \A j \in 1..m : l[j] # s[i])
  BY <1>3 DEF ScanIsSound
<1>5. 0 \notin x.always
  BY <1>1
<1> HIDE DEF l, m
<1>6. \A i \in 1..(m + 1) : (i \in 1..m /\ y.listed[i] = l[i]) \/ (i = m + 1 /\ y.listed[i] = k)
  BY <1>3
<1>7. \A i \in 1..(m + 1) : y.listed[i] \in y.ever
  BY <1>2, <1>4, <1>6
<1>8. ASSUME NEW i \in DOMAIN s, s[i] \in x.always
      PROVE  /\ (i <= next => \E j \in 1..(m + 1) : y.listed[j] = s[i])
             /\ (next < i => \A j \in 1..(m + 1) : y.listed[j] # s[i])
  <2>1. i \in Nat /\ next \in Nat /\ s[i] # 0
    BY <1>1, <1>5, <1>8
  <2>2. CASE i <= x.position
    <3>1. PICK j \in 1..m : l[j] = s[i]
      BY <1>4, <1>8, <2>2
    <3>2. j \in 1..(m + 1) /\ y.listed[j] = s[i] /\ ~(next < i)
      BY <1>1, <1>3, <2>1, <2>2, <3>1
    <3>3. QED  BY <3>2
  <2>3. CASE x.position < i
    <3>1. next <= i
      BY <2>1, <2>3
    <3>2. CASE i = next
      <4>1. m + 1 \in 1..(m + 1) /\ y.listed[m + 1] = s[i] /\ ~(next < i)
        BY <1>3, <2>1, <3>2
      <4>2. QED  BY <4>1
    <3>3. CASE i # next
      <4>1. ~(i <= next) /\ k # s[i]
        BY <2>1, <3>1, <3>3 DEF MapIsSound
      <4>2. \A j \in 1..m : l[j] # s[i]
        BY <1>4, <1>8, <2>3
      <4>3. QED  BY <1>6, <4>1, <4>2
    <3>4. QED  BY <3>2, <3>3
  <2>4. i <= x.position \/ x.position < i
    BY <1>1, <2>1
  <2>5. QED  BY <2>2, <2>3, <2>4, Zenon
<1>9. ASSUME NEW i \in 1..(m + 1), NEW j \in 1..(m + 1), y.listed[i] = y.listed[j], y.listed[i] \in y.always
      PROVE  i = j
  <2>1. \A j2 \in 1..m : k \in x.always => l[j2] # k
    BY <1>4
  <2>2. CASE i = m + 1 /\ j = m + 1
    BY <2>2
  <2>3. CASE i \in 1..m /\ y.listed[i] = l[i] /\ j \in 1..m /\ y.listed[j] = l[j]
    <3>1. l[i] = l[j] /\ l[i] \in x.always
      BY <1>9, <2>3
    <3>2. QED  BY <1>4, <2>3, <3>1
  <2>4. CASE i \in 1..m /\ y.listed[i] = l[i] /\ y.listed[j] = k
    BY <1>9, <2>1, <2>4
  <2>5. CASE j \in 1..m /\ y.listed[j] = l[j] /\ y.listed[i] = k
    BY <1>9, <2>1, <2>5
  <2>6. QED  BY <1>6, <2>2, <2>3, <2>4, <2>5
<1>10. QED  BY <1>3, <1>7, <1>8, <1>9 DEF ScanIsSound

LEMMA LeastOfSome ==
    ASSUME NEW S \in SUBSET Nat, S # {}
    PROVE  \E i \in S : \A j \in S : i <= j
<1>1. PICK i \in S : \A j \in S : ~(<<j, i>> \in OpToRel(<, Nat))
  BY NatLessThanWellFounded, WFMin
<1>2. ASSUME NEW j \in S PROVE i <= j
  <2>1. <<j, i>> \in Nat \X Nat /\ <<j, i>>[1] = j /\ <<j, i>>[2] = i
    OBVIOUS
  <2>2. ~(j < i)
    BY <1>1, <2>1 DEF OpToRel
  <2>3. QED  BY <2>2
<1>3. QED  BY <1>2

-----------------------------------------------------------------------------
\* A call begins.
LEMMA StoreBegins ==
    ASSUME StoreInv, sBackend \in Store!Backends, NEW c \in Callers, NEW op, NEW k, NEW step,
           Store!Begins(c, op, k, step), UNCHANGED <<sBackend, objects, slots, puts>>,
           \/ op \in {"put", "get", "head", "delete"} /\ k \in Keys /\ step = "sent"
           \/ op = "put" /\ k \in Keys /\ step = "reading"
           \/ op = "list" /\ k = 0 /\ step = (IF sBackend = "memory" THEN "pulling" ELSE "sent")
    PROVE  StoreInv'
<1> DEFINE there == Store!Present
           new == [Store!Idle EXCEPT !.op = op, !.key = k, !.step = step, !.always = there, !.ever = there]
<1>1. /\ sCall' = [sCall EXCEPT ![c] = new] /\ sAnswer' = [sAnswer EXCEPT ![c] = Store!NoAnswer]
      /\ there = {l \in Keys : objects[l] # 0}
  BY DEF Store!Begins, Store!Present
<1>2. there \in SUBSET Keys /\ {} \in SUBSET Keys /\ 0 \notin Keys /\ <<>> \in Seq(Keys)
  BY <1>1
<1> HIDE DEF there
<1>3. /\ new.op = op /\ new.key = k /\ new.step = step /\ new.entries = <<>> /\ new.position = 0
      /\ new.listed = <<>> /\ new.metadata = 0 /\ new.always = there /\ new.ever = there
  BY DEF Store!Idle
<1>4. new \in StoreCalls
  BY <1>2 DEF Store!Idle, StoreCalls
<1> HIDE DEF new
<1>5. CallIsSound(new, sBackend, objects)
  <2>1. new # Store!Idle /\ op # "none" /\ sBackend # "none"
    BY <1>3 DEF Store!Idle, Store!Backends
  <2>2. (op = "list" <=> step \in {"pulling", "listed"} \/ (step = "sent" /\ k = 0))
    BY <1>2
  <2>3. QED  BY <1>1, <1>2, <1>3, <2>1, <2>2 DEF CallIsSound
<1>6. ListIsSound(new, sBackend, slots)
  <2>1. CASE op = "list" /\ sBackend = "memory"
    <3>1. \A i \in DOMAIN slots : i \in Nat /\ 0 < i
      BY DEF StoreInv, StoreType
    <3>2. ScanIsSound(new, slots)
      BY <1>3, <2>1, <3>1 DEF ScanIsSound
    <3>3. QED  BY <2>1, <3>2 DEF ListIsSound
  <2>2. CASE op = "list" /\ sBackend # "memory"
    <3>1. \A l \in Keys : ~Given(new, l) /\ ~GoesOnFrom(new, l)
      BY <1>3, <2>2 DEF Given, GoesOnFrom
    <3>02. DOMAIN new.listed = {} /\ DOMAIN new.entries = {} /\ new.step = "sent" /\ new.always \subseteq Keys
      BY <1>2, <1>3, <2>2
    <3>2. PagesAreSound(new)
      BY <1>3, <3>1, <3>02 DEF PagesAreSound
    <3>3. QED  BY <1>3, <2>2, <3>2 DEF ListIsSound
  <2>3. CASE op # "list"
    BY <1>3, <2>3 DEF ListIsSound
  <2>4. QED  BY <2>1, <2>2, <2>3
<1>7. /\ Store!NoAnswer \in StoreAnswers /\ AnswerIsSound(Store!NoAnswer, new, sBackend)
      /\ new.metadata <= puts
  BY <1>3 DEF Store!NoAnswer, StoreAnswers, AnswerIsSound, StoreInv, StoreType
<1>8. QED  BY <1>1, <1>4, <1>5, <1>6, <1>7, StoreCall

\* A call is answered, and over.
LEMMA StoreCallAnswered ==
    ASSUME StoreInv, sBackend \in Store!Backends, NEW c \in Callers, NEW ans \in StoreAnswers,
           sAnswer' = [sAnswer EXCEPT ![c] = ans], UNCHANGED <<sBackend, objects, slots, puts>>,
           sCall' = [sCall EXCEPT ![c] = Store!Idle],
           ans.kind = "found" => IF sBackend = "gcs" THEN ans.body >= ans.metadata ELSE ans.body = ans.metadata
    PROVE  StoreInv'
<1>1. /\ Store!Idle \in StoreCalls /\ CallIsSound(Store!Idle, sBackend, objects)
      /\ ListIsSound(Store!Idle, sBackend, slots)
  <2>1. objects \in [Keys -> Nat] /\ slots \in Seq(Keys \cup {0})
    BY DEF StoreInv, StoreType
  <2>2. QED  BY <2>1, IdleIsSound
<1>2. Store!Idle.metadata <= puts /\ AnswerIsSound(ans, Store!Idle, sBackend)
  BY DEF Store!Idle, Store!Backends, AnswerIsSound, StoreInv, StoreType
<1>3. QED  BY <1>1, <1>2, StoreCall

\* A call is over with the answer it had.
LEMMA StoreCallOver ==
    ASSUME StoreInv, sBackend \in Store!Backends, NEW c \in Callers, UNCHANGED <<sBackend, objects, slots, puts, sAnswer>>,
           sCall' = [sCall EXCEPT ![c] = Store!Idle]
    PROVE  StoreInv'
<1>1. sAnswer' = [sAnswer EXCEPT ![c] = sAnswer[c]] /\ sAnswer[c] \in StoreAnswers
  BY DEF StoreInv, StoreType
<1>2. sAnswer[c].kind = "found" => IF sBackend = "gcs" THEN sAnswer[c].body >= sAnswer[c].metadata
                                   ELSE sAnswer[c].body = sAnswer[c].metadata
  BY DEF StoreInv, AnswerIsSound
<1>3. QED  BY <1>1, <1>2, StoreCallAnswered

\* What get and head find, when it is one request.
LEMMA FoundIsSound ==
    ASSUME StoreInv, NEW c \in Callers, NEW k \in Keys, Store!Finds(c, k)
    PROVE  \E ans \in StoreAnswers :
              /\ sAnswer' = [sAnswer EXCEPT ![c] = ans]
              /\ ans.kind = "found" => ans.body = ans.metadata
              /\ ans.kind = "missing" => objects[k] = 0
<1>1. objects[k] \in Nat
  BY DEF StoreInv, StoreType
<1> DEFINE a == [kind |-> "missing", metadata |-> 0, body |-> 0]
           b == [kind |-> "found", metadata |-> objects[k], body |-> objects[k]]
<1>2. a \in StoreAnswers /\ b \in StoreAnswers
  BY <1>1 DEF StoreAnswers
<1>3. CASE objects[k] = 0
  BY <1>2, <1>3 DEF Store!Finds, Store!Answers
<1>4. CASE objects[k] # 0
  BY <1>2, <1>4 DEF Store!Finds, Store!Answers
<1>5. QED  BY <1>3, <1>4

\* In memory a call is over at once.
LEMMA FoundAtOnce ==
    ASSUME StoreInv, sBackend = "memory", NEW c \in Callers, NEW k \in Keys, Store!Finds(c, k), Store!Free(c),
           UNCHANGED <<sBackend, objects, slots, puts, sCall>>
    PROVE  StoreInv'
<1>1. PICK ans \in StoreAnswers : /\ sAnswer' = [sAnswer EXCEPT ![c] = ans]
                                  /\ ans.kind = "found" => ans.body = ans.metadata
  BY FoundIsSound
<1>2. sCall' = [sCall EXCEPT ![c] = Store!Idle]
  BY DEF Store!Free, StoreInv, StoreType
<1>3. sBackend \in Store!Backends /\ sBackend # "gcs"
  BY DEF Store!Backends
<1>4. QED  BY <1>1, <1>2, <1>3, StoreCallAnswered

\* A listing goes on.
LEMMA ListGoesOn ==
    ASSUME StoreInv, sBackend \in Store!Backends, NEW c \in Callers, NEW y \in StoreCalls, sCall[c].op = "list",
           sCall' = [sCall EXCEPT ![c] = y], UNCHANGED <<sBackend, objects, slots, puts, sAnswer>>,
           y.op = "list", y.key = sCall[c].key, y.step \in {"pulling", "listed", "sent"}, y.metadata = sCall[c].metadata,
           y.step = "sent" => y.key = 0, y.always = sCall[c].always, y.ever = sCall[c].ever,
           ListIsSound(y, sBackend, slots)
    PROVE  StoreInv'
<1>1. sAnswer' = [sAnswer EXCEPT ![c] = sAnswer[c]] /\ sAnswer[c] \in StoreAnswers
  BY DEF StoreInv, StoreType
<1>2. y.metadata <= puts
  BY DEF StoreInv
<1>3. CallIsSound(y, sBackend, objects)
  <2>1. CallIsSound(sCall[c], sBackend, objects)
    BY DEF StoreInv
  <2>2. y # Store!Idle
    BY DEF Store!Idle
  <2>3. QED  BY <2>1, <2>2 DEF CallIsSound
<1>4. AnswerIsSound(sAnswer[c], y, sBackend)
  BY DEF StoreInv, AnswerIsSound, Store!Backends
<1>5. QED  BY <1>1, <1>2, <1>3, <1>4, StoreCall

\* What is known of a listing that is under way.
LEMMA ListFacts ==
    ASSUME StoreInv, NEW c \in Callers,
           sCall[c].step \in {"pulling", "listed"} \/ (sCall[c].step = "sent" /\ sCall[c].op = "list")
    PROVE  /\ sCall[c] \in StoreCalls /\ sCall[c].op = "list" /\ sBackend # "none"
           /\ CallIsSound(sCall[c], sBackend, objects) /\ ListIsSound(sCall[c], sBackend, slots)
           /\ \A k \in sCall[c].always : objects[k] # 0
           /\ \A k \in Keys : objects[k] # 0 => k \in sCall[c].ever
           /\ sCall[c].step = "sent" => sCall[c].key = 0
<1>1. sCall[c] \in StoreCalls /\ CallIsSound(sCall[c], sBackend, objects) /\ ListIsSound(sCall[c], sBackend, slots)
  BY DEF StoreInv, StoreType
<1>2. sCall[c].op = "list" /\ (sCall[c].step = "sent" => sCall[c].key = 0)
  BY <1>1 DEF CallIsSound
<1>3. QED  BY <1>1, <1>2 DEF CallIsSound

\* The caller pulls.
LEMMA StorePulls == ASSUME StoreInv, sBackend \in Store!Backends, NEW c \in Callers, Store!Pulls(c) PROVE StoreInv'
<1> DEFINE x == sCall[c]
<1>1. /\ x \in StoreCalls /\ x.op = "list" /\ CallIsSound(x, sBackend, objects)
      /\ ListIsSound(x, sBackend, slots) /\ x.step = "pulling"
      /\ \A k \in Keys : objects[k] # 0 => k \in x.ever
      /\ UNCHANGED <<sBackend, objects, slots, puts, sAnswer>>
  BY ListFacts DEF Store!Pulls
<1>2. ASSUME Store!listMemory(c) PROVE StoreInv'
  <2> DEFINE rest == {i \in DOMAIN slots : i > x.position /\ slots[i] # 0}
             next == CHOOSE i \in rest : \A j \in rest : i <= j
  <2>1. sBackend = "memory" /\ ScanIsSound(x, slots) /\ slots \in Seq(Keys \cup {0}) /\ x.position \in Nat
        /\ x.listed \in Seq(Keys)
    BY <1>1, <1>2 DEF Store!listMemory, ListIsSound, StoreCalls, StoreInv, StoreType
  <2>2. sCall' = IF rest = {} THEN [sCall EXCEPT ![c].step = "listed"]
                 ELSE [sCall EXCEPT ![c].position = next, ![c].listed = Append(@, slots[next])]
    BY <1>2 DEF Store!listMemory
  <2>3. CASE rest = {}
    <3> DEFINE y == [x EXCEPT !.step = "listed"]
    <3>1. /\ y \in StoreCalls /\ y.op = x.op /\ y.key = x.key /\ y.step = "listed" /\ y.listed = x.listed
          /\ y.position = x.position /\ y.always = x.always /\ y.ever = x.ever /\ y.metadata = x.metadata
      BY <1>1 DEF StoreCalls
    <3>2. sCall' = [sCall EXCEPT ![c] = y]
      BY <2>2, <2>3
    <3>3. \A i \in DOMAIN slots : slots[i] \in x.always => i <= x.position
      <4>1. \A i \in DOMAIN slots : i \in Nat /\ (i <= x.position \/ slots[i] = 0)
        BY <2>1, <2>3
      <4>2. 0 \notin x.always
        BY <1>1 DEF StoreCalls
      <4>3. QED  BY <4>1, <4>2
    <3> HIDE DEF x, y, rest
    <3>4. ScanIsSound(y, slots)
      BY <2>1, <3>1, <3>3 DEF ScanIsSound
    <3>5. ListIsSound(y, sBackend, slots)
      BY <2>1, <3>4 DEF ListIsSound
    <3>6. QED  BY <1>1, <3>1, <3>2, <3>5, ListGoesOn DEF x
  <2>4. CASE rest # {}
    <3>1. IsNextSlot(next, slots, x.position)
      <4>1. rest \in SUBSET Nat
        BY <2>1
      <4> HIDE DEF rest
      <4>2. next \in rest /\ \A j \in rest : next <= j
        BY <2>4, <4>1, LeastOfSome
      <4> HIDE DEF next
      <4>3. QED  BY <2>1, <4>2 DEF rest, IsNextSlot
    <3>2. sCall' = [sCall EXCEPT ![c].position = next, ![c].listed = Append(@, slots[next])]
      BY <2>2, <2>4
    <3> HIDE DEF next, rest
    <3>3. slots[next] \in Keys /\ next \in Nat
      BY <2>1, <3>1 DEF IsNextSlot, StoreInv, StoreType
    <3> DEFINE y == [x EXCEPT !.position = next, !.listed = Append(x.listed, slots[next])]
    <3>4. sCall' = [sCall EXCEPT ![c] = y]
      BY <3>2
    <3>5. Append(x.listed, slots[next]) \in Seq(Keys)
      BY <2>1, <3>3
    <3>6. /\ y \in StoreCalls /\ y.op = x.op /\ y.key = x.key /\ y.step = "pulling" /\ y.position = next
          /\ y.listed = Append(x.listed, slots[next]) /\ y.always = x.always /\ y.ever = x.ever
          /\ y.metadata = x.metadata
      BY <1>1, <3>3, <3>5 DEF StoreCalls
    <3>7. objects \in [Keys -> Nat] /\ MapIsSound(slots, objects)
      BY DEF StoreInv, StoreType
    <3> HIDE DEF x, y
    <3>8. ScanIsSound(y, slots)
      BY <1>1, <2>1, <3>1, <3>3, <3>6, <3>7, SlotTaken
    <3>9. ListIsSound(y, sBackend, slots)
      BY <2>1, <3>8 DEF ListIsSound
    <3>10. QED  BY <1>1, <3>4, <3>6, <3>9, ListGoesOn DEF x
  <2>5. QED  BY <2>3, <2>4
<1>3. ASSUME sBackend # "memory", x.entries # <<>>,
             sCall' = [sCall EXCEPT ![c].entries = Tail(@), ![c].listed = Append(@, Head(sCall[c].entries))]
      PROVE  StoreInv'
  <2> DEFINE y == [x EXCEPT !.entries = Tail(x.entries), !.listed = Append(x.listed, Head(x.entries))]
  <2>1. PagesAreSound(x) /\ (sBackend = "indexeddb" => x.position = 0)
    BY <1>1, <1>3 DEF ListIsSound
  <2>2. sCall' = [sCall EXCEPT ![c] = y]
    BY <1>3
  <2>3. Tail(x.entries) \in Seq(Keys) /\ Append(x.listed, Head(x.entries)) \in Seq(Keys)
    <3>1. x.entries \in Seq(Keys) /\ x.listed \in Seq(Keys)
      BY <1>1 DEF StoreCalls
    <3>2. QED  BY <1>3, <3>1
  <2>4. /\ y \in StoreCalls /\ y.op = x.op /\ y.key = x.key /\ y.step = "pulling" /\ y.position = x.position
        /\ y.entries = Tail(x.entries) /\ y.listed = Append(x.listed, Head(x.entries))
        /\ y.always = x.always /\ y.ever = x.ever /\ y.metadata = x.metadata
    BY <1>1, <2>3 DEF StoreCalls
  <2> HIDE DEF x, y
  <2>5. PagesAreSound(y)
    BY <1>1, <1>3, <2>1, <2>4, EntryTaken
  <2>6. ListIsSound(y, sBackend, slots)
    BY <1>3, <2>1, <2>4, <2>5 DEF ListIsSound
  <2>7. QED  BY <1>1, <2>2, <2>4, <2>6, ListGoesOn DEF x
<1>4. ASSUME sBackend # "memory", x.entries = <<>>,
             sCall' = [sCall EXCEPT ![c].step = IF sCall[c].position = 0 THEN "listed" ELSE "sent"]
      PROVE  StoreInv'
  <2> DEFINE y == [x EXCEPT !.step = IF x.position = 0 THEN "listed" ELSE "sent"]
  <2>1. PagesAreSound(x) /\ (sBackend = "indexeddb" => x.position = 0)
    BY <1>1, <1>4 DEF ListIsSound
  <2>2. sCall' = [sCall EXCEPT ![c] = y]
    BY <1>4
  <2>3. /\ y \in StoreCalls /\ y.op = x.op /\ y.key = x.key /\ y.position = x.position
        /\ y.step = (IF x.position = 0 THEN "listed" ELSE "sent")
        /\ y.entries = x.entries /\ y.listed = x.listed /\ y.always = x.always /\ y.ever = x.ever
        /\ y.metadata = x.metadata
    BY <1>1 DEF StoreCalls
  <2>4. x.key = 0
    BY <1>1 DEF CallIsSound
  <2> HIDE DEF x, y
  <2>5. \A k \in Keys : (Given(y, k) <=> Given(x, k)) /\ (GoesOnFrom(y, k) <=> GoesOnFrom(x, k))
    BY <1>1, <2>3 DEF Given, GoesOnFrom
  <2>6. PagesAreSound(y)
    <3>1. x.always \subseteq Keys
      BY <1>1 DEF StoreCalls
    <3>2. QED  BY <1>4, <2>1, <2>3, <2>5, <3>1 DEF PagesAreSound
  <2>7. ListIsSound(y, sBackend, slots)
    BY <1>4, <2>1, <2>3, <2>6 DEF ListIsSound
  <2>8. QED  BY <1>1, <2>2, <2>3, <2>4, <2>7, ListGoesOn DEF x
<1>5. QED  BY <1>2, <1>3, <1>4 DEF Store!Pulls

\* A page has what comes next of what is there, up to the token it leaves.
LEMMA PageFacts ==
    ASSUME NEW there \in SUBSET Keys, NEW from \in Nat, NEW left, left = {k \in there : k > from},
           NEW rest \in Store!Sorted(left),
           NEW page, page = SubSeq(rest, 1, IF Len(rest) > PageSize THEN PageSize ELSE Len(rest)),
           NEW token, token = IF Len(rest) > PageSize THEN rest[PageSize] ELSE 0
    PROVE  page \in Seq(Keys) /\ token \in Nat /\ IsPage(page, there, from, token)
<1>1. left \in SUBSET Keys /\ \A k \in there : k \in left <=> from < k
  OBVIOUS
<1>2. \A k \in left : k \in there /\ k \in Nat /\ k \in Keys /\ k # 0 /\ from < k
  OBVIOUS
<1>4. PICK n \in Nat : /\ n = Len(rest) /\ rest \in Seq(Keys) /\ DOMAIN rest = 1..n
                       /\ \A i \in 1..n : rest[i] \in left
                       /\ \A k \in left : \E i \in 1..n : rest[i] = k
                       /\ \A i, j \in 1..n : i < j => rest[i] < rest[j]
  BY <1>1, SortedFacts
<1>5. PICK size \in 0..n : \/ n > PageSize /\ size = PageSize /\ size \in 1..n
                           \/ n <= PageSize /\ size = n
  OBVIOUS
<1>6. page = SubSeq(rest, 1, size) /\ token = IF n > PageSize THEN rest[size] ELSE 0
  BY <1>4, <1>5
<1>7. page \in Seq(Keys) /\ DOMAIN page = 1..size /\ \A i \in 1..size : page[i] = rest[i]
  <2>1. \A i \in 1..size : rest[i] \in Keys
    BY <1>2, <1>4, <1>5
  <2>2. QED  BY <1>4, <1>5, <1>6, <2>1
<1>8. \A i \in 1..size : /\ i \in 1..n /\ page[i] = rest[i] /\ page[i] \in there /\ page[i] \in Nat
                         /\ from < page[i] /\ (i < size => page[i] < rest[size])
  <2> SUFFICES ASSUME NEW i \in 1..size
               PROVE  /\ i \in 1..n /\ page[i] = rest[i] /\ page[i] \in there /\ page[i] \in Nat
                      /\ from < page[i] /\ (i < size => page[i] < rest[size])
    OBVIOUS
  <2>1. i \in 1..n /\ size \in 1..n
    BY <1>5
  <2>2. page[i] = rest[i] /\ rest[i] \in left
    BY <1>4, <1>7, <2>1
  <2>3. i < size => rest[i] < rest[size]
    BY <1>4, <2>1
  <2>4. QED  BY <1>2, <2>1, <2>2, <2>3
<1>9. CASE n > PageSize
  <2>1. size \in 1..n /\ token = rest[size] /\ token \in Nat /\ token # 0 /\ from < token
    <3>1. size \in 1..n /\ token = rest[size]
      BY <1>5, <1>6, <1>9
    <3>2. rest[size] \in left
      BY <1>4, <3>1
    <3>3. QED  BY <1>2, <3>1, <3>2
  <2>2. \A i \in 1..size : page[i] <= token
    <3> SUFFICES ASSUME NEW i \in 1..size PROVE page[i] <= token
      OBVIOUS
    <3>1. i < size \/ i = size
      BY <2>1
    <3>2. QED  BY <1>8, <2>1, <3>1
  <2>3. ASSUME NEW k \in there, from < k, k <= token PROVE \E i \in 1..size : page[i] = k
    <3>1. k \in left /\ k \in Nat
      BY <1>1, <1>2, <2>3
    <3>2. PICK i \in 1..n : rest[i] = k
      BY <1>4, <3>1
    <3>3. ~(size < i)
      BY <1>4, <2>1, <2>3, <3>1, <3>2
    <3>4. i \in 1..size
      BY <2>1, <3>3
    <3>5. QED  BY <1>8, <3>2, <3>4
  <2>4. \A i, j \in 1..size : i < j => page[i] < page[j]
    BY <1>4, <1>8
  <2>5. QED  BY <1>7, <1>8, <2>1, <2>2, <2>3, <2>4 DEF IsPage
<1>10. CASE n <= PageSize
  <2>1. token = 0 /\ size = n
    BY <1>5, <1>6, <1>10
  <2>2. \A i, j \in 1..size : i < j => page[i] < page[j]
    BY <1>4, <1>8
  <2>3. \A k \in there : from < k => \E i \in 1..size : page[i] = k
    BY <1>1, <1>4, <1>8, <2>1
  <2>4. token \in Nat
    BY <2>1
  <2>5. QED  BY <1>7, <1>8, <2>1, <2>2, <2>3, <2>4 DEF IsPage
<1>11. QED  BY <1>9, <1>10

\* A page is given out, or all there is.
LEMMA StoreLists ==
    ASSUME StoreInv, NEW c \in Callers, sCall[c].step = "sent", sCall[c].op = "list",
           UNCHANGED <<sBackend, objects, slots, puts, sAnswer>>,
           Store!listIndexedDB(c) \/ Store!listS3(c) \/ Store!listGcs(c)
    PROVE  StoreInv'
<1> DEFINE x == sCall[c]
           there == Store!Present
           Goes(page, token) == [x EXCEPT !.entries = page, !.step = "pulling", !.position = token]
<1>1. /\ x \in StoreCalls /\ x.op = "list" /\ x.step = "sent" /\ x.key = 0
      /\ sBackend \in Store!Backends /\ sBackend # "memory"
      /\ PagesAreSound(x) /\ (sBackend = "indexeddb" => x.position = 0)
      /\ there \in SUBSET Keys /\ x.always \subseteq there /\ there \subseteq x.ever /\ x.position \in Nat
  <2>1. sBackend \in Store!Backends /\ sBackend # "memory"
    BY DEF Store!listIndexedDB, Store!listS3, Store!listGcs, Store!Backends
  <2>2. x \in StoreCalls /\ x.key = 0 /\ ListIsSound(x, sBackend, slots)
    BY ListFacts
  <2>3. x.always \subseteq there /\ there \subseteq x.ever /\ x.position \in Nat /\ there \in SUBSET Keys
    BY ListFacts DEF StoreCalls, Store!Present
  <2>4. QED  BY <2>1, <2>2, <2>3 DEF ListIsSound
<1>2. ASSUME NEW page \in Seq(Keys), NEW token \in Nat, sCall' = [sCall EXCEPT ![c] = Goes(page, token)],
             IsPage(page, there, x.position, token), sBackend = "indexeddb" => token = 0
      PROVE  StoreInv'
  <2> DEFINE y == Goes(page, token)
  <2>1. /\ y \in StoreCalls /\ y.op = x.op /\ y.key = x.key /\ y.step = "pulling" /\ y.entries = page
        /\ y.position = token /\ y.listed = x.listed /\ y.always = x.always /\ y.ever = x.ever
        /\ y.metadata = x.metadata
    BY <1>1 DEF StoreCalls
  <2>2. sCall' = [sCall EXCEPT ![c] = y]
    BY <1>2
  <2> HIDE DEF x, y, there
  <2>3. PagesAreSound(y)
    BY <1>1, <1>2, <2>1, PageGivenOut
  <2>4. ListIsSound(y, sBackend, slots)
    BY <1>1, <1>2, <2>1, <2>3 DEF ListIsSound
  <2>5. QED  BY <1>1, <2>1, <2>2, <2>4, ListGoesOn DEF x
<1>3. CASE Store!listIndexedDB(c)
  <2>1. PICK all \in Store!Sorted(there) :
           sCall' = [sCall EXCEPT ![c].entries = all, ![c].position = 0, ![c].step = "pulling"]
    BY <1>3 DEF Store!listIndexedDB
  <2>2. sCall' = [sCall EXCEPT ![c] = Goes(all, 0)]
    BY <2>1
  <2>3. all \in Seq(Keys) /\ 0 \in Nat
    BY <1>1, SortedFacts
  <2>4. IsPage(all, there, x.position, 0)
    <3>01. sBackend = "indexeddb"
      BY <1>3 DEF Store!listIndexedDB
    <3>02. \A k \in Keys : 0 < k
      OBVIOUS
    <3> HIDE DEF x, there
    <3>1. x.position = 0 /\ \A k \in there : 0 < k
      BY <1>1, <3>01, <3>02
    <3>2. /\ \A i \in DOMAIN all : all[i] \in there
          /\ \A k \in there : \E i \in DOMAIN all : all[i] = k
          /\ \A i, j \in DOMAIN all : i < j => all[i] < all[j]
      BY <1>1, SortedFacts
    <3>3. QED  BY <3>1, <3>2 DEF IsPage
  <2> HIDE DEF x, there, Goes
  <2>5. QED  BY <1>2, <2>2, <2>3, <2>4
<1>4. CASE Store!NextPage(c) /\ sBackend # "indexeddb"
  <2> DEFINE left == {k \in there : k > x.position}
  <2>1. PICK rest \in Store!Sorted(left) :
           LET size == IF Len(rest) > PageSize THEN PageSize ELSE Len(rest)
           IN  sCall' = [sCall EXCEPT ![c].entries = SubSeq(rest, 1, size), ![c].step = "pulling",
                                      ![c].position = IF Len(rest) > PageSize THEN rest[PageSize] ELSE 0]
    BY <1>4 DEF Store!NextPage
  <2> DEFINE page == SubSeq(rest, 1, IF Len(rest) > PageSize THEN PageSize ELSE Len(rest))
             token == IF Len(rest) > PageSize THEN rest[PageSize] ELSE 0
  <2>2. sCall' = [sCall EXCEPT ![c] = Goes(page, token)]
    BY <2>1
  <2> HIDE DEF x, there, Goes
  <2>3. left = {k \in there : k > x.position}
    OBVIOUS
  <2> HIDE DEF left
  <2>4. /\ page = SubSeq(rest, 1, IF Len(rest) > PageSize THEN PageSize ELSE Len(rest))
        /\ token = IF Len(rest) > PageSize THEN rest[PageSize] ELSE 0
    OBVIOUS
  <2> HIDE DEF page, token
  <2>5. page \in Seq(Keys) /\ token \in Nat /\ IsPage(page, there, x.position, token)
    BY <1>1, <2>3, <2>4, PageFacts
  <2>6. QED  BY <1>2, <1>4, <2>2, <2>5
<1>5. QED  BY <1>3, <1>4 DEF Store!listS3, Store!listGcs

\* Serves, ServesBody and Fails: the service does what was asked for, or not.
LEMMA RequestOver ==
    ASSUME StoreInv, sBackend \in Store!Backends, NEW c \in Callers, sCall[c].step \in {"sent", "reading"},
           UNCHANGED <<sBackend, sAnswer>>,
           \/ Store!Unstored /\ sCall' = [sCall EXCEPT ![c] = Store!Idle]
           \/ /\ sCall[c].op = "put" /\ Store!Stores(sCall[c].key)
              /\ sCall' = [Store!Noted({sCall[c].key}, {}) EXCEPT ![c] = Store!Idle]
           \/ /\ sCall[c].op = "delete" /\ Store!Removes(sCall[c].key)
              /\ sCall' = [Store!Noted({}, {sCall[c].key}) EXCEPT ![c] = Store!Idle]
    PROVE  StoreInv'
<1> DEFINE k == sCall[c].key
<1>1. sCall[c].op \in {"put", "get", "head", "delete"} => k \in Keys
  BY DEF StoreInv, CallIsSound
<1>2. CASE Store!Unstored /\ sCall' = [sCall EXCEPT ![c] = Store!Idle]
  BY <1>2, StoreCallOver DEF Store!Unstored
<1>3. CASE /\ sCall[c].op = "put" /\ Store!Stores(k)
           /\ sCall' = [Store!Noted({k}, {}) EXCEPT ![c] = Store!Idle]
  <2>1. k \in Keys
    BY <1>1, <1>3
  <2> HIDE DEF k
  <2>2. QED  BY <1>3, <2>1, ObjectStored
<1>4. CASE /\ sCall[c].op = "delete" /\ Store!Removes(k)
           /\ sCall' = [Store!Noted({}, {k}) EXCEPT ![c] = Store!Idle]
  <2>1. k \in Keys
    BY <1>1, <1>4
  <2> HIDE DEF k
  <2>2. QED  BY <1>4, <2>1, ObjectRemoved
<1>5. QED  BY <1>2, <1>3, <1>4

LEMMA StoreServes == ASSUME StoreInv, sBackend \in Store!Backends, NEW c \in Callers, Store!Serves(c) PROVE StoreInv'
<1> DEFINE x == sCall[c]
<1>1. /\ x \in StoreCalls /\ x.step = "sent" /\ CallIsSound(x, sBackend, objects) /\ UNCHANGED sBackend
      /\ x.metadata <= puts /\ AnswerIsSound(sAnswer[c], x, sBackend)
  BY DEF Store!Serves, StoreInv, StoreType
<1>2. x.op \in {"get", "head"} => x.key \in Keys
  BY <1>1 DEF CallIsSound
<1>3. CASE \/ /\ x.op = "put" /\ Store!Stores(x.key) /\ UNCHANGED sAnswer
              /\ sCall' = [Store!Noted({x.key}, {}) EXCEPT ![c] = Store!Idle]
           \/ /\ x.op = "delete" /\ Store!Removes(x.key) /\ UNCHANGED sAnswer
              /\ sCall' = [Store!Noted({}, {x.key}) EXCEPT ![c] = Store!Idle]
  BY <1>1, <1>3, RequestOver
<1>4. CASE /\ x.op = "get" /\ sBackend = "gcs" /\ objects[x.key] # 0 /\ Store!Unstored
           /\ sCall' = [sCall EXCEPT ![c].step = "body", ![c].metadata = objects[sCall[c].key]]
           /\ UNCHANGED sAnswer
  <2>1. PICK m \in Nat : m = objects[x.key] /\ m <= puts
    BY <1>2, <1>4 DEF StoreInv, StoreType
  <2> DEFINE y == [x EXCEPT !.step = "body", !.metadata = m]
  <2>2. sCall' = [sCall EXCEPT ![c] = y] /\ sAnswer' = [sAnswer EXCEPT ![c] = sAnswer[c]]
        /\ sAnswer[c] \in StoreAnswers
    BY <1>4, <2>1 DEF StoreInv, StoreType
  <2>3. /\ y \in StoreCalls /\ y.op = "get" /\ y.key = x.key /\ y.step = "body" /\ y.metadata = m
        /\ y.always = x.always /\ y.ever = x.ever
    BY <1>1, <1>4 DEF StoreCalls
  <2> HIDE DEF x, y
  <2>4. y # Store!Idle
    BY <2>3 DEF Store!Idle
  <2>5. CallIsSound(y, sBackend, objects)
    <3>1. x.op = "get" /\ x.op # "none"
      BY <1>4
    <3>2. QED  BY <1>1, <1>4, <2>1, <2>3, <2>4, <3>1 DEF CallIsSound
  <2>6. ListIsSound(y, sBackend, slots) /\ AnswerIsSound(sAnswer[c], y, sBackend) /\ y.metadata <= puts
    BY <1>1, <1>4, <2>1, <2>3 DEF ListIsSound, AnswerIsSound
  <2>7. QED  BY <1>1, <1>4, <2>2, <2>3, <2>5, <2>6, StoreCall DEF Store!Unstored
<1>5. CASE x.op \in {"get", "head"} /\ Store!Finds(c, x.key) /\ Store!Unstored /\ Store!Done(c)
  <2>1. PICK ans \in StoreAnswers : /\ sAnswer' = [sAnswer EXCEPT ![c] = ans]
                                    /\ ans.kind = "found" => ans.body = ans.metadata
    BY <1>2, <1>5, FoundIsSound
  <2>2. ans.kind = "found" => IF sBackend = "gcs" THEN ans.body >= ans.metadata ELSE ans.body = ans.metadata
    BY <2>1 DEF StoreAnswers
  <2>3. QED  BY <1>1, <1>5, <2>1, <2>2, StoreCallAnswered DEF Store!Done, Store!Unstored
<1>6. CASE /\ x.op = "list" /\ Store!Unstored /\ UNCHANGED sAnswer
           /\ Store!listIndexedDB(c) \/ Store!listS3(c) \/ Store!listGcs(c)
  BY <1>1, <1>6, StoreLists DEF Store!Unstored
<1>7. QED  BY <1>3, <1>4, <1>5, <1>6 DEF Store!Serves

LEMMA StoreServesBody ==
    ASSUME StoreInv, sBackend \in Store!Backends, NEW c \in Callers, Store!ServesBody(c) PROVE StoreInv'
<1> DEFINE x == sCall[c]
           a == [kind |-> "failed", metadata |-> x.metadata, body |-> 0]
           b == [kind |-> "found", metadata |-> x.metadata, body |-> objects[x.key]]
<1>1. /\ x \in StoreCalls /\ sBackend = "gcs" /\ x.key \in Keys /\ objects[x.key] \in Nat
      /\ objects[x.key] # 0 => x.metadata <= objects[x.key]
  <2>1. x \in StoreCalls /\ CallIsSound(x, sBackend, objects) /\ x.step = "body"
    BY DEF Store!ServesBody, StoreInv, StoreType
  <2>2. x.key \in Keys /\ sBackend = "gcs" /\ (objects[x.key] # 0 => x.metadata <= objects[x.key])
    BY <2>1 DEF CallIsSound
  <2>3. QED  BY <2>1, <2>2 DEF StoreInv, StoreType
<1>2. a \in StoreAnswers /\ b \in StoreAnswers
  BY <1>1 DEF StoreAnswers, StoreCalls
<1>3. /\ sCall' = [sCall EXCEPT ![c] = Store!Idle] /\ UNCHANGED <<sBackend, objects, slots, puts>>
      /\ sAnswer' = [sAnswer EXCEPT ![c] = IF objects[x.key] = 0 THEN a ELSE b]
  BY DEF Store!ServesBody, Store!Done, Store!Unstored, Store!Answers
<1>4. a.kind # "found" /\ b.body = objects[x.key] /\ b.metadata = x.metadata
  OBVIOUS
<1>5. x.metadata \in Nat
  BY <1>1 DEF StoreCalls
<1> HIDE DEF a, b, x
<1>6. CASE objects[x.key] = 0
  BY <1>2, <1>3, <1>4, <1>6, StoreCallAnswered
<1>7. CASE objects[x.key] # 0
  <2>1. b.body >= b.metadata
    BY <1>1, <1>4, <1>5, <1>7
  <2>2. QED  BY <1>1, <1>2, <1>3, <1>7, <2>1, StoreCallAnswered
<1>8. QED  BY <1>6, <1>7

\* The calls of a storage.
LEMMA StoreConnects == ASSUME StoreInv, Store!connect PROVE StoreInv'
<1>1. /\ sBackend = "none" /\ sBackend' \in Store!Backends
      /\ UNCHANGED <<objects, slots, puts, sCall, sAnswer>>
  BY DEF Store!connect
<1>2. objects \in [Keys -> Nat] /\ slots \in Seq(Keys \cup {0})
  BY DEF StoreInv, StoreType
<1>3. ASSUME NEW c \in Callers
      PROVE  /\ sCall[c] = Store!Idle /\ sAnswer[c].kind = "none" /\ sCall[c].metadata <= puts
  BY <1>1 DEF StoreInv, CallIsSound, AnswerIsSound
<1>4. ASSUME NEW c \in Callers
      PROVE  /\ CallIsSound(sCall[c], sBackend', objects) /\ ListIsSound(sCall[c], sBackend', slots)
             /\ AnswerIsSound(sAnswer[c], sCall[c], sBackend')
  <2>1. CallIsSound(sCall[c], sBackend', objects) /\ ListIsSound(sCall[c], sBackend', slots)
    BY <1>1, <1>2, <1>3, IdleIsSound
  <2>2. AnswerIsSound(sAnswer[c], sCall[c], sBackend')
    BY <1>3 DEF AnswerIsSound
  <2>3. QED  BY <2>1, <2>2
<1>5. StoreType' /\ MapIsSound(slots', objects')
  BY <1>1 DEF StoreInv, StoreType
<1>6. QED  BY <1>1, <1>3, <1>4, <1>5 DEF StoreInv

LEMMA StorePuts == ASSUME StoreInv, sBackend \in Store!Backends, NEW c \in Callers, Store!put(c) PROVE StoreInv'
<1>1. PICK k \in Keys : /\ Store!Free(c) /\ UNCHANGED sBackend
                        /\ \/ Store!putMemory(c, k) \/ Store!putIndexedDB(c, k)
                           \/ Store!putS3(c, k) \/ Store!putGcs(c, k)
  BY DEF Store!put
<1>2. CASE Store!Stores(k) /\ sCall' = Store!Noted({k}, {}) /\ UNCHANGED sAnswer
  BY <1>1, <1>2, ObjectStored
<1>3. CASE /\ Store!Unstored
           /\ Store!Begins(c, "put", k, "reading") \/ Store!Begins(c, "put", k, "sent")
  BY <1>1, <1>3, StoreBegins DEF Store!Unstored
<1>4. QED  BY <1>1, <1>2, <1>3 DEF Store!putMemory, Store!putIndexedDB, Store!putS3, Store!putGcs

LEMMA StoreReads ==
    ASSUME StoreInv, sBackend \in Store!Backends, NEW c \in Callers, Store!bytesFromStream(c) \/ Store!readStream(c)
    PROVE  StoreInv'
<1>1. /\ sCall[c].step = "reading" /\ sCall[c].op = "put" /\ sCall[c].key \in Keys /\ sCall[c] \in StoreCalls
      /\ CallIsSound(sCall[c], sBackend, objects) /\ sCall[c].metadata <= puts
      /\ UNCHANGED <<sBackend, sAnswer>>
  <2>1. sCall[c].step = "reading" /\ UNCHANGED <<sBackend, sAnswer>>
    BY DEF Store!bytesFromStream, Store!readStream
  <2>2. /\ CallIsSound(sCall[c], sBackend, objects) /\ sCall[c] \in StoreCalls
        /\ sCall[c].metadata <= puts
    BY DEF StoreInv, StoreType
  <2>3. QED  BY <2>1, <2>2 DEF CallIsSound
<1>2. CASE Store!bytesFromStream(c)
  BY <1>1, <1>2, RequestOver DEF Store!bytesFromStream
<1>3. CASE Store!readStream(c)
  <2>1. CASE sCall' = [sCall EXCEPT ![c] = Store!Idle]
    BY <1>3, <2>1, StoreCallOver DEF Store!readStream
  <2>2. CASE sCall' = [sCall EXCEPT ![c].step = "sent"]
    <3> DEFINE x == sCall[c]
               y == [x EXCEPT !.step = "sent"]
    <3>1. /\ sCall' = [sCall EXCEPT ![c] = y] /\ sAnswer' = [sAnswer EXCEPT ![c] = sAnswer[c]]
          /\ sAnswer[c] \in StoreAnswers /\ AnswerIsSound(sAnswer[c], x, sBackend)
      BY <1>1, <2>2 DEF StoreInv, StoreType
    <3>2. /\ y \in StoreCalls /\ y.op = "put" /\ y.key = x.key /\ y.step = "sent" /\ y.metadata = x.metadata
          /\ y.always = x.always /\ y.ever = x.ever
      BY <1>1 DEF StoreCalls
    <3>3. y # Store!Idle /\ y.key # 0
      BY <1>1, <3>2 DEF Store!Idle
    <3> HIDE DEF x, y
    <3>4. CallIsSound(y, sBackend, objects)
      <4>1. x.op = "put" /\ x.op # "none" /\ x.key \in Keys /\ CallIsSound(x, sBackend, objects)
        BY <1>1 DEF x
      <4>2. QED  BY <3>2, <3>3, <4>1 DEF CallIsSound
    <3>5. ListIsSound(y, sBackend, slots) /\ AnswerIsSound(sAnswer[c], y, sBackend) /\ y.metadata <= puts
      <4>1. x.metadata <= puts /\ sBackend # "none"
        BY <1>1 DEF x, Store!Backends
      <4>2. QED  BY <3>1, <3>2, <4>1 DEF ListIsSound, AnswerIsSound
    <3>6. UNCHANGED <<sBackend, objects, slots, puts>>
      BY <1>3 DEF Store!readStream
    <3>7. QED  BY <3>1, <3>2, <3>4, <3>5, <3>6, StoreCall
  <2>3. QED  BY <1>3, <2>1, <2>2 DEF Store!readStream
<1>4. QED  BY <1>2, <1>3

LEMMA StoreGets ==
    ASSUME StoreInv, sBackend \in Store!Backends, NEW c \in Callers, Store!get(c) \/ Store!head(c) PROVE StoreInv'
<1>1. PICK k \in Keys :
         /\ Store!Free(c) /\ Store!Unstored /\ UNCHANGED sBackend
         /\ \/ Store!Begins(c, "get", k, "sent") \/ Store!Begins(c, "head", k, "sent")
            \/ sBackend = "memory" /\ Store!Finds(c, k) /\ UNCHANGED sCall
  BY DEF Store!get, Store!getMemory, Store!getIndexedDB, Store!getS3, Store!getGcs,
         Store!head, Store!headMemory, Store!headIndexedDB, Store!headS3, Store!headGcs
<1>2. CASE Store!Begins(c, "get", k, "sent") \/ Store!Begins(c, "head", k, "sent")
  BY <1>1, <1>2, StoreBegins DEF Store!Unstored
<1>3. CASE sBackend = "memory" /\ Store!Finds(c, k) /\ UNCHANGED sCall
  BY <1>1, <1>3, FoundAtOnce DEF Store!Unstored
<1>4. QED  BY <1>1, <1>2, <1>3

LEMMA StoreDeletes == ASSUME StoreInv, sBackend \in Store!Backends, NEW c \in Callers, Store!delete(c) PROVE StoreInv'
<1>1. PICK k \in Keys :
         /\ UNCHANGED sBackend
         /\ \/ Store!Removes(k) /\ sCall' = Store!Noted({}, {k}) /\ UNCHANGED sAnswer
            \/ Store!Begins(c, "delete", k, "sent") /\ Store!Unstored
  BY DEF Store!delete, Store!deleteMemory, Store!deleteIndexedDB, Store!deleteS3, Store!deleteGcs
<1>2. CASE Store!Removes(k) /\ sCall' = Store!Noted({}, {k}) /\ UNCHANGED sAnswer
  BY <1>1, <1>2, ObjectRemoved
<1>3. CASE Store!Begins(c, "delete", k, "sent") /\ Store!Unstored
  BY <1>1, <1>3, StoreBegins DEF Store!Unstored
<1>4. QED  BY <1>1, <1>2, <1>3

LEMMA StoreEnds == ASSUME StoreInv, Store!end PROVE StoreInv'
<1>1. /\ sBackend \in Store!Backends /\ UNCHANGED <<sBackend, sAnswer, puts>> /\ Keys \in SUBSET Keys
      /\ sCall' = Store!Noted({}, Keys)
  BY DEF Store!end, Store!Backends
<1>2. objects' = [k \in Keys |-> IF k \in Keys THEN 0 ELSE objects[k]]
  BY DEF Store!end
<1>3. slots' = [i \in DOMAIN slots |-> IF slots[i] \in Keys THEN 0 ELSE slots[i]]
  <2>1. \A i \in DOMAIN slots : slots[i] \in Keys \cup {0}
    BY DEF StoreInv, StoreType
  <2>2. slots' = [i \in DOMAIN slots |-> 0]
    BY DEF Store!end
  <2>3. QED  BY <2>1, <2>2
<1>4. QED  BY <1>1, <1>2, <1>3, ObjectsRemoved

\* Without a connector nothing is under way.
LEMMA StoreConnected ==
    ASSUME StoreInv, NEW c \in Callers, Store!Free(c) \/ sCall[c].step # "idle" PROVE sBackend \in Store!Backends
<1>1. sBackend = "none" => sCall[c] = Store!Idle
  BY DEF StoreInv, CallIsSound
<1>2. sBackend # "none"
  BY <1>1 DEF Store!Free, Store!Idle
<1>3. QED  BY <1>2 DEF StoreInv, StoreType

LEMMA StoreStep == StoreInv /\ [Store!Next]_storage => StoreInv'
<1> SUFFICES ASSUME StoreInv, [Store!Next]_storage PROVE StoreInv'
  OBVIOUS
<1>1. CASE UNCHANGED storage
  BY <1>1 DEF storage, StoreInv, StoreType
<1>2. CASE Store!connect \/ Store!end
  BY <1>2, StoreConnects, StoreEnds
<1>3. ASSUME NEW c \in Callers, Store!put(c) \/ Store!get(c) \/ Store!head(c) \/ Store!delete(c) \/ Store!list(c)
      PROVE  StoreInv'
  <2>1. Store!Free(c)
    BY <1>3 DEF Store!put, Store!get, Store!head, Store!delete, Store!list
  <2>2. sBackend \in Store!Backends
    BY <2>1, StoreConnected
  <2>3. CASE Store!list(c)
    BY <2>2, <2>3, StoreBegins DEF Store!list
  <2>4. QED  BY <1>3, <2>2, <2>3, StorePuts, StoreGets, StoreDeletes
<1>4. ASSUME NEW c \in Callers, \/ Store!bytesFromStream(c) \/ Store!readStream(c) \/ Store!Pulls(c)
                                \/ Store!ListEnds(c) \/ Store!Serves(c) \/ Store!ServesBody(c) \/ Store!Fails(c)
      PROVE  StoreInv'
  <2>1. sCall[c].step # "idle"
    BY <1>4 DEF Store!bytesFromStream, Store!readStream, Store!Pulls, Store!ListEnds, Store!Serves,
                Store!ServesBody, Store!Fails
  <2>2. sBackend \in Store!Backends
    BY <2>1, StoreConnected
  <2>3. CASE Store!ListEnds(c)
    BY <2>2, <2>3, StoreCallOver DEF Store!ListEnds
  <2>4. CASE Store!Fails(c)
    BY <2>2, <2>4, RequestOver DEF Store!Fails, Store!Done
  <2>5. QED  BY <1>4, <2>2, <2>3, <2>4, StoreReads, StorePulls, StoreServes, StoreServesBody
<1>5. QED  BY <1>1, <1>2, <1>3, <1>4 DEF Store!Next

\* Who is told that an object is missing has just asked, or found it missing.
LEMMA AnswersMove ==
    ASSUME StoreInv, [Store!Next]_storage
    PROVE  \/ sAnswer' = sAnswer
           \/ \E d \in Callers, ans \in StoreAnswers :
                 /\ sAnswer' = [sAnswer EXCEPT ![d] = ans]
                 /\ ans.kind = "missing" => sCall[d] = Store!Idle \/ objects[sCall[d].key] = 0
<1> DEFINE Told(d, ans) == /\ sAnswer' = [sAnswer EXCEPT ![d] = ans]
                           /\ ans.kind = "missing" => sCall[d] = Store!Idle \/ objects[sCall[d].key] = 0
<1>1. CASE UNCHANGED storage \/ Store!connect \/ Store!end
  BY <1>1 DEF storage, Store!connect, Store!end
<1>2. ASSUME NEW c \in Callers, Store!put(c) \/ Store!get(c) \/ Store!head(c) \/ Store!delete(c) \/ Store!list(c)
      PROVE  sAnswer' = sAnswer \/ \E ans \in StoreAnswers : Told(c, ans)
  <2>1. \/ sAnswer' = sAnswer
        \/ sAnswer' = [sAnswer EXCEPT ![c] = Store!NoAnswer]
        \/ sCall[c] = Store!Idle /\ \E k \in Keys : Store!Finds(c, k)
    BY <1>2 DEF Store!Begins, Store!Free, Store!put, Store!putMemory, Store!putIndexedDB, Store!putS3, Store!putGcs,
                Store!get, Store!getMemory, Store!getIndexedDB, Store!getS3, Store!getGcs,
                Store!head, Store!headMemory, Store!headIndexedDB, Store!headS3, Store!headGcs,
                Store!delete, Store!deleteMemory, Store!deleteIndexedDB, Store!deleteS3, Store!deleteGcs,
                Store!list
  <2>2. Store!NoAnswer \in StoreAnswers /\ Store!NoAnswer.kind # "missing"
    BY DEF Store!NoAnswer, StoreAnswers
  <2>3. CASE sCall[c] = Store!Idle /\ \E k \in Keys : Store!Finds(c, k)
    BY <2>3, FoundIsSound
  <2>4. QED  BY <2>1, <2>2, <2>3
<1>3. ASSUME NEW c \in Callers, \/ Store!bytesFromStream(c) \/ Store!readStream(c) \/ Store!Pulls(c)
                                \/ Store!ListEnds(c) \/ Store!Fails(c)
      PROVE  sAnswer' = sAnswer
  BY <1>3 DEF Store!bytesFromStream, Store!readStream, Store!Pulls, Store!ListEnds, Store!Fails
<1>4. ASSUME NEW c \in Callers, Store!Serves(c)
      PROVE  sAnswer' = sAnswer \/ \E ans \in StoreAnswers : Told(c, ans)
  <2>1. \/ sAnswer' = sAnswer
        \/ sCall[c].op \in {"get", "head"} /\ Store!Finds(c, sCall[c].key)
    BY <1>4 DEF Store!Serves
  <2>2. sCall[c].op \in {"get", "head"} => sCall[c].key \in Keys
    BY DEF StoreInv, CallIsSound
  <2>3. CASE sCall[c].op \in {"get", "head"} /\ Store!Finds(c, sCall[c].key)
    <3> DEFINE k == sCall[c].key
    <3>1. k \in Keys /\ Store!Finds(c, k)
      BY <2>2, <2>3
    <3> HIDE DEF k
    <3>2. PICK ans \in StoreAnswers : /\ sAnswer' = [sAnswer EXCEPT ![c] = ans]
                                      /\ ans.kind = "found" => ans.body = ans.metadata
                                      /\ ans.kind = "missing" => objects[k] = 0
      BY <3>1, FoundIsSound
    <3>3. QED  BY <3>2 DEF k
  <2>4. QED  BY <2>1, <2>3
<1>5. ASSUME NEW c \in Callers, Store!ServesBody(c)
      PROVE  \E ans \in StoreAnswers : Told(c, ans)
  <2> DEFINE x == sCall[c]
             a == [kind |-> "failed", metadata |-> x.metadata, body |-> 0]
             b == [kind |-> "found", metadata |-> x.metadata, body |-> objects[x.key]]
  <2>1. x.metadata \in Nat /\ objects[x.key] \in Nat
    <3>1. x \in StoreCalls /\ CallIsSound(x, sBackend, objects) /\ x.step = "body"
      BY <1>5 DEF Store!ServesBody, StoreInv, StoreType
    <3>2. x.metadata \in Nat /\ x.key \in Keys
      BY <3>1 DEF CallIsSound, StoreCalls
    <3>3. objects \in [Keys -> Nat]
      BY DEF StoreInv, StoreType
    <3> HIDE DEF x
    <3>4. QED  BY <3>2, <3>3
  <2>2. a \in StoreAnswers /\ b \in StoreAnswers /\ a.kind # "missing" /\ b.kind # "missing"
    BY <2>1 DEF StoreAnswers
  <2>3. sAnswer' = [sAnswer EXCEPT ![c] = a] \/ sAnswer' = [sAnswer EXCEPT ![c] = b]
    BY <1>5 DEF Store!ServesBody, Store!Answers
  <2>4. QED  BY <2>2, <2>3
<1>6. QED  BY <1>1, <1>2, <1>3, <1>4, <1>5 DEF Store!Next

\* A listing that has come to its end has what was there all the time.
LEMMA ListHasAll ==
    ASSUME StoreInv, NEW c \in Callers, sCall[c].step = "listed"
    PROVE  /\ \A i \in DOMAIN sCall[c].listed : sCall[c].listed[i] \in sCall[c].ever
           /\ \A k \in sCall[c].always : \E i \in DOMAIN sCall[c].listed : sCall[c].listed[i] = k
           /\ \A i, j \in DOMAIN sCall[c].listed :
                 sCall[c].listed[i] = sCall[c].listed[j] /\ sCall[c].listed[i] \in sCall[c].always => i = j
<1> DEFINE x == sCall[c]
<1>1. /\ x \in StoreCalls /\ x.op = "list" /\ x.step = "listed" /\ ListIsSound(x, sBackend, slots)
      /\ x.always \subseteq Keys /\ x.listed \in Seq(Keys)
      /\ \A k \in x.always : objects[k] # 0
  BY ListFacts DEF StoreCalls
<1>2. \A i \in DOMAIN x.listed : x.listed[i] \in Keys /\ i \in Nat
  BY <1>1
<1>3. MapIsSound(slots, objects) /\ slots \in Seq(Keys \cup {0})
  BY DEF StoreInv, StoreType
<1> HIDE DEF x
<1>4. CASE sBackend = "memory"
  <2>1. ScanIsSound(x, slots)
    BY <1>1, <1>4 DEF ListIsSound
  <2>2. ASSUME NEW k \in x.always PROVE \E i \in DOMAIN x.listed : x.listed[i] = k
    <3>1. PICK i \in DOMAIN slots : slots[i] = k
      BY <1>1, <1>3, <2>2 DEF MapIsSound
    <3>2. QED  BY <1>1, <2>1, <2>2, <3>1 DEF ScanIsSound
  <2>3. QED  BY <2>1, <2>2 DEF ScanIsSound, x
<1>5. CASE sBackend # "memory"
  <2>1. PagesAreSound(x)
    BY <1>1, <1>5 DEF ListIsSound
  <2>2. x.entries = <<>> /\ x.position = 0 /\ \A k \in Keys : GoesOnFrom(x, k)
    BY <1>1, <2>1 DEF PagesAreSound, GoesOnFrom
  <2>3. \A k \in Keys : Given(x, k) <=> \E i \in DOMAIN x.listed : x.listed[i] = k
    BY <2>2 DEF Given
  <2>4. \A k \in x.always : \E i \in DOMAIN x.listed : x.listed[i] = k
    BY <1>1, <2>1, <2>2, <2>3 DEF PagesAreSound
  <2>5. \A i \in DOMAIN x.listed : x.listed[i] \in x.ever
    BY <1>2, <2>1, <2>3 DEF PagesAreSound
  <2>6. ASSUME NEW i \in DOMAIN x.listed, NEW j \in DOMAIN x.listed, x.listed[i] = x.listed[j] PROVE i = j
    <3>1. /\ x.listed[i] \in Nat
          /\ (i < j => x.listed[i] < x.listed[j]) /\ (j < i => x.listed[j] < x.listed[i])
      BY <1>2, <2>1 DEF PagesAreSound
    <3>2. QED  BY <1>2, <2>6, <3>1
  <2>7. QED  BY <2>4, <2>5, <2>6 DEF x
<1>6. QED  BY <1>4, <1>5

\* For any keys, callers and page size, on all four connectors: a list that comes to its end has
\* each object that was there all the time, once, and none that never was, while others are put
\* and deleted between its pages; the body of a get is that of its metadata, or, from GCS, a
\* later one; and an object that is there all through a get or head is found.
THEOREM StoreIsFaithful == MCSpec => StorageIsFaithful
<1>1. MCInit => StoreInv
  BY StoreInit DEF MCInit
<1>2. StoreInv /\ [MCNext]_mcvars => StoreInv'
  BY StoreStep, EachStutters
<1>3. StoreInv => Store!TypeOK /\ Store!ListsWhatIsThere /\ Store!BodyHasItsMetadata
  <2> SUFFICES ASSUME StoreInv PROVE Store!TypeOK /\ Store!ListsWhatIsThere /\ Store!BodyHasItsMetadata
    OBVIOUS
  <2>1. Store!TypeOK
    <3>1. Store!Present = Store!ToSet(slots) \ {0}
      <4>1. MapIsSound(slots, objects)
        BY DEF StoreInv
      <4>2. ASSUME NEW k \in Store!Present PROVE k \in Store!ToSet(slots) \ {0}
        BY <4>1 DEF MapIsSound, Store!Present, Store!ToSet
      <4>3. ASSUME NEW k \in Store!ToSet(slots) \ {0} PROVE k \in Store!Present
        <5>1. PICK i \in DOMAIN slots : slots[i] = k
          BY DEF Store!ToSet
        <5>2. QED  BY <4>1, <5>1 DEF MapIsSound, Store!Present
      <4>4. QED  BY <4>2, <4>3
    <3>2. QED  BY <3>1 DEF StoreInv, StoreType, StoreCalls, StoreAnswers, Store!TypeOK
  <2>2. Store!ListsWhatIsThere
    <3> SUFFICES ASSUME NEW c \in Callers, sCall[c].step = "listed"
                 PROVE  /\ Store!ToSet(sCall[c].listed) \subseteq sCall[c].ever
                        /\ \A k \in sCall[c].always :
                              Store!Cardinality({i \in DOMAIN sCall[c].listed : sCall[c].listed[i] = k}) = 1
      BY DEF Store!ListsWhatIsThere
    <3>1. Store!ToSet(sCall[c].listed) \subseteq sCall[c].ever
      BY ListHasAll DEF Store!ToSet
    <3>2. ASSUME NEW k \in sCall[c].always
          PROVE  Store!Cardinality({i \in DOMAIN sCall[c].listed : sCall[c].listed[i] = k}) = 1
      <4>1. PICK i \in DOMAIN sCall[c].listed : sCall[c].listed[i] = k
        BY ListHasAll
      <4>2. {j \in DOMAIN sCall[c].listed : sCall[c].listed[j] = k} = {i}
        BY <4>1, ListHasAll
      <4>3. Cardinality({i}) = 1
        BY FS_Singleton
      <4>4. \A S : Store!Cardinality(S) = Cardinality(S)
        BY DEF Store!Cardinality, Cardinality
      <4>5. QED  BY <4>2, <4>3, <4>4
    <3>3. QED  BY <3>1, <3>2
  <2>3. Store!BodyHasItsMetadata
    BY DEF StoreInv, AnswerIsSound, Store!BodyHasItsMetadata
  <2>4. QED  BY <2>1, <2>2, <2>3
<1>4. StoreInv /\ [MCNext]_mcvars =>
         [\A c \in Callers : sCall[c].op \in {"get", "head"} /\ sCall[c].key \in sCall[c].always
                                => sAnswer'[c].kind # "missing"]_(Store!vars)
  <2> SUFFICES ASSUME StoreInv, [Store!Next]_storage, ~UNCHANGED Store!vars, NEW c \in Callers,
                      sCall[c].op \in {"get", "head"}, sCall[c].key \in sCall[c].always
               PROVE  sAnswer'[c].kind # "missing"
    BY EachStutters
  <2>1. objects[sCall[c].key] # 0 /\ sAnswer[c].kind = "none" /\ sCall[c] # Store!Idle
    <3>1. /\ CallIsSound(sCall[c], sBackend, objects) /\ AnswerIsSound(sAnswer[c], sCall[c], sBackend)
      BY DEF StoreInv
    <3>2. QED  BY <3>1 DEF CallIsSound, AnswerIsSound
  <2>2. sAnswer \in [Callers -> StoreAnswers]
    BY DEF StoreInv, StoreType
  <2>3. CASE sAnswer' = sAnswer
    BY <2>1, <2>3
  <2>4. ASSUME NEW d \in Callers, NEW ans \in StoreAnswers, sAnswer' = [sAnswer EXCEPT ![d] = ans],
               ans.kind = "missing" => sCall[d] = Store!Idle \/ objects[sCall[d].key] = 0
        PROVE  sAnswer'[c].kind # "missing"
    BY <2>1, <2>2, <2>4
  <2>5. QED  BY <2>3, <2>4, AnswersMove
<1>5. QED  BY <1>1, <1>2, <1>3, <1>4, PTL DEF MCSpec, StorageIsFaithful, Store!OnlyTheMissingAreMissed

-----------------------------------------------------------------------------
(* The event logs.  What EventLogProofs and KafkaLogProofs show of a topic and of a      *)
(* partition with any consumers holds of the instances: a behaviour of this module in   *)
(* which a log runs is a behaviour of that log.                                         *)

LongFacts == INSTANCE EventLogProofs WITH
                 Consumers <- {"first"}, Options <- LogOptions, MaxEvents <- 4
SharedFacts == INSTANCE EventLogProofs WITH
                   Consumers <- {"first", "second"}, Options <- LogOptions, MaxEvents <- 2
KafkaFacts == INSTANCE KafkaLogProofs WITH state <- kState, log <- kLog

\* The operators of the instances are those of the logs.
LEMMA SameLongLog ==
    /\ LongLog!Init <=> LongFacts!Init
    /\ LongLog!Next <=> LongFacts!Next
    /\ LongLog!TypeOK <=> LongFacts!TypeOK
    /\ LongLog!NothingSkipped <=> LongFacts!NothingSkipped
    /\ LongLog!NoEventForgotten <=> LongFacts!NoEventForgotten
    /\ LongLog!CommittedIsProcessed <=> LongFacts!CommittedIsProcessed
<1>1. /\ \A S : LongLog!Cardinality(S) = LongFacts!Cardinality(S)
      /\ \A s, b : LongLog!Send(s, b) = LongFacts!Send(s, b)
      /\ \A s, n : LongLog!Drive(s, n) = LongFacts!Drive(s, n)
      /\ LongLog!NotStarted = LongFacts!NotStarted
  BY DEF LongLog!Cardinality, LongFacts!Cardinality, LongLog!Drive, LongFacts!Drive, LongLog!Send, LongFacts!Send,
         LongLog!HasRoom, LongFacts!HasRoom, LongLog!NotStarted, LongFacts!NotStarted
<1>2. LongLog!Init <=> LongFacts!Init
  BY <1>1 DEF LongLog!Init, LongFacts!Init
<1>3. /\ LongLog!AppendEvent <=> LongFacts!AppendEvent
      /\ LongLog!CloseAdapter <=> LongFacts!CloseAdapter
      /\ LongLog!End <=> LongFacts!End
  BY <1>1 DEF LongLog!AppendEvent, LongFacts!AppendEvent, LongLog!append, LongFacts!append,
              LongLog!CloseAdapter, LongFacts!CloseAdapter, LongLog!End, LongFacts!End
<1>4. \A c : /\ LongLog!GetCommittedCursor(c) <=> LongFacts!GetCommittedCursor(c)
             /\ LongLog!Consume(c) <=> LongFacts!Consume(c)
             /\ LongLog!Commit(c) <=> LongFacts!Commit(c)
  <2>1. \A s, n : LongLog!consume(s, n) = LongFacts!consume(s, n)
    BY <1>1 DEF LongLog!consume, LongFacts!consume
  <2> QED
    BY <2>1 DEF LongLog!GetCommittedCursor, LongFacts!GetCommittedCursor, LongLog!getCursor, LongFacts!getCursor,
                LongLog!Consume, LongFacts!Consume, LongLog!Commit, LongFacts!Commit, LongLog!commitCursor,
                LongFacts!commitCursor
<1>5. \A c : /\ LongLog!Settle(c) <=> LongFacts!Settle(c)
             /\ LongLog!Resume(c) <=> LongFacts!Resume(c)
             /\ LongLog!Take(c) <=> LongFacts!Take(c)
  BY <1>1 DEF LongLog!Settle, LongFacts!Settle, LongLog!Resume, LongFacts!Resume, LongLog!Take, LongFacts!Take
<1>6. \A c : /\ LongLog!Finish(c) <=> LongFacts!Finish(c)
             /\ LongLog!CloseConsumer(c) <=> LongFacts!CloseConsumer(c)
  BY DEF LongLog!Finish, LongFacts!Finish, LongLog!CursorOf, LongFacts!CursorOf,
         LongLog!CloseConsumer, LongFacts!CloseConsumer
<1>7. LongLog!Next <=> LongFacts!Next
  BY <1>3, <1>4, <1>5, <1>6 DEF LongLog!Next, LongFacts!Next
<1>8. LongLog!TypeOK <=> LongFacts!TypeOK
  BY DEF LongLog!TypeOK, LongFacts!TypeOK, LongLog!Batch, LongFacts!Batch
<1>9. LongLog!NothingSkipped <=> LongFacts!NothingSkipped
  BY DEF LongLog!NothingSkipped, LongFacts!NothingSkipped, LongLog!EventsOf, LongFacts!EventsOf,
         LongLog!ToSet, LongFacts!ToSet
<1>10. LongLog!NoEventForgotten <=> LongFacts!NoEventForgotten
  BY DEF LongLog!NoEventForgotten, LongFacts!NoEventForgotten
<1>11. LongLog!CommittedIsProcessed <=> LongFacts!CommittedIsProcessed
  BY DEF LongLog!CommittedIsProcessed, LongFacts!CommittedIsProcessed
<1> QED  BY <1>2, <1>7, <1>8, <1>9, <1>10, <1>11

LEMMA SameSharedLog ==
    /\ SharedLog!Init <=> SharedFacts!Init
    /\ SharedLog!Next <=> SharedFacts!Next
    /\ SharedLog!TypeOK <=> SharedFacts!TypeOK
    /\ SharedLog!NothingSkipped <=> SharedFacts!NothingSkipped
    /\ SharedLog!NoEventForgotten <=> SharedFacts!NoEventForgotten
    /\ SharedLog!CommittedIsProcessed <=> SharedFacts!CommittedIsProcessed
<1>1. /\ \A S : SharedLog!Cardinality(S) = SharedFacts!Cardinality(S)
      /\ \A s, b : SharedLog!Send(s, b) = SharedFacts!Send(s, b)
      /\ \A s, n : SharedLog!Drive(s, n) = SharedFacts!Drive(s, n)
      /\ SharedLog!NotStarted = SharedFacts!NotStarted
  BY DEF SharedLog!Cardinality, SharedFacts!Cardinality, SharedLog!Drive, SharedFacts!Drive, SharedLog!Send, SharedFacts!Send,
         SharedLog!HasRoom, SharedFacts!HasRoom, SharedLog!NotStarted, SharedFacts!NotStarted
<1>2. SharedLog!Init <=> SharedFacts!Init
  BY <1>1 DEF SharedLog!Init, SharedFacts!Init
<1>3. /\ SharedLog!AppendEvent <=> SharedFacts!AppendEvent
      /\ SharedLog!CloseAdapter <=> SharedFacts!CloseAdapter
      /\ SharedLog!End <=> SharedFacts!End
  BY <1>1 DEF SharedLog!AppendEvent, SharedFacts!AppendEvent, SharedLog!append, SharedFacts!append,
              SharedLog!CloseAdapter, SharedFacts!CloseAdapter, SharedLog!End, SharedFacts!End
<1>4. \A c : /\ SharedLog!GetCommittedCursor(c) <=> SharedFacts!GetCommittedCursor(c)
             /\ SharedLog!Consume(c) <=> SharedFacts!Consume(c)
             /\ SharedLog!Commit(c) <=> SharedFacts!Commit(c)
  <2>1. \A s, n : SharedLog!consume(s, n) = SharedFacts!consume(s, n)
    BY <1>1 DEF SharedLog!consume, SharedFacts!consume
  <2> QED
    BY <2>1 DEF SharedLog!GetCommittedCursor, SharedFacts!GetCommittedCursor, SharedLog!getCursor, SharedFacts!getCursor,
                SharedLog!Consume, SharedFacts!Consume, SharedLog!Commit, SharedFacts!Commit, SharedLog!commitCursor,
                SharedFacts!commitCursor
<1>5. \A c : /\ SharedLog!Settle(c) <=> SharedFacts!Settle(c)
             /\ SharedLog!Resume(c) <=> SharedFacts!Resume(c)
             /\ SharedLog!Take(c) <=> SharedFacts!Take(c)
  BY <1>1 DEF SharedLog!Settle, SharedFacts!Settle, SharedLog!Resume, SharedFacts!Resume, SharedLog!Take, SharedFacts!Take
<1>6. \A c : /\ SharedLog!Finish(c) <=> SharedFacts!Finish(c)
             /\ SharedLog!CloseConsumer(c) <=> SharedFacts!CloseConsumer(c)
  BY DEF SharedLog!Finish, SharedFacts!Finish, SharedLog!CursorOf, SharedFacts!CursorOf,
         SharedLog!CloseConsumer, SharedFacts!CloseConsumer
<1>7. SharedLog!Next <=> SharedFacts!Next
  BY <1>3, <1>4, <1>5, <1>6 DEF SharedLog!Next, SharedFacts!Next
<1>8. SharedLog!TypeOK <=> SharedFacts!TypeOK
  BY DEF SharedLog!TypeOK, SharedFacts!TypeOK, SharedLog!Batch, SharedFacts!Batch
<1>9. SharedLog!NothingSkipped <=> SharedFacts!NothingSkipped
  BY DEF SharedLog!NothingSkipped, SharedFacts!NothingSkipped, SharedLog!EventsOf, SharedFacts!EventsOf,
         SharedLog!ToSet, SharedFacts!ToSet
<1>10. SharedLog!NoEventForgotten <=> SharedFacts!NoEventForgotten
  BY DEF SharedLog!NoEventForgotten, SharedFacts!NoEventForgotten
<1>11. SharedLog!CommittedIsProcessed <=> SharedFacts!CommittedIsProcessed
  BY DEF SharedLog!CommittedIsProcessed, SharedFacts!CommittedIsProcessed
<1> QED  BY <1>2, <1>7, <1>8, <1>9, <1>10, <1>11

LEMMA SameKafka ==
    /\ Kafka!Init <=> KafkaFacts!Init
    /\ Kafka!Next <=> KafkaFacts!Next
    /\ Kafka!TypeOK <=> KafkaFacts!TypeOK
    /\ Kafka!CommittedWasGivenOut <=> KafkaFacts!CommittedWasGivenOut
<1>1. /\ Kafka!Nowhere = KafkaFacts!Nowhere /\ Kafka!NoOffset = KafkaFacts!NoOffset
      /\ Kafka!NoHandler = KafkaFacts!NoHandler
      /\ \A S : Kafka!Cardinality(S) = KafkaFacts!Cardinality(S)
      /\ \A S : Kafka!Min(S) = KafkaFacts!Min(S) /\ Kafka!Max(S) = KafkaFacts!Max(S)
  BY DEF Kafka!Nowhere, KafkaFacts!Nowhere, Kafka!NoOffset, KafkaFacts!NoOffset, Kafka!NoHandler,
         KafkaFacts!NoHandler, Kafka!Cardinality, KafkaFacts!Cardinality, Kafka!Min, KafkaFacts!Min,
         Kafka!Max, KafkaFacts!Max
<1>2. Kafka!Init <=> KafkaFacts!Init
  BY <1>1 DEF Kafka!Init, KafkaFacts!Init
<1>3. /\ Kafka!connect <=> KafkaFacts!connect
      /\ Kafka!end <=> KafkaFacts!end
      /\ Kafka!append <=> KafkaFacts!append
      /\ Kafka!StartFails <=> KafkaFacts!StartFails
      /\ Kafka!closeConsumer <=> KafkaFacts!closeConsumer
  BY DEF Kafka!connect, KafkaFacts!connect, Kafka!end, KafkaFacts!end, Kafka!append, KafkaFacts!append,
         Kafka!StartFails, KafkaFacts!StartFails, Kafka!closeConsumer, KafkaFacts!closeConsumer,
         Kafka!consumer, KafkaFacts!consumer, Kafka!history, KafkaFacts!history
<1>4. \A x : Kafka!Speaks(x) <=> KafkaFacts!Speaks(x)
  BY <1>1 DEF Kafka!Speaks, KafkaFacts!Speaks
<1>5. /\ Kafka!consume <=> KafkaFacts!consume
      /\ Kafka!commit <=> KafkaFacts!commit
      /\ Kafka!commitCursor <=> KafkaFacts!commitCursor
  BY <1>1, <1>4 DEF Kafka!consume, KafkaFacts!consume, Kafka!Cursors, KafkaFacts!Cursors,
         Kafka!commit, KafkaFacts!commit, Kafka!commitCursor, KafkaFacts!commitCursor,
         Kafka!Resolve, KafkaFacts!Resolve, Kafka!consumer, KafkaFacts!consumer
<1>6. \A p : Kafka!Begin(p) = KafkaFacts!Begin(p)
  BY <1>1 DEF Kafka!Begin, KafkaFacts!Begin
<1>7. /\ Kafka!Joins <=> KafkaFacts!Joins
      /\ Kafka!Rebalances <=> KafkaFacts!Rebalances
  BY <1>1, <1>6 DEF Kafka!Joins, KafkaFacts!Joins, Kafka!Rebalances, KafkaFacts!Rebalances,
         Kafka!consumer, KafkaFacts!consumer
<1>8. /\ Kafka!Fetches <=> KafkaFacts!Fetches
      /\ Kafka!FullBatch <=> KafkaFacts!FullBatch
      /\ Kafka!Rest <=> KafkaFacts!Rest
  BY <1>1 DEF Kafka!Fetches, KafkaFacts!Fetches, Kafka!FullBatch, KafkaFacts!FullBatch, Kafka!Rest,
         KafkaFacts!Rest, Kafka!GivesOut, KafkaFacts!GivesOut, Kafka!Resolve, KafkaFacts!Resolve,
         Kafka!MayCommitBad, KafkaFacts!MayCommitBad, Kafka!Stops, KafkaFacts!Stops,
         Kafka!consumer, KafkaFacts!consumer, Kafka!history, KafkaFacts!history
<1>9. Kafka!Collects <=> KafkaFacts!Collects
  <2>1. Kafka!Good = KafkaFacts!Good
    BY DEF Kafka!Good, KafkaFacts!Good
  <2>2. Kafka!Full = KafkaFacts!Full
    BY <1>1, <2>1 DEF Kafka!Full, KafkaFacts!Full
  <2> QED  BY <1>1, <2>1, <2>2 DEF Kafka!Collects, KafkaFacts!Collects, Kafka!Stops, KafkaFacts!Stops,
         Kafka!consumer, KafkaFacts!consumer, Kafka!history, KafkaFacts!history
<1>10. Kafka!Next <=> KafkaFacts!Next
  BY <1>3, <1>5, <1>7, <1>8, <1>9 DEF Kafka!Next, KafkaFacts!Next
<1>11. Kafka!TypeOK <=> KafkaFacts!TypeOK
  BY <1>1 DEF Kafka!TypeOK, KafkaFacts!TypeOK
<1>12. Kafka!CommittedWasGivenOut <=> KafkaFacts!CommittedWasGivenOut
  BY <1>1 DEF Kafka!CommittedWasGivenOut, KafkaFacts!CommittedWasGivenOut, Kafka!getCursor, KafkaFacts!getCursor
<1> QED  BY <1>2, <1>10, <1>11, <1>12

IsLong == model = "long log"

\* A behaviour in which a log runs is a behaviour of the log.
LEMMA RunsTheLongLog == MCSpec /\ IsLong => LongFacts!Spec /\ []IsLong
<1>1. MCInit /\ IsLong => LongFacts!Init
  BY SameLongLog DEF MCInit, IsLong
<1>2. IsLong /\ [MCNext]_mcvars => IsLong' /\ [LongFacts!Next]_(LongFacts!vars)
  BY SameLongLog DEF MCNext, mcvars, eventlog, IsLong, LongFacts!vars
<1> QED  BY <1>1, <1>2, PTL DEF MCSpec, LongFacts!Spec

LEMMA RunsTheSharedLog == MCSpec /\ ~IsLong => SharedFacts!Spec /\ []~IsLong
<1>1. MCInit /\ ~IsLong => SharedFacts!Init
  BY SameSharedLog DEF MCInit, IsLong
<1>2. ~IsLong /\ [MCNext]_mcvars => ~IsLong' /\ [SharedFacts!Next]_(SharedFacts!vars)
  BY SameSharedLog DEF MCNext, mcvars, eventlog, IsLong, SharedFacts!vars
<1> QED  BY <1>1, <1>2, PTL DEF MCSpec, SharedFacts!Spec

LEMMA RunsKafka == MCSpec => KafkaFacts!Spec
<1>1. MCInit => KafkaFacts!Init
  BY SameKafka DEF MCInit
<1>2. [MCNext]_mcvars => [KafkaFacts!Next]_(KafkaFacts!vars)
  BY SameKafka DEF MCNext, mcvars, kafka, KafkaFacts!vars, KafkaFacts!consumer, KafkaFacts!history
<1> QED  BY <1>1, <1>2, PTL DEF MCSpec, KafkaFacts!Spec

LEMMA LogBounds ==
    /\ LongFacts!BatchSizeIsPositive /\ LongFacts!EventsAreBounded
    /\ SharedFacts!BatchSizeIsPositive /\ SharedFacts!EventsAreBounded
    /\ KafkaFacts!OffsetsAreBounded
BY ConnectionsAssumption, KafkaAssumption
   DEF ConnectionsAssumption, KafkaAssumption, LongFacts!BatchSizeIsPositive,
       LongFacts!EventsAreBounded, SharedFacts!BatchSizeIsPositive,
       SharedFacts!EventsAreBounded, KafkaFacts!OffsetsAreBounded

\* In memory: overlapping drives and blocked sends neither lose nor repeat an event, and none
\* is forgotten, whatever is appended, closed and resumed while the consumers read.
THEOREM EveryEventArrives == MCSpec => []EventsArrive
<1>1. /\ LongFacts!Spec => [](LongFacts!TypeOK /\ LongFacts!NothingSkipped /\ LongFacts!NoEventForgotten)
      /\ SharedFacts!Spec => [](SharedFacts!TypeOK /\ SharedFacts!NothingSkipped
                                /\ SharedFacts!NoEventForgotten)
  BY LogBounds, LongFacts!EventLogTypes, LongFacts!NoneSkipped, LongFacts!NotForgotten,
     SharedFacts!EventLogTypes, SharedFacts!NoneSkipped, SharedFacts!NotForgotten, PTL
<1>2. /\ IsLong /\ LongFacts!TypeOK /\ LongFacts!NothingSkipped /\ LongFacts!NoEventForgotten
            => EventsArrive
      /\ ~IsLong /\ SharedFacts!TypeOK /\ SharedFacts!NothingSkipped
            /\ SharedFacts!NoEventForgotten => EventsArrive
  BY SameLongLog, SameSharedLog DEF EventsArrive, IsLong
<1> QED  BY <1>1, <1>2, RunsTheLongLog, RunsTheSharedLog, PTL

\* Resuming from a committed cursor loses nothing: what it covers was processed, in memory
\* with one batch at a time, or was given out, on Kafka.
THEOREM CommittedCursorsAreHonest == MCSpec => []CursorsAreHonest
<1>1. /\ LongFacts!Spec => []LongFacts!CommittedIsProcessed
      /\ SharedFacts!Spec => []SharedFacts!CommittedIsProcessed
      /\ KafkaFacts!Spec => [](KafkaFacts!TypeOK /\ KafkaFacts!CommittedWasGivenOut)
  BY LogBounds, LongFacts!CommitsAreHonest, SharedFacts!CommitsAreHonest, KafkaFacts!KafkaTypes,
     KafkaFacts!AtLeastOnce, PTL
<1>2. /\ IsLong /\ LongFacts!CommittedIsProcessed /\ KafkaFacts!TypeOK
            /\ KafkaFacts!CommittedWasGivenOut => CursorsAreHonest
      /\ ~IsLong /\ SharedFacts!CommittedIsProcessed /\ KafkaFacts!TypeOK
            /\ KafkaFacts!CommittedWasGivenOut => CursorsAreHonest
  BY SameLongLog, SameSharedLog, SameKafka DEF CursorsAreHonest, IsLong
<1> QED  BY <1>1, <1>2, RunsTheLongLog, RunsTheSharedLog, RunsKafka, PTL

-----------------------------------------------------------------------------
(* The transactions.  What DbTransactionsProofs shows of any tree of calls holds of the   *)
(* chain and of the calls in turn.                                                        *)

NestedFacts == INSTANCE DbTransactionsProofs WITH
                   Txns <- 1..Chain, Parent <- [t \in 1..Chain |-> t - 1], None <- 0
InTurnFacts == INSTANCE DbTransactionsProofs WITH
                   Txns <- 1..Turns, Parent <- [t \in 1..Turns |-> IF t = 2 THEN 1 ELSE 0],
                   None <- 0

\* The operators of the instances are those of the transactions.
LEMMA SameNested ==
    /\ Nested!Init <=> NestedFacts!Init
    /\ Nested!Next <=> NestedFacts!Next
    /\ Nested!TypeOK <=> NestedFacts!TypeOK
    /\ Nested!AllOrNothing <=> NestedFacts!AllOrNothing
<1>1. /\ \A sp : Nested!Frame(sp) = NestedFacts!Frame(sp) /\ (Nested!Has(sp) <=> NestedFacts!Has(sp))
                 /\ Nested!At(sp) = NestedFacts!At(sp)
      /\ \A d : Nested!Savepoint(d) = NestedFacts!Savepoint(d)
      /\ \A old, new : Nested!First(old, new) = NestedFacts!First(old, new)
  BY DEF Nested!Frame, NestedFacts!Frame, Nested!Has, NestedFacts!Has, Nested!At, NestedFacts!At, Nested!Savepoint, NestedFacts!Savepoint,
         Nested!First, NestedFacts!First
<1>2. /\ \A t, op, ok : Nested!Send(t, op, ok) <=> NestedFacts!Send(t, op, ok)
      /\ \A t, op : Nested!Refuse(t, op) <=> NestedFacts!Refuse(t, op)
  BY DEF Nested!Send, NestedFacts!Send, Nested!Refuse, NestedFacts!Refuse
<1>3. \A t, sp : /\ Nested!SendOpen(t, sp) <=> NestedFacts!SendOpen(t, sp)
                 /\ Nested!SendCommit(t, sp) <=> NestedFacts!SendCommit(t, sp)
                 /\ Nested!SendRollback(t, sp) <=> NestedFacts!SendRollback(t, sp)
  BY <1>1, <1>2 DEF Nested!SendOpen, NestedFacts!SendOpen, Nested!SendCommit, NestedFacts!SendCommit,
                    Nested!SendRollback, NestedFacts!SendRollback
<1>4. \A t : /\ Nested!InProgress(t) <=> NestedFacts!InProgress(t)
             /\ Nested!Awaiting(t) <=> NestedFacts!Awaiting(t)
             /\ Nested!Aborted(t) <=> NestedFacts!Aborted(t)
  BY DEF Nested!InProgress, NestedFacts!InProgress, Nested!Awaiting, NestedFacts!Awaiting, Nested!Calls, NestedFacts!Calls,
         Nested!Aborted, NestedFacts!Aborted
<1>5. \A t, how : /\ Nested!EndUse(t, how) <=> NestedFacts!EndUse(t, how)
                  /\ Nested!End(t, how) <=> NestedFacts!End(t, how)
  BY <1>1 DEF Nested!EndUse, NestedFacts!EndUse, Nested!End, NestedFacts!End
<1>6. \A t : Nested!Call(t) <=> NestedFacts!Call(t)
  BY <1>1, <1>3, <1>4 DEF Nested!Call, NestedFacts!Call
<1>7. \A t : Nested!Write(t) <=> NestedFacts!Write(t)
  BY <1>4 DEF Nested!Write, NestedFacts!Write, Nested!tasks, NestedFacts!tasks
<1>8. \A t : /\ Nested!CallbackReturns(t) <=> NestedFacts!CallbackReturns(t)
             /\ Nested!CallbackThrows(t) <=> NestedFacts!CallbackThrows(t)
  BY <1>1, <1>3, <1>4, <1>5 DEF Nested!CallbackReturns, NestedFacts!CallbackReturns, Nested!Commits,
         NestedFacts!Commits, Nested!CallbackThrows, NestedFacts!CallbackThrows, Nested!connection, NestedFacts!connection
<1>9. \A t : Nested!Abort(t) <=> NestedFacts!Abort(t)
  BY <1>1, <1>4, <1>5 DEF Nested!Abort, NestedFacts!Abort, Nested!connection, NestedFacts!connection
<1>10. \A t : Nested!Rollback(t) <=> NestedFacts!Rollback(t)
  BY <1>1, <1>3, <1>5 DEF Nested!Rollback, NestedFacts!Rollback, Nested!connection, NestedFacts!connection
<1>11. /\ \A op : Nested!Answer(op) <=> NestedFacts!Answer(op)
       /\ \A t : Nested!Settle(t) <=> NestedFacts!Settle(t)
  BY DEF Nested!Answer, NestedFacts!Answer, Nested!Settle, NestedFacts!Settle
<1>12. /\ Nested!Opened <=> NestedFacts!Opened
       /\ Nested!Committed <=> NestedFacts!Committed
       /\ Nested!RolledBack <=> NestedFacts!RolledBack
  BY <1>5, <1>11 DEF Nested!Opened, NestedFacts!Opened, Nested!Committed, NestedFacts!Committed,
                     Nested!RolledBack, NestedFacts!RolledBack
<1>13. Nested!Next <=> NestedFacts!Next
  BY <1>6, <1>7, <1>8, <1>9, <1>10, <1>12 DEF Nested!Next, NestedFacts!Next
<1>14. Nested!Init <=> NestedFacts!Init
  BY DEF Nested!Init, NestedFacts!Init
<1>15. Nested!TypeOK <=> NestedFacts!TypeOK
  <2>1. \A S : Nested!Cardinality(S) = NestedFacts!Cardinality(S)
    BY DEF Nested!Cardinality, NestedFacts!Cardinality
  <2> QED  BY <2>1 DEF Nested!TypeOK, NestedFacts!TypeOK, Nested!Depths, NestedFacts!Depths, Nested!Ending, NestedFacts!Ending
<1>16. Nested!AllOrNothing <=> NestedFacts!AllOrNothing
  <2>1. \A t : Nested!Around(t) = NestedFacts!Around(t)
    BY DEF Nested!Around, NestedFacts!Around, Nested!Closed, NestedFacts!Closed
  <2>2. /\ Nested!Idle <=> NestedFacts!Idle
        /\ \A t : Nested!Succeeded(t) <=> NestedFacts!Succeeded(t)
        /\ \A t : Nested!MayHaveSucceeded(t) <=> NestedFacts!MayHaveSucceeded(t)
    BY <1>4, <2>1 DEF Nested!Idle, NestedFacts!Idle, Nested!Succeeded, NestedFacts!Succeeded,
                      Nested!MayHaveSucceeded, NestedFacts!MayHaveSucceeded
  <2> QED  BY <2>2 DEF Nested!AllOrNothing, NestedFacts!AllOrNothing
<1> QED  BY <1>13, <1>14, <1>15, <1>16

LEMMA SameInTurn ==
    /\ InTurn!Init <=> InTurnFacts!Init
    /\ InTurn!Next <=> InTurnFacts!Next
    /\ InTurn!TypeOK <=> InTurnFacts!TypeOK
    /\ InTurn!AllOrNothing <=> InTurnFacts!AllOrNothing
<1>1. /\ \A sp : InTurn!Frame(sp) = InTurnFacts!Frame(sp) /\ (InTurn!Has(sp) <=> InTurnFacts!Has(sp))
                 /\ InTurn!At(sp) = InTurnFacts!At(sp)
      /\ \A d : InTurn!Savepoint(d) = InTurnFacts!Savepoint(d)
      /\ \A old, new : InTurn!First(old, new) = InTurnFacts!First(old, new)
  BY DEF InTurn!Frame, InTurnFacts!Frame, InTurn!Has, InTurnFacts!Has, InTurn!At, InTurnFacts!At, InTurn!Savepoint, InTurnFacts!Savepoint,
         InTurn!First, InTurnFacts!First
<1>2. /\ \A t, op, ok : InTurn!Send(t, op, ok) <=> InTurnFacts!Send(t, op, ok)
      /\ \A t, op : InTurn!Refuse(t, op) <=> InTurnFacts!Refuse(t, op)
  BY DEF InTurn!Send, InTurnFacts!Send, InTurn!Refuse, InTurnFacts!Refuse
<1>3. \A t, sp : /\ InTurn!SendOpen(t, sp) <=> InTurnFacts!SendOpen(t, sp)
                 /\ InTurn!SendCommit(t, sp) <=> InTurnFacts!SendCommit(t, sp)
                 /\ InTurn!SendRollback(t, sp) <=> InTurnFacts!SendRollback(t, sp)
  BY <1>1, <1>2 DEF InTurn!SendOpen, InTurnFacts!SendOpen, InTurn!SendCommit, InTurnFacts!SendCommit,
                    InTurn!SendRollback, InTurnFacts!SendRollback
<1>4. \A t : /\ InTurn!InProgress(t) <=> InTurnFacts!InProgress(t)
             /\ InTurn!Awaiting(t) <=> InTurnFacts!Awaiting(t)
             /\ InTurn!Aborted(t) <=> InTurnFacts!Aborted(t)
  BY DEF InTurn!InProgress, InTurnFacts!InProgress, InTurn!Awaiting, InTurnFacts!Awaiting, InTurn!Calls, InTurnFacts!Calls,
         InTurn!Aborted, InTurnFacts!Aborted
<1>5. \A t, how : /\ InTurn!EndUse(t, how) <=> InTurnFacts!EndUse(t, how)
                  /\ InTurn!End(t, how) <=> InTurnFacts!End(t, how)
  BY <1>1 DEF InTurn!EndUse, InTurnFacts!EndUse, InTurn!End, InTurnFacts!End
<1>6. \A t : InTurn!Call(t) <=> InTurnFacts!Call(t)
  BY <1>1, <1>3, <1>4 DEF InTurn!Call, InTurnFacts!Call
<1>7. \A t : InTurn!Write(t) <=> InTurnFacts!Write(t)
  BY <1>4 DEF InTurn!Write, InTurnFacts!Write, InTurn!tasks, InTurnFacts!tasks
<1>8. \A t : /\ InTurn!CallbackReturns(t) <=> InTurnFacts!CallbackReturns(t)
             /\ InTurn!CallbackThrows(t) <=> InTurnFacts!CallbackThrows(t)
  BY <1>1, <1>3, <1>4, <1>5 DEF InTurn!CallbackReturns, InTurnFacts!CallbackReturns, InTurn!Commits,
         InTurnFacts!Commits, InTurn!CallbackThrows, InTurnFacts!CallbackThrows, InTurn!connection, InTurnFacts!connection
<1>9. \A t : InTurn!Abort(t) <=> InTurnFacts!Abort(t)
  BY <1>1, <1>4, <1>5 DEF InTurn!Abort, InTurnFacts!Abort, InTurn!connection, InTurnFacts!connection
<1>10. \A t : InTurn!Rollback(t) <=> InTurnFacts!Rollback(t)
  BY <1>1, <1>3, <1>5 DEF InTurn!Rollback, InTurnFacts!Rollback, InTurn!connection, InTurnFacts!connection
<1>11. /\ \A op : InTurn!Answer(op) <=> InTurnFacts!Answer(op)
       /\ \A t : InTurn!Settle(t) <=> InTurnFacts!Settle(t)
  BY DEF InTurn!Answer, InTurnFacts!Answer, InTurn!Settle, InTurnFacts!Settle
<1>12. /\ InTurn!Opened <=> InTurnFacts!Opened
       /\ InTurn!Committed <=> InTurnFacts!Committed
       /\ InTurn!RolledBack <=> InTurnFacts!RolledBack
  BY <1>5, <1>11 DEF InTurn!Opened, InTurnFacts!Opened, InTurn!Committed, InTurnFacts!Committed,
                     InTurn!RolledBack, InTurnFacts!RolledBack
<1>13. InTurn!Next <=> InTurnFacts!Next
  BY <1>6, <1>7, <1>8, <1>9, <1>10, <1>12 DEF InTurn!Next, InTurnFacts!Next
<1>14. InTurn!Init <=> InTurnFacts!Init
  BY DEF InTurn!Init, InTurnFacts!Init
<1>15. InTurn!TypeOK <=> InTurnFacts!TypeOK
  <2>1. \A S : InTurn!Cardinality(S) = InTurnFacts!Cardinality(S)
    BY DEF InTurn!Cardinality, InTurnFacts!Cardinality
  <2> QED  BY <2>1 DEF InTurn!TypeOK, InTurnFacts!TypeOK, InTurn!Depths, InTurnFacts!Depths, InTurn!Ending, InTurnFacts!Ending
<1>16. InTurn!AllOrNothing <=> InTurnFacts!AllOrNothing
  <2>1. \A t : InTurn!Around(t) = InTurnFacts!Around(t)
    BY DEF InTurn!Around, InTurnFacts!Around, InTurn!Closed, InTurnFacts!Closed
  <2>2. /\ InTurn!Idle <=> InTurnFacts!Idle
        /\ \A t : InTurn!Succeeded(t) <=> InTurnFacts!Succeeded(t)
        /\ \A t : InTurn!MayHaveSucceeded(t) <=> InTurnFacts!MayHaveSucceeded(t)
    BY <1>4, <2>1 DEF InTurn!Idle, InTurnFacts!Idle, InTurn!Succeeded, InTurnFacts!Succeeded,
                      InTurn!MayHaveSucceeded, InTurnFacts!MayHaveSucceeded
  <2> QED  BY <2>2 DEF InTurn!AllOrNothing, InTurnFacts!AllOrNothing
<1> QED  BY <1>13, <1>14, <1>15, <1>16

IsNested == model = "nested"

LEMMA RunsNested == MCSpec /\ IsNested => NestedFacts!Spec /\ []IsNested
<1>1. MCInit /\ IsNested => NestedFacts!Init
  BY SameNested DEF MCInit, IsNested
<1>2. IsNested /\ [MCNext]_mcvars => IsNested' /\ [NestedFacts!Next]_(NestedFacts!vars)
  BY SameNested DEF MCNext, mcvars, transactions, IsNested, NestedFacts!vars,
                    NestedFacts!connection, NestedFacts!tasks
<1> QED  BY <1>1, <1>2, PTL DEF MCSpec, NestedFacts!Spec

LEMMA RunsInTurn == MCSpec /\ ~IsNested => InTurnFacts!Spec /\ []~IsNested
<1>1. MCInit /\ ~IsNested => InTurnFacts!Init
  BY SameInTurn DEF MCInit, IsNested
<1>2. ~IsNested /\ [MCNext]_mcvars => ~IsNested' /\ [InTurnFacts!Next]_(InTurnFacts!vars)
  BY SameInTurn DEF MCNext, mcvars, transactions, IsNested, InTurnFacts!vars,
                    InTurnFacts!connection, InTurnFacts!tasks
<1> QED  BY <1>1, <1>2, PTL DEF MCSpec, InTurnFacts!Spec

LEMMA InstancesAreKnown == NestedFacts!CallsAreKnown /\ InTurnFacts!CallsAreKnown
<1>1. Chain \in Nat /\ Turns \in Nat
  BY TransactionsAssumption DEF TransactionsAssumption
<1>2. IsFiniteSet(1..Chain) /\ IsFiniteSet(1..Turns)
  BY <1>1, FS_Interval
<1>3. \A S : (NestedFacts!IsFiniteSet(S) <=> IsFiniteSet(S))
             /\ (InTurnFacts!IsFiniteSet(S) <=> IsFiniteSet(S))
  BY DEF NestedFacts!IsFiniteSet, InTurnFacts!IsFiniteSet, IsFiniteSet
<1>4. NestedFacts!CallsAreKnown
  <2>1. [t \in 1..Chain |-> t - 1] \in [1..Chain -> (1..Chain) \cup {0}] /\ 0 \notin 1..Chain
    BY <1>1
  <2> QED  BY <1>2, <1>3, <2>1 DEF NestedFacts!CallsAreKnown
<1>5. InTurnFacts!CallsAreKnown
  <2>1. /\ [t \in 1..Turns |-> IF t = 2 THEN 1 ELSE 0] \in [1..Turns -> (1..Turns) \cup {0}]
        /\ 0 \notin 1..Turns
    BY <1>1
  <2> QED  BY <1>2, <1>3, <2>1 DEF InTurnFacts!CallsAreKnown
<1> QED  BY <1>4, <1>5

\* A chain of nested calls, or calls in turn, of any length: once nothing is in progress the
\* connection is out of any transaction, and a write is durable if its call and all around it
\* succeeded, and only then, but for a commit that was under way at an abort.
THEOREM NothingHalfCommitted == MCSpec => []AllOrNothing
<1>1. /\ NestedFacts!Spec => [](NestedFacts!TypeOK /\ NestedFacts!AllOrNothing)
      /\ InTurnFacts!Spec => [](InTurnFacts!TypeOK /\ InTurnFacts!AllOrNothing)
  BY InstancesAreKnown, NestedFacts!TransactionTypes, NestedFacts!NothingHalfDurable,
     InTurnFacts!TransactionTypes, InTurnFacts!NothingHalfDurable, PTL
<1>2. /\ IsNested /\ NestedFacts!TypeOK /\ NestedFacts!AllOrNothing => AllOrNothing
      /\ ~IsNested /\ InTurnFacts!TypeOK /\ InTurnFacts!AllOrNothing => AllOrNothing
  BY SameNested, SameInTurn DEF AllOrNothing, IsNested
<1> QED  BY <1>1, <1>2, RunsNested, RunsInTurn, PTL

=============================================================================
