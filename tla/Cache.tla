-------------------------------- MODULE Cache --------------------------------
(***************************************************************************)
(* One key of the cache (packages/cache, packages/cache-redis): callers of *)
(* get, set, delete, has and getOrSet, which reads, computes and writes    *)
(* with awaits in between.  In memory an entry is dropped by the call that *)
(* finds it expired; Redis drops it at its time.                           *)
(***************************************************************************)
EXTENDS Integers, Sequences, FiniteSets

CONSTANTS Callers,
          MaxTime,    \* bound of the clock
          MaxValues   \* bound: values that are set or computed

VARIABLES now,
          backend,  \* "memory" or "redis"; "none" before the first connect
          client,   \* Redis: there is a connection
          entry,    \* of the store: Missing or [value, expiresAt]
          call,     \* per caller: [step, ttl, value, since]
          answer,   \* per caller: what the last call has returned
          values,   \* values made so far; 0 is a value that JSON makes null
          life      \* history, per value: from when to when it could be read

vars == <<now, backend, client, entry, call, answer, values, life>>

Never == MaxTime + 3   \* no ttl, or a ttl of 0
Missing == [value |-> -1, expiresAt |-> Never]
Null == [kind |-> "null", value |-> 0, at |-> 0]
Free == [step |-> "free", ttl |-> 0, value |-> 0]

Init == /\ now = 0 /\ backend = "none" /\ client = FALSE /\ entry = Missing
        /\ call = [c \in Callers |-> Free] /\ answer = [c \in Callers |-> Null]
        /\ values = 0 /\ life = [v \in 0..MaxValues |-> [from |-> 0, to |-> 0]]

connectMemory == backend \in {"none", "memory"} /\ backend' = "memory" /\ UNCHANGED client
connectRedis == /\ backend \in {"none", "redis"} /\ ~client
                /\ backend' = "redis" /\ client' = TRUE

connect == /\ connectMemory \/ connectRedis
           /\ UNCHANGED <<now, entry, call, answer, values, life>>

\* In memory end() forgets everything; Redis keeps it for the next connection.
endMemory == backend = "memory" /\ entry' = Missing /\ UNCHANGED client
endRedis == client /\ client' = FALSE /\ UNCHANGED entry

end == /\ endMemory \/ endRedis
       /\ UNCHANGED <<now, backend, call, answer, values, life>>

Tick == /\ now < MaxTime /\ now' = now + 1
        /\ entry' = IF backend = "redis" /\ entry.expiresAt <= now' THEN Missing ELSE entry
        /\ UNCHANGED <<backend, client, call, answer, values, life>>

-----------------------------------------------------------------------------
(* The adapter. *)

\* Fault: an entry lives through the instant at which it expires.
expired_Late == entry.expiresAt # Never /\ now > entry.expiresAt

expired == entry.expiresAt # Never /\ now >= entry.expiresAt

\* What has() answers; Redis has nothing that is expired.
hasMemory == backend = "memory" /\ entry # Missing /\ ~expired
hasRedis == backend = "redis" /\ entry # Missing
Present == hasMemory \/ hasRedis

\* In memory get() and has() drop what they find expired.
getMemory == backend = "memory" /\ entry' = IF expired THEN Missing ELSE entry
getRedis == client /\ UNCHANGED entry
Reads == getMemory \/ getRedis

Expires(ttl) == IF ttl > 0 THEN now + ttl ELSE Never

setMemory(value, ttl) ==
    backend = "memory" /\ entry' = [value |-> value, expiresAt |-> Expires(ttl)]
setRedis(value, ttl) ==
    client /\ entry' = [value |-> value, expiresAt |-> Expires(ttl)]

\* The history: what is there is no more.
Ended == IF Present THEN [life EXCEPT ![entry.value].to = now] ELSE life

Writes(value, ttl) ==
    /\ setMemory(value, ttl) \/ setRedis(value, ttl)
    /\ life' = [Ended EXCEPT ![value] = [from |-> now, to |-> Expires(ttl)]]

deleteMemory == backend = "memory" /\ entry' = Missing
deleteRedis == client /\ entry' = Missing

Answers(c, kind, value) ==
    answer' = [answer EXCEPT ![c] = [kind |-> kind, value |-> value, at |-> now]]

-----------------------------------------------------------------------------
(* The calls. *)

\* A stored null is a miss like any other.
get(c) == /\ call[c] = Free /\ Reads
          /\ IF Present /\ entry.value # 0 THEN Answers(c, "stored", entry.value)
                                          ELSE answer' = [answer EXCEPT ![c] = Null]
          /\ UNCHANGED <<now, backend, client, call, values, life>>

has(c) == /\ call[c] = Free /\ Reads
          /\ IF Present THEN Answers(c, "has", entry.value)
                        ELSE answer' = [answer EXCEPT ![c] = Null]
          /\ UNCHANGED <<now, backend, client, call, values, life>>

set(c) == \E ttl \in 0..2, value \in {0, values + 1} :
    /\ call[c] = Free /\ value <= MaxValues
    /\ values' = IF value = 0 THEN values ELSE value
    /\ Writes(value, ttl) /\ answer' = [answer EXCEPT ![c] = Null]
    /\ UNCHANGED <<now, backend, client, call>>

delete(c) == /\ call[c] = Free
             /\ deleteMemory \/ deleteRedis
             /\ life' = Ended
             /\ answer' = [answer EXCEPT ![c] = Null]
             /\ UNCHANGED <<now, backend, client, call, values>>

\* getOrSet: the entry that is there is the answer, whatever comes later ...
getOrSet(c) ==
    /\ call[c] = Free /\ Reads
    /\ IF Present /\ entry.value # 0
       THEN Answers(c, "stored", entry.value) /\ UNCHANGED call
       ELSE /\ call' = [call EXCEPT ![c] = [Free EXCEPT !.step = "compute"]]
            /\ answer' = [answer EXCEPT ![c] = Null]
    /\ UNCHANGED <<now, backend, client, values, life>>

\* ... and if there is none it is computed, which may fail ...
Computes(c) ==
    /\ call[c].step = "compute"
    /\ \/ /\ values < MaxValues /\ values' = values + 1
          /\ call' = [call EXCEPT ![c] = [@ EXCEPT !.step = "write", !.value = values']]
       \/ call' = [call EXCEPT ![c] = Free] /\ UNCHANGED values
    /\ UNCHANGED <<now, backend, client, entry, answer, life>>

\* ... and written, over whatever another caller has written meanwhile.  If the write
\* fails the caller gets an error and not the value.
Stores(c) == \E ttl \in 0..2 :
    /\ call[c].step = "write"
    /\ \/ Writes(call[c].value, ttl) /\ Answers(c, "computed", call[c].value)
       \/ UNCHANGED <<entry, life, answer>>
    /\ call' = [call EXCEPT ![c] = Free]
    /\ UNCHANGED <<now, backend, client, values>>

Next == \/ connect \/ end \/ Tick
        \/ \E c \in Callers : get(c) \/ has(c) \/ set(c) \/ delete(c)
                              \/ getOrSet(c) \/ Computes(c) \/ Stores(c)

Spec == Init /\ [][Next]_vars

-----------------------------------------------------------------------------
TypeOK == /\ now \in 0..MaxTime /\ backend \in {"none", "memory", "redis"} /\ client \in BOOLEAN
          /\ entry.value \in -1..MaxValues /\ entry.expiresAt \in 0..Never
          /\ values \in 0..MaxValues
          /\ \A c \in Callers : call[c].step \in {"free", "compute", "write"}

\* No caller gets a value from the store before it was written, from the instant on at
\* which it expires, or after another was written over it or it was deleted.
NothingStaleIsReturned == \A c \in Callers :
    (answer[c].kind = "stored" /\ answer[c].at = now) =>
        /\ life[answer[c].value].from <= now
        /\ now <= life[answer[c].value].to
        /\ life[answer[c].value].to = now => entry.value # answer[c].value

=============================================================================
