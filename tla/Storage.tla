------------------------------- MODULE Storage -------------------------------
(***************************************************************************)
(* The objects under one prefix of a storage (packages/storage) and callers*)
(* of put, get, delete, head and list, over each of its connectors: the    *)
(* maps in memory, IndexedDB (packages/storage-browser), S3 and Google     *)
(* Cloud Storage.  In memory a call is one step, but for the body of a put *)
(* that is a stream and for a listing, which is pulled entry by entry over *)
(* the live map.  Elsewhere a call is a request, which is served later or  *)
(* fails, and S3 and GCS list page by page.                                *)
(*                                                                         *)
(* A body, with its metadata, is the number of the put that wrote it.      *)
(***************************************************************************)
EXTENDS Integers, Sequences, FiniteSets, SequencesExt

CONSTANTS Keys,      \* numbers: their order is that of the names
          Callers,
          PageSize,  \* of S3 and GCS
          MaxPuts    \* bound: puts

VARIABLES backend,  \* "none" or the connector
          objects,  \* per key: the number of its body, or 0
          slots,    \* the order of the map in memory: keys, 0 for a deleted one
          puts,
          call,     \* per caller, what it is waiting for
          answer    \* per caller: what the last get or head has returned

vars == <<backend, objects, slots, puts, call, answer>>

Backends == {"memory", "indexeddb", "s3", "gcs"}

\* step: "idle"; "reading" the body of a put; "sent", a request; "body", of a get from
\* GCS; "pulling", the caller wants the next entry of a list; "listed", its end.
\* entries are those that are there to give out, position where a list goes on.
\* History since the call: the keys that were there always, and at any time.
Idle == [op |-> "none", key |-> 0, step |-> "idle", entries |-> <<>>, position |-> 0,
         listed |-> <<>>, metadata |-> 0, always |-> {}, ever |-> {}]
NoAnswer == [kind |-> "none", metadata |-> 0, body |-> 0]

Present == {k \in Keys : objects[k] # 0}

Init == /\ backend = "none" /\ objects = [k \in Keys |-> 0] /\ slots = <<>> /\ puts = 0
        /\ call = [c \in Callers |-> Idle] /\ answer = [c \in Callers |-> NoAnswer]

connect == /\ backend = "none" /\ backend' \in Backends
           /\ UNCHANGED <<objects, slots, puts, call, answer>>

-----------------------------------------------------------------------------
(* What is stored. *)

\* The history of the calls that are under way.
Noted(put, deleted) ==
    [c \in Callers |-> IF call[c].op = "none" THEN call[c]
                       ELSE [call[c] EXCEPT !.always = @ \ deleted, !.ever = @ \cup put]]

\* A put keeps the place of a key that is in the map.
Stores(k) ==
    /\ puts < MaxPuts /\ puts' = puts + 1
    /\ objects' = [objects EXCEPT ![k] = puts']
    /\ slots' = IF k \in ToSet(slots) THEN slots ELSE Append(slots, k)

Removes(k) == /\ objects' = [objects EXCEPT ![k] = 0]
              /\ slots' = [i \in DOMAIN slots |-> IF slots[i] = k THEN 0 ELSE slots[i]]
              /\ UNCHANGED puts

Unstored == UNCHANGED <<objects, slots, puts>>

Free(c) == backend # "none" /\ call[c] = Idle

Begins(c, op, k, step) ==
    /\ call' = [call EXCEPT ![c] = [Idle EXCEPT !.op = op, !.key = k, !.step = step,
                                    !.always = Present, !.ever = Present]]
    /\ answer' = [answer EXCEPT ![c] = NoAnswer]

Answers(c, kind, metadata, body) ==
    answer' = [answer EXCEPT ![c] = [kind |-> kind, metadata |-> metadata, body |-> body]]

-----------------------------------------------------------------------------
(* put *)

\* A body that is a stream is read first.
putMemory(c, k) ==
    /\ backend = "memory"
    /\ \/ Stores(k) /\ call' = Noted({k}, {}) /\ UNCHANGED answer
       \/ Begins(c, "put", k, "reading") /\ Unstored

bytesFromStream(c) ==
    /\ backend = "memory" /\ call[c].step = "reading"
    /\ \/ Stores(call[c].key) /\ call' = [Noted({call[c].key}, {}) EXCEPT ![c] = Idle]
       \/ Unstored /\ call' = [call EXCEPT ![c] = Idle]
    /\ UNCHANGED <<backend, answer>>

putIndexedDB(c, k) ==
    /\ backend = "indexeddb" /\ Unstored
    /\ Begins(c, "put", k, "sent") \/ Begins(c, "put", k, "reading")

readStream(c) ==
    /\ backend = "indexeddb" /\ call[c].step = "reading"
    /\ \/ call' = [call EXCEPT ![c].step = "sent"]
       \/ call' = [call EXCEPT ![c] = Idle]
    /\ UNCHANGED <<backend, objects, slots, puts, answer>>

\* The body is sent with the request, a stream as well.
putS3(c, k) == backend = "s3" /\ Begins(c, "put", k, "sent") /\ Unstored
putGcs(c, k) == backend = "gcs" /\ Begins(c, "put", k, "sent") /\ Unstored

put(c) == \E k \in Keys : /\ Free(c)
                          /\ putMemory(c, k) \/ putIndexedDB(c, k) \/ putS3(c, k) \/ putGcs(c, k)
                          /\ UNCHANGED backend

-----------------------------------------------------------------------------
(* get and head: the object, or its metadata alone. *)

Finds(c, k) == IF objects[k] = 0 THEN Answers(c, "missing", 0, 0)
                                 ELSE Answers(c, "found", objects[k], objects[k])

getMemory(c, k) == backend = "memory" /\ Finds(c, k) /\ UNCHANGED call
getIndexedDB(c, k) == backend = "indexeddb" /\ Begins(c, "get", k, "sent")
getS3(c, k) == backend = "s3" /\ Begins(c, "get", k, "sent")

\* The metadata is asked for first, and then the body.
getGcs(c, k) == backend = "gcs" /\ Begins(c, "get", k, "sent")

get(c) == \E k \in Keys : /\ Free(c) /\ Unstored
                          /\ getMemory(c, k) \/ getIndexedDB(c, k) \/ getS3(c, k) \/ getGcs(c, k)
                          /\ UNCHANGED backend

headMemory(c, k) == backend = "memory" /\ Finds(c, k) /\ UNCHANGED call
headIndexedDB(c, k) == backend = "indexeddb" /\ Begins(c, "head", k, "sent")
headS3(c, k) == backend = "s3" /\ Begins(c, "head", k, "sent")
headGcs(c, k) == backend = "gcs" /\ Begins(c, "head", k, "sent")

head(c) == \E k \in Keys : /\ Free(c) /\ Unstored
                           /\ \/ headMemory(c, k) \/ headIndexedDB(c, k)
                              \/ headS3(c, k) \/ headGcs(c, k)
                           /\ UNCHANGED backend

-----------------------------------------------------------------------------
(* delete: of what is not there too. *)

deleteMemory(c, k) == /\ backend = "memory" /\ Removes(k)
                      /\ call' = Noted({}, {k}) /\ UNCHANGED answer
deleteIndexedDB(c, k) == backend = "indexeddb" /\ Begins(c, "delete", k, "sent") /\ Unstored
deleteS3(c, k) == backend = "s3" /\ Begins(c, "delete", k, "sent") /\ Unstored
deleteGcs(c, k) == backend = "gcs" /\ Begins(c, "delete", k, "sent") /\ Unstored

delete(c) == \E k \in Keys : /\ Free(c)
                             /\ \/ deleteMemory(c, k) \/ deleteIndexedDB(c, k)
                                \/ deleteS3(c, k) \/ deleteGcs(c, k)
                             /\ UNCHANGED backend

-----------------------------------------------------------------------------
(* list *)

\* The ascending sequence of the keys, in a set of its own.
Sorted(keys) == {names \in [1..Cardinality(keys) -> keys] :
                    /\ keys \subseteq ToSet(names)
                    /\ \A i, j \in 1..Cardinality(keys) : i < j => names[i] < names[j]}

\* In memory the listing is the iterator of the map, which sees what is put and
\* deleted while it is on its way.
listMemory(c) ==
    /\ backend = "memory" /\ call[c].step = "pulling"
    /\ LET rest == {i \in DOMAIN slots : i > call[c].position /\ slots[i] # 0}
           next == CHOOSE i \in rest : \A j \in rest : i <= j
       IN call' = IF rest = {} THEN [call EXCEPT ![c].step = "listed"]
                  ELSE [call EXCEPT ![c].position = next, ![c].listed = Append(@, slots[next])]

\* IndexedDB's cursor collects all entries in one transaction.
listIndexedDB(c) ==
    /\ backend = "indexeddb"
    /\ \E all \in Sorted(Present) :
          call' = [call EXCEPT ![c].entries = all, ![c].position = 0, ![c].step = "pulling"]

\* Fault: the next page begins one key after the token.
NextPage_SkipsOne(c) ==
    \E rest \in Sorted({k \in Present : k > call[c].position}) :
        LET size == IF Len(rest) > PageSize THEN PageSize ELSE Len(rest)
        IN call' = [call EXCEPT ![c].entries = SubSeq(rest, 1, size), ![c].step = "pulling",
                                ![c].position = IF Len(rest) > PageSize THEN rest[PageSize] + 1 ELSE 0]

\* A page, and the token that the next one goes on from, 0 for none.
NextPage(c) ==
    \E rest \in Sorted({k \in Present : k > call[c].position}) :
        LET size == IF Len(rest) > PageSize THEN PageSize ELSE Len(rest)
        IN call' = [call EXCEPT ![c].entries = SubSeq(rest, 1, size), ![c].step = "pulling",
                                ![c].position = IF Len(rest) > PageSize THEN rest[PageSize] ELSE 0]

listS3(c) == backend = "s3" /\ NextPage(c)
listGcs(c) == backend = "gcs" /\ NextPage(c)

list(c) == /\ Free(c) /\ Begins(c, "list", 0, IF backend = "memory" THEN "pulling" ELSE "sent")
           /\ UNCHANGED <<backend, objects, slots, puts>>

\* The caller takes the next entry; when there is none left the next page is asked for.
Pulls(c) ==
    /\ call[c].step = "pulling"
    /\ \/ listMemory(c)
       \/ /\ backend # "memory" /\ call[c].entries # <<>>
          /\ call' = [call EXCEPT ![c].entries = Tail(@),
                                  ![c].listed = Append(@, Head(call[c].entries))]
       \/ /\ backend # "memory" /\ call[c].entries = <<>>
          /\ call' = [call EXCEPT ![c].step = IF call[c].position = 0 THEN "listed" ELSE "sent"]
    /\ UNCHANGED <<backend, objects, slots, puts, answer>>

\* The caller has all entries, or leaves the loop before.
ListEnds(c) == /\ call[c].step \in {"pulling", "listed"} /\ call' = [call EXCEPT ![c] = Idle]
               /\ UNCHANGED <<backend, objects, slots, puts, answer>>

-----------------------------------------------------------------------------
(* The service. *)

Done(c) == call' = [call EXCEPT ![c] = Idle]

Serves(c) ==
    /\ call[c].step = "sent"
    /\ \/ /\ call[c].op = "put" /\ Stores(call[c].key) /\ UNCHANGED answer
          /\ call' = [Noted({call[c].key}, {}) EXCEPT ![c] = Idle]
       \/ /\ call[c].op = "delete" /\ Removes(call[c].key) /\ UNCHANGED answer
          /\ call' = [Noted({}, {call[c].key}) EXCEPT ![c] = Idle]
       \/ /\ call[c].op = "get" /\ backend = "gcs" /\ objects[call[c].key] # 0 /\ Unstored
          /\ call' = [call EXCEPT ![c].step = "body", ![c].metadata = objects[call[c].key]]
          /\ UNCHANGED answer
       \/ /\ call[c].op \in {"get", "head"} /\ Finds(c, call[c].key) /\ Unstored /\ Done(c)
          /\ ~(call[c].op = "get" /\ backend = "gcs" /\ objects[call[c].key] # 0)
       \/ /\ call[c].op = "list" /\ Unstored /\ UNCHANGED answer
          /\ listIndexedDB(c) \/ listS3(c) \/ listGcs(c)
    /\ UNCHANGED backend

\* The body of an object in GCS, which may be another one by now, or gone: its stream
\* fails then, after get() has returned.
ServesBody(c) ==
    /\ call[c].step = "body" /\ Done(c) /\ Unstored /\ UNCHANGED backend
    /\ IF objects[call[c].key] = 0 THEN Answers(c, "failed", call[c].metadata, 0)
                                   ELSE Answers(c, "found", call[c].metadata, objects[call[c].key])

\* A request fails: what it asked for may have been done all the same.
Fails(c) ==
    /\ call[c].step = "sent" /\ UNCHANGED <<backend, answer>>
    /\ \/ Unstored /\ Done(c)
       \/ /\ call[c].op = "put" /\ Stores(call[c].key)
          /\ call' = [Noted({call[c].key}, {}) EXCEPT ![c] = Idle]
       \/ /\ call[c].op = "delete" /\ Removes(call[c].key)
          /\ call' = [Noted({}, {call[c].key}) EXCEPT ![c] = Idle]

\* end() of the connector in memory forgets everything; iterators find an empty map.
end == /\ backend = "memory"
       /\ objects' = [k \in Keys |-> 0] /\ slots' = [i \in DOMAIN slots |-> 0]
       /\ call' = Noted({}, Keys) /\ UNCHANGED <<backend, puts, answer>>

Next == \/ connect \/ end
        \/ \E c \in Callers : \/ put(c) \/ bytesFromStream(c) \/ readStream(c) \/ get(c) \/ head(c)
                              \/ delete(c) \/ list(c) \/ Pulls(c) \/ ListEnds(c)
                              \/ Serves(c) \/ ServesBody(c) \/ Fails(c)

Spec == Init /\ [][Next]_vars

-----------------------------------------------------------------------------
(* Properties. *)

TypeOK == /\ backend \in Backends \cup {"none"}
          /\ \A k \in Keys : objects[k] \in 0..puts
          /\ Present = ToSet(slots) \ {0}
          /\ \A c \in Callers : /\ call[c].step \in {"idle", "reading", "sent", "body", "pulling", "listed"}
                                /\ answer[c].kind \in {"none", "found", "missing", "failed"}

\* A listing that came to its end has each object that was there all the time, once,
\* and none that was not there at any time of it, whatever was put and deleted
\* between its pages and entries.
ListsWhatIsThere ==
    \A c \in Callers : call[c].step = "listed" =>
        /\ ToSet(call[c].listed) \subseteq call[c].ever
        /\ \A k \in call[c].always : Cardinality({i \in DOMAIN call[c].listed :
                                                       call[c].listed[i] = k}) = 1

\* A get that returns an object returns a body with its own metadata, but from GCS, whose
\* body may be a later one.
BodyHasItsMetadata ==
    \A c \in Callers : answer[c].kind = "found" =>
        IF backend = "gcs" THEN answer[c].body >= answer[c].metadata
                           ELSE answer[c].body = answer[c].metadata

\* A caller that has been told an object is missing had no time at which to see it.
OnlyTheMissingAreMissed ==
    [][\A c \in Callers : call[c].op \in {"get", "head"} /\ call[c].key \in call[c].always
                              => answer'[c].kind # "missing"]_vars

=============================================================================
