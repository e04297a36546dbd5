---------------------------- MODULE Notifications ----------------------------
(***************************************************************************)
(* listen() and notify() on one channel name, of the connectors in memory  *)
(* (packages/db/in-memory.ts) and of PostgreSQL (packages/db-postgres).  In*)
(* memory a notification is put into the channels of the listeners at once;*)
(* PostgreSQL sends it to the clients that LISTEN, one for each listener.  *)
(*                                                                         *)
(* The n-th notification is n.  The listeners' channels are those of       *)
(* ChannelSource, with an unbounded buffer.                                *)
(***************************************************************************)
EXTENDS Integers, Sequences

CONSTANTS Listeners,
          MaxNotes   \* bound: notifications

VARIABLES backend,        \* "none", "memory" or "postgres"
          notes,          \* notifications published
          subscriptions,  \* in memory: the listeners whose channels are on the list
          state,          \* per listener: "none", "connecting", "listening", "closed"
          loop,           \* of its consumer: "none", "reading", "leaving", "over"
          buffer,         \* of its channel
          client,         \* "none", "up", "listening" (on the server), "ended"
          wire,           \* notifications on the way to its client
          failed,         \* the channel has the error of the client
          first, got      \* history: notes when it began to listen, and what it got

listener == <<state, loop, buffer, client, wire, failed, first, got>>
vars == <<backend, notes, subscriptions, listener>>

Init == /\ backend = "none" /\ notes = 0 /\ subscriptions = {}
        /\ state = [s \in Listeners |-> "none"] /\ loop = [s \in Listeners |-> "none"]
        /\ buffer = [s \in Listeners |-> <<>>] /\ client = [s \in Listeners |-> "none"]
        /\ wire = [s \in Listeners |-> <<>>] /\ failed = [s \in Listeners |-> FALSE]
        /\ first = [s \in Listeners |-> 0] /\ got = [s \in Listeners |-> <<>>]

create == /\ backend = "none" /\ backend' \in {"memory", "postgres"}
          /\ UNCHANGED <<notes, subscriptions, listener>>

-----------------------------------------------------------------------------
(* listen() *)

\* Fault: the list begins anew with each listener.
listenMemory_Alone(s) ==
    /\ backend = "memory" /\ state[s] = "none"
    /\ subscriptions' = {s} /\ state' = [state EXCEPT ![s] = "listening"]
    /\ first' = [first EXCEPT ![s] = notes]
    /\ UNCHANGED <<backend, notes, loop, buffer, client, wire, failed, got>>

listenMemory(s) ==
    /\ backend = "memory" /\ state[s] = "none"
    /\ subscriptions' = subscriptions \cup {s} /\ state' = [state EXCEPT ![s] = "listening"]
    /\ first' = [first EXCEPT ![s] = notes]
    /\ UNCHANGED <<backend, notes, loop, buffer, client, wire, failed, got>>

\* A client is connected and sends LISTEN; when one of the two fails it is ended.
listenPostgres(s) ==
    /\ backend = "postgres"
    /\ \/ /\ state[s] = "none" /\ state' = [state EXCEPT ![s] = "connecting"]
          /\ client' = [client EXCEPT ![s] = "up"]
       \/ /\ state[s] = "connecting" /\ client[s] = "up" /\ UNCHANGED state
          /\ client' = [client EXCEPT ![s] = "listening"]
       \/ /\ state[s] = "connecting" /\ state' = [state EXCEPT ![s] = "closed"]
          /\ client' = [client EXCEPT ![s] = "ended"]
    /\ UNCHANGED <<backend, notes, subscriptions, loop, buffer, wire, failed, first, got>>

\* LISTEN is answered, and the channel made.  Notifications that came with the answer
\* found no handler.
Listens(s) ==
    /\ state[s] = "connecting" /\ client[s] = "listening"
    /\ state' = [state EXCEPT ![s] = "listening"]
    /\ \E lost \in 0..Len(wire[s]) :
          /\ wire' = [wire EXCEPT ![s] = SubSeq(@, lost + 1, Len(@))]
          /\ first' = [first EXCEPT ![s] = notes - (Len(wire[s]) - lost)]
    /\ UNCHANGED <<backend, notes, subscriptions, loop, buffer, client, failed, got>>

-----------------------------------------------------------------------------
(* notify() *)

Open(s) == state[s] = "listening"

\* The listeners whose channels are closed are taken off the list.
notifyMemory ==
    /\ backend = "memory" /\ notes < MaxNotes /\ notes' = notes + 1
    /\ subscriptions' = {s \in subscriptions : Open(s)}
    /\ buffer' = [s \in Listeners |-> IF Open(s) /\ s \in subscriptions
                                      THEN Append(buffer[s], notes') ELSE buffer[s]]
    /\ UNCHANGED <<backend, state, loop, client, wire, failed, first, got>>

\* With a client of the pool; the server tells all that listen.
notifyPostgres ==
    /\ backend = "postgres" /\ notes < MaxNotes /\ notes' = notes + 1
    /\ wire' = [s \in Listeners |-> IF client[s] = "listening" THEN Append(wire[s], notes')
                                                              ELSE wire[s]]
    /\ UNCHANGED <<backend, subscriptions, state, loop, buffer, client, failed, first, got>>

\* trySend() into a channel that is closed does nothing.
Notified(s) ==
    /\ state[s] \in {"listening", "closed"} /\ wire[s] # <<>>
    /\ wire' = [wire EXCEPT ![s] = Tail(@)]
    /\ buffer' = IF Open(s) THEN [buffer EXCEPT ![s] = Append(@, Head(wire[s]))] ELSE buffer
    /\ UNCHANGED <<backend, notes, subscriptions, state, loop, client, failed, first, got>>

-----------------------------------------------------------------------------
(* The ends of a listener. *)

Closes(s) == state' = [state EXCEPT ![s] = "closed"]

\* endClient: what is on the way to the client is lost.
Ends(s) == /\ client' = [client EXCEPT ![s] = "ended"] /\ wire' = [wire EXCEPT ![s] = <<>>]

\* The client has an error, or its connection ends.
ClientError(s) == /\ Open(s) /\ client[s] = "listening"
                  /\ failed' = [failed EXCEPT ![s] = TRUE] /\ Closes(s) /\ Ends(s)
                  /\ UNCHANGED <<backend, notes, subscriptions, loop, buffer, first, got>>

ClientEnd(s) == /\ Open(s) /\ client[s] = "listening" /\ Closes(s) /\ Ends(s)
                /\ UNCHANGED <<backend, notes, subscriptions, loop, buffer, failed, first, got>>

close(s) == /\ Open(s) /\ Closes(s)
            /\ UNCHANGED <<backend, notes, subscriptions, loop, buffer, client, wire, failed,
                           first, got>>

\* The consumer iterates: it gets what is in the buffer ...
Reads(s) ==
    /\ state[s] \in {"listening", "closed"} /\ loop[s] \in {"none", "reading"}
    /\ buffer[s] # <<>> /\ loop' = [loop EXCEPT ![s] = "reading"]
    /\ got' = [got EXCEPT ![s] = Append(@, Head(buffer[s]))]
    /\ buffer' = [buffer EXCEPT ![s] = Tail(@)]
    /\ UNCHANGED <<backend, notes, subscriptions, state, client, wire, failed, first>>

\* ... to the end of the closed channel, or as long as it likes; the rest is dropped.
Leaves(s) ==
    /\ state[s] \in {"listening", "closed"}
    /\ \/ loop[s] = "reading"
       \/ loop[s] = "none" /\ state[s] = "closed" /\ buffer[s] = <<>>
    /\ loop' = [loop EXCEPT ![s] = "leaving"] /\ Closes(s)
    /\ buffer' = [buffer EXCEPT ![s] = <<>>]
    /\ UNCHANGED <<backend, notes, subscriptions, client, wire, failed, first, got>>

onCloseMemory(s) ==
    /\ backend = "memory" /\ loop[s] = "leaving"
    /\ subscriptions' = subscriptions \ {s}
    /\ loop' = [loop EXCEPT ![s] = "over"]
    /\ UNCHANGED <<backend, notes, state, buffer, client, wire, failed, first, got>>

\* UNLISTEN, whether it fails or not, and the end of the client.
onClosePostgres(s) ==
    /\ backend = "postgres" /\ loop[s] = "leaving" /\ loop' = [loop EXCEPT ![s] = "over"]
    /\ Ends(s)
    /\ UNCHANGED <<backend, notes, subscriptions, state, buffer, failed, first, got>>

Next == \/ create \/ notifyMemory \/ notifyPostgres
        \/ \E s \in Listeners : \/ listenMemory(s) \/ listenPostgres(s) \/ Listens(s)
                                \/ Notified(s) \/ ClientError(s) \/ ClientEnd(s) \/ close(s)
                                \/ Reads(s) \/ Leaves(s) \/ onCloseMemory(s) \/ onClosePostgres(s)

Spec == Init /\ [][Next]_vars

-----------------------------------------------------------------------------
(* Properties. *)

TypeOK == /\ notes \in 0..MaxNotes /\ subscriptions \subseteq Listeners
          /\ \A s \in Listeners :
                /\ state[s] \in {"none", "connecting", "listening", "closed"}
                /\ loop[s] \in {"none", "reading", "leaving", "over"}
                /\ client[s] \in {"none", "up", "listening", "ended"}

\* What a listener has got, and what it has still to get while its channel is open, is
\* every notification since it began to listen, once and in order, whoever came and
\* left meanwhile.
EveryListenerIsTold ==
    \A s \in Listeners :
        LET all == got[s] \o buffer[s] \o (IF Open(s) THEN wire[s] ELSE <<>>) IN
        /\ \A i \in DOMAIN all : all[i] = first[s] + i
        /\ Open(s) => Len(all) = notes - first[s]

\* A listener whose consumer has left is on no list, and its client is ended.
ListenersLeaveNothing ==
    \A s \in Listeners : loop[s] = "over" =>
        s \notin subscriptions /\ client[s] \in {"none", "ended"}

=============================================================================
