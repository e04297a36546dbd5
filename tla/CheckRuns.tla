------------------------------ MODULE CheckRuns ------------------------------
(***************************************************************************)
(* A check run under withCheckRun (packages/check-runs) on one of the two  *)
(* clients, in memory or GitHub's (packages/check-runs-github), with the   *)
(* batcher of its annotations and a watcher.  The batcher is a loop over a *)
(* channel, an interval and close(), which share one buffer.  The channel  *)
(* keeps what BoundedChannel promises.                                     *)
(***************************************************************************)
EXTENDS Integers, Sequences, FiniteSets, SequencesExt

CONSTANTS MaxAnnotations,  \* bound: calls of writeAnnotation
          BatchSize        \* batchSize, and the capacity of the channel

Annotations == 1..MaxAnnotations

VARIABLES client,    \* "none", "memory", "github"
          status,    \* of the stored check run
          stage,     \* of withCheckRun
          outcome,   \* finalConclusion
          chan,      \* the channel: [open, items]
          write,     \* per annotation: "none", "waiting", "sent", "dropped"
          buffer,    \* of the batcher
          flight,    \* what onFlush sends, <<>> when not flushing
          loop,      \* runLoop: "none", "reading", "flushing", "done"
          watch,     \* a watcher
          accepted, flushed  \* history

batcher == <<chan, write, buffer, flight, loop, accepted, flushed>>
vars == <<client, status, stage, outcome, batcher, watch>>

Unwatched == [stage |-> "none", current |-> "none", seen |-> "none", cut |-> FALSE]

Init == /\ client = "none" /\ status = "none" /\ stage = "none" /\ outcome = "success"
        /\ chan = [open |-> FALSE, items |-> <<>>]
        /\ write = [a \in Annotations |-> "none"]
        /\ buffer = <<>> /\ flight = <<>> /\ loop = "none"
        /\ watch = Unwatched /\ accepted = <<>> /\ flushed = <<>>

-----------------------------------------------------------------------------
(* The store, and its watchers. *)

\* notifyWatchers of the client in memory: a watcher at its yield misses the call,
\* but finds what it has set.  GitHub tells nobody.
notifyWatchers(new) ==
    IF client = "memory" /\ watch.stage \in {"yield", "wait"}
    THEN watch' = [watch EXCEPT !.current = new,
                                !.stage = IF @ = "wait" THEN "top" ELSE @]
    ELSE UNCHANGED watch

Store(new) == status' = new /\ notifyWatchers(new)

\* The clients' methods: the one in memory stores and notifies, GitHub's sends a
\* request, which may fail on the way, by its status or by what it answers.
InMemory(new) == client = "memory" /\ Store(new)
request(new) == client = "github" /\ (Store(new) \/ UNCHANGED <<status, watch>>)

createInMemory == client' = "memory"
createOnGithub == client' = "github"

\* A created run is "queued" if nothing else is asked for.
create == /\ stage = "none" /\ (createInMemory \/ createOnGithub)
          /\ status' \in {"queued", "in_progress"} /\ stage' = "created"
          /\ UNCHANGED <<outcome, batcher, watch>>

\* The channel and the batcher of a started run.
setupStartedCheckRun == /\ stage' = "using" /\ loop' = "reading"
                        /\ chan' = [chan EXCEPT !.open = TRUE]

\* A run in memory that is in progress is taken as it is; a completed one would be
\* an error.
startInMemory == /\ IF status = "in_progress" THEN client = "memory" /\ UNCHANGED <<status, watch>>
                                               ELSE InMemory("in_progress")
                 /\ setupStartedCheckRun

\* When the request fails there is nothing to release.
startOnGithub == \/ client = "github" /\ Store("in_progress") /\ setupStartedCheckRun
                 \/ request("in_progress") /\ stage' = "failed" /\ UNCHANGED <<loop, chan>>

start == /\ stage = "created" /\ (startInMemory \/ startOnGithub)
         /\ UNCHANGED <<client, outcome, write, buffer, flight, accepted, flushed>>

\* update with a title, a summary or a text; annotations go through the channel.
updateInMemory == InMemory(status)
updateOnGithub == request(status)
update == /\ stage = "using" /\ (updateInMemory \/ updateOnGithub)
          /\ UNCHANGED <<client, stage, outcome, batcher>>

\* The callback of withCheckRun settles, and complete() closes the batcher first.
UseSettles == /\ stage = "using"
              /\ outcome' \in {"success", "failure"}
              /\ stage' = "closing" /\ chan' = [chan EXCEPT !.open = FALSE]
              /\ write' = [a \in Annotations |-> IF write[a] = "waiting" THEN "dropped" ELSE write[a]]
              /\ UNCHANGED <<client, status, watch, buffer, flight, loop, accepted, flushed>>

completeInMemory == InMemory("completed")
completeOnGithub == request("completed")
complete == /\ stage = "completing" /\ stage' = "done"
            /\ (completeInMemory \/ completeOnGithub)
            /\ UNCHANGED <<client, outcome, batcher>>

-----------------------------------------------------------------------------
(* writeAnnotation, and the batcher. *)

HasRoom == Len(chan.items) < BatchSize

writeAnnotation(a) ==
    /\ \/ write[a] = "none" /\ stage \notin {"none", "created", "failed"}
       \/ write[a] = "waiting" /\ HasRoom
    /\ IF chan.open /\ HasRoom
       THEN /\ chan' = [chan EXCEPT !.items = Append(@, a)]
            /\ accepted' = Append(accepted, a) /\ write' = [write EXCEPT ![a] = "sent"]
       ELSE /\ write' = [write EXCEPT ![a] = IF chan.open THEN "waiting" ELSE "dropped"]
            /\ UNCHANGED <<chan, accepted>>
    /\ UNCHANGED <<client, status, stage, outcome, buffer, flight, loop, flushed, watch>>

\* flush(): nothing while another flush is under way.
flush(items) == IF items = <<>> \/ flight # <<>>
                THEN buffer' = items /\ UNCHANGED flight
                ELSE buffer' = <<>> /\ flight' = items

runLoop ==
    /\ loop = "reading"
    /\ IF chan.items # <<>>
       THEN LET items == Append(buffer, Head(chan.items)) IN
            /\ chan' = [chan EXCEPT !.items = Tail(@)]
            /\ IF Len(items) >= BatchSize
               THEN /\ flush(items)
                    /\ loop' = IF flight = <<>> THEN "flushing" ELSE "reading"
               ELSE buffer' = items /\ UNCHANGED <<flight, loop>>
       ELSE ~chan.open /\ loop' = "done" /\ UNCHANGED <<chan, buffer, flight>>
    /\ UNCHANGED <<client, status, stage, outcome, write, accepted, flushed, watch>>

\* The interval finds that flushInterval has passed.
IntervalFlushes ==
    /\ stage = "using" /\ loop # "done" /\ flight = <<>> /\ buffer # <<>>
    /\ flush(buffer)
    /\ UNCHANGED <<client, status, stage, outcome, chan, write, loop, accepted, flushed, watch>>

\* client.update has settled; its failure is logged.
FlushSettles ==
    /\ flight # <<>>
    /\ flushed' = flushed \o flight /\ flight' = <<>>
    /\ loop' = IF loop = "flushing" THEN "reading" ELSE loop
    /\ UNCHANGED <<client, status, stage, outcome, chan, write, buffer, accepted, watch>>

\* Fault: close does not wait for a flush under way.
close_NoWait ==
    /\ stage = "closing" /\ loop = "done"
    /\ flush(buffer) /\ stage' = "completing"
    /\ UNCHANGED <<client, status, outcome, chan, write, loop, accepted, flushed, watch>>

\* close(): the loop has ended and no flush is under way; the rest is flushed.
close ==
    /\ stage = "closing" /\ loop = "done" /\ flight = <<>>
    /\ IF buffer # <<>> THEN flush(buffer) /\ UNCHANGED stage
                        ELSE stage' = "completing" /\ UNCHANGED <<buffer, flight>>
    /\ UNCHANGED <<client, status, outcome, chan, write, loop, accepted, flushed, watch>>

-----------------------------------------------------------------------------
(* watch: GitHub's client polls, the one in memory is notified. *)

watching == /\ watch.stage = "none" /\ stage # "none"
            /\ \/ watch' = [watch EXCEPT !.stage = "top", !.current = status]
               \/ client = "github" /\ watch' = [watch EXCEPT !.stage = "done", !.cut = TRUE]
            /\ UNCHANGED <<client, status, stage, outcome, batcher>>

\* The signal and the timeout are looked at before each yield only.
Offers == /\ watch.stage = "top"
          /\ \/ watch' = [watch EXCEPT !.stage = "yield", !.seen = watch.current]
             \/ watch' = [watch EXCEPT !.stage = "done", !.cut = TRUE]
          /\ UNCHANGED <<client, status, stage, outcome, batcher>>

\* The consumer comes back.
Looks == /\ watch.stage = "yield"
         /\ watch' = [watch EXCEPT !.stage = IF watch.current = "completed" THEN "done" ELSE "wait"]
         /\ UNCHANGED <<client, status, stage, outcome, batcher>>

\* After the interval the run is read again; that may fail, or the signal be aborted.
Polls == /\ watch.stage = "wait" /\ client = "github"
         /\ \/ watch' = [watch EXCEPT !.stage = "top", !.current = status]
            \/ watch' = [watch EXCEPT !.stage = "done", !.cut = TRUE]
         /\ UNCHANGED <<client, status, stage, outcome, batcher>>

Next == \/ create \/ start \/ update \/ UseSettles \/ complete
        \/ \E a \in Annotations : writeAnnotation(a)
        \/ runLoop \/ IntervalFlushes \/ FlushSettles \/ close
        \/ watching \/ Offers \/ Looks \/ Polls

Spec == Init /\ [][Next]_vars

-----------------------------------------------------------------------------
TypeOK == /\ stage \in {"none", "created", "failed", "using", "closing", "completing", "done"}
          /\ status \in {"none", "queued", "in_progress", "completed"}
          /\ Len(chan.items) <= BatchSize /\ loop \in {"none", "reading", "flushing", "done"}
          /\ loop = "flushing" => flight # <<>>

\* An annotation that writeAnnotation has accepted is sent once, in order, and before
\* the run is completed, whichever of the loop, the interval and close() flushes it.
AnnotationsAreKept ==
    /\ flushed \o flight \o buffer \o chan.items = accepted
    /\ stage \in {"completing", "done"} => flushed = accepted

\* A watcher of GitHub's client that was not cut short has seen the last state.
WatchersSeeTheEnd == client = "github" /\ watch.stage = "done" /\ ~watch.cut
                        => watch.seen = "completed"

\* "Maximum annotations per batch. GitHub limits to 50" (types.ts:55).
BatchesAreSmall == Len(flight) <= BatchSize

=============================================================================
