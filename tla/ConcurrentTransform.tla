------------------------- MODULE ConcurrentTransform -------------------------
(***************************************************************************)
(* concurrentTransform of packages/anabranch/stream/stream-impl.ts, the    *)
(* engine of map() and flatMap() on a stream with a concurrency above one: *)
(* a pump that pulls the source and starts a handler per item, handlers    *)
(* that settle in any order and push their outputs, and the generator that *)
(* hands the outputs to the consumer.  They share one array of waiters and *)
(* one cancelled flag.                                                     *)
(***************************************************************************)
EXTENDS Integers, Sequences, FiniteSets, SequencesExt

CONSTANTS NumItems,        \* items the source yields before it ends
          MaxConcurrency,  \* Math.max(1, concurrency), or Infinity
          MaxBufferSize,   \* Math.max(1, bufferSize), or Infinity
          MaxOutputs,      \* outputs of one handler: 1 for map, any for flatMap
          Infinity

Items == 1..NumItems

ASSUME TransformAssumption ==
    /\ NumItems \in Nat /\ MaxOutputs \in Nat
    /\ Infinity \notin Nat
    /\ MaxConcurrency \in (Nat \ {0}) \cup {Infinity}
    /\ MaxBufferSize \in (Nat \ {0}) \cup {Infinity}

VARIABLES pump,       \* "none", "pulling" (in next()), "sleeping", "woken",
                      \* "closing" (in return()), "done"
          pulled,     \* items the source has yielded
          task,       \* per item: "none", "scheduled" (microtask queued),
                      \* "running" (handler called), "settled", "finished"
          inFlight, queue, done, cancelled,
          consumer,   \* "new", "suspended" (at the yield), "sleeping", "woken", "finished"
          outputs,    \* history: what handlers produced before the cancellation
          delivered,  \* history: what the consumer got
          early       \* history: the consumer left the loop

vars == <<pump, pulled, task, inFlight, queue, done, cancelled, consumer,
          outputs, delivered, early>>

-----------------------------------------------------------------------------
size == Len(queue)

SourceError == <<0, 0>>

\* Who is woken by wake(): every process in waiters.
Woken(p) == IF p = "sleeping" THEN "woken" ELSE p

wake == pump' = Woken(pump) /\ consumer' = Woken(consumer)

\* Faults: off by one in the limit of the handlers, or of the buffer.
PumpMustWait_OffByOne == \/ MaxConcurrency # Infinity /\ inFlight > MaxConcurrency
                         \/ MaxBufferSize # Infinity /\ size >= MaxBufferSize

PumpMustWait_BufferOffByOne == \/ MaxConcurrency # Infinity /\ inFlight >= MaxConcurrency
                               \/ MaxBufferSize # Infinity /\ size > MaxBufferSize

PumpMustWait == \/ MaxConcurrency # Infinity /\ inFlight >= MaxConcurrency
                \/ MaxBufferSize # Infinity /\ size >= MaxBufferSize

\* Fault: the pump does not look at cancelled after its sleep.
PumpHolds_IgnoresCancelled(item) ==
    \/ /\ PumpMustWait
       /\ pump' = "sleeping"
       /\ UNCHANGED <<task, inFlight>>
    \/ /\ ~PumpMustWait
       /\ inFlight' = inFlight + 1
       /\ task' = [task EXCEPT ![item] = "scheduled"]
       /\ pump' = "pulling"

\* The pump, holding an item: it sleeps, gives up, or schedules the handler and
\* asks for the next item.
PumpHolds(item) ==
    \/ /\ cancelled
       /\ pump' = "closing"
       /\ UNCHANGED <<task, inFlight>>
    \/ /\ ~cancelled /\ PumpMustWait
       /\ pump' = "sleeping"
       /\ UNCHANGED <<task, inFlight>>
    \/ /\ ~cancelled /\ ~PumpMustWait
       /\ inFlight' = inFlight + 1
       /\ task' = [task EXCEPT ![item] = "scheduled"]
       /\ pump' = "pulling"

-----------------------------------------------------------------------------
Init == /\ pump = "none" /\ pulled = 0
        /\ task = [i \in Items |-> "none"]
        /\ inFlight = 0 /\ queue = <<>>
        /\ done = FALSE /\ cancelled = FALSE
        /\ consumer = "new"
        /\ outputs = {} /\ delivered = <<>> /\ early = FALSE

\* The first next(): the pump asks the source, the consumer finds nothing.
Start == /\ consumer = "new"
         /\ pump' = "pulling"
         /\ consumer' = "sleeping"
         /\ UNCHANGED <<pulled, task, inFlight, queue, done, cancelled, outputs, delivered, early>>

SourceYields == /\ pump = "pulling" /\ pulled < NumItems
                /\ pulled' = pulled + 1
                /\ PumpHolds(pulled')
                /\ UNCHANGED <<queue, done, cancelled, consumer, outputs, delivered, early>>

PumpResumes == /\ pump = "woken"
               /\ PumpHolds(pulled)
               /\ UNCHANGED <<pulled, queue, done, cancelled, consumer, outputs, delivered, early>>

SourceEnds == /\ pump = "pulling" /\ pulled = NumItems
              /\ pump' = "closing"
              /\ UNCHANGED <<pulled, task, inFlight, queue, done, cancelled, consumer,
                             outputs, delivered, early>>

SourceThrows == /\ pump = "pulling"
                /\ pump' = "closing"
                /\ IF cancelled THEN UNCHANGED <<queue, outputs, consumer>>
                                ELSE /\ queue' = Append(queue, SourceError)
                                     /\ outputs' = outputs \cup {SourceError}
                                     /\ consumer' = Woken(consumer)
                /\ UNCHANGED <<pulled, task, inFlight, done, cancelled, delivered, early>>

\* sourceIter.return() has settled.
PumpEnds == /\ pump = "closing"
            /\ pump' = "done"
            /\ done' = TRUE
            /\ consumer' = Woken(consumer)
            /\ UNCHANGED <<pulled, task, inFlight, queue, cancelled, outputs, delivered, early>>

HandlerStarts(i) == /\ task[i] = "scheduled"
                    /\ task' = [task EXCEPT ![i] = "running"]
                    /\ UNCHANGED <<pump, pulled, inFlight, queue, done, cancelled, consumer,
                                   outputs, delivered, early>>

\* The handler settles with n outputs; an error it throws is one output.
HandlerSettles(i) ==
    /\ task[i] = "running"
    /\ task' = [task EXCEPT ![i] = "settled"]
    /\ \E n \in 0..MaxOutputs :
          IF cancelled \/ n = 0
          THEN UNCHANGED <<queue, outputs, pump, consumer>>
          ELSE LET new == [k \in 1..n |-> <<i, k>>]
               IN  /\ queue' = queue \o new
                   /\ outputs' = outputs \cup ToSet(new)
                   /\ wake
    /\ UNCHANGED <<pulled, inFlight, done, cancelled, delivered, early>>

\* Fault: the finally callback does not wake the waiters.
HandlerFinally_NoWake(i) ==
    /\ task[i] = "settled"
    /\ task' = [task EXCEPT ![i] = "finished"]
    /\ inFlight' = inFlight - 1
    /\ UNCHANGED <<pump, consumer, pulled, queue, done, cancelled, outputs, delivered, early>>

\* The finally callback runs in a later microtask than the pushes.
HandlerFinally(i) == /\ task[i] = "settled"
                     /\ task' = [task EXCEPT ![i] = "finished"]
                     /\ inFlight' = inFlight - 1
                     /\ wake
                     /\ UNCHANGED <<pulled, queue, done, cancelled, outputs, delivered, early>>

-----------------------------------------------------------------------------
\* Fault: the generator ends with the pump, whatever is in flight.
Exhausted_IgnoresInFlight == size = 0 /\ done

Exhausted == size = 0 /\ done /\ inFlight = 0

\* The generator from the resumption of the consumer to its next yield, sleep or
\* end; a consumer that comes back from the yield wakes the pump first.
ConsumerRuns ==
    /\ consumer \in {"woken", "suspended"}
    /\ \/ /\ size > 0
          /\ delivered' = Append(delivered, Head(queue))
          /\ queue' = Tail(queue)
          /\ consumer' = "suspended"
          /\ pump' = IF consumer = "suspended" THEN Woken(pump) ELSE pump
          /\ UNCHANGED cancelled
       \/ /\ size = 0 /\ ~Exhausted
          /\ consumer' = "sleeping"
          /\ pump' = IF consumer = "suspended" THEN Woken(pump) ELSE pump
          /\ UNCHANGED <<queue, delivered, cancelled>>
       \/ /\ Exhausted
          /\ consumer' = "finished"
          /\ cancelled' = TRUE
          /\ pump' = Woken(pump)
          /\ UNCHANGED <<queue, delivered>>
    /\ UNCHANGED <<pulled, task, inFlight, done, outputs, early>>

\* The consumer breaks out of its loop at a yield.
ConsumerLeaves == /\ consumer = "suspended"
                  /\ consumer' = "finished" /\ early' = TRUE
                  /\ cancelled' = TRUE
                  /\ pump' = Woken(pump)
                  /\ UNCHANGED <<pulled, task, inFlight, queue, done, outputs, delivered>>

Next == \/ Start \/ SourceYields \/ PumpResumes \/ SourceEnds \/ SourceThrows \/ PumpEnds
        \/ \E i \in Items : HandlerStarts(i) \/ HandlerSettles(i) \/ HandlerFinally(i)
        \/ ConsumerRuns \/ ConsumerLeaves

Spec == Init /\ [][Next]_vars

\* The source and the handlers settle, resumed code runs, and the consumer keeps
\* asking until it is told the end or breaks.
Fairness == /\ WF_vars(ConsumerRuns)
            /\ WF_vars(SourceYields \/ SourceEnds \/ PumpResumes \/ PumpEnds)
            /\ \A i \in Items : WF_vars(HandlerStarts(i) \/ HandlerSettles(i) \/ HandlerFinally(i))

FairSpec == Spec /\ Fairness

-----------------------------------------------------------------------------
(* Properties. *)

InFlightTasks == {i \in Items : task[i] \in {"scheduled", "running", "settled"}}

TypeOK == /\ pump \in {"none", "pulling", "sleeping", "woken", "closing", "done"}
          /\ pulled \in 0..NumItems
          /\ task \in [Items -> {"none", "scheduled", "running", "settled", "finished"}]
          /\ inFlight \in Nat
          /\ queue \in Seq((0..NumItems) \X (0..MaxOutputs))
          /\ done \in BOOLEAN /\ cancelled \in BOOLEAN /\ early \in BOOLEAN
          /\ consumer \in {"new", "suspended", "sleeping", "woken", "finished"}
          /\ outputs \subseteq (0..NumItems) \X (0..MaxOutputs)
          /\ delivered \in Seq((0..NumItems) \X (0..MaxOutputs))

\* The counter is the number of handlers not yet through their finally callback,
\* and never more than the concurrency allows, however the pump is woken.
ConcurrencyIsBounded ==
    /\ inFlight = Cardinality(InFlightTasks)
    /\ MaxConcurrency # Infinity => inFlight <= MaxConcurrency

\* withBufferSize() holds back the pump, not the handlers that run already: the
\* results pile up to what those can still add, and no further.  The one extra
\* is the error of a source that fails.
BacklogIsBounded ==
    MaxConcurrency # Infinity /\ MaxBufferSize # Infinity =>
        size <= MaxBufferSize - 1 + MaxConcurrency * MaxOutputs + 1

\* The types, and with them the limit of the backlog.
WithinLimits == TypeOK /\ BacklogIsBounded

\* Each output of each handler is delivered once: nothing is lost between the
\* push, the end of the pump and the last finally callback, unless the consumer
\* left early.
OutputsDeliveredOnce ==
    /\ ToSet(delivered \o queue) = outputs
    /\ IsInjective(delivered \o queue)
    /\ consumer = "finished" /\ ~early =>
          /\ queue = <<>> /\ pump = "done"
          /\ \A i \in 1..pulled : task[i] = "finished"

\* No lost wakeup among the processes that share waiters: the pump sleeps only
\* while a limit holds it back or a consumer at its yield is going to wake it, the
\* generator only while it has nothing to give and something may still come.
SleepersHaveAReason ==
    /\ pump = "sleeping" => ~cancelled /\ (PumpMustWait \/ consumer = "suspended")
    /\ consumer = "sleeping" => size = 0 /\ (~done \/ inFlight > 0)

\* After the consumer has left, no further handler is scheduled and no output is
\* queued, whatever the pump was waiting for.
NothingStartsAfterCancel ==
    [][cancelled => /\ \A i \in Items : task[i] = "none" => task'[i] = "none"
                    /\ queue' = queue]_vars

\* The consumer comes to an end, and then the source is closed.
EndsAndReleasesSource == consumer # "new" ~> consumer = "finished" /\ pump = "done"

=============================================================================
