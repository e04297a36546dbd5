----------------------------- MODULE QueueStreams -----------------------------
(***************************************************************************)
(* The class Queue of packages/queue/queue.ts over any adapter: the calls  *)
(* that it wraps, stream() which takes one batch, and continuousStream()   *)
(* which polls until its signal is aborted or reads a subscription.  The   *)
(* adapter is seen through how its calls settle.                           *)
(***************************************************************************)
EXTENDS Integers, Sequences, FiniteSets, SequencesExt

CONSTANTS MaxMessages,  \* bound: messages that are in the queue
          Count,        \* messages of a batch
          MaxSends      \* bound: items of sendBatch({parallel: true})

Streams == {"stream", "poll", "subscribe"}
Sends == 1..MaxSends

VARIABLES kind,     \* the stream that is read, "none" so far
          stage,    \* "none", "receive", "batch", "offer", "sleep", "done"
          left,     \* messages in the queue
          batch,    \* received and not yet given out
          offered,  \* the result that was yielded
          delay,    \* the backoff, in doublings of the initial delay
          aborted,  \* the signal
          yielded,  \* history: messages given out
          sends,    \* per item of a parallel batch: "none", "sent", "ok", "failed"
          answer    \* of sendBatch: "none", "ids", "error"

stream == <<kind, stage, left, batch, offered, delay, aborted, yielded>>
vars == <<stream, sends, answer>>

MaxBackoff == 2

Init == /\ kind = "none" /\ stage = "none" /\ left = MaxMessages /\ batch = <<>>
        /\ offered = "none" /\ delay = 0 /\ aborted = FALSE /\ yielded = <<>>
        /\ sends = [n \in Sends |-> "none"] /\ answer = "none"

UnchangedSends == UNCHANGED <<sends, answer>>

-----------------------------------------------------------------------------
(* The loop. *)

\* Iterating the source; the loop asks the signal before each poll.
iterate(k) == /\ kind = "none" /\ kind' = k
              /\ stage' = IF aborted /\ k = "poll" THEN "done" ELSE "receive"
              /\ UNCHANGED <<left, batch, offered, delay, aborted, yielded>> /\ UnchangedSends

Messages == MaxMessages - left
\* receive() settles: a batch, an empty one, or an error.  A subscription hands
\* its messages out one at a time, and may end or fail.
Receives == \E n \in 0..left :
    /\ stage = "receive" /\ n <= (IF kind = "subscribe" THEN 1 ELSE Count)
    /\ left' = left - n /\ batch' = [i \in 1..n |-> Messages + i]
    /\ \/ n > 0 /\ stage' = "batch" /\ delay' = 0
       \/ n = 0 /\ kind = "poll" /\ stage' = "sleep" /\ UNCHANGED delay
       \/ n = 0 /\ kind # "poll" /\ stage' = "done" /\ UNCHANGED delay
    /\ UNCHANGED <<kind, offered, aborted, yielded>> /\ UnchangedSends

\* An error after the abort is not reported; stream() throws it to Source.from.
ReceiveFails ==
    /\ stage = "receive"
    /\ IF aborted /\ kind # "stream" THEN stage' = "done" /\ UNCHANGED offered
                                     ELSE stage' = "offer" /\ offered' = "error"
    /\ UNCHANGED <<kind, left, batch, delay, aborted, yielded>> /\ UnchangedSends

\* The signal is looked at before each message of a batch.
GivesOut ==
    /\ stage = "batch"
    /\ IF aborted /\ kind # "stream"
       THEN stage' = "done" /\ UNCHANGED <<batch, offered, yielded>>
       ELSE /\ stage' = "offer" /\ offered' = "success"
            /\ batch' = Tail(batch) /\ yielded' = Append(yielded, Head(batch))
    /\ UNCHANGED <<kind, left, delay, aborted>> /\ UnchangedSends

\* The consumer asks for the next result.
After(result) == IF result = "success" /\ batch # <<>> THEN "batch"
                 ELSE CASE kind = "stream" -> "done"
                        [] kind = "subscribe" -> IF result = "error" THEN "done" ELSE "receive"
                        [] kind = "poll" -> IF result = "error" THEN "sleep"
                                            ELSE IF aborted THEN "done" ELSE "receive"
Resumes == /\ stage = "offer"
           /\ stage' = After(offered) /\ offered' = "none"
           /\ UNCHANGED <<kind, left, batch, delay, aborted, yielded>> /\ UnchangedSends

\* sleep() ends with the signal, at once if it was aborted before ...
SleepIsAborted == /\ stage = "sleep" /\ aborted
                  /\ stage' = "done"
                  /\ UNCHANGED <<kind, left, batch, offered, delay, aborted, yielded>>
                  /\ UnchangedSends

\* ... or with its timer, and the next one is twice as long.
TimerFires == /\ stage = "sleep" /\ ~aborted
              /\ stage' = "receive" /\ delay' = IF delay = MaxBackoff THEN delay ELSE delay + 1
              /\ UNCHANGED <<kind, left, batch, offered, aborted, yielded>> /\ UnchangedSends

Abort == /\ ~aborted /\ aborted' = TRUE
         /\ UNCHANGED <<kind, stage, left, batch, offered, delay, yielded>> /\ UnchangedSends

\* The consumer leaves at a yield.
Return == /\ stage = "offer" /\ stage' = "done" /\ offered' = "none"
          /\ UNCHANGED <<kind, left, batch, delay, aborted, yielded>> /\ UnchangedSends

-----------------------------------------------------------------------------
(* sendBatch with parallel: Promise.all over a send per item. *)

sendBatch == /\ kind = "none" /\ \A n \in Sends : sends[n] = "none"
             /\ sends' = [n \in Sends |-> "sent"]
             /\ UNCHANGED <<stream, answer>>

\* Fault: allSettled would wait for every item and answer whatever happened.
SendSettles_Lenient(n, how) ==
    /\ sends[n] = "sent" /\ sends' = [sends EXCEPT ![n] = how]
    /\ answer' = IF \A m \in Sends : sends'[m] # "sent" THEN "ids" ELSE answer
    /\ UNCHANGED stream

\* The first that fails rejects the batch; the others go on.
SendSettles(n, how) ==
    /\ sends[n] = "sent" /\ sends' = [sends EXCEPT ![n] = how]
    /\ answer' = IF answer # "none" THEN answer
                 ELSE IF how = "failed" THEN "error"
                 ELSE IF \A m \in Sends : sends'[m] = "ok" THEN "ids" ELSE "none"
    /\ UNCHANGED stream

Next == \/ \E k \in Streams : iterate(k)
        \/ Receives \/ ReceiveFails \/ GivesOut \/ Resumes
        \/ SleepIsAborted \/ TimerFires \/ Abort \/ Return
        \/ sendBatch \/ \E n \in Sends, how \in {"ok", "failed"} : SendSettles(n, how)

Spec == Init /\ [][Next]_vars

\* The adapter answers and the consumer comes back; a timer may take its time.
Fairness == /\ WF_vars(Receives \/ ReceiveFails) /\ WF_vars(GivesOut)
            /\ WF_vars(Resumes) /\ WF_vars(SleepIsAborted)

-----------------------------------------------------------------------------
TypeOK == /\ kind \in Streams \cup {"none"}
          /\ stage \in {"none", "receive", "batch", "offer", "sleep", "done"}
          /\ left \in 0..MaxMessages /\ delay \in 0..MaxBackoff
          /\ (stage = "batch") => (batch # <<>>)
          /\ offered \in {"none", "success", "error"}
          /\ answer \in {"none", "ids", "error"}

\* Messages come out once, in the order of the broker, and none of a batch is skipped
\* unless the stream was stopped; and ids are returned only when every send was made.
StreamIsFaithful ==
    /\ IsPrefix(yielded, [n \in 1..Messages |-> n])
    /\ stage # "done" => yielded \o batch = [n \in 1..Messages |-> n]
    /\ answer = "ids" => \A n \in Sends : sends[n] = "ok"

\* An abort ends a continuous stream without waiting for the timer of its backoff.
AbortEndsTheStream == (aborted /\ kind # "none") ~> (stage = "done")

\* queue.ts:260: after the abort the stream will "complete after processing any
\* in-flight messages": what was received is given out before the stream ends.
InFlightIsProcessed == (stage = "done" /\ aborted /\ kind = "poll") => batch = <<>>

=============================================================================
