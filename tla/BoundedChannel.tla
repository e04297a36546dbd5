--------------------------- MODULE BoundedChannel ---------------------------
(***************************************************************************)
(* What Channel promises (the class comment of                             *)
(* packages/anabranch/channel/channel.ts and the comments of its methods): *)
(* one FIFO of accepted items, each delivered once; a send is accepted     *)
(* only while the channel is open and the buffer has room; a send that     *)
(* waits comes back when its value is accepted or, silently, when the      *)
(* channel is closed; an error is accepted whatever the room.              *)
(***************************************************************************)
EXTENDS Integers, Sequences

CONSTANTS Senders, BufferSize, Infinity

VARIABLES accepted,   \* items the channel took, in order
          delivered,  \* items its consumers got, in order
          closed,
          call        \* per sender: "idle", or "pending" in a send that waits

vars == <<accepted, delivered, closed, call>>

Room == BufferSize = Infinity \/ Len(accepted) - Len(delivered) < BufferSize

Init == /\ accepted = <<>> /\ delivered = <<>>
        /\ closed \in BOOLEAN
        /\ call = [s \in Senders |-> "idle"]

Wait(s) == /\ call[s] = "idle"
           /\ ~closed
           /\ call' = [call EXCEPT ![s] = "pending"]
           /\ UNCHANGED <<accepted, delivered, closed>>

Accept(s) == /\ ~closed /\ Room
             /\ accepted' = Append(accepted, [type |-> "success", from |-> s])
             /\ call' = [call EXCEPT ![s] = "idle"]
             /\ UNCHANGED <<delivered, closed>>

AcceptError(s) == /\ ~closed
                  /\ call[s] = "idle"
                  /\ accepted' = Append(accepted, [type |-> "error", from |-> s])
                  /\ UNCHANGED <<delivered, closed, call>>

GiveUp(s) == /\ call[s] = "pending"
             /\ closed
             /\ call' = [call EXCEPT ![s] = "idle"]
             /\ UNCHANGED <<accepted, delivered, closed>>

Deliver == /\ Len(delivered) < Len(accepted)
           /\ delivered' = Append(delivered, accepted[Len(delivered) + 1])
           /\ UNCHANGED <<accepted, closed, call>>

Close == /\ ~closed /\ closed' = TRUE
         /\ UNCHANGED <<accepted, delivered, call>>

Next == \/ \E s \in Senders : Wait(s) \/ Accept(s) \/ AcceptError(s) \/ GiveUp(s)
        \/ Deliver
        \/ Close

Spec == Init /\ [][Next]_vars

=============================================================================
