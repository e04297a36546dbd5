--------------------------- MODULE MCChannelSource ---------------------------
(* Small instances of ChannelSource for TLC. *)
EXTENDS ChannelSource, TLC

\* Senders are interchangeable.  Not used
\* where liveness is checked.
Symmetry == Permutations(Senders)

\* No caller waits for ever: a send comes back, unless a caller of waitForCapacity used
\* the wakeup of its slot; a close or an abort releases every caller, and the consumers
\* get the rest and end.
CallersReturn == BlockedSendReturns /\ CloseReleasesCallers /\ CloseDrains

=============================================================================
