----------------------------- MODULE MCEventLog -----------------------------
(* EventLog on a short topic; the constants are in the cfgs.  The consumers *)
(* are interchangeable: no definition of EventLog tells them apart.         *)
EXTENDS EventLog, TLC

Symmetry == Permutations(Consumers)

\* A bounded channel with two handlers at a time, and an unbounded one with one.
MCOptions == {[size |-> 1, limit |-> 2], [size |-> Infinity, limit |-> 1]}

=============================================================================
