----------------------------- MODULE MCSchedule -----------------------------
(* Schedule with an expression that matches once in a year of the model. *)
EXTENDS Schedule

Only(n) == {[kind |-> "one", from |-> n]}
Star == {[kind |-> "all"]}

\* "0 0 1 1 *"
MCExpressions == {[second |-> {}, minute |-> Only(0), hour |-> Only(0), dom |-> Only(1),
                   month |-> Only(1), dow |-> Star]}

=============================================================================
