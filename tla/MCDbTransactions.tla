-------------------------- MODULE MCDbTransactions --------------------------
(* DbTransactions with a chain of nested calls, or with a row of them. *)
EXTENDS DbTransactions

CONSTANTS t1, t2, t3, t4

MCTxns == {t1, t2, t3, t4}

\* t1 calls t2 and t2 calls t3, then t4 is called.
Chain == (t1 :> None) @@ (t2 :> t1) @@ (t3 :> t2) @@ (t4 :> None)

\* t1 calls t2, then t3 and t4 are called.
Row == (t1 :> None) @@ (t2 :> t1) @@ (t3 :> None) @@ (t4 :> None)

=============================================================================
