--------------------------- MODULE MCReconciliation ---------------------------
(* Small instances of Reconciliation for TLC: every intent is of one deal. *)
EXTENDS Reconciliation, TLC

CONSTANTS i1, i2, d1, p1, w1, l1, t1, t2, r1

MCDealPaid == [i \in PaymentIntents |-> d1]
=============================================================================
