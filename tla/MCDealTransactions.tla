-------------------------- MODULE MCDealTransactions --------------------------
(* Small instances of DealTransactions and DealOverwrites for TLC. *)
EXTENDS DealOverwrites, TLC

CONSTANTS t1, t2, t3, d1, d2, i1, i2

TransactionSymmetry ==
    Permutations(Transactions) \cup Permutations(Intents) \cup Permutations(Deals)
===============================================================================
