-------------------------- MODULE MCDealLifecycle --------------------------
(* Small instances of DealLifecycle for TLC. *)
EXTENDS DealLifecycle, TLC

CONSTANTS d1, d2, i1, i2, i3, o1, o2, alice

OneDeal  == {d1}
TwoDeals == {d1, d2}
OneBuyer == [d \in Deals |-> alice]

(* Ids are interchangeable: none of them appears in a property by name. *)
IdSymmetry   == Permutations(Intents) \cup Permutations(CounterOffers)
DealSymmetry == IdSymmetry \cup Permutations(Deals)
=============================================================================
