---------------------------- MODULE MCDealEscrow ----------------------------
(* The small instances of MCDealLifecycle, for the refinement of Escrow and   *)
(* for the screens.                                                          *)
EXTENDS MCDealLifecycle, DealEscrow, DealScreens
=============================================================================
