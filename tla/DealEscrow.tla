----------------------------- MODULE DealEscrow -----------------------------
(***************************************************************************)
(* DealLifecycle implements Escrow: the box of a deal is its balance on    *)
(* the ESCROW account, and everything else a deal does stutters.           *)
(***************************************************************************)
EXTENDS DealLifecycle

(* What a deal can be worth, and the differences a renegotiation settles. *)
EscrowAmounts == DealAmounts \cup ({a - b : a, b \in DealAmounts} \cap Nat)

Box == INSTANCE Escrow WITH
    Amounts  <- EscrowAmounts,
    stage    <- [d \in Deals |-> StageOf(deal[d].escrow)],
    box      <- [d \in Deals |-> ledger[d].escrow],
    paidIn   <- [d \in Deals |-> ledger[d].clearing],
    paidBack <- [d \in Deals |-> ledger[d].refunds],
    paidOut  <- [d \in Deals |-> ledger[d].creator + ledger[d].fees]

(* The money of every deal behaves as the abstract escrow: whatever order    *)
(* payments, negotiations, deliveries and sweeps come in, it is put in once, *)
(* adjusted while it is held, and leaves once and whole.                     *)
ImplementsEscrow == Box!EscrowSpec
=============================================================================
