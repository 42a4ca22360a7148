------------------------------- MODULE Escrow -------------------------------
(***************************************************************************)
(* What the platform promises about the money of a deal, and nothing else: *)
(* it is put in a box of its own; while it is there it may be topped up or *)
(* partly given back; and it leaves the box once, all of it, either to the *)
(* seller's side or back to the buyer.  A box that was never filled is     *)
(* closed empty.  DealLifecycle implements this.                           *)
(***************************************************************************)
EXTENDS Integers

CONSTANTS
    Deals,
    Amounts  \* sums of money that change hands, natural numbers

VARIABLES
    stage,    \* per deal: "open", "held", or how it ended
    box,      \* what is in the box
    paidIn,   \* all that was ever put in
    paidBack, \* all that was ever given back to the buyer
    paidOut   \* all that went to the creator and to the platform

escrowVars == <<stage, box, paidIn, paidBack, paidOut>>

EscrowInit ==
    /\ stage    = [d \in Deals |-> "open"]
    /\ box      = [d \in Deals |-> 0]
    /\ paidIn   = [d \in Deals |-> 0]
    /\ paidBack = [d \in Deals |-> 0]
    /\ paidOut  = [d \in Deals |-> 0]

(* The buyer pays. *)
Fund(d, amount) ==
    /\ stage[d] = "open"
    /\ stage'  = [stage EXCEPT ![d] = "held"]
    /\ box'    = [box EXCEPT ![d] = amount]
    /\ paidIn' = [paidIn EXCEPT ![d] = @ + amount]
    /\ UNCHANGED <<paidBack, paidOut>>

(* The agreement got dearer and the buyer paid the difference. *)
Raise(d, amount) ==
    /\ stage[d] = "held"
    /\ box'    = [box EXCEPT ![d] = @ + amount]
    /\ paidIn' = [paidIn EXCEPT ![d] = @ + amount]
    /\ UNCHANGED <<stage, paidBack, paidOut>>

(* The agreement got cheaper and the difference went back. *)
Lower(d, amount) ==
    /\ stage[d] = "held"
    /\ amount <= box[d]
    /\ box'      = [box EXCEPT ![d] = @ - amount]
    /\ paidBack' = [paidBack EXCEPT ![d] = @ + amount]
    /\ UNCHANGED <<stage, paidIn, paidOut>>

Release(d) ==
    /\ stage[d] = "held"
    /\ stage'   = [stage EXCEPT ![d] = "released"]
    /\ box'     = [box EXCEPT ![d] = 0]
    /\ paidOut' = [paidOut EXCEPT ![d] = @ + box[d]]
    /\ UNCHANGED <<paidIn, paidBack>>

Return(d) ==
    /\ stage[d] = "held"
    /\ stage'    = [stage EXCEPT ![d] = "returned"]
    /\ box'      = [box EXCEPT ![d] = 0]
    /\ paidBack' = [paidBack EXCEPT ![d] = @ + box[d]]
    /\ UNCHANGED <<paidIn, paidOut>>

(* Content is paid and handed over at once: the box is never seen full. *)
FundAndRelease(d, amount) ==
    /\ stage[d] = "open"
    /\ stage'   = [stage EXCEPT ![d] = "released"]
    /\ paidIn'  = [paidIn EXCEPT ![d] = @ + amount]
    /\ paidOut' = [paidOut EXCEPT ![d] = @ + amount]
    /\ UNCHANGED <<box, paidBack>>

Void(d) ==
    /\ stage[d] = "open"
    /\ stage' = [stage EXCEPT ![d] = "void"]
    /\ UNCHANGED <<box, paidIn, paidBack, paidOut>>

EscrowStep(d) ==
    \/ \E amount \in Amounts : \/ Fund(d, amount)
                               \/ Raise(d, amount)
                               \/ Lower(d, amount)
                               \/ FundAndRelease(d, amount)
    \/ Release(d)
    \/ Return(d)
    \/ Void(d)

EscrowNext == \E d \in Deals : EscrowStep(d)

EscrowSpec == EscrowInit /\ [][EscrowNext]_escrowVars
=============================================================================
