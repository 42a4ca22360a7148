----------------------------- MODULE DealEntity -----------------------------
(***************************************************************************)
(* The Deal aggregate of deals/domain/deal.ts as pure operators over one   *)
(* row of the deals table.  For every method m of the class there is a     *)
(* guard CanM(d), true when the method does not throw, and a result        *)
(* operator that returns the row after it.  The modules that hold deals as *)
(* state use both.                                                         *)
(*                                                                         *)
(* Deadlines are instants in the code, compared with an injected clock.    *)
(* Here each one is the number of ticks left until that instant: 0 once it *)
(* has been reached, NoDeadline where the column is null.                  *)
(*    expiresIn   expiresAt                                                *)
(*    lateIn      dueAt plus the late-delivery grace                       *)
(*    approvalIn  deliveredAt plus the approval window                     *)
(***************************************************************************)
EXTENDS Fees

CONSTANTS
    FeeBasisPoints,    \* PricingPolicy.platformFeeBasisPoints()
    ProposalWindow,    \* PricingPolicy.proposalWindowHours(), in ticks
    ApprovalWindow,    \* PricingPolicy.approvalWindowHours(), in ticks
    LateGrace,         \* PricingPolicy.lateDeliveryGraceHours(), in ticks
    RevisionsIncluded, \* offerSnapshot.revisionsIncluded
    Prices,            \* prices an offer or a counter-offer may carry
    Slas               \* delivery times an offer or a counter-offer may carry

ASSUME PolicyAssumption ==
    /\ FeeBasisPoints \in BasisPoints
    /\ ProposalWindow \in Nat
    /\ ApprovalWindow \in Nat
    /\ LateGrace \in Nat
    /\ RevisionsIncluded \in Nat
    /\ Prices \subseteq Nat
    /\ Slas \subseteq Nat
-----------------------------------------------------------------------------
NoDeadline == -1
Deadline   == Nat \cup {NoDeadline}

(* One tick closer to a deadline that is still ahead. *)
OneTickLess(deadline) == IF deadline > 0 THEN deadline - 1 ELSE deadline

DealStatus == {"PROPOSED", "COUNTER_OFFERED", "ACCEPTED", "IN_PROGRESS",
               "DELIVERED", "APPROVED", "PAID", "DECLINED", "REFUNDED",
               "EXPIRED"}

TerminalStatus == {"PAID", "DECLINED", "REFUNDED", "EXPIRED"}

EscrowStatus == {"PENDING", "HELD", "RELEASED", "REFUNDED", "FAILED"}

(* Offers that need a slot, offers that unlock a content item, and the rest, *)
(* among them content offers that no item was put on sale for.              *)
OfferKind == {"BOOKING", "CONTENT_UNLOCK", "CUSTOM_SERVICE"}

(* DEAL_TRANSITIONS and ESCROW_TRANSITIONS, as sets of pairs. *)
DealTransitions ==
    (   {"PROPOSED"} \X {"ACCEPTED", "DECLINED", "EXPIRED", "COUNTER_OFFERED"})
    \cup ({"ACCEPTED", "IN_PROGRESS"} \X {"DELIVERED", "REFUNDED"})
    \cup ({"DELIVERED"} \X {"APPROVED", "IN_PROGRESS", "REFUNDED"})
    \cup ({"APPROVED"} \X {"PAID"})
    \cup ({"COUNTER_OFFERED"} \X {"PROPOSED", "DECLINED", "EXPIRED"})

EscrowTransitions ==
    ({"PENDING"} \X {"HELD", "FAILED"}) \cup ({"HELD"} \X {"RELEASED", "REFUNDED"})

(* Mutant: the creator accepts the old terms while the new ones wait. *)
MoveToOrAccept(d, status) ==
    <<d.status, status>> \in DealTransitions \cup {<<"COUNTER_OFFERED", "ACCEPTED">>}

MoveTo(d, status)       == <<d.status, status>> \in DealTransitions
MoveEscrowTo(d, escrow) == <<d.escrow, escrow>> \in EscrowTransitions

(* "NONE" is not a status of the code: it marks the row of an id that has  *)
(* not been used yet.                                                      *)
DealRow ==
    [kind : OfferKind, status : DealStatus \cup {"NONE"}, escrow : EscrowStatus,
     price : Nat, sla : Nat, amount : Nat, platformFee : Nat, creatorNet : Nat,
     revisionCount : 0 .. RevisionsIncluded,
     expiresIn : Deadline, lateIn : Deadline, approvalIn : Deadline]

NoDeal ==
    [kind |-> "CUSTOM_SERVICE", status |-> "NONE", escrow |-> "PENDING",
     price |-> 0, sla |-> 0, amount |-> 0, platformFee |-> 0, creatorNet |-> 0,
     revisionCount |-> 0,
     expiresIn |-> NoDeadline, lateIn |-> NoDeadline, approvalIn |-> NoDeadline]
-----------------------------------------------------------------------------
(* T1, the buyer proposes. *)
OpenedDeal(kind, price, sla) ==
    LET split == SplitFees(price, FeeBasisPoints)
    IN  [kind |-> kind, status |-> "PROPOSED", escrow |-> "PENDING",
         price |-> price, sla |-> sla, amount |-> split.amount,
         platformFee |-> split.platformFee, creatorNet |-> split.creatorNet,
         revisionCount |-> 0, expiresIn |-> ProposalWindow,
         lateIn |-> NoDeadline, approvalIn |-> NoDeadline]

(* E1, the money is held.  The commercial status does not move. *)
CanHold(d)  == MoveEscrowTo(d, "HELD")
HeldDeal(d) == [d EXCEPT !.escrow = "HELD"]

(* T2, the creator accepts a deal that is paid and still in time. *)
CanAccept(d) ==
    /\ MoveTo(d, "ACCEPTED")
    /\ d.escrow = "HELD"
    /\ d.expiresIn # 0
AcceptedDeal(d) == [d EXCEPT !.status = "ACCEPTED", !.lateIn = d.sla + LateGrace]

(* T3 and T6, the creator or the buyer turns the terms down. *)
CanDecline(d)   == MoveTo(d, "DECLINED")
DeclinedDeal(d) == [d EXCEPT !.status = "DECLINED", !.expiresIn = NoDeadline]

(* T4, the creator answers with other terms.  No money moves. *)
CanCounterOffer(d)    == MoveTo(d, "COUNTER_OFFERED") /\ d.escrow = "HELD"
CounterOfferedDeal(d) == [d EXCEPT !.status = "COUNTER_OFFERED",
                                   !.expiresIn = ProposalWindow]

(* T5, the new terms replace the old ones.  Nothing asks whether the       *)
(* buyer's time to answer is over.                                         *)
CanRenegotiate(d) == MoveTo(d, "PROPOSED")

RenegotiatedDeal(d, price, sla) ==
    LET split == SplitFees(price, FeeBasisPoints)
    IN  [d EXCEPT !.status = "PROPOSED", !.price = price, !.sla = sla,
                  !.amount = split.amount, !.platformFee = split.platformFee,
                  !.creatorNet = split.creatorNet, !.expiresIn = ProposalWindow]

(* T8, T11 and T9: delivery, rejection of it, approval of it. *)
CanDeliver(d) == MoveTo(d, "DELIVERED")

(* Mutant: the approval window never starts. *)
DeliveredUndated(d) == [d EXCEPT !.status = "DELIVERED"]

DeliveredDeal(d) == [d EXCEPT !.status = "DELIVERED", !.approvalIn = ApprovalWindow]

(* Mutant: revisions are not counted against what was agreed. *)
CanRejectForEver(d) == MoveTo(d, "IN_PROGRESS")

CanReject(d) ==
    /\ MoveTo(d, "IN_PROGRESS")
    /\ d.revisionCount < RevisionsIncluded

RejectedDeal(d) ==
    [d EXCEPT !.status = "IN_PROGRESS", !.revisionCount = d.revisionCount + 1,
              !.approvalIn = NoDeadline, !.lateIn = d.sla + LateGrace]

CanApprove(d)   == MoveTo(d, "APPROVED")
ApprovedDeal(d) == [d EXCEPT !.status = "APPROVED"]

(* T12 and E2, the escrow goes to the creator. *)
CanSettle(d)   == MoveTo(d, "PAID") /\ MoveEscrowTo(d, "RELEASED")
SettledDeal(d) == [d EXCEPT !.status = "PAID", !.escrow = "RELEASED"]

(* Mutant: only the creator's silence lets a deal expire. *)
HasExpiredProposal(d) == d.status = "PROPOSED" /\ d.expiresIn = 0

(* T13: hasExpiredAt, and the assertion of expire. *)
HasExpired(d) ==
    /\ d.status \in {"PROPOSED", "COUNTER_OFFERED"}
    /\ d.expiresIn = 0
CanExpire(d)   == MoveTo(d, "EXPIRED") /\ d.expiresIn = 0
ExpiredDeal(d) == [d EXCEPT !.status = "EXPIRED"]

(* T15 and T16, the money goes back to the buyer. *)
CanRefund(d)    == MoveTo(d, "REFUNDED")
RefundedDeal(d) == [d EXCEPT !.status = "REFUNDED"]

(* The right to a refund is born when the grace on the due date is over. *)
IsRefundableForLateDelivery(d) ==
    /\ d.status \in {"ACCEPTED", "IN_PROGRESS"}
    /\ d.lateIn = 0

(* E3 and E4, the two ways in which closeEscrow closes the money side. *)
EscrowReturnedDeal(d)  == [d EXCEPT !.escrow = "REFUNDED"]
PaymentFailedDeal(d)   == [d EXCEPT !.escrow = "FAILED"]

(* Every deadline of the row, one tick later. *)
TickedDeal(d) ==
    [d EXCEPT !.expiresIn = OneTickLess(d.expiresIn),
              !.lateIn = OneTickLess(d.lateIn),
              !.approvalIn = OneTickLess(d.approvalIn)]
=============================================================================
