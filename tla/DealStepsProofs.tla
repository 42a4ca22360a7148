--------------------------- MODULE DealStepsProofs ---------------------------
(***************************************************************************)
(* What a step may do to a deal, and what follows from it for any number   *)
(* of deals, payments and counter-offers.                                  *)
(*                                                                         *)
(* First every action is reduced to the move that it makes: what becomes   *)
(* of the two states of one deal, of its ledger, its delivery, its dispute *)
(* and its slot (EveryStepIsAMove).  The questions put to the parties,     *)
(* disputes, slots, content and the refinement of Escrow are then proved   *)
(* move by move.  Two more reductions follow: what a step does to captured *)
(* money (EveryStepCapturesOnce) and to the keys of the ledger             *)
(* (EveryStepPostsWhatItDoes), the second for the screens.  The last part  *)
(* is what liveness rests on: that the sweep and the handler of captures   *)
(* find nothing against what they are called for.                          *)
(***************************************************************************)
EXTENDS DealEscrow, DealScreens, DealLifecycleProofs, FiniteSetTheorems, SumProofs

-----------------------------------------------------------------------------
(* The moves of deal d. *)

NotTouched(d) == /\ deal'[d] = deal[d]         /\ ledger'[d] = ledger[d]
                 /\ delivery'[d] = delivery[d] /\ dispute'[d] = dispute[d]

(* The two states of the deal, and the terms that only T5 changes. *)
Passes(d, from, to, escrowFrom, escrowTo) ==
    /\ deal[d].status \in from        /\ deal'[d].status \in to
    /\ deal[d].escrow = escrowFrom    /\ deal'[d].escrow = escrowTo

KeepsTerms(d) ==
    /\ deal'[d].kind = deal[d].kind   /\ deal'[d].amount = deal[d].amount
    /\ deal'[d].price = deal[d].price /\ deal'[d].creatorNet = deal[d].creatorNet
    /\ deal'[d].revisionCount = deal[d].revisionCount

(* Only what is free has no amount, and whoever sells for a price gets some of *)
(* it, unless the platform keeps everything.                                  *)
Priced(row) ==
    /\ row.price = 0 => row.amount = 0
    /\ row.price > 0 /\ FeeBasisPoints < FullBasisPoints => row.creatorNet > 0

(* What the ledger of the deal takes in, gives back and hands out. *)
Flows(d, in, back, out) ==
    /\ ledger'[d].clearing = ledger[d].clearing + in
    /\ ledger'[d].refunds = ledger[d].refunds + back
    /\ ledger'[d].creator + ledger'[d].fees = ledger[d].creator + ledger[d].fees + out

NothingFlows(d) == ledger'[d] = ledger[d]

Opens(d) ==
    /\ Passes(d, {"NONE"}, {"PROPOSED"}, "PENDING", "PENDING")
    /\ deal'[d].revisionCount = 0 /\ deal'[d].amount \in DealAmounts /\ Priced(deal'[d])
    /\ NothingFlows(d)
    /\ slotsTaken' = IF deal'[d].kind = "BOOKING" THEN slotsTaken + 1 ELSE slotsTaken
    /\ UNCHANGED <<delivery, dispute, grants>>

(* A decision or an answer that moves no money. *)
Talks(d) ==
    /\ Passes(d, {"PROPOSED"}, {"ACCEPTED", "COUNTER_OFFERED"}, "HELD", "HELD")
    /\ KeepsTerms(d) /\ NothingFlows(d)
    /\ UNCHANGED <<delivery, dispute, slotsTaken, grants>>

Renegotiates(d) ==
    /\ Passes(d, {"COUNTER_OFFERED"}, {"PROPOSED"}, "HELD", "HELD")
    /\ deal'[d].kind = deal[d].kind /\ deal'[d].revisionCount = deal[d].revisionCount
    /\ Priced(deal'[d])
    /\ \E o \in PendingOf(d) :
          deal'[d].amount = SplitFees(offer[o].price, FeeBasisPoints).amount
    /\ LET more == deal'[d].amount - deal[d].amount
       IN  IF more < 0 THEN Flows(d, 0, -more, 0) ELSE Flows(d, more, 0, 0)
    /\ UNCHANGED <<delivery, dispute, slotsTaken, grants>>

IsPaid(d) ==
    /\ Passes(d, {"PROPOSED"}, {"PROPOSED"}, "PENDING", "HELD")
    /\ deal[d].kind # "CONTENT_UNLOCK"
    /\ KeepsTerms(d)
    /\ Flows(d, deal[d].amount, 0, 0)
    /\ UNCHANGED <<delivery, dispute, slotsTaken, grants>>

Unlocks(d) ==
    /\ Passes(d, {"PROPOSED"}, {"PAID"}, "PENDING", "RELEASED")
    /\ deal[d].kind = "CONTENT_UNLOCK" /\ deal[d].price > 0
    /\ KeepsTerms(d)
    /\ Flows(d, deal[d].amount, 0, deal[d].amount)
    /\ BuyerOf[d] \notin grants /\ grants' = grants \cup {BuyerOf[d]}
    /\ UNCHANGED <<delivery, dispute, slotsTaken>>

(* Turned down or expired, paid or not. *)
Ends(d) ==
    /\ \/ /\ Passes(d, {"PROPOSED", "COUNTER_OFFERED"}, {"DECLINED", "EXPIRED"}, "HELD", "REFUNDED")
          /\ Flows(d, 0, deal[d].amount, 0)
       \/ /\ Passes(d, {"PROPOSED", "COUNTER_OFFERED"}, {"DECLINED", "EXPIRED"}, "PENDING", "FAILED")
          /\ NothingFlows(d)
    /\ KeepsTerms(d)
    /\ ReleaseSlot(d)
    /\ UNCHANGED <<delivery, dispute, grants>>

Delivers(d) ==
    /\ Passes(d, {"ACCEPTED", "IN_PROGRESS"}, {"DELIVERED"}, "HELD", "HELD")
    /\ KeepsTerms(d) /\ NothingFlows(d)
    /\ delivery'[d] = [version |-> delivery[d].version + 1, answer |-> "waiting"]
    /\ UNCHANGED <<dispute, slotsTaken, grants>>

SendsBack(d) ==
    /\ Passes(d, {"DELIVERED"}, {"IN_PROGRESS"}, "HELD", "HELD")
    /\ deal'[d].kind = deal[d].kind /\ deal'[d].amount = deal[d].amount
    /\ deal'[d].price = deal[d].price /\ deal'[d].creatorNet = deal[d].creatorNet
    /\ deal'[d].revisionCount = deal[d].revisionCount + 1
    /\ NothingFlows(d)
    /\ delivery'[d] = [delivery[d] EXCEPT !.answer = "rejected"]
    /\ UNCHANGED <<dispute, slotsTaken, grants>>

Approves(d) ==
    /\ Passes(d, {"DELIVERED"}, {"PAID"}, "HELD", "RELEASED")
    /\ KeepsTerms(d) /\ deal[d].price > 0
    /\ Flows(d, 0, 0, deal[d].amount)
    /\ dispute[d] = "none"
    /\ delivery[d].version > 0 => delivery'[d].answer = "accepted"
    /\ UNCHANGED <<dispute, slotsTaken, grants>>

Refunds(d) ==
    /\ Passes(d, {"ACCEPTED", "IN_PROGRESS", "DELIVERED"}, {"REFUNDED"}, "HELD", "REFUNDED")
    /\ KeepsTerms(d)
    /\ Flows(d, 0, deal[d].amount, 0)
    /\ dispute'[d] \in {dispute[d], "none"}
    /\ UNCHANGED <<delivery, slotsTaken, grants>>

Argues(d) ==
    /\ dispute'[d] = "none" \/ deal[d].status \in DisputableStatus
    /\ UNCHANGED <<deal, ledger, delivery, slotsTaken, grants>>

(* One deal moves and the others stay as they are. *)
Move(d) ==
    /\ \A e \in Deals \ {d} : NotTouched(e)
    /\ \/ Opens(d)    \/ Talks(d)     \/ Renegotiates(d)
       \/ IsPaid(d)   \/ Unlocks(d)   \/ Ends(d)
       \/ Delivers(d) \/ SendsBack(d) \/ Approves(d)
       \/ Refunds(d)  \/ Argues(d)

(* No deal moves: a payment is started or reported, time passes. *)
AllStay ==
    /\ \A d \in Deals : /\ deal'[d].status = deal[d].status /\ deal'[d].escrow = deal[d].escrow
                        /\ KeepsTerms(d)
    /\ UNCHANGED <<ledger, delivery, dispute, slotsTaken, grants>>
-----------------------------------------------------------------------------
(* The row that a method returns, read off field by field. *)

(* splitFees of a price: nothing is free of charge but what costs nothing. *)
LEMMA SplitIsPriced ==
    ASSUME NEW price \in Nat, NEW points \in BasisPoints
    PROVE  LET split == SplitFees(price, points)
           IN  /\ price = 0 => split.amount = 0
               /\ price > 0 /\ points < FullBasisPoints => split.creatorNet > 0
<1> DEFINE product == price * points
           second  == product \div FullBasisPoints
           first   == (price * (FullBasisPoints - points)) \div FullBasisPoints
<1>1. points \in 0 .. 10000 /\ FullBasisPoints = 10000
  BY DEF BasisPoints, FullBasisPoints
<1>2. /\ product \in Int /\ 0 <= product
      /\ price = 0 => product = 0
      /\ price > 0 /\ points < 10000 => product < 10000 * price
  BY <1>1, SMTT(30)
<1>3. first \in Int
  <2>1. price * (FullBasisPoints - points) \in Int
    BY <1>1
  <2> QED BY <1>1, <2>1
<1> HIDE DEF product
<1>4. second \in Int /\ 10000 * second <= product /\ product < 10000 * second + 10000
  BY <1>1, <1>2, SMTT(30)
<1>5. SplitFees(price, points) =
        [amount |-> price + second, platformFee |-> second + second,
         creatorNet |-> first + (price - first - second)]
  BY Zenon DEF SplitFees, Allocate, first, second, product
<1> HIDE DEF first, second
<1>6. price = 0 => second = 0
  BY <1>2, <1>4
<1>7. price > 0 /\ points < FullBasisPoints => second < price
  BY <1>1, <1>2, <1>4
<1> QED BY <1>1, <1>3, <1>4, <1>5, <1>6, <1>7

LEMMA OpenedFields ==
    ASSUME NEW kind \in OfferKind, NEW price \in Prices, NEW sla \in Slas
    PROVE  LET row == OpenedDeal(kind, price, sla)
           IN  /\ row.status = "PROPOSED" /\ row.escrow = "PENDING" /\ Priced(row)
               /\ row.kind = kind /\ row.revisionCount = 0
               /\ row.amount \in DealAmounts
<1> DEFINE split == SplitFees(price, FeeBasisPoints)
<1>1. OpenedDeal(kind, price, sla) =
        [kind |-> kind, status |-> "PROPOSED", escrow |-> "PENDING",
         price |-> price, sla |-> sla, amount |-> split.amount,
         platformFee |-> split.platformFee, creatorNet |-> split.creatorNet,
         revisionCount |-> 0, expiresIn |-> ProposalWindow,
         lateIn |-> NoDeadline, approvalIn |-> NoDeadline]
  BY Zenon DEF OpenedDeal
<1>2. split.amount \in DealAmounts
  BY Zenon DEF DealAmounts
<1>3. /\ price = 0 => split.amount = 0
      /\ price > 0 /\ FeeBasisPoints < FullBasisPoints => split.creatorNet > 0
  BY PolicyAssumption, SplitIsPriced
<1> HIDE DEF split
<1> QED BY <1>1, <1>2, <1>3 DEF Priced

LEMMA RenegotiatedFields ==
    ASSUME NEW row \in DealRow, NEW price \in Nat, NEW sla
    PROVE  LET new == RenegotiatedDeal(row, price, sla)
           IN  /\ new.status = "PROPOSED" /\ new.escrow = row.escrow /\ Priced(new)
               /\ new.kind = row.kind /\ new.revisionCount = row.revisionCount
               /\ new.amount = SplitFees(price, FeeBasisPoints).amount
<1> DEFINE split == SplitFees(price, FeeBasisPoints)
<1>1. RenegotiatedDeal(row, price, sla) =
        [row EXCEPT !.status = "PROPOSED", !.price = price, !.sla = sla,
                    !.amount = split.amount, !.platformFee = split.platformFee,
                    !.creatorNet = split.creatorNet, !.expiresIn = ProposalWindow]
  BY Zenon DEF RenegotiatedDeal
<1>3. /\ price = 0 => split.amount = 0
      /\ price > 0 /\ FeeBasisPoints < FullBasisPoints => split.creatorNet > 0
  BY PolicyAssumption, SplitIsPriced
<1> HIDE DEF split
<1>2. LET new == RenegotiatedDeal(row, price, sla)
      IN  /\ new.status = "PROPOSED" /\ new.escrow = row.escrow
          /\ new.price = price /\ new.creatorNet = split.creatorNet
          /\ new.kind = row.kind /\ new.revisionCount = row.revisionCount
          /\ new.amount = split.amount
  BY <1>1 DEF DealRow
<1> QED BY <1>2, <1>3 DEF split, Priced

LEMMA MethodFields ==
    ASSUME NEW row \in DealRow
    PROVE  /\ HeldDeal(row).status = row.status              /\ HeldDeal(row).escrow = "HELD"
           /\ AcceptedDeal(row).status = "ACCEPTED"          /\ AcceptedDeal(row).escrow = row.escrow
           /\ DeclinedDeal(row).status = "DECLINED"          /\ DeclinedDeal(row).escrow = row.escrow
           /\ CounterOfferedDeal(row).status = "COUNTER_OFFERED"
           /\ CounterOfferedDeal(row).escrow = row.escrow
           /\ DeliveredDeal(row).status = "DELIVERED"        /\ DeliveredDeal(row).escrow = row.escrow
           /\ RejectedDeal(row).status = "IN_PROGRESS"       /\ RejectedDeal(row).escrow = row.escrow
           /\ ApprovedDeal(row).status = "APPROVED"          /\ ApprovedDeal(row).escrow = row.escrow
           /\ SettledDeal(row).status = "PAID"               /\ SettledDeal(row).escrow = "RELEASED"
           /\ ExpiredDeal(row).status = "EXPIRED"            /\ ExpiredDeal(row).escrow = row.escrow
           /\ RefundedDeal(row).status = "REFUNDED"          /\ RefundedDeal(row).escrow = row.escrow
           /\ TickedDeal(row).status = row.status            /\ TickedDeal(row).escrow = row.escrow
BY DEF DealRow, HeldDeal, AcceptedDeal, DeclinedDeal, CounterOfferedDeal, DeliveredDeal,
       RejectedDeal, ApprovedDeal, SettledDeal, ExpiredDeal, RefundedDeal, TickedDeal

LEMMA MethodsKeepRevisions ==
    ASSUME NEW row \in DealRow
    PROVE  /\ HeldDeal(row).revisionCount = row.revisionCount
           /\ AcceptedDeal(row).revisionCount = row.revisionCount
           /\ DeclinedDeal(row).revisionCount = row.revisionCount
           /\ CounterOfferedDeal(row).revisionCount = row.revisionCount
           /\ DeliveredDeal(row).revisionCount = row.revisionCount
           /\ RejectedDeal(row).revisionCount = row.revisionCount + 1
           /\ ApprovedDeal(row).revisionCount = row.revisionCount
           /\ SettledDeal(row).revisionCount = row.revisionCount
           /\ ExpiredDeal(row).revisionCount = row.revisionCount
           /\ RefundedDeal(row).revisionCount = row.revisionCount
           /\ ClosedRow(row).revisionCount = row.revisionCount
           /\ TickedDeal(row).revisionCount = row.revisionCount
<1>1. ClosedRow(row).revisionCount = row.revisionCount
  BY DEF DealRow, ClosedRow, EscrowReturnedDeal, PaymentFailedDeal
<1>2. RejectedDeal(row).revisionCount = row.revisionCount + 1
  BY DEF DealRow, RejectedDeal
<1> QED
  BY <1>1, <1>2
  DEF DealRow, HeldDeal, AcceptedDeal, DeclinedDeal, CounterOfferedDeal, DeliveredDeal,
      ApprovedDeal, SettledDeal, ExpiredDeal, RefundedDeal, TickedDeal

-----------------------------------------------------------------------------
(* Every action is one of the moves. *)

LEMMA CreateDealMoves ==
    ASSUME IInv, NEW d \in Deals, NEW kind \in OfferKind, NEW price \in Prices, NEW sla \in Slas,
           CreateDeal(d, kind, price, sla)
    PROVE  Move(d)
<1> DEFINE row == OpenedDeal(kind, price, sla)
<1>1. deal[d] \in DealRow /\ SidesAgree(deal[d]) /\ deal[d].status = "NONE"
  BY DEF IInv, TypeOK, DealsSound, Sound, CreateDeal
<1>2. deal[d].escrow = "PENDING"
  BY <1>1 DEF SidesAgree, DealRow, EscrowStatus
<1>3. /\ row.status = "PROPOSED" /\ row.escrow = "PENDING" /\ Priced(row)
      /\ row.kind = kind /\ row.revisionCount = 0 /\ row.amount \in DealAmounts
  BY OpenedFields
<1>4. /\ deal' = [deal EXCEPT ![d] = row]
      /\ slotsTaken' = IF kind = "BOOKING" THEN slotsTaken + 1 ELSE slotsTaken
      /\ UNCHANGED <<delivery, dispute, ledger, grants>>
  BY DEF CreateDeal, moneyVars
<1> HIDE DEF row
<1>5. deal'[d] = row /\ \A e \in Deals \ {d} : NotTouched(e)
  BY <1>4 DEF IInv, TypeOK, NotTouched
<1>6. Opens(d)
  BY <1>1, <1>2, <1>3, <1>4, <1>5 DEF Opens, Passes, NothingFlows
<1> QED BY <1>5, <1>6 DEF Move

LEMMA AcceptDealMoves ==
    ASSUME IInv, NEW d \in Deals, AcceptDeal(d)
    PROVE  Move(d)
<1> DEFINE row == AcceptedDeal(deal[d])
<1>1. deal[d] \in DealRow
  BY DEF IInv, TypeOK
<1>2. deal[d].status = "PROPOSED" /\ deal[d].escrow = "HELD"
  BY <1>1 DEF AcceptDeal, CanAccept, MoveTo, DealTransitions
<1>3. /\ row.status = "ACCEPTED" /\ row.escrow = deal[d].escrow
      /\ row.revisionCount = deal[d].revisionCount /\ SameTerms(deal[d], row)
  BY <1>1, MethodFields, MethodsKeepRevisions, MethodsKeepTerms
<1>4. /\ deal' = [deal EXCEPT ![d] = row]
      /\ UNCHANGED <<delivery, dispute, ledger, slotsTaken, grants>>
  BY DEF AcceptDeal, moneyVars
<1> HIDE DEF row
<1>5. deal'[d] = row /\ \A e \in Deals \ {d} : NotTouched(e)
  BY <1>4 DEF IInv, TypeOK, NotTouched
<1>6. Talks(d)
  BY <1>2, <1>3, <1>4, <1>5 DEF Talks, Passes, KeepsTerms, SameTerms, NothingFlows
<1> QED BY <1>5, <1>6 DEF Move

LEMMA CounterOfferDealMoves ==
    ASSUME IInv, NEW d \in Deals, NEW o \in CounterOffers, NEW price, NEW sla,
           CounterOfferDeal(d, o, price, sla)
    PROVE  Move(d)
<1> DEFINE row == CounterOfferedDeal(deal[d])
<1>1. deal[d] \in DealRow
  BY DEF IInv, TypeOK
<1>2. deal[d].status = "PROPOSED" /\ deal[d].escrow = "HELD"
  BY <1>1 DEF CounterOfferDeal, CanCounterOffer, MoveTo, DealTransitions
<1>3. /\ row.status = "COUNTER_OFFERED" /\ row.escrow = deal[d].escrow
      /\ row.revisionCount = deal[d].revisionCount /\ SameTerms(deal[d], row)
  BY <1>1, MethodFields, MethodsKeepRevisions, MethodsKeepTerms
<1>4. /\ deal' = [deal EXCEPT ![d] = row]
      /\ UNCHANGED <<delivery, dispute, ledger, slotsTaken, grants>>
  BY DEF CounterOfferDeal, moneyVars
<1> HIDE DEF row
<1>5. deal'[d] = row /\ \A e \in Deals \ {d} : NotTouched(e)
  BY <1>4 DEF IInv, TypeOK, NotTouched
<1>6. Talks(d)
  BY <1>2, <1>3, <1>4, <1>5 DEF Talks, Passes, KeepsTerms, SameTerms, NothingFlows
<1> QED BY <1>5, <1>6 DEF Move

(* T5 from the ledger as it was, with the difference in or out. *)
LEMMA RenegotiationMoves ==
    ASSUME IInv, NEW d \in Deals, NEW o \in CounterOffers, o \in PendingOf(d), NEW balance,
           NEW keys, ApplyAcceptedCounterOffer(d, o, balance, keys),
           \/ /\ balance = ledger[d]
              /\ Settlement(d, offer[o].price) <= 0
           \/ /\ balance = Funded(ledger[d], Settlement(d, offer[o].price))
              /\ Settlement(d, offer[o].price) >= 0,
           UNCHANGED <<delivery, dispute, slotsTaken, grants>>
    PROVE  Move(d)
<1> DEFINE row     == RenegotiatedDeal(deal[d], offer[o].price, offer[o].sla)
           more    == Settlement(d, offer[o].price)
           settled == IF more < 0 THEN ReturnedToBuyer(balance, -more) ELSE balance
<1>1. deal[d] \in DealRow /\ SidesAgree(deal[d]) /\ ledger[d] \in Balance
  BY DEF IInv, TypeOK, DealsSound, Sound
<1>2. /\ deal' = [deal EXCEPT ![d] = row] /\ ledger' = [ledger EXCEPT ![d] = settled]
      /\ MoveTo(deal[d], "PROPOSED")
  BY DEF ApplyAcceptedCounterOffer, CanRenegotiate
<1>3. deal[d].status = "COUNTER_OFFERED" /\ deal[d].escrow = "HELD"
  <2>1. deal[d].status = "COUNTER_OFFERED"
    BY <1>1, <1>2 DEF MoveTo, DealTransitions
  <2> QED BY <1>1, <2>1 DEF SidesAgree, DealRow, EscrowStatus
<1>4. /\ row.status = "PROPOSED" /\ row.escrow = "HELD" /\ Priced(row)
      /\ row.kind = deal[d].kind /\ row.revisionCount = deal[d].revisionCount
      /\ row.amount = SplitFees(offer[o].price, FeeBasisPoints).amount
  <2>1. offer[o].price \in Nat
    BY DEF IInv, TypeOK, OfferRow
  <2> HIDE DEF row
  <2>2. row = RenegotiatedDeal(deal[d], offer[o].price, offer[o].sla)
    BY DEF row
  <2> QED BY <1>1, <1>3, <2>1, <2>2, RenegotiatedFields
<1>5. more \in Int /\ more = row.amount - deal[d].amount
  <2>1. offer[o].price \in Nat
    BY DEF IInv, TypeOK, OfferRow
  <2>2. SplitFees(offer[o].price, FeeBasisPoints).amount \in Int
    BY <2>1, SplitLosesNothing, PolicyAssumption
  <2>3. deal[d].amount \in Int
    BY <1>1 DEF DealRow
  <2> HIDE DEF row
  <2> QED BY <1>4, <2>2, <2>3 DEF Settlement, SettlementFor
<1> HIDE DEF row, more
<1>6. /\ more < 0 =>
            /\ settled.clearing = ledger[d].clearing + 0
            /\ settled.refunds = ledger[d].refunds + (-more)
            /\ settled.creator + settled.fees = ledger[d].creator + ledger[d].fees + 0
      /\ ~ (more < 0) =>
            /\ settled.clearing = ledger[d].clearing + more
            /\ settled.refunds = ledger[d].refunds + 0
            /\ settled.creator + settled.fees = ledger[d].creator + ledger[d].fees + 0
  <2>0. /\ ledger[d].clearing \in Int /\ ledger[d].refunds \in Int
        /\ ledger[d].creator \in Int /\ ledger[d].fees \in Int
    BY <1>1 DEF Balance
  <2>1. CASE more < 0
    <3>1. settled = ReturnedToBuyer(ledger[d], -more) /\ -more \in Int
      BY <1>5, <2>1 DEF more
    <3> HIDE DEF settled
    <3>2. /\ settled.clearing = ledger[d].clearing
          /\ settled.refunds = ledger[d].refunds + (-more)
          /\ settled.creator = ledger[d].creator /\ settled.fees = ledger[d].fees
      BY <1>1, <3>1, ReturnedFields
    <3> QED BY <1>5, <2>0, <2>1, <3>2
  <2>2. CASE more = 0 /\ balance = ledger[d]
    <3>1. settled = ledger[d]
      BY <2>2
    <3> QED BY <2>0, <2>2, <3>1
  <2>3. CASE more >= 0 /\ balance = Funded(ledger[d], more)
    <3>1. settled = Funded(ledger[d], more)
      BY <1>5, <2>3
    <3> HIDE DEF settled
    <3>2. /\ settled.clearing = ledger[d].clearing + more
          /\ settled.refunds = ledger[d].refunds
          /\ settled.creator = ledger[d].creator /\ settled.fees = ledger[d].fees
      BY <1>1, <1>5, <3>1, FundedFields
    <3> QED BY <1>5, <2>0, <2>3, <3>2
  <2> QED BY <1>5, <2>1, <2>2, <2>3 DEF more
<1> HIDE DEF settled
<1>7. deal'[d] = row /\ ledger'[d] = settled /\ \A e \in Deals \ {d} : NotTouched(e)
  BY <1>2 DEF IInv, TypeOK, NotTouched
<1>8. LET change == deal'[d].amount - deal[d].amount
      IN  IF change < 0 THEN Flows(d, 0, -change, 0) ELSE Flows(d, change, 0, 0)
  <2>1. deal'[d].amount - deal[d].amount = more
    BY <1>5, <1>7
  <2>2. IF more < 0 THEN Flows(d, 0, -more, 0) ELSE Flows(d, more, 0, 0)
    BY <1>6, <1>7 DEF Flows
  <2> QED BY <2>1, <2>2
<1>9. Renegotiates(d)
  BY <1>3, <1>4, <1>7, <1>8 DEF Renegotiates, Passes
<1> QED BY <1>7, <1>9 DEF Move

LEMMA AcceptCounterOfferMoves ==
    ASSUME IInv, NEW d \in Deals, NEW o \in CounterOffers, AcceptCounterOffer(d, o)
    PROVE  Move(d)
BY RenegotiationMoves DEF AcceptCounterOffer

LEMMA CaptureTopUpMoves ==
    ASSUME IInv, NEW i \in Intents, NEW type \in FullCapture, CaptureTopUp(i, type)
    PROVE  \E d \in Deals : Move(d)
<1> DEFINE d == intent[i].deal
           o == intent[i].offer
<1>1. /\ IsActive(i) /\ intent[i].purpose = "TOP_UP"
      /\ offer[o].status = "PENDING" /\ intent[i].amount = Settlement(d, offer[o].price)
      /\ ApplyAcceptedCounterOffer(d, o, Funded(ledger[d], intent[i].amount),
                                   posted \cup {<<"ESCROW_TOP_UP", o>>})
      /\ UNCHANGED <<delivery, dispute, slotsTaken, grants>>
  BY DEF CaptureTopUp, IsDeadTopUp
<1>2. d \in Deals /\ o \in PendingOf(d) /\ o \in CounterOffers
  BY <1>1 DEF IInv, IntentsSound, IsActive, ActiveStatus, PendingOf
<1>3. Settlement(d, offer[o].price) >= 0
  BY <1>1 DEF IInv, TypeOK, IntentRow
<1> HIDE DEF d, o
<1>4. Move(d)
  BY <1>1, <1>2, <1>3, RenegotiationMoves
<1> QED BY <1>2, <1>4

LEMMA CaptureInitialMoves ==
    ASSUME IInv, NEW i \in Intents, NEW type \in FullCapture, CaptureInitial(i, type)
    PROVE  \E d \in Deals : Move(d)
<1> DEFINE d     == intent[i].deal
           row   == HeldDeal(deal[d])
           money == Funded(ledger[d], deal[d].amount)
<1>1. /\ IsActive(i) /\ intent[i].purpose = "INITIAL"
      /\ CanHold(deal[d]) /\ deal[d].kind # "CONTENT_UNLOCK"
  BY DEF CaptureInitial
<1>2. /\ d \in Deals /\ deal[d] \in DealRow /\ Sound(deal[d], ledger[d])
      /\ deal[d].status = "PROPOSED" /\ intent[i].amount = deal[d].amount
  BY <1>1, CapturedDeal
<1>3. deal[d].escrow = "PENDING"
  BY <1>1, <1>2 DEF CanHold, MoveEscrowTo, EscrowTransitions
<1>4. /\ row.status = "PROPOSED" /\ row.escrow = "HELD"
      /\ row.revisionCount = deal[d].revisionCount /\ SameTerms(deal[d], row)
  BY <1>2, MethodFields, MethodsKeepRevisions, MethodsKeepTerms
<1>5. /\ deal' = [deal EXCEPT ![d] = row] /\ ledger' = [ledger EXCEPT ![d] = money]
      /\ UNCHANGED <<delivery, dispute, slotsTaken, grants>>
  BY <1>2 DEF CaptureInitial
<1>6. ledger[d] \in Balance /\ deal[d].amount \in Int
  BY <1>2 DEF Sound, DealRow
<1>7. /\ money.clearing = ledger[d].clearing + deal[d].amount
      /\ money.refunds = ledger[d].refunds
      /\ money.creator = ledger[d].creator /\ money.fees = ledger[d].fees
  BY <1>6, FundedFields
<1>8. /\ ledger[d].refunds \in Int /\ ledger[d].creator \in Int /\ ledger[d].fees \in Int
  BY <1>6 DEF Balance
<1> HIDE DEF d, row, money
<1>9. deal'[d] = row /\ ledger'[d] = money /\ \A e \in Deals \ {d} : NotTouched(e)
  BY <1>2, <1>5 DEF IInv, TypeOK, NotTouched
<1>10. Flows(d, deal[d].amount, 0, 0)
  BY <1>7, <1>8, <1>9 DEF Flows
<1>11. IsPaid(d)
  BY <1>1, <1>2, <1>3, <1>4, <1>5, <1>9, <1>10 DEF IsPaid, Passes, KeepsTerms, SameTerms
<1> QED BY <1>2, <1>9, <1>11 DEF Move

LEMMA CaptureAndUnlockMoves ==
    ASSUME IInv, NEW i \in Intents, NEW type \in FullCapture, CaptureAndUnlock(i, type)
    PROVE  \E d \in Deals : Move(d)
<1> DEFINE d         == intent[i].deal
           held      == HeldDeal(deal[d])
           accepted  == AcceptedDeal(held)
           delivered == DeliveredDeal(accepted)
           approved  == ApprovedDeal(delivered)
           row       == SettledDeal(approved)
           funded    == Funded(ledger[d], deal[d].amount)
           money     == Released(funded, approved)
<1>1. /\ IsActive(i) /\ intent[i].purpose = "INITIAL"
      /\ CanHold(deal[d]) /\ deal[d].kind = "CONTENT_UNLOCK"
      /\ Grantable(d) /\ grants' = grants \cup {BuyerOf[d]}
      /\ approved.price > 0
  BY DEF CaptureAndUnlock, CanRelease
<1>2. /\ d \in Deals /\ deal[d] \in DealRow /\ Sound(deal[d], ledger[d])
      /\ deal[d].status = "PROPOSED" /\ intent[i].amount = deal[d].amount
  BY <1>1, CapturedDeal
<1>3. deal[d].escrow = "PENDING"
  BY <1>1, <1>2 DEF CanHold, MoveEscrowTo, EscrowTransitions
<1>4. /\ deal' = [deal EXCEPT ![d] = row] /\ ledger' = [ledger EXCEPT ![d] = money]
      /\ UNCHANGED <<delivery, dispute, slotsTaken>>
  BY <1>2 DEF CaptureAndUnlock
<1>5. ledger[d] \in Balance /\ AddsUp(deal[d])
  BY <1>2 DEF Sound, Books
<1> HIDE DEF d
<1>6. held \in DealRow /\ SameTerms(deal[d], held) /\ held.revisionCount = deal[d].revisionCount
  BY <1>2, MethodsKeepRevisions, MethodsKeepTerms
<1> HIDE DEF held
<1>7. accepted \in DealRow /\ SameTerms(held, accepted) /\ accepted.revisionCount = held.revisionCount
  BY <1>6, MethodsKeepRevisions, MethodsKeepTerms
<1> HIDE DEF accepted
<1>8. /\ delivered \in DealRow /\ SameTerms(accepted, delivered)
      /\ delivered.revisionCount = accepted.revisionCount
  BY <1>7, MethodsKeepRevisions, MethodsKeepTerms
<1> HIDE DEF delivered
<1>9. /\ approved \in DealRow /\ SameTerms(delivered, approved)
      /\ approved.revisionCount = delivered.revisionCount
  BY <1>8, MethodsKeepRevisions, MethodsKeepTerms
<1> HIDE DEF approved
<1>10. /\ SameTerms(approved, row) /\ row.revisionCount = approved.revisionCount
       /\ row.status = "PAID" /\ row.escrow = "RELEASED"
  BY <1>9, MethodFields, MethodsKeepRevisions, MethodsKeepTerms
<1> HIDE DEF row
<1>11. SameTerms(deal[d], approved) /\ SameTerms(deal[d], row)
  BY <1>6, <1>7, <1>8, <1>9, <1>10 DEF SameTerms
<1>12. row.revisionCount = deal[d].revisionCount
  BY <1>6, <1>7, <1>8, <1>9, <1>10
<1>13. /\ deal[d].amount \in Int /\ approved.creatorNet \in Int /\ approved.platformFee \in Int
       /\ approved.creatorNet + approved.platformFee = deal[d].amount
  BY <1>2, <1>5, <1>9, <1>11 DEF DealRow, SameTerms, AddsUp
<1>14. /\ funded \in Balance /\ funded.clearing = ledger[d].clearing + deal[d].amount
       /\ funded.refunds = ledger[d].refunds
       /\ funded.creator = ledger[d].creator /\ funded.fees = ledger[d].fees
  BY <1>5, <1>13, FundedFields
<1> HIDE DEF funded
<1>15. /\ money.clearing = funded.clearing /\ money.refunds = funded.refunds
       /\ money.creator = funded.creator + approved.creatorNet
       /\ money.fees = funded.fees + approved.platformFee
  BY <1>9, <1>14, ReleasedFields
<1> HIDE DEF money
<1>16. /\ ledger[d].refunds \in Int /\ ledger[d].creator \in Int /\ ledger[d].fees \in Int
  BY <1>5 DEF Balance
<1>17. deal'[d] = row /\ ledger'[d] = money /\ \A e \in Deals \ {d} : NotTouched(e)
  BY <1>2, <1>4 DEF IInv, TypeOK, NotTouched
<1>18. Flows(d, deal[d].amount, 0, deal[d].amount)
  BY <1>13, <1>14, <1>15, <1>16, <1>17 DEF Flows
<1>19. Unlocks(d)
  BY <1>1, <1>9, <1>2, <1>3, <1>4, <1>10, <1>11, <1>12, <1>17, <1>18
  DEF Unlocks, Passes, KeepsTerms, SameTerms, Grantable
<1> QED BY <1>2, <1>17, <1>19 DEF Move

(* T3, T6 and T13. *)
LEMMA EndMoves ==
    ASSUME IInv, NEW d \in Deals, NEW row \in DealRow, SameTerms(deal[d], row),
           row.escrow = deal[d].escrow, row.status \in {"DECLINED", "EXPIRED"},
           row.revisionCount = deal[d].revisionCount,
           deal[d].status \in {"PROPOSED", "COUNTER_OFFERED"},
           CloseEscrow(d, row), ReleaseSlot(d),
           UNCHANGED <<delivery, dispute, grants>>
    PROVE  Move(d)
<1> DEFINE closed == ClosedRow(row)
           money  == IF row.escrow = "HELD" THEN ReturnedToBuyer(ledger[d], row.amount)
                                            ELSE ledger[d]
<1>1. Sound(deal[d], ledger[d]) /\ deal[d] \in DealRow /\ ledger[d] \in Balance
  BY DEF IInv, TypeOK, DealsSound
<1>2. deal[d].escrow \in {"HELD", "PENDING"}
  BY <1>1 DEF Sound, SidesAgree, DealRow, EscrowStatus
<1>3. deal' = [deal EXCEPT ![d] = closed]
  BY DEF CloseEscrow
<1>4. ledger' = [ledger EXCEPT ![d] = money]
  BY DEF CloseEscrow, IInv, TypeOK
<1>5. /\ SameTerms(row, closed) /\ closed.status = row.status
      /\ closed.revisionCount = row.revisionCount
      /\ row.escrow = "PENDING" => closed.escrow = "FAILED"
      /\ row.escrow = "HELD" => closed.escrow = "REFUNDED"
  BY ClosedRowFields, MethodsKeepRevisions
<1>6. /\ deal[d].amount \in Int /\ row.amount = deal[d].amount
      /\ ledger[d].clearing \in Int /\ ledger[d].creator \in Int /\ ledger[d].fees \in Int
  BY <1>1 DEF DealRow, SameTerms, Balance
<1> HIDE DEF closed, money
<1>7. deal'[d] = closed /\ ledger'[d] = money /\ \A e \in Deals \ {d} : NotTouched(e)
  BY <1>3, <1>4 DEF IInv, TypeOK, NotTouched
<1>8. CASE deal[d].escrow = "HELD"
  <2>1. money = ReturnedToBuyer(ledger[d], row.amount)
    BY <1>8 DEF money
  <2>2. row.amount \in Int
    BY <1>6
  <2>3. /\ money.clearing = ledger[d].clearing
        /\ money.refunds = ledger[d].refunds + row.amount
        /\ money.creator = ledger[d].creator /\ money.fees = ledger[d].fees
    BY <1>1, <2>1, <2>2, ReturnedFields
  <2>4. Flows(d, 0, deal[d].amount, 0)
    BY <1>6, <1>7, <2>3 DEF Flows
  <2>5. Ends(d)
    BY <1>5, <1>7, <1>8, <2>4 DEF Ends, Passes, KeepsTerms, SameTerms
  <2> QED BY <1>7, <2>5 DEF Move
<1>9. CASE deal[d].escrow = "PENDING"
  <2>1. NothingFlows(d)
    BY <1>7, <1>9 DEF money, NothingFlows
  <2>2. Ends(d)
    BY <1>5, <1>7, <1>9, <2>1 DEF Ends, Passes, KeepsTerms, SameTerms
  <2> QED BY <1>7, <2>2 DEF Move
<1> QED BY <1>2, <1>8, <1>9

LEMMA DeclineMoves ==
    ASSUME IInv, NEW d \in Deals,
           DeclineDeal(d) \/ \E o \in CounterOffers : DeclineCounterOffer(d, o)
    PROVE  Move(d)
<1> DEFINE row == DeclinedDeal(deal[d])
<1>1. deal[d] \in DealRow
  BY DEF IInv, TypeOK
<1>2. /\ row \in DealRow /\ SameTerms(deal[d], row) /\ row.status = "DECLINED"
      /\ row.escrow = deal[d].escrow /\ row.revisionCount = deal[d].revisionCount
  BY <1>1, MethodFields, MethodsKeepRevisions, MethodsKeepTerms
<1>3. deal[d].status \in {"PROPOSED", "COUNTER_OFFERED"}
  BY <1>1 DEF DeclineDeal, DeclineCounterOffer, CanDecline, MoveTo, DealTransitions
<1>4. /\ CloseEscrow(d, row) /\ ReleaseSlot(d)
      /\ UNCHANGED <<delivery, dispute, grants>>
  BY DEF DeclineDeal, DeclineCounterOffer
<1> HIDE DEF row
<1> QED BY <1>2, <1>3, <1>4, EndMoves

LEMMA SweepExpireMoves ==
    ASSUME IInv, NEW d \in Deals, SweepExpire(d)
    PROVE  Move(d)
<1> DEFINE row == ExpiredDeal(deal[d])
<1>1. deal[d] \in DealRow
  BY DEF IInv, TypeOK
<1>2. /\ row \in DealRow /\ SameTerms(deal[d], row) /\ row.status = "EXPIRED"
      /\ row.escrow = deal[d].escrow /\ row.revisionCount = deal[d].revisionCount
  BY <1>1, MethodFields, MethodsKeepRevisions, MethodsKeepTerms
<1>3. deal[d].status \in {"PROPOSED", "COUNTER_OFFERED"}
  BY DEF SweepExpire, HasExpired
<1>4. /\ CloseEscrow(d, row) /\ ReleaseSlot(d)
      /\ UNCHANGED <<delivery, dispute, grants>>
  BY DEF SweepExpire
<1> HIDE DEF row
<1> QED BY <1>2, <1>3, <1>4, EndMoves

LEMMA SubmitDeliveryMoves ==
    ASSUME IInv, NEW d \in Deals, SubmitDelivery(d)
    PROVE  Move(d)
<1> DEFINE row == DeliveredDeal(deal[d])
<1>1. deal[d] \in DealRow /\ SidesAgree(deal[d])
  BY DEF IInv, TypeOK, DealsSound, Sound
<1>2. deal[d].status \in {"ACCEPTED", "IN_PROGRESS"} /\ deal[d].escrow = "HELD"
  BY <1>1 DEF SubmitDelivery, CanDeliver, MoveTo, DealTransitions, SidesAgree, DealRow, EscrowStatus
<1>3. /\ row.status = "DELIVERED" /\ row.escrow = deal[d].escrow
      /\ row.revisionCount = deal[d].revisionCount /\ SameTerms(deal[d], row)
  BY <1>1, MethodFields, MethodsKeepRevisions, MethodsKeepTerms
<1>4. /\ deal' = [deal EXCEPT ![d] = row]
      /\ delivery' = [delivery EXCEPT ![d] = [version |-> @.version + 1, answer |-> "waiting"]]
      /\ UNCHANGED <<dispute, ledger, slotsTaken, grants>>
  BY DEF SubmitDelivery, moneyVars
<1> HIDE DEF row
<1>5. /\ deal'[d] = row
      /\ delivery'[d] = [version |-> delivery[d].version + 1, answer |-> "waiting"]
      /\ \A e \in Deals \ {d} : NotTouched(e)
  BY <1>4 DEF IInv, TypeOK, NotTouched
<1>6. Delivers(d)
  BY <1>2, <1>3, <1>4, <1>5 DEF Delivers, Passes, KeepsTerms, SameTerms, NothingFlows
<1> QED BY <1>5, <1>6 DEF Move

LEMMA RejectDeliveryMoves ==
    ASSUME IInv, NEW d \in Deals, RejectDelivery(d)
    PROVE  Move(d)
<1> DEFINE row == RejectedDeal(deal[d])
<1>1. deal[d] \in DealRow /\ SidesAgree(deal[d])
  BY DEF IInv, TypeOK, DealsSound, Sound
<1>2. deal[d].status = "DELIVERED" /\ deal[d].escrow = "HELD"
  BY <1>1 DEF RejectDelivery, CanReject, MoveTo, DealTransitions, SidesAgree, DealRow, EscrowStatus
<1>3. /\ row.status = "IN_PROGRESS" /\ row.escrow = deal[d].escrow
      /\ row.revisionCount = deal[d].revisionCount + 1 /\ SameTerms(deal[d], row)
  BY <1>1, MethodFields, MethodsKeepRevisions, MethodsKeepTerms DEF RejectDelivery
<1>4. /\ deal' = [deal EXCEPT ![d] = row]
      /\ delivery' = [delivery EXCEPT ![d].answer = "rejected"]
      /\ UNCHANGED <<dispute, ledger, slotsTaken, grants>>
  BY DEF RejectDelivery, moneyVars
<1> HIDE DEF row
<1>5. /\ deal'[d] = row
      /\ delivery'[d] = [delivery[d] EXCEPT !.answer = "rejected"]
      /\ \A e \in Deals \ {d} : NotTouched(e)
  BY <1>4 DEF IInv, TypeOK, NotTouched
<1>6. SendsBack(d)
  BY <1>2, <1>3, <1>4, <1>5 DEF SendsBack, Passes, SameTerms, NothingFlows
<1> QED BY <1>5, <1>6 DEF Move

LEMMA ApproveDeliveryMoves ==
    ASSUME IInv, NEW d \in Deals, ApproveDelivery(d)
    PROVE  Move(d)
<1> DEFINE approved == ApprovedDeal(deal[d])
           row      == SettledDeal(approved)
           money    == Released(ledger[d], approved)
<1>1. /\ deal[d] \in DealRow /\ SidesAgree(deal[d]) /\ AddsUp(deal[d])
      /\ ledger[d] \in Balance
  BY DEF IInv, TypeOK, DealsSound, Sound, Books
<1>2. deal[d].status = "DELIVERED" /\ deal[d].escrow = "HELD"
  BY <1>1 DEF ApproveDelivery, CanApprove, MoveTo, DealTransitions, SidesAgree,
              DealRow, EscrowStatus
<1>3. /\ deal' = [deal EXCEPT ![d] = row] /\ ledger' = [ledger EXCEPT ![d] = money]
      /\ UNCHANGED <<dispute, slotsTaken, grants>>
      /\ dispute[d] = "none" /\ approved.price > 0
      /\ delivery' = IF delivery[d].version > 0
                     THEN [delivery EXCEPT ![d].answer = "accepted"]
                     ELSE delivery
  BY DEF ApproveDelivery, ReleaseEscrow, NotDisputed, CanRelease
<1>4. /\ approved \in DealRow /\ SameTerms(deal[d], approved)
      /\ approved.revisionCount = deal[d].revisionCount
  BY <1>1, MethodsKeepRevisions, MethodsKeepTerms
<1> HIDE DEF approved
<1>5. /\ SameTerms(approved, row) /\ row.revisionCount = approved.revisionCount
      /\ row.status = "PAID" /\ row.escrow = "RELEASED"
  BY <1>4, MethodFields, MethodsKeepRevisions, MethodsKeepTerms
<1> HIDE DEF row
<1>6. /\ money.clearing = ledger[d].clearing /\ money.refunds = ledger[d].refunds
      /\ money.creator = ledger[d].creator + approved.creatorNet
      /\ money.fees = ledger[d].fees + approved.platformFee
  BY <1>1, <1>4, ReleasedFields
<1> HIDE DEF money
<1>7. /\ deal[d].amount \in Int /\ approved.creatorNet \in Int /\ approved.platformFee \in Int
      /\ approved.creatorNet + approved.platformFee = deal[d].amount
      /\ ledger[d].clearing \in Int /\ ledger[d].refunds \in Int
      /\ ledger[d].creator \in Int /\ ledger[d].fees \in Int
  BY <1>1, <1>4 DEF DealRow, SameTerms, AddsUp, Balance
<1>8. deal'[d] = row /\ ledger'[d] = money /\ \A e \in Deals \ {d} : NotTouched(e)
  BY <1>3 DEF IInv, TypeOK, NotTouched
<1>9. Flows(d, 0, 0, deal[d].amount)
  BY <1>6, <1>7, <1>8 DEF Flows
<1>10. delivery[d].version > 0 => delivery'[d].answer = "accepted"
  BY <1>3 DEF IInv, TypeOK
<1>11. Approves(d)
  BY <1>2, <1>3, <1>4, <1>5, <1>8, <1>9, <1>10 DEF Approves, Passes, KeepsTerms, SameTerms
<1> QED BY <1>8, <1>11 DEF Move

(* T15 and T16. *)
LEMMA RefundMoves ==
    ASSUME IInv, NEW d \in Deals, RequestRefund(d) \/ ResolveDisputeForBuyer(d)
    PROVE  Move(d)
<1> DEFINE row    == RefundedDeal(deal[d])
           closed == ClosedRow(row)
           money  == ReturnedToBuyer(ledger[d], row.amount)
<1>1. deal[d] \in DealRow /\ SidesAgree(deal[d]) /\ ledger[d] \in Balance
  BY DEF IInv, TypeOK, DealsSound, Sound
<1>2. deal[d].status \in {"ACCEPTED", "IN_PROGRESS", "DELIVERED"} /\ deal[d].escrow = "HELD"
  BY <1>1 DEF RequestRefund, ResolveDisputeForBuyer, CanRefund, MoveTo, DealTransitions,
              SidesAgree, DealRow, EscrowStatus
<1>3. /\ row \in DealRow /\ SameTerms(deal[d], row) /\ row.status = "REFUNDED"
      /\ row.escrow = "HELD" /\ row.revisionCount = deal[d].revisionCount
  BY <1>1, <1>2, MethodFields, MethodsKeepRevisions, MethodsKeepTerms
<1>4. /\ CloseEscrow(d, row)
      /\ UNCHANGED <<delivery, slotsTaken, grants>>
      /\ dispute' = dispute \/ dispute' = [dispute EXCEPT ![d] = "none"]
  BY DEF RequestRefund, ResolveDisputeForBuyer
<1> HIDE DEF row
<1>5. deal' = [deal EXCEPT ![d] = closed] /\ ledger' = [ledger EXCEPT ![d] = money]
  BY <1>3, <1>4 DEF CloseEscrow
<1>6. /\ SameTerms(row, closed) /\ closed.status = "REFUNDED" /\ closed.escrow = "REFUNDED"
      /\ closed.revisionCount = row.revisionCount
  BY <1>3, ClosedRowFields, MethodsKeepRevisions
<1> HIDE DEF closed
<1>7. row.amount \in Int /\ row.amount = deal[d].amount
  BY <1>1, <1>3 DEF DealRow, SameTerms
<1>8. /\ money.clearing = ledger[d].clearing
      /\ money.refunds = ledger[d].refunds + row.amount
      /\ money.creator = ledger[d].creator /\ money.fees = ledger[d].fees
  BY <1>1, <1>7, ReturnedFields
<1> HIDE DEF money
<1>9. ledger[d].clearing \in Int /\ ledger[d].creator \in Int /\ ledger[d].fees \in Int
  BY <1>1 DEF Balance
<1>10. /\ deal'[d] = closed /\ ledger'[d] = money /\ dispute'[d] \in {dispute[d], "none"}
       /\ \A e \in Deals \ {d} : NotTouched(e)
  BY <1>4, <1>5 DEF IInv, TypeOK, NotTouched
<1>11. Flows(d, 0, deal[d].amount, 0)
  BY <1>7, <1>8, <1>9, <1>10 DEF Flows
<1>12. Refunds(d)
  BY <1>2, <1>3, <1>4, <1>6, <1>10, <1>11 DEF Refunds, Passes, KeepsTerms, SameTerms
<1> QED BY <1>10, <1>12 DEF Move

LEMMA DisputeMoves ==
    ASSUME IInv, NEW d \in Deals, NEW party \in Parties,
           OpenDispute(d, party) \/ WithdrawDispute(d, party) \/ ResolveDisputeForCreator(d)
    PROVE  Move(d)
<1>1. UNCHANGED <<deal, ledger, delivery, slotsTaken, grants>>
  BY DEF OpenDispute, WithdrawDispute, ResolveDisputeForCreator, moneyVars
<1>2. /\ \E new : dispute' = [dispute EXCEPT ![d] = new]
      /\ dispute'[d] = "none" \/ deal[d].status \in DisputableStatus
  BY DEF OpenDispute, WithdrawDispute, ResolveDisputeForCreator, IInv, TypeOK
<1>3. \A e \in Deals \ {d} : NotTouched(e)
  BY <1>1, <1>2 DEF IInv, TypeOK, NotTouched
<1>4. Argues(d)
  BY <1>1, <1>2 DEF Argues
<1> QED BY <1>3, <1>4 DEF Move

LEMMA PaymentStays ==
    ASSUME \/ \E d, i, answer : StartDealPayment(d, i, answer)
           \/ \E d, o, i, answer : StartCounterOfferTopUp(d, o, i, answer)
           \/ \E i, type : ProviderNotifies(i, type)
           \/ \E i : IgnoreNotice(i)
           \/ \E i, type : FlagCapture(i, type)
           \/ UNCHANGED vars
    PROVE  AllStay
<1>1. UNCHANGED <<deal, ledger, delivery, dispute, slotsTaken, grants>>
  BY DEF StartDealPayment, StartCounterOfferTopUp, ProviderNotifies, IgnoreNotice, FlagCapture,
         moneyVars, vars
<1> QED BY <1>1 DEF AllStay, KeepsTerms

LEMMA TickStays ==
    ASSUME IInv, Tick
    PROVE  AllStay
<1>1. /\ deal' = [d \in Deals |-> TickedDeal(deal[d])]
      /\ UNCHANGED <<ledger, delivery, dispute, slotsTaken, grants>>
  BY DEF Tick, moneyVars
<1>2. ASSUME NEW d \in Deals
      PROVE  /\ deal'[d].status = deal[d].status /\ deal'[d].escrow = deal[d].escrow
             /\ KeepsTerms(d)
  <2>1. deal[d] \in DealRow /\ deal'[d] = TickedDeal(deal[d])
    BY <1>1 DEF IInv, TypeOK
  <2> DEFINE ticked == TickedDeal(deal[d])
  <2>2. /\ ticked.status = deal[d].status /\ ticked.escrow = deal[d].escrow
        /\ ticked.revisionCount = deal[d].revisionCount /\ SameTerms(deal[d], ticked)
    BY <2>1, MethodFields, MethodsKeepRevisions, MethodsKeepTerms
  <2> HIDE DEF ticked
  <2>3. deal'[d] = ticked
    BY <2>1 DEF ticked
  <2> QED BY <2>2, <2>3 DEF KeepsTerms, SameTerms
<1> QED BY <1>1, <1>2 DEF AllStay

(* Whatever happens, at most one deal moves, and in one of these ways. *)
LEMMA EveryStepIsAMove ==
    ASSUME IInv, [Next]_vars
    PROVE  AllStay \/ \E d \in Deals : Move(d)
<1>1. ASSUME NEW d \in Deals, NegotiationStep(d) PROVE Move(d)
  BY <1>1, CreateDealMoves, AcceptDealMoves, DeclineMoves, CounterOfferDealMoves,
     AcceptCounterOfferMoves DEF NegotiationStep
<1>2. ASSUME NEW d \in Deals, PaymentStep(d) PROVE AllStay
  BY <1>2, PaymentStays DEF PaymentStep
<1>3. ASSUME NEW d \in Deals, WorkStep(d) PROVE Move(d)
  <2>1. "buyer" \in Parties
    BY DEF Parties
  <2> QED
    BY <1>3, <2>1, SubmitDeliveryMoves, RejectDeliveryMoves, ApproveDeliveryMoves, RefundMoves,
       DisputeMoves DEF WorkStep
<1>4. ASSUME NEW d \in Deals, SweepExpire(d) \/ SweepAutoApprove(d) PROVE Move(d)
  BY <1>4, SweepExpireMoves, ApproveDeliveryMoves DEF SweepAutoApprove
<1>5. ASSUME NEW i \in Intents, HandleNotice(i) PROVE AllStay \/ \E d \in Deals : Move(d)
  BY <1>5, PaymentStays, CaptureInitialMoves, CaptureAndUnlockMoves, CaptureTopUpMoves
  DEF HandleNotice
<1>6. ASSUME NEW i \in Intents, NEW type \in NoticeType, ProviderNotifies(i, type) PROVE AllStay
  BY <1>6, PaymentStays
<1>7. CASE Tick
  BY <1>7, TickStays
<1>8. CASE UNCHANGED vars
  BY <1>8, PaymentStays
<1> QED
  BY <1>1, <1>2, <1>3, <1>4, <1>5, <1>6, <1>7, <1>8 DEF Next

-----------------------------------------------------------------------------
(* What the moves keep, beyond the inductive invariant of the rows. *)

(* The delivery of a deal against its row: none until work is accepted, one  *)
(* more than was sent back while the buyer looks at it; and only content is  *)
(* ever paid without one, because its money is never held.                   *)
DeliverySound(row, latest) ==
    /\ row.status \in {"NONE", "PROPOSED", "COUNTER_OFFERED", "ACCEPTED"} =>
          latest.version = 0 /\ latest.answer = "none"
    /\ row.status \in {"PROPOSED", "COUNTER_OFFERED", "ACCEPTED"} => row.revisionCount = 0
    /\ row.status = "DELIVERED" =>
          latest.answer = "waiting" /\ latest.version = row.revisionCount + 1
    /\ latest.answer = "waiting" => row.status \in {"DELIVERED", "REFUNDED"}
    /\ row.status = "IN_PROGRESS" =>
          latest.answer = "rejected" /\ latest.version = row.revisionCount
    /\ row.status = "PAID" =>
          latest.answer = IF row.kind = "CONTENT_UNLOCK" THEN "none" ELSE "accepted"
    /\ row.escrow = "HELD" => row.kind # "CONTENT_UNLOCK"

DeliveriesSound == \A d \in Deals : DeliverySound(deal[d], delivery[d])

(* A dispute is about work: there is none over a proposal or over paid work. *)
DisputesSound ==
    \A d \in Deals : dispute[d] # "none" =>
        deal[d].status \in DisputableStatus \cup {"REFUNDED"}

Bookings == {d \in Deals : /\ deal[d].kind = "BOOKING"
                           /\ deal[d].status \notin {"NONE", "DECLINED", "EXPIRED"}}

UnlocksOf(b) == {d \in Deals : /\ BuyerOf[d] = b
                               /\ deal[d].kind = "CONTENT_UNLOCK"
                               /\ deal[d].status = "PAID"}

(* One paid deal for each buyer that has the content, none for the others. *)
GrantsSound ==
    \A b \in Buyers : IF b \in grants THEN \E d \in Deals : UnlocksOf(b) = {d}
                                      ELSE UnlocksOf(b) = {}

StepsInv == DeliveriesSound /\ DisputesSound /\ SlotsTakenByBookings /\ GrantsSound

LEMMA DeliveriesKept ==
    ASSUME IInv, DeliveriesSound, AllStay \/ \E d \in Deals : Move(d)
    PROVE  DeliveriesSound'
<1>1. CASE AllStay
  BY <1>1 DEF AllStay, KeepsTerms, DeliveriesSound, DeliverySound
<1>2. ASSUME NEW d \in Deals, Move(d) PROVE DeliveriesSound'
  <2>1. \A e \in Deals \ {d} : DeliverySound(deal'[e], delivery'[e])
    BY <1>2 DEF Move, NotTouched, DeliveriesSound
  <2>0. SUFFICES DeliverySound(deal'[d], delivery'[d])
    BY <2>1 DEF DeliveriesSound
  <2>2. DeliverySound(deal[d], delivery[d])
    BY DEF DeliveriesSound
  <2>3. deal[d].revisionCount \in Nat /\ delivery[d].version \in Nat
    BY DEF IInv, TypeOK, DealRow
  <2>4. CASE Opens(d)
    <3>1. deal[d].status = "NONE" /\ deal'[d].status = "PROPOSED" /\ deal'[d].escrow = "PENDING"
      BY <2>4 DEF Opens, Passes
    <3> QED BY <2>2, <2>4, <3>1 DEF DeliverySound, Opens
  <2>5. CASE Talks(d) \/ Renegotiates(d) \/ IsPaid(d)
    BY <2>2, <2>5 DEF DeliverySound, Talks, Renegotiates, IsPaid, Passes, KeepsTerms
  <2>6. CASE Unlocks(d) \/ Ends(d) \/ Refunds(d)
    BY <2>2, <2>6 DEF DeliverySound, Unlocks, Ends, Refunds, Passes, KeepsTerms
  <2>7. CASE Delivers(d)
    BY <2>2, <2>3, <2>7 DEF DeliverySound, Delivers, Passes, KeepsTerms
  <2>8. CASE SendsBack(d)
    <3>1. delivery'[d].answer = "rejected" /\ delivery'[d].version = delivery[d].version
      BY <2>8 DEF SendsBack, IInv, TypeOK
    <3> QED BY <2>2, <2>3, <2>8, <3>1 DEF DeliverySound, SendsBack, Passes
  <2>9. CASE Approves(d)
    BY <2>2, <2>3, <2>9 DEF DeliverySound, Approves, Passes, KeepsTerms
  <2>10. CASE Argues(d)
    BY <2>2, <2>10 DEF Argues
  <2> QED BY <1>2, <2>4, <2>5, <2>6, <2>7, <2>8, <2>9, <2>10 DEF Move
<1> QED BY <1>1, <1>2

LEMMA DisputesKept ==
    ASSUME DisputesSound, AllStay \/ \E d \in Deals : Move(d)
    PROVE  DisputesSound'
<1>1. CASE AllStay
  BY <1>1 DEF AllStay, DisputesSound
<1>2. ASSUME NEW d \in Deals, Move(d) PROVE DisputesSound'
  <2>1. dispute'[d] # "none" => deal'[d].status \in DisputableStatus \cup {"REFUNDED"}
    BY <1>2 DEF Move, Opens, Talks, Renegotiates, IsPaid, Unlocks, Ends, Delivers, SendsBack,
                Approves, Refunds, Argues, Passes, DisputesSound, DisputableStatus
  <2> QED BY <1>2, <2>1 DEF Move, NotTouched, DisputesSound
<1> QED BY <1>1, <1>2

(* RN-048, one step: only T12 and the unlocking of content release escrow.   *)
LEMMA ReleaseIsUndisputed ==
    ASSUME DisputesSound, AllStay \/ \E d \in Deals : Move(d),
           NEW e \in Deals, deal[e].escrow # "RELEASED", deal'[e].escrow = "RELEASED"
    PROVE  dispute[e] = "none" /\ dispute'[e] = "none"
<1>1. ~ AllStay
  BY DEF AllStay
<1>2. PICK d \in Deals : Move(d)
  BY <1>1
<1>3. d = e
  BY <1>2 DEF Move, NotTouched
<1>4. Approves(e) \/ Unlocks(e)
  BY <1>2, <1>3 DEF Move, Opens, Talks, Renegotiates, IsPaid, Ends, Delivers, SendsBack,
                    Refunds, Argues, Passes
<1>5. CASE Approves(e)
  BY <1>5 DEF Approves
<1>6. CASE Unlocks(e)
  BY <1>6 DEF Unlocks, Passes, DisputesSound, DisputableStatus
<1> QED BY <1>4, <1>5, <1>6

LEMMA SlotsKept ==
    ASSUME IInv, SlotsTakenByBookings, AllStay \/ \E d \in Deals : Move(d)
    PROVE  SlotsTakenByBookings'
<1>1. IsFiniteSet(Bookings)
  BY IdsAssumption, FS_Subset DEF Bookings
<1>2. slotsTaken = Cardinality(Bookings) /\ Cardinality(Bookings) \in Nat
  BY <1>1, FS_CardinalityType DEF SlotsTakenByBookings, Bookings
<1>3. SUFFICES slotsTaken' = Cardinality(Bookings')
  BY DEF SlotsTakenByBookings, Bookings
<1>4. CASE AllStay
  <2>1. Bookings' = Bookings
    BY <1>4 DEF AllStay, KeepsTerms, Bookings
  <2> QED BY <1>2, <1>4, <2>1 DEF AllStay
<1>5. ASSUME NEW d \in Deals, Move(d) PROVE slotsTaken' = Cardinality(Bookings')
  <2>1. \A e \in Deals \ {d} : deal'[e] = deal[e]
    BY <1>5 DEF Move, NotTouched
  <2>2. CASE Opens(d)
    <3>1. d \notin Bookings /\ deal'[d].status = "PROPOSED"
      BY <2>2 DEF Opens, Passes, Bookings
    <3>2. CASE deal'[d].kind = "BOOKING"
      <4>1. Bookings' = Bookings \cup {d}
        BY <2>1, <3>1, <3>2 DEF Bookings
      <4>2. slotsTaken' = slotsTaken + 1
        BY <2>2, <3>2 DEF Opens
      <4> QED BY <1>1, <1>2, <3>1, <4>1, <4>2, FS_AddElement
    <3>3. CASE deal'[d].kind # "BOOKING"
      <4>1. Bookings' = Bookings
        BY <2>1, <3>1, <3>3 DEF Bookings
      <4> QED BY <1>2, <2>2, <3>3, <4>1 DEF Opens
    <3> QED BY <3>2, <3>3
  <2>3. CASE Ends(d)
    <3>1. /\ deal[d].status \in {"PROPOSED", "COUNTER_OFFERED"}
          /\ deal'[d].status \in {"DECLINED", "EXPIRED"} /\ ReleaseSlot(d)
      BY <2>3 DEF Ends, Passes
    <3>2. CASE deal[d].kind = "BOOKING"
      <4>1. d \in Bookings
        BY <3>1, <3>2 DEF Bookings
      <4>2. Bookings' = Bookings \ {d}
        BY <2>1, <3>1 DEF Bookings
      <4>3. Cardinality(Bookings) # 0
        BY <1>1, <4>1, FS_EmptySet
      <4>4. slotsTaken' = slotsTaken - 1
        BY <1>2, <3>1, <3>2, <4>3 DEF ReleaseSlot
      <4> QED BY <1>1, <1>2, <4>1, <4>2, <4>4, FS_RemoveElement
    <3>3. CASE deal[d].kind # "BOOKING"
      <4>1. Bookings' = Bookings
        BY <2>1, <2>3, <3>1, <3>3 DEF Bookings, Ends, KeepsTerms
      <4> QED BY <1>2, <3>1, <3>3, <4>1 DEF ReleaseSlot
    <3> QED BY <3>2, <3>3
  <2>4. CASE ~ Opens(d) /\ ~ Ends(d)
    <3>1. /\ slotsTaken' = slotsTaken
          /\ deal'[d].kind = deal[d].kind
          /\ \/ /\ deal[d].status \notin {"NONE", "DECLINED", "EXPIRED"}
                /\ deal'[d].status \notin {"NONE", "DECLINED", "EXPIRED"}
             \/ deal'[d] = deal[d]
      BY <1>5, <2>4 DEF Move, Talks, Renegotiates, IsPaid, Unlocks, Delivers, SendsBack,
                        Approves, Refunds, Argues, Passes, KeepsTerms
    <3>2. Bookings' = Bookings
      BY <2>1, <3>1 DEF Bookings
    <3> QED BY <1>2, <3>1, <3>2
  <2> QED BY <2>2, <2>3, <2>4
<1> QED BY <1>4, <1>5

LEMMA GrantsKept ==
    ASSUME IInv, DeliveriesSound, GrantsSound, AllStay \/ \E d \in Deals : Move(d)
    PROVE  GrantsSound'
<1>1. CASE AllStay
  <2>1. \A b : UnlocksOf(b)' = UnlocksOf(b)
    BY <1>1 DEF AllStay, KeepsTerms, UnlocksOf
  <2> QED BY <1>1, <2>1 DEF AllStay, GrantsSound
<1>2. ASSUME NEW d \in Deals, Move(d) PROVE GrantsSound'
  <2>1. \A e \in Deals \ {d} : deal'[e] = deal[e]
    BY <1>2 DEF Move, NotTouched
  <2>2. CASE Unlocks(d)
    <3>1. /\ deal[d].status # "PAID" /\ deal'[d].status = "PAID"
          /\ deal[d].kind = "CONTENT_UNLOCK" /\ deal'[d].kind = "CONTENT_UNLOCK"
          /\ BuyerOf[d] \notin grants /\ grants' = grants \cup {BuyerOf[d]}
      BY <2>2 DEF Unlocks, Passes, KeepsTerms
    <3>2. BuyerOf[d] \in Buyers
      BY IdsAssumption
    <3>3. \A b : UnlocksOf(b)' = IF b = BuyerOf[d] THEN UnlocksOf(b) \cup {d} ELSE UnlocksOf(b)
      BY <2>1, <3>1 DEF UnlocksOf
    <3>4. UnlocksOf(BuyerOf[d])' = {d}
      BY <3>1, <3>2, <3>3 DEF GrantsSound
    <3> QED BY <3>1, <3>3, <3>4 DEF GrantsSound
  <2>3. CASE ~ Unlocks(d)
    <3>1. grants' = grants
      BY <1>2, <2>3 DEF Move, Opens, Talks, Renegotiates, IsPaid, Ends, Delivers, SendsBack,
                        Approves, Refunds, Argues
    <3>2. deal[d].escrow = "HELD" => deal[d].kind # "CONTENT_UNLOCK"
      BY DEF DeliveriesSound, DeliverySound
    <3>3. \/ deal'[d] = deal[d]
          \/ deal[d].status # "PAID" /\ deal'[d].status # "PAID"
          \/ deal'[d].kind = deal[d].kind /\ deal[d].kind # "CONTENT_UNLOCK"
      BY <1>2, <2>3, <3>2 DEF Move, Opens, Talks, Renegotiates, IsPaid, Ends, Delivers, SendsBack,
                              Approves, Refunds, Argues, Passes, KeepsTerms
    <3>4. \A b : UnlocksOf(b)' = UnlocksOf(b)
      BY <2>1, <3>3 DEF UnlocksOf
    <3> QED BY <3>1, <3>4 DEF GrantsSound
  <2> QED BY <2>2, <2>3
<1> QED BY <1>1, <1>2

LEMMA InitEstablishesSteps == Init => StepsInv
<1> SUFFICES ASSUME Init PROVE StepsInv
  OBVIOUS
<1>1. \A d \in Deals : deal[d].status = "NONE" /\ deal[d].escrow = "PENDING"
  BY DEF Init, NoDeal
<1>2. DeliveriesSound
  <2>1. \A d \in Deals : delivery[d].version = 0 /\ delivery[d].answer = "none"
    BY DEF Init
  <2> QED BY <1>1, <2>1 DEF DeliveriesSound, DeliverySound
<1>3. DisputesSound
  BY DEF Init, DisputesSound
<1>4. SlotsTakenByBookings
  <2>1. {d \in Deals : /\ deal[d].kind = "BOOKING"
                       /\ deal[d].status \notin {"NONE", "DECLINED", "EXPIRED"}} = {}
    BY <1>1
  <2> QED BY <2>1, FS_EmptySet DEF Init, SlotsTakenByBookings
<1>5. GrantsSound
  BY <1>1 DEF Init, GrantsSound, UnlocksOf
<1> QED BY <1>2, <1>3, <1>4, <1>5 DEF StepsInv

LEMMA StepsInvariant == Spec => []StepsInv
<1>1. IInv /\ StepsInv /\ [Next]_vars => StepsInv'
  BY EveryStepIsAMove, DeliveriesKept, DisputesKept, SlotsKept, GrantsKept DEF StepsInv
<1> QED BY <1>1, InductiveInvariant, InitEstablishesSteps, PTL DEF Spec

-----------------------------------------------------------------------------
(* A deal under counter-offer has its one counter-offer and a DELIVERED deal *)
(* its delivery to be answered; no counter-offer waits but at such a deal or *)
(* at one declined or expired under it, no delivery but at such a deal or at *)
(* one returned under it (counter-offer-deal, respond-counter-offer,         *)
(* submit-delivery, reject-delivery and approve-delivery use cases).         *)
THEOREM QuestionsAlwaysMatch == Spec => []QuestionsMatchTheDeal
<1>1. IInv => CounterOfferMatchesDeal
  <2> SUFFICES ASSUME IInv, NEW d \in Deals
               PROVE  /\ Cardinality(PendingOf(d)) <= 1
                      /\ deal[d].status = "COUNTER_OFFERED" =>
                            \E o \in PendingOf(d) :
                                <<offer[o].price, offer[o].sla>> # <<deal[d].price, deal[d].sla>>
                      /\ PendingOf(d) # {} =>
                            deal[d].status \in {"COUNTER_OFFERED", "DECLINED", "EXPIRED"}
    BY DEF CounterOfferMatchesDeal
  <2>1. \A o, p \in PendingOf(d) : o = p
    BY DEF IInv, OffersSound, PendingOf
  <2>2. Cardinality(PendingOf(d)) <= 1
    <3>1. CASE PendingOf(d) = {}
      <4>1. Cardinality({}) = 0
        BY FS_EmptySet
      <4> QED BY <3>1, <4>1
    <3>2. CASE PendingOf(d) # {}
      <4>1. PICK o : PendingOf(d) = {o}
        BY <2>1, <3>2
      <4>2. Cardinality({o}) = 1
        BY FS_Singleton
      <4> QED BY <4>1, <4>2
    <3> QED BY <3>1, <3>2
  <2> QED BY <2>2 DEF IInv, OffersSound, PendingOf
<1>2. StepsInv => DeliveryMatchesDeal
  BY DEF StepsInv, DeliveriesSound, DeliverySound, DeliveryMatchesDeal
<1> QED BY <1>1, <1>2, InductiveInvariant, StepsInvariant, PTL DEF QuestionsMatchTheDeal

(* RN-048: whoever approves a delivery, the buyer or the sweep, and whatever *)
(* happens in between, no escrow is released while a dispute over it is open *)
(* (ApproveDelivery.execute).                                               *)
THEOREM NeverReleasedUnderDispute == Spec => NoReleaseUnderDispute
<1>1. IInv /\ StepsInv /\ [Next]_vars =>
        [\A d \in Deals : deal[d].escrow # "RELEASED" /\ deal'[d].escrow = "RELEASED" =>
              dispute[d] = "none" /\ dispute'[d] = "none"]_vars
  BY EveryStepIsAMove, ReleaseIsUndisputed DEF StepsInv
<1> QED BY <1>1, InductiveInvariant, StepsInvariant, PTL DEF Spec, NoReleaseUnderDispute

(* The slots a window says are taken are those of the bookings that stand:   *)
(* none is lost and none is given back twice, for any number of deals        *)
(* (CreateDeal.reserveSlot, SlotReleaseService.releaseFor).                  *)
THEOREM SlotsAlwaysTakenByBookings == Spec => []SlotsTakenByBookings
BY StepsInvariant, PTL DEF StepsInv

(* Each buyer has paid once for the content it has, and has all that it paid *)
(* for (FulfilContentUnlock.fulfil, UNIQUE(content_id, user_id)).            *)
THEOREM ContentAlwaysPaidOnce == Spec => []ContentIsPaidOnce
<1>1. StepsInv => ContentIsPaidOnce
  <2> SUFFICES ASSUME StepsInv, NEW b \in Buyers
               PROVE  Cardinality(UnlocksOf(b)) = IF b \in grants THEN 1 ELSE 0
    BY DEF ContentIsPaidOnce, UnlocksOf
  <2>1. CASE b \in grants
    <3>1. PICK d \in Deals : UnlocksOf(b) = {d}
      BY <2>1 DEF StepsInv, GrantsSound
    <3>2. Cardinality({d}) = 1
      BY FS_Singleton
    <3> QED BY <2>1, <3>1, <3>2
  <2>2. CASE b \notin grants
    <3>1. UnlocksOf(b) = {}
      BY <2>2 DEF StepsInv, GrantsSound
    <3>2. Cardinality({}) = 0
      BY FS_EmptySet
    <3> QED BY <2>2, <3>1, <3>2
  <2> QED BY <2>1, <2>2
<1> QED BY <1>1, StepsInvariant, PTL

-----------------------------------------------------------------------------
(* The refinement of Escrow. *)

(* What changes hands is one of the amounts that deals can be worth, or the  *)
(* difference between two of them.                                          *)
AmountsSound ==
    /\ \A d \in Deals : deal[d].status # "NONE" => deal[d].amount \in DealAmounts
    /\ \A o \in CounterOffers : offer[o].status = "PENDING" => offer[o].price \in Prices

(* What becomes of the counter-offers: one is made on an unused id, or one    *)
(* that waits is answered.                                                  *)
OfferMoves ==
    \/ offer' = offer
    \/ \E o \in CounterOffers, status \in {"ACCEPTED", "DECLINED"} :
           /\ offer[o].status = "PENDING"
           /\ offer' = [offer EXCEPT ![o].status = status]
    \/ \E o \in CounterOffers, d \in Deals, price \in Prices, sla \in Slas :
           /\ offer[o].status = "NONE"
           /\ offer' = [offer EXCEPT ![o] = [deal |-> d, price |-> price, sla |-> sla,
                                             status |-> "PENDING"]]

LEMMA EveryStepMovesOneOffer ==
    ASSUME IInv, [Next]_vars
    PROVE  OfferMoves
<1>1. ASSUME NEW d \in Deals, NegotiationStep(d) PROVE OfferMoves
  <2>1. CASE \/ \E kind \in OfferKind, price \in Prices, sla \in Slas : CreateDeal(d, kind, price, sla)
             \/ AcceptDeal(d) \/ DeclineDeal(d)
    BY <2>1 DEF CreateDeal, AcceptDeal, DeclineDeal, OfferMoves
  <2>2. CASE \E o \in CounterOffers, price \in Prices, sla \in Slas :
                 CounterOfferDeal(d, o, price, sla)
    <3>1. PICK o \in CounterOffers, price \in Prices, sla \in Slas :
                 CounterOfferDeal(d, o, price, sla)
      BY <2>2
    <3>2. /\ offer[o].status = "NONE"
          /\ offer' = [offer EXCEPT ![o] = [deal |-> d, price |-> price, sla |-> sla,
                                            status |-> "PENDING"]]
      BY <3>1 DEF CounterOfferDeal
    <3> QED BY <3>2 DEF OfferMoves
  <2>3. CASE \E o \in CounterOffers : AcceptCounterOffer(d, o) \/ DeclineCounterOffer(d, o)
    <3>1. PICK o \in CounterOffers : AcceptCounterOffer(d, o) \/ DeclineCounterOffer(d, o)
      BY <2>3
    <3>2. /\ offer[o].status = "PENDING"
          /\ \/ offer' = [offer EXCEPT ![o].status = "ACCEPTED"]
             \/ offer' = [offer EXCEPT ![o].status = "DECLINED"]
      BY <3>1 DEF AcceptCounterOffer, ApplyAcceptedCounterOffer, DeclineCounterOffer, PendingOf
    <3> QED BY <3>2 DEF OfferMoves
  <2> QED BY <1>1, <2>1, <2>2, <2>3 DEF NegotiationStep
<1>2. ASSUME NEW d \in Deals, PaymentStep(d) PROVE offer' = offer
  BY <1>2 DEF PaymentStep, StartDealPayment, StartCounterOfferTopUp
<1>3. ASSUME NEW d \in Deals, WorkStep(d) \/ SweepExpire(d) \/ SweepAutoApprove(d)
      PROVE  offer' = offer
  BY <1>3 DEF WorkStep, SubmitDelivery, RejectDelivery, ApproveDelivery, RequestRefund, OpenDispute,
              WithdrawDispute, ResolveDisputeForBuyer, ResolveDisputeForCreator, SweepExpire,
              SweepAutoApprove
<1>4. ASSUME NEW i \in Intents, HandleNotice(i) PROVE OfferMoves
  <2>1. ASSUME NEW type \in FullCapture, CaptureTopUp(i, type) PROVE OfferMoves
    <3>1. intent[i].offer \in CounterOffers /\ offer[intent[i].offer].status = "PENDING"
      BY <2>1 DEF CaptureTopUp, IsDeadTopUp, IInv, IntentsSound
    <3>2. offer' = [offer EXCEPT ![intent[i].offer].status = "ACCEPTED"]
      BY <2>1 DEF CaptureTopUp, ApplyAcceptedCounterOffer
    <3> QED BY <3>1, <3>2 DEF OfferMoves
  <2>2. CASE ~ \E type \in FullCapture : CaptureTopUp(i, type)
    BY <1>4, <2>2 DEF HandleNotice, IgnoreNotice, FlagCapture, CaptureInitial, CaptureAndUnlock,
                      OfferMoves
  <2> QED BY <2>1, <2>2
<1>5. ASSUME NEW i \in Intents, NEW type \in NoticeType, ProviderNotifies(i, type)
      PROVE  offer' = offer
  BY <1>5 DEF ProviderNotifies
<1>6. Tick \/ UNCHANGED vars => offer' = offer
  BY DEF Tick, vars
<1> QED BY <1>1, <1>2, <1>3, <1>4, <1>5, <1>6 DEF Next, OfferMoves

LEMMA OfferPricesKept ==
    ASSUME IInv, AmountsSound, [Next]_vars
    PROVE  \A o \in CounterOffers : offer'[o].status = "PENDING" => offer'[o].price \in Prices
<1>1. OfferMoves
  BY EveryStepMovesOneOffer
<1> QED BY <1>1 DEF OfferMoves, AmountsSound, IInv, TypeOK, OfferRow

LEMMA AmountsKept ==
    ASSUME IInv, AmountsSound, [Next]_vars
    PROVE  AmountsSound'
<1>1. \A d \in Deals : deal'[d].status # "NONE" => deal'[d].amount \in DealAmounts
  <2>1. CASE AllStay
    BY <2>1 DEF AllStay, KeepsTerms, AmountsSound
  <2>2. ASSUME NEW d \in Deals, Move(d)
        PROVE  \A e \in Deals : deal'[e].status # "NONE" => deal'[e].amount \in DealAmounts
    <3>1. \A e \in Deals \ {d} : deal'[e].status # "NONE" => deal'[e].amount \in DealAmounts
      BY <2>2 DEF Move, NotTouched, AmountsSound
    <3>2. CASE Renegotiates(d)
      <4>1. PICK o \in PendingOf(d) :
               deal'[d].amount = SplitFees(offer[o].price, FeeBasisPoints).amount
        BY <3>2 DEF Renegotiates
      <4>2. offer[o].price \in Prices
        BY DEF PendingOf, AmountsSound
      <4>3. deal'[d].amount \in DealAmounts
        BY <4>1, <4>2, Zenon DEF DealAmounts
      <4> QED BY <3>1, <4>3
    <3>3. CASE ~ Renegotiates(d)
      <4>1. deal'[d].status # "NONE" => deal'[d].amount \in DealAmounts
        BY <2>2, <3>3 DEF Move, Opens, Talks, IsPaid, Unlocks, Ends, Delivers, SendsBack,
                          Approves, Refunds, Argues, Passes, KeepsTerms, AmountsSound
      <4> QED BY <3>1, <4>1
    <3> QED BY <3>2, <3>3
  <2> QED BY <2>1, <2>2, EveryStepIsAMove
<1> QED BY <1>1, OfferPricesKept DEF AmountsSound

LEMMA AmountsInvariant == Spec => []AmountsSound
<1>1. Init => AmountsSound
  BY DEF Init, AmountsSound, NoDeal, NoOffer
<1>2. IInv /\ AmountsSound /\ [Next]_vars => AmountsSound'
  BY AmountsKept
<1> QED BY <1>1, <1>2, InductiveInvariant, PTL DEF Spec

(* The variables of the escrow box, as DealEscrow maps them. *)
StageNow    == [d \in Deals |-> StageOf(deal[d].escrow)]
BoxNow      == [d \in Deals |-> ledger[d].escrow]
PaidInNow   == [d \in Deals |-> ledger[d].clearing]
PaidBackNow == [d \in Deals |-> ledger[d].refunds]
PaidOutNow  == [d \in Deals |-> ledger[d].creator + ledger[d].fees]

(* A move changes the box of its own deal and no other. *)
LEMMA OneBoxMoves ==
    ASSUME NEW d \in Deals, \A e \in Deals \ {d} : NotTouched(e)
    PROVE  /\ StageNow'    = [StageNow    EXCEPT ![d] = StageOf(deal'[d].escrow)]
           /\ BoxNow'      = [BoxNow      EXCEPT ![d] = ledger'[d].escrow]
           /\ PaidInNow'   = [PaidInNow   EXCEPT ![d] = ledger'[d].clearing]
           /\ PaidBackNow' = [PaidBackNow EXCEPT ![d] = ledger'[d].refunds]
           /\ PaidOutNow'  = [PaidOutNow  EXCEPT ![d] = ledger'[d].creator + ledger'[d].fees]
           /\ StageNow[d] = StageOf(deal[d].escrow) /\ BoxNow[d] = ledger[d].escrow
           /\ PaidInNow[d] = ledger[d].clearing     /\ PaidBackNow[d] = ledger[d].refunds
           /\ PaidOutNow[d] = ledger[d].creator + ledger[d].fees
BY DEF NotTouched, StageNow, BoxNow, PaidInNow, PaidBackNow, PaidOutNow

(* What is in the box follows from what went in and out of it. *)
LEMMA BoxBalances ==
    ASSUME IInv, NEW d \in Deals
    PROVE  /\ ledger[d].clearing \in Int /\ ledger[d].refunds \in Int
           /\ ledger[d].creator + ledger[d].fees \in Int /\ deal[d].amount \in Nat
           /\ ledger[d].escrow = IF deal[d].escrow = "HELD" THEN deal[d].amount ELSE 0
           /\ ledger[d].clearing
                = ledger[d].escrow + ledger[d].refunds + (ledger[d].creator + ledger[d].fees)
<1>1. Books(deal[d], ledger[d]) /\ ledger[d] \in Balance /\ deal[d] \in DealRow
  BY DEF IInv, DealsSound, Sound
<1>2. /\ ledger[d].clearing \in Int /\ ledger[d].escrow \in Int /\ ledger[d].refunds \in Int
      /\ ledger[d].creator \in Int /\ ledger[d].fees \in Int /\ deal[d].amount \in Nat
  BY <1>1 DEF Balance, DealRow
<1> QED BY <1>1, <1>2 DEF Books

(* One step of the box from what it does to its deal. *)
LEMMA MoveIsEscrowStep ==
    ASSUME IInv, IInv', AmountsSound, NEW d \in Deals, Move(d),
           deal'[d].amount \in DealAmounts
    PROVE  Box!EscrowStep(d) \/ UNCHANGED Box!escrowVars
<1> DEFINE in   == ledger[d].clearing   in2   == ledger'[d].clearing
           back == ledger[d].refunds    back2 == ledger'[d].refunds
           out  == ledger[d].creator + ledger[d].fees
           out2 == ledger'[d].creator + ledger'[d].fees
           box  == ledger[d].escrow     box2  == ledger'[d].escrow
           from == deal[d].escrow       to    == deal'[d].escrow
           amount == deal[d].amount     amount2 == deal'[d].amount
<1>1. /\ in \in Int /\ back \in Int /\ out \in Int /\ amount \in Nat
      /\ box = (IF from = "HELD" THEN amount ELSE 0) /\ in = box + back + out
  BY BoxBalances
<1>2. /\ in2 \in Int /\ back2 \in Int /\ out2 \in Int /\ amount2 \in Nat
      /\ box2 = (IF to = "HELD" THEN amount2 ELSE 0) /\ in2 = box2 + back2 + out2
  <2>1. Books(deal'[d], ledger'[d]) /\ ledger'[d] \in Balance /\ deal'[d] \in DealRow
    BY DEF IInv, DealsSound, Sound
  <2>2. /\ in2 \in Int /\ box2 \in Int /\ back2 \in Int
        /\ ledger'[d].creator \in Int /\ ledger'[d].fees \in Int /\ amount2 \in Nat
    BY <2>1 DEF Balance, DealRow
  <2>3. /\ in2 = box2 + back2 + ledger'[d].creator + ledger'[d].fees
        /\ box2 = (IF to = "HELD" THEN amount2 ELSE 0)
    BY <2>1 DEF Books
  <2> QED BY <2>2, <2>3
<1>3. /\ StageNow'    = [StageNow    EXCEPT ![d] = StageOf(to)]
      /\ BoxNow'      = [BoxNow      EXCEPT ![d] = box2]
      /\ PaidInNow'   = [PaidInNow   EXCEPT ![d] = in2]
      /\ PaidBackNow' = [PaidBackNow EXCEPT ![d] = back2]
      /\ PaidOutNow'  = [PaidOutNow  EXCEPT ![d] = out2]
      /\ StageNow[d] = StageOf(from) /\ BoxNow[d] = box /\ PaidInNow[d] = in
      /\ PaidBackNow[d] = back /\ PaidOutNow[d] = out
  BY OneBoxMoves DEF Move
<1>4. /\ StageNow \in [Deals -> {StageOf(deal[e].escrow) : e \in Deals}]
      /\ DOMAIN StageNow = Deals /\ DOMAIN BoxNow = Deals /\ DOMAIN PaidInNow = Deals
      /\ DOMAIN PaidBackNow = Deals /\ DOMAIN PaidOutNow = Deals
      /\ StageNow = [e \in Deals |-> StageNow[e]] /\ BoxNow = [e \in Deals |-> BoxNow[e]]
      /\ PaidInNow = [e \in Deals |-> PaidInNow[e]]
      /\ PaidBackNow = [e \in Deals |-> PaidBackNow[e]]
      /\ PaidOutNow = [e \in Deals |-> PaidOutNow[e]]
  BY DEF StageNow, BoxNow, PaidInNow, PaidBackNow, PaidOutNow
<1>5. /\ StageOf("PENDING") = "open" /\ StageOf("HELD") = "held"
      /\ StageOf("RELEASED") = "released" /\ StageOf("REFUNDED") = "returned"
      /\ StageOf("FAILED") = "void"
  BY DEF StageOf
<1>6. amount2 \in EscrowAmounts
  BY DEF EscrowAmounts
<1>sum. PICK sum : sum = amount2
  OBVIOUS
<1> HIDE DEF in, in2, back, back2, out, out2, box, box2, from, to, amount, amount2
<1>7. CASE to = from /\ in2 = in /\ back2 = back /\ out2 = out /\ box2 = box
  <2>1. UNCHANGED <<StageNow, BoxNow, PaidInNow, PaidBackNow, PaidOutNow>>
    BY <1>3, <1>4, <1>7
  <2> QED BY <2>1 DEF Box!escrowVars, StageNow, BoxNow, PaidInNow, PaidBackNow, PaidOutNow
<1>8. CASE /\ from = "PENDING" /\ to = "HELD"
           /\ in2 = in + amount2 /\ back2 = back /\ out2 = out
  <2>1. /\ StageNow[d] = "open"
        /\ StageNow'  = [StageNow EXCEPT ![d] = "held"]
        /\ BoxNow'    = [BoxNow EXCEPT ![d] = amount2]
        /\ PaidInNow' = [PaidInNow EXCEPT ![d] = PaidInNow[d] + amount2]
        /\ PaidBackNow' = PaidBackNow /\ PaidOutNow' = PaidOutNow
    BY <1>1, <1>2, <1>3, <1>4, <1>5, <1>8
  <2>2. Box!Fund(d, sum)
    BY <1>sum, <2>1 DEF Box!Fund, StageNow, BoxNow, PaidInNow, PaidBackNow, PaidOutNow
  <2> QED BY <1>6, <1>sum, <2>2 DEF Box!EscrowStep
<1>9. CASE /\ from = "PENDING" /\ to = "RELEASED"
           /\ in2 = in + amount2 /\ back2 = back /\ out2 = out + amount2
  <2>1. /\ StageNow[d] = "open"
        /\ StageNow'   = [StageNow EXCEPT ![d] = "released"]
        /\ PaidInNow'  = [PaidInNow EXCEPT ![d] = PaidInNow[d] + amount2]
        /\ PaidOutNow' = [PaidOutNow EXCEPT ![d] = PaidOutNow[d] + amount2]
        /\ BoxNow' = BoxNow /\ PaidBackNow' = PaidBackNow
    BY <1>1, <1>2, <1>3, <1>4, <1>5, <1>9
  <2>2. Box!FundAndRelease(d, sum)
    BY <1>sum, <2>1 DEF Box!FundAndRelease, StageNow, BoxNow, PaidInNow, PaidBackNow, PaidOutNow
  <2> QED BY <1>6, <1>sum, <2>2 DEF Box!EscrowStep
<1>10. CASE /\ from = "HELD" /\ to = "RELEASED"
            /\ in2 = in /\ back2 = back /\ out2 = out + amount
  <2>1. /\ StageNow[d] = "held"
        /\ StageNow'   = [StageNow EXCEPT ![d] = "released"]
        /\ BoxNow'     = [BoxNow EXCEPT ![d] = 0]
        /\ PaidOutNow' = [PaidOutNow EXCEPT ![d] = PaidOutNow[d] + BoxNow[d]]
        /\ PaidInNow' = PaidInNow /\ PaidBackNow' = PaidBackNow
    BY <1>1, <1>2, <1>3, <1>4, <1>5, <1>10
  <2>2. Box!Release(d)
    BY <2>1 DEF Box!Release, StageNow, BoxNow, PaidInNow, PaidBackNow, PaidOutNow
  <2> QED BY <2>2 DEF Box!EscrowStep
<1>11. CASE /\ from = "HELD" /\ to = "REFUNDED"
            /\ in2 = in /\ back2 = back + amount /\ out2 = out
  <2>1. /\ StageNow[d] = "held"
        /\ StageNow'    = [StageNow EXCEPT ![d] = "returned"]
        /\ BoxNow'      = [BoxNow EXCEPT ![d] = 0]
        /\ PaidBackNow' = [PaidBackNow EXCEPT ![d] = PaidBackNow[d] + BoxNow[d]]
        /\ PaidInNow' = PaidInNow /\ PaidOutNow' = PaidOutNow
    BY <1>1, <1>2, <1>3, <1>4, <1>5, <1>11
  <2>2. Box!Return(d)
    BY <2>1 DEF Box!Return, StageNow, BoxNow, PaidInNow, PaidBackNow, PaidOutNow
  <2> QED BY <2>2 DEF Box!EscrowStep
<1>12. CASE /\ from = "PENDING" /\ to = "FAILED"
            /\ in2 = in /\ back2 = back /\ out2 = out
  <2>1. /\ StageNow[d] = "open"
        /\ StageNow' = [StageNow EXCEPT ![d] = "void"]
        /\ BoxNow' = BoxNow /\ PaidBackNow' = PaidBackNow
        /\ PaidInNow' = PaidInNow /\ PaidOutNow' = PaidOutNow
    BY <1>1, <1>2, <1>3, <1>4, <1>5, <1>12
  <2>2. Box!Void(d)
    BY <2>1 DEF Box!Void, StageNow, BoxNow, PaidInNow, PaidBackNow, PaidOutNow
  <2> QED BY <2>2 DEF Box!EscrowStep
<1>13. CASE Renegotiates(d)
  <2> DEFINE more == amount2 - amount
  <2>1. from = "HELD" /\ to = "HELD"
    BY <1>13 DEF Renegotiates, Passes, from, to
  <2>2. IF more < 0 THEN in2 = in + 0 /\ back2 = back - more /\ out2 = out + 0
                    ELSE in2 = in + more /\ back2 = back + 0 /\ out2 = out + 0
    <3>1. IF more < 0 THEN Flows(d, 0, -more, 0) ELSE Flows(d, more, 0, 0)
      BY <1>13 DEF Renegotiates, amount, amount2
    <3>2. CASE more < 0
      <4>1. in2 = in + 0 /\ back2 = back + (-more) /\ out2 = out + 0
        BY <3>1, <3>2 DEF Flows, in, in2, back, back2, out, out2
      <4> QED BY <1>1, <1>2, <3>2, <4>1
    <3>3. CASE ~ (more < 0)
      BY <3>1, <3>3 DEF Flows, in, in2, back, back2, out, out2
    <3> QED BY <3>2, <3>3
  <2>3. amount \in DealAmounts /\ amount2 \in DealAmounts
    BY <1>13 DEF Renegotiates, Passes, AmountsSound, amount, amount2
  <2>4. CASE more < 0
    <3>0. PICK less : less = amount - amount2
      OBVIOUS
    <3>1. less \in EscrowAmounts
      BY <1>1, <1>2, <2>3, <2>4, <3>0 DEF EscrowAmounts
    <3>flow. box2 = box - less /\ less <= box /\ back2 = back + less /\ in2 = in /\ out2 = out
      BY <1>1, <1>2, <2>1, <2>2, <2>4, <3>0
    <3>2. /\ StageNow[d] = "held" /\ less <= BoxNow[d]
          /\ BoxNow'      = [BoxNow EXCEPT ![d] = BoxNow[d] - less]
          /\ PaidBackNow' = [PaidBackNow EXCEPT ![d] = PaidBackNow[d] + less]
          /\ StageNow' = StageNow /\ PaidInNow' = PaidInNow /\ PaidOutNow' = PaidOutNow
      BY <1>3, <1>4, <1>5, <2>1, <3>flow
    <3>3. Box!Lower(d, less)
      BY <3>2 DEF Box!Lower, StageNow, BoxNow, PaidInNow, PaidBackNow, PaidOutNow
    <3> QED BY <3>1, <3>3 DEF Box!EscrowStep
  <2>5. CASE ~ (more < 0)
    <3>0. PICK rest : rest = amount2 - amount
      OBVIOUS
    <3>1. rest \in EscrowAmounts
      BY <1>1, <1>2, <2>3, <2>5, <3>0 DEF EscrowAmounts
    <3>flow. box2 = box + rest /\ in2 = in + rest /\ back2 = back /\ out2 = out
      BY <1>1, <1>2, <2>1, <2>2, <2>5, <3>0
    <3>2. /\ StageNow[d] = "held"
          /\ BoxNow'    = [BoxNow EXCEPT ![d] = BoxNow[d] + rest]
          /\ PaidInNow' = [PaidInNow EXCEPT ![d] = PaidInNow[d] + rest]
          /\ StageNow' = StageNow /\ PaidBackNow' = PaidBackNow /\ PaidOutNow' = PaidOutNow
      BY <1>3, <1>4, <1>5, <2>1, <3>flow
    <3>3. Box!Raise(d, rest)
      BY <3>2 DEF Box!Raise, StageNow, BoxNow, PaidInNow, PaidBackNow, PaidOutNow
    <3> QED BY <3>1, <3>3 DEF Box!EscrowStep
  <2> QED BY <2>4, <2>5
<1>14. CASE Opens(d) \/ Talks(d) \/ Delivers(d) \/ SendsBack(d) \/ Argues(d)
  <2>1. to = from /\ ledger'[d] = ledger[d]
    BY <1>14 DEF Opens, Talks, Delivers, SendsBack, Argues, Passes, NothingFlows, from, to
  <2>2. in2 = in /\ back2 = back /\ out2 = out /\ box2 = box
    BY <2>1 DEF in, in2, back, back2, out, out2, box, box2
  <2> QED BY <1>7, <2>1, <2>2
<1>15. CASE IsPaid(d)
  <2>1. from = "PENDING" /\ to = "HELD" /\ amount2 = amount /\ Flows(d, amount, 0, 0)
    BY <1>15 DEF IsPaid, Passes, KeepsTerms, from, to, amount, amount2
  <2>2. in2 = in + amount /\ back2 = back + 0 /\ out2 = out + 0
    BY <2>1 DEF Flows, in, in2, back, back2, out, out2
  <2> QED BY <1>1, <1>8, <2>1, <2>2
<1>16. CASE Unlocks(d)
  <2>1. from = "PENDING" /\ to = "RELEASED" /\ amount2 = amount /\ Flows(d, amount, 0, amount)
    BY <1>16 DEF Unlocks, Passes, KeepsTerms, from, to, amount, amount2
  <2>2. in2 = in + amount /\ back2 = back + 0 /\ out2 = out + amount
    BY <2>1 DEF Flows, in, in2, back, back2, out, out2
  <2> QED BY <1>1, <1>9, <2>1, <2>2
<1>17. CASE Approves(d)
  <2>1. from = "HELD" /\ to = "RELEASED" /\ Flows(d, 0, 0, amount)
    BY <1>17 DEF Approves, Passes, from, to, amount
  <2>2. in2 = in + 0 /\ back2 = back + 0 /\ out2 = out + amount
    BY <2>1 DEF Flows, in, in2, back, back2, out, out2
  <2> QED BY <1>1, <1>10, <2>1, <2>2
<1>18. CASE Refunds(d)
  <2>1. from = "HELD" /\ to = "REFUNDED" /\ Flows(d, 0, amount, 0)
    BY <1>18 DEF Refunds, Passes, from, to, amount
  <2>2. in2 = in + 0 /\ back2 = back + amount /\ out2 = out + 0
    BY <2>1 DEF Flows, in, in2, back, back2, out, out2
  <2> QED BY <1>1, <1>11, <2>1, <2>2
<1>19. CASE Ends(d)
  <2>1. \/ from = "HELD" /\ to = "REFUNDED" /\ Flows(d, 0, amount, 0)
        \/ from = "PENDING" /\ to = "FAILED" /\ NothingFlows(d)
    BY <1>19 DEF Ends, Passes, from, to, amount
  <2>2. CASE from = "HELD" /\ to = "REFUNDED" /\ Flows(d, 0, amount, 0)
    <3>1. in2 = in + 0 /\ back2 = back + amount /\ out2 = out + 0
      BY <2>2 DEF Flows, in, in2, back, back2, out, out2
    <3> QED BY <1>1, <1>11, <2>2, <3>1
  <2>3. CASE from = "PENDING" /\ to = "FAILED" /\ NothingFlows(d)
    <3>1. in2 = in /\ back2 = back /\ out2 = out
      BY <2>3 DEF NothingFlows, in, in2, back, back2, out, out2
    <3> QED BY <1>12, <2>3, <3>1
  <2> QED BY <2>1, <2>2, <2>3
<1> QED
  BY <1>13, <1>14, <1>15, <1>16, <1>17, <1>18, <1>19 DEF Move

(* The deals, their payments and their ledgers are an escrow: every step of  *)
(* the use cases is one step of the box of one deal, or none at all.        *)
THEOREM DealsImplementEscrow == Spec => ImplementsEscrow
<1>1. Init => Box!EscrowInit
  BY DEF Init, Box!EscrowInit, NoDeal, NoMoney, StageOf
<1>2. ASSUME IInv, IInv', AmountsSound, AmountsSound', [Next]_vars
      PROVE  [Box!EscrowNext]_(Box!escrowVars)
  <2>1. CASE AllStay
    <3>1. UNCHANGED Box!escrowVars
      BY <2>1 DEF AllStay, Box!escrowVars
    <3> QED BY <3>1
  <2>2. ASSUME NEW d \in Deals, Move(d) PROVE Box!EscrowStep(d) \/ UNCHANGED Box!escrowVars
    <3>1. CASE deal'[d].status # "NONE"
      <4>1. deal'[d].amount \in DealAmounts
        BY <1>2, <3>1 DEF AmountsSound
      <4> QED BY <1>2, <2>2, <4>1, MoveIsEscrowStep
    <3>2. CASE deal'[d].status = "NONE"
      <4>1. Argues(d)
        BY <2>2, <3>2 DEF Move, Passes, Opens, Talks, Renegotiates, IsPaid, Unlocks, Ends,
                          Delivers, SendsBack, Approves, Refunds
      <4>2. UNCHANGED <<deal, ledger>>
        BY <4>1 DEF Argues
      <4> QED BY <4>2 DEF Box!escrowVars
    <3> QED BY <3>1, <3>2
  <2> QED BY <1>2, <2>1, <2>2, EveryStepIsAMove DEF Box!EscrowNext
<1>3. IInv /\ IInv' /\ AmountsSound /\ AmountsSound' /\ [Next]_vars
        => [Box!EscrowNext]_(Box!escrowVars)
  BY <1>2
<1> QED
  BY <1>1, <1>3, InductiveInvariant, AmountsInvariant, PTL
  DEF Spec, ImplementsEscrow, Box!EscrowSpec

-----------------------------------------------------------------------------
(* The money that came in.  A step either leaves the captured payments, the  *)
(* recorded notifications and the clearing accounts alone (Quiet), records   *)
(* a notification, or captures one payment (Captures).                       *)

ClearingSame == \A e \in Deals : ledger'[e].clearing = ledger[e].clearing

(* Whatever happens to an intent, it was not captured and is not. *)
NoneCaptured ==
    \A i \in Intents : \/ intent'[i] = intent[i]
                       \/ intent[i].status # "CAPTURED" /\ intent'[i].status # "CAPTURED"

Quiet == ClearingSame /\ NoneCaptured /\ UNCHANGED <<sent, events, flagged>>

Captures(i, type) ==
    /\ IsNew(i, type)
    /\ IsActive(i)
    /\ intent[i].deal \in Deals
    /\ CaptureIntent(i)
    /\ Recorded(i, type)
    /\ \A e \in Deals :
          ledger'[e].clearing = IF e = intent[i].deal
                                THEN ledger[e].clearing + intent[i].amount
                                ELSE ledger[e].clearing
    /\ UNCHANGED <<sent, flagged>>

(* A notification goes out, or it is recorded, and no payment is captured. *)
Notes ==
    /\ UNCHANGED <<intent, ledger>>
    /\ \E i \in Intents :
          \/ \E type \in NoticeType : ProviderNotifies(i, type) \/ FlagCapture(i, type)
          \/ IgnoreNotice(i)

LEMMA ClosingIsSame ==
    ASSUME IInv, NEW d \in Deals, NEW row \in DealRow, CloseEscrow(d, row)
    PROVE  ClearingSame
<1>1. ledger \in [Deals -> Balance] /\ row.amount \in Int
  BY DEF IInv, TypeOK, DealRow
<1> DEFINE money == ReturnedToBuyer(ledger[d], row.amount)
<1>2. money.clearing = ledger[d].clearing
  BY <1>1, ReturnedFields
<1>3. ledger' = [ledger EXCEPT ![d] = money] \/ ledger' = ledger
  BY DEF CloseEscrow
<1> HIDE DEF money
<1> QED BY <1>1, <1>2, <1>3 DEF ClearingSame

LEMMA ReleasingIsSame ==
    ASSUME IInv, NEW d \in Deals, NEW row \in DealRow, ReleaseEscrow(d, row)
    PROVE  ClearingSame
<1>1. ledger \in [Deals -> Balance]
  BY DEF IInv, TypeOK
<1> DEFINE money == Released(ledger[d], row)
<1>2. money.clearing = ledger[d].clearing
  BY <1>1, ReleasedFields
<1>3. ledger' = [ledger EXCEPT ![d] = money]
  BY DEF ReleaseEscrow
<1> HIDE DEF money
<1> QED BY <1>1, <1>2, <1>3 DEF ClearingSame

(* T5 adds to the clearing account what its `balance` already has. *)
LEMMA RenegotiatedClearing ==
    ASSUME IInv, NEW d \in Deals, NEW o \in CounterOffers, NEW balance \in Balance, NEW keys,
           ApplyAcceptedCounterOffer(d, o, balance, keys)
    PROVE  \A e \in Deals : ledger'[e].clearing = IF e = d THEN balance.clearing
                                                           ELSE ledger[e].clearing
<1> DEFINE more    == Settlement(d, offer[o].price)
           settled == IF more < 0 THEN ReturnedToBuyer(balance, -more) ELSE balance
<1>1. ledger \in [Deals -> Balance]
  BY DEF IInv, TypeOK
<1>2. ledger' = [ledger EXCEPT ![d] = settled]
  BY DEF ApplyAcceptedCounterOffer
<1>3. more \in Int
  <2>1. SplitFees(offer[o].price, FeeBasisPoints).amount \in Int
    BY SplitLosesNothing, PolicyAssumption DEF IInv, TypeOK, OfferRow
  <2>2. deal[d].amount \in Int
    BY DEF IInv, TypeOK, DealRow
  <2> QED BY <2>1, <2>2 DEF Settlement, SettlementFor
<1> HIDE DEF more
<1>4. settled.clearing = balance.clearing
  <2>1. -more \in Int
    BY <1>3
  <2> QED BY <2>1, ReturnedFields
<1> HIDE DEF settled
<1> QED BY <1>1, <1>2, <1>4

LEMMA NothingCaptured ==
    ASSUME UNCHANGED paymentVars, ClearingSame
    PROVE  Quiet
BY DEF Quiet, NoneCaptured, paymentVars

LEMMA LedgerSame ==
    ASSUME ledger' = ledger
    PROVE  ClearingSame
BY DEF ClearingSame

LEMMA ExpiringCapturesNothing ==
    ASSUME IInv, NEW d \in Deals, ExpireIntentsIfUnpaid(d)
    PROVE  NoneCaptured
<1>1. \A i \in Intents : \/ intent'[i] = intent[i]
                         \/ IsActive(i) /\ intent'[i] = [intent[i] EXCEPT !.status = "EXPIRED"]
  BY DEF ExpireIntentsIfUnpaid, ActiveOf
<1> QED BY <1>1 DEF NoneCaptured, IsActive, ActiveStatus, IInv, TypeOK, IntentRow

LEMMA NegotiationIsQuiet ==
    ASSUME IInv, NEW d \in Deals, NegotiationStep(d)
    PROVE  Quiet
<1>0. deal[d] \in DealRow /\ DeclinedDeal(deal[d]) \in DealRow
  BY MethodsKeepTerms DEF IInv, TypeOK
<1>1. ASSUME NEW kind, NEW price, NEW sla, CreateDeal(d, kind, price, sla) PROVE Quiet
  BY <1>1, NothingCaptured, LedgerSame DEF CreateDeal, moneyVars
<1>2. CASE AcceptDeal(d)
  BY <1>2, NothingCaptured, LedgerSame DEF AcceptDeal, moneyVars
<1>3. CASE DeclineDeal(d)
  BY <1>0, <1>3, ClosingIsSame, ExpiringCapturesNothing DEF DeclineDeal, Quiet
<1>4. ASSUME NEW o \in CounterOffers, NEW price, NEW sla, CounterOfferDeal(d, o, price, sla)
      PROVE  Quiet
  BY <1>4, NothingCaptured, LedgerSame DEF CounterOfferDeal, moneyVars
<1>5. ASSUME NEW o \in CounterOffers, AcceptCounterOffer(d, o) PROVE Quiet
  <2>1. ledger[d] \in Balance
    BY DEF IInv, TypeOK
  <2>2. ApplyAcceptedCounterOffer(d, o, ledger[d], posted) /\ UNCHANGED paymentVars
    BY <1>5 DEF AcceptCounterOffer
  <2>3. ClearingSame
    BY <2>1, <2>2, RenegotiatedClearing DEF ClearingSame
  <2> QED BY <2>2, <2>3, NothingCaptured
<1>6. ASSUME NEW o \in CounterOffers, DeclineCounterOffer(d, o) PROVE Quiet
  BY <1>0, <1>6, ClosingIsSame, NothingCaptured DEF DeclineCounterOffer
<1> QED BY <1>1, <1>2, <1>3, <1>4, <1>5, <1>6 DEF NegotiationStep

LEMMA PaymentIsQuiet ==
    ASSUME IInv, NEW d \in Deals, PaymentStep(d)
    PROVE  Quiet
<1>1. ASSUME NEW i \in Intents, NEW row, row.status # "CAPTURED", intent[i].status = "NONE",
             intent' = [intent EXCEPT ![i] = row],
             UNCHANGED <<ledger, sent, events, flagged>>
      PROVE  Quiet
  BY <1>1 DEF Quiet, ClearingSame, NoneCaptured, IInv, TypeOK
<1>2. ASSUME NEW i \in Intents, NEW answer \in GatewayAnswer, StartDealPayment(d, i, answer)
      PROVE  Quiet
  <2> DEFINE row == [deal |-> d, purpose |-> "INITIAL", offer |-> "none",
                     amount |-> deal[d].amount, status |-> answer]
  <2>1. row.status # "CAPTURED"
    BY DEF GatewayAnswer
  <2>2. /\ intent[i].status = "NONE" /\ intent' = [intent EXCEPT ![i] = row]
        /\ UNCHANGED <<ledger, sent, events, flagged>>
    BY <1>2 DEF StartDealPayment, moneyVars
  <2> HIDE DEF row
  <2> QED BY <1>1, <2>1, <2>2
<1>3. ASSUME NEW o \in CounterOffers, NEW i \in Intents, NEW answer \in GatewayAnswer,
             StartCounterOfferTopUp(d, o, i, answer)
      PROVE  Quiet
  <2> DEFINE row == [deal |-> d, purpose |-> "TOP_UP", offer |-> o,
                     amount |-> Settlement(d, offer[o].price),
                     status |-> IF answer = "PENDING" THEN "PENDING" ELSE "FAILED"]
  <2>1. row.status # "CAPTURED"
    OBVIOUS
  <2>2. /\ intent[i].status = "NONE" /\ intent' = [intent EXCEPT ![i] = row]
        /\ UNCHANGED <<ledger, sent, events, flagged>>
    BY <1>3 DEF StartCounterOfferTopUp, moneyVars
  <2> HIDE DEF row
  <2> QED BY <1>1, <2>1, <2>2
<1> QED BY <1>2, <1>3 DEF PaymentStep

LEMMA ApprovalIsQuiet ==
    ASSUME IInv, NEW d \in Deals, ApproveDelivery(d)
    PROVE  Quiet
<1>1. deal[d] \in DealRow /\ ApprovedDeal(deal[d]) \in DealRow
  BY MethodsKeepTerms DEF IInv, TypeOK
<1> QED BY <1>1, ReleasingIsSame, NothingCaptured DEF ApproveDelivery

LEMMA WorkIsQuiet ==
    ASSUME IInv, NEW d \in Deals, WorkStep(d)
    PROVE  Quiet
<1>0. deal[d] \in DealRow /\ RefundedDeal(deal[d]) \in DealRow
  BY MethodsKeepTerms DEF IInv, TypeOK
<1>1. CASE \/ SubmitDelivery(d)
           \/ RejectDelivery(d)
           \/ \E party \in Parties : OpenDispute(d, party) \/ WithdrawDispute(d, party)
           \/ ResolveDisputeForCreator(d)
  <2>1. UNCHANGED paymentVars /\ ledger' = ledger
    BY <1>1 DEF SubmitDelivery, RejectDelivery, OpenDispute, WithdrawDispute,
                ResolveDisputeForCreator, moneyVars
  <2> QED BY <2>1, NothingCaptured, LedgerSame
<1>2. CASE RequestRefund(d) \/ ResolveDisputeForBuyer(d)
  BY <1>0, <1>2, ClosingIsSame, NothingCaptured DEF RequestRefund, ResolveDisputeForBuyer
<1>3. CASE ApproveDelivery(d)
  BY <1>3, ApprovalIsQuiet
<1> QED BY <1>1, <1>2, <1>3 DEF WorkStep

LEMMA SweepIsQuiet ==
    ASSUME IInv, NEW d \in Deals, SweepExpire(d) \/ SweepAutoApprove(d)
    PROVE  Quiet
<1>0. deal[d] \in DealRow /\ ExpiredDeal(deal[d]) \in DealRow
  BY MethodsKeepTerms DEF IInv, TypeOK
<1>1. CASE SweepExpire(d)
  BY <1>0, <1>1, ClosingIsSame, ExpiringCapturesNothing DEF SweepExpire, Quiet
<1>2. CASE SweepAutoApprove(d)
  BY <1>2, ApprovalIsQuiet DEF SweepAutoApprove
<1> QED BY <1>1, <1>2

LEMMA InitialIsCaptured ==
    ASSUME IInv, NEW i \in Intents, NEW type \in FullCapture, CaptureInitial(i, type)
    PROVE  Captures(i, type)
<1> DEFINE d     == intent[i].deal
           money == Funded(ledger[d], intent[i].amount)
<1>1. /\ IsActive(i) /\ intent[i].purpose = "INITIAL" /\ CanHold(deal[d])
      /\ IsNew(i, type) /\ CaptureIntent(i) /\ Recorded(i, type)
      /\ ledger' = [ledger EXCEPT ![d] = money] /\ UNCHANGED <<sent, flagged>>
  BY DEF CaptureInitial
<1>2. d \in Deals
  BY <1>1, CapturedDeal
<1>3. ledger \in [Deals -> Balance] /\ intent[i].amount \in Int
  BY DEF IInv, TypeOK, IntentRow
<1>4. money.clearing = ledger[d].clearing + intent[i].amount
  BY <1>2, <1>3, FundedFields
<1> HIDE DEF money
<1> QED BY <1>1, <1>2, <1>3, <1>4 DEF Captures

LEMMA UnlockIsCaptured ==
    ASSUME IInv, NEW i \in Intents, NEW type \in FullCapture, CaptureAndUnlock(i, type)
    PROVE  Captures(i, type)
<1> DEFINE d      == intent[i].deal
           done   == ApprovedDeal(DeliveredDeal(AcceptedDeal(HeldDeal(deal[d]))))
           funded == Funded(ledger[d], intent[i].amount)
           money  == Released(funded, done)
<1>1. /\ IsActive(i) /\ intent[i].purpose = "INITIAL" /\ CanHold(deal[d])
      /\ IsNew(i, type) /\ CaptureIntent(i) /\ Recorded(i, type)
      /\ ledger' = [ledger EXCEPT ![d] = money] /\ UNCHANGED <<sent, flagged>>
  BY DEF CaptureAndUnlock
<1>2. d \in Deals /\ deal[d] \in DealRow
  BY <1>1, CapturedDeal
<1>3. ledger \in [Deals -> Balance] /\ intent[i].amount \in Int
  BY DEF IInv, TypeOK, IntentRow
<1>4. done \in DealRow
  <2>1. HeldDeal(deal[d]) \in DealRow
    BY <1>2, MethodsKeepTerms
  <2>2. AcceptedDeal(HeldDeal(deal[d])) \in DealRow
    BY <2>1, MethodsKeepTerms
  <2>3. DeliveredDeal(AcceptedDeal(HeldDeal(deal[d]))) \in DealRow
    BY <2>2, MethodsKeepTerms
  <2> QED BY <2>3, MethodsKeepTerms
<1>5. funded \in Balance /\ funded.clearing = ledger[d].clearing + intent[i].amount
  BY <1>2, <1>3, FundedFields
<1> HIDE DEF done, funded
<1>6. money.clearing = funded.clearing
  BY <1>4, <1>5, ReleasedFields
<1> HIDE DEF money
<1> QED BY <1>1, <1>2, <1>3, <1>5, <1>6 DEF Captures

LEMMA TopUpIsCaptured ==
    ASSUME IInv, NEW i \in Intents, NEW type \in FullCapture, CaptureTopUp(i, type)
    PROVE  Captures(i, type)
<1> DEFINE d     == intent[i].deal
           o     == intent[i].offer
           money == Funded(ledger[d], intent[i].amount)
           keys  == posted \cup {<<"ESCROW_TOP_UP", o>>}
<1>1. /\ IsActive(i) /\ intent[i].purpose = "TOP_UP"
      /\ IsNew(i, type) /\ CaptureIntent(i) /\ Recorded(i, type)
      /\ ApplyAcceptedCounterOffer(d, o, money, keys) /\ UNCHANGED <<sent, flagged>>
  BY DEF CaptureTopUp
<1>2. d \in Deals /\ o \in CounterOffers
  BY <1>1 DEF IInv, IntentsSound, IsActive, ActiveStatus
<1>3. ledger[d] \in Balance /\ intent[i].amount \in Int
  BY <1>2 DEF IInv, TypeOK, IntentRow
<1>4. money \in Balance /\ money.clearing = ledger[d].clearing + intent[i].amount
  BY <1>3, FundedFields
<1> HIDE DEF o, money, keys
<1>5. \A e \in Deals : ledger'[e].clearing = IF e = d THEN money.clearing ELSE ledger[e].clearing
  BY <1>1, <1>2, <1>4, RenegotiatedClearing
<1> QED BY <1>1, <1>2, <1>4, <1>5 DEF Captures

LEMMA EveryStepCapturesOnce ==
    ASSUME IInv, [Next]_vars
    PROVE  Quiet \/ Notes \/ \E i \in Intents, type \in FullCapture : Captures(i, type)
<1>1. ASSUME NEW i \in Intents, HandleNotice(i)
      PROVE  Notes \/ \E type \in FullCapture : Captures(i, type)
  <2>1. CASE IgnoreNotice(i)
    BY <2>1 DEF IgnoreNotice, Notes, moneyVars
  <2>2. ASSUME NEW type \in NoticeType, FlagCapture(i, type) PROVE Notes
    BY <2>2 DEF FlagCapture, Notes, moneyVars
  <2> QED BY <1>1, <2>1, <2>2, InitialIsCaptured, UnlockIsCaptured, TopUpIsCaptured
          DEF HandleNotice
<1>2. ASSUME NEW i \in Intents, NEW type \in NoticeType, ProviderNotifies(i, type) PROVE Notes
  BY <1>2 DEF ProviderNotifies, Notes, moneyVars
<1>3. CASE Tick \/ UNCHANGED vars
  BY <1>3, NothingCaptured, LedgerSame DEF Tick, vars, paymentVars, moneyVars
<1> QED BY <1>1, <1>2, <1>3, NegotiationIsQuiet, PaymentIsQuiet, WorkIsQuiet, SweepIsQuiet
        DEF Next

(* The notifications of an intent that were recorded and not put aside: one   *)
(* of the right amount once the intent is captured, none before.             *)
Booked(i) == {type \in CaptureType : <<i, type>> \in events \ flagged}

NoticesAreBooked ==
    \A i \in Intents : IF intent[i].status = "CAPTURED"
                       THEN \E type \in FullCapture : Booked(i) = {type}
                       ELSE Booked(i) = {}

(* The captured payments of a deal in a table of intents, and the clearing   *)
(* account of every deal as their sum.                                       *)
CapturedIn(rows, d) == {i \in Intents : rows[i].deal = d /\ rows[i].status = "CAPTURED"}

Collected(rows, money) ==
    \A d \in Deals : /\ IsFiniteSet(CapturedIn(rows, d))
                     /\ money[d].clearing = Total(rows, CapturedIn(rows, d))

CapturesInv == NoticesAreBooked /\ Collected(intent, ledger)

LEMMA InitEstablishesCaptures == Init => CapturesInv
<1> SUFFICES ASSUME Init PROVE CapturesInv
  OBVIOUS
<1>1. NoticesAreBooked
  BY DEF Init, NoticesAreBooked, Booked, NoIntent
<1>2. \A d \in Deals : CapturedIn(intent, d) = {}
  BY DEF Init, CapturedIn, NoIntent
<1>3. \A d \in Deals : ledger[d].clearing = 0
  BY DEF Init, NoMoney
<1>4. Collected(intent, ledger)
  BY <1>2, <1>3, TotalEmpty, FS_EmptySet DEF Collected
<1> QED BY <1>1, <1>4 DEF CapturesInv

LEMMA CollectedKept ==
    ASSUME NEW f, NEW g, NEW m, NEW n, Collected(f, m),
           \A i \in Intents : \/ g[i] = f[i]
                              \/ f[i].status # "CAPTURED" /\ g[i].status # "CAPTURED",
           \A d \in Deals : n[d].clearing = m[d].clearing
    PROVE  Collected(g, n)
<1> SUFFICES ASSUME NEW d \in Deals
             PROVE  /\ IsFiniteSet(CapturedIn(g, d))
                    /\ n[d].clearing = Total(g, CapturedIn(g, d))
  BY DEF Collected
<1>1. /\ IsFiniteSet(CapturedIn(f, d)) /\ m[d].clearing = Total(f, CapturedIn(f, d))
  BY DEF Collected
<1>2. CapturedIn(g, d) = CapturedIn(f, d)
  BY DEF CapturedIn
<1>3. \A i \in CapturedIn(f, d) : g[i] = f[i]
  BY DEF CapturedIn
<1>4. Total(g, CapturedIn(f, d)) = Total(f, CapturedIn(f, d))
  BY <1>1, <1>3, TotalAgrees
<1> QED BY <1>1, <1>2, <1>4

LEMMA CollectedGrows ==
    ASSUME NEW f, NEW g, NEW m, NEW n, Collected(f, m),
           NEW i \in Intents, f[i].status # "CAPTURED",
           \A j \in Intents : /\ f[j].amount \in Nat
                             /\ g[j].deal = f[j].deal /\ g[j].amount = f[j].amount
                             /\ g[j].status = IF j = i THEN "CAPTURED" ELSE f[j].status,
           \A e \in Deals : n[e].clearing = IF e = f[i].deal THEN m[e].clearing + f[i].amount
                                                             ELSE m[e].clearing
    PROVE  Collected(g, n)
<1> SUFFICES ASSUME NEW d \in Deals
             PROVE  /\ IsFiniteSet(CapturedIn(g, d))
                    /\ n[d].clearing = Total(g, CapturedIn(g, d))
  BY DEF Collected
<1> DEFINE S == CapturedIn(f, d)
<1>1. IsFiniteSet(S) /\ m[d].clearing = Total(f, S)
  BY DEF Collected
<1>2. S \subseteq Intents /\ i \notin S
  BY DEF CapturedIn
<1>3. CapturedIn(g, d) = IF d = f[i].deal THEN S \cup {i} ELSE S
  BY DEF CapturedIn
<1> HIDE DEF S
<1>4. Total(g, S) = Total(f, S)
  <2>1. \A j \in S : g[j].amount = f[j].amount
    BY <1>2
  <2> QED BY <1>1, <2>1, TotalAgrees
<1>5. CASE d = f[i].deal
  <2>1. IsFiniteSet(S \cup {i})
    BY <1>1, FS_AddElement
  <2>2. \A j \in S \cup {i} : g[j].amount \in Nat
    BY <1>2
  <2>3. Total(g, S \cup {i}) = Total(g, S) + g[i].amount
    BY <1>1, <1>2, <2>2, TotalAdds
  <2>4. n[d].clearing = m[d].clearing + f[i].amount
    BY <1>5
  <2> QED BY <1>1, <1>3, <1>4, <1>5, <2>1, <2>3, <2>4
<1>6. CASE d # f[i].deal
  BY <1>1, <1>3, <1>4, <1>6
<1> QED BY <1>5, <1>6

LEMMA NoticesKept ==
    ASSUME IInv, NoticesAreBooked,
           Quiet \/ Notes \/ \E i \in Intents, type \in FullCapture : Captures(i, type)
    PROVE  NoticesAreBooked'
<1>0. events \subseteq sent /\ flagged \subseteq events
  BY DEF IInv, TypeOK
<1>1. CASE Quiet
  BY <1>1 DEF Quiet, NoneCaptured, NoticesAreBooked, Booked
<1>2. ASSUME NEW i \in Intents, NEW type \in NoticeType, ProviderNotifies(i, type)
      PROVE  NoticesAreBooked'
  BY <1>2 DEF ProviderNotifies, NoticesAreBooked, Booked
<1>3. ASSUME NEW i \in Intents, NEW type \in NoticeType, FlagCapture(i, type)
      PROVE  NoticesAreBooked'
  <2>1. /\ events' = events \cup {<<i, type>>} /\ flagged' = flagged \cup {<<i, type>>}
        /\ <<i, type>> \notin events /\ intent' = intent
    BY <1>3 DEF FlagCapture, IsNew, Recorded
  <2>2. events' \ flagged' = events \ flagged
    BY <1>0, <2>1
  <2> QED BY <2>1, <2>2 DEF NoticesAreBooked, Booked
<1>4. ASSUME NEW i \in Intents, IgnoreNotice(i) PROVE NoticesAreBooked'
  <2>1. /\ events' = events \cup {<<i, "refused">>} /\ flagged' = flagged /\ intent' = intent
    BY <1>4 DEF IgnoreNotice, Recorded
  <2>2. \A j \in Intents : Booked(j)' = Booked(j)
    BY <2>1 DEF Booked, CaptureType, FullCapture
  <2> QED BY <2>1, <2>2 DEF NoticesAreBooked
<1>5. ASSUME NEW i \in Intents, NEW type \in FullCapture, Captures(i, type)
      PROVE  NoticesAreBooked'
  <2>1. /\ <<i, type>> \notin events /\ events' = events \cup {<<i, type>>}
        /\ flagged' = flagged /\ intent' = [intent EXCEPT ![i].status = "CAPTURED"]
        /\ intent[i].status # "CAPTURED"
    BY <1>5 DEF Captures, IsNew, Recorded, CaptureIntent, IsActive, ActiveStatus
  <2>2. events' \ flagged' = (events \ flagged) \cup {<<i, type>>}
    BY <1>0, <2>1
  <2>3. Booked(i)' = {type}
    <3>1. Booked(i) = {}
      BY <2>1 DEF NoticesAreBooked
    <3> QED BY <2>2, <3>1 DEF Booked, CaptureType
  <2>4. \A j \in Intents \ {i} : Booked(j)' = Booked(j)
    BY <2>2 DEF Booked
  <2>5. \A j \in Intents : intent'[j].status = IF j = i THEN "CAPTURED" ELSE intent[j].status
    BY <2>1 DEF IInv, TypeOK, IntentRow
  <2> QED BY <2>3, <2>4, <2>5 DEF NoticesAreBooked
<1> QED BY <1>1, <1>2, <1>3, <1>4, <1>5 DEF Notes

LEMMA CapturesKept ==
    ASSUME IInv, CapturesInv, [Next]_vars
    PROVE  CapturesInv'
<1>1. Quiet \/ Notes \/ \E i \in Intents, type \in FullCapture : Captures(i, type)
  BY EveryStepCapturesOnce
<1>2. NoticesAreBooked'
  BY <1>1, NoticesKept DEF CapturesInv
<1>3. PICK g, n : g = intent' /\ n = ledger'
  OBVIOUS
<1>4. CASE Quiet
  <2>1. Collected(g, n)
    BY <1>3, <1>4, CollectedKept DEF CapturesInv, Quiet, ClearingSame, NoneCaptured
  <2> QED BY <1>2, <1>3, <2>1 DEF CapturesInv, Collected, CapturedIn
<1>5. CASE Notes
  BY <1>2, <1>5 DEF CapturesInv, Notes, Collected, CapturedIn
<1>6. ASSUME NEW i \in Intents, NEW type \in FullCapture, Captures(i, type) PROVE CapturesInv'
  <2>1. /\ intent \in [Intents -> IntentRow] /\ intent[i].status # "CAPTURED"
        /\ intent' = [intent EXCEPT ![i].status = "CAPTURED"]
    BY <1>6 DEF Captures, CaptureIntent, IsActive, ActiveStatus, IInv, TypeOK
  <2>2. \A e \in Deals : n[e].clearing = IF e = intent[i].deal
                                         THEN ledger[e].clearing + intent[i].amount
                                         ELSE ledger[e].clearing
    BY <1>3, <1>6 DEF Captures
  <2>3. \A j \in Intents :
           /\ intent[j].amount \in Nat
           /\ g[j].deal = intent[j].deal /\ g[j].amount = intent[j].amount
           /\ g[j].status = IF j = i THEN "CAPTURED" ELSE intent[j].status
    BY <1>3, <2>1 DEF IntentRow
  <2>4. Collected(intent, ledger)
    BY DEF CapturesInv
  <2>5. Collected(g, n)
    BY <2>1, <2>2, <2>3, <2>4, CollectedGrows
  <2> QED BY <1>2, <1>3, <2>5 DEF CapturesInv, Collected, CapturedIn
<1> QED BY <1>1, <1>4, <1>5, <1>6

LEMMA CapturesInvariant == Spec => []CapturesInv
<1>1. Init => CapturesInv
  BY InitEstablishesCaptures
<1>2. IInv /\ CapturesInv /\ [Next]_vars => CapturesInv'
  BY CapturesKept
<1> QED BY <1>1, <1>2, InductiveInvariant, PTL DEF Spec

(* For any number of payments and whatever the provider reports of each, in   *)
(* whatever order, again or of another amount: every recorded capture is put *)
(* aside, but for one of the right amount of each captured payment, and the  *)
(* clearing account of a deal is the sum of those payments                   *)
(* (handle-payment-captured.use-case.ts).                                    *)
THEOREM CapturesAlwaysAccountedFor == Spec => []CapturedMoneyIsAccountedFor
<1>1. CapturesInv => CapturedMoneyIsAccountedFor
  BY DEF CapturesInv, NoticesAreBooked, Booked, Collected, CapturedIn,
         CapturedMoneyIsAccountedFor, Total
<1> QED BY <1>1, CapturesInvariant, PTL

-----------------------------------------------------------------------------
(* The keys of the ledger, and the screens. *)

(* What a posting that is in the ledger says of its deal or counter-offer.   *)
KeysSound ==
    /\ \A d \in Deals :
          /\ <<"ESCROW_FUNDING", d>> \in posted =>
                deal[d].escrow \in {"HELD", "RELEASED", "REFUNDED"}
          /\ <<"ESCROW_RELEASE", d>> \in posted => deal[d].escrow = "RELEASED"
          /\ <<"ESCROW_REFUND", d>> \in posted  => deal[d].escrow = "REFUNDED"
    /\ \A o \in CounterOffers :
          /\ <<"ESCROW_TOP_UP", o>> \in posted        => offer[o].status = "ACCEPTED"
          /\ <<"COUNTER_OFFER_REFUND", o>> \in posted => offer[o].status = "ACCEPTED"

(* The posting that a step makes, and where it leaves the row.               *)
IsPosted(key) ==
    \/ \E d \in Deals :
          \/ key = <<"ESCROW_FUNDING", d>> /\ deal'[d].escrow \in {"HELD", "RELEASED"}
          \/ key = <<"ESCROW_RELEASE", d>> /\ deal'[d].escrow = "RELEASED"
          \/ key = <<"ESCROW_REFUND", d>>  /\ deal'[d].escrow = "REFUNDED"
    \/ \E o \in CounterOffers :
          /\ key \in {<<"ESCROW_TOP_UP", o>>, <<"COUNTER_OFFER_REFUND", o>>}
          /\ offer'[o].status = "ACCEPTED"

PostsWhatItDoes == \A key \in posted' \ posted : IsPosted(key)

LEMMA ClosingPosts ==
    ASSUME IInv, NEW d \in Deals, NEW row \in DealRow, CloseEscrow(d, row)
    PROVE  PostsWhatItDoes
<1>1. CASE row.escrow = "HELD"
  <2>1. ClosedRow(row).escrow = "REFUNDED"
    BY <1>1, ClosedRowFields
  <2>2. deal'[d].escrow = "REFUNDED"
    BY <2>1 DEF CloseEscrow, IInv, TypeOK
  <2>3. posted' = posted \cup {<<"ESCROW_REFUND", d>>}
    BY <1>1 DEF CloseEscrow
  <2> QED BY <2>2, <2>3 DEF PostsWhatItDoes, IsPosted
<1>2. CASE row.escrow # "HELD"
  BY <1>2 DEF CloseEscrow, PostsWhatItDoes
<1> QED BY <1>1, <1>2

LEMMA ReleasingPosts ==
    ASSUME IInv, NEW d \in Deals, NEW row \in DealRow, ReleaseEscrow(d, row)
    PROVE  PostsWhatItDoes
<1>1. SettledDeal(row).escrow = "RELEASED"
  BY MethodFields
<1>2. deal'[d].escrow = "RELEASED" /\ posted' = posted \cup {<<"ESCROW_RELEASE", d>>}
  BY <1>1 DEF ReleaseEscrow, IInv, TypeOK
<1> QED BY <1>2 DEF PostsWhatItDoes, IsPosted

LEMMA RenegotiatingPosts ==
    ASSUME IInv, NEW d \in Deals, NEW o \in CounterOffers, NEW balance, NEW keys,
           ApplyAcceptedCounterOffer(d, o, balance, keys),
           keys \in {posted, posted \cup {<<"ESCROW_TOP_UP", o>>}}
    PROVE  PostsWhatItDoes
<1>1. offer'[o].status = "ACCEPTED"
  BY DEF ApplyAcceptedCounterOffer, IInv, TypeOK, OfferRow
<1>2. posted' \subseteq posted \cup {<<"ESCROW_TOP_UP", o>>, <<"COUNTER_OFFER_REFUND", o>>}
  BY DEF ApplyAcceptedCounterOffer
<1> QED BY <1>1, <1>2 DEF PostsWhatItDoes, IsPosted

LEMMA CapturingPosts ==
    ASSUME IInv, NEW i \in Intents, NEW type \in FullCapture,
           CaptureInitial(i, type) \/ CaptureAndUnlock(i, type)
    PROVE  PostsWhatItDoes
<1> DEFINE d == intent[i].deal
<1>1. IsActive(i) /\ intent[i].purpose = "INITIAL" /\ CanHold(deal[d])
  BY DEF CaptureInitial, CaptureAndUnlock
<1>2. d \in Deals /\ deal[d] \in DealRow
  BY <1>1, CapturedDeal
<1>3. HeldDeal(deal[d]) \in DealRow /\ HeldDeal(deal[d]).escrow = "HELD"
  BY <1>2, MethodFields, MethodsKeepTerms
<1>4. CASE CaptureInitial(i, type)
  <2>1. /\ deal' = [deal EXCEPT ![d] = HeldDeal(deal[d])]
        /\ posted' = posted \cup {<<"ESCROW_FUNDING", d>>}
    BY <1>4 DEF CaptureInitial
  <2> HIDE DEF d
  <2>2. deal'[d].escrow = "HELD"
    BY <1>2, <1>3, <2>1 DEF IInv, TypeOK
  <2> QED BY <1>2, <2>1, <2>2 DEF PostsWhatItDoes, IsPosted
<1>5. CASE CaptureAndUnlock(i, type)
  <2> DEFINE done == ApprovedDeal(DeliveredDeal(AcceptedDeal(HeldDeal(deal[d]))))
  <2>1. /\ deal' = [deal EXCEPT ![d] = SettledDeal(done)]
        /\ posted' = posted \cup {<<"ESCROW_FUNDING", d>>, <<"ESCROW_RELEASE", d>>}
    BY <1>5 DEF CaptureAndUnlock
  <2>2. done \in DealRow
    BY <1>3, MethodsKeepTerms
  <2> HIDE DEF done, d
  <2>3. SettledDeal(done).escrow = "RELEASED"
    BY <2>2, MethodFields
  <2>4. deal'[d].escrow = "RELEASED"
    BY <1>2, <2>1, <2>3 DEF IInv, TypeOK
  <2> QED BY <1>2, <2>1, <2>4 DEF PostsWhatItDoes, IsPosted
<1> QED BY <1>4, <1>5

LEMMA EveryStepPostsWhatItDoes ==
    ASSUME IInv, [Next]_vars
    PROVE  PostsWhatItDoes
<1>0. posted' = posted => PostsWhatItDoes
  BY DEF PostsWhatItDoes
<1>1. ASSUME NEW d \in Deals
      PROVE  /\ deal[d] \in DealRow
             /\ \A row \in {DeclinedDeal(deal[d]), ExpiredDeal(deal[d]), RefundedDeal(deal[d]),
                            ApprovedDeal(deal[d])} : row \in DealRow
  <2>1. deal[d] \in DealRow
    BY DEF IInv, TypeOK
  <2> QED BY <2>1, MethodsKeepTerms
<1>2. ASSUME NEW d \in Deals, NegotiationStep(d) PROVE PostsWhatItDoes
  <2>1. CASE \/ \E kind \in OfferKind, price \in Prices, sla \in Slas : CreateDeal(d, kind, price, sla)
             \/ AcceptDeal(d)
             \/ \E o \in CounterOffers, price \in Prices, sla \in Slas :
                    CounterOfferDeal(d, o, price, sla)
    BY <1>0, <2>1 DEF CreateDeal, AcceptDeal, CounterOfferDeal, moneyVars
  <2>2. CASE DeclineDeal(d) \/ \E o \in CounterOffers : DeclineCounterOffer(d, o)
    BY <1>1, <2>2, ClosingPosts DEF DeclineDeal, DeclineCounterOffer
  <2>3. CASE \E o \in CounterOffers : AcceptCounterOffer(d, o)
    BY <2>3, RenegotiatingPosts DEF AcceptCounterOffer
  <2> QED BY <1>2, <2>1, <2>2, <2>3 DEF NegotiationStep
<1>3. ASSUME NEW d \in Deals, PaymentStep(d) PROVE PostsWhatItDoes
  BY <1>0, <1>3 DEF PaymentStep, StartDealPayment, StartCounterOfferTopUp, moneyVars
<1>4. ASSUME NEW d \in Deals, ApproveDelivery(d) PROVE PostsWhatItDoes
  BY <1>1, <1>4, ReleasingPosts DEF ApproveDelivery
<1>5. ASSUME NEW d \in Deals, WorkStep(d) PROVE PostsWhatItDoes
  <2>1. CASE \/ SubmitDelivery(d) \/ RejectDelivery(d) \/ ResolveDisputeForCreator(d)
             \/ \E party \in Parties : OpenDispute(d, party) \/ WithdrawDispute(d, party)
    BY <1>0, <2>1 DEF SubmitDelivery, RejectDelivery, ResolveDisputeForCreator, OpenDispute,
                      WithdrawDispute, moneyVars
  <2>2. CASE RequestRefund(d) \/ ResolveDisputeForBuyer(d)
    BY <1>1, <2>2, ClosingPosts DEF RequestRefund, ResolveDisputeForBuyer
  <2> QED BY <1>4, <1>5, <2>1, <2>2 DEF WorkStep
<1>6. ASSUME NEW d \in Deals, SweepExpire(d) \/ SweepAutoApprove(d) PROVE PostsWhatItDoes
  BY <1>1, <1>4, <1>6, ClosingPosts DEF SweepExpire, SweepAutoApprove
<1>7. ASSUME NEW i \in Intents, HandleNotice(i) PROVE PostsWhatItDoes
  <2>1. ASSUME NEW type \in FullCapture, CaptureTopUp(i, type) PROVE PostsWhatItDoes
    <3>1. intent[i].purpose = "TOP_UP" /\ intent[i].deal \in Deals
      BY <2>1 DEF CaptureTopUp, IsActive, ActiveStatus, IInv, IntentsSound
    <3>2. intent[i].offer \in CounterOffers
      BY <3>1 DEF IInv, IntentsSound
    <3> QED BY <2>1, <3>1, <3>2, RenegotiatingPosts DEF CaptureTopUp
  <2>2. CASE IgnoreNotice(i) \/ \E type \in NoticeType : FlagCapture(i, type)
    BY <1>0, <2>2 DEF IgnoreNotice, FlagCapture, moneyVars
  <2> QED BY <1>7, <2>1, <2>2, CapturingPosts DEF HandleNotice
<1>8. ASSUME NEW i \in Intents, NEW type \in NoticeType, ProviderNotifies(i, type)
      PROVE  PostsWhatItDoes
  BY <1>0, <1>8 DEF ProviderNotifies, moneyVars
<1>9. Tick \/ UNCHANGED vars => PostsWhatItDoes
  BY <1>0 DEF Tick, vars, moneyVars
<1> QED BY <1>2, <1>3, <1>5, <1>6, <1>7, <1>8, <1>9 DEF Next

LEMMA KeysKept ==
    ASSUME IInv, KeysSound, [Next]_vars
    PROVE  KeysSound'
<1>1. ASSUME NEW d \in Deals
      PROVE  /\ deal[d].escrow = "RELEASED" => deal'[d].escrow = "RELEASED"
             /\ deal[d].escrow = "REFUNDED" => deal'[d].escrow = "REFUNDED"
             /\ deal[d].escrow = "HELD" => deal'[d].escrow \in {"HELD", "RELEASED", "REFUNDED"}
  <2>1. CASE AllStay
    BY <2>1 DEF AllStay
  <2>2. ASSUME NEW e \in Deals, Move(e), e # d
        PROVE  deal'[d] = deal[d]
    BY <2>2 DEF Move, NotTouched
  <2>3. CASE Move(d)
    BY <2>3 DEF Move, Opens, Talks, Renegotiates, IsPaid, Unlocks, Ends, Delivers, SendsBack,
                Approves, Refunds, Argues, Passes
  <2> QED BY <2>1, <2>2, <2>3, EveryStepIsAMove
<1>2. ASSUME NEW o \in CounterOffers, offer[o].status = "ACCEPTED"
      PROVE  offer'[o].status = "ACCEPTED"
  BY <1>2, EveryStepMovesOneOffer DEF OfferMoves, IInv, TypeOK
<1>3. \A key \in posted' : key \in posted \/ IsPosted(key)
  BY EveryStepPostsWhatItDoes DEF PostsWhatItDoes
<1>4. ASSUME NEW d \in Deals
      PROVE  /\ <<"ESCROW_FUNDING", d>> \in posted' =>
                   deal'[d].escrow \in {"HELD", "RELEASED", "REFUNDED"}
             /\ <<"ESCROW_RELEASE", d>> \in posted' => deal'[d].escrow = "RELEASED"
             /\ <<"ESCROW_REFUND", d>> \in posted'  => deal'[d].escrow = "REFUNDED"
  BY <1>1, <1>3 DEF KeysSound, IsPosted
<1>5. ASSUME NEW o \in CounterOffers
      PROVE  /\ <<"ESCROW_TOP_UP", o>> \in posted'        => offer'[o].status = "ACCEPTED"
             /\ <<"COUNTER_OFFER_REFUND", o>> \in posted' => offer'[o].status = "ACCEPTED"
  BY <1>2, <1>3 DEF KeysSound, IsPosted
<1> QED BY <1>4, <1>5 DEF KeysSound

LEMMA KeysInvariant == Spec => []KeysSound
<1>1. Init => KeysSound
  BY DEF Init, KeysSound
<1>2. IInv /\ KeysSound /\ [Next]_vars => KeysSound'
  BY KeysKept
<1> QED BY <1>1, <1>2, InductiveInvariant, PTL DEF Spec

(* A row and its ledger, beyond Sound: what the screens say of its money.    *)
Shown(row, money) ==
    /\ Priced(row)
    /\ row.escrow \in {"PENDING", "FAILED"} => money.clearing = 0 /\ money.refunds = 0
    /\ row.escrow = "RELEASED" => row.price > 0

RowsShown == \A d \in Deals : Shown(deal[d], ledger[d])

LEMMA ShownKept ==
    ASSUME IInv, RowsShown, AllStay \/ \E d \in Deals : Move(d)
    PROVE  RowsShown'
<1>1. CASE AllStay
  BY <1>1 DEF AllStay, KeepsTerms, RowsShown, Shown, Priced
<1>2. ASSUME NEW d \in Deals, Move(d) PROVE RowsShown'
  <2>1. \A e \in Deals \ {d} : Shown(deal'[e], ledger'[e])
    BY <1>2 DEF Move, NotTouched, RowsShown
  <2>2. SUFFICES Shown(deal'[d], ledger'[d])
    BY <2>1 DEF RowsShown
  <2>3. Shown(deal[d], ledger[d])
    BY DEF RowsShown
  <2>4. CASE Opens(d) \/ Renegotiates(d)
    BY <2>3, <2>4 DEF Opens, Renegotiates, Passes, NothingFlows, Shown
  <2>5. CASE Talks(d) \/ Delivers(d) \/ SendsBack(d) \/ Argues(d)
    BY <2>3, <2>5 DEF Talks, Delivers, SendsBack, Argues, Passes, KeepsTerms, Shown, Priced
  <2>6. CASE IsPaid(d) \/ Unlocks(d) \/ Approves(d) \/ Refunds(d)
    BY <2>3, <2>6 DEF IsPaid, Unlocks, Approves, Refunds, Passes, KeepsTerms, Shown, Priced
  <2>7. CASE Ends(d)
    BY <2>3, <2>7 DEF Ends, Passes, KeepsTerms, NothingFlows, Shown, Priced
  <2> QED BY <1>2, <2>4, <2>5, <2>6, <2>7 DEF Move
<1> QED BY <1>1, <1>2

LEMMA ShownInvariant == Spec => []RowsShown
<1>1. Init => RowsShown
  BY DEF Init, NoDeal, NoMoney, RowsShown, Shown, Priced
<1>2. IInv /\ RowsShown /\ [Next]_vars => RowsShown'
  BY EveryStepIsAMove, ShownKept
<1> QED BY <1>1, <1>2, InductiveInvariant, PTL DEF Spec

(* The ledger refuses a posting whose semantic key it has.  No handler whose *)
(* other guards hold is ever refused for that: the states of the rows alone  *)
(* keep each posting from being made twice (ledger-transaction.ts,           *)
(* UNIQUE(kind, external_reference)).                                       *)
KeysAreFresh ==
    /\ \A d \in Deals :
          /\ deal[d].escrow = "PENDING" => NotPosted("ESCROW_FUNDING", d)
          /\ deal[d].escrow \in {"PENDING", "HELD"} =>
                NotPosted("ESCROW_RELEASE", d) /\ NotPosted("ESCROW_REFUND", d)
    /\ \A o \in CounterOffers : offer[o].status = "PENDING" =>
          NotPosted("ESCROW_TOP_UP", o) /\ NotPosted("COUNTER_OFFER_REFUND", o)

THEOREM KeysAreAlwaysFresh == Spec => []KeysAreFresh
<1>1. KeysSound => KeysAreFresh
  BY DEF KeysSound, KeysAreFresh, NotPosted
<1> QED BY <1>1, KeysInvariant, PTL

(* The steps shown as done follow each other, and what is said beside the    *)
(* amount is what the books say (passosDoPedido, ondeEstaODinheiro in        *)
(* deal-state.ts).  The note of the next step agrees with it, that of        *)
(* estado/page.tsx while the deal is open or paid, and the page of the       *)
(* delivery while one waits or was approved (WhatIsShownIsTrue).  With a fee *)
(* of a hundred per cent the creator is paid nothing, and told "with you".   *)
THEOREM ScreensAlwaysSayTheTruth ==
    ASSUME FeeBasisPoints < FullBasisPoints
    PROVE  Spec => []WhatIsShownIsTrue
<1>1. IInv /\ StepsInv /\ RowsShown => WhatIsShownIsTrue
  <2> SUFFICES ASSUME IInv, StepsInv, RowsShown, NEW d \in Deals
               PROVE  LET said == WhereTheMoneyIs(deal[d])
                          book == ledger[d]
                      IN  /\ \A n \in 2 .. 4 : DoneSteps(deal[d])[n] => DoneSteps(deal[d])[n - 1]
                          /\ said = "not paid" => book = NoMoney
                          /\ (said = "held" /\ deal[d].amount > 0) = (book.escrow > 0)
                          /\ (said = "with the creator") = (book.creator > 0)
                          /\ said = "returned" => book.refunds = book.clearing
                          /\ \A viewer \in Parties :
                                Agrees(NextStepSays(deal[d], viewer), deal[d])
                          /\ deal[d].status \notin {"DECLINED", "EXPIRED", "REFUNDED"} =>
                                Agrees(NoteSays(deal[d]), deal[d])
                          /\ deal[d].status \in {"DELIVERED", "APPROVED", "PAID"} =>
                                Agrees(DeliveryPageSays(d, "buyer"), deal[d])
    BY DEF WhatIsShownIsTrue
  <2> DEFINE row  == deal[d]
             book == ledger[d]
             said == WhereTheMoneyIs(row)
  <2>1. /\ row \in DealRow /\ book \in Balance /\ SidesAgree(row) /\ Books(row, book)
        /\ Shown(row, book)
    BY DEF IInv, DealsSound, Sound, RowsShown
  <2>11. \A viewer \in Parties : Agrees(NextStepSays(row, viewer), row)
    BY <2>1 DEF Agrees, NextStepSays, WhereTheMoneyIs, SidesAgree, DealRow, EscrowStatus
  <2>12. row.status \notin {"DECLINED", "EXPIRED", "REFUNDED"} => Agrees(NoteSays(row), row)
    BY <2>1 DEF Agrees, NoteSays, WhereTheMoneyIs, SidesAgree, DealRow, EscrowStatus
  <2>13. row.status \in {"DELIVERED", "APPROVED", "PAID"} =>
             Agrees(DeliveryPageSays(d, "buyer"), row)
    <3>1. row.status = "DELIVERED" => delivery[d].version > 0
      BY <2>1 DEF StepsInv, DeliveriesSound, DeliverySound, DealRow
    <3>2. row.status \in {"APPROVED", "PAID"} => row.escrow = "RELEASED"
      BY <2>1 DEF SidesAgree, DealRow, EscrowStatus
    <3>3. row.status = "DELIVERED" => row.escrow = "HELD"
      BY <2>1 DEF SidesAgree, DealRow, EscrowStatus
    <3> QED BY <3>1, <3>2, <3>3 DEF Agrees, DeliveryPageSays, WhereTheMoneyIs
  <2> HIDE DEF row, book
  <2>2. /\ said = "with the creator" <=> row.escrow = "RELEASED"
        /\ said = "returned"         <=> row.escrow = "REFUNDED"
        /\ said = "held"             <=> row.escrow = "HELD"
        /\ said = "not paid"         <=> row.escrow \in {"PENDING", "FAILED"}
    BY <2>1 DEF WhereTheMoneyIs, DealRow, EscrowStatus
  <2> HIDE DEF said
  <2>3. \A n \in 2 .. 4 : DoneSteps(row)[n] => DoneSteps(row)[n - 1]
    <3>1. /\ DoneSteps(row)[2] => DoneSteps(row)[1]
          /\ DoneSteps(row)[3] => DoneSteps(row)[2]
          /\ DoneSteps(row)[4] => DoneSteps(row)[3]
      BY <2>1 DEF DoneSteps, SidesAgree
    <3>2. \A n \in 2 .. 4 : n = 2 \/ n = 3 \/ n = 4
      OBVIOUS
    <3> QED BY <3>1, <3>2
  <2>4. /\ book.clearing \in Int /\ book.escrow \in Int /\ book.refunds \in Int
        /\ book.creator \in Int /\ book.fees \in Int
        /\ row.amount \in Nat /\ row.price \in Nat /\ row.creatorNet \in Nat
    BY <2>1 DEF Balance, DealRow
  <2>5. said = "not paid" => book = NoMoney
    <3>1. ASSUME said = "not paid"
          PROVE  /\ book.clearing = 0 /\ book.escrow = 0 /\ book.refunds = 0
                 /\ book.creator = 0 /\ book.fees = 0
      BY <2>1, <2>2, <2>4, <3>1 DEF Books, Shown
    <3> QED BY <2>1, <3>1 DEF Balance, NoMoney
  <2>6. (said = "held" /\ row.amount > 0) <=> (book.escrow > 0)
    <3>1. book.escrow = IF row.escrow = "HELD" THEN row.amount ELSE 0
      BY <2>1 DEF Books
    <3>2. CASE row.escrow = "HELD"
      BY <2>2, <3>1, <3>2
    <3>3. CASE row.escrow # "HELD"
      <4>1. book.escrow = 0 /\ ~ (book.escrow > 0)
        BY <2>4, <3>1, <3>3
      <4> QED BY <2>2, <3>3, <4>1, Zenon
    <3> QED BY <3>2, <3>3
  <2>7. (said = "with the creator") <=> (book.creator > 0)
    <3>1. CASE row.escrow = "RELEASED"
      <4>1. book.creator = row.creatorNet /\ row.price > 0
        BY <2>1, <3>1 DEF Books, Shown
      <4>2. row.creatorNet > 0
        BY <2>1, <4>1 DEF Shown, Priced
      <4> QED BY <2>2, <3>1, <4>1, <4>2
    <3>2. CASE row.escrow # "RELEASED"
      <4>1. book.creator = 0 /\ ~ (book.creator > 0)
        BY <2>1, <3>2 DEF Books
      <4> QED BY <2>2, <3>2, <4>1, Zenon
    <3> QED BY <3>1, <3>2
  <2>8. said = "returned" => book.refunds = book.clearing
    BY <2>1, <2>2, <2>4 DEF Books
  <2>9. (said = "held" /\ row.amount > 0) = (book.escrow > 0)
    BY <2>4, <2>6
  <2>10. (said = "with the creator") = (book.creator > 0)
    <3> DEFINE p == said = "with the creator"
               q == book.creator > 0
    <3>1. p \in BOOLEAN /\ q \in BOOLEAN
      OBVIOUS
    <3>2. p <=> q
      BY <2>7, Zenon
    <3> HIDE DEF p, q
    <3>3. p = q
      BY <3>1, <3>2
    <3> QED BY <3>3 DEF p, q
  <2> QED BY <2>3, <2>5, <2>8, <2>9, <2>10, <2>11, <2>12, <2>13 DEF row, book, said
<1> QED BY <1>1, InductiveInvariant, StepsInvariant, ShownInvariant, PTL

(* What the handlers behind the buttons ask before they write anything: the  *)
(* conjuncts of their actions that speak of no primed variable.              *)
CanClose(d, row) == row.escrow = "HELD" => row.amount > 0 /\ NotPosted("ESCROW_REFUND", d)

Admits(b, d, viewer) ==
    /\ IsAllowed(b, viewer)
    /\ CASE b = "pay" -> /\ deal[d].status = "PROPOSED"
                         /\ deal[d].escrow = "PENDING"
                         /\ deal[d].amount > 0
         [] b = "accept"  -> CanAccept(deal[d])
         [] b = "decline" -> CanDecline(deal[d]) /\ CanClose(d, DeclinedDeal(deal[d]))
         [] b = "deliver" -> CanDeliver(deal[d])
         [] b = "approve" -> /\ NotDisputed(d) /\ CanApprove(deal[d])
                             /\ CanRelease(ApprovedDeal(deal[d]))
                             /\ NotPosted("ESCROW_RELEASE", d)
         [] b = "ask for change" -> CanReject(deal[d]) /\ delivery[d].version > 0
         [] b = "ask for refund" -> /\ IsRefundableForLateDelivery(deal[d])
                                    /\ CanRefund(deal[d])
                                    /\ CanClose(d, RefundedDeal(deal[d]))
         [] b = "open dispute" -> deal[d].status \in DisputableStatus /\ dispute[d] = "none"
         [] b = "withdraw dispute" -> dispute[d] = viewer

(* Whatever happened to a deal, the handler behind a button that its screens *)
(* offer finds nothing against it, but for what IsExcused says, and the next *)
(* step is one of the buttons (apps/web/src/app/deals).  This is             *)
(* ButtonsAreAccepted without its ENABLED, and without the ids that a new    *)
(* payment takes.                                                           *)
THEOREM ButtonsAreAlwaysAdmitted ==
    Spec => [](\A d \in Deals, viewer \in Parties :
                  /\ NextButton(deal[d], viewer) \subseteq Buttons(d, viewer)
                  /\ \A b \in Buttons(d, viewer) : Admits(b, d, viewer) \/ IsExcused(b, d, viewer))
<1>1. ASSUME IInv, DeliveriesSound, KeysSound, RowsShown, NEW d \in Deals, NEW viewer \in Parties
      PROVE  /\ NextButton(deal[d], viewer) \subseteq Buttons(d, viewer)
             /\ \A b \in Buttons(d, viewer) : Admits(b, d, viewer) \/ IsExcused(b, d, viewer)
  <2>1. /\ deal[d] \in DealRow /\ SidesAgree(deal[d]) /\ AddsUp(deal[d])
        /\ DeliverySound(deal[d], delivery[d]) /\ Priced(deal[d])
        /\ delivery[d].version \in Nat
    BY <1>1 DEF IInv, TypeOK, DealsSound, Sound, Books, DeliveriesSound, RowsShown, Shown
  <2>2. NextButton(deal[d], viewer) \subseteq Buttons(d, viewer)
    <3>1. deal[d].status = "PROPOSED" /\ deal[d].escrow # "HELD" => deal[d].escrow = "PENDING"
      BY <2>1 DEF SidesAgree, DealRow, EscrowStatus
    <3> QED BY <3>1 DEF NextButton, Buttons, MayPay, MayDecide, MayDeliver, MayApprove
  <2>3. deal[d].escrow = "HELD" =>
            NotPosted("ESCROW_RELEASE", d) /\ NotPosted("ESCROW_REFUND", d)
    BY <1>1 DEF KeysSound, NotPosted
  <2>4. deal[d].status \in {"ACCEPTED", "IN_PROGRESS", "DELIVERED"} => deal[d].escrow = "HELD"
    BY <2>1 DEF SidesAgree, DealRow, EscrowStatus
  <2>5. ASSUME NEW b \in Buttons(d, viewer), ~ IsExcused(b, d, viewer)
        PROVE  Admits(b, d, viewer)
    <3>0. IsAllowed(b, viewer)
      BY <2>5 DEF Buttons, IsAllowed, IsExcused, Parties
    <3>1. deal[d].amount > 0 /\ deal[d].price > 0
      BY <2>1, <2>5 DEF IsExcused, DealRow, Priced
    <3>2. /\ DeclinedDeal(deal[d]).escrow = deal[d].escrow
          /\ DeclinedDeal(deal[d]).amount = deal[d].amount
          /\ RefundedDeal(deal[d]).escrow = deal[d].escrow
          /\ RefundedDeal(deal[d]).amount = deal[d].amount
      BY <2>1, MethodFields, MethodsKeepTerms DEF SameTerms
    <3>3. CASE b = "pay" \/ b = "open dispute" \/ b = "withdraw dispute"
      BY <2>5, <3>0, <3>1, <3>3 DEF Buttons, Admits, MayPay, MayDispute, DisputableStatus
    <3>4. CASE b = "accept"
      BY <2>5, <3>0, <3>4 DEF Buttons, Admits, MayDecide, IsExcused, CanAccept, MoveTo, DealTransitions
    <3>5. CASE b = "decline"
      <4>1. deal[d].status = "PROPOSED" /\ deal[d].escrow = "HELD"
        BY <2>5, <3>5 DEF Buttons, MayDecide
      <4>2. CanDecline(deal[d]) /\ CanClose(d, DeclinedDeal(deal[d]))
        BY <2>3, <3>1, <3>2, <4>1 DEF CanDecline, MoveTo, DealTransitions, CanClose
      <4> QED BY <3>0, <3>5, <4>2 DEF Admits
    <3>6. CASE b = "deliver"
      BY <2>5, <3>0, <3>6 DEF Buttons, Admits, MayDeliver, CanDeliver, MoveTo, DealTransitions
    <3>7. CASE b = "approve"
      <4> DEFINE approved == ApprovedDeal(deal[d])
      <4>1. deal[d].status = "DELIVERED" /\ deal[d].escrow = "HELD" /\ dispute[d] = "none"
        BY <2>4, <2>5, <3>7 DEF Buttons, MayApprove, IsExcused
      <4>2. /\ approved.status = "APPROVED" /\ approved.escrow = deal[d].escrow
            /\ SameTerms(deal[d], approved)
        BY <2>1, MethodFields, MethodsKeepTerms
      <4> HIDE DEF approved
      <4>3. CanRelease(approved)
        <5>1. CanSettle(approved)
          BY <4>1, <4>2 DEF CanSettle, MoveTo, MoveEscrowTo, DealTransitions, EscrowTransitions
        <5>2. approved.amount = approved.price - CreatorFee(approved) + approved.platformFee
          BY <2>1, <4>2 DEF SameTerms, AddsUp, CreatorFee, DealRow
        <5> QED BY <3>1, <4>2, <5>1, <5>2 DEF CanRelease, SameTerms
      <4>4. NotDisputed(d) /\ CanApprove(deal[d]) /\ NotPosted("ESCROW_RELEASE", d)
        BY <2>3, <4>1 DEF NotDisputed, CanApprove, MoveTo, DealTransitions
      <4> QED BY <3>0, <3>7, <4>3, <4>4 DEF Admits, approved
    <3>8. CASE b = "ask for change"
      <4>1. deal[d].status = "DELIVERED" /\ deal[d].revisionCount < RevisionsIncluded
        BY <2>5, <3>8 DEF Buttons, MayAskForChange, MayApprove
      <4>2. CanReject(deal[d])
        BY <4>1 DEF CanReject, MoveTo, DealTransitions
      <4>3. delivery[d].version > 0
        BY <2>1, <4>1 DEF DeliverySound, DealRow
      <4> QED BY <3>0, <3>8, <4>2, <4>3 DEF Admits
    <3>9. CASE b = "ask for refund"
      <4>1. deal[d].status \in {"ACCEPTED", "IN_PROGRESS"} /\ deal[d].lateIn = 0
        BY <2>5, <3>9 DEF Buttons, MayAskForRefund
      <4>2. CanRefund(deal[d]) /\ IsRefundableForLateDelivery(deal[d])
        BY <4>1 DEF CanRefund, IsRefundableForLateDelivery, MoveTo, DealTransitions
      <4>3. CanClose(d, RefundedDeal(deal[d]))
        BY <2>3, <2>4, <3>1, <3>2, <4>1 DEF CanClose
      <4> QED BY <3>0, <3>9, <4>2, <4>3 DEF Admits
    <3> QED
      BY <2>5, <3>3, <3>4, <3>5, <3>6, <3>7, <3>8, <3>9 DEF Buttons
  <2> QED BY <2>2, <2>5
<1>2. IInv /\ StepsInv /\ KeysSound /\ RowsShown =>
        \A d \in Deals, viewer \in Parties :
            /\ NextButton(deal[d], viewer) \subseteq Buttons(d, viewer)
            /\ \A b \in Buttons(d, viewer) : Admits(b, d, viewer) \/ IsExcused(b, d, viewer)
  BY <1>1 DEF StepsInv
<1> QED
  BY <1>2, InductiveInvariant, StepsInvariant, KeysInvariant, ShownInvariant, PTL

-----------------------------------------------------------------------------
(* What the liveness properties need at every moment: the sweep and the      *)
(* handler of captures find nothing against what they are called for.       *)

(* Whoever waits for somebody does so with a deadline.                       *)
Dated(row) ==
    /\ row.status \in {"PROPOSED", "COUNTER_OFFERED"} => row.expiresIn # NoDeadline
    /\ row.status \in {"ACCEPTED", "IN_PROGRESS"} => row.lateIn # NoDeadline
    /\ row.status = "DELIVERED" => row.approvalIn # NoDeadline

AllDated == \A d \in Deals : Dated(deal[d])

LEMMA MethodsAreDated ==
    ASSUME NEW row \in DealRow, Dated(row)
    PROVE  /\ Dated(HeldDeal(row))           /\ Dated(AcceptedDeal(row))
           /\ Dated(DeclinedDeal(row))       /\ Dated(CounterOfferedDeal(row))
           /\ Dated(DeliveredDeal(row))      /\ Dated(RejectedDeal(row))
           /\ Dated(ExpiredDeal(row))        /\ Dated(RefundedDeal(row))
           /\ Dated(ApprovedDeal(row))       /\ Dated(SettledDeal(row))
           /\ Dated(TickedDeal(row))         /\ Dated(ClosedRow(row))
<1> USE PolicyAssumption DEF Dated, DealRow, Deadline, NoDeadline
<1>1. /\ Dated(HeldDeal(row))     /\ Dated(DeclinedDeal(row)) /\ Dated(CounterOfferedDeal(row))
      /\ Dated(DeliveredDeal(row)) /\ Dated(ExpiredDeal(row)) /\ Dated(RefundedDeal(row))
      /\ Dated(ApprovedDeal(row)) /\ Dated(SettledDeal(row))
  BY DEF HeldDeal, DeclinedDeal, CounterOfferedDeal, DeliveredDeal, ExpiredDeal, RefundedDeal,
         ApprovedDeal, SettledDeal
<1>2. Dated(AcceptedDeal(row)) /\ Dated(RejectedDeal(row))
  BY DEF AcceptedDeal, RejectedDeal
<1>3. Dated(TickedDeal(row))
  BY DEF TickedDeal, OneTickLess
<1>4. Dated(ClosedRow(row))
  BY DEF ClosedRow, PaymentFailedDeal, EscrowReturnedDeal
<1> QED BY <1>1, <1>2, <1>3, <1>4

LEMMA TermsAreDated ==
    ASSUME NEW row \in DealRow, NEW kind, NEW price, NEW sla
    PROVE  /\ Dated(OpenedDeal(kind, price, sla))
           /\ Dated(RenegotiatedDeal(row, price, sla))
BY PolicyAssumption DEF Dated, OpenedDeal, RenegotiatedDeal, NoDeadline, DealRow

LEMMA OneRowDated ==
    ASSUME IInv, AllDated, NEW d \in Deals, NEW row, Dated(row),
           deal' = [deal EXCEPT ![d] = row]
    PROVE  AllDated'
BY DEF AllDated, IInv, TypeOK

LEMMA ClosingIsDated ==
    ASSUME IInv, AllDated, NEW d \in Deals,
           NEW row \in {DeclinedDeal(deal[d]), ExpiredDeal(deal[d]), RefundedDeal(deal[d])},
           CloseEscrow(d, row)
    PROVE  AllDated'
<1>1. deal[d] \in DealRow /\ Dated(deal[d])
  BY DEF IInv, TypeOK, AllDated
<1>2. row \in DealRow /\ Dated(row)
  BY <1>1, MethodsKeepTerms, MethodsAreDated
<1>3. Dated(ClosedRow(row)) /\ deal' = [deal EXCEPT ![d] = ClosedRow(row)]
  BY <1>2, MethodsAreDated DEF CloseEscrow
<1> HIDE DEF ClosedRow
<1> QED BY <1>3, OneRowDated

LEMMA CapturingIsDated ==
    ASSUME IInv, AllDated, NEW i \in Intents, NEW type \in FullCapture,
           CaptureInitial(i, type) \/ CaptureAndUnlock(i, type) \/ CaptureTopUp(i, type)
    PROVE  AllDated'
<1> DEFINE d == intent[i].deal
<1>1. IsActive(i)
  BY DEF CaptureInitial, CaptureAndUnlock, CaptureTopUp
<1>2. d \in Deals
  BY <1>1 DEF IsActive, ActiveStatus, IInv, IntentsSound
<1>3. deal[d] \in DealRow /\ Dated(deal[d])
  BY <1>2 DEF IInv, TypeOK, AllDated
<1>4. HeldDeal(deal[d]) \in DealRow /\ Dated(HeldDeal(deal[d]))
  BY <1>3, MethodsKeepTerms, MethodsAreDated
<1>5. CASE CaptureInitial(i, type)
  <2>1. deal' = [deal EXCEPT ![d] = HeldDeal(deal[d])]
    BY <1>5 DEF CaptureInitial
  <2> HIDE DEF d
  <2> QED BY <1>2, <1>4, <2>1, OneRowDated
<1>6. CASE CaptureAndUnlock(i, type)
  <2> DEFINE done == ApprovedDeal(DeliveredDeal(AcceptedDeal(HeldDeal(deal[d]))))
  <2>1. deal' = [deal EXCEPT ![d] = SettledDeal(done)]
    BY <1>6 DEF CaptureAndUnlock
  <2>2. done \in DealRow /\ Dated(done)
    BY <1>4, MethodsKeepTerms, MethodsAreDated
  <2> HIDE DEF d, done
  <2>3. Dated(SettledDeal(done))
    BY <2>2, MethodsAreDated
  <2> QED BY <1>2, <2>1, <2>3, OneRowDated
<1>7. CASE CaptureTopUp(i, type)
  <2> DEFINE o == intent[i].offer
  <2>1. deal' = [deal EXCEPT ![d] = RenegotiatedDeal(deal[d], offer[o].price, offer[o].sla)]
    BY <1>7 DEF CaptureTopUp, ApplyAcceptedCounterOffer
  <2> HIDE DEF d
  <2> QED BY <1>2, <1>3, <2>1, TermsAreDated, OneRowDated
<1> QED BY <1>5, <1>6, <1>7

LEMMA DatedKept ==
    ASSUME IInv, AllDated, [Next]_vars
    PROVE  AllDated'
<1>0. deal' = deal => AllDated'
  BY DEF AllDated
<1>1. ASSUME NEW d \in Deals PROVE deal[d] \in DealRow /\ Dated(deal[d])
  BY DEF IInv, TypeOK, AllDated
<1>2. ASSUME NEW d \in Deals, NegotiationStep(d) PROVE AllDated'
  <2>1. ASSUME NEW kind, NEW price, NEW sla, CreateDeal(d, kind, price, sla) PROVE AllDated'
    BY <1>1, <2>1, TermsAreDated, OneRowDated DEF CreateDeal
  <2>2. CASE AcceptDeal(d)
    BY <1>1, <2>2, MethodsAreDated, OneRowDated DEF AcceptDeal
  <2>3. CASE DeclineDeal(d) \/ \E o \in CounterOffers : DeclineCounterOffer(d, o)
    BY <2>3, ClosingIsDated DEF DeclineDeal, DeclineCounterOffer
  <2>4. CASE \E o \in CounterOffers, price \in Prices, sla \in Slas :
                 CounterOfferDeal(d, o, price, sla)
    BY <1>1, <2>4, MethodsAreDated, OneRowDated DEF CounterOfferDeal
  <2>5. ASSUME NEW o \in CounterOffers, AcceptCounterOffer(d, o) PROVE AllDated'
    <3> DEFINE row == RenegotiatedDeal(deal[d], offer[o].price, offer[o].sla)
    <3>1. deal' = [deal EXCEPT ![d] = row]
      BY <2>5 DEF AcceptCounterOffer, ApplyAcceptedCounterOffer
    <3>2. Dated(row)
      BY <1>1, TermsAreDated
    <3> HIDE DEF row
    <3> QED BY <3>1, <3>2, OneRowDated
  <2> QED BY <1>2, <2>1, <2>2, <2>3, <2>4, <2>5 DEF NegotiationStep
<1>3. ASSUME NEW d \in Deals, PaymentStep(d) PROVE AllDated'
  BY <1>0, <1>3 DEF PaymentStep, StartDealPayment, StartCounterOfferTopUp
<1>4. ASSUME NEW d \in Deals, ApproveDelivery(d) PROVE AllDated'
  <2>1. deal' = [deal EXCEPT ![d] = SettledDeal(ApprovedDeal(deal[d]))]
    BY <1>4 DEF ApproveDelivery, ReleaseEscrow
  <2>2. ApprovedDeal(deal[d]) \in DealRow /\ Dated(ApprovedDeal(deal[d]))
    BY <1>1, MethodsKeepTerms, MethodsAreDated
  <2>3. Dated(SettledDeal(ApprovedDeal(deal[d])))
    BY <2>2, MethodsAreDated
  <2> QED BY <2>1, <2>3, OneRowDated
<1>5. ASSUME NEW d \in Deals, WorkStep(d) PROVE AllDated'
  <2>1. CASE SubmitDelivery(d) \/ RejectDelivery(d)
    BY <1>1, <2>1, MethodsAreDated, OneRowDated DEF SubmitDelivery, RejectDelivery
  <2>2. CASE \/ ResolveDisputeForCreator(d)
             \/ \E party \in Parties : OpenDispute(d, party) \/ WithdrawDispute(d, party)
    BY <1>0, <2>2 DEF ResolveDisputeForCreator, OpenDispute, WithdrawDispute
  <2>3. CASE RequestRefund(d) \/ ResolveDisputeForBuyer(d)
    BY <2>3, ClosingIsDated DEF RequestRefund, ResolveDisputeForBuyer
  <2> QED BY <1>4, <1>5, <2>1, <2>2, <2>3 DEF WorkStep
<1>6. ASSUME NEW d \in Deals, SweepExpire(d) \/ SweepAutoApprove(d) PROVE AllDated'
  BY <1>4, <1>6, ClosingIsDated DEF SweepExpire, SweepAutoApprove
<1>7. ASSUME NEW i \in Intents, HandleNotice(i) PROVE AllDated'
  BY <1>0, <1>7, CapturingIsDated DEF HandleNotice, IgnoreNotice, FlagCapture
<1>8. ASSUME NEW i \in Intents, NEW type \in NoticeType, ProviderNotifies(i, type)
      PROVE  AllDated'
  BY <1>0, <1>8 DEF ProviderNotifies
<1>9. CASE Tick
  BY <1>1, <1>9, MethodsAreDated DEF Tick, AllDated
<1>10. CASE UNCHANGED vars
  BY <1>0, <1>10 DEF vars
<1> QED BY <1>2, <1>3, <1>5, <1>6, <1>7, <1>8, <1>9, <1>10 DEF Next

(* No payment is asked for nothing.                                          *)
PaymentsArePositive == \A i \in Intents : intent[i].status # "NONE" => intent[i].amount > 0

(* What becomes of one payment: it is started, for more than nothing, or it  *)
(* goes on being asked for the same.                                        *)
AmountsStay ==
    \A i \in Intents :
        \/ intent'[i].amount > 0
        \/ intent'[i].amount = intent[i].amount /\ intent[i].status # "NONE"
        \/ intent'[i] = intent[i]

LEMMA PositiveKept ==
    ASSUME IInv, PaymentsArePositive, [Next]_vars
    PROVE  PaymentsArePositive'
<1>0. intent' = intent => AmountsStay
  BY DEF AmountsStay
<1>1. SUFFICES AmountsStay
  <2>1. ASSUME AmountsStay, NEW i \in Intents, intent'[i].status # "NONE"
        PROVE  intent'[i].amount > 0
    BY <2>1 DEF AmountsStay, PaymentsArePositive
  <2> QED BY <2>1 DEF PaymentsArePositive
<1>2. ASSUME NEW d \in Deals, ExpireIntentsIfUnpaid(d) PROVE AmountsStay
  BY <1>2 DEF ExpireIntentsIfUnpaid, ActiveOf, IsActive, ActiveStatus, AmountsStay,
              IInv, TypeOK, IntentRow
<1>3. ASSUME NEW i \in Intents, IsActive(i), CaptureIntent(i) PROVE AmountsStay
  BY <1>3 DEF CaptureIntent, IsActive, ActiveStatus, AmountsStay, IInv, TypeOK, IntentRow
<1>4. ASSUME NEW d \in Deals, NegotiationStep(d) PROVE AmountsStay
  <2>1. CASE DeclineDeal(d)
    BY <1>2, <2>1 DEF DeclineDeal
  <2>2. CASE \/ \E kind \in OfferKind, price \in Prices, sla \in Slas :
                    CreateDeal(d, kind, price, sla)
             \/ AcceptDeal(d)
             \/ \E o \in CounterOffers, price \in Prices, sla \in Slas :
                    CounterOfferDeal(d, o, price, sla)
             \/ \E o \in CounterOffers : AcceptCounterOffer(d, o) \/ DeclineCounterOffer(d, o)
    BY <1>0, <2>2 DEF CreateDeal, AcceptDeal, CounterOfferDeal, AcceptCounterOffer,
                      DeclineCounterOffer, paymentVars
  <2> QED BY <1>4, <2>1, <2>2 DEF NegotiationStep
<1>5. ASSUME NEW d \in Deals, PaymentStep(d) PROVE AmountsStay
  <2>1. ASSUME NEW i \in Intents, NEW row, row.amount > 0, intent' = [intent EXCEPT ![i] = row]
        PROVE  AmountsStay
    BY <2>1 DEF AmountsStay, IInv, TypeOK
  <2>2. ASSUME NEW i \in Intents, NEW answer, StartDealPayment(d, i, answer)
        PROVE  AmountsStay
    <3> DEFINE row == [deal |-> d, purpose |-> "INITIAL", offer |-> "none",
                       amount |-> deal[d].amount, status |-> answer]
    <3>1. row.amount > 0 /\ intent' = [intent EXCEPT ![i] = row]
      BY <2>2 DEF StartDealPayment
    <3> HIDE DEF row
    <3> QED BY <2>1, <3>1
  <2>3. ASSUME NEW o \in CounterOffers, NEW i \in Intents, NEW answer,
               StartCounterOfferTopUp(d, o, i, answer)
        PROVE  AmountsStay
    <3> DEFINE row == [deal |-> d, purpose |-> "TOP_UP", offer |-> o,
                       amount |-> Settlement(d, offer[o].price),
                       status |-> IF answer = "PENDING" THEN "PENDING" ELSE "FAILED"]
    <3>1. row.amount > 0 /\ intent' = [intent EXCEPT ![i] = row]
      BY <2>3 DEF StartCounterOfferTopUp
    <3> HIDE DEF row
    <3> QED BY <2>1, <3>1
  <2> QED BY <1>5, <2>2, <2>3 DEF PaymentStep
<1>6. ASSUME NEW d \in Deals, WorkStep(d) PROVE AmountsStay
  BY <1>0, <1>6 DEF WorkStep, SubmitDelivery, RejectDelivery, ApproveDelivery, RequestRefund,
                    OpenDispute, WithdrawDispute, ResolveDisputeForBuyer,
                    ResolveDisputeForCreator, paymentVars
<1>7. ASSUME NEW d \in Deals, SweepExpire(d) \/ SweepAutoApprove(d) PROVE AmountsStay
  BY <1>0, <1>2, <1>7 DEF SweepExpire, SweepAutoApprove, ApproveDelivery, paymentVars
<1>8. ASSUME NEW i \in Intents, HandleNotice(i) PROVE AmountsStay
  BY <1>0, <1>3, <1>8 DEF HandleNotice, IgnoreNotice, FlagCapture, CaptureInitial,
                          CaptureAndUnlock, CaptureTopUp
<1>9. ASSUME NEW i \in Intents, NEW type \in NoticeType, ProviderNotifies(i, type)
      PROVE  AmountsStay
  BY <1>0, <1>9 DEF ProviderNotifies
<1>10. Tick \/ UNCHANGED vars => AmountsStay
  BY <1>0 DEF Tick, vars, paymentVars
<1> QED BY <1>4, <1>5, <1>6, <1>7, <1>8, <1>9, <1>10 DEF Next

LEMMA ServedInvariant == Spec => [](AllDated /\ PaymentsArePositive)
<1>1. Init => AllDated /\ PaymentsArePositive
  BY DEF Init, NoDeal, NoIntent, AllDated, Dated, PaymentsArePositive
<1>2. IInv /\ AllDated /\ PaymentsArePositive /\ [Next]_vars
        => (AllDated /\ PaymentsArePositive)'
  BY DatedKept, PositiveKept
<1> QED BY <1>1, <1>2, InductiveInvariant, PTL DEF Spec

(* The ledger takes no entry of zero, so nothing can end a deal that was     *)
(* renegotiated to nothing; there is none where no price is zero.           *)
IsCostFree(d) == deal[d].amount = 0 /\ deal[d].escrow = "HELD"

DeadlinesAreServed ==
    \A d \in Deals :
        /\ Dated(deal[d])
        /\ HasExpired(deal[d]) /\ ~ IsCostFree(d) =>
              CanExpire(deal[d]) /\ CanClose(d, ExpiredDeal(deal[d]))
        /\ deal[d].status = "DELIVERED" /\ NotDisputed(d) /\ ~ IsCostFree(d) =>
              Admits("approve", d, "buyer")
        /\ IsCostFree(d) => 0 \in Prices

(* Everybody who waits for the other party has a deadline, and when it falls *)
(* the sweep can close the deal or approve the work: only a dispute or a     *)
(* price of zero keeps it from doing so (run-deal-deadlines.use-case.ts).   *)
THEOREM DeadlinesAreAlwaysServed == Spec => []DeadlinesAreServed
<1>1. ASSUME IInv, AllDated, AmountsSound, KeysSound, RowsShown, NEW d \in Deals
      PROVE  /\ Dated(deal[d])
             /\ HasExpired(deal[d]) /\ ~ IsCostFree(d) =>
                   CanExpire(deal[d]) /\ CanClose(d, ExpiredDeal(deal[d]))
             /\ deal[d].status = "DELIVERED" /\ NotDisputed(d) /\ ~ IsCostFree(d) =>
                   Admits("approve", d, "buyer")
             /\ IsCostFree(d) => 0 \in Prices
  <2>1. /\ deal[d] \in DealRow /\ SidesAgree(deal[d]) /\ AddsUp(deal[d]) /\ Dated(deal[d])
        /\ Priced(deal[d])
    BY <1>1 DEF IInv, TypeOK, DealsSound, Sound, Books, AllDated, RowsShown, Shown
  <2>2. IsCostFree(d) => 0 \in Prices
    <3>1. ASSUME IsCostFree(d) PROVE 0 \in Prices
      <4>1. deal[d].status # "NONE"
        BY <2>1, <3>1 DEF IsCostFree, SidesAgree
      <4>2. PICK price \in Prices : SplitFees(price, FeeBasisPoints).amount = 0
        BY <1>1, <3>1, <4>1 DEF AmountsSound, IsCostFree, DealAmounts
      <4>3. price \in Nat /\ 0 >= price
        BY <4>2, SplitLosesNothing, PolicyAssumption
      <4> QED BY <4>3
    <3> QED BY <3>1
  <2>3. deal[d].escrow = "HELD" =>
            NotPosted("ESCROW_RELEASE", d) /\ NotPosted("ESCROW_REFUND", d)
    BY <1>1 DEF KeysSound, NotPosted
  <2>4. ASSUME HasExpired(deal[d]), ~ IsCostFree(d)
        PROVE  CanExpire(deal[d]) /\ CanClose(d, ExpiredDeal(deal[d]))
    <3>1. CanExpire(deal[d])
      BY <2>4 DEF HasExpired, CanExpire, MoveTo, DealTransitions
    <3>2. ExpiredDeal(deal[d]).escrow = deal[d].escrow /\ ExpiredDeal(deal[d]).amount = deal[d].amount
      BY <2>1, MethodFields, MethodsKeepTerms DEF SameTerms
    <3>3. deal[d].escrow = "HELD" => deal[d].amount > 0
      BY <2>1, <2>4 DEF IsCostFree, DealRow
    <3> QED BY <2>3, <3>1, <3>2, <3>3 DEF CanClose
  <2>5. ASSUME deal[d].status = "DELIVERED", NotDisputed(d), ~ IsCostFree(d)
        PROVE  Admits("approve", d, "buyer")
    <3> DEFINE approved == ApprovedDeal(deal[d])
    <3>1. deal[d].escrow = "HELD"
      BY <2>1, <2>5 DEF SidesAgree, DealRow, EscrowStatus
    <3>2. deal[d].price > 0 /\ deal[d].amount > 0
      BY <2>1, <2>5, <3>1 DEF IsCostFree, DealRow, Priced
    <3>3. /\ approved.status = "APPROVED" /\ approved.escrow = "HELD"
          /\ SameTerms(deal[d], approved)
      BY <2>1, <3>1, MethodFields, MethodsKeepTerms
    <3> HIDE DEF approved
    <3>4. CanSettle(approved)
      BY <3>3 DEF CanSettle, MoveTo, MoveEscrowTo, DealTransitions, EscrowTransitions
    <3>5. approved.amount = approved.price - CreatorFee(approved) + approved.platformFee
      BY <2>1, <3>3 DEF SameTerms, AddsUp, CreatorFee, DealRow
    <3>6. CanRelease(approved)
      BY <3>2, <3>3, <3>4, <3>5 DEF CanRelease, SameTerms
    <3>7. CanApprove(deal[d])
      BY <2>5 DEF CanApprove, MoveTo, DealTransitions
    <3> QED BY <2>3, <2>5, <3>1, <3>6, <3>7 DEF Admits, IsAllowed, approved
  <2> QED BY <2>1, <2>2, <2>4, <2>5
<1>2. IInv /\ AllDated /\ AmountsSound /\ KeysSound /\ RowsShown => DeadlinesAreServed
  BY <1>1 DEF DeadlinesAreServed
<1> QED
  BY <1>2, InductiveInvariant, ServedInvariant, AmountsInvariant, KeysInvariant, ShownInvariant,
     PTL

(* What the handler asks before it books a capture, beyond IsActive and      *)
(* IsDeadTopUp, which decide whether it flags it instead: the conjuncts of   *)
(* CaptureTopUp, CaptureAndUnlock and CaptureInitial without primed variables. *)
CanLand(i) ==
    LET d    == intent[i].deal
        o    == intent[i].offer
        held == HeldDeal(deal[d])
        done == ApprovedDeal(DeliveredDeal(AcceptedDeal(held)))
    IN  CASE intent[i].purpose = "TOP_UP" ->
                 /\ CanRenegotiate(deal[d])
                 /\ Settlement(d, offer[o].price) > 0
                 /\ NotPosted("ESCROW_TOP_UP", o)
          [] intent[i].purpose = "INITIAL" /\ deal[d].kind = "CONTENT_UNLOCK" ->
                 /\ CanHold(deal[d]) /\ CanAccept(held)
                 /\ CanRelease(done)
                 /\ Grantable(d)
                 /\ NotPosted("ESCROW_FUNDING", d) /\ NotPosted("ESCROW_RELEASE", d)
          [] OTHER ->
                 CanHold(deal[d]) /\ NotPosted("ESCROW_FUNDING", d)

(* The counter-offer waits on although its deal is closed; the content has   *)
(* been bought before; or its proposal ran out, until the sweep comes.       *)
IsKeptWaiting(i) ==
    LET d == intent[i].deal
    IN  IF intent[i].purpose = "TOP_UP"
        THEN deal[d].status \in {"DECLINED", "EXPIRED"}
        ELSE deal[d].kind = "CONTENT_UNLOCK" /\ (HasExpired(deal[d]) \/ ~ Grantable(d))

CapturesLand ==
    \A i \in Intents :
        IsActive(i) /\ ~ IsDeadTopUp(i) => CanLand(i) \/ IsKeptWaiting(i)

LEMMA TopUpLands ==
    ASSUME IInv, PaymentsArePositive, KeysSound, NEW i \in Intents, IsActive(i),
           intent[i].purpose = "TOP_UP", ~ IsDeadTopUp(i)
    PROVE  CanLand(i) \/ IsKeptWaiting(i)
<1> DEFINE d == intent[i].deal
           o == intent[i].offer
<1>1. /\ o \in CounterOffers /\ offer[o].deal = d /\ offer[o].status = "PENDING"
      /\ intent[i].amount = Settlement(d, offer[o].price)
  BY DEF IsDeadTopUp, IInv, IntentsSound
<1>2. deal[d].status \in {"COUNTER_OFFERED", "DECLINED", "EXPIRED"}
  BY <1>1 DEF IInv, OffersSound
<1>3. Settlement(d, offer[o].price) > 0
  BY <1>1 DEF PaymentsArePositive, IsActive, ActiveStatus
<1>4. NotPosted("ESCROW_TOP_UP", o)
  BY <1>1 DEF KeysSound, NotPosted
<1>5. deal[d].status = "COUNTER_OFFERED" => CanRenegotiate(deal[d])
  BY DEF CanRenegotiate, MoveTo, DealTransitions
<1> QED BY <1>2, <1>3, <1>4, <1>5 DEF CanLand, IsKeptWaiting

LEMMA FirstPaymentLands ==
    ASSUME IInv, AllDated, PaymentsArePositive, KeysSound, RowsShown,
           NEW i \in Intents, IsActive(i), intent[i].purpose = "INITIAL"
    PROVE  CanLand(i) \/ IsKeptWaiting(i)
<1> DEFINE d    == intent[i].deal
           held == HeldDeal(deal[d])
           done == ApprovedDeal(DeliveredDeal(AcceptedDeal(held)))
<1>1. d \in Deals /\ intent[i].amount > 0
  BY DEF IsActive, ActiveStatus, IInv, IntentsSound, PaymentsArePositive
<1>2. /\ deal[d] \in DealRow /\ AddsUp(deal[d]) /\ Priced(deal[d])
  BY <1>1 DEF IInv, TypeOK, DealsSound, Sound, Books, RowsShown, Shown
<1>3. deal[d].status = "PROPOSED" /\ deal[d].escrow = "PENDING" /\ intent[i].amount = deal[d].amount
  BY DEF IInv, IntentsSound, InitialIntentsCanStillLand
<1>4. CanHold(deal[d])
  BY <1>3 DEF CanHold, MoveEscrowTo, EscrowTransitions
<1>5. NotPosted("ESCROW_FUNDING", d) /\ NotPosted("ESCROW_RELEASE", d)
  BY <1>1, <1>3 DEF KeysSound, NotPosted
<1>6. /\ held \in DealRow /\ held.status = "PROPOSED" /\ held.escrow = "HELD"
      /\ SameTerms(deal[d], held) /\ held.expiresIn = deal[d].expiresIn
  <2>1. held.expiresIn = deal[d].expiresIn
    BY <1>2 DEF HeldDeal, DealRow
  <2> QED BY <1>2, <1>3, <2>1, MethodFields, MethodsKeepTerms
<1>7. /\ done.status = "APPROVED" /\ done.escrow = "HELD" /\ SameTerms(deal[d], done)
  <2> DEFINE accepted  == AcceptedDeal(held)
             delivered == DeliveredDeal(accepted)
  <2> HIDE DEF held, d
  <2>1. accepted \in DealRow /\ accepted.escrow = "HELD" /\ SameTerms(held, accepted)
    BY <1>6, MethodFields, MethodsKeepTerms
  <2> HIDE DEF accepted
  <2>2. delivered \in DealRow /\ delivered.escrow = "HELD" /\ SameTerms(accepted, delivered)
    BY <2>1, MethodFields, MethodsKeepTerms
  <2> HIDE DEF delivered
  <2>3. /\ ApprovedDeal(delivered).status = "APPROVED" /\ ApprovedDeal(delivered).escrow = "HELD"
        /\ SameTerms(delivered, ApprovedDeal(delivered))
    BY <2>2, MethodFields, MethodsKeepTerms
  <2>4. SameTerms(deal[d], ApprovedDeal(delivered))
    BY <1>6, <2>1, <2>2, <2>3 DEF SameTerms
  <2> QED BY <2>3, <2>4 DEF accepted, delivered
<1> HIDE DEF held, done
<1>8. CanRelease(done)
  <2>1. CanSettle(done)
    BY <1>7 DEF CanSettle, MoveTo, MoveEscrowTo, DealTransitions, EscrowTransitions
  <2>2. done.amount > 0 /\ done.price > 0
    BY <1>1, <1>2, <1>3, <1>7 DEF SameTerms, Priced, DealRow
  <2>3. done.amount = done.price - CreatorFee(done) + done.platformFee
    BY <1>2, <1>7 DEF SameTerms, AddsUp, CreatorFee, DealRow
  <2> QED BY <2>1, <2>2, <2>3 DEF CanRelease
<1>9. CanAccept(held) \/ HasExpired(deal[d])
  BY <1>3, <1>6 DEF CanAccept, MoveTo, DealTransitions, HasExpired
<1> QED BY <1>4, <1>5, <1>8, <1>9 DEF CanLand, IsKeptWaiting, held, done

(* A capture that is not for flagging can be booked at once, with three      *)
(* exceptions and no other: IsKeptWaiting.  Those of a first payment end     *)
(* with the sweep, which expires the deal and its intent, so that the        *)
(* capture is flagged; nobody ends the one of a top-up                       *)
(* (handle-payment-captured.use-case.ts).                                   *)
THEOREM CapturesAlwaysLand == Spec => []CapturesLand
<1>1. ASSUME IInv, AllDated, PaymentsArePositive, KeysSound, RowsShown PROVE CapturesLand
  <2>1. ASSUME NEW i \in Intents, IsActive(i), ~ IsDeadTopUp(i)
        PROVE  CanLand(i) \/ IsKeptWaiting(i)
    <3>1. intent[i].purpose \in {"INITIAL", "TOP_UP"}
      BY <1>1 DEF IInv, TypeOK, IntentRow
    <3> QED BY <1>1, <2>1, <3>1, TopUpLands, FirstPaymentLands
  <2> QED BY <2>1 DEF CapturesLand
<1>2. IInv /\ (AllDated /\ PaymentsArePositive) /\ KeysSound /\ RowsShown => CapturesLand
  BY <1>1
<1> QED
  BY <1>2, InductiveInvariant, ServedInvariant, KeysInvariant, ShownInvariant, PTL
==============================================================================
