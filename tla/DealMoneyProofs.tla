-------------------------- MODULE DealMoneyProofs --------------------------
(* Facts about the price split, about the rows that the methods of Deal     *)
(* produce and about what the three kinds of posting do to the balances of  *)
(* a deal, for every price, every policy, every balance and every amount.   *)
EXTENDS DealMoney, TLAPS

(* The arithmetic of rounding down to basis points, without the division.   *)
LEMMA RoundingDown ==
    ASSUME NEW amount \in Nat, NEW product \in Int, NEW q \in Int,
           0 <= product, product <= 10000 * amount,
           10000 * q <= product, product < 10000 * q + 10000
    PROVE  q \in 0 .. amount
BY SMT

(* Rounding down a share of an amount gives no more than the amount.        *)
LEMMA ShareBounds ==
    ASSUME NEW amount \in Nat, NEW points \in BasisPoints
    PROVE  (amount * points) \div FullBasisPoints \in 0 .. amount
<1> DEFINE product == amount * points
           q       == product \div 10000
<1>1. points \in 0 .. 10000
  BY DEF BasisPoints, FullBasisPoints
<1>2. product \in Int /\ 0 <= product /\ product <= 10000 * amount
  BY <1>1, SMTT(30)
<1> HIDE DEF product
<1>3. q \in Int /\ 10000 * q <= product /\ product < 10000 * q + 10000
  BY <1>2, SMTT(30)
<1> HIDE DEF q
<1>4. q \in 0 .. amount
  BY <1>2, <1>3, RoundingDown
<1> QED BY <1>4 DEF q, product, FullBasisPoints

(* RN-042 and RN-110: the split of a price loses nothing.  What the buyer    *)
(* pays is what the creator receives plus what the platform keeps, and       *)
(* nobody's part is negative (splitFees).                                    *)
THEOREM SplitLosesNothing ==
    ASSUME NEW price \in Nat, NEW points \in BasisPoints
    PROVE  LET split == SplitFees(price, points)
           IN  /\ split.amount \in Nat /\ split.platformFee \in Nat /\ split.creatorNet \in Nat
               /\ split.amount = split.creatorNet + split.platformFee
               /\ split.amount >= price
               /\ split.creatorNet <= price
<1> DEFINE second == (price * points) \div FullBasisPoints
           first  == (price * (FullBasisPoints - points)) \div FullBasisPoints
<1>1. second \in 0 .. price
  BY ShareBounds
<1>2. first \in 0 .. price
  <2>1. FullBasisPoints - points \in BasisPoints
    BY DEF BasisPoints, FullBasisPoints
  <2> QED BY <2>1, ShareBounds
<1> HIDE DEF first, second
<1>3. SplitFees(price, points) =
        [amount |-> price + second, platformFee |-> second + second,
         creatorNet |-> first + (price - first - second)]
  BY Zenon DEF SplitFees, Allocate, first, second
<1> QED BY <1>1, <1>2, <1>3

-----------------------------------------------------------------------------
(* A row that T1 or T5 writes adds up: what the buyer pays is the creator's  *)
(* net and the platform's fee (RN-042, Deal.open and acceptCounterOffer).    *)
AddsUp(d) == d.amount = d.creatorNet + d.platformFee

LEMMA OpenedDealType ==
    ASSUME NEW kind \in OfferKind, NEW price \in Nat, NEW sla \in Nat
    PROVE  OpenedDeal(kind, price, sla) \in DealRow /\ AddsUp(OpenedDeal(kind, price, sla))
<1> DEFINE split == SplitFees(price, FeeBasisPoints)
<1>1. /\ split.amount \in Nat /\ split.platformFee \in Nat /\ split.creatorNet \in Nat
      /\ split.amount = split.creatorNet + split.platformFee
  BY SplitLosesNothing, PolicyAssumption
<1> HIDE DEF split
<1>2. OpenedDeal(kind, price, sla) =
        [kind |-> kind, status |-> "PROPOSED", escrow |-> "PENDING",
         price |-> price, sla |-> sla, amount |-> split.amount,
         platformFee |-> split.platformFee, creatorNet |-> split.creatorNet,
         revisionCount |-> 0, expiresIn |-> ProposalWindow,
         lateIn |-> NoDeadline, approvalIn |-> NoDeadline]
  BY Zenon DEF OpenedDeal, split
<1> QED
  BY <1>1, <1>2, PolicyAssumption
  DEF DealRow, DealStatus, EscrowStatus, Deadline, NoDeadline, AddsUp

LEMMA RenegotiatedDealType ==
    ASSUME NEW d \in DealRow, NEW price \in Nat, NEW sla \in Nat
    PROVE  /\ RenegotiatedDeal(d, price, sla) \in DealRow
           /\ AddsUp(RenegotiatedDeal(d, price, sla))
<1> DEFINE split == SplitFees(price, FeeBasisPoints)
<1>1. /\ split.amount \in Nat /\ split.platformFee \in Nat /\ split.creatorNet \in Nat
      /\ split.amount = split.creatorNet + split.platformFee
  BY SplitLosesNothing, PolicyAssumption
<1> HIDE DEF split
<1>2. RenegotiatedDeal(d, price, sla) =
        [d EXCEPT !.status = "PROPOSED", !.price = price, !.sla = sla,
                  !.amount = split.amount, !.platformFee = split.platformFee,
                  !.creatorNet = split.creatorNet, !.expiresIn = ProposalWindow]
  BY Zenon DEF RenegotiatedDeal, split
<1> QED
  BY <1>1, <1>2, PolicyAssumption DEF DealRow, DealStatus, Deadline, AddsUp

(* No other method touches the terms or the amounts, and every one of them   *)
(* leaves a row that the table accepts.                                     *)
SameTerms(d, e) ==
    /\ e.kind = d.kind /\ e.price = d.price /\ e.sla = d.sla
    /\ e.amount = d.amount /\ e.platformFee = d.platformFee /\ e.creatorNet = d.creatorNet

LEMMA OneTickLessType ==
    ASSUME NEW deadline \in Deadline
    PROVE  OneTickLess(deadline) \in Deadline
BY DEF Deadline, NoDeadline, OneTickLess

LEMMA MethodsKeepTerms ==
    ASSUME NEW d \in DealRow
    PROVE  /\ HeldDeal(d) \in DealRow           /\ SameTerms(d, HeldDeal(d))
           /\ AcceptedDeal(d) \in DealRow       /\ SameTerms(d, AcceptedDeal(d))
           /\ DeclinedDeal(d) \in DealRow       /\ SameTerms(d, DeclinedDeal(d))
           /\ CounterOfferedDeal(d) \in DealRow /\ SameTerms(d, CounterOfferedDeal(d))
           /\ DeliveredDeal(d) \in DealRow      /\ SameTerms(d, DeliveredDeal(d))
           /\ ApprovedDeal(d) \in DealRow       /\ SameTerms(d, ApprovedDeal(d))
           /\ SettledDeal(d) \in DealRow        /\ SameTerms(d, SettledDeal(d))
           /\ ExpiredDeal(d) \in DealRow        /\ SameTerms(d, ExpiredDeal(d))
           /\ RefundedDeal(d) \in DealRow       /\ SameTerms(d, RefundedDeal(d))
           /\ EscrowReturnedDeal(d) \in DealRow /\ SameTerms(d, EscrowReturnedDeal(d))
           /\ PaymentFailedDeal(d) \in DealRow  /\ SameTerms(d, PaymentFailedDeal(d))
           /\ TickedDeal(d) \in DealRow         /\ SameTerms(d, TickedDeal(d))
           /\ CanReject(d) => RejectedDeal(d) \in DealRow /\ SameTerms(d, RejectedDeal(d))
<1> USE DEF DealRow, DealStatus, EscrowStatus, SameTerms
<1>1. HeldDeal(d) \in DealRow /\ SameTerms(d, HeldDeal(d))
  BY DEF HeldDeal
<1>0. d.sla + LateGrace \in Deadline
  <2>1. d.sla \in Nat
    BY DEF DealRow
  <2> QED BY <2>1, PolicyAssumption DEF Deadline
<1>2. AcceptedDeal(d) \in DealRow /\ SameTerms(d, AcceptedDeal(d))
  BY <1>0 DEF AcceptedDeal
<1>3. DeclinedDeal(d) \in DealRow /\ SameTerms(d, DeclinedDeal(d))
  BY DEF DeclinedDeal, Deadline
<1>4. CounterOfferedDeal(d) \in DealRow /\ SameTerms(d, CounterOfferedDeal(d))
  BY PolicyAssumption DEF CounterOfferedDeal, Deadline
<1>5. DeliveredDeal(d) \in DealRow /\ SameTerms(d, DeliveredDeal(d))
  BY PolicyAssumption DEF DeliveredDeal, Deadline
<1>6. ApprovedDeal(d) \in DealRow /\ SameTerms(d, ApprovedDeal(d))
  BY DEF ApprovedDeal
<1>7. SettledDeal(d) \in DealRow /\ SameTerms(d, SettledDeal(d))
  BY DEF SettledDeal
<1>8. ExpiredDeal(d) \in DealRow /\ SameTerms(d, ExpiredDeal(d))
  BY DEF ExpiredDeal
<1>9. RefundedDeal(d) \in DealRow /\ SameTerms(d, RefundedDeal(d))
  BY DEF RefundedDeal
<1>10. EscrowReturnedDeal(d) \in DealRow /\ SameTerms(d, EscrowReturnedDeal(d))
  BY DEF EscrowReturnedDeal
<1>11. PaymentFailedDeal(d) \in DealRow /\ SameTerms(d, PaymentFailedDeal(d))
  BY DEF PaymentFailedDeal
<1>12. TickedDeal(d) \in DealRow /\ SameTerms(d, TickedDeal(d))
  BY OneTickLessType DEF TickedDeal
<1>13. CanReject(d) => RejectedDeal(d) \in DealRow /\ SameTerms(d, RejectedDeal(d))
  <2>1. d.revisionCount < RevisionsIncluded => d.revisionCount + 1 \in 0 .. RevisionsIncluded
    BY PolicyAssumption
  <2>2. NoDeadline \in Deadline
    BY DEF Deadline
  <2> QED BY <1>0, <2>1, <2>2 DEF CanReject, RejectedDeal
<1> HIDE DEF DealRow, SameTerms
<1> QED
  BY <1>1, <1>2, <1>3, <1>4, <1>5, <1>6, <1>7, <1>8, <1>9, <1>10, <1>11, <1>12, <1>13

-----------------------------------------------------------------------------
(* E1: what the provider owes is what the deal is owed (handlePaymentCaptured). *)
LEMMA FundedFields ==
    ASSUME NEW money \in Balance, NEW amount \in Int
    PROVE  /\ Funded(money, amount) \in Balance
           /\ Funded(money, amount).clearing = money.clearing + amount
           /\ Funded(money, amount).escrow = money.escrow + amount
           /\ Funded(money, amount).refunds = money.refunds
           /\ Funded(money, amount).creator = money.creator
           /\ Funded(money, amount).fees = money.fees
<1> DEFINE clearing == money.clearing + amount
           escrow   == money.escrow + amount
<1>1. clearing \in Int /\ escrow \in Int
  BY DEF Balance
<1>2. Funded(money, amount) = [money EXCEPT !.clearing = clearing, !.escrow = escrow]
  BY Zenon DEF Funded
<1> HIDE DEF clearing, escrow
<1>3. /\ Funded(money, amount) \in Balance
      /\ Funded(money, amount).clearing = clearing /\ Funded(money, amount).escrow = escrow
      /\ Funded(money, amount).refunds = money.refunds
      /\ Funded(money, amount).creator = money.creator
      /\ Funded(money, amount).fees = money.fees
  BY <1>1, <1>2 DEF Balance
<1> QED BY <1>3 DEF clearing, escrow

(* E3: the buyer is owed what the escrow no longer holds (escrow-refund.ts). *)
LEMMA ReturnedFields ==
    ASSUME NEW money \in Balance, NEW amount \in Int
    PROVE  /\ ReturnedToBuyer(money, amount) \in Balance
           /\ ReturnedToBuyer(money, amount).clearing = money.clearing
           /\ ReturnedToBuyer(money, amount).escrow = money.escrow - amount
           /\ ReturnedToBuyer(money, amount).refunds = money.refunds + amount
           /\ ReturnedToBuyer(money, amount).creator = money.creator
           /\ ReturnedToBuyer(money, amount).fees = money.fees
<1> DEFINE escrow  == money.escrow - amount
           refunds == money.refunds + amount
<1>1. escrow \in Int /\ refunds \in Int
  BY DEF Balance
<1>2. ReturnedToBuyer(money, amount) = [money EXCEPT !.escrow = escrow, !.refunds = refunds]
  BY Zenon DEF ReturnedToBuyer
<1> HIDE DEF escrow, refunds
<1>3. /\ ReturnedToBuyer(money, amount) \in Balance
      /\ ReturnedToBuyer(money, amount).clearing = money.clearing
      /\ ReturnedToBuyer(money, amount).escrow = escrow
      /\ ReturnedToBuyer(money, amount).refunds = refunds
      /\ ReturnedToBuyer(money, amount).creator = money.creator
      /\ ReturnedToBuyer(money, amount).fees = money.fees
  BY <1>1, <1>2 DEF Balance
<1> QED BY <1>3 DEF escrow, refunds

(* E2: the creator is credited the net and the platform the fee              *)
(* (escrow-release.ts releaseEntries).                                       *)
LEMMA ReleasedFields ==
    ASSUME NEW money \in Balance, NEW row \in DealRow
    PROVE  /\ Released(money, row) \in Balance
           /\ Released(money, row).clearing = money.clearing
           /\ Released(money, row).escrow = money.escrow - row.amount
           /\ Released(money, row).refunds = money.refunds
           /\ Released(money, row).creator = money.creator + row.creatorNet
           /\ Released(money, row).fees = money.fees + row.platformFee
<1> DEFINE escrow  == money.escrow - row.amount
           creator == money.creator + row.price - CreatorFee(row)
           fees    == money.fees + row.platformFee
<1>1. row.amount \in Int /\ row.platformFee \in Int /\ row.creatorNet \in Int /\ row.price \in Int
  BY DEF DealRow
<1>2. money.escrow \in Int /\ money.creator \in Int /\ money.fees \in Int
  BY DEF Balance
<1>3. escrow \in Int /\ creator \in Int /\ fees \in Int /\ creator = money.creator + row.creatorNet
  BY <1>1, <1>2 DEF CreatorFee
<1>4. Released(money, row) = [money EXCEPT !.escrow = escrow, !.creator = creator, !.fees = fees]
  BY Zenon DEF Released
<1> HIDE DEF escrow, creator, fees
<1>5. /\ Released(money, row) \in Balance
      /\ Released(money, row).clearing = money.clearing
      /\ Released(money, row).escrow = escrow
      /\ Released(money, row).refunds = money.refunds
      /\ Released(money, row).creator = creator
      /\ Released(money, row).fees = fees
  BY <1>3, <1>4 DEF Balance
<1> QED BY <1>3, <1>5 DEF escrow, fees

(* Closing a deal (closeEscrow) keeps its terms and its commercial status;   *)
(* its escrow fails if it was pending and goes back if it was held.          *)
LEMMA ClosedRowFields ==
    ASSUME NEW row \in DealRow
    PROVE  /\ ClosedRow(row) \in DealRow /\ SameTerms(row, ClosedRow(row))
           /\ ClosedRow(row).status = row.status
           /\ row.escrow = "PENDING" => ClosedRow(row).escrow = "FAILED"
           /\ row.escrow = "HELD" => ClosedRow(row).escrow = "REFUNDED"
           /\ row.escrow \notin {"PENDING", "HELD"} => ClosedRow(row).escrow = row.escrow
<1>1. PaymentFailedDeal(row) \in DealRow /\ SameTerms(row, PaymentFailedDeal(row))
  BY MethodsKeepTerms
<1>2. EscrowReturnedDeal(row) \in DealRow /\ SameTerms(row, EscrowReturnedDeal(row))
  BY MethodsKeepTerms
<1>3. PaymentFailedDeal(row).status = row.status /\ PaymentFailedDeal(row).escrow = "FAILED"
  BY DEF PaymentFailedDeal, DealRow
<1>4. EscrowReturnedDeal(row).status = row.status /\ EscrowReturnedDeal(row).escrow = "REFUNDED"
  BY DEF EscrowReturnedDeal, DealRow
<1>5. SameTerms(row, row)
  BY DEF SameTerms
<1>6. row.escrow = "PENDING" \/ row.escrow = "HELD" \/ row.escrow \notin {"PENDING", "HELD"}
  OBVIOUS
<1> DEFINE result == ClosedRow(row)
<1>7. /\ row.escrow = "PENDING" => result = PaymentFailedDeal(row)
      /\ row.escrow = "HELD" => result = EscrowReturnedDeal(row)
      /\ row.escrow \notin {"PENDING", "HELD"} => result = row
  BY Zenon DEF ClosedRow
<1> HIDE DEF result
<1>8. /\ result \in DealRow /\ SameTerms(row, result) /\ result.status = row.status
      /\ row.escrow = "PENDING" => result.escrow = "FAILED"
      /\ row.escrow = "HELD" => result.escrow = "REFUNDED"
      /\ row.escrow \notin {"PENDING", "HELD"} => result.escrow = row.escrow
  BY <1>1, <1>2, <1>3, <1>4, <1>5, <1>6, <1>7
<1> QED BY <1>8 DEF result
=============================================================================
