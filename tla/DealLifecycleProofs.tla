------------------------ MODULE DealLifecycleProofs ------------------------
(***************************************************************************)
(* The safety of DealLifecycle for any number of deals, payments and       *)
(* counter-offers, any prices and any policy.                              *)
(*                                                                         *)
(* The inductive invariant says of every deal that its row and its ledger  *)
(* fit together (Sound), of every payment intent that it can only be       *)
(* captured where its money belongs (IntentsSound), and of every           *)
(* counter-offer that it waits at the deal it was made for (OffersSound).  *)
(***************************************************************************)
EXTENDS DealLifecycle, DealMoneyProofs

(* The ledger of a deal against its row.  What came in is held, went back    *)
(* or was handed out; what is held is what the deal is worth.                *)
Books(row, money) ==
    /\ AddsUp(row)
    /\ money.clearing = money.escrow + money.refunds + money.creator + money.fees
    /\ money.escrow = IF row.escrow = "HELD" THEN row.amount ELSE 0
    /\ row.escrow = "RELEASED" => money.creator = row.creatorNet /\ money.fees = row.platformFee
    /\ row.escrow # "RELEASED" => money.creator = 0 /\ money.fees = 0

Sound(row, money) ==
    /\ row \in DealRow
    /\ money \in Balance
    /\ SidesAgree(row)
    /\ Books(row, money)

DealsSound == \A d \in Deals : Sound(deal[d], ledger[d])

IntentsSound ==
    /\ \A i \in Intents : intent[i].status # "NONE" => intent[i].deal \in Deals
    /\ \A i \in Intents : intent[i].purpose = "TOP_UP" =>
           /\ intent[i].offer \in CounterOffers
           /\ offer[intent[i].offer].status # "NONE"
           /\ offer[intent[i].offer].deal = intent[i].deal
    /\ \A i, j \in Intents :
           IsActive(i) /\ IsActive(j) /\ intent[i].deal = intent[j].deal => i = j
    /\ InitialIntentsCanStillLand

OffersSound ==
    /\ \A o \in CounterOffers : offer[o].status = "PENDING" =>
           /\ offer[o].deal \in Deals
           /\ deal[offer[o].deal].status \in {"COUNTER_OFFERED", "DECLINED", "EXPIRED"}
    /\ \A o, p \in CounterOffers :
           /\ offer[o].status = "PENDING" /\ offer[p].status = "PENDING"
           /\ offer[o].deal = offer[p].deal
           => o = p
    /\ \A d \in Deals : deal[d].status = "COUNTER_OFFERED" =>
           \E o \in PendingOf(d) :
               <<offer[o].price, offer[o].sla>> # <<deal[d].price, deal[d].sla>>

IInv == TypeOK /\ DealsSound /\ IntentsSound /\ OffersSound

-----------------------------------------------------------------------------
(* One deal and its ledger.  Each lemma is what one method of Deal, with the *)
(* posting that goes with it, does to a row that fits its ledger.           *)

(* T1 on an unused id. *)
LEMMA OpenedIsSound ==
    ASSUME NEW row, NEW money, Sound(row, money), row.status = "NONE",
           NEW kind \in OfferKind, NEW price \in Nat, NEW sla \in Nat
    PROVE  Sound(OpenedDeal(kind, price, sla), money)
<1> DEFINE opened == OpenedDeal(kind, price, sla)
<1>1. opened \in DealRow /\ AddsUp(opened)
  BY OpenedDealType
<1>2. opened.status = "PROPOSED" /\ opened.escrow = "PENDING"
  BY Zenon DEF OpenedDeal
<1>3. row.escrow = "PENDING"
  BY DEF Sound, SidesAgree, DealRow, EscrowStatus
<1> HIDE DEF opened
<1>4. Sound(opened, money)
  BY <1>1, <1>2, <1>3 DEF Sound, SidesAgree, Books
<1> QED BY <1>4 DEF opened

(* A method that keeps the terms and the escrow status, and moves a held     *)
(* deal within the states of a held deal, needs no posting.                 *)
HeldStatus == {"PROPOSED", "COUNTER_OFFERED", "ACCEPTED", "IN_PROGRESS", "DELIVERED"}

LEMMA MovedIsSound ==
    ASSUME NEW row, NEW money, Sound(row, money),
           NEW moved \in DealRow, SameTerms(row, moved), moved.escrow = row.escrow,
           \/ moved.status = row.status
           \/ row.escrow = "HELD" /\ moved.status \in HeldStatus
    PROVE  Sound(moved, money)
BY DEF Sound, SidesAgree, Books, AddsUp, SameTerms, HeldStatus, DealRow

(* E1 and its posting. *)
LEMMA HeldIsSound ==
    ASSUME NEW row, NEW money, Sound(row, money), CanHold(row), row.status = "PROPOSED"
    PROVE  Sound(HeldDeal(row), Funded(money, row.amount))
<1>1. row \in DealRow /\ money \in Balance
  BY DEF Sound
<1>2. HeldDeal(row) \in DealRow /\ SameTerms(row, HeldDeal(row))
  BY <1>1, MethodsKeepTerms
<1>3. HeldDeal(row).escrow = "HELD" /\ HeldDeal(row).status = "PROPOSED"
  BY <1>1 DEF HeldDeal, DealRow
<1>4. row.escrow = "PENDING"
  BY <1>1 DEF CanHold, MoveEscrowTo, EscrowTransitions
<1>5. row.amount \in Nat
  BY <1>1 DEF DealRow
<1> DEFINE held   == HeldDeal(row)
           funded == Funded(money, row.amount)
<1>6. /\ funded \in Balance
      /\ funded.clearing = money.clearing + row.amount
      /\ funded.escrow = money.escrow + row.amount
      /\ funded.refunds = money.refunds
      /\ funded.creator = money.creator /\ funded.fees = money.fees
  BY <1>1, <1>5, FundedFields
<1> HIDE DEF held, funded
<1>7. Books(held, funded)
  BY <1>1, <1>2, <1>3, <1>4, <1>5, <1>6 DEF Sound, Books, AddsUp, SameTerms, Balance, held
<1> QED
  BY <1>2, <1>3, <1>6, <1>7 DEF Sound, SidesAgree, held, funded

(* E3 and E4: closeEscrow on a deal that was just closed. *)
LEMMA ClosedIsSound ==
    ASSUME NEW row, NEW money, Sound(row, money),
           NEW closed \in DealRow, SameTerms(row, closed), closed.escrow = row.escrow,
           closed.status \in {"DECLINED", "EXPIRED", "REFUNDED"},
           \/ row.escrow = "HELD"
           \/ row.escrow = "PENDING" /\ closed.status # "REFUNDED"
    PROVE  Sound(ClosedRow(closed),
                 IF closed.escrow = "HELD" THEN ReturnedToBuyer(money, closed.amount) ELSE money)
<1>0. money \in Balance /\ row \in DealRow
  BY DEF Sound
<1>1. CASE row.escrow = "HELD"
  <2>1. ClosedRow(closed) = EscrowReturnedDeal(closed)
    BY <1>1 DEF ClosedRow
  <2>2. EscrowReturnedDeal(closed) \in DealRow /\ SameTerms(closed, EscrowReturnedDeal(closed))
    BY MethodsKeepTerms
  <2>3. /\ EscrowReturnedDeal(closed).escrow = "REFUNDED"
        /\ EscrowReturnedDeal(closed).status = closed.status
    BY DEF EscrowReturnedDeal, DealRow
  <2>4. closed.amount \in Nat
    BY DEF DealRow
  <2> DEFINE back == EscrowReturnedDeal(closed)
             paid == ReturnedToBuyer(money, closed.amount)
  <2>5. /\ paid \in Balance
        /\ paid.clearing = money.clearing
        /\ paid.escrow = money.escrow - closed.amount
        /\ paid.refunds = money.refunds + closed.amount
        /\ paid.creator = money.creator /\ paid.fees = money.fees
    BY <1>0, <2>4, ReturnedFields
  <2> HIDE DEF back, paid
  <2>6. Books(back, paid)
    BY <1>0, <1>1, <2>2, <2>3, <2>4, <2>5 DEF Sound, Books, AddsUp, SameTerms, Balance, back
  <2> QED
    BY <1>1, <2>1, <2>2, <2>3, <2>5, <2>6 DEF Sound, SidesAgree, back, paid
<1>2. CASE row.escrow = "PENDING"
  <2>1. ClosedRow(closed) = PaymentFailedDeal(closed)
    BY <1>2 DEF ClosedRow
  <2>2. PaymentFailedDeal(closed) \in DealRow /\ SameTerms(closed, PaymentFailedDeal(closed))
    BY MethodsKeepTerms
  <2>3. /\ PaymentFailedDeal(closed).escrow = "FAILED"
        /\ PaymentFailedDeal(closed).status = closed.status
    BY DEF PaymentFailedDeal, DealRow
  <2>4. Books(PaymentFailedDeal(closed), money)
    BY <1>0, <1>2, <2>2, <2>3 DEF Sound, Books, AddsUp, SameTerms
  <2> QED
    BY <1>0, <1>2, <2>1, <2>2, <2>3, <2>4 DEF Sound, SidesAgree
<1> QED BY <1>1, <1>2

(* T12 and E2, on the row that T9 or T10 just approved. *)
LEMMA ReleasedIsSound ==
    ASSUME NEW row, NEW money, Sound(row, money), row.escrow = "HELD"
    PROVE  Sound(SettledDeal(ApprovedDeal(row)), Released(money, ApprovedDeal(row)))
<1> DEFINE approved == ApprovedDeal(row)
           settled  == SettledDeal(approved)
           paid     == Released(money, approved)
<1>1. row \in DealRow /\ money \in Balance
  BY DEF Sound
<1>2. approved \in DealRow /\ SameTerms(row, approved)
  BY <1>1, MethodsKeepTerms
<1>3. settled \in DealRow /\ SameTerms(approved, settled)
  BY <1>2, MethodsKeepTerms
<1>4. settled.status = "PAID" /\ settled.escrow = "RELEASED"
  BY <1>2 DEF SettledDeal, DealRow
<1>5. /\ paid \in Balance
      /\ paid.clearing = money.clearing
      /\ paid.escrow = money.escrow - approved.amount
      /\ paid.refunds = money.refunds
      /\ paid.creator = money.creator + approved.creatorNet
      /\ paid.fees = money.fees + approved.platformFee
  BY <1>1, <1>2, ReleasedFields
<1>6. row.amount \in Int /\ row.creatorNet \in Int /\ row.platformFee \in Int
  BY <1>1 DEF DealRow
<1> HIDE DEF approved, settled, paid
<1>7. Books(settled, paid)
  BY <1>1, <1>2, <1>3, <1>4, <1>5, <1>6 DEF Sound, Books, AddsUp, SameTerms, Balance
<1>8. Sound(settled, paid)
  BY <1>3, <1>4, <1>5, <1>7 DEF Sound, SidesAgree
<1> QED BY <1>8 DEF approved, settled, paid

(* T5: the row takes the new terms and the ledger the difference, whichever  *)
(* way it goes.                                                             *)
LEMMA RenegotiatedIsSound ==
    ASSUME NEW row, NEW money, Sound(row, money), row.escrow = "HELD",
           NEW price \in Nat, NEW sla \in Nat, NEW settled \in Balance,
           LET settlement == SettlementFor(row.amount, price, FeeBasisPoints)
           IN  /\ settled.clearing - settled.refunds = money.clearing - money.refunds + settlement
               /\ settled.escrow = money.escrow + settlement
               /\ settled.creator = money.creator /\ settled.fees = money.fees
    PROVE  Sound(RenegotiatedDeal(row, price, sla), settled)
<1> DEFINE split == SplitFees(price, FeeBasisPoints)
           new   == RenegotiatedDeal(row, price, sla)
<1>1. row \in DealRow /\ money \in Balance
  BY DEF Sound
<1>2. new \in DealRow /\ AddsUp(new)
  BY <1>1, RenegotiatedDealType
<1>3. split.amount \in Int
  BY SplitLosesNothing, PolicyAssumption
<1>4. new = [row EXCEPT !.status = "PROPOSED", !.price = price, !.sla = sla,
                        !.amount = split.amount, !.platformFee = split.platformFee,
                        !.creatorNet = split.creatorNet, !.expiresIn = ProposalWindow]
  BY Zenon DEF RenegotiatedDeal
<1>5. /\ settled.clearing - settled.refunds = money.clearing - money.refunds + (split.amount - row.amount)
      /\ settled.escrow = money.escrow + (split.amount - row.amount)
      /\ settled.creator = money.creator /\ settled.fees = money.fees
  BY Zenon DEF SettlementFor
<1> HIDE DEF split, new
<1>6. new.status = "PROPOSED" /\ new.escrow = "HELD" /\ new.amount = split.amount
  BY <1>1, <1>4 DEF DealRow
<1>7. row.amount \in Int
  BY <1>1 DEF DealRow
<1>8. Books(new, settled)
  BY <1>1, <1>2, <1>3, <1>5, <1>6, <1>7 DEF Sound, Books, AddsUp, Balance
<1>9. Sound(new, settled)
  BY <1>2, <1>6, <1>8 DEF Sound, SidesAgree
<1> QED BY <1>9 DEF new

-----------------------------------------------------------------------------
(* From one row to the table. *)

LEMMA DealAndLedgerStep ==
    ASSUME DealsSound, deal \in [Deals -> DealRow], ledger \in [Deals -> Balance],
           NEW d \in Deals, NEW row, NEW money, Sound(row, money),
           deal' = [deal EXCEPT ![d] = row], ledger' = [ledger EXCEPT ![d] = money]
    PROVE  DealsSound' /\ deal' \in [Deals -> DealRow] /\ ledger' \in [Deals -> Balance]
BY DEF DealsSound, Sound

LEMMA DealStep ==
    ASSUME DealsSound, deal \in [Deals -> DealRow], ledger \in [Deals -> Balance],
           NEW d \in Deals, NEW row, Sound(row, ledger[d]),
           deal' = [deal EXCEPT ![d] = row], ledger' = ledger
    PROVE  DealsSound' /\ deal' \in [Deals -> DealRow] /\ ledger' \in [Deals -> Balance]
BY DEF DealsSound, Sound

(* A step on one deal keeps the intents sound when no initial payment can be *)
(* in flight for it, or when what such a payment would pay stays as it is.   *)
LEMMA IntentsKept ==
    ASSUME IntentsSound, deal \in [Deals -> DealRow],
           NEW d \in Deals, NEW row, deal' = [deal EXCEPT ![d] = row],
           \/ <<deal[d].status, deal[d].escrow>> # <<"PROPOSED", "PENDING">>
           \/ /\ row.status = "PROPOSED" /\ row.escrow = "PENDING"
              /\ row.amount = deal[d].amount,
           intent' = intent,
           \A o \in CounterOffers : offer[o].status # "NONE" =>
               offer'[o].status # "NONE" /\ offer'[o].deal = offer[o].deal
    PROVE  IntentsSound'
BY DEF IntentsSound, InitialIntentsCanStillLand, IsActive, ActiveStatus

(* The intents of a deal that closes unpaid are expired with it. *)
LEMMA IntentsExpired ==
    ASSUME TypeOK, IntentsSound,
           NEW d \in Deals, NEW row, deal' = [deal EXCEPT ![d] = row],
           ExpireIntentsIfUnpaid(d), offer' = offer
    PROVE  IntentsSound' /\ intent' \in [Intents -> IntentRow]
<1>1. CASE deal[d].escrow = "PENDING"
  <2>1. \A i \in Intents :
           intent'[i] = IF intent[i].deal = d /\ IsActive(i)
                        THEN [intent[i] EXCEPT !.status = "EXPIRED"] ELSE intent[i]
    BY <1>1 DEF ExpireIntentsIfUnpaid, ActiveOf
  <2>2. intent \in [Intents -> IntentRow]
    BY DEF TypeOK
  <2>3. \A i \in Intents :
           /\ intent'[i] \in IntentRow
           /\ intent'[i].deal = intent[i].deal /\ intent'[i].purpose = intent[i].purpose
           /\ intent'[i].offer = intent[i].offer /\ intent'[i].amount = intent[i].amount
           /\ IsActive(i)' => IsActive(i) /\ intent[i].deal # d
           /\ intent[i].status = "NONE" => intent'[i].status = "NONE"
           /\ intent'[i].status # "NONE" => intent[i].status # "NONE"
    BY <2>1, <2>2 DEF IntentRow, IntentStatus, IsActive, ActiveStatus
  <2>4. intent' = [i \in Intents |-> intent'[i]]
    BY <1>1 DEF ExpireIntentsIfUnpaid
  <2>5. intent' \in [Intents -> IntentRow]
    BY <2>3, <2>4
  <2>6. InitialIntentsCanStillLand'
    BY <2>3 DEF TypeOK, IntentsSound, InitialIntentsCanStillLand, IsActive, ActiveStatus
  <2> QED
    BY <2>3, <2>5, <2>6 DEF IntentsSound
<1>2. CASE deal[d].escrow # "PENDING"
  <2>1. intent' = intent
    BY <1>2 DEF ExpireIntentsIfUnpaid
  <2> QED
    BY <1>2, <2>1, IntentsKept DEF TypeOK
<1> QED BY <1>1, <1>2

(* A step that touches no counter-offer keeps them sound when the deal keeps *)
(* its terms, does not come under counter-offer, and leaves that state only  *)
(* to close.                                                                *)
LEMMA OffersKept ==
    ASSUME OffersSound, deal \in [Deals -> DealRow],
           NEW d \in Deals, NEW row, deal' = [deal EXCEPT ![d] = row], offer' = offer,
           \/ /\ row.status = deal[d].status
              /\ row.price = deal[d].price /\ row.sla = deal[d].sla
           \/ row.status \in {"DECLINED", "EXPIRED"}
           \/ /\ deal[d].status \notin {"COUNTER_OFFERED", "DECLINED", "EXPIRED"}
              /\ row.status # "COUNTER_OFFERED"
    PROVE  OffersSound'
BY DEF OffersSound, PendingOf

-----------------------------------------------------------------------------
(* Every action keeps the inductive invariant. *)

LEMMA CreateDealKeeps ==
    ASSUME IInv, NEW d \in Deals, NEW kind \in OfferKind, NEW price \in Prices, NEW sla \in Slas,
           CreateDeal(d, kind, price, sla)
    PROVE  IInv'
<1> DEFINE row == OpenedDeal(kind, price, sla)
<1> USE DEF IInv
<1>1. Sound(deal[d], ledger[d]) /\ deal[d].status = "NONE"
  BY DEF DealsSound, CreateDeal
<1>2. Sound(row, ledger[d])
  BY <1>1, OpenedIsSound, PolicyAssumption
<1>3. row.status = "PROPOSED"
  BY Zenon DEF OpenedDeal
<1>4. /\ deal' = [deal EXCEPT ![d] = row]
      /\ UNCHANGED <<delivery, dispute, offer, intent, sent, events, flagged, ledger,
                     posted, grants>>
  BY DEF CreateDeal, paymentVars, moneyVars
<1> HIDE DEF row
<1>5. DealsSound' /\ deal' \in [Deals -> DealRow]
  BY <1>2, <1>4, DealStep DEF TypeOK
<1>6. IntentsSound'
  BY <1>1, <1>4, IntentsKept DEF TypeOK
<1>7. OffersSound'
  BY <1>1, <1>3, <1>4, OffersKept DEF TypeOK
<1>8. slotsTaken' \in 0 .. WindowSlots
  BY IdsAssumption DEF CreateDeal, TypeOK
<1>9. TypeOK'
  BY <1>4, <1>5, <1>8 DEF TypeOK, PostingKind
<1> QED BY <1>5, <1>6, <1>7, <1>9

(* T2, T8 and T11 move a held deal along and touch no money. *)
LEMMA MoveHeldDeal ==
    ASSUME IInv, NEW d \in Deals, NEW row \in DealRow, SameTerms(deal[d], row),
           row.escrow = deal[d].escrow, row.status \in {"ACCEPTED", "IN_PROGRESS", "DELIVERED"},
           deal[d].escrow = "HELD", deal[d].status # "COUNTER_OFFERED",
           deal' = [deal EXCEPT ![d] = row],
           delivery' \in [Deals -> [version : Nat,
                                    answer : {"none", "waiting", "accepted", "rejected"}]],
           UNCHANGED <<dispute, offer, paymentVars, moneyVars, slotsTaken, grants>>
    PROVE  IInv'
<1> USE DEF IInv
<1>1. Sound(deal[d], ledger[d]) /\ deal[d] \in DealRow
  BY DEF DealsSound, TypeOK
<1>2. UNCHANGED <<dispute, offer, intent, sent, events, flagged, ledger, posted,
                  slotsTaken, grants>>
  BY DEF paymentVars, moneyVars
<1>3. Sound(row, ledger[d])
  BY <1>1, MovedIsSound DEF HeldStatus
<1>4. DealsSound' /\ deal' \in [Deals -> DealRow]
  BY <1>2, <1>3, DealStep DEF TypeOK
<1>5. IntentsSound'
  BY <1>2, IntentsKept DEF TypeOK
<1>6. deal[d].status \in HeldStatus
  BY <1>1 DEF Sound, SidesAgree, HeldStatus
<1>7. OffersSound'
  BY <1>2, <1>6, OffersKept DEF TypeOK, HeldStatus
<1>8. TypeOK'
  BY <1>2, <1>4 DEF TypeOK
<1> QED BY <1>4, <1>5, <1>7, <1>8

LEMMA AcceptDealKeeps ==
    ASSUME IInv, NEW d \in Deals, AcceptDeal(d)
    PROVE  IInv'
<1> DEFINE row == AcceptedDeal(deal[d])
<1>1. deal[d] \in DealRow
  BY DEF IInv, TypeOK
<1>2. deal[d].status = "PROPOSED" /\ deal[d].escrow = "HELD"
  BY <1>1 DEF AcceptDeal, CanAccept, MoveTo, DealTransitions
<1>3. row \in DealRow /\ SameTerms(deal[d], row)
  BY <1>1, MethodsKeepTerms
<1>4. row.status = "ACCEPTED" /\ row.escrow = deal[d].escrow
  BY <1>1 DEF AcceptedDeal, DealRow
<1>5. /\ deal' = [deal EXCEPT ![d] = row]
      /\ UNCHANGED <<delivery, dispute, offer, paymentVars, moneyVars, slotsTaken, grants>>
  BY DEF AcceptDeal
<1> HIDE DEF row
<1>6. delivery' \in [Deals -> [version : Nat,
                               answer : {"none", "waiting", "accepted", "rejected"}]]
  BY <1>5 DEF IInv, TypeOK
<1> QED BY <1>2, <1>3, <1>4, <1>5, <1>6, MoveHeldDeal

LEMMA SubmitDeliveryKeeps ==
    ASSUME IInv, NEW d \in Deals, SubmitDelivery(d)
    PROVE  IInv'
<1> DEFINE row == DeliveredDeal(deal[d])
<1>1. deal[d] \in DealRow /\ SidesAgree(deal[d])
  BY DEF IInv, TypeOK, DealsSound, Sound
<1>2. deal[d].status \in {"ACCEPTED", "IN_PROGRESS"} /\ deal[d].escrow = "HELD"
  BY <1>1 DEF SubmitDelivery, CanDeliver, MoveTo, DealTransitions, SidesAgree, DealRow, EscrowStatus
<1>3. row \in DealRow /\ SameTerms(deal[d], row)
  BY <1>1, MethodsKeepTerms
<1>4. row.status = "DELIVERED" /\ row.escrow = deal[d].escrow
  BY <1>1 DEF DeliveredDeal, DealRow
<1>5. /\ deal' = [deal EXCEPT ![d] = row]
      /\ UNCHANGED <<dispute, offer, paymentVars, moneyVars, slotsTaken, grants>>
  BY DEF SubmitDelivery
<1> HIDE DEF row
<1>6. delivery' \in [Deals -> [version : Nat,
                               answer : {"none", "waiting", "accepted", "rejected"}]]
  BY DEF IInv, TypeOK, SubmitDelivery
<1> QED BY <1>2, <1>3, <1>4, <1>5, <1>6, MoveHeldDeal

LEMMA RejectDeliveryKeeps ==
    ASSUME IInv, NEW d \in Deals, RejectDelivery(d)
    PROVE  IInv'
<1> DEFINE row == RejectedDeal(deal[d])
<1>1. deal[d] \in DealRow /\ SidesAgree(deal[d])
  BY DEF IInv, TypeOK, DealsSound, Sound
<1>2. deal[d].status = "DELIVERED" /\ deal[d].escrow = "HELD"
  BY <1>1 DEF RejectDelivery, CanReject, MoveTo, DealTransitions, SidesAgree, DealRow, EscrowStatus
<1>3. row \in DealRow /\ SameTerms(deal[d], row)
  BY <1>1, MethodsKeepTerms DEF RejectDelivery
<1>4. row.status = "IN_PROGRESS" /\ row.escrow = deal[d].escrow
  BY <1>1 DEF RejectedDeal, DealRow
<1>5. /\ deal' = [deal EXCEPT ![d] = row]
      /\ UNCHANGED <<dispute, offer, paymentVars, moneyVars, slotsTaken, grants>>
  BY DEF RejectDelivery
<1> HIDE DEF row
<1>6. delivery' \in [Deals -> [version : Nat,
                               answer : {"none", "waiting", "accepted", "rejected"}]]
  BY DEF IInv, TypeOK, RejectDelivery
<1> QED BY <1>2, <1>3, <1>4, <1>5, <1>6, MoveHeldDeal

(* DECLINED by the creator and EXPIRED by the sweep close the deal, its      *)
(* payment and its slot in the same way.                                    *)
LEMMA CloseUndecided ==
    ASSUME IInv, NEW d \in Deals, NEW row \in DealRow, SameTerms(deal[d], row),
           row.escrow = deal[d].escrow, row.status \in {"DECLINED", "EXPIRED"},
           deal[d].status \in {"PROPOSED", "COUNTER_OFFERED"},
           CloseEscrow(d, row), ExpireIntentsIfUnpaid(d), ReleaseSlot(d),
           UNCHANGED <<delivery, dispute, offer, sent, events, flagged, grants>>
    PROVE  IInv'
<1> USE DEF IInv
<1> DEFINE money == IF row.escrow = "HELD" THEN ReturnedToBuyer(ledger[d], row.amount)
                                           ELSE ledger[d]
<1>1. Sound(deal[d], ledger[d]) /\ deal[d] \in DealRow /\ ledger[d] \in Balance
  BY DEF DealsSound, TypeOK
<1>2. deal[d].escrow \in {"HELD", "PENDING"}
  BY <1>1 DEF Sound, SidesAgree, DealRow, EscrowStatus
<1>3. Sound(ClosedRow(row), money)
  BY <1>1, <1>2, ClosedIsSound
<1>4. deal' = [deal EXCEPT ![d] = ClosedRow(row)]
  BY DEF CloseEscrow
<1>5. ledger' = [ledger EXCEPT ![d] = money]
  BY DEF CloseEscrow, TypeOK
<1> HIDE DEF money
<1>6. DealsSound' /\ deal' \in [Deals -> DealRow] /\ ledger' \in [Deals -> Balance]
  BY <1>3, <1>4, <1>5, DealAndLedgerStep DEF TypeOK
<1>7. IntentsSound' /\ intent' \in [Intents -> IntentRow]
  BY <1>4, IntentsExpired
<1>8. ClosedRow(row).status = row.status
  BY DEF ClosedRow, PaymentFailedDeal, EscrowReturnedDeal, DealRow
<1>9. OffersSound'
  BY <1>4, <1>8, OffersKept DEF TypeOK
<1>10. slotsTaken' \in 0 .. WindowSlots
  BY IdsAssumption DEF ReleaseSlot, TypeOK
<1>11. posted' \subseteq PostingKind \X (Deals \cup CounterOffers)
  BY DEF CloseEscrow, TypeOK, PostingKind
<1>12. TypeOK'
  BY <1>6, <1>7, <1>10, <1>11 DEF TypeOK
<1> QED BY <1>6, <1>7, <1>9, <1>12

LEMMA DeclineDealKeeps ==
    ASSUME IInv, NEW d \in Deals, DeclineDeal(d)
    PROVE  IInv'
<1> DEFINE row == DeclinedDeal(deal[d])
<1>1. deal[d] \in DealRow
  BY DEF IInv, TypeOK
<1>2. row \in DealRow /\ SameTerms(deal[d], row)
  BY <1>1, MethodsKeepTerms
<1>3. row.status = "DECLINED" /\ row.escrow = deal[d].escrow
  BY <1>1 DEF DeclinedDeal, DealRow
<1>4. deal[d].status \in {"PROPOSED", "COUNTER_OFFERED"}
  BY <1>1 DEF DeclineDeal, CanDecline, MoveTo, DealTransitions
<1>5. /\ CloseEscrow(d, row) /\ ExpireIntentsIfUnpaid(d) /\ ReleaseSlot(d)
      /\ UNCHANGED <<delivery, dispute, offer, sent, events, flagged, grants>>
  BY DEF DeclineDeal
<1> HIDE DEF row
<1> QED BY <1>2, <1>3, <1>4, <1>5, CloseUndecided

LEMMA SweepExpireKeeps ==
    ASSUME IInv, NEW d \in Deals, SweepExpire(d)
    PROVE  IInv'
<1> DEFINE row == ExpiredDeal(deal[d])
<1>1. deal[d] \in DealRow
  BY DEF IInv, TypeOK
<1>2. row \in DealRow /\ SameTerms(deal[d], row)
  BY <1>1, MethodsKeepTerms
<1>3. row.status = "EXPIRED" /\ row.escrow = deal[d].escrow
  BY <1>1 DEF ExpiredDeal, DealRow
<1>4. deal[d].status \in {"PROPOSED", "COUNTER_OFFERED"}
  BY <1>1 DEF SweepExpire, HasExpired
<1>5. /\ CloseEscrow(d, row) /\ ExpireIntentsIfUnpaid(d) /\ ReleaseSlot(d)
      /\ UNCHANGED <<delivery, dispute, offer, sent, events, flagged, grants>>
  BY DEF SweepExpire
<1> HIDE DEF row
<1> QED BY <1>2, <1>3, <1>4, <1>5, CloseUndecided

(* T9 or T10, with T12 in the same transaction. *)
LEMMA ApproveDeliveryKeeps ==
    ASSUME IInv, NEW d \in Deals, ApproveDelivery(d)
    PROVE  IInv'
<1> USE DEF IInv
<1> DEFINE row   == SettledDeal(ApprovedDeal(deal[d]))
           money == Released(ledger[d], ApprovedDeal(deal[d]))
<1>1. Sound(deal[d], ledger[d]) /\ deal[d] \in DealRow
  BY DEF DealsSound, TypeOK
<1>2. deal[d].status = "DELIVERED" /\ deal[d].escrow = "HELD"
  BY <1>1 DEF ApproveDelivery, CanApprove, MoveTo, DealTransitions, Sound, SidesAgree,
              DealRow, EscrowStatus
<1>3. Sound(row, money)
  BY <1>1, <1>2, ReleasedIsSound
<1>4. row.status = "PAID"
  BY <1>1 DEF ApprovedDeal, SettledDeal, DealRow
<1>5. /\ deal' = [deal EXCEPT ![d] = row] /\ ledger' = [ledger EXCEPT ![d] = money]
      /\ UNCHANGED <<dispute, offer, intent, sent, events, flagged, slotsTaken, grants>>
  BY DEF ApproveDelivery, ReleaseEscrow, paymentVars
<1> HIDE DEF row, money
<1>6. DealsSound' /\ deal' \in [Deals -> DealRow] /\ ledger' \in [Deals -> Balance]
  BY <1>3, <1>5, DealAndLedgerStep DEF TypeOK
<1>7. IntentsSound'
  BY <1>2, <1>5, IntentsKept DEF TypeOK
<1>8. OffersSound'
  BY <1>2, <1>4, <1>5, OffersKept DEF TypeOK
<1>9. posted' \subseteq PostingKind \X (Deals \cup CounterOffers)
  BY DEF ApproveDelivery, ReleaseEscrow, TypeOK, PostingKind
<1>10. delivery' \in [Deals -> [version : Nat,
                                answer : {"none", "waiting", "accepted", "rejected"}]]
  BY DEF ApproveDelivery, TypeOK
<1>11. TypeOK'
  BY <1>5, <1>6, <1>9, <1>10 DEF TypeOK
<1> QED BY <1>6, <1>7, <1>8, <1>11

(* T15 and T16 return the money of work that was under way. *)
LEMMA RefundHeldDeal ==
    ASSUME IInv, NEW d \in Deals, CanRefund(deal[d]), CloseEscrow(d, RefundedDeal(deal[d])),
           dispute' \in [Deals -> Parties \cup {"none"}],
           UNCHANGED <<delivery, offer, paymentVars, slotsTaken, grants>>
    PROVE  IInv'
<1> USE DEF IInv
<1> DEFINE row   == RefundedDeal(deal[d])
           money == ReturnedToBuyer(ledger[d], row.amount)
<1>1. Sound(deal[d], ledger[d]) /\ deal[d] \in DealRow
  BY DEF DealsSound, TypeOK
<1>2. deal[d].status \in {"ACCEPTED", "IN_PROGRESS", "DELIVERED"} /\ deal[d].escrow = "HELD"
  BY <1>1 DEF CanRefund, MoveTo, DealTransitions, Sound, SidesAgree, DealRow, EscrowStatus
<1>3. row \in DealRow /\ SameTerms(deal[d], row)
  BY <1>1, MethodsKeepTerms
<1>4. row.status = "REFUNDED" /\ row.escrow = "HELD"
  BY <1>1, <1>2 DEF RefundedDeal, DealRow
<1>5. /\ deal' = [deal EXCEPT ![d] = ClosedRow(row)]
      /\ ledger' = [ledger EXCEPT ![d] = money]
      /\ posted' = posted \cup {<<"ESCROW_REFUND", d>>}
      /\ UNCHANGED <<delivery, offer, intent, sent, events, flagged, slotsTaken, grants>>
  BY <1>4 DEF CloseEscrow, paymentVars
<1> HIDE DEF row
<1>6. Sound(ClosedRow(row), money)
  BY <1>1, <1>2, <1>3, <1>4, ClosedIsSound
<1>7. ClosedRow(row).status = "REFUNDED"
  BY <1>3, <1>4 DEF ClosedRow, EscrowReturnedDeal, DealRow
<1> HIDE DEF money
<1>8. DealsSound' /\ deal' \in [Deals -> DealRow] /\ ledger' \in [Deals -> Balance]
  BY <1>5, <1>6, DealAndLedgerStep DEF TypeOK
<1>9. IntentsSound'
  BY <1>2, <1>5, IntentsKept DEF TypeOK
<1>10. OffersSound'
  BY <1>2, <1>5, <1>7, OffersKept DEF TypeOK
<1>11. TypeOK'
  BY <1>5, <1>8 DEF TypeOK, PostingKind
<1> QED BY <1>8, <1>9, <1>10, <1>11

(* Steps that move neither deals nor money nor payments nor counter-offers. *)
LEMMA NothingMoves ==
    ASSUME IInv, UNCHANGED <<deal, offer, intent, ledger>>, TypeOK'
    PROVE  IInv'
<1>1. DealsSound'
  BY DEF IInv, DealsSound
<1>2. IntentsSound'
  BY DEF IInv, IntentsSound, InitialIntentsCanStillLand, IsActive
<1>3. OffersSound'
  BY DEF IInv, OffersSound, PendingOf
<1> QED BY <1>1, <1>2, <1>3 DEF IInv

LEMMA DisputeKeeps ==
    ASSUME IInv, NEW d \in Deals, NEW party \in Parties,
           \/ OpenDispute(d, party)
           \/ WithdrawDispute(d, party)
           \/ ResolveDisputeForBuyer(d)
           \/ ResolveDisputeForCreator(d)
    PROVE  IInv'
<1>1. CASE OpenDispute(d, party) \/ WithdrawDispute(d, party) \/ ResolveDisputeForCreator(d)
  <2>1. UNCHANGED <<deal, delivery, offer, intent, sent, events, flagged, ledger, posted,
                    slotsTaken, grants>>
    BY <1>1 DEF OpenDispute, WithdrawDispute, ResolveDisputeForCreator, paymentVars, moneyVars
  <2>2. dispute' \in [Deals -> Parties \cup {"none"}]
    BY <1>1 DEF IInv, TypeOK, OpenDispute, WithdrawDispute, ResolveDisputeForCreator
  <2>3. TypeOK'
    BY <2>1, <2>2 DEF IInv, TypeOK
  <2> QED BY <2>1, <2>3, NothingMoves
<1>2. CASE ResolveDisputeForBuyer(d)
  <2>1. dispute' \in [Deals -> Parties \cup {"none"}]
    BY <1>2 DEF IInv, TypeOK, ResolveDisputeForBuyer
  <2> QED BY <1>2, <2>1, RefundHeldDeal DEF ResolveDisputeForBuyer
<1> QED BY <1>1, <1>2

LEMMA RequestRefundKeeps ==
    ASSUME IInv, NEW d \in Deals, RequestRefund(d)
    PROVE  IInv'
<1>1. dispute' \in [Deals -> Parties \cup {"none"}]
  BY DEF IInv, TypeOK, RequestRefund
<1> QED BY <1>1, RefundHeldDeal DEF RequestRefund

-----------------------------------------------------------------------------
(* Negotiation. *)

LEMMA CounterOfferDealKeeps ==
    ASSUME IInv, NEW d \in Deals, NEW o \in CounterOffers, NEW price \in Prices, NEW sla \in Slas,
           CounterOfferDeal(d, o, price, sla)
    PROVE  IInv'
<1> USE DEF IInv
<1> DEFINE row == CounterOfferedDeal(deal[d])
           new == [deal |-> d, price |-> price, sla |-> sla, status |-> "PENDING"]
<1>1. Sound(deal[d], ledger[d]) /\ deal[d] \in DealRow
  BY DEF DealsSound, TypeOK
<1>2. deal[d].status = "PROPOSED" /\ deal[d].escrow = "HELD"
  BY <1>1 DEF CounterOfferDeal, CanCounterOffer, MoveTo, DealTransitions
<1>3. row \in DealRow /\ SameTerms(deal[d], row)
  BY <1>1, MethodsKeepTerms
<1>4. row.status = "COUNTER_OFFERED" /\ row.escrow = deal[d].escrow
  BY <1>1 DEF CounterOfferedDeal, DealRow
<1>5. /\ deal' = [deal EXCEPT ![d] = row] /\ offer' = [offer EXCEPT ![o] = new]
      /\ UNCHANGED <<delivery, dispute, intent, sent, events, flagged, ledger, posted,
                     slotsTaken, grants>>
      /\ <<price, sla>> # <<deal[d].price, deal[d].sla>>
      /\ PendingOf(d) = {} /\ offer[o].status = "NONE"
  BY DEF CounterOfferDeal, paymentVars, moneyVars
<1> HIDE DEF row
<1>6. new \in OfferRow
  BY PolicyAssumption DEF OfferRow, OfferStatus
<1>7. Sound(row, ledger[d])
  BY <1>1, <1>2, <1>3, <1>4, MovedIsSound DEF HeldStatus
<1>8. DealsSound' /\ deal' \in [Deals -> DealRow]
  BY <1>5, <1>7, DealStep DEF TypeOK
<1>9. \A p \in CounterOffers : offer[p].status # "NONE" =>
          offer'[p].status # "NONE" /\ offer'[p].deal = offer[p].deal
  BY <1>5 DEF TypeOK
<1>10. IntentsSound'
  BY <1>2, <1>5, <1>9, IntentsKept DEF TypeOK
<1>11. OffersSound'
  <2>1. \A p \in CounterOffers : offer'[p] = IF p = o THEN new ELSE offer[p]
    BY <1>5 DEF TypeOK
  <2>2. \A e \in Deals : deal'[e] = IF e = d THEN row ELSE deal[e]
    BY <1>5 DEF TypeOK
  <2>3. \A p \in CounterOffers : ~ (offer[p].deal = d /\ offer[p].status = "PENDING")
    BY <1>5 DEF PendingOf
  <2>4. row.price = deal[d].price /\ row.sla = deal[d].sla
    BY <1>3 DEF SameTerms
  <2>5. \A p \in CounterOffers : offer'[p].status = "PENDING" =>
           /\ offer'[p].deal \in Deals
           /\ deal'[offer'[p].deal].status \in {"COUNTER_OFFERED", "DECLINED", "EXPIRED"}
    BY <1>4, <2>1, <2>2 DEF OffersSound
  <2>6. \A p, q \in CounterOffers :
           /\ offer'[p].status = "PENDING" /\ offer'[q].status = "PENDING"
           /\ offer'[p].deal = offer'[q].deal
           => p = q
    BY <2>1, <2>3 DEF OffersSound
  <2>7. \A e \in Deals : deal'[e].status = "COUNTER_OFFERED" =>
           \E p \in CounterOffers :
               /\ offer'[p].deal = e /\ offer'[p].status = "PENDING"
               /\ <<offer'[p].price, offer'[p].sla>> # <<deal'[e].price, deal'[e].sla>>
    <3>1. ASSUME NEW e \in Deals, deal'[e].status = "COUNTER_OFFERED", e # d
          PROVE  \E p \in CounterOffers :
                    /\ offer'[p].deal = e /\ offer'[p].status = "PENDING"
                    /\ <<offer'[p].price, offer'[p].sla>> # <<deal'[e].price, deal'[e].sla>>
      BY <1>5, <2>1, <2>2, <3>1 DEF OffersSound, PendingOf
    <3>2. /\ offer'[o].deal = d /\ offer'[o].status = "PENDING"
          /\ <<offer'[o].price, offer'[o].sla>> # <<deal'[d].price, deal'[d].sla>>
      BY <1>5, <2>1, <2>2, <2>4
    <3> QED BY <3>1, <3>2
  <2> QED BY <2>5, <2>6, <2>7 DEF OffersSound, PendingOf
<1>12. offer' \in [CounterOffers -> OfferRow]
  BY <1>5, <1>6 DEF TypeOK
<1>13. TypeOK'
  BY <1>5, <1>8, <1>12 DEF TypeOK
<1> QED BY <1>8, <1>10, <1>11, <1>13

(* T5: `balance` is the ledger of the deal, with the top-up if one was due.  *)
LEMMA RenegotiationKeeps ==
    ASSUME TypeOK, DealsSound, OffersSound,
           NEW d \in Deals, NEW o \in CounterOffers, o \in PendingOf(d),
           NEW balance, NEW keys, keys \subseteq PostingKind \X (Deals \cup CounterOffers),
           ApplyAcceptedCounterOffer(d, o, balance, keys),
           \/ /\ balance = ledger[d]
              /\ Settlement(d, offer[o].price) <= 0
           \/ /\ balance = Funded(ledger[d], Settlement(d, offer[o].price))
              /\ Settlement(d, offer[o].price) >= 0
    PROVE  /\ deal[d].status = "COUNTER_OFFERED"
           /\ deal' = [deal EXCEPT ![d] = RenegotiatedDeal(deal[d], offer[o].price, offer[o].sla)]
           /\ DealsSound' /\ OffersSound'
           /\ deal' \in [Deals -> DealRow] /\ ledger' \in [Deals -> Balance]
           /\ offer' \in [CounterOffers -> OfferRow]
           /\ posted' \subseteq PostingKind \X (Deals \cup CounterOffers)
           /\ \A p \in CounterOffers : offer[p].status # "NONE" =>
                  offer'[p].status # "NONE" /\ offer'[p].deal = offer[p].deal
<1> DEFINE row        == RenegotiatedDeal(deal[d], offer[o].price, offer[o].sla)
           settlement == Settlement(d, offer[o].price)
           settled    == IF settlement < 0 THEN ReturnedToBuyer(balance, -settlement) ELSE balance
<1>1. Sound(deal[d], ledger[d]) /\ deal[d] \in DealRow /\ ledger[d] \in Balance
  BY DEF DealsSound, TypeOK
<1>2. offer[o] \in OfferRow /\ offer[o].price \in Nat /\ offer[o].sla \in Nat
  BY DEF TypeOK, OfferRow
<1>3. /\ deal' = [deal EXCEPT ![d] = row]
      /\ offer' = [offer EXCEPT ![o].status = "ACCEPTED"]
      /\ ledger' = [ledger EXCEPT ![d] = settled]
      /\ MoveTo(deal[d], "PROPOSED")
  BY DEF ApplyAcceptedCounterOffer, CanRenegotiate
<1>4. deal[d].status = "COUNTER_OFFERED" /\ deal[d].escrow = "HELD"
  <2>1. deal[d].status = "COUNTER_OFFERED"
    BY <1>1, <1>3 DEF MoveTo, DealTransitions
  <2> QED BY <1>1, <2>1 DEF Sound, SidesAgree, DealRow, EscrowStatus
<1>5. settlement \in Int /\ settlement = SettlementFor(deal[d].amount, offer[o].price, FeeBasisPoints)
  <2>1. SplitFees(offer[o].price, FeeBasisPoints).amount \in Int
    BY <1>2, SplitLosesNothing, PolicyAssumption
  <2>2. deal[d].amount \in Int
    BY <1>1 DEF DealRow
  <2> QED BY <2>1, <2>2 DEF Settlement, SettlementFor
<1>6. row.status = "PROPOSED"
  BY <1>1 DEF RenegotiatedDeal, DealRow
<1>7. posted' \subseteq PostingKind \X (Deals \cup CounterOffers)
  BY DEF ApplyAcceptedCounterOffer, PostingKind
<1> HIDE DEF row, settlement
<1>8. /\ settled \in Balance
      /\ settled.clearing - settled.refunds
            = ledger[d].clearing - ledger[d].refunds + settlement
      /\ settled.escrow = ledger[d].escrow + settlement
      /\ settled.creator = ledger[d].creator /\ settled.fees = ledger[d].fees
  <2>0. /\ ledger[d].clearing \in Int /\ ledger[d].escrow \in Int /\ ledger[d].refunds \in Int
    BY <1>1 DEF Balance
  <2>1. CASE settlement < 0
    <3>1. settled = ReturnedToBuyer(ledger[d], -settlement) /\ -settlement \in Int
      BY <1>5, <2>1 DEF settlement
    <3> HIDE DEF settled
    <3>2. /\ settled \in Balance
          /\ settled.clearing = ledger[d].clearing
          /\ settled.escrow = ledger[d].escrow - (-settlement)
          /\ settled.refunds = ledger[d].refunds + (-settlement)
          /\ settled.creator = ledger[d].creator /\ settled.fees = ledger[d].fees
      BY <1>1, <3>1, ReturnedFields
    <3> QED BY <1>5, <2>0, <3>2
  <2>2. CASE settlement = 0 /\ balance = ledger[d]
    <3>1. settled = ledger[d]
      BY <2>2 DEF settlement
    <3> QED BY <1>1, <2>0, <2>2, <3>1
  <2>3. CASE settlement >= 0 /\ balance = Funded(ledger[d], settlement)
    <3>1. settled = Funded(ledger[d], settlement)
      BY <1>5, <2>3
    <3> HIDE DEF settled
    <3>2. /\ settled \in Balance
          /\ settled.clearing = ledger[d].clearing + settlement
          /\ settled.escrow = ledger[d].escrow + settlement
          /\ settled.refunds = ledger[d].refunds
          /\ settled.creator = ledger[d].creator /\ settled.fees = ledger[d].fees
      BY <1>1, <1>5, <3>1, FundedFields
    <3> QED BY <1>5, <2>0, <3>2
  <2> QED BY <1>5, <2>1, <2>2, <2>3 DEF settlement
<1> HIDE DEF settled
<1>9. Sound(row, settled)
  BY <1>1, <1>2, <1>4, <1>5, <1>8, RenegotiatedIsSound DEF row
<1>10. DealsSound' /\ deal' \in [Deals -> DealRow] /\ ledger' \in [Deals -> Balance]
  BY <1>3, <1>9, DealAndLedgerStep DEF TypeOK
<1>11. \A p \in CounterOffers :
          /\ offer'[p].deal = offer[p].deal
          /\ offer'[p].price = offer[p].price /\ offer'[p].sla = offer[p].sla
          /\ offer'[p].status = IF p = o THEN "ACCEPTED" ELSE offer[p].status
  BY <1>3 DEF TypeOK, OfferRow
<1>12. offer' \in [CounterOffers -> OfferRow]
  BY <1>3 DEF TypeOK, OfferRow, OfferStatus
<1>13. OffersSound'
  <2>1. offer[o].deal = d /\ offer[o].status = "PENDING"
    BY DEF PendingOf
  <2>2. \A e \in Deals : deal'[e] = IF e = d THEN row ELSE deal[e]
    BY <1>3 DEF TypeOK
  <2>3. \A p \in CounterOffers : offer'[p].status = "PENDING" =>
          p # o /\ offer[p].status = "PENDING" /\ offer[p].deal # d
    BY <1>11, <2>1 DEF OffersSound
  <2>4. \A p \in CounterOffers : offer'[p].status = "PENDING" =>
           /\ offer'[p].deal \in Deals
           /\ deal'[offer'[p].deal].status \in {"COUNTER_OFFERED", "DECLINED", "EXPIRED"}
    BY <1>11, <2>2, <2>3 DEF OffersSound
  <2>5. \A p, q \in CounterOffers :
           /\ offer'[p].status = "PENDING" /\ offer'[q].status = "PENDING"
           /\ offer'[p].deal = offer'[q].deal
           => p = q
    BY <1>11, <2>3 DEF OffersSound
  <2>6. ASSUME NEW e \in Deals, deal'[e].status = "COUNTER_OFFERED"
        PROVE  \E p \in CounterOffers :
                  /\ offer'[p].deal = e /\ offer'[p].status = "PENDING"
                  /\ <<offer'[p].price, offer'[p].sla>> # <<deal'[e].price, deal'[e].sla>>
    <3>1. e # d /\ deal'[e] = deal[e]
      BY <1>6, <2>2, <2>6
    <3>2. PICK p \in CounterOffers :
             /\ offer[p].deal = e /\ offer[p].status = "PENDING"
             /\ <<offer[p].price, offer[p].sla>> # <<deal[e].price, deal[e].sla>>
      BY <2>6, <3>1 DEF OffersSound, PendingOf
    <3>3. p # o
      BY <2>1, <3>1, <3>2
    <3> QED BY <1>11, <3>1, <3>2, <3>3
  <2> QED BY <2>4, <2>5, <2>6 DEF OffersSound, PendingOf
<1> QED BY <1>3, <1>4, <1>7, <1>10, <1>11, <1>12, <1>13 DEF row

LEMMA AcceptCounterOfferKeeps ==
    ASSUME IInv, NEW d \in Deals, NEW o \in CounterOffers, AcceptCounterOffer(d, o)
    PROVE  IInv'
<1> USE DEF IInv
<1>1. /\ o \in PendingOf(d) /\ Settlement(d, offer[o].price) <= 0
      /\ ApplyAcceptedCounterOffer(d, o, ledger[d], posted)
      /\ UNCHANGED <<delivery, dispute, intent, sent, events, flagged, slotsTaken, grants>>
  BY DEF AcceptCounterOffer, paymentVars
<1>2. posted \subseteq PostingKind \X (Deals \cup CounterOffers)
  BY DEF TypeOK
<1>3. /\ deal[d].status = "COUNTER_OFFERED"
      /\ deal' = [deal EXCEPT ![d] = RenegotiatedDeal(deal[d], offer[o].price, offer[o].sla)]
      /\ DealsSound' /\ OffersSound'
      /\ deal' \in [Deals -> DealRow] /\ ledger' \in [Deals -> Balance]
      /\ offer' \in [CounterOffers -> OfferRow]
      /\ posted' \subseteq PostingKind \X (Deals \cup CounterOffers)
      /\ \A p \in CounterOffers : offer[p].status # "NONE" =>
             offer'[p].status # "NONE" /\ offer'[p].deal = offer[p].deal
  BY <1>1, <1>2, RenegotiationKeeps
<1>4. IntentsSound'
  <2> DEFINE row == RenegotiatedDeal(deal[d], offer[o].price, offer[o].sla)
  <2>1. deal' = [deal EXCEPT ![d] = row] /\ deal[d].status # "PROPOSED" /\ intent' = intent
    BY <1>1, <1>3
  <2> HIDE DEF row
  <2> QED BY <1>3, <2>1, IntentsKept DEF TypeOK
<1>5. TypeOK'
  BY <1>1, <1>3 DEF TypeOK
<1> QED BY <1>3, <1>4, <1>5

(* T6: a counter-offer can only wait at a deal that is under counter-offer,  *)
(* so no payment of it can be in flight.                                    *)
LEMMA DeclineCounterOfferKeeps ==
    ASSUME IInv, NEW d \in Deals, NEW o \in CounterOffers, DeclineCounterOffer(d, o)
    PROVE  IInv'
<1> USE DEF IInv
<1> DEFINE row   == DeclinedDeal(deal[d])
           money == ReturnedToBuyer(ledger[d], row.amount)
<1>1. Sound(deal[d], ledger[d]) /\ deal[d] \in DealRow
  BY DEF DealsSound, TypeOK
<1>2. offer[o].deal = d /\ offer[o].status = "PENDING"
  BY DEF DeclineCounterOffer, PendingOf
<1>3. deal[d].status = "COUNTER_OFFERED" /\ deal[d].escrow = "HELD"
  <2>1. deal[d].status \in {"PROPOSED", "COUNTER_OFFERED"}
    BY <1>1 DEF DeclineCounterOffer, CanDecline, MoveTo, DealTransitions
  <2>2. deal[d].status = "COUNTER_OFFERED"
    BY <1>2, <2>1 DEF OffersSound
  <2> QED BY <1>1, <2>2 DEF Sound, SidesAgree, DealRow, EscrowStatus
<1>4. row \in DealRow /\ SameTerms(deal[d], row)
  BY <1>1, MethodsKeepTerms
<1>5. row.status = "DECLINED" /\ row.escrow = "HELD"
  BY <1>1, <1>3 DEF DeclinedDeal, DealRow
<1>6. /\ deal' = [deal EXCEPT ![d] = ClosedRow(row)]
      /\ ledger' = [ledger EXCEPT ![d] = money]
      /\ posted' = posted \cup {<<"ESCROW_REFUND", d>>}
      /\ offer' = [offer EXCEPT ![o].status = "DECLINED"]
      /\ UNCHANGED <<delivery, dispute, intent, sent, events, flagged, grants>>
  BY <1>5 DEF DeclineCounterOffer, CloseEscrow, paymentVars
<1> HIDE DEF row
<1>7. Sound(ClosedRow(row), money)
  BY <1>1, <1>3, <1>4, <1>5, ClosedIsSound
<1>8. ClosedRow(row).status = "DECLINED"
  BY <1>4, <1>5 DEF ClosedRow, EscrowReturnedDeal, DealRow
<1> HIDE DEF money
<1>9. DealsSound' /\ deal' \in [Deals -> DealRow] /\ ledger' \in [Deals -> Balance]
  BY <1>6, <1>7, DealAndLedgerStep DEF TypeOK
<1>10. \A p \in CounterOffers :
          /\ offer'[p].deal = offer[p].deal
          /\ offer'[p].price = offer[p].price /\ offer'[p].sla = offer[p].sla
          /\ offer'[p].status = IF p = o THEN "DECLINED" ELSE offer[p].status
  BY <1>6 DEF TypeOK, OfferRow
<1>11. offer' \in [CounterOffers -> OfferRow]
  BY <1>6 DEF TypeOK, OfferRow, OfferStatus
<1>12. \A p \in CounterOffers : offer[p].status # "NONE" =>
          offer'[p].status # "NONE" /\ offer'[p].deal = offer[p].deal
  BY <1>10
<1>13. IntentsSound'
  BY <1>3, <1>6, <1>12, IntentsKept DEF TypeOK
<1>14. OffersSound'
  <2>1. \A e \in Deals : deal'[e] = IF e = d THEN ClosedRow(row) ELSE deal[e]
    BY <1>6 DEF TypeOK
  <2>2. \A p \in CounterOffers : offer'[p].status = "PENDING" => offer[p].status = "PENDING"
    BY <1>10
  <2>3. \A p \in CounterOffers : offer'[p].status = "PENDING" =>
           /\ offer'[p].deal \in Deals
           /\ deal'[offer'[p].deal].status \in {"COUNTER_OFFERED", "DECLINED", "EXPIRED"}
    BY <1>8, <1>10, <2>1, <2>2 DEF OffersSound
  <2>4. \A p, q \in CounterOffers :
           /\ offer'[p].status = "PENDING" /\ offer'[q].status = "PENDING"
           /\ offer'[p].deal = offer'[q].deal
           => p = q
    BY <1>10, <2>2 DEF OffersSound
  <2>5. ASSUME NEW e \in Deals, deal'[e].status = "COUNTER_OFFERED"
        PROVE  \E p \in CounterOffers :
                  /\ offer'[p].deal = e /\ offer'[p].status = "PENDING"
                  /\ <<offer'[p].price, offer'[p].sla>> # <<deal'[e].price, deal'[e].sla>>
    <3>1. e # d /\ deal'[e] = deal[e]
      BY <1>8, <2>1, <2>5
    <3>2. PICK p \in CounterOffers :
             /\ offer[p].deal = e /\ offer[p].status = "PENDING"
             /\ <<offer[p].price, offer[p].sla>> # <<deal[e].price, deal[e].sla>>
      BY <2>5, <3>1 DEF OffersSound, PendingOf
    <3>3. p # o
      BY <1>2, <3>1, <3>2
    <3> QED BY <1>10, <3>1, <3>2, <3>3
  <2> QED BY <2>3, <2>4, <2>5 DEF OffersSound, PendingOf
<1>15. slotsTaken' \in 0 .. WindowSlots
  BY IdsAssumption DEF DeclineCounterOffer, ReleaseSlot, TypeOK
<1>16. TypeOK'
  BY <1>6, <1>9, <1>11, <1>15 DEF TypeOK, PostingKind
<1> QED BY <1>9, <1>13, <1>14, <1>16

-----------------------------------------------------------------------------
(* Payment. *)

(* A new intent, for a deal that has none active. *)
LEMMA StartedIntentKeeps ==
    ASSUME IInv, NEW d \in Deals, NEW i \in Intents, NEW new \in IntentRow,
           new.deal = d, new.status # "NONE", ActiveOf(d) = {},
           intent' = [intent EXCEPT ![i] = new],
           \/ /\ new.purpose = "INITIAL" /\ new.amount = deal[d].amount
              /\ deal[d].status = "PROPOSED" /\ deal[d].escrow = "PENDING"
           \/ /\ new.purpose = "TOP_UP" /\ new.offer \in PendingOf(d),
           UNCHANGED <<deal, delivery, dispute, offer, sent, events, flagged, moneyVars,
                       slotsTaken, grants>>
    PROVE  IInv'
<1> USE DEF IInv
<1>1. UNCHANGED <<deal, delivery, dispute, offer, sent, events, flagged, ledger, posted,
                  slotsTaken, grants>>
  BY DEF moneyVars
<1>2. intent' \in [Intents -> IntentRow]
  BY DEF TypeOK
<1>3. TypeOK'
  BY <1>1, <1>2 DEF TypeOK
<1>4. \A j \in Intents : intent'[j] = IF j = i THEN new ELSE intent[j]
  BY DEF TypeOK
<1>5. \A j \in Intents : ~ (intent[j].deal = d /\ IsActive(j))
  BY DEF ActiveOf
<1>6. new.purpose = "TOP_UP" =>
        new.offer \in CounterOffers /\ offer[new.offer].status # "NONE" /\ offer[new.offer].deal = d
  BY DEF PendingOf
<1>7. IntentsSound'
  <2>1. \A j \in Intents : intent'[j].status # "NONE" => intent'[j].deal \in Deals
    BY <1>4 DEF IntentsSound
  <2>2. \A j \in Intents : intent'[j].purpose = "TOP_UP" =>
           /\ intent'[j].offer \in CounterOffers
           /\ offer[intent'[j].offer].status # "NONE"
           /\ offer[intent'[j].offer].deal = intent'[j].deal
    BY <1>4, <1>6 DEF IntentsSound
  <2>3. \A j, k \in Intents :
           IsActive(j)' /\ IsActive(k)' /\ intent'[j].deal = intent'[k].deal => j = k
    BY <1>4, <1>5 DEF IntentsSound, IsActive
  <2>4. InitialIntentsCanStillLand'
    BY <1>1, <1>4 DEF IntentsSound, InitialIntentsCanStillLand, IsActive
  <2> QED BY <1>1, <2>1, <2>2, <2>3, <2>4 DEF IntentsSound
<1>8. DealsSound'
  BY <1>1 DEF DealsSound
<1>9. OffersSound'
  BY <1>1 DEF OffersSound, PendingOf
<1> QED BY <1>3, <1>7, <1>8, <1>9

LEMMA StartDealPaymentKeeps ==
    ASSUME IInv, NEW d \in Deals, NEW i \in Intents, NEW answer \in GatewayAnswer,
           StartDealPayment(d, i, answer)
    PROVE  IInv'
<1> DEFINE new == [deal |-> d, purpose |-> "INITIAL", offer |-> "none",
                   amount |-> deal[d].amount, status |-> answer]
<1>1. deal[d].amount \in Nat
  BY DEF IInv, TypeOK, DealRow
<1>2. new \in IntentRow
  BY <1>1 DEF IntentRow, IntentStatus, GatewayAnswer
<1>3. /\ intent' = [intent EXCEPT ![i] = new] /\ ActiveOf(d) = {}
      /\ deal[d].status = "PROPOSED" /\ deal[d].escrow = "PENDING"
      /\ answer # "NONE"
      /\ UNCHANGED <<deal, delivery, dispute, offer, sent, events, flagged, moneyVars,
                     slotsTaken, grants>>
  BY DEF StartDealPayment, GatewayAnswer
<1>4. new.deal = d /\ new.status # "NONE" /\ new.purpose = "INITIAL" /\ new.amount = deal[d].amount
  BY <1>3
<1> HIDE DEF new
<1> QED BY <1>2, <1>3, <1>4, StartedIntentKeeps

LEMMA StartCounterOfferTopUpKeeps ==
    ASSUME IInv, NEW d \in Deals, NEW o \in CounterOffers, NEW i \in Intents,
           NEW answer \in GatewayAnswer, StartCounterOfferTopUp(d, o, i, answer)
    PROVE  IInv'
<1> DEFINE settlement == Settlement(d, offer[o].price)
           status == IF answer = "PENDING" THEN "PENDING" ELSE "FAILED"
           new == [deal |-> d, purpose |-> "TOP_UP", offer |-> o,
                   amount |-> settlement, status |-> status]
<1>1. deal[d].amount \in Int /\ offer[o].price \in Nat
  BY DEF IInv, TypeOK, DealRow, OfferRow
<1>2. settlement \in Int
  <2>1. SplitFees(offer[o].price, FeeBasisPoints).amount \in Int
    BY <1>1, SplitLosesNothing, PolicyAssumption
  <2> QED BY <1>1, <2>1 DEF Settlement, SettlementFor
<1>3. /\ intent' = [intent EXCEPT ![i] = new] /\ ActiveOf(d) = {}
      /\ o \in PendingOf(d) /\ settlement > 0 /\ status # "NONE"
      /\ UNCHANGED <<deal, delivery, dispute, offer, sent, events, flagged, moneyVars,
                     slotsTaken, grants>>
  BY DEF StartCounterOfferTopUp
<1> HIDE DEF settlement
<1>4. new \in IntentRow
  BY <1>2, <1>3 DEF IntentRow, IntentStatus
<1>5. new.deal = d /\ new.status # "NONE" /\ new.purpose = "TOP_UP" /\ new.offer \in PendingOf(d)
  BY <1>3
<1> HIDE DEF new
<1> QED BY <1>3, <1>4, <1>5, StartedIntentKeeps

LEMMA NoticeKeeps ==
    ASSUME IInv, NEW i \in Intents, NEW type \in NoticeType,
           ProviderNotifies(i, type) \/ IgnoreNotice(i) \/ FlagCapture(i, type)
    PROVE  IInv'
<1>1. UNCHANGED <<deal, delivery, dispute, offer, intent, ledger, posted, slotsTaken, grants>>
  BY DEF ProviderNotifies, IgnoreNotice, FlagCapture, moneyVars
<1>2. /\ sent' \subseteq Intents \X NoticeType /\ events' \subseteq sent'
      /\ flagged' \subseteq events'
  <2>1. CASE ProviderNotifies(i, type)
    <3>1. sent' = sent \cup {<<i, type>>} /\ UNCHANGED <<events, flagged>>
      BY <2>1 DEF ProviderNotifies
    <3> QED BY <3>1 DEF IInv, TypeOK
  <2>2. CASE IgnoreNotice(i)
    BY <2>2 DEF IInv, TypeOK, IgnoreNotice, IsNew, Recorded
  <2>3. CASE FlagCapture(i, type)
    BY <2>3 DEF IInv, TypeOK, FlagCapture, IsNew, Recorded
  <2> QED BY <2>1, <2>2, <2>3
<1>3. TypeOK'
  BY <1>1, <1>2 DEF IInv, TypeOK
<1> QED BY <1>1, <1>3, NothingMoves

(* The captured intent was the only active one of its deal, so whatever the  *)
(* capture does to that deal no other intent is waiting for it.             *)
LEMMA IntentCaptured ==
    ASSUME TypeOK, IntentsSound, NEW i \in Intents, IsActive(i), CaptureIntent(i),
           NEW row, deal' = [deal EXCEPT ![intent[i].deal] = row],
           \A o \in CounterOffers : offer[o].status # "NONE" =>
               offer'[o].status # "NONE" /\ offer'[o].deal = offer[o].deal
    PROVE  IntentsSound' /\ intent' \in [Intents -> IntentRow]
<1>1. \A j \in Intents :
        /\ intent'[j] \in IntentRow
        /\ intent'[j].deal = intent[j].deal /\ intent'[j].purpose = intent[j].purpose
        /\ intent'[j].offer = intent[j].offer /\ intent'[j].amount = intent[j].amount
        /\ intent'[j].status = IF j = i THEN "CAPTURED" ELSE intent[j].status
  BY DEF CaptureIntent, TypeOK, IntentRow, IntentStatus
<1>2. intent' \in [Intents -> IntentRow]
  BY <1>1 DEF CaptureIntent, TypeOK
<1>3. intent[i].status # "NONE"
  BY DEF IsActive, ActiveStatus
<1>4. \A j \in Intents : IsActive(j)' => IsActive(j) /\ intent[j].deal # intent[i].deal
  BY <1>1 DEF IsActive, ActiveStatus, IntentsSound
<1>5. \A j \in Intents : intent'[j].status # "NONE" => intent'[j].deal \in Deals
  BY <1>1, <1>3 DEF IntentsSound
<1>6. \A j \in Intents : intent'[j].purpose = "TOP_UP" =>
        /\ intent'[j].offer \in CounterOffers
        /\ offer'[intent'[j].offer].status # "NONE"
        /\ offer'[intent'[j].offer].deal = intent'[j].deal
  BY <1>1 DEF IntentsSound
<1>7. \A j, k \in Intents :
        IsActive(j)' /\ IsActive(k)' /\ intent'[j].deal = intent'[k].deal => j = k
  BY <1>1, <1>4 DEF IntentsSound
<1>8. InitialIntentsCanStillLand'
  <2>1. ASSUME NEW j \in Intents, IsActive(j)', intent'[j].purpose = "INITIAL"
        PROVE  /\ deal'[intent'[j].deal].status = "PROPOSED"
               /\ deal'[intent'[j].deal].escrow = "PENDING"
               /\ intent'[j].amount = deal'[intent'[j].deal].amount
    <3>1. deal'[intent'[j].deal] = deal[intent[j].deal]
      <4>1. intent[j].deal \in Deals
        BY <1>4, <2>1 DEF IntentsSound, IsActive, ActiveStatus
      <4> QED BY <1>1, <1>4, <2>1, <4>1 DEF TypeOK
    <3> QED BY <1>1, <1>4, <2>1, <3>1 DEF IntentsSound, InitialIntentsCanStillLand
  <2> QED BY <2>1 DEF InitialIntentsCanStillLand
<1> QED BY <1>2, <1>5, <1>6, <1>7, <1>8 DEF IntentsSound

(* What is known of the deal of an initial payment that can be captured. *)
LEMMA CapturedDeal ==
    ASSUME IInv, NEW i \in Intents, IsActive(i), intent[i].purpose = "INITIAL"
    PROVE  LET d == intent[i].deal
           IN  /\ d \in Deals /\ deal[d] \in DealRow /\ Sound(deal[d], ledger[d])
               /\ deal[d].status = "PROPOSED" /\ intent[i].amount = deal[d].amount
<1>1. intent[i].deal \in Deals
  BY DEF IInv, IntentsSound, IsActive, ActiveStatus
<1> QED
  BY <1>1 DEF IInv, TypeOK, DealsSound, IntentsSound, InitialIntentsCanStillLand

LEMMA CaptureInitialKeeps ==
    ASSUME IInv, NEW i \in Intents, NEW type \in FullCapture, CaptureInitial(i, type)
    PROVE  IInv'
<1> USE DEF IInv
<1> DEFINE d     == intent[i].deal
           row   == HeldDeal(deal[d])
           money == Funded(ledger[d], deal[d].amount)
<1>1. IsActive(i) /\ intent[i].purpose = "INITIAL" /\ CaptureIntent(i) /\ CanHold(deal[d])
  BY DEF CaptureInitial
<1>2. /\ d \in Deals /\ deal[d] \in DealRow /\ Sound(deal[d], ledger[d])
      /\ deal[d].status = "PROPOSED" /\ intent[i].amount = deal[d].amount
  BY <1>1, CapturedDeal
<1>3. Sound(row, money)
  BY <1>1, <1>2, HeldIsSound
<1>4. row.status = "PROPOSED"
  BY <1>2 DEF HeldDeal, DealRow
<1>5. /\ deal' = [deal EXCEPT ![d] = row] /\ ledger' = [ledger EXCEPT ![d] = money]
      /\ posted' = posted \cup {<<"ESCROW_FUNDING", d>>}
      /\ UNCHANGED <<delivery, dispute, offer, sent, flagged, slotsTaken, grants>>
  BY <1>2 DEF CaptureInitial
<1>6. events \subseteq events' /\ events' \subseteq sent
  BY DEF CaptureInitial, IsNew, Recorded, TypeOK
<1> HIDE DEF row, money
<1>7. DealsSound' /\ deal' \in [Deals -> DealRow] /\ ledger' \in [Deals -> Balance]
  BY <1>2, <1>3, <1>5, DealAndLedgerStep DEF TypeOK
<1>8. IntentsSound' /\ intent' \in [Intents -> IntentRow]
  BY <1>1, <1>5, IntentCaptured
<1>9. OffersSound'
  BY <1>2, <1>4, <1>5, OffersKept DEF TypeOK
<1>10. TypeOK'
  BY <1>2, <1>5, <1>6, <1>7, <1>8 DEF TypeOK, PostingKind
<1> QED BY <1>7, <1>8, <1>9, <1>10

LEMMA CaptureAndUnlockKeeps ==
    ASSUME IInv, NEW i \in Intents, NEW type \in FullCapture, CaptureAndUnlock(i, type)
    PROVE  IInv'
<1> USE DEF IInv
<1> DEFINE d         == intent[i].deal
           held      == HeldDeal(deal[d])
           accepted  == AcceptedDeal(held)
           delivered == DeliveredDeal(accepted)
           row       == SettledDeal(ApprovedDeal(delivered))
           funded    == Funded(ledger[d], deal[d].amount)
           money     == Released(funded, ApprovedDeal(delivered))
<1>1. IsActive(i) /\ intent[i].purpose = "INITIAL" /\ CaptureIntent(i) /\ CanHold(deal[d])
  BY DEF CaptureAndUnlock
<1>2. /\ d \in Deals /\ deal[d] \in DealRow /\ Sound(deal[d], ledger[d])
      /\ deal[d].status = "PROPOSED" /\ intent[i].amount = deal[d].amount
  BY <1>1, CapturedDeal
<1>3. Sound(held, funded) /\ held \in DealRow /\ held.escrow = "HELD"
  BY <1>1, <1>2, HeldIsSound DEF Sound, HeldDeal, DealRow
<1>4. Sound(accepted, funded) /\ accepted \in DealRow /\ accepted.escrow = "HELD"
  <2>1. accepted \in DealRow /\ SameTerms(held, accepted)
    BY <1>3, MethodsKeepTerms
  <2>2. accepted.escrow = held.escrow /\ accepted.status = "ACCEPTED"
    BY <1>3 DEF AcceptedDeal, DealRow
  <2> HIDE DEF held, accepted, funded
  <2> QED BY <1>3, <2>1, <2>2, MovedIsSound DEF HeldStatus
<1>5. Sound(delivered, funded) /\ delivered \in DealRow /\ delivered.escrow = "HELD"
  <2>1. delivered \in DealRow /\ SameTerms(accepted, delivered)
    BY <1>4, MethodsKeepTerms
  <2>2. delivered.escrow = accepted.escrow /\ delivered.status = "DELIVERED"
    BY <1>4 DEF DeliveredDeal, DealRow
  <2> HIDE DEF accepted, delivered, funded
  <2> QED BY <1>4, <2>1, <2>2, MovedIsSound DEF HeldStatus
<1>6. Sound(row, money)
  <2> HIDE DEF delivered, funded
  <2> QED BY <1>5, ReleasedIsSound
<1>7. row.status = "PAID"
  <2> HIDE DEF delivered
  <2> QED BY <1>5 DEF SettledDeal, ApprovedDeal, DealRow
<1>8. /\ deal' = [deal EXCEPT ![d] = row] /\ ledger' = [ledger EXCEPT ![d] = money]
      /\ posted' = posted \cup {<<"ESCROW_FUNDING", d>>, <<"ESCROW_RELEASE", d>>}
      /\ UNCHANGED <<delivery, dispute, offer, sent, flagged, slotsTaken>>
  BY <1>2 DEF CaptureAndUnlock
<1> HIDE DEF row, money
<1>9. events \subseteq events' /\ events' \subseteq sent
  BY DEF CaptureAndUnlock, IsNew, Recorded, TypeOK
<1>10. grants' \subseteq Buyers
  BY <1>2, IdsAssumption DEF CaptureAndUnlock, TypeOK
<1>11. DealsSound' /\ deal' \in [Deals -> DealRow] /\ ledger' \in [Deals -> Balance]
  BY <1>2, <1>6, <1>8, DealAndLedgerStep DEF TypeOK
<1>12. IntentsSound' /\ intent' \in [Intents -> IntentRow]
  BY <1>1, <1>8, IntentCaptured
<1>13. OffersSound'
  BY <1>2, <1>7, <1>8, OffersKept DEF TypeOK
<1>14. TypeOK'
  BY <1>2, <1>8, <1>9, <1>10, <1>11, <1>12 DEF TypeOK, PostingKind
<1> QED BY <1>11, <1>12, <1>13, <1>14

LEMMA CaptureTopUpKeeps ==
    ASSUME IInv, NEW i \in Intents, NEW type \in FullCapture, CaptureTopUp(i, type)
    PROVE  IInv'
<1> USE DEF IInv
<1> DEFINE d       == intent[i].deal
           o       == intent[i].offer
           balance == Funded(ledger[d], intent[i].amount)
           keys    == posted \cup {<<"ESCROW_TOP_UP", o>>}
<1>1. /\ IsActive(i) /\ intent[i].purpose = "TOP_UP" /\ CaptureIntent(i)
      /\ offer[o].status = "PENDING" /\ intent[i].amount = Settlement(d, offer[o].price)
      /\ ApplyAcceptedCounterOffer(d, o, balance, keys)
      /\ UNCHANGED <<delivery, dispute, sent, flagged, slotsTaken, grants>>
  BY DEF CaptureTopUp, IsDeadTopUp
<1>2. d \in Deals /\ o \in PendingOf(d)
  BY <1>1 DEF IntentsSound, IsActive, ActiveStatus, PendingOf
<1>3. keys \subseteq PostingKind \X (Deals \cup CounterOffers)
  BY <1>2 DEF TypeOK, PostingKind, PendingOf
<1>4. events \subseteq events' /\ events' \subseteq sent
  BY DEF CaptureTopUp, IsNew, Recorded, TypeOK
<1>5. Settlement(d, offer[o].price) >= 0
  BY <1>1 DEF TypeOK, IntentRow
<1> HIDE DEF balance, keys
<1>6. /\ deal[d].status = "COUNTER_OFFERED"
      /\ deal' = [deal EXCEPT ![d] = RenegotiatedDeal(deal[d], offer[o].price, offer[o].sla)]
      /\ DealsSound' /\ OffersSound'
      /\ deal' \in [Deals -> DealRow] /\ ledger' \in [Deals -> Balance]
      /\ offer' \in [CounterOffers -> OfferRow]
      /\ posted' \subseteq PostingKind \X (Deals \cup CounterOffers)
      /\ \A p \in CounterOffers : offer[p].status # "NONE" =>
             offer'[p].status # "NONE" /\ offer'[p].deal = offer[p].deal
  <2>1. o \in CounterOffers
    BY <1>2 DEF PendingOf
  <2>2. balance = Funded(ledger[d], Settlement(d, offer[o].price))
    BY <1>1 DEF balance
  <2> HIDE DEF d, o
  <2> QED BY <1>1, <1>2, <1>3, <1>5, <2>1, <2>2, RenegotiationKeeps
<1>7. IntentsSound' /\ intent' \in [Intents -> IntentRow]
  BY <1>1, <1>6, IntentCaptured
<1>8. TypeOK'
  BY <1>1, <1>4, <1>6, <1>7 DEF TypeOK
<1> QED BY <1>6, <1>7, <1>8

-----------------------------------------------------------------------------
(* Time only runs on the deadlines. *)
LEMMA TickKeeps ==
    ASSUME IInv, Tick
    PROVE  IInv'
<1> USE DEF IInv
<1>1. /\ deal' = [d \in Deals |-> TickedDeal(deal[d])]
      /\ UNCHANGED <<delivery, dispute, offer, intent, sent, events, flagged, ledger,
                     posted, slotsTaken, grants>>
  BY DEF Tick, paymentVars, moneyVars
<1>2. \A d \in Deals :
        /\ deal'[d] \in DealRow /\ SameTerms(deal[d], deal'[d])
        /\ deal'[d].status = deal[d].status /\ deal'[d].escrow = deal[d].escrow
  <2>1. ASSUME NEW d \in Deals
        PROVE  /\ deal'[d] \in DealRow /\ SameTerms(deal[d], deal'[d])
               /\ deal'[d].status = deal[d].status /\ deal'[d].escrow = deal[d].escrow
    <3>1. deal[d] \in DealRow /\ deal'[d] = TickedDeal(deal[d])
      BY <1>1 DEF TypeOK
    <3>2. TickedDeal(deal[d]) \in DealRow /\ SameTerms(deal[d], TickedDeal(deal[d]))
      BY <3>1, MethodsKeepTerms
    <3>3. /\ TickedDeal(deal[d]).status = deal[d].status
          /\ TickedDeal(deal[d]).escrow = deal[d].escrow
      BY <3>1 DEF TickedDeal, DealRow
    <3> QED BY <3>1, <3>2, <3>3
  <2> QED BY <2>1
<1>3. deal' \in [Deals -> DealRow]
  BY <1>1, <1>2
<1>4. DealsSound'
  <2>1. ASSUME NEW d \in Deals PROVE Sound(deal'[d], ledger[d])
    BY <1>2, MovedIsSound DEF DealsSound
  <2> QED BY <1>1, <2>1 DEF DealsSound
<1>5. IntentsSound'
  <2>1. \A i \in Intents : IsActive(i) => intent[i].deal \in Deals
    BY DEF IntentsSound, IsActive, ActiveStatus
  <2>2. \A d \in Deals : deal'[d].amount = deal[d].amount
    BY <1>2 DEF SameTerms
  <2>3. InitialIntentsCanStillLand'
    BY <1>1, <1>2, <2>1, <2>2 DEF IntentsSound, InitialIntentsCanStillLand, IsActive
  <2> QED BY <1>1, <2>3 DEF IntentsSound, IsActive
<1>6. OffersSound'
  <2>1. \A d \in Deals : deal'[d].price = deal[d].price /\ deal'[d].sla = deal[d].sla
    BY <1>2 DEF SameTerms
  <2> QED BY <1>1, <1>2, <2>1 DEF OffersSound, PendingOf
<1>7. TypeOK'
  BY <1>1, <1>3 DEF TypeOK
<1> QED BY <1>4, <1>5, <1>6, <1>7

-----------------------------------------------------------------------------
(* The invariant and what follows from it. *)

LEMMA InitEstablishes == Init => IInv
<1> SUFFICES ASSUME Init PROVE IInv
  OBVIOUS
<1>1. NoDeal \in DealRow /\ SidesAgree(NoDeal) /\ NoDeal.status = "NONE" /\ NoDeal.escrow = "PENDING"
  BY PolicyAssumption
  DEF NoDeal, DealRow, OfferKind, EscrowStatus, Deadline, NoDeadline, SidesAgree
<1>2. AddsUp(NoDeal)
  BY DEF NoDeal, AddsUp
<1>3. NoMoney \in Balance
  BY DEF NoMoney, Balance
<1>4. Books(NoDeal, NoMoney)
  BY <1>1, <1>2 DEF Books, NoMoney
<1>5. DealsSound
  BY <1>1, <1>3, <1>4 DEF Init, DealsSound, Sound
<1>6. NoIntent \in IntentRow /\ NoIntent.status = "NONE" /\ NoIntent.purpose = "INITIAL"
  BY DEF NoIntent, IntentRow, IntentStatus
<1>7. IntentsSound
  BY <1>6 DEF Init, IntentsSound, InitialIntentsCanStillLand, IsActive, ActiveStatus
<1>8. NoOffer \in OfferRow /\ NoOffer.status = "NONE"
  BY DEF NoOffer, OfferRow, OfferStatus
<1>9. OffersSound
  BY <1>1, <1>8 DEF Init, OffersSound
<1>10. TypeOK
  BY <1>1, <1>3, <1>6, <1>8, IdsAssumption DEF Init, TypeOK
<1> QED BY <1>5, <1>7, <1>9, <1>10 DEF IInv

LEMMA NextKeeps == IInv /\ [Next]_vars => IInv'
<1> SUFFICES ASSUME IInv, [Next]_vars PROVE IInv'
  OBVIOUS
<1>1. ASSUME NEW d \in Deals, NegotiationStep(d) PROVE IInv'
  BY <1>1, CreateDealKeeps, AcceptDealKeeps, DeclineDealKeeps, CounterOfferDealKeeps,
     AcceptCounterOfferKeeps, DeclineCounterOfferKeeps DEF NegotiationStep
<1>2. ASSUME NEW d \in Deals, PaymentStep(d) PROVE IInv'
  BY <1>2, StartDealPaymentKeeps, StartCounterOfferTopUpKeeps DEF PaymentStep
<1>3. ASSUME NEW d \in Deals, WorkStep(d) PROVE IInv'
  <2>1. CASE SubmitDelivery(d) \/ RejectDelivery(d) \/ ApproveDelivery(d) \/ RequestRefund(d)
    BY <2>1, SubmitDeliveryKeeps, RejectDeliveryKeeps, ApproveDeliveryKeeps, RequestRefundKeeps
  <2>2. CASE \/ \E party \in Parties : OpenDispute(d, party) \/ WithdrawDispute(d, party)
             \/ ResolveDisputeForBuyer(d)
             \/ ResolveDisputeForCreator(d)
    <3>1. "buyer" \in Parties
      BY DEF Parties
    <3> QED BY <2>2, <3>1, DisputeKeeps
  <2> QED BY <1>3, <2>1, <2>2 DEF WorkStep
<1>4. ASSUME NEW d \in Deals, SweepExpire(d) \/ SweepAutoApprove(d) PROVE IInv'
  BY <1>4, SweepExpireKeeps, ApproveDeliveryKeeps DEF SweepAutoApprove
<1>5. ASSUME NEW i \in Intents, HandleNotice(i) PROVE IInv'
  <2>1. "captured" \in NoticeType
    BY DEF NoticeType, CaptureType, FullCapture
  <2> QED
    BY <1>5, <2>1, NoticeKeeps, CaptureInitialKeeps, CaptureAndUnlockKeeps, CaptureTopUpKeeps
    DEF HandleNotice
<1>6. ASSUME NEW i \in Intents, NEW type \in NoticeType, ProviderNotifies(i, type) PROVE IInv'
  BY <1>6, NoticeKeeps
<1>7. CASE Tick
  BY <1>7, TickKeeps
<1>8. CASE UNCHANGED vars
  <2>1. UNCHANGED <<deal, delivery, dispute, offer, intent, sent, events, flagged,
                    ledger, posted, slotsTaken, grants>>
    BY <1>8 DEF vars
  <2>2. TypeOK'
    BY <2>1 DEF IInv, TypeOK
  <2> QED BY <2>1, <2>2, NothingMoves
<1> QED
  BY <1>1, <1>2, <1>3, <1>4, <1>5, <1>6, <1>7, <1>8 DEF Next

LEMMA InductiveInvariant == Spec => []IInv
BY InitEstablishes, NextKeeps, PTL DEF Spec

(* Every table keeps accepting its rows: among other things no deal ever     *)
(* counts more rejections than it has revisions (Deal.rejectDelivery), and   *)
(* no window lends more slots than it has (takeSlot).                       *)
THEOREM TypeCorrect == Spec => []TypeOK
<1>1. IInv => TypeOK
  BY DEF IInv
<1> QED BY <1>1, InductiveInvariant, PTL

(* However payments, top-ups, counter-offers, refunds and sweeps interleave, *)
(* the escrow account of a deal holds what the deal is worth while it is     *)
(* funded and nothing otherwise (applyAcceptedCounterOffer, release,         *)
(* closeEscrow).                                                            *)
THEOREM EscrowAlwaysMatches == Spec => []EscrowMatchesDeal
<1>1. IInv => EscrowMatchesDeal
  BY DEF IInv, DealsSound, Sound, Books, EscrowMatchesDeal
<1> QED BY <1>1, InductiveInvariant, PTL

(* The commercial and the money state of a deal never disagree (deal-status, *)
(* assertTransition, assertEscrowTransition, closeEscrow).                  *)
THEOREM StatusAlwaysAgrees == Spec => []StatusAgreesWithEscrow
<1>1. IInv => StatusAgreesWithEscrow
  BY DEF IInv, DealsSound, Sound, StatusAgreesWithEscrow
<1> QED BY <1>1, InductiveInvariant, PTL

(* Nobody but its owner ends up with the money of a deal, for every price    *)
(* and fee, and through every renegotiation (escrow-release, escrow-refund). *)
THEOREM MoneyAlwaysGoesToItsOwner == Spec => []MoneyGoesToItsOwner
<1>1. IInv => MoneyGoesToItsOwner
  <2> SUFFICES ASSUME IInv, NEW d \in Deals
               PROVE  LET money == ledger[d]
                      IN  /\ deal[d].escrow = "RELEASED" =>
                               /\ money.creator = deal[d].creatorNet
                               /\ money.fees    = deal[d].platformFee
                               /\ money.refunds = money.clearing - deal[d].amount
                          /\ deal[d].escrow # "RELEASED" => money.creator = 0 /\ money.fees = 0
                          /\ deal[d].escrow = "REFUNDED" => money.refunds = money.clearing
    BY DEF MoneyGoesToItsOwner
  <2>1. Books(deal[d], ledger[d]) /\ ledger[d] \in Balance /\ deal[d] \in DealRow
    BY DEF IInv, DealsSound, Sound
  <2>2. /\ ledger[d].clearing \in Int /\ ledger[d].escrow \in Int /\ ledger[d].refunds \in Int
        /\ ledger[d].creator \in Int /\ ledger[d].fees \in Int
    BY <2>1 DEF Balance
  <2>3. deal[d].amount \in Int /\ deal[d].creatorNet \in Int /\ deal[d].platformFee \in Int
    BY <2>1 DEF DealRow
  <2> QED BY <2>1, <2>2, <2>3 DEF Books, AddsUp
<1> QED BY <1>1, InductiveInvariant, PTL

(* No capture of an initial payment ever arrives at a deal that cannot take  *)
(* it (expireActiveByDeal in DeclineDeal and RunDealDeadlines).             *)
THEOREM InitialIntentsAlwaysLand == Spec => []InitialIntentsCanStillLand
<1>1. IInv => InitialIntentsCanStillLand
  BY DEF IInv, IntentsSound
<1> QED BY <1>1, InductiveInvariant, PTL
=============================================================================
