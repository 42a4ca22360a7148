--------------------------- MODULE DealLifecycle ---------------------------
(***************************************************************************)
(* The life of a deal and of its money: proposal, payment, negotiation,    *)
(* delivery, dispute, release or refund.  Every action is one use case of  *)
(* the deals and payments modules, whole: what it does to the deal, to the *)
(* payment intents, to the ledger, to the slot, to the content grants.     *)
(*                                                                         *)
(* Here the transactions of the use cases run one at a time; what happens  *)
(* when two of them overlap is the subject of DealTransactions.  A use     *)
(* case that throws rolls everything back, so it is not an action at all:  *)
(* its guard is the conjunction of everything that must not throw.         *)
(*                                                                         *)
(* The conversation, the audit log and the notifications that no property  *)
(* speaks of only grow and are never read back by these use cases; they    *)
(* are left out.  The actor checks (requireBuyer, requireCreator) are the  *)
(* names of the actions: only that party can take them.                    *)
(***************************************************************************)
EXTENDS DealMoney, FiniteSets, FiniteSetsExt

CONSTANTS
    Deals,         \* ids of deals
    Intents,       \* ids of payment intents (a bound: how often buyers pay)
    CounterOffers, \* ids of counter-offers (a bound: how often terms change)
    Buyers,        \* users who buy
    BuyerOf,       \* the buyer of each deal
    WindowSlots,   \* slotsTotal of the availability window that bookings share
    NoticesPerIntent \* event ids the provider uses for an intent (a bound)

ASSUME IdsAssumption ==
    /\ BuyerOf \in [Deals -> Buyers]
    /\ WindowSlots \in Nat
    /\ NoticesPerIntent \in Nat
    /\ IsFiniteSet(Deals)

VARIABLES
    deal,       \* the deals table
    delivery,   \* per deal, the latest row of deliveries and its answer
    dispute,    \* per deal, who opened the dispute that is open, or "none"
    offer,      \* the deal_counter_offers table
    intent,     \* the payment_intents table
    sent,       \* notifications the payment provider has sent
    events,     \* the payment_events table: notifications recorded
    flagged,    \* notifications whose money was put aside for reconciliation
    ledger,     \* per deal, the balance of each account it moved
    posted,     \* (kind, external_reference) pairs of ledger_transactions
    slotsTaken, \* slots_taken of the availability window
    grants      \* buyers with a content_grants row for the content on sale

vars == <<deal, delivery, dispute, offer, intent, sent, events, flagged,
          ledger, posted, slotsTaken, grants>>

paymentVars == <<intent, sent, events, flagged>>
moneyVars   == <<ledger, posted>>
-----------------------------------------------------------------------------
Parties      == {"buyer", "creator"}
ActiveStatus == {"CREATED", "PENDING"}
FullCapture  == {"captured", "captured again"} \* two event ids, the amount asked
CaptureType  == FullCapture \cup {"mismatched"}
NoticeType   == CaptureType \cup {"refused"}
OfferStatus  == {"NONE", "PENDING", "ACCEPTED", "DECLINED"}
IntentStatus == {"NONE", "CREATED", "PENDING", "CAPTURED", "FAILED", "EXPIRED"}

OfferRow  == [deal : Deals \cup {"none"}, price : Nat, sla : Nat, status : OfferStatus]
IntentRow == [deal : Deals \cup {"none"}, purpose : {"INITIAL", "TOP_UP"},
              offer : CounterOffers \cup {"none"}, amount : Nat, status : IntentStatus]

(* Ids that no row uses yet. *)
NoOffer  == [deal |-> "none", price |-> 0, sla |-> 0, status |-> "NONE"]
NoIntent == [deal |-> "none", purpose |-> "INITIAL", offer |-> "none",
             amount |-> 0, status |-> "NONE"]

PostingKind == {"ESCROW_FUNDING", "ESCROW_TOP_UP", "COUNTER_OFFER_REFUND",
                "ESCROW_RELEASE", "ESCROW_REFUND"}

IsActive(i)   == intent[i].status \in ActiveStatus
ActiveOf(d)   == {i \in Intents : intent[i].deal = d /\ IsActive(i)}
PendingOf(d)  == {o \in CounterOffers : offer[o].deal = d /\ offer[o].status = "PENDING"}
Settlement(d, price) == SettlementFor(deal[d].amount, price, FeeBasisPoints)

-----------------------------------------------------------------------------
(* The ledger: a posting whose semantic key exists aborts the transaction   *)
(* that attempts it.                                                        *)

NotPosted(kind, reference) == <<kind, reference>> \notin posted

(* EscrowReleaseService.release, from `row`, the deal already approved. *)
ReleaseEscrow(d, row) ==
    /\ CanRelease(row)
    /\ NotPosted("ESCROW_RELEASE", d)
    /\ deal'   = [deal EXCEPT ![d] = SettledDeal(row)]
    /\ ledger' = [ledger EXCEPT ![d] = Released(@, row)]
    /\ posted' = posted \cup {<<"ESCROW_RELEASE", d>>}

(* EscrowRefundService.closeEscrow, from `row`, the deal already closed: a  *)
(* deal nobody paid just fails its payment, a funded one returns the money. *)
CloseEscrow(d, row) ==
    /\ row.escrow = "HELD" => row.amount > 0 /\ NotPosted("ESCROW_REFUND", d)
    /\ deal'   = [deal EXCEPT ![d] = ClosedRow(row)]
    /\ ledger' = IF row.escrow = "HELD"
                 THEN [ledger EXCEPT ![d] = ReturnedToBuyer(@, row.amount)]
                 ELSE ledger
    /\ posted' = IF row.escrow = "HELD"
                 THEN posted \cup {<<"ESCROW_REFUND", d>>}
                 ELSE posted

(* intents.expireActiveByDeal, run when the deal closes unpaid. *)
KeepIntents(d) == intent' = intent \* mutant: the intent stays active

ExpireIntentsIfUnpaid(d) ==
    intent' = IF deal[d].escrow = "PENDING"
              THEN [i \in Intents |-> IF i \in ActiveOf(d)
                                      THEN [intent[i] EXCEPT !.status = "EXPIRED"]
                                      ELSE intent[i]]
              ELSE intent

(* SlotReleaseService.releaseFor: the conditional UPDATE of releaseSlot. *)
KeepSlot(d) == slotsTaken' = slotsTaken \* mutant: the slot is not given back

ReleaseSlot(d) ==
    slotsTaken' = IF deal[d].kind = "BOOKING" /\ slotsTaken > 0
                  THEN slotsTaken - 1
                  ELSE slotsTaken
-----------------------------------------------------------------------------
Init ==
    /\ deal       = [d \in Deals |-> NoDeal]
    /\ delivery   = [d \in Deals |-> [version |-> 0, answer |-> "none"]]
    /\ dispute    = [d \in Deals |-> "none"]
    /\ offer      = [o \in CounterOffers |-> NoOffer]
    /\ intent     = [i \in Intents |-> NoIntent]
    /\ sent       = {}
    /\ events     = {}
    /\ flagged    = {}
    /\ ledger     = [d \in Deals |-> NoMoney]
    /\ posted     = {}
    /\ slotsTaken = 0
    /\ grants     = {}

-----------------------------------------------------------------------------
(* Proposal and decision. *)

(* T1.  A booking takes its slot in the same transaction (takeSlot). *)
CreateDeal(d, kind, price, sla) ==
    /\ deal[d].status = "NONE"
    /\ kind = "BOOKING" => slotsTaken < WindowSlots
    /\ deal' = [deal EXCEPT ![d] = OpenedDeal(kind, price, sla)]
    /\ slotsTaken' = IF kind = "BOOKING" THEN slotsTaken + 1 ELSE slotsTaken
    /\ UNCHANGED <<delivery, dispute, offer, paymentVars, moneyVars, grants>>

(* T2. *)
AcceptDeal(d) ==
    /\ CanAccept(deal[d])
    /\ deal' = [deal EXCEPT ![d] = AcceptedDeal(deal[d])]
    /\ UNCHANGED <<delivery, dispute, offer, paymentVars, moneyVars, slotsTaken, grants>>

(* T3, the creator turns the deal down; also while a counter-offer waits,   *)
(* which stays pending.                                                    *)
DeclineDeal(d) ==
    /\ CanDecline(deal[d])
    /\ CloseEscrow(d, DeclinedDeal(deal[d]))
    /\ ExpireIntentsIfUnpaid(d)
    /\ ReleaseSlot(d)
    /\ UNCHANGED <<delivery, dispute, offer, sent, events, flagged, grants>>

(* T4. *)
CounterOfferDeal(d, o, price, sla) ==
    /\ <<price, sla>> # <<deal[d].price, deal[d].sla>>
    /\ CanCounterOffer(deal[d])
    /\ PendingOf(d) = {}
    /\ offer[o].status = "NONE"
    /\ deal'  = [deal EXCEPT ![d] = CounterOfferedDeal(deal[d])]
    /\ offer' = [offer EXCEPT ![o] = [deal |-> d, price |-> price, sla |-> sla,
                                      status |-> "PENDING"]]
    /\ UNCHANGED <<delivery, dispute, paymentVars, moneyVars, slotsTaken, grants>>

(* T5 on the rows and on the ledger, where `balance` is that of the deal    *)
(* and `keys` the postings before it: a lower price returns the difference. *)
ApplyAcceptedCounterOffer(d, o, balance, keys) ==
    LET settlement == Settlement(d, offer[o].price)
    IN  /\ CanRenegotiate(deal[d])
        /\ deal'   = [deal EXCEPT ![d] =
                        RenegotiatedDeal(deal[d], offer[o].price, offer[o].sla)]
        /\ offer'  = [offer EXCEPT ![o].status = "ACCEPTED"]
        /\ ledger' = [ledger EXCEPT ![d] =
                        IF settlement < 0 THEN ReturnedToBuyer(balance, -settlement)
                                          ELSE balance]
        /\ settlement < 0 => NotPosted("COUNTER_OFFER_REFUND", o)
        /\ posted' = keys \cup (IF settlement < 0 THEN {<<"COUNTER_OFFER_REFUND", o>>}
                                                  ELSE {})

(* The buyer accepts terms that cost no more than what is held. *)
AcceptCounterOffer(d, o) ==
    /\ o \in PendingOf(d)
    /\ Settlement(d, offer[o].price) <= 0
    /\ ApplyAcceptedCounterOffer(d, o, ledger[d], posted)
    /\ UNCHANGED <<delivery, dispute, paymentVars, slotsTaken, grants>>

(* T6. *)
DeclineCounterOffer(d, o) ==
    /\ o \in PendingOf(d)
    /\ CanDecline(deal[d])
    /\ offer' = [offer EXCEPT ![o].status = "DECLINED"]
    /\ CloseEscrow(d, DeclinedDeal(deal[d]))
    /\ ReleaseSlot(d)
    /\ UNCHANGED <<delivery, dispute, paymentVars, grants>>

-----------------------------------------------------------------------------
(* Payment. *)

(* What the gateway says when asked for a payment (external: what the only   *)
(* gateway the code has can say).  The port also allows "CAPTURED", and the  *)
(* use cases would store it on the intent without holding the money.        *)
GatewayAnswer == {"PENDING", "FAILED", "EXPIRED"}

(* The buyer starts a payment.  Repeating the idempotency key of the active  *)
(* intent returns that intent and changes nothing.                          *)
StartDealPayment(d, i, answer) ==
    /\ deal[d].status = "PROPOSED"
    /\ deal[d].escrow = "PENDING"
    /\ ActiveOf(d) = {}
    /\ intent[i].status = "NONE"
    /\ deal[d].amount > 0
    /\ intent' = [intent EXCEPT ![i] = [deal |-> d, purpose |-> "INITIAL",
                     offer |-> "none", amount |-> deal[d].amount, status |-> answer]]
    /\ UNCHANGED <<deal, delivery, dispute, offer, sent, events, flagged, moneyVars,
                   slotsTaken, grants>>

(* The same for the difference, where anything but "PENDING" is a failure. *)
StartCounterOfferTopUp(d, o, i, answer) ==
    /\ o \in PendingOf(d)
    /\ Settlement(d, offer[o].price) > 0
    /\ ActiveOf(d) = {}
    /\ intent[i].status = "NONE"
    /\ intent' = [intent EXCEPT ![i] = [deal |-> d, purpose |-> "TOP_UP", offer |-> o,
                     amount |-> Settlement(d, offer[o].price),
                     status |-> IF answer = "PENDING" THEN "PENDING" ELSE "FAILED"]]
    /\ UNCHANGED <<deal, delivery, dispute, offer, sent, events, flagged, moneyVars,
                   slotsTaken, grants>>

(* The provider (external): it may report an intent as captured for the      *)
(* amount asked, again for that amount under another event id, for another  *)
(* amount, and as failed or expired.  It repeats each notification until it *)
(* is answered, in any order.                                              *)
ProviderNotifies(i, type) ==
    /\ intent[i].status # "NONE"
    /\ <<i, type>> \notin sent
    /\ Cardinality({t \in NoticeType : <<i, t>> \in sent}) < NoticesPerIntent
    /\ type = "captured again" => <<i, "captured">> \in sent
    /\ sent' = sent \cup {<<i, type>>}
    /\ UNCHANGED <<deal, delivery, dispute, offer, intent, events, flagged, moneyVars,
                   slotsTaken, grants>>

(* HandlePaymentCaptured.execute, one action per outcome.  recordIfNew lets *)
(* a notification through once; a repeated one changes nothing.            *)
IsSent(i, type) == <<i, type>> \in sent \* mutant: a repeated one is let through
IsNew(i, type)  == <<i, type>> \in sent \ events
Recorded(i, type) == events' = events \cup {<<i, type>>}

(* payment.failed and payment.expired are recorded and change nothing else. *)
IgnoreNotice(i) ==
    /\ IsNew(i, "refused")
    /\ Recorded(i, "refused")
    /\ UNCHANGED <<deal, delivery, dispute, offer, intent, sent, flagged, moneyVars,
                   slotsTaken, grants>>

(* The top-up has no live counter-offer to close, or is not what is missing. *)
IsDeadTopUp(i) ==
    /\ intent[i].purpose = "TOP_UP"
    /\ ~ /\ offer[intent[i].offer].status = "PENDING"
         /\ intent[i].amount = Settlement(intent[i].deal, offer[intent[i].offer].price)

(* inactive_intent, amount_mismatch and settlement_mismatch: the money has   *)
(* nowhere to go and is left for reconciliation.  An intent whose capture   *)
(* was of another amount stays active.                                     *)
FlagCapture(i, type) ==
    /\ type \in CaptureType
    /\ IsNew(i, type)
    /\ IsActive(i) /\ type \in FullCapture => IsDeadTopUp(i)
    /\ Recorded(i, type)
    /\ flagged' = flagged \cup {<<i, type>>}
    /\ UNCHANGED <<deal, delivery, dispute, offer, intent, sent, moneyVars, slotsTaken,
                   grants>>

CaptureIntent(i) == intent' = [intent EXCEPT ![i].status = "CAPTURED"]

(* E1, for everything but content that can be unlocked. *)
CaptureInitial(i, type) ==
    LET d == intent[i].deal
    IN  /\ IsNew(i, type)
        /\ IsActive(i)
        /\ intent[i].purpose = "INITIAL"
        /\ deal[d].kind # "CONTENT_UNLOCK"
        /\ CanHold(deal[d])
        /\ NotPosted("ESCROW_FUNDING", d)
        /\ CaptureIntent(i)
        /\ Recorded(i, type)
        /\ deal'   = [deal EXCEPT ![d] = HeldDeal(deal[d])]
        /\ ledger' = [ledger EXCEPT ![d] = Funded(@, intent[i].amount)]
        /\ posted' = posted \cup {<<"ESCROW_FUNDING", d>>}
        /\ UNCHANGED <<delivery, dispute, offer, sent, flagged, slotsTaken, grants>>

(* createGrant does not break UNIQUE(content_id, user_id). *)
GrantableIfUnpaid(d) == deal[d].status # "PAID" \* mutant: one grant per deal
Grantable(d) == BuyerOf[d] \notin grants

(* E1 of a purchase of content: accepted, delivered, approved and released   *)
(* in the transaction that held the money; a grant the buyer already has    *)
(* takes everything back.                                                  *)
CaptureAndUnlock(i, type) ==
    LET d    == intent[i].deal
        held == HeldDeal(deal[d])
        done == ApprovedDeal(DeliveredDeal(AcceptedDeal(held)))
    IN  /\ IsNew(i, type)
        /\ IsActive(i)
        /\ intent[i].purpose = "INITIAL"
        /\ deal[d].kind = "CONTENT_UNLOCK"
        /\ CanHold(deal[d]) /\ CanAccept(held)
        /\ CanRelease(done)
        /\ Grantable(d)
        /\ NotPosted("ESCROW_FUNDING", d) /\ NotPosted("ESCROW_RELEASE", d)
        /\ CaptureIntent(i)
        /\ Recorded(i, type)
        /\ deal'   = [deal EXCEPT ![d] = SettledDeal(done)]
        /\ ledger' = [ledger EXCEPT ![d] = Released(Funded(@, intent[i].amount), done)]
        /\ posted' = posted \cup {<<"ESCROW_FUNDING", d>>, <<"ESCROW_RELEASE", d>>}
        /\ grants' = grants \cup {BuyerOf[d]}
        /\ UNCHANGED <<delivery, dispute, offer, sent, flagged, slotsTaken>>

(* applyTopUp: the difference is in, and T5 happens with it. *)
CaptureTopUp(i, type) ==
    LET d == intent[i].deal
        o == intent[i].offer
    IN  /\ IsNew(i, type)
        /\ IsActive(i)
        /\ intent[i].purpose = "TOP_UP"
        /\ ~ IsDeadTopUp(i)
        /\ NotPosted("ESCROW_TOP_UP", o)
        /\ CaptureIntent(i)
        /\ Recorded(i, type)
        /\ ApplyAcceptedCounterOffer(d, o, Funded(ledger[d], intent[i].amount),
                                     posted \cup {<<"ESCROW_TOP_UP", o>>})
        /\ UNCHANGED <<delivery, dispute, sent, flagged, slotsTaken, grants>>

-----------------------------------------------------------------------------
(* Work, approval and dispute. *)

(* T8. *)
SubmitDelivery(d) ==
    /\ CanDeliver(deal[d])
    /\ deal'     = [deal EXCEPT ![d] = DeliveredDeal(deal[d])]
    /\ delivery' = [delivery EXCEPT ![d] = [version |-> @.version + 1,
                                            answer |-> "waiting"]]
    /\ UNCHANGED <<dispute, offer, paymentVars, moneyVars, slotsTaken, grants>>

(* T11. *)
RejectDelivery(d) ==
    /\ CanReject(deal[d])
    /\ delivery[d].version > 0
    /\ deal'     = [deal EXCEPT ![d] = RejectedDeal(deal[d])]
    /\ delivery' = [delivery EXCEPT ![d].answer = "rejected"]
    /\ UNCHANGED <<dispute, offer, paymentVars, moneyVars, slotsTaken, grants>>

NotDisputedByBuyer(d) == dispute[d] # "buyer" \* mutant: the creator's are ignored
NotDisputed(d) == dispute[d] = "none"

(* T9 and T12 by the buyer, T10 and T12 by the sweep: ApproveDelivery.execute. *)
(* It would also release a deal that it found APPROVED; none is ever left in *)
(* that state (StatusAgreesWithEscrow).                                     *)
ApproveDelivery(d) ==
    /\ NotDisputed(d)
    /\ CanApprove(deal[d])
    /\ ReleaseEscrow(d, ApprovedDeal(deal[d]))
    /\ delivery' = IF delivery[d].version > 0
                   THEN [delivery EXCEPT ![d].answer = "accepted"]
                   ELSE delivery
    /\ UNCHANGED <<dispute, offer, paymentVars, slotsTaken, grants>>

(* T16: no dispute is looked for. *)
RequestRefund(d) ==
    /\ IsRefundableForLateDelivery(deal[d])
    /\ CanRefund(deal[d])
    /\ CloseEscrow(d, RefundedDeal(deal[d]))
    /\ UNCHANGED <<delivery, dispute, offer, paymentVars, slotsTaken, grants>>

DisputableStatus == {"ACCEPTED", "IN_PROGRESS", "DELIVERED"}

OpenDispute(d, party) ==
    /\ deal[d].status \in DisputableStatus
    /\ dispute[d] = "none"
    /\ dispute' = [dispute EXCEPT ![d] = party]
    /\ UNCHANGED <<deal, delivery, offer, paymentVars, moneyVars, slotsTaken, grants>>

(* Only the party that opened it. *)
WithdrawDispute(d, party) ==
    /\ dispute[d] = party
    /\ dispute' = [dispute EXCEPT ![d] = "none"]
    /\ UNCHANGED <<deal, delivery, offer, paymentVars, moneyVars, slotsTaken, grants>>

(* T15. *)
ResolveDisputeForBuyer(d) ==
    /\ dispute[d] # "none"
    /\ CanRefund(deal[d])
    /\ dispute' = [dispute EXCEPT ![d] = "none"]
    /\ CloseEscrow(d, RefundedDeal(deal[d]))
    /\ UNCHANGED <<delivery, offer, paymentVars, slotsTaken, grants>>

(* The dispute stops blocking and nothing else moves. *)
ResolveDisputeForCreator(d) ==
    /\ dispute[d] # "none"
    /\ dispute' = [dispute EXCEPT ![d] = "none"]
    /\ UNCHANGED <<deal, delivery, offer, paymentVars, moneyVars, slotsTaken, grants>>

-----------------------------------------------------------------------------
(* Time. *)

(* T13, RunDealDeadlines.expire.  Pending counter-offers stay as they are. *)
SweepExpire(d) ==
    /\ HasExpired(deal[d])
    /\ CanExpire(deal[d])
    /\ CloseEscrow(d, ExpiredDeal(deal[d]))
    /\ ExpireIntentsIfUnpaid(d)
    /\ ReleaseSlot(d)
    /\ UNCHANGED <<delivery, dispute, offer, sent, events, flagged, grants>>

(* T10: what listPendingAutoApproval finds is approved by nobody. *)
SweepAutoApprove(d) ==
    /\ deal[d].status = "DELIVERED"
    /\ deal[d].approvalIn = 0
    /\ ApproveDelivery(d)

(* The clock, the same for every deal. *)
Tick ==
    /\ deal' = [d \in Deals |-> TickedDeal(deal[d])]
    /\ deal' # deal
    /\ UNCHANGED <<delivery, dispute, offer, paymentVars, moneyVars, slotsTaken, grants>>

-----------------------------------------------------------------------------
HandleNotice(i) ==
    \/ IgnoreNotice(i)
    \/ \E type \in NoticeType : FlagCapture(i, type)
    \/ \E type \in FullCapture :
           CaptureInitial(i, type) \/ CaptureAndUnlock(i, type) \/ CaptureTopUp(i, type)

NegotiationStep(d) ==
    \/ \E kind \in OfferKind, price \in Prices, sla \in Slas : CreateDeal(d, kind, price, sla)
    \/ AcceptDeal(d)
    \/ DeclineDeal(d)
    \/ \E o \in CounterOffers, price \in Prices, sla \in Slas : CounterOfferDeal(d, o, price, sla)
    \/ \E o \in CounterOffers : AcceptCounterOffer(d, o)
    \/ \E o \in CounterOffers : DeclineCounterOffer(d, o)

PaymentStep(d) ==
    \/ \E i \in Intents, answer \in GatewayAnswer : StartDealPayment(d, i, answer)
    \/ \E o \in CounterOffers, i \in Intents, answer \in GatewayAnswer :
           StartCounterOfferTopUp(d, o, i, answer)

WorkStep(d) ==
    \/ SubmitDelivery(d)
    \/ RejectDelivery(d)
    \/ ApproveDelivery(d)
    \/ RequestRefund(d)
    \/ \E party \in Parties : OpenDispute(d, party) \/ WithdrawDispute(d, party)
    \/ ResolveDisputeForBuyer(d)
    \/ ResolveDisputeForCreator(d)

Next ==
    \/ \E d \in Deals : \/ NegotiationStep(d)
                       \/ PaymentStep(d)
                       \/ WorkStep(d)
                       \/ SweepExpire(d)
                       \/ SweepAutoApprove(d)
    \/ \E i \in Intents : HandleNotice(i)
    \/ \E i \in Intents, type \in NoticeType : ProviderNotifies(i, type)
    \/ Tick

Spec == Init /\ [][Next]_vars

(* What the code schedules by itself: time passes, DealDeadlinesScheduler    *)
(* runs the sweep again and again, and the provider repeats a notification  *)
(* until it is answered.  Nothing obliges a user or an administrator.       *)
Fairness ==
    /\ WF_vars(Tick)
    /\ \A d \in Deals : WF_vars(SweepExpire(d)) /\ WF_vars(SweepAutoApprove(d))
    /\ \A i \in Intents : WF_vars(HandleNotice(i))

LiveSpec == Spec /\ Fairness

-----------------------------------------------------------------------------
(* Every variable holds rows that its table accepts; in particular a deal   *)
(* never counts more rejected deliveries than it has revisions (RN-044).    *)
TypeOK ==
    /\ deal       \in [Deals -> DealRow]
    /\ delivery   \in [Deals -> [version : Nat,
                                 answer : {"none", "waiting", "accepted", "rejected"}]]
    /\ dispute    \in [Deals -> Parties \cup {"none"}]
    /\ offer      \in [CounterOffers -> OfferRow]
    /\ intent     \in [Intents -> IntentRow]
    /\ sent       \subseteq Intents \X NoticeType
    /\ events     \subseteq sent
    /\ flagged    \subseteq events
    /\ ledger     \in [Deals -> Balance]
    /\ posted     \subseteq PostingKind \X (Deals \cup CounterOffers)
    /\ slotsTaken \in 0 .. WindowSlots
    /\ grants     \subseteq Buyers

(* What protects T2: while a deal is funded the escrow account holds exactly *)
(* what the deal says it is worth, through every renegotiation, and as soon  *)
(* as it is not funded the account is empty (deal.ts acceptCounterOffer,     *)
(* respond-counter-offer.use-case.ts applyAcceptedCounterOffer).             *)
EscrowMatchesDeal ==
    \A d \in Deals :
        ledger[d].escrow = IF deal[d].escrow = "HELD" THEN deal[d].amount ELSE 0

(* Where the money ends up: a paid deal gave the creator the net and the     *)
(* platform its fee and returned whatever else was captured; a deal that is  *)
(* not paid gave nothing to either, and one that was refunded returned all   *)
(* (escrow-release.ts, escrow-refund.ts).                                    *)
MoneyGoesToItsOwner ==
    \A d \in Deals :
        LET money == ledger[d]
        IN  /\ deal[d].escrow = "RELEASED" =>
                 /\ money.creator = deal[d].creatorNet
                 /\ money.fees    = deal[d].platformFee
                 /\ money.refunds = money.clearing - deal[d].amount
            /\ deal[d].escrow # "RELEASED" => money.creator = 0 /\ money.fees = 0
            /\ deal[d].escrow = "REFUNDED" => money.refunds = money.clearing

(* The two state machines of a deal agree: an unpaid deal is only ever       *)
(* waiting for a decision, work is only done on held money, and a closed     *)
(* deal has its money side closed.  APPROVED is never left in the table      *)
(* (deal-status.ts, closeEscrow, release).                                   *)
StatusAgreesWithEscrow == \A d \in Deals : SidesAgree(deal[d])

(* Every capture that the provider reported, once it is recorded, is in the  *)
(* books of its deal or put aside for a person, never both and never neither: *)
(* of all that arrive for one intent, of the right amount or not, exactly   *)
(* one of the right amount is booked if the intent is CAPTURED, and none if *)
(* it is not.  The clearing account is the sum of what was booked (RN-091,  *)
(* RN-094, handle-payment-captured.use-case.ts).                            *)
CapturedMoneyIsAccountedFor ==
    /\ \A i \in Intents :
          LET booked == {type \in CaptureType : <<i, type>> \in events \ flagged}
          IN  IF intent[i].status = "CAPTURED"
              THEN \E type \in FullCapture : booked = {type}
              ELSE booked = {}
    /\ \A d \in Deals :
          LET captured == {i \in Intents : intent[i].deal = d /\ intent[i].status = "CAPTURED"}
          IN  ledger[d].clearing = MapThenSumSet(LAMBDA i : intent[i].amount, captured)

(* An intent that can still capture the initial payment belongs to a deal    *)
(* that can still take it, for the amount the deal still has: no capture     *)
(* arrives with nowhere to land (expireActiveByDeal, closeEscrow).           *)
InitialIntentsCanStillLand ==
    \A i \in Intents :
        IsActive(i) /\ intent[i].purpose = "INITIAL" =>
            LET d == intent[i].deal
            IN  /\ deal[d].status = "PROPOSED"
                /\ deal[d].escrow = "PENDING"
                /\ intent[i].amount = deal[d].amount

(* A deal under counter-offer has exactly one that waits for the buyer, and  *)
(* it is for other terms; none waits at a deal that the creator may accept,  *)
(* that is under way, paid or returned (counter-offer-deal.use-case.ts,      *)
(* respond-counter-offer.use-case.ts).  One that was never answered goes on  *)
(* waiting at a deal that was declined or expired under it.                  *)
CounterOfferMatchesDeal ==
    \A d \in Deals :
        /\ Cardinality(PendingOf(d)) <= 1
        /\ deal[d].status = "COUNTER_OFFERED" =>
              \E o \in PendingOf(d) :
                  <<offer[o].price, offer[o].sla>> # <<deal[d].price, deal[d].sla>>
        /\ PendingOf(d) # {} =>
              deal[d].status \in {"COUNTER_OFFERED", "DECLINED", "EXPIRED"}

(* The slots taken are those of the bookings that were not turned down and   *)
(* did not expire: none is lost and none is given back twice                 *)
(* (create-deal.use-case.ts reserveSlot, slot-release.ts).                   *)
SlotsTakenByBookings ==
    slotsTaken = Cardinality({d \in Deals :
                    /\ deal[d].kind = "BOOKING"
                    /\ deal[d].status \notin {"NONE", "DECLINED", "EXPIRED"}})

(* A deal that waits for the buyer's answer has a latest delivery that does, *)
(* and one that waits belongs to such a deal, or to one that was returned    *)
(* under it.  The deal counts one rejection per delivery sent back, and work *)
(* that is paid was accepted in its latest version; content has no delivery  *)
(* at all (submit-delivery, reject-delivery, approve-delivery use cases).    *)
DeliveryMatchesDeal ==
    \A d \in Deals :
        LET latest == delivery[d]
        IN  /\ deal[d].status = "DELIVERED" =>
                  latest.answer = "waiting" /\ latest.version = deal[d].revisionCount + 1
            /\ latest.answer = "waiting" => deal[d].status \in {"DELIVERED", "REFUNDED"}
            /\ deal[d].status = "IN_PROGRESS" =>
                  latest.answer = "rejected" /\ latest.version = deal[d].revisionCount
            /\ deal[d].status = "PAID" =>
                  latest.answer = IF deal[d].kind = "CONTENT_UNLOCK" THEN "none" ELSE "accepted"

(* So the question that a deal waits for is there to be answered, and none   *)
(* that waits belongs to a deal that has moved on, but for those that the    *)
(* deal was closed under (both of the above).                                *)
QuestionsMatchTheDeal == CounterOfferMatchesDeal /\ DeliveryMatchesDeal

(* A buyer has the content exactly when one deal for it was paid, and never  *)
(* pays for it twice (fulfil-content-unlock.use-case.ts).                    *)
ContentIsPaidOnce ==
    \A b \in Buyers :
        Cardinality({d \in Deals : /\ BuyerOf[d] = b
                                   /\ deal[d].kind = "CONTENT_UNLOCK"
                                   /\ deal[d].status = "PAID"})
            = IF b \in grants THEN 1 ELSE 0

(* RN-048: the escrow of a deal is never released while a dispute over it is *)
(* open (approve-delivery.use-case.ts).                                      *)
NoReleaseUnderDispute ==
    [][\A d \in Deals :
          deal[d].escrow # "RELEASED" /\ deal'[d].escrow = "RELEASED" =>
              dispute[d] = "none" /\ dispute'[d] = "none"]_vars

(* A deal is not left undecided: the creator or the buyer decides in time,   *)
(* or the sweep closes it (run-deal-deadlines.use-case.ts).                  *)
UndecidedDealsAreDecided ==
    \A d \in Deals :
        /\ deal[d].status = "PROPOSED" ~> deal[d].status # "PROPOSED"
        /\ deal[d].status = "COUNTER_OFFERED" ~> deal[d].status # "COUNTER_OFFERED"

(* A delivery is not left unanswered: if no dispute blocks it for ever, the  *)
(* deal leaves DELIVERED, at the latest when the approval window is over.    *)
DeliveriesAreAnswered ==
    \A d \in Deals :
        []<>(dispute[d] # "none" \/ deal[d].status # "DELIVERED")

(* Every capture of an initial payment that the provider reports is          *)
(* recorded, in the books or as flagged.                                     *)
InitialCapturesAreAnswered ==
    \A i \in Intents :
        \A type \in FullCapture :
            <<i, type>> \in sent /\ intent[i].purpose = "INITIAL"
                ~> <<i, type>> \in events
-----------------------------------------------------------------------------
(* What the documents say of the system and the code does not keep.          *)

(* A counter-offer is no longer live when the deadline has fallen ("Um        *)
(* reforço sem contraproposta viva já não tem acordo para fechar [...] o      *)
(* prazo caiu", handle-payment-captured.use-case.ts:292).  The sweep expires  *)
(* the deal and leaves its counter-offer pending, and so does the creator who *)
(* declines it.                                                               *)
OffersEndWithTheDeadline ==
    \A d \in Deals : deal[d].status = "EXPIRED" => PendingOf(d) = {}

(* A top-up that arrives after that is left for reconciliation (the same      *)
(* comment).  T5 throws instead, since the counter-offer is still pending and *)
(* the deal is not, and the notification is never recorded.                   *)
TopUpCapturesAreAnswered ==
    \A i \in Intents :
        <<i, "captured">> \in sent /\ intent[i].purpose = "TOP_UP"
            ~> <<i, "captured">> \in events
=============================================================================
