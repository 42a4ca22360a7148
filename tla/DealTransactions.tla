-------------------------- MODULE DealTransactions --------------------------
(***************************************************************************)
(* The use cases of deals when their database transactions overlap.  Each  *)
(* one runs in a transaction at READ COMMITTED that reads the deal without *)
(* locking it, changes the object in memory and at the end overwrites the  *)
(* row (deals.save): what other transactions committed in between is not   *)
(* seen and is undone.  What holds nevertheless is what the database keeps: *)
(* unique keys and the conditional UPDATEs of the slots.                   *)
(*                                                                         *)
(* An open transaction is                                                  *)
(*     found    it has looked up what leads it to the deal (a captured     *)
(*              intent, a dispute, the sweep's list)                       *)
(*     read     it has read the deal and has the row it will write         *)
(*     checked  it has seen that no dispute is open                        *)
(* and everything it writes becomes visible when it commits.  It may roll  *)
(* back at any time.  Terms are not renegotiated and nothing is topped up  *)
(* here, and content is left to DealLifecycle.                             *)
(***************************************************************************)
EXTENDS DealMoney, FiniteSets, FiniteSetsExt

CONSTANTS
    Deals,        \* ids of deals
    Intents,      \* ids of payment intents (a bound: how often buyers pay)
    Transactions, \* database transactions that may be open at once (a bound)
    Uses,         \* the use cases that run in this instance
    MaxDisputes,  \* how often a deal may be disputed (a bound)
    MaxVersions,  \* how often work may be delivered (a bound: a lost update can
                  \* give a revision back, so RevisionsIncluded bounds nothing)
    WindowSlots   \* slotsTotal of the availability window that bookings share

UseCase == {"pay", "capture", "accept", "decline", "expire", "deliver", "reject", "approve",
            "autoApprove", "refund", "openDispute", "resolveForBuyer", "message"}

ASSUME TransactionsAssumption ==
    /\ "none" \notin Deals
    /\ Uses \subseteq UseCase
    /\ WindowSlots \in Nat
    /\ MaxDisputes \in Nat /\ MaxVersions \in Nat

VARIABLES
    deal,       \* the deals table
    delivered,  \* per deal, the latest version in deliveries
    dispute,    \* per deal, its latest dispute and whether it is open
    intent,     \* the payment_intents table
    noticed,    \* intents whose captured notification is in payment_events
    flagged,    \* intents whose money was put aside for reconciliation
    ledger,     \* per deal, the balance of each account it moved
    posted,     \* (kind, external_reference) pairs of ledger_transactions
    slotsTaken, \* slots_taken of the availability window
    tx          \* the open transactions

vars == <<deal, delivered, dispute, intent, noticed, flagged, ledger, posted, slotsTaken, tx>>

tables == <<deal, delivered, dispute, intent, noticed, flagged, ledger, posted, slotsTaken>>
-----------------------------------------------------------------------------
IntentStatus == {"NONE", "PENDING", "CAPTURED", "EXPIRED"}
IntentRow    == [deal : Deals \cup {"none"}, status : IntentStatus]
NoIntent     == [deal |-> "none", status |-> "NONE"]

DisputeRow == [id : 0 .. MaxDisputes, open : BOOLEAN]

ActiveOf(d) == {i \in Intents : intent[i].deal = d /\ intent[i].status = "PENDING"}

(* `ref` is what was looked up: the intent, the dispute or the version. *)
TransactionRow ==
    [phase : {"idle", "found", "read", "checked"}, use : UseCase \cup {"none"},
     deal : Deals \cup {"none"}, ref : Intents \cup Nat, seen : DealRow, row : DealRow]

Idle == [phase |-> "idle", use |-> "none", deal |-> "none", ref |-> 0,
         seen |-> NoDeal, row |-> NoDeal]

IsIdle(t) == tx[t].phase = "idle"

Init ==
    /\ deal       = [d \in Deals |-> NoDeal]
    /\ delivered  = [d \in Deals |-> 0]
    /\ dispute    = [d \in Deals |-> [id |-> 0, open |-> FALSE]]
    /\ intent     = [i \in Intents |-> NoIntent]
    /\ noticed    = {}
    /\ flagged    = {}
    /\ ledger     = [d \in Deals |-> NoMoney]
    /\ posted     = {}
    /\ slotsTaken = 0
    /\ tx         = [t \in Transactions |-> Idle]
-----------------------------------------------------------------------------
(* Reading.  `row` is the deal as the use case leaves it in memory, once the *)
(* assertions of the entity have passed on what was read.                    *)

Finds(t, use, d, ref) ==
    /\ use \in Uses
    /\ IsIdle(t)
    /\ tx' = [tx EXCEPT ![t] = [Idle EXCEPT !.phase = "found", !.use = use, !.deal = d,
                                            !.ref = ref]]
    /\ UNCHANGED tables

Reads(t, use, d, ref, row) ==
    /\ use \in Uses
    /\ tx' = [tx EXCEPT ![t] = [phase |-> "read", use |-> use, deal |-> d, ref |-> ref,
                                seen |-> deal[d], row |-> row]]
    /\ UNCHANGED tables

(* StartDealPayment. *)
ReadToPay(t, d, i) ==
    /\ IsIdle(t)
    /\ deal[d].status = "PROPOSED" /\ deal[d].escrow = "PENDING"
    /\ ActiveOf(d) = {}
    /\ intent[i].status = "NONE"
    /\ Reads(t, "pay", d, i, deal[d])

(* HandlePaymentCaptured: the intent first, then the deal. *)
FindCaptured(t, i) ==
    /\ intent[i].status = "PENDING"
    /\ i \notin noticed
    /\ Finds(t, "capture", intent[i].deal, i)

ReadToCapture(t, d) ==
    /\ tx[t].phase = "found" /\ tx[t].use = "capture" /\ tx[t].deal = d
    /\ CanHold(deal[d])
    /\ Reads(t, "capture", d, tx[t].ref, HeldDeal(deal[d]))

ReadToAccept(t, d) ==
    /\ IsIdle(t)
    /\ CanAccept(deal[d])
    /\ Reads(t, "accept", d, 0, AcceptedDeal(deal[d]))

ReadToDecline(t, d) ==
    /\ IsIdle(t)
    /\ CanDecline(deal[d])
    /\ Reads(t, "decline", d, 0, ClosedRow(DeclinedDeal(deal[d])))

(* The sweep lists deals outside any transaction, and reads each again. *)
ReadToExpire(t, d) ==
    /\ IsIdle(t)
    /\ HasExpired(deal[d]) /\ CanExpire(deal[d])
    /\ Reads(t, "expire", d, 0, ClosedRow(ExpiredDeal(deal[d])))

ReadToDeliver(t, d) ==
    /\ IsIdle(t)
    /\ CanDeliver(deal[d])
    /\ delivered[d] < MaxVersions
    /\ Reads(t, "deliver", d, delivered[d] + 1, DeliveredDeal(deal[d]))

ReadToReject(t, d) ==
    /\ IsIdle(t)
    /\ CanReject(deal[d]) /\ delivered[d] > 0
    /\ Reads(t, "reject", d, 0, RejectedDeal(deal[d]))

(* ApproveDelivery: the deal, and after it the disputes. *)
ReadsToApprove(t, use, d) ==
    /\ CanApprove(deal[d]) /\ CanRelease(ApprovedDeal(deal[d]))
    /\ Reads(t, use, d, 0, SettledDeal(ApprovedDeal(deal[d])))

ReadToApprove(t, d) == IsIdle(t) /\ ReadsToApprove(t, "approve", d)

(* T10: found on the list as overdue, then approved as the buyer would.      *)
ListOverdue(t, d) ==
    /\ deal[d].status = "DELIVERED" /\ deal[d].approvalIn = 0
    /\ Finds(t, "autoApprove", d, 0)

ReadToAutoApprove(t, d) ==
    /\ tx[t].phase = "found" /\ tx[t].use = "autoApprove" /\ tx[t].deal = d
    /\ ReadsToApprove(t, "autoApprove", d)

CheckDispute(t) ==
    /\ tx[t].phase = "read" /\ tx[t].use \in {"approve", "autoApprove"}
    /\ ~ dispute[tx[t].deal].open
    /\ tx' = [tx EXCEPT ![t].phase = "checked"]
    /\ UNCHANGED tables

ReadToRefund(t, d) ==
    /\ IsIdle(t)
    /\ IsRefundableForLateDelivery(deal[d]) /\ CanRefund(deal[d])
    /\ Reads(t, "refund", d, 0, ClosedRow(RefundedDeal(deal[d])))

DisputableStatus == {"ACCEPTED", "IN_PROGRESS", "DELIVERED"}

ReadToOpenDispute(t, d) ==
    /\ IsIdle(t)
    /\ deal[d].status \in DisputableStatus
    /\ ~ dispute[d].open /\ dispute[d].id < MaxDisputes
    /\ Reads(t, "openDispute", d, dispute[d].id + 1, deal[d])

(* ResolveDispute: the dispute first, then its deal. *)
FindDispute(t, d) ==
    /\ dispute[d].open
    /\ Finds(t, "resolveForBuyer", d, dispute[d].id)

ReadToResolveForBuyer(t, d) ==
    /\ tx[t].phase = "found" /\ tx[t].use = "resolveForBuyer" /\ tx[t].deal = d
    /\ CanRefund(deal[d])
    /\ Reads(t, "resolveForBuyer", d, tx[t].ref, ClosedRow(RefundedDeal(deal[d])))

(* SendMessage and AdminPostMessage: only lastMessageAt changes. *)
ReadToSendMessage(t, d) ==
    /\ IsIdle(t)
    /\ deal[d].status # "NONE"
    /\ Reads(t, "message", d, 0, deal[d])
-----------------------------------------------------------------------------
(* Committing. *)

IsReady(t, uses) == tx[t].phase = "read" /\ tx[t].use \in uses

(* deals.save: the whole row as it was read and changed. *)
Saves(t) == deal' = [deal EXCEPT ![tx[t].deal] = tx[t].row]

Ends(t) == tx' = [tx EXCEPT ![t] = Idle]

(* Mutant: nothing is unique in ledger_transactions. *)
AlwaysNew(kind, d) == TRUE

NotPosted(kind, d) == <<kind, d>> \notin posted

Posts(kind, d, balance) ==
    /\ NotPosted(kind, d)
    /\ posted' = posted \cup {<<kind, d>>}
    /\ ledger' = [ledger EXCEPT ![d] = balance]

CommitStatus(t) ==
    /\ IsReady(t, {"accept", "reject", "message"})
    /\ Saves(t)
    /\ Ends(t)
    /\ UNCHANGED <<delivered, dispute, intent, noticed, flagged, ledger, posted, slotsTaken>>

(* UNIQUE(deal_id, version). *)
CommitDelivery(t) ==
    /\ IsReady(t, {"deliver"})
    /\ tx[t].ref = delivered[tx[t].deal] + 1
    /\ delivered' = [delivered EXCEPT ![tx[t].deal] = tx[t].ref]
    /\ Saves(t)
    /\ Ends(t)
    /\ UNCHANGED <<dispute, intent, noticed, flagged, ledger, posted, slotsTaken>>

(* payment_intents_one_active_per_deal, a partial unique index. *)
NoneActive(d) == ActiveOf(d) = {}

CommitPay(t) ==
    LET d == tx[t].deal
        i == tx[t].ref
    IN  /\ IsReady(t, {"pay"})
        /\ NoneActive(d)
        /\ intent[i].status = "NONE"
        /\ intent' = [intent EXCEPT ![i] = [deal |-> d, status |-> "PENDING"]]
        /\ Ends(t)
        /\ UNCHANGED <<deal, delivered, dispute, noticed, flagged, ledger, posted, slotsTaken>>

(* Mutant: a repeated notification is let through. *)
EverNew(i) == TRUE

(* UNIQUE(provider_event_id). *)
IsNew(i) == i \notin noticed

CommitCapture(t) ==
    LET d == tx[t].deal
        i == tx[t].ref
    IN  /\ IsReady(t, {"capture"})
        /\ IsNew(i)
        /\ noticed' = noticed \cup {i}
        /\ intent'  = [intent EXCEPT ![i].status = "CAPTURED"]
        /\ Posts("ESCROW_FUNDING", d, Funded(ledger[d], tx[t].seen.amount))
        /\ Saves(t)
        /\ Ends(t)
        /\ UNCHANGED <<delivered, dispute, flagged, slotsTaken>>

(* inactive_intent: no deal is read. *)
FlagCapture(i) ==
    /\ "capture" \in Uses
    /\ intent[i].status \notin {"NONE", "PENDING"}
    /\ IsNew(i)
    /\ noticed' = noticed \cup {i}
    /\ flagged' = flagged \cup {i}
    /\ UNCHANGED <<deal, delivered, dispute, intent, ledger, posted, slotsTaken, tx>>

(* closeEscrow on what was read, expireActiveByDeal and releaseSlot on what  *)
(* is there; resolving also closes the dispute that was read.                *)
CommitClose(t) ==
    LET d == tx[t].deal
    IN  /\ IsReady(t, {"decline", "expire", "refund", "resolveForBuyer"})
        /\ Saves(t)
        /\ IF tx[t].seen.escrow = "HELD"
           THEN Posts("ESCROW_REFUND", d, ReturnedToBuyer(ledger[d], tx[t].seen.amount))
           ELSE UNCHANGED <<ledger, posted>>
        /\ intent' = IF tx[t].seen.escrow = "PENDING"
                     THEN [i \in Intents |-> IF i \in ActiveOf(d)
                                             THEN [intent[i] EXCEPT !.status = "EXPIRED"]
                                             ELSE intent[i]]
                     ELSE intent
        /\ slotsTaken' = IF /\ tx[t].use \in {"decline", "expire"}
                            /\ tx[t].seen.kind = "BOOKING"
                            /\ slotsTaken > 0
                         THEN slotsTaken - 1
                         ELSE slotsTaken
        /\ dispute' = IF tx[t].use = "resolveForBuyer" /\ dispute[d].id = tx[t].ref
                      THEN [dispute EXCEPT ![d].open = FALSE]
                      ELSE dispute
        /\ Ends(t)
        /\ UNCHANGED <<delivered, noticed, flagged>>

CommitRelease(t) ==
    LET d == tx[t].deal
    IN  /\ tx[t].phase = "checked"
        /\ Posts("ESCROW_RELEASE", d, Released(ledger[d], tx[t].seen))
        /\ Saves(t)
        /\ Ends(t)
        /\ UNCHANGED <<delivered, dispute, intent, noticed, flagged, slotsTaken>>

(* disputes_one_open_idx. *)
CommitOpenDispute(t) ==
    LET d == tx[t].deal
    IN  /\ IsReady(t, {"openDispute"})
        /\ ~ dispute[d].open /\ dispute[d].id < tx[t].ref
        /\ dispute' = [dispute EXCEPT ![d] = [id |-> tx[t].ref, open |-> TRUE]]
        /\ Ends(t)
        /\ UNCHANGED <<deal, delivered, intent, noticed, flagged, ledger, posted, slotsTaken>>

(* Withdrawn by who opened it, or resolved for the creator: one row changes, *)
(* and saving it twice leaves it as it is.                                   *)
EndDispute(d) ==
    /\ dispute[d].open
    /\ dispute' = [dispute EXCEPT ![d].open = FALSE]
    /\ UNCHANGED <<deal, delivered, intent, noticed, flagged, ledger, posted, slotsTaken, tx>>

(* The conditional UPDATE of takeSlot. *)
HasSlot == slotsTaken < WindowSlots

CreateDeal(d, kind, price, sla) ==
    /\ deal[d].status = "NONE"
    /\ kind = "BOOKING" => HasSlot
    /\ deal' = [deal EXCEPT ![d] = OpenedDeal(kind, price, sla)]
    /\ slotsTaken' = IF kind = "BOOKING" THEN slotsTaken + 1 ELSE slotsTaken
    /\ UNCHANGED <<delivered, dispute, intent, noticed, flagged, ledger, posted, tx>>

RollBack(t) ==
    /\ ~ IsIdle(t)
    /\ Ends(t)
    /\ UNCHANGED tables

(* The deadlines of the rows in memory are instants too. *)
Tick ==
    /\ deal' = [d \in Deals |-> TickedDeal(deal[d])]
    /\ tx'   = [t \in Transactions |-> [tx[t] EXCEPT !.row = TickedDeal(@), !.seen = TickedDeal(@)]]
    /\ deal' # deal
    /\ UNCHANGED <<delivered, dispute, intent, noticed, flagged, ledger, posted, slotsTaken>>
-----------------------------------------------------------------------------
Read(t, d) ==
    \/ \E i \in Intents : ReadToPay(t, d, i)
    \/ ReadToCapture(t, d)
    \/ ReadToAccept(t, d)
    \/ ReadToDecline(t, d)
    \/ ReadToExpire(t, d)
    \/ ReadToDeliver(t, d)
    \/ ReadToReject(t, d)
    \/ ReadToApprove(t, d)
    \/ ListOverdue(t, d)
    \/ ReadToAutoApprove(t, d)
    \/ ReadToRefund(t, d)
    \/ ReadToOpenDispute(t, d)
    \/ FindDispute(t, d)
    \/ ReadToResolveForBuyer(t, d)
    \/ ReadToSendMessage(t, d)

Commit(t) ==
    \/ CommitStatus(t)
    \/ CommitDelivery(t)
    \/ CommitPay(t)
    \/ CommitCapture(t)
    \/ CommitClose(t)
    \/ CommitRelease(t)
    \/ CommitOpenDispute(t)

Next ==
    \/ \E t \in Transactions : \/ \E d \in Deals : Read(t, d)
                              \/ \E i \in Intents : FindCaptured(t, i)
                              \/ CheckDispute(t)
                              \/ Commit(t)
                              \/ RollBack(t)
    \/ \E d \in Deals, kind \in {"BOOKING", "CUSTOM_SERVICE"}, price \in Prices, sla \in Slas :
           CreateDeal(d, kind, price, sla)
    \/ \E d \in Deals : EndDispute(d)
    \/ \E i \in Intents : FlagCapture(i)
    \/ Tick

Spec == Init /\ [][Next]_vars
-----------------------------------------------------------------------------
TypeOK ==
    /\ deal       \in [Deals -> DealRow]
    /\ delivered  \in [Deals -> 0 .. MaxVersions]
    /\ dispute    \in [Deals -> DisputeRow]
    /\ intent     \in [Intents -> IntentRow]
    /\ noticed    \subseteq Intents
    /\ flagged    \subseteq Intents
    /\ ledger     \in [Deals -> Balance]
    /\ posted     \subseteq {"ESCROW_FUNDING", "ESCROW_REFUND", "ESCROW_RELEASE"} \X Deals
    /\ slotsTaken \in 0 .. WindowSlots
    /\ tx         \in [Transactions -> TransactionRow]

(* However transactions overlap and overwrite each other, a deal never shows  *)
(* a movement of its escrow that the books do not have: saves lose what was   *)
(* done, and never invent it (prisma-deals.repository.ts save).               *)
EscrowStatusIsBacked ==
    \A d \in Deals :
        /\ deal[d].escrow = "HELD"     => <<"ESCROW_FUNDING", d>> \in posted
        /\ deal[d].escrow = "RELEASED" => <<"ESCROW_RELEASE", d>> \in posted
        /\ deal[d].escrow = "REFUNDED" => <<"ESCROW_REFUND", d>> \in posted

(* RN-104: approving twice, refunding on two paths or capturing twice at once *)
(* pays nobody twice.                                                         *)
NothingIsPaidTwice ==
    \A d \in Deals :
        /\ ledger[d].clearing \in {0, deal[d].amount}
        /\ ledger[d].refunds \in {0, deal[d].amount}
        /\ ledger[d].creator \in {0, deal[d].creatorNet}
        /\ ledger[d].fees \in {0, deal[d].platformFee}

(* RN-091: a capture that overlaps its own repetition, a decline or the       *)
(* sweep is in the books once or flagged, never both.                         *)
CapturesAreBookedOnce ==
    /\ \A i \in noticed : (i \in flagged) # (intent[i].status = "CAPTURED")
    /\ \A d \in Deals :
          ledger[d].clearing =
              deal[d].amount * Cardinality({i \in Intents : /\ intent[i].deal = d
                                                            /\ intent[i].status = "CAPTURED"})

(* RN-092: two attempts to pay at once leave one active intent (SDD 16.5).    *)
OneActiveIntent == \A d \in Deals : Cardinality(ActiveOf(d)) <= 1

(* The buyer is asked to pay once, and what was paid counts once (both of the *)
(* above).                                                                    *)
PaymentsAreSingle == OneActiveIntent /\ CapturesAreBookedOnce
-----------------------------------------------------------------------------
(* What the documents say of overlapping transactions and the code does not   *)
(* keep.                                                                      *)

(* T3: a declined or expired deal holds no money.  A capture that commits between *)
(* the read and the commit of the decline is not seen by it.                  *)
DeclinedDealsHoldNoMoney ==
    \A d \in Deals : deal[d].status \in {"DECLINED", "EXPIRED"} => ledger[d].escrow = 0

(* An approval and the decision of a dispute move the escrow once between     *)
(* them (SDD 16.5).                                                           *)
EscrowMovesOnce ==
    \A d \in Deals : ~ {<<"ESCROW_RELEASE", d>>, <<"ESCROW_REFUND", d>>} \subseteq posted

(* RN-048: nothing is released while a dispute is open, not even one opened   *)
(* after the deal was read.                                                   *)
NoReleaseUnderDispute ==
    [][\A d \in Deals :
          <<"ESCROW_RELEASE", d>> \in posted' \ posted => ~ dispute[d].open]_vars
=============================================================================
