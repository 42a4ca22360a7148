------------------------------ MODULE Payouts ------------------------------
(***************************************************************************)
(* Withdrawals of what creators earned (modules/payouts), on the accounts  *)
(* CREATOR_AVAILABLE and CREATOR_RESERVED of the ledger, and the wallets   *)
(* table that projects them.                                               *)
(*                                                                         *)
(* Transactions overlap, at READ COMMITTED: a transaction reads what has   *)
(* been committed and what it wrote itself.  One of a creator's goes       *)
(*     [read the payout,] lock the profile, read and decide, commit        *)
(* where the administration reads the payout before it takes the lock and  *)
(* everybody else after it; the release of a deal's escrow writes the same *)
(* accounts and takes no lock.  Any transaction may roll back.             *)
(***************************************************************************)
EXTENDS Integers, FiniteSets, FiniteSetsExt

CONSTANTS
    Payouts,       \* ids of payouts (a bound: how many are requested)
    Releases,      \* ids of deals whose escrow is released (a bound)
    Creators,      \* profiles whose owner has a verified identity
    Transactions,  \* database transactions that may be open at once (a bound)
    Amounts,       \* sums that are earned or withdrawn
    MinimumPayout  \* PricingPolicy.minimumPayoutMinor()

ASSUME PayoutsAssumption ==
    /\ Amounts \subseteq Nat \ {0}
    /\ MinimumPayout \in Nat
    /\ "none" \notin Payouts \cup Releases \cup Creators \cup Transactions
    /\ Payouts \cap Releases = {} \* every row of every table has a UUID of its own

VARIABLES
    payout,  \* the payouts table
    book,    \* per creator, what the ledger owes on each account
    posted,  \* (kind, external_reference) pairs of ledger_transactions
    wallet,  \* the wallets table
    locked,  \* per creator, the transaction that holds the lock of the profile
    tx       \* the open transactions

vars == <<payout, book, posted, wallet, locked, tx>>
-----------------------------------------------------------------------------
PayoutStatus == {"REQUESTED", "APPROVED", "PROCESSING", "PAID", "FAILED", "CANCELLED"}

ReservedStatus == {"REQUESTED", "APPROVED", "PROCESSING"}

PayoutTransitions ==
         ({"REQUESTED"} \X {"APPROVED", "CANCELLED", "FAILED"})
    \cup ({"APPROVED"} \X {"PROCESSING", "FAILED"})
    \cup ({"PROCESSING"} \X {"PAID", "FAILED"})

MoveTo(from, to) == <<from, to>> \in PayoutTransitions

AdminDecision == {"APPROVED", "PROCESSING", "PAID", "FAILED"}

(* The row of an id that is not used yet has the status "NONE". *)
PayoutRow == [status : PayoutStatus \cup {"NONE"}, profile : Creators \cup {"none"}, amount : Nat]
NoPayout  == [status |-> "NONE", profile |-> "none", amount |-> 0]

(* What is owed, as amountOwed gives it, and what left by the provider. *)
Balance == [available : Int, reserved : Int, paid : Nat]
Wallet  == [available : Int, reserved : Int]

PostingKind == {"ESCROW_RELEASE", "PAYOUT_RESERVE", "PAYOUT_SETTLE", "PAYOUT_REVERSE"}

(* What a transaction writes besides the payout; REFRESH is the wallet alone. *)
WritingKind == PostingKind \cup {"REFRESH", "none"}

(* What is written without the lock of the profile. *)
LockFreeKind == {"ESCROW_RELEASE", "REFRESH"}

(* Mutant: what failed stays reserved. *)
PostingUnlessFailed(status) ==
    CASE status = "REQUESTED" -> "PAYOUT_RESERVE"
      [] status = "PAID"      -> "PAYOUT_SETTLE"
      [] status = "CANCELLED" -> "PAYOUT_REVERSE"
      [] OTHER                -> "none"

(* The posting that goes with each new status; "none" moves no money. *)
PostingOf(status) ==
    CASE status = "REQUESTED"              -> "PAYOUT_RESERVE"
      [] status = "PAID"                   -> "PAYOUT_SETTLE"
      [] status \in {"CANCELLED", "FAILED"} -> "PAYOUT_REVERSE"
      [] OTHER                             -> "none"

(* A posting credits or debits each account of its creator. *)
AvailableAfter(balance, kind, amount) ==
    CASE kind \in {"ESCROW_RELEASE", "PAYOUT_REVERSE"} -> balance.available + amount
      [] kind = "PAYOUT_RESERVE"                       -> balance.available - amount
      [] OTHER                                         -> balance.available

ReservedAfter(balance, kind, amount) ==
    CASE kind = "PAYOUT_RESERVE"                      -> balance.reserved + amount
      [] kind \in {"PAYOUT_SETTLE", "PAYOUT_REVERSE"} -> balance.reserved - amount
      [] OTHER                                        -> balance.reserved

(* Mutant: what leaves is booked on the wrong side. *)
PaidSwapped(balance, kind, amount) ==
    IF kind = "PAYOUT_SETTLE" THEN balance.paid - amount ELSE balance.paid

PaidAfter(balance, kind, amount) ==
    IF kind = "PAYOUT_SETTLE" THEN balance.paid + amount ELSE balance.paid

Posted(balance, kind, amount) ==
    [available |-> AvailableAfter(balance, kind, amount),
     reserved  |-> ReservedAfter(balance, kind, amount),
     paid      |-> PaidAfter(balance, kind, amount)]

(* recomputeFromLedger, inside a transaction that wrote the posting itself. *)
Projected(c, kind, amount) ==
    LET balance == Posted(book[c], kind, amount)
    IN  [available |-> balance.available, reserved |-> balance.reserved]
-----------------------------------------------------------------------------
(* An open transaction: what it is about, the status it will write, how far  *)
(* it got, and the wallet it computed.                                       *)
Idle == [phase |-> "idle", id |-> "none", profile |-> "none", amount |-> 0,
         status |-> "NONE", kind |-> "none", wallet |-> [available |-> 0, reserved |-> 0]]

TransactionRow ==
    [phase : {"idle", "read", "work"}, id : Payouts \cup Releases \cup {"none"},
     profile : Creators \cup {"none"}, amount : Nat, status : PayoutStatus \cup {"NONE"},
     kind : WritingKind, wallet : Wallet]

IsIdle(t) == tx[t].phase = "idle"

(* Mutant: nobody waits. *)
NeverLocked(c) == TRUE

IsUnlocked(c) == locked[c] = "none"

(* A transaction that has read a payout and not yet locked its owner. *)
Reading(p, status) ==
    [phase |-> "read", id |-> p, profile |-> payout[p].profile, amount |-> payout[p].amount,
     status |-> status, kind |-> "none", wallet |-> [available |-> 0, reserved |-> 0]]

(* Everything a transaction does between the lock and its commit. *)
Working(id, c, amount, status, kind) ==
    [phase |-> "work", id |-> id, profile |-> c, amount |-> amount, status |-> status,
     kind |-> kind, wallet |-> Projected(c, kind, amount)]

(* No other transaction has drawn this id. *)
IsFresh(id) == \A t \in Transactions : tx[t].id # id

Init ==
    /\ payout = [p \in Payouts |-> NoPayout]
    /\ book   = [c \in Creators |-> [available |-> 0, reserved |-> 0, paid |-> 0]]
    /\ posted = {}
    /\ wallet = [c \in Creators |-> [available |-> 0, reserved |-> 0]]
    /\ locked = [c \in Creators |-> "none"]
    /\ tx     = [t \in Transactions |-> Idle]

(* EscrowReleaseService.release of a deal of this creator: no lock. *)
ReleaseEscrow(t, r, c, amount) ==
    /\ IsIdle(t)
    /\ IsFresh(r)
    /\ <<"ESCROW_RELEASE", r>> \notin posted
    /\ tx' = [tx EXCEPT ![t] = Working(r, c, amount, "NONE", "ESCROW_RELEASE")]
    /\ UNCHANGED <<payout, book, posted, wallet, locked>>

(* GetWalletUseCase: whoever looks at a wallet writes it again, with no lock. *)
GetWallet(t, c) ==
    /\ IsIdle(t)
    /\ tx' = [tx EXCEPT ![t] = Working("none", c, 0, "NONE", "REFRESH")]
    /\ UNCHANGED <<payout, book, posted, wallet, locked>>

(* Mutant: the balance comes from the projection (RN-050 says from the books). *)
WithdrawableInWallet(c) == wallet[c].available

Withdrawable(c) == book[c].available

(* RequestPayoutUseCase: waits for the lock, then asks the ledger. *)
RequestPayout(t, p, c, amount) ==
    /\ IsIdle(t)
    /\ IsFresh(p)
    /\ payout[p].status = "NONE"
    /\ IsUnlocked(c)
    /\ amount >= MinimumPayout
    /\ amount <= Withdrawable(c)
    /\ locked' = [locked EXCEPT ![c] = t]
    /\ tx' = [tx EXCEPT ![t] = Working(p, c, amount, "REQUESTED", PostingOf("REQUESTED"))]
    /\ UNCHANGED <<payout, book, posted, wallet>>

(* CancelPayoutUseCase: reads the payout once it has the lock. *)
CancelPayout(t, p) ==
    LET c == payout[p].profile
    IN  /\ IsIdle(t)
        /\ MoveTo(payout[p].status, "CANCELLED")
        /\ IsUnlocked(c)
        /\ <<PostingOf("CANCELLED"), p>> \notin posted
        /\ locked' = [locked EXCEPT ![c] = t]
        /\ tx' = [tx EXCEPT ![t] = Working(p, c, payout[p].amount, "CANCELLED",
                                           PostingOf("CANCELLED"))]
        /\ UNCHANGED <<payout, book, posted, wallet>>

(* AdminPayoutUseCase.change: the payout is read first, and the transition is *)
(* asserted on what was read ...                                             *)
ReadPayout(t, p, status) ==
    /\ IsIdle(t)
    /\ MoveTo(payout[p].status, status)
    /\ tx' = [tx EXCEPT ![t] = Reading(p, status)]
    /\ UNCHANGED <<payout, book, posted, wallet, locked>>

(* ... then the profile is locked and the posting written.  A posting that is *)
(* already there aborts the transaction.                                      *)
LockAndDecide(t) ==
    LET c == tx[t].profile
        k == PostingOf(tx[t].status)
    IN  /\ tx[t].phase = "read"
        /\ IsUnlocked(c)
        /\ <<k, tx[t].id>> \notin posted
        /\ locked' = [locked EXCEPT ![c] = t]
        /\ tx' = [tx EXCEPT ![t] = Working(tx[t].id, c, tx[t].amount, tx[t].status, k)]
        /\ UNCHANGED <<payout, book, posted, wallet>>

Unlocked(t) == [c \in Creators |-> IF locked[c] = t THEN "none" ELSE locked[c]]

(* payouts.create or payouts.save: save writes the status and never the terms. *)
SavedPayout(t) ==
    IF tx[t].id \in Payouts
    THEN [payout EXCEPT ![tx[t].id] = [status |-> tx[t].status, profile |-> tx[t].profile,
                                       amount |-> tx[t].amount]]
    ELSE payout

Commit(t) ==
    LET c == tx[t].profile
        k == tx[t].kind
    IN  /\ tx[t].phase = "work"
        /\ payout' = SavedPayout(t)
        /\ book'   = [book EXCEPT ![c] = Posted(@, k, tx[t].amount)]
        /\ posted' = IF k \in PostingKind THEN posted \cup {<<k, tx[t].id>>} ELSE posted
        /\ wallet' = IF k = "none" THEN wallet ELSE [wallet EXCEPT ![c] = tx[t].wallet]
        /\ locked' = Unlocked(t)
        /\ tx'     = [tx EXCEPT ![t] = Idle]

(* An error, a lost connection, a crash. *)
RollBack(t) ==
    /\ ~ IsIdle(t)
    /\ locked' = Unlocked(t)
    /\ tx' = [tx EXCEPT ![t] = Idle]
    /\ UNCHANGED <<payout, book, posted, wallet>>

Next ==
    \E t \in Transactions :
        \/ \E r \in Releases, c \in Creators, amount \in Amounts :
               ReleaseEscrow(t, r, c, amount)
        \/ \E p \in Payouts, c \in Creators, amount \in Amounts :
               RequestPayout(t, p, c, amount)
        \/ \E p \in Payouts : CancelPayout(t, p)
        \/ \E c \in Creators : GetWallet(t, c)
        \/ \E p \in Payouts, status \in AdminDecision : ReadPayout(t, p, status)
        \/ LockAndDecide(t)
        \/ Commit(t)
        \/ RollBack(t)

Spec == Init /\ [][Next]_vars
-----------------------------------------------------------------------------
TypeOK ==
    /\ payout \in [Payouts -> PayoutRow]
    /\ book   \in [Creators -> Balance]
    /\ posted \subseteq PostingKind \X (Payouts \cup Releases)
    /\ wallet \in [Creators -> Wallet]
    /\ locked \in [Creators -> Transactions \cup {"none"}]
    /\ tx     \in [Transactions -> TransactionRow]

(* RN-050, RN-053: however requests, decisions and releases overlap, and      *)
(* whatever the projection says meanwhile, nobody withdraws more than the     *)
(* ledger owes (request-payout.use-case.ts, lockCreatorForUpdate).            *)
NeverOverdrawn == \A c \in Creators : book[c].available >= 0

(* Why NeverOverdrawn holds: whoever is about to reserve or to end a          *)
(* reservation holds the lock of the creator, and while it is held nothing    *)
(* takes from the balance that was read (the releases only add to it).        *)
ReservationIsCovered ==
    \A t \in Transactions :
        tx[t].phase = "work" /\ tx[t].kind \notin LockFreeKind =>
            /\ locked[tx[t].profile] = t
            /\ tx[t].kind = "PAYOUT_RESERVE" =>
                   tx[t].amount <= book[tx[t].profile].available

(* The creator's change of mind never undoes a decision of the administration *)
(* that was committed: it only takes back what is still only requested        *)
(* (CancelPayoutUseCase reads under the lock).                                *)
CancelNeverOverwritesADecision ==
    [][\A p \in Payouts :
          payout[p].status # "CANCELLED" /\ payout'[p].status = "CANCELLED" =>
              payout[p].status = "REQUESTED"]_vars

(* What is reserved is the sum of the withdrawals that may still happen       *)
(* (RN-052, PayoutLedgerService).                                             *)
ReservedIsWhatPayoutsHold ==
    \A c \in Creators :
        book[c].reserved =
            MapThenSumSet(LAMBDA p : payout[p].amount,
                          {p \in Payouts : /\ payout[p].profile = c
                                           /\ payout[p].status \in ReservedStatus})

(* Once the money has arrived it can no longer be returned, and what was      *)
(* returned is not sent: a reservation ends once (payout.ts markPaid).        *)
ReservationEndsOnce ==
    \A p \in Payouts :
        ~ {<<"PAYOUT_SETTLE", p>>, <<"PAYOUT_REVERSE", p>>} \subseteq posted

(* RN-103: the wallet shows what the books owe (recomputeFromLedger, which    *)
(* writes it in the transaction of each posting).                             *)
WalletIsTheLedger ==
    \A c \in Creators :
        wallet[c] = [available |-> book[c].available, reserved |-> book[c].reserved]
=============================================================================
