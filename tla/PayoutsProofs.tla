--------------------------- MODULE PayoutsProofs ---------------------------
(***************************************************************************)
(* For any number of creators, withdrawals and overlapping transactions:   *)
(* nobody withdraws more than the ledger owes, and a cancellation never    *)
(* overwrites a decision.  The last part is about one transaction at a     *)
(* time: what is reserved is then the sum of the withdrawals under way.    *)
(***************************************************************************)
EXTENDS Payouts, SumProofs, TLAPS

(* Every posting keeps the type of a balance. *)
LEMMA PostedBalance ==
    ASSUME NEW balance \in Balance, NEW kind, NEW amount \in Nat
    PROVE  Posted(balance, kind, amount) \in Balance
<1>1. AvailableAfter(balance, kind, amount) \in Int
  BY DEF AvailableAfter, Balance
<1>2. ReservedAfter(balance, kind, amount) \in Int
  BY DEF ReservedAfter, Balance
<1>3. PaidAfter(balance, kind, amount) \in Nat
  BY DEF PaidAfter, Balance
<1>4. QED
  BY <1>1, <1>2, <1>3 DEF Posted, Balance

LEMMA ProjectedWallet ==
    ASSUME NEW c \in Creators, book[c] \in Balance, NEW kind, NEW amount \in Nat
    PROVE  Projected(c, kind, amount) \in Wallet
<1>1. Posted(book[c], kind, amount) \in Balance
  BY PostedBalance
<1>2. QED
  BY <1>1 DEF Projected, Wallet, Balance

(* What a transaction holds after the lock is of its type. *)
LEMMA WorkingRow ==
    ASSUME TypeOK, NEW id \in Payouts \cup Releases \cup {"none"}, NEW c \in Creators, NEW amount \in Nat,
           NEW status \in PayoutStatus \cup {"NONE"}, NEW kind \in WritingKind
    PROVE  Working(id, c, amount, status, kind) \in TransactionRow
<1>1. Projected(c, kind, amount) \in Wallet
  BY ProjectedWallet DEF TypeOK
<1>2. QED
  BY <1>1 DEF Working, TransactionRow

LEMMA PostingOfType ==
    ASSUME NEW status
    PROVE  PostingOf(status) \in WritingKind \ LockFreeKind
  BY DEF PostingOf, WritingKind, PostingKind, LockFreeKind

LEMMA InitTyped == Init => TypeOK
  BY DEF Init, TypeOK, NoPayout, PayoutRow, Balance, Wallet, Idle, TransactionRow,
         PayoutStatus, WritingKind

(* Payouts that exist have an owner, and so do the open transactions.  The     *)
(* administration never reserves.                                            *)
OwnersAreKnown ==
    /\ \A p \in Payouts : payout[p].status # "NONE" => payout[p].profile \in Creators
    /\ \A t \in Transactions :
           /\ tx[t].phase # "idle" => tx[t].profile \in Creators
           /\ tx[t].phase = "read" \/ tx[t].kind \in PostingKind => tx[t].id # "none"
           /\ tx[t].phase = "read" => tx[t].status \in AdminDecision

IInv == TypeOK /\ OwnersAreKnown /\ ReservationIsCovered /\ NeverOverdrawn

LEMMA InitIInv == Init => IInv
<1> SUFFICES ASSUME Init PROVE IInv
  OBVIOUS
<1>1. TypeOK
  BY InitTyped
<1>2. OwnersAreKnown
  BY DEF Init, OwnersAreKnown, NoPayout, Idle, PostingKind
<1>3. ReservationIsCovered
  BY DEF Init, ReservationIsCovered, Idle
<1>4. NeverOverdrawn
  BY DEF Init, NeverOverdrawn
<1>5. QED
  BY <1>1, <1>2, <1>3, <1>4 DEF IInv

(* A transaction that starts, or goes on to its decision, holding the lock    *)
(* or being a release.                                                        *)
LEMMA WorkStarts ==
    ASSUME IInv, NEW t \in Transactions, NEW id \in Payouts \cup Releases \cup {"none"}, NEW c \in Creators,
           NEW amount \in Nat, NEW status \in PayoutStatus \cup {"NONE"},
           NEW kind \in WritingKind, kind \in PostingKind => id # "none",
           tx' = [tx EXCEPT ![t] = Working(id, c, amount, status, kind)],
           \/ kind \in LockFreeKind /\ locked' = locked
           \/ IsUnlocked(c) /\ locked' = [locked EXCEPT ![c] = t],
           kind = "PAYOUT_RESERVE" => amount <= book[c].available,
           UNCHANGED <<payout, book, posted, wallet>>
    PROVE  IInv'
<1> DEFINE row == Working(id, c, amount, status, kind)
<1>0. PICK r \in TransactionRow : r = row
  BY WorkingRow DEF IInv
<1>1. r.phase = "work" /\ r.profile = c /\ r.id = id /\ r.kind = kind /\ r.amount = amount
  BY <1>0 DEF Working
<1>2. tx' = [tx EXCEPT ![t] = r]
  BY <1>0
<1> HIDE DEF row
<1>3. TypeOK'
  BY <1>0, <1>2 DEF IInv, TypeOK
<1>4. OwnersAreKnown'
  BY <1>1, <1>2 DEF IInv, OwnersAreKnown, TypeOK
<1>5. ReservationIsCovered'
  <2> SUFFICES ASSUME NEW u \in Transactions, tx'[u].phase = "work",
                      tx'[u].kind \notin LockFreeKind
               PROVE  /\ locked'[tx'[u].profile] = u
                      /\ tx'[u].kind = "PAYOUT_RESERVE" =>
                             tx'[u].amount <= book'[tx'[u].profile].available
    BY DEF ReservationIsCovered
  <2>1. CASE u = t
    BY <2>1, <1>1, <1>2 DEF IInv, TypeOK
  <2>2. CASE u # t
    <3>1. tx'[u] = tx[u]
      BY <2>2, <1>2 DEF IInv, TypeOK
    <3>2. tx[u].profile \in Creators
      BY <3>1 DEF IInv, OwnersAreKnown
    <3>3. locked[tx[u].profile] = u
      BY <3>1 DEF IInv, ReservationIsCovered
    <3>4. u # "none"
      BY PayoutsAssumption
    <3>5. locked'[tx[u].profile] = u
      BY <3>2, <3>3, <3>4 DEF IsUnlocked, IInv, TypeOK
    <3>6. QED
      BY <3>1, <3>5 DEF IInv, ReservationIsCovered
  <2>3. QED
    BY <2>1, <2>2
<1>6. NeverOverdrawn'
  BY DEF IInv, NeverOverdrawn
<1>7. QED
  BY <1>3, <1>4, <1>5, <1>6 DEF IInv

(* A transaction that ends without a trace. *)
LEMMA EndsWithoutTrace ==
    ASSUME IInv, NEW t \in Transactions, RollBack(t)
    PROVE  IInv'
<1>1. TypeOK'
  BY DEF RollBack, Unlocked, IInv, TypeOK, Idle, TransactionRow, WritingKind, Wallet
<1>2. OwnersAreKnown'
  BY DEF RollBack, IInv, OwnersAreKnown, TypeOK, Idle, PostingKind
<1>3. ReservationIsCovered'
  BY DEF RollBack, Unlocked, IInv, ReservationIsCovered, OwnersAreKnown, TypeOK, Idle, PostingKind
<1>4. NeverOverdrawn'
  BY DEF RollBack, IInv, NeverOverdrawn
<1>5. QED
  BY <1>1, <1>2, <1>3, <1>4 DEF IInv

LEMMA CommitKeeps ==
    ASSUME IInv, NEW t \in Transactions, Commit(t)
    PROVE  IInv'
<1> DEFINE c == tx[t].profile
           k == tx[t].kind
           after == Posted(book[c], k, tx[t].amount)
<1>1. /\ c \in Creators /\ k \in WritingKind
      /\ k \in PostingKind => tx[t].id \in Payouts \cup Releases
      /\ tx[t].amount \in Nat
      /\ tx[t].status \in PayoutStatus \cup {"NONE"} /\ tx[t].wallet \in Wallet
      /\ tx[t].phase = "work"
  BY DEF Commit, IInv, OwnersAreKnown, TypeOK, TransactionRow
<1>2. book[c] \in Balance /\ after \in Balance
  BY <1>1, PostedBalance DEF IInv, TypeOK
<1>3. book' = [book EXCEPT ![c] = after] /\ tx' = [tx EXCEPT ![t] = Idle]
  BY DEF Commit
<1>4. /\ after.available >= 0
      /\ k \in LockFreeKind => after.available >= book[c].available
  <2>1. after.available = AvailableAfter(book[c], k, tx[t].amount)
    BY DEF Posted
  <2>2. book[c].available \in Int /\ book[c].available >= 0
    BY <1>1, <1>2 DEF Balance, IInv, NeverOverdrawn
  <2>3. k = "PAYOUT_RESERVE" => tx[t].amount <= book[c].available
    BY <1>1 DEF IInv, ReservationIsCovered, LockFreeKind
  <2>4. QED
    BY <1>1, <2>1, <2>2, <2>3 DEF AvailableAfter, LockFreeKind
<1>5. k \notin LockFreeKind => locked[c] = t
  BY <1>1 DEF IInv, ReservationIsCovered
<1> HIDE DEF after
<1>6. TypeOK'
  <2>1. payout' \in [Payouts -> PayoutRow]
    BY <1>1 DEF Commit, SavedPayout, IInv, TypeOK, PayoutRow
  <2>2. book' \in [Creators -> Balance]
    BY <1>2, <1>3 DEF IInv, TypeOK
  <2>3. posted' \subseteq PostingKind \X (Payouts \cup Releases)
    BY <1>1 DEF Commit, IInv, TypeOK
  <2>4. wallet' \in [Creators -> Wallet]
    BY <1>1 DEF Commit, IInv, TypeOK
  <2>5. locked' \in [Creators -> Transactions \cup {"none"}]
    BY DEF Commit, Unlocked, IInv, TypeOK
  <2>6. tx' \in [Transactions -> TransactionRow]
    BY <1>3 DEF IInv, TypeOK, Idle, TransactionRow, WritingKind, Wallet
  <2>7. QED
    BY <2>1, <2>2, <2>3, <2>4, <2>5, <2>6 DEF TypeOK
<1>7. OwnersAreKnown'
  BY <1>1, <1>3 DEF Commit, SavedPayout, IInv, OwnersAreKnown, TypeOK, Idle, PostingKind
<1>8. ReservationIsCovered'
  <2> SUFFICES ASSUME NEW u \in Transactions, tx'[u].phase = "work",
                      tx'[u].kind \notin LockFreeKind
               PROVE  /\ locked'[tx'[u].profile] = u
                      /\ tx'[u].kind = "PAYOUT_RESERVE" =>
                             tx'[u].amount <= book'[tx'[u].profile].available
    BY DEF ReservationIsCovered
  <2>1. u # t /\ tx'[u] = tx[u]
    BY <1>3 DEF IInv, TypeOK, Idle
  <2>2. tx[u].profile \in Creators /\ tx[u].amount \in Nat
    BY <2>1 DEF IInv, OwnersAreKnown, TypeOK, TransactionRow
  <2>3. locked[tx[u].profile] = u
    BY <2>1 DEF IInv, ReservationIsCovered
  <2>4. locked'[tx[u].profile] = u
    BY <2>1, <2>2, <2>3 DEF Commit, Unlocked
  <2>5. book'[tx[u].profile].available >= book[tx[u].profile].available
    <3>1. CASE k \in LockFreeKind /\ tx[u].profile = c
      BY <3>1, <1>1, <1>3, <1>4 DEF IInv, TypeOK
    <3>2. CASE tx[u].profile # c
      <4>1. book'[tx[u].profile] = book[tx[u].profile]
        BY <3>2, <1>3, <2>2 DEF IInv, TypeOK
      <4>2. book[tx[u].profile].available \in Int
        BY <2>2 DEF IInv, TypeOK, Balance
      <4>3. QED
        BY <4>1, <4>2
    <3>3. k \in LockFreeKind \/ tx[u].profile # c
      BY <1>5, <2>1, <2>3
    <3>4. QED
      BY <3>1, <3>2, <3>3
  <2>6. /\ book[tx[u].profile].available \in Int
        /\ book'[tx[u].profile].available \in Int
    BY <1>6, <2>2 DEF IInv, TypeOK, Balance
  <2>7. tx[u].kind = "PAYOUT_RESERVE" => tx[u].amount <= book[tx[u].profile].available
    BY <2>1 DEF IInv, ReservationIsCovered
  <2>8. QED
    BY <2>1, <2>2, <2>4, <2>5, <2>6, <2>7
<1>9. NeverOverdrawn'
  BY <1>1, <1>3, <1>4 DEF IInv, TypeOK, NeverOverdrawn
<1>10. QED
  BY <1>6, <1>7, <1>8, <1>9 DEF IInv

LEMMA NextIInv == IInv /\ [Next]_vars => IInv'
<1> SUFFICES ASSUME IInv, [Next]_vars PROVE IInv'
  OBVIOUS
<1> USE PayoutsAssumption
<1>1. ASSUME NEW t \in Transactions, NEW r \in Releases, NEW c \in Creators,
             NEW amount \in Amounts, ReleaseEscrow(t, r, c, amount)
      PROVE  IInv'
  BY <1>1, WorkStarts DEF ReleaseEscrow, WritingKind, PostingKind, LockFreeKind
<1>2. ASSUME NEW t \in Transactions, NEW p \in Payouts, NEW c \in Creators,
             NEW amount \in Amounts, RequestPayout(t, p, c, amount)
      PROVE  IInv'
  BY <1>2, WorkStarts, PostingOfType DEF RequestPayout, Withdrawable, PayoutStatus
<1>3. ASSUME NEW t \in Transactions, NEW p \in Payouts, CancelPayout(t, p)
      PROVE  IInv'
  <2>1. payout[p].status # "NONE" /\ payout[p].amount \in Nat
    BY <1>3 DEF CancelPayout, MoveTo, PayoutTransitions, IInv, TypeOK, PayoutRow
  <2>2. payout[p].profile \in Creators
    BY <2>1 DEF IInv, OwnersAreKnown
  <2>3. PostingOf("CANCELLED") = "PAYOUT_REVERSE"
    BY DEF PostingOf
  <2>4. QED
    BY <1>3, <2>1, <2>2, <2>3, WorkStarts DEF CancelPayout, PayoutStatus, WritingKind, PostingKind
<1>4. ASSUME NEW t \in Transactions, NEW p \in Payouts, NEW status \in AdminDecision,
             ReadPayout(t, p, status)
      PROVE  IInv'
  <2>1. payout[p].status # "NONE" /\ payout[p] \in PayoutRow
    BY <1>4 DEF ReadPayout, MoveTo, PayoutTransitions, IInv, TypeOK
  <2>2. payout[p].profile \in Creators
    BY <2>1 DEF IInv, OwnersAreKnown
  <2>3. PICK r \in TransactionRow :
            /\ tx' = [tx EXCEPT ![t] = r]
            /\ r.phase = "read" /\ r.id = p /\ r.profile = payout[p].profile
            /\ r.status = status
    <3> DEFINE row == Reading(p, status)
    <3>1. /\ row.phase = "read" /\ row.id = p /\ row.profile = payout[p].profile
          /\ row.status = status
      BY DEF Reading
    <3>2. row \in TransactionRow
      BY <2>1 DEF Reading, TransactionRow, PayoutRow, AdminDecision, PayoutStatus,
                  WritingKind, Wallet
    <3>3. tx' = [tx EXCEPT ![t] = row]
      BY <1>4 DEF ReadPayout
    <3> HIDE DEF row
    <3>4. QED
      BY <3>1, <3>2, <3>3
  <2>4. UNCHANGED <<payout, book, posted, wallet, locked>>
    BY <1>4 DEF ReadPayout
  <2>5. TypeOK'
    BY <2>3, <2>4 DEF IInv, TypeOK
  <2>6. OwnersAreKnown'
    BY <2>2, <2>3, <2>4 DEF IInv, TypeOK, OwnersAreKnown
  <2>7. ReservationIsCovered'
    BY <2>3, <2>4 DEF IInv, TypeOK, ReservationIsCovered
  <2>8. NeverOverdrawn'
    BY <2>4 DEF IInv, NeverOverdrawn
  <2>9. QED
    BY <2>5, <2>6, <2>7, <2>8 DEF IInv
<1>5. ASSUME NEW t \in Transactions, LockAndDecide(t)
      PROVE  IInv'
  <2>1. /\ tx[t].profile \in Creators /\ tx[t].id \in Payouts \cup Releases \cup {"none"}
        /\ tx[t].id # "none" /\ tx[t].status \in AdminDecision /\ tx[t].amount \in Nat
    BY <1>5 DEF LockAndDecide, IInv, OwnersAreKnown, TypeOK, TransactionRow
  <2>2. PostingOf(tx[t].status) # "PAYOUT_RESERVE"
    BY <2>1 DEF PostingOf, AdminDecision
  <2>3. QED
    BY <1>5, <2>1, <2>2, WorkStarts, PostingOfType
       DEF LockAndDecide, AdminDecision, PayoutStatus
<1>6. ASSUME NEW t \in Transactions, NEW c \in Creators, GetWallet(t, c)
      PROVE  IInv'
  <2>1. /\ tx' = [tx EXCEPT ![t] = Working("none", c, 0, "NONE", "REFRESH")]
        /\ locked' = locked /\ UNCHANGED <<payout, book, posted, wallet>>
    BY <1>6 DEF GetWallet
  <2>2. "REFRESH" \in WritingKind /\ "REFRESH" \in LockFreeKind /\ "REFRESH" \notin PostingKind
    BY DEF WritingKind, PostingKind, LockFreeKind
  <2>3. QED
    BY <2>1, <2>2, WorkStarts
<1>7. CASE UNCHANGED vars
  BY <1>7 DEF vars, IInv, TypeOK, OwnersAreKnown, ReservationIsCovered, NeverOverdrawn
<1>8. QED
  BY <1>1, <1>2, <1>3, <1>4, <1>5, <1>6, <1>7, CommitKeeps, EndsWithoutTrace DEF Next

(* Every reachable state has the declared types, for any number of creators,  *)
(* withdrawals and overlapping transactions.                                  *)
THEOREM PayoutTypesCorrect == Spec => []TypeOK
<1>1. IInv => TypeOK
  BY DEF IInv
<1>2. QED
  BY <1>1, InitIInv, NextIInv, PTL DEF Spec

(* RN-053: the lock of the profile is enough.  Requests, cancellations and    *)
(* decisions of any number of overlapping transactions never reserve more     *)
(* than the ledger owes (request-payout.use-case.ts).                         *)
THEOREM CreatorsAreNeverOverdrawn == Spec => []NeverOverdrawn
<1>1. IInv => NeverOverdrawn
  BY DEF IInv
<1>2. QED
  BY <1>1, InitIInv, NextIInv, PTL DEF Spec

(* Between reading the balance and committing, nothing takes from it.         *)
THEOREM ReservationsAreCovered == Spec => []ReservationIsCovered
<1>1. IInv => ReservationIsCovered
  BY DEF IInv
<1>2. QED
  BY <1>1, InitIInv, NextIInv, PTL DEF Spec

-----------------------------------------------------------------------------
(* A payout that is being requested is in no table yet, and nobody else has    *)
(* drawn its id; ...                                                           *)
RequestsAreNew ==
    \A t \in Transactions :
        tx[t].id \in Payouts /\ tx[t].status = "REQUESTED" =>
            /\ tx[t].kind \notin LockFreeKind
            /\ payout[tx[t].id].status = "NONE"
            /\ \A u \in Transactions \ {t} : tx[u].id # tx[t].id

(* ... who decides on one that is, locks the profile of its owner, ... *)
DecisionsKnowTheOwner ==
    \A t \in Transactions :
        tx[t].id \in Payouts /\ tx[t].status # "REQUESTED" =>
            /\ tx[t].phase = "work" => tx[t].kind \notin LockFreeKind
            /\ tx[t].status # "NONE" /\ payout[tx[t].id].status # "NONE"
            /\ payout[tx[t].id].profile = tx[t].profile

(* ... and who cancels one has read it under that lock, before anybody else    *)
(* could decide.                                                               *)
CancelsAreCurrent ==
    \A t \in Transactions :
        tx[t].phase = "work" /\ tx[t].id \in Payouts /\ tx[t].status = "CANCELLED" =>
            payout[tx[t].id].status = "REQUESTED"

KInv == IInv /\ RequestsAreNew /\ DecisionsKnowTheOwner /\ CancelsAreCurrent

LEMMA InitKInv == Init => KInv
<1> SUFFICES ASSUME Init PROVE KInv
  OBVIOUS
<1>1. \A t \in Transactions : tx[t].id = "none" /\ tx[t].phase = "idle"
  BY DEF Init, Idle
<1>2. "none" \notin Payouts
  BY PayoutsAssumption
<1>3. QED
  BY <1>1, <1>2, InitIInv DEF KInv, RequestsAreNew, DecisionsKnowTheOwner, CancelsAreCurrent

(* A transaction begins, goes on or ends while the payouts stay as they are:   *)
(* it is about none of them, requests one, or decides on one that it has read. *)
LEMMA DecisionsKept ==
    ASSUME KInv, NEW t \in Transactions, NEW r,
           tx' = [tx EXCEPT ![t] = r], UNCHANGED payout,
           \/ r.id \notin Payouts
           \/ /\ r.status = "REQUESTED" /\ r.kind \notin LockFreeKind
              /\ payout[r.id].status = "NONE"
              /\ \A u \in Transactions \ {t} : tx[u].id # r.id
           \/ /\ r.status \notin {"REQUESTED", "NONE"}
              /\ r.phase = "work" => r.kind \notin LockFreeKind
              /\ payout[r.id].status # "NONE" /\ payout[r.id].profile = r.profile
              /\ r.phase = "work" /\ r.status = "CANCELLED" => payout[r.id].status = "REQUESTED"
    PROVE  RequestsAreNew' /\ DecisionsKnowTheOwner' /\ CancelsAreCurrent'
<1>1. tx'[t] = r /\ \A u \in Transactions \ {t} : tx'[u] = tx[u]
  BY DEF KInv, IInv, TypeOK
<1>2. RequestsAreNew'
  BY <1>1 DEF KInv, RequestsAreNew, DecisionsKnowTheOwner
<1>3. DecisionsKnowTheOwner'
  BY <1>1 DEF KInv, DecisionsKnowTheOwner
<1>4. CancelsAreCurrent'
  BY <1>1 DEF KInv, CancelsAreCurrent
<1>5. QED
  BY <1>2, <1>3, <1>4

(* What Working holds of its arguments. *)
LEMMA WorkingIs ==
    ASSUME NEW id, NEW c, NEW amount, NEW status, NEW kind
    PROVE  /\ Working(id, c, amount, status, kind).phase = "work"
           /\ Working(id, c, amount, status, kind).id = id
           /\ Working(id, c, amount, status, kind).profile = c
           /\ Working(id, c, amount, status, kind).status = status
           /\ Working(id, c, amount, status, kind).kind = kind
  BY DEF Working

(* Two transactions decide on one payout: one of them waits for the other. *)
LEMMA OneDecides ==
    ASSUME KInv, NEW t \in Transactions, NEW u \in Transactions \ {t},
           tx[t].phase = "work", tx[u].phase = "work", tx[t].id = tx[u].id
    PROVE  tx[t].id \notin Payouts
<1> SUFFICES ASSUME tx[t].id \in Payouts PROVE FALSE
  OBVIOUS
<1>1. tx[t].status # "REQUESTED" /\ tx[u].status # "REQUESTED"
  BY DEF KInv, RequestsAreNew
<1>2. /\ tx[t].kind \notin LockFreeKind /\ tx[u].kind \notin LockFreeKind
      /\ tx[t].profile = tx[u].profile
  BY <1>1 DEF KInv, DecisionsKnowTheOwner
<1>3. locked[tx[t].profile] = t /\ locked[tx[u].profile] = u
  BY <1>2 DEF KInv, IInv, ReservationIsCovered
<1>4. QED
  BY <1>2, <1>3

(* The commit writes the status: who else is about that payout has not locked  *)
(* its owner yet, and finds an owner who is the same.                          *)
LEMMA CommitDecides ==
    ASSUME KInv, NEW t \in Transactions, Commit(t)
    PROVE  RequestsAreNew' /\ DecisionsKnowTheOwner' /\ CancelsAreCurrent'
<1>1. /\ tx' = [tx EXCEPT ![t] = Idle] /\ tx[t].phase = "work" /\ payout' = SavedPayout(t)
  BY DEF Commit
<1>2. Idle.id \notin Payouts /\ Idle.phase = "idle"
  BY PayoutsAssumption DEF Idle
<1>3. CASE tx[t].id \notin Payouts
  <2>1. payout' = payout
    BY <1>1, <1>3 DEF SavedPayout
  <2>2. PICK r : r = Idle
    OBVIOUS
  <2>3. tx' = [tx EXCEPT ![t] = r] /\ r.id \notin Payouts
    BY <1>1, <1>2, <2>2
  <2>4. QED
    BY <2>1, <2>3, DecisionsKept
<1>4. CASE tx[t].id \in Payouts
  <2> DEFINE p == tx[t].id
  <2>1. /\ payout'[p].status = tx[t].status /\ payout'[p].profile = tx[t].profile
        /\ \A q \in Payouts \ {p} : payout'[q] = payout[q]
    BY <1>1, <1>4 DEF SavedPayout, KInv, IInv, TypeOK
  <2>2. tx'[t] = Idle /\ \A u \in Transactions \ {t} : tx'[u] = tx[u]
    BY <1>1 DEF KInv, IInv, TypeOK
  <2>3. \A u \in Transactions \ {t} :
            tx[u].id = p => /\ tx[t].status \notin {"REQUESTED", "NONE"}
                            /\ tx[u].status # "REQUESTED"
                            /\ tx[t].profile = tx[u].profile
                            /\ tx[u].phase # "work"
    <3> SUFFICES ASSUME NEW u \in Transactions \ {t}, tx[u].id = p
                 PROVE  /\ tx[t].status \notin {"REQUESTED", "NONE"}
                        /\ tx[u].status # "REQUESTED"
                        /\ tx[t].profile = tx[u].profile
                        /\ tx[u].phase # "work"
      OBVIOUS
    <3>1. tx[t].status # "REQUESTED" /\ tx[u].status # "REQUESTED"
      BY <1>4 DEF KInv, RequestsAreNew
    <3>2. tx[t].status # "NONE" /\ tx[t].profile = tx[u].profile
      BY <1>4, <3>1 DEF KInv, DecisionsKnowTheOwner
    <3>3. tx[u].phase # "work"
      BY <1>1, <1>4, OneDecides
    <3>4. QED
      BY <3>1, <3>2, <3>3
  <2> HIDE DEF p
  <2>4. RequestsAreNew'
    BY <1>2, <2>1, <2>2, <2>3 DEF KInv, RequestsAreNew
  <2>5. DecisionsKnowTheOwner'
    BY <1>2, <2>1, <2>2, <2>3 DEF KInv, DecisionsKnowTheOwner
  <2>6. CancelsAreCurrent'
    BY <1>2, <2>1, <2>2, <2>3 DEF KInv, CancelsAreCurrent
  <2>7. QED
    BY <2>4, <2>5, <2>6
<1>5. QED
  BY <1>3, <1>4

LEMMA NextKInv == KInv /\ [Next]_vars => KInv'
<1> SUFFICES ASSUME KInv, [Next]_vars PROVE KInv'
  OBVIOUS
<1> USE PayoutsAssumption
<1> DEFINE Kept == RequestsAreNew' /\ DecisionsKnowTheOwner' /\ CancelsAreCurrent'
<1>0. IInv'
  BY NextIInv DEF KInv
<1>1. ASSUME NEW t \in Transactions, NEW id, id \notin Payouts, NEW c, NEW amount, NEW kind,
             tx' = [tx EXCEPT ![t] = Working(id, c, amount, "NONE", kind)], UNCHANGED payout
      PROVE  Kept
  <2>1. PICK r : r = Working(id, c, amount, "NONE", kind)
    OBVIOUS
  <2>2. tx' = [tx EXCEPT ![t] = r] /\ r.id \notin Payouts
    BY <1>1, <2>1, WorkingIs
  <2>3. QED
    BY <1>1, <2>2, DecisionsKept
<1>2. ASSUME NEW t \in Transactions, NEW r \in Releases, NEW c \in Creators,
             NEW amount \in Amounts, ReleaseEscrow(t, r, c, amount)
      PROVE  Kept
  BY <1>1, <1>2 DEF ReleaseEscrow
<1>3. ASSUME NEW t \in Transactions, NEW c \in Creators, GetWallet(t, c)
      PROVE  Kept
  BY <1>1, <1>3 DEF GetWallet
<1>4. ASSUME NEW t \in Transactions, NEW p \in Payouts, NEW c \in Creators,
             NEW amount \in Amounts, RequestPayout(t, p, c, amount)
      PROVE  Kept
  <2>1. PICK r : r = Working(p, c, amount, "REQUESTED", PostingOf("REQUESTED"))
    OBVIOUS
  <2>2. /\ tx' = [tx EXCEPT ![t] = r] /\ UNCHANGED payout /\ payout[p].status = "NONE"
        /\ \A u \in Transactions : tx[u].id # p
    BY <1>4, <2>1 DEF RequestPayout, IsFresh
  <2>3. r.id = p /\ r.status = "REQUESTED" /\ r.kind \notin LockFreeKind
    BY <2>1, WorkingIs, PostingOfType
  <2>4. QED
    BY <2>2, <2>3, DecisionsKept
<1>5. ASSUME NEW t \in Transactions, NEW p \in Payouts, CancelPayout(t, p)
      PROVE  Kept
  <2>1. PICK r : r = Working(p, payout[p].profile, payout[p].amount, "CANCELLED",
                             PostingOf("CANCELLED"))
    OBVIOUS
  <2>2. tx' = [tx EXCEPT ![t] = r] /\ UNCHANGED payout
    BY <1>5, <2>1 DEF CancelPayout
  <2>3. payout[p].status = "REQUESTED"
    BY <1>5 DEF CancelPayout, MoveTo, PayoutTransitions
  <2>4. /\ r.id = p /\ r.status = "CANCELLED" /\ r.kind \notin LockFreeKind
        /\ r.profile = payout[p].profile
    BY <2>1, WorkingIs, PostingOfType
  <2>5. QED
    BY <2>2, <2>3, <2>4, DecisionsKept
<1>6. ASSUME NEW t \in Transactions, NEW p \in Payouts, NEW status \in AdminDecision,
             ReadPayout(t, p, status)
      PROVE  Kept
  <2>1. PICK r : r = Reading(p, status)
    OBVIOUS
  <2>2. tx' = [tx EXCEPT ![t] = r] /\ UNCHANGED payout
    BY <1>6, <2>1 DEF ReadPayout
  <2>3. payout[p].status # "NONE"
    BY <1>6 DEF ReadPayout, MoveTo, PayoutTransitions
  <2>4. /\ r.id = p /\ r.status = status /\ r.phase = "read"
        /\ r.profile = payout[p].profile /\ status \notin {"REQUESTED", "NONE"}
    BY <2>1 DEF Reading, AdminDecision
  <2>5. QED
    BY <2>2, <2>3, <2>4, DecisionsKept
<1>7. ASSUME NEW t \in Transactions, LockAndDecide(t)
      PROVE  Kept
  <2>1. PICK r : r = Working(tx[t].id, tx[t].profile, tx[t].amount, tx[t].status,
                             PostingOf(tx[t].status))
    OBVIOUS
  <2>2. tx' = [tx EXCEPT ![t] = r] /\ UNCHANGED payout /\ tx[t].phase = "read"
    BY <1>7, <2>1 DEF LockAndDecide
  <2>3. tx[t].status \notin {"REQUESTED", "NONE", "CANCELLED"}
    BY <2>2 DEF KInv, IInv, OwnersAreKnown, AdminDecision
  <2>4. /\ r.id = tx[t].id /\ r.status = tx[t].status /\ r.kind \notin LockFreeKind
        /\ r.profile = tx[t].profile
    BY <2>1, WorkingIs, PostingOfType
  <2>5. tx[t].id \in Payouts => /\ payout[tx[t].id].status # "NONE"
                                /\ payout[tx[t].id].profile = tx[t].profile
    BY <2>3 DEF KInv, DecisionsKnowTheOwner
  <2>6. QED
    BY <2>2, <2>3, <2>4, <2>5, DecisionsKept
<1>8. ASSUME NEW t \in Transactions, RollBack(t) PROVE Kept
  <2>1. PICK r : r = Idle
    OBVIOUS
  <2>2. tx' = [tx EXCEPT ![t] = r] /\ UNCHANGED payout /\ r.id \notin Payouts
    BY <1>8, <2>1 DEF RollBack, Idle
  <2>3. QED
    BY <2>2, DecisionsKept
<1>9. ASSUME UNCHANGED vars PROVE Kept
  BY <1>9 DEF vars, KInv, RequestsAreNew, DecisionsKnowTheOwner, CancelsAreCurrent
<1>10. Kept
  BY <1>2, <1>3, <1>4, <1>5, <1>6, <1>7, <1>8, <1>9, CommitDecides DEF Next
<1>11. QED
  BY <1>0, <1>10 DEF KInv

(* A step that cancels a payout is the commit of who read it under the lock. *)
LEMMA CancelStep ==
    ASSUME KInv, [Next]_vars, NEW p \in Payouts, payout[p].status # "CANCELLED",
           payout'[p].status = "CANCELLED"
    PROVE  payout[p].status = "REQUESTED"
<1>1. payout' # payout
  OBVIOUS
<1>2. PICK t \in Transactions : Commit(t)
  BY <1>1 DEF Next, vars, ReleaseEscrow, RequestPayout, CancelPayout, GetWallet, ReadPayout,
              LockAndDecide, RollBack
<1>3. tx[t].phase = "work" /\ payout' = SavedPayout(t)
  BY <1>2 DEF Commit
<1>4. tx[t].id = p /\ tx[t].status = "CANCELLED"
  BY <1>3 DEF SavedPayout, KInv, IInv, TypeOK
<1>5. QED
  BY <1>3, <1>4 DEF KInv, CancelsAreCurrent

(* Whatever decisions and cancellations overlap, a creator takes back only     *)
(* what was still requested: who cancels reads the payout under the lock of    *)
(* the profile, and who decides writes it under the same lock                  *)
(* (CancelPayoutUseCase, AdminPayoutUseCase.change).                           *)
THEOREM DecisionsAreNeverCancelled == Spec => CancelNeverOverwritesADecision
<1>1. KInv /\ [Next]_vars =>
          [\A p \in Payouts :
              payout[p].status # "CANCELLED" /\ payout'[p].status = "CANCELLED" =>
                  payout[p].status = "REQUESTED"]_vars
  BY CancelStep
<1>2. QED
  BY <1>1, InitKInv, NextKInv, PTL DEF Spec, CancelNeverOverwritesADecision

-----------------------------------------------------------------------------
(* One transaction at a time.  Overlapping decisions break what follows (the   *)
(* administration reads before it locks); without them the transaction that    *)
(* is open read what still holds when it commits.                              *)

OneIsOpen == \A t, u \in Transactions : ~ IsIdle(t) /\ ~ IsIdle(u) => t = u

(* What a transaction knows is current: the transition it asserted is still    *)
(* one, and the wallet it computed is still what its posting leads to.         *)
Current(r) ==
    /\ r.phase = "read" => r.id \in Payouts
    /\ r.phase # "idle" /\ r.id \in Payouts /\ r.status # "REQUESTED" =>
           MoveTo(payout[r.id].status, r.status) /\ r.amount = payout[r.id].amount
    /\ r.phase = "work" =>
           /\ r.wallet = Projected(r.profile, r.kind, r.amount)
           /\ IF r.id \in Payouts THEN r.kind = PostingOf(r.status)
                                  ELSE r.kind \in LockFreeKind

OpenIsCurrent == \A t \in Transactions : Current(tx[t])

(* A posting that ends a reservation goes with a status that ends the payout.  *)
EndingsAreFinal ==
    \A p \in Payouts :
        /\ <<"PAYOUT_SETTLE", p>> \in posted => payout[p].status = "PAID"
        /\ <<"PAYOUT_REVERSE", p>> \in posted => payout[p].status \in {"CANCELLED", "FAILED"}

(* What a table of payouts holds of a creator's money, and the account that is *)
(* to be its sum.                                                              *)
HeldIn(rows, c) == {p \in Payouts : rows[p].profile = c /\ rows[p].status \in ReservedStatus}

Reserves(rows, balances) ==
    \A c \in Creators : /\ IsFiniteSet(HeldIn(rows, c))
                        /\ balances[c].reserved = Total(rows, HeldIn(rows, c))

BooksInv == /\ OneIsOpen /\ OpenIsCurrent /\ EndingsAreFinal
            /\ Reserves(payout, book) /\ WalletIsTheLedger

LEMMA InitBooks == Init => BooksInv
<1> SUFFICES ASSUME Init PROVE BooksInv
  OBVIOUS
<1>1. OneIsOpen /\ OpenIsCurrent
  BY DEF Init, OneIsOpen, OpenIsCurrent, Current, IsIdle, Idle
<1>2. EndingsAreFinal /\ WalletIsTheLedger
  BY DEF Init, EndingsAreFinal, WalletIsTheLedger
<1>3. \A c \in Creators : HeldIn(payout, c) = {} /\ book[c].reserved = 0
  BY DEF Init, HeldIn, NoPayout, ReservedStatus
<1>4. Reserves(payout, book)
  BY <1>3, TotalEmpty, FS_EmptySet DEF Reserves
<1> QED BY <1>1, <1>2, <1>4 DEF BooksInv

(* The money of the others, and of this payout too if it stays reserved. *)
LEMMA ReservesKept ==
    ASSUME NEW f, NEW g, NEW m, NEW n, Reserves(f, m),
           \A q \in Payouts :
               /\ g[q].amount = f[q].amount /\ g[q].profile = f[q].profile
               /\ g[q].status \in ReservedStatus <=> f[q].status \in ReservedStatus,
           \A c \in Creators : n[c].reserved = m[c].reserved
    PROVE  Reserves(g, n)
<1> SUFFICES ASSUME NEW c \in Creators
             PROVE  /\ IsFiniteSet(HeldIn(g, c))
                    /\ n[c].reserved = Total(g, HeldIn(g, c))
  BY DEF Reserves
<1> DEFINE S == HeldIn(f, c)
<1>1. IsFiniteSet(S) /\ m[c].reserved = Total(f, S)
  BY DEF Reserves
<1>2. HeldIn(g, c) = S
  BY DEF HeldIn
<1>3. \A q \in S : g[q].amount = f[q].amount
  BY DEF HeldIn
<1> HIDE DEF S
<1>4. Total(g, S) = Total(f, S)
  BY <1>1, <1>3, TotalAgrees
<1> QED BY <1>1, <1>2, <1>4

LEMMA ReservesOneMore ==
    ASSUME NEW f, NEW g, NEW m, NEW n, Reserves(f, m), NEW p \in Payouts,
           f[p].status \notin ReservedStatus, g[p].status \in ReservedStatus,
           \A q \in Payouts : g[q].amount \in Nat,
           \A q \in Payouts \ {p} : g[q] = f[q],
           \A e \in Creators : n[e].reserved = IF e = g[p].profile
                                               THEN m[e].reserved + g[p].amount
                                               ELSE m[e].reserved
    PROVE  Reserves(g, n)
<1> SUFFICES ASSUME NEW c \in Creators
             PROVE  /\ IsFiniteSet(HeldIn(g, c))
                    /\ n[c].reserved = Total(g, HeldIn(g, c))
  BY DEF Reserves
<1> DEFINE S == HeldIn(f, c)
<1>1. IsFiniteSet(S) /\ m[c].reserved = Total(f, S)
  BY DEF Reserves
<1>2. S \subseteq Payouts /\ p \notin S
  BY DEF HeldIn
<1>3. HeldIn(g, c) = IF c = g[p].profile THEN S \cup {p} ELSE S
  BY DEF HeldIn
<1> HIDE DEF S
<1>4. \A q \in S : g[q].amount = f[q].amount
  BY <1>2
<1>5. Total(g, S) = Total(f, S)
  BY <1>1, <1>4, TotalAgrees
<1>6. CASE c = g[p].profile
  <2>1. IsFiniteSet(S \cup {p})
    BY <1>1, FS_AddElement
  <2>2. \A q \in S \cup {p} : g[q].amount \in Nat
    BY <1>2
  <2>3. Total(g, S \cup {p}) = Total(g, S) + g[p].amount
    BY <1>1, <1>2, <2>2, TotalAdds
  <2> QED BY <1>1, <1>3, <1>5, <1>6, <2>1, <2>3
<1>7. CASE c # g[p].profile
  BY <1>1, <1>3, <1>5, <1>7
<1> QED BY <1>6, <1>7

LEMMA ReservesOneLess ==
    ASSUME NEW f, NEW g, NEW m, NEW n, Reserves(f, m), NEW p \in Payouts,
           f[p].status \in ReservedStatus, g[p].status \notin ReservedStatus,
           \A q \in Payouts : f[q].amount \in Nat,
           \A q \in Payouts \ {p} : g[q] = f[q],
           \A e \in Creators : n[e].reserved = IF e = f[p].profile
                                               THEN m[e].reserved - f[p].amount
                                               ELSE m[e].reserved
    PROVE  Reserves(g, n)
<1> SUFFICES ASSUME NEW c \in Creators
             PROVE  /\ IsFiniteSet(HeldIn(g, c))
                    /\ n[c].reserved = Total(g, HeldIn(g, c))
  BY DEF Reserves
<1> DEFINE S == HeldIn(f, c)
<1>1. IsFiniteSet(S) /\ m[c].reserved = Total(f, S)
  BY DEF Reserves
<1>2. S \subseteq Payouts /\ (p \in S <=> c = f[p].profile)
  BY DEF HeldIn
<1>3. HeldIn(g, c) = S \ {p}
  BY DEF HeldIn
<1> HIDE DEF S
<1>4. IsFiniteSet(S \ {p})
  BY <1>1, FS_RemoveElement
<1>5. \A q \in S \ {p} : g[q].amount = f[q].amount
  BY <1>2
<1>6. Total(g, S \ {p}) = Total(f, S \ {p})
  BY <1>4, <1>5, TotalAgrees
<1>7. CASE c = f[p].profile
  <2>1. \A q \in S : f[q].amount \in Nat
    BY <1>2
  <2>2. Total(f, S) = f[p].amount + Total(f, S \ {p})
    BY <1>1, <1>2, <1>7, <2>1, TotalRemoves
  <2>3. Total(f, S \ {p}) \in Nat
    BY <1>4, <2>1, TotalNat
  <2>4. n[c].reserved = m[c].reserved - f[p].amount
    BY <1>7
  <2> QED BY <1>1, <1>3, <1>4, <1>6, <2>2, <2>3, <2>4
<1>8. CASE c # f[p].profile
  <2>1. S \ {p} = S
    BY <1>2, <1>8
  <2> QED BY <1>1, <1>3, <1>6, <1>8, <2>1
<1> QED BY <1>7, <1>8

(* A transaction begins, goes on or ends with nothing written. *)
LEMMA BooksUntouched ==
    ASSUME KInv, BooksInv, OneIsOpen', NEW t \in Transactions, NEW r, Current(r),
           tx' = [tx EXCEPT ![t] = r], UNCHANGED <<payout, book, posted, wallet>>
    PROVE  BooksInv'
<1>1. \A u \in Transactions : tx'[u] = IF u = t THEN r ELSE tx[u]
  BY DEF KInv, IInv, TypeOK
<1>2. OpenIsCurrent'
  BY <1>1 DEF BooksInv, OpenIsCurrent, Current, Projected
<1>3. EndingsAreFinal' /\ WalletIsTheLedger'
  BY DEF BooksInv, EndingsAreFinal, WalletIsTheLedger
<1>4. Reserves(payout, book)'
  BY DEF BooksInv, Reserves, HeldIn
<1> QED BY <1>2, <1>3, <1>4 DEF BooksInv

(* What a commit does to the rows of one payout and of its creator. *)
LEMMA CommitWrites ==
    ASSUME KInv, NEW t \in Transactions, Commit(t)
    PROVE  LET c     == tx[t].profile
               after == Posted(book[c], tx[t].kind, tx[t].amount)
           IN  /\ c \in Creators /\ tx[t].amount \in Nat /\ tx[t].kind \in WritingKind
               /\ book[c] \in Balance /\ after \in Balance
               /\ \A e \in Creators : book'[e] = IF e = c THEN after ELSE book[e]
               /\ \A e \in Creators : wallet'[e] = IF e = c /\ tx[t].kind # "none"
                                                   THEN tx[t].wallet ELSE wallet[e]
               /\ \A q \in Payouts \ {tx[t].id} : payout'[q] = payout[q]
               /\ tx[t].id \in Payouts => /\ payout'[tx[t].id].status = tx[t].status
                                          /\ payout'[tx[t].id].profile = c
                                          /\ payout'[tx[t].id].amount = tx[t].amount
<1> DEFINE c     == tx[t].profile
           after == Posted(book[c], tx[t].kind, tx[t].amount)
<1>1. /\ c \in Creators /\ tx[t].amount \in Nat /\ tx[t].kind \in WritingKind
  BY DEF Commit, KInv, IInv, OwnersAreKnown, TypeOK, TransactionRow
<1>2. book[c] \in Balance /\ after \in Balance
  BY <1>1, PostedBalance DEF KInv, IInv, TypeOK
<1>3. book' = [book EXCEPT ![c] = after]
  BY DEF Commit
<1> HIDE DEF after
<1>4. \A e \in Creators : book'[e] = IF e = c THEN after ELSE book[e]
  BY <1>3 DEF KInv, IInv, TypeOK
<1>5. \A e \in Creators : wallet'[e] = IF e = c /\ tx[t].kind # "none"
                                       THEN tx[t].wallet ELSE wallet[e]
  BY DEF Commit, KInv, IInv, TypeOK
<1>6. /\ \A q \in Payouts \ {tx[t].id} : payout'[q] = payout[q]
      /\ tx[t].id \in Payouts => /\ payout'[tx[t].id].status = tx[t].status
                                 /\ payout'[tx[t].id].profile = c
                                 /\ payout'[tx[t].id].amount = tx[t].amount
  BY DEF Commit, SavedPayout, KInv, IInv, TypeOK
<1> QED BY <1>1, <1>2, <1>4, <1>5, <1>6 DEF after

LEMMA CommitKeepsBooks ==
    ASSUME KInv, BooksInv, NEW t \in Transactions, Commit(t)
    PROVE  BooksInv'
<1> DEFINE c     == tx[t].profile
           p     == tx[t].id
           k     == tx[t].kind
           a     == tx[t].amount
           s     == tx[t].status
           after == Posted(book[c], k, a)
<1>1. /\ c \in Creators /\ a \in Nat /\ k \in WritingKind /\ book[c] \in Balance
      /\ \A e \in Creators : book'[e] = IF e = c THEN after ELSE book[e]
      /\ \A e \in Creators : wallet'[e] = IF e = c /\ k # "none" THEN tx[t].wallet ELSE wallet[e]
      /\ \A q \in Payouts \ {p} : payout'[q] = payout[q]
      /\ p \in Payouts => payout'[p].status = s /\ payout'[p].profile = c /\ payout'[p].amount = a
  BY CommitWrites
<1>2. tx[t].phase = "work" /\ tx' = [tx EXCEPT ![t] = Idle]
      /\ posted' = IF k \in PostingKind THEN posted \cup {<<k, p>>} ELSE posted
  BY DEF Commit
<1>3. \A u \in Transactions : tx'[u].phase = "idle"
  BY <1>2 DEF BooksInv, OneIsOpen, IsIdle, Idle, KInv, IInv, TypeOK
<1>4. OneIsOpen' /\ OpenIsCurrent'
  BY <1>3 DEF OneIsOpen, OpenIsCurrent, Current, IsIdle
<1>5. /\ p \in Payouts /\ s # "REQUESTED" => MoveTo(payout[p].status, s) /\ a = payout[p].amount
      /\ tx[t].wallet = Projected(c, k, a)
      /\ IF p \in Payouts THEN k = PostingOf(s) ELSE k \in LockFreeKind
  BY <1>2 DEF BooksInv, OpenIsCurrent, Current
<1>6. /\ p \in Payouts /\ s = "REQUESTED" => payout[p].status = "NONE"
      /\ p \in Payouts /\ s # "REQUESTED" => s # "NONE" /\ payout[p].profile = c
  BY DEF KInv, RequestsAreNew, DecisionsKnowTheOwner
<1>7. /\ after.available = AvailableAfter(book[c], k, a)
      /\ after.reserved = ReservedAfter(book[c], k, a)
      /\ tx[t].wallet = [available |-> after.available, reserved |-> after.reserved]
  BY <1>5 DEF Posted, Projected
<1>8. WalletIsTheLedger'
  <2>1. k = "none" => after.available = book[c].available /\ after.reserved = book[c].reserved
    BY <1>7 DEF AvailableAfter, ReservedAfter
  <2> HIDE DEF after
  <2> QED BY <1>1, <1>7, <2>1 DEF BooksInv, WalletIsTheLedger
<1> HIDE DEF after
<1>9. EndingsAreFinal'
  <2> SUFFICES ASSUME NEW q \in Payouts
               PROVE  /\ <<"PAYOUT_SETTLE", q>> \in posted' => payout'[q].status = "PAID"
                      /\ <<"PAYOUT_REVERSE", q>> \in posted' =>
                             payout'[q].status \in {"CANCELLED", "FAILED"}
    BY DEF EndingsAreFinal
  <2>0. /\ <<"PAYOUT_SETTLE", q>> \in posted => payout[q].status = "PAID"
        /\ <<"PAYOUT_REVERSE", q>> \in posted => payout[q].status \in {"CANCELLED", "FAILED"}
    BY DEF BooksInv, EndingsAreFinal
  <2>1. CASE q # p
    BY <1>1, <1>2, <2>0, <2>1
  <2>2. CASE q = p
    <3>1. payout[q].status \notin {"PAID", "CANCELLED", "FAILED"}
      BY <1>5, <1>6, <2>2 DEF MoveTo, PayoutTransitions
    <3>2. k = PostingOf(s) /\ payout'[q].status = s
      BY <1>1, <1>5, <2>2
    <3> QED BY <1>2, <2>0, <2>2, <3>1, <3>2 DEF PostingOf
  <2> QED BY <2>1, <2>2
<1>10. book[c].reserved \in Int
  BY <1>1 DEF Balance
<1>11. /\ \A q \in Payouts : payout[q].amount \in Nat
       /\ \A q \in Payouts : payout'[q].amount \in Nat
  BY <1>1 DEF KInv, IInv, TypeOK, PayoutRow
<1>12. Reserves(payout, book)'
  <2>0. PICK f, g, m, n : f = payout /\ g = payout' /\ m = book /\ n = book'
    OBVIOUS
  <2> SUFFICES Reserves(g, n)
    BY <2>0 DEF Reserves, HeldIn
  <2>1. Reserves(f, m) /\ \A e \in Creators : n[e] = IF e = c THEN after ELSE m[e]
    BY <1>1, <2>0 DEF BooksInv
  <2>2. CASE p \notin Payouts
    <3>1. k \in LockFreeKind
      BY <1>5, <2>2
    <3>2. after.reserved = m[c].reserved
      BY <1>7, <2>0, <3>1 DEF ReservedAfter, LockFreeKind
    <3>3. \A q \in Payouts : g[q] = f[q]
      BY <1>1, <2>0, <2>2
    <3>4. \A e \in Creators : n[e].reserved = m[e].reserved
      BY <2>1, <3>2
    <3> QED BY <2>1, <3>3, <3>4, ReservesKept
  <2>3. CASE p \in Payouts /\ s = "REQUESTED"
    <3>1. after.reserved = m[c].reserved + a
      BY <1>5, <1>7, <2>0, <2>3 DEF PostingOf, ReservedAfter
    <3>2. /\ f[p].status = "NONE" /\ g[p].status = "REQUESTED" /\ g[p].profile = c
          /\ g[p].amount = a /\ \A q \in Payouts \ {p} : g[q] = f[q]
      BY <1>1, <1>6, <2>0, <2>3
    <3>3. f[p].status \notin ReservedStatus /\ g[p].status \in ReservedStatus
      BY <3>2 DEF ReservedStatus
    <3>4. \A e \in Creators : n[e].reserved = IF e = g[p].profile THEN m[e].reserved + g[p].amount
                                                                 ELSE m[e].reserved
      BY <2>1, <3>1, <3>2
    <3>5. \A q \in Payouts : g[q].amount \in Nat
      BY <1>11, <2>0
    <3> HIDE DEF p
    <3> QED BY <2>1, <2>3, <3>2, <3>3, <3>4, <3>5, ReservesOneMore
  <2>4. CASE p \in Payouts /\ s \in {"APPROVED", "PROCESSING"}
    <3>1. after.reserved = m[c].reserved
      BY <1>5, <1>7, <2>0, <2>4 DEF PostingOf, ReservedAfter
    <3>2. /\ f[p].status \in ReservedStatus /\ g[p].status \in ReservedStatus
          /\ f[p].amount = g[p].amount /\ f[p].profile = g[p].profile
          /\ \A q \in Payouts \ {p} : g[q] = f[q]
      BY <1>1, <1>5, <1>6, <2>0, <2>4 DEF MoveTo, PayoutTransitions, ReservedStatus
    <3>3. \A q \in Payouts :
               /\ g[q].amount = f[q].amount /\ g[q].profile = f[q].profile
               /\ g[q].status \in ReservedStatus <=> f[q].status \in ReservedStatus
      BY <3>2
    <3>4. \A e \in Creators : n[e].reserved = m[e].reserved
      BY <2>1, <3>1
    <3> QED BY <2>1, <3>3, <3>4, ReservesKept
  <2>5. CASE p \in Payouts /\ s \in {"PAID", "FAILED", "CANCELLED"}
    <3>1. after.reserved = m[c].reserved - a
      BY <1>5, <1>7, <2>0, <2>5 DEF PostingOf, ReservedAfter
    <3>2. /\ f[p].status \in ReservedStatus /\ g[p].status \notin ReservedStatus
          /\ f[p].amount = a /\ f[p].profile = c
          /\ \A q \in Payouts \ {p} : g[q] = f[q]
      BY <1>1, <1>5, <1>6, <2>0, <2>5 DEF MoveTo, PayoutTransitions, ReservedStatus
    <3>3. \A e \in Creators : n[e].reserved = IF e = f[p].profile THEN m[e].reserved - f[p].amount
                                                                 ELSE m[e].reserved
      BY <2>1, <3>1, <3>2
    <3>4. \A q \in Payouts : f[q].amount \in Nat
      BY <1>11, <2>0
    <3> HIDE DEF p
    <3> QED BY <2>1, <2>5, <3>2, <3>3, <3>4, ReservesOneLess
  <2>6. p \in Payouts => s \in {"REQUESTED", "APPROVED", "PROCESSING", "PAID", "FAILED", "CANCELLED"}
    BY <1>6 DEF KInv, IInv, TypeOK, TransactionRow, PayoutStatus
  <2> QED BY <2>2, <2>3, <2>4, <2>5, <2>6
<1> QED BY <1>4, <1>8, <1>9, <1>12 DEF BooksInv

LEMMA StepKeepsBooks ==
    ASSUME KInv, BooksInv, Next, OneIsOpen'
    PROVE  BooksInv'
<1> USE PayoutsAssumption
<1>1. ASSUME NEW t \in Transactions, NEW id, id \notin Payouts, NEW c, NEW amount,
             NEW kind \in LockFreeKind,
             tx' = [tx EXCEPT ![t] = Working(id, c, amount, "NONE", kind)],
             UNCHANGED <<payout, book, posted, wallet>>
      PROVE  BooksInv'
  <2>1. PICK r : r = Working(id, c, amount, "NONE", kind)
    OBVIOUS
  <2>2. Current(r)
    BY <1>1, <2>1 DEF Current, Working
  <2> QED BY <1>1, <2>1, <2>2, BooksUntouched
<1>2. ASSUME NEW t \in Transactions, NEW r \in Releases, NEW c \in Creators,
             NEW amount \in Amounts, ReleaseEscrow(t, r, c, amount)
      PROVE  BooksInv'
  BY <1>1, <1>2 DEF ReleaseEscrow, LockFreeKind
<1>3. ASSUME NEW t \in Transactions, NEW c \in Creators, GetWallet(t, c)
      PROVE  BooksInv'
  BY <1>1, <1>3 DEF GetWallet, LockFreeKind
<1>4. ASSUME NEW t \in Transactions, NEW p \in Payouts, NEW c, NEW amount, NEW status,
             status # "REQUESTED" => MoveTo(payout[p].status, status) /\ amount = payout[p].amount,
             tx' = [tx EXCEPT ![t] = Working(p, c, amount, status, PostingOf(status))],
             UNCHANGED <<payout, book, posted, wallet>>
      PROVE  BooksInv'
  <2>1. PICK r : r = Working(p, c, amount, status, PostingOf(status))
    OBVIOUS
  <2>2. /\ r.phase = "work" /\ r.id = p /\ r.profile = c /\ r.status = status
        /\ r.kind = PostingOf(status) /\ r.amount = amount
        /\ r.wallet = Projected(c, PostingOf(status), amount)
    BY <2>1 DEF Working
  <2>3. Current(r)
    BY <1>4, <2>2 DEF Current
  <2> QED BY <1>4, <2>1, <2>3, BooksUntouched
<1>5. ASSUME NEW t \in Transactions, NEW p \in Payouts, NEW c \in Creators,
             NEW amount \in Amounts, RequestPayout(t, p, c, amount)
      PROVE  BooksInv'
  BY <1>4, <1>5 DEF RequestPayout
<1>6. ASSUME NEW t \in Transactions, NEW p \in Payouts, CancelPayout(t, p)
      PROVE  BooksInv'
  BY <1>4, <1>6 DEF CancelPayout
<1>7. ASSUME NEW t \in Transactions, NEW p \in Payouts, NEW status \in AdminDecision,
             ReadPayout(t, p, status)
      PROVE  BooksInv'
  <2>1. PICK r : r = Reading(p, status)
    OBVIOUS
  <2>2. Current(r)
    BY <1>7, <2>1 DEF Current, Reading, ReadPayout
  <2> QED BY <1>7, <2>1, <2>2, BooksUntouched DEF ReadPayout
<1>8. ASSUME NEW t \in Transactions, LockAndDecide(t)
      PROVE  BooksInv'
  <2>1. /\ tx[t].phase = "read" /\ tx[t].id \in Payouts
        /\ tx[t].status # "REQUESTED" => /\ MoveTo(payout[tx[t].id].status, tx[t].status)
                                         /\ tx[t].amount = payout[tx[t].id].amount
    BY <1>8 DEF LockAndDecide, BooksInv, OpenIsCurrent, Current
  <2> QED BY <1>4, <1>8, <2>1 DEF LockAndDecide
<1>9. ASSUME NEW t \in Transactions, RollBack(t)
      PROVE  BooksInv'
  <2>1. PICK r : r = Idle
    OBVIOUS
  <2>2. Current(r)
    BY <2>1 DEF Current, Idle
  <2> QED BY <1>9, <2>1, <2>2, BooksUntouched DEF RollBack
<1> QED
  BY <1>2, <1>3, <1>5, <1>6, <1>7, <1>8, <1>9, CommitKeepsBooks DEF Next

LEMMA BooksStutter ==
    ASSUME BooksInv, UNCHANGED vars
    PROVE  BooksInv'
<1>1. OneIsOpen' /\ OpenIsCurrent'
  BY DEF vars, BooksInv, OneIsOpen, OpenIsCurrent, Current, IsIdle, Projected
<1>2. EndingsAreFinal' /\ WalletIsTheLedger' /\ Reserves(payout, book)'
  BY DEF vars, BooksInv, EndingsAreFinal, WalletIsTheLedger, Reserves, HeldIn
<1> QED BY <1>1, <1>2 DEF BooksInv

LEMMA BooksAgree ==
    ASSUME BooksInv
    PROVE  ReservedIsWhatPayoutsHold /\ ReservationEndsOnce /\ WalletIsTheLedger
<1>1. ReservedIsWhatPayoutsHold
  BY DEF BooksInv, Reserves, HeldIn, ReservedIsWhatPayoutsHold, Total
<1>2. ReservationEndsOnce
  BY DEF BooksInv, EndingsAreFinal, ReservationEndsOnce
<1> QED BY <1>1, <1>2 DEF BooksInv
==============================================================================
