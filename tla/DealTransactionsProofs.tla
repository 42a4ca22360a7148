----------------------- MODULE DealTransactionsProofs -----------------------
(***************************************************************************)
(* What the database still guarantees when the transactions of any number  *)
(* of use cases overlap: the types, that the escrow status of a deal is    *)
(* backed by a posting, that nothing is paid twice, and that a deal has    *)
(* one payment (the last part, with an invariant of its own).              *)
(*                                                                         *)
(* None of them is inductive, because a transaction saves a row it read    *)
(* long ago.  The inductive invariant says of every row in the memory of a *)
(* transaction what the table may rely on when it is saved (InMemory):     *)
(* that its terms are those of the deal, and that its escrow status is the *)
(* one it was read with, which the postings back for ever after, or one    *)
(* that the commit posts.                                                  *)
(***************************************************************************)
EXTENDS DealOverwrites, DealMoneyProofs, FiniteSetTheorems

Backed(row, d) ==
    /\ row.escrow = "HELD"     => <<"ESCROW_FUNDING", d>> \in posted
    /\ row.escrow = "RELEASED" => <<"ESCROW_RELEASE", d>> \in posted
    /\ row.escrow = "REFUNDED" => <<"ESCROW_REFUND", d>> \in posted

(* How a use case may leave the escrow of the row it read. *)
Follows(use, seen, row) ==
    \/ row.escrow = seen.escrow
    \/ row.escrow = "FAILED"
    \/ row.escrow = "HELD" /\ use = "capture"
    \/ row.escrow = "RELEASED" /\ use \in {"approve", "autoApprove"}
    \/ row.escrow = "REFUNDED" /\ seen.escrow = "HELD"
         /\ use \in {"decline", "expire", "refund", "resolveForBuyer"}

RefFits(use, ref) ==
    /\ use \in {"pay", "capture"} => ref \in Intents
    /\ use = "deliver"            => ref \in 0 .. MaxVersions
    /\ use = "openDispute"        => ref \in 0 .. MaxDisputes

InMemory(t) ==
    LET d == tx[t].deal
    IN  /\ RefFits(tx[t].use, tx[t].ref)
        /\ tx[t].phase \in {"read", "checked"} =>
              /\ d \in Deals
              /\ deal[d].status # "NONE" /\ tx[t].row.status # "NONE"
              /\ SameTerms(deal[d], tx[t].seen) /\ SameTerms(deal[d], tx[t].row)
              /\ Backed(tx[t].seen, d)
              /\ Follows(tx[t].use, tx[t].seen, tx[t].row)
        /\ tx[t].phase = "found" /\ tx[t].use = "capture" /\ d \in Deals =>
              deal[d].status # "NONE"
        /\ tx[t].phase = "checked" => tx[t].use \in {"approve", "autoApprove"}

(* The accounts of a deal, from its postings. *)
Books(row, money, d) ==
    /\ money.clearing = IF <<"ESCROW_FUNDING", d>> \in posted THEN row.amount ELSE 0
    /\ money.refunds  = IF <<"ESCROW_REFUND", d>> \in posted THEN row.amount ELSE 0
    /\ money.creator  = IF <<"ESCROW_RELEASE", d>> \in posted THEN row.creatorNet ELSE 0
    /\ money.fees     = IF <<"ESCROW_RELEASE", d>> \in posted THEN row.platformFee ELSE 0

BooksFollowPostings == \A d \in Deals : Books(deal[d], ledger[d], d)

PostingKind == {"ESCROW_FUNDING", "ESCROW_REFUND", "ESCROW_RELEASE"}

(* Ids that are not used yet are not paid for, and nothing was posted there. *)
UnusedIsUntouched ==
    /\ \A d \in Deals, kind \in PostingKind :
           deal[d].status = "NONE" => <<kind, d>> \notin posted
    /\ \A i \in Intents : intent[i].deal \in Deals => deal[intent[i].deal].status # "NONE"

MemoryIsSound == \A t \in Transactions : InMemory(t)

IInv ==
    /\ TypeOK
    /\ EscrowStatusIsBacked
    /\ BooksFollowPostings
    /\ UnusedIsUntouched
    /\ MemoryIsSound
-----------------------------------------------------------------------------
(* What the methods of Deal do to the two statuses of a row.                 *)
LEMMA MethodsMove ==
    ASSUME NEW d \in DealRow
    PROVE  /\ HeldDeal(d).status = d.status          /\ HeldDeal(d).escrow = "HELD"
           /\ AcceptedDeal(d).status = "ACCEPTED"    /\ AcceptedDeal(d).escrow = d.escrow
           /\ DeclinedDeal(d).status = "DECLINED"    /\ DeclinedDeal(d).escrow = d.escrow
           /\ DeliveredDeal(d).status = "DELIVERED"  /\ DeliveredDeal(d).escrow = d.escrow
           /\ RejectedDeal(d).status = "IN_PROGRESS" /\ RejectedDeal(d).escrow = d.escrow
           /\ ApprovedDeal(d).status = "APPROVED"    /\ ApprovedDeal(d).escrow = d.escrow
           /\ SettledDeal(d).status = "PAID"         /\ SettledDeal(d).escrow = "RELEASED"
           /\ ExpiredDeal(d).status = "EXPIRED"      /\ ExpiredDeal(d).escrow = d.escrow
           /\ RefundedDeal(d).status = "REFUNDED"    /\ RefundedDeal(d).escrow = d.escrow
           /\ TickedDeal(d).status = d.status        /\ TickedDeal(d).escrow = d.escrow
BY DEF DealRow, HeldDeal, AcceptedDeal, DeclinedDeal, DeliveredDeal, RejectedDeal, ApprovedDeal,
       SettledDeal, ExpiredDeal, RefundedDeal, TickedDeal

LEMMA SameTermsCompose ==
    ASSUME NEW a, NEW b, NEW c, SameTerms(a, b)
    PROVE  SameTerms(a, c) <=> SameTerms(b, c)
BY DEF SameTerms

LEMMA IdleType == Idle \in TransactionRow /\ NoDeal \in DealRow
<1>1. NoDeal \in DealRow
  BY PolicyAssumption
  DEF NoDeal, DealRow, OfferKind, DealStatus, EscrowStatus, Deadline, NoDeadline
<1> QED BY <1>1 DEF Idle, TransactionRow

-----------------------------------------------------------------------------
(* Two ways of changing a transaction that leave the tables alone.           *)
LEMMA ReadKeeps ==
    ASSUME IInv, NEW t \in Transactions, NEW use \in UseCase, NEW d \in Deals,
           NEW ref \in Intents \cup Nat, NEW row \in DealRow,
           Reads(t, use, d, ref, row), RefFits(use, ref),
           deal[d].status # "NONE", row.status # "NONE",
           SameTerms(deal[d], row), Follows(use, deal[d], row)
    PROVE  IInv'
<1> DEFINE entry == [phase |-> "read", use |-> use, deal |-> d, ref |-> ref,
                     seen |-> deal[d], row |-> row]
<1>1. tx' = [tx EXCEPT ![t] = entry] /\ UNCHANGED tables
  BY DEF Reads
<1>2. deal[d] \in DealRow
  BY DEF IInv, TypeOK
<1>3. entry \in TransactionRow
  BY <1>2 DEF TransactionRow
<1>4. /\ entry.phase = "read" /\ entry.use = use /\ entry.deal = d /\ entry.ref = ref
      /\ entry.seen = deal[d] /\ entry.row = row
  OBVIOUS
<1> HIDE DEF entry
<1>5. TypeOK'
  BY <1>1, <1>3 DEF IInv, TypeOK, tables
<1>6. EscrowStatusIsBacked' /\ BooksFollowPostings' /\ UnusedIsUntouched'
  BY <1>1 DEF IInv, tables, EscrowStatusIsBacked, BooksFollowPostings, Books, UnusedIsUntouched
<1>7. ASSUME NEW u \in Transactions
      PROVE  InMemory(u)'
  <2>1. tx \in [Transactions -> TransactionRow]
    BY DEF IInv, TypeOK
  <2>2. CASE u # t
    <3>1. tx'[u] = tx[u] /\ deal' = deal /\ posted' = posted
      BY <1>1, <2>1, <2>2 DEF tables
    <3>2. InMemory(u)
      BY DEF IInv, MemoryIsSound
    <3> QED BY <3>1, <3>2 DEF InMemory, Backed
  <2>3. CASE u = t
    <3>1. tx'[u] = entry /\ deal' = deal /\ posted' = posted
      BY <1>1, <2>1, <2>3 DEF tables
    <3>2. Backed(deal[d], d)
      BY DEF IInv, EscrowStatusIsBacked, Backed
    <3>3. SameTerms(deal[d], deal[d])
      BY DEF SameTerms
    <3> QED BY <1>4, <3>1, <3>2, <3>3 DEF InMemory, Backed
  <2> QED BY <2>2, <2>3
<1> QED BY <1>5, <1>6, <1>7 DEF IInv, MemoryIsSound

LEMMA FindKeeps ==
    ASSUME IInv, NEW t \in Transactions, NEW use \in UseCase, NEW d \in Deals \cup {"none"},
           NEW ref \in Intents \cup Nat, Finds(t, use, d, ref), RefFits(use, ref),
           use = "capture" /\ d \in Deals => deal[d].status # "NONE"
    PROVE  IInv'
<1> DEFINE entry == [Idle EXCEPT !.phase = "found", !.use = use, !.deal = d, !.ref = ref]
<1>1. tx' = [tx EXCEPT ![t] = entry] /\ UNCHANGED tables
  BY DEF Finds
<1>3. entry \in TransactionRow
  BY IdleType DEF TransactionRow
<1>4. entry.phase = "found" /\ entry.use = use /\ entry.deal = d /\ entry.ref = ref
  BY DEF Idle
<1> HIDE DEF entry
<1>5. TypeOK'
  BY <1>1, <1>3 DEF IInv, TypeOK, tables
<1>6. EscrowStatusIsBacked' /\ BooksFollowPostings' /\ UnusedIsUntouched'
  BY <1>1 DEF IInv, tables, EscrowStatusIsBacked, BooksFollowPostings, Books, UnusedIsUntouched
<1>7. ASSUME NEW u \in Transactions
      PROVE  InMemory(u)'
  <2>1. tx \in [Transactions -> TransactionRow]
    BY DEF IInv, TypeOK
  <2>2. CASE u # t
    <3>1. tx'[u] = tx[u] /\ deal' = deal /\ posted' = posted
      BY <1>1, <2>1, <2>2 DEF tables
    <3>2. InMemory(u)
      BY DEF IInv, MemoryIsSound
    <3> QED BY <3>1, <3>2 DEF InMemory, Backed
  <2>3. CASE u = t
    <3>1. tx'[u] = entry /\ deal' = deal
      BY <1>1, <2>1, <2>3 DEF tables
    <3> QED BY <1>4, <3>1 DEF InMemory
  <2> QED BY <2>2, <2>3
<1> QED BY <1>5, <1>6, <1>7 DEF IInv, MemoryIsSound

-----------------------------------------------------------------------------
(* Every read of a use case prepares a row that its commit may save.         *)

(* The rows of uses that leave the escrow alone. *)
LEMMA PlainReadKeeps ==
    ASSUME IInv, NEW t \in Transactions, NEW use \in UseCase, NEW d \in Deals,
           NEW ref \in Intents \cup Nat, NEW row \in DealRow,
           Reads(t, use, d, ref, row), RefFits(use, ref),
           deal[d].status # "NONE", row.status # "NONE",
           SameTerms(deal[d], row), row.escrow = deal[d].escrow
    PROVE  IInv'
BY ReadKeeps DEF Follows

(* decline, expire, refund and resolveForBuyer: the row of closeEscrow. *)
LEMMA CloseReadKeeps ==
    ASSUME IInv, NEW t \in Transactions, NEW d \in Deals, NEW ref \in Intents \cup Nat,
           NEW use \in {"decline", "expire", "refund", "resolveForBuyer"},
           NEW closed \in DealRow,
           Reads(t, use, d, ref, ClosedRow(closed)),
           deal[d].status # "NONE", closed.status # "NONE",
           SameTerms(deal[d], closed), closed.escrow = deal[d].escrow
    PROVE  IInv'
<1>1. use \in UseCase /\ RefFits(use, ref)
  BY DEF UseCase, RefFits
<1>2. /\ ClosedRow(closed) \in DealRow
      /\ SameTerms(closed, ClosedRow(closed)) /\ ClosedRow(closed).status # "NONE"
  BY ClosedRowFields
<1>3. SameTerms(deal[d], ClosedRow(closed))
  BY <1>2, SameTermsCompose
<1>4. Follows(use, deal[d], ClosedRow(closed))
  <2>1. CASE closed.escrow = "PENDING"
    BY <2>1, ClosedRowFields DEF Follows
  <2>2. CASE closed.escrow = "HELD"
    BY <2>2, ClosedRowFields DEF Follows
  <2>3. CASE closed.escrow \notin {"PENDING", "HELD"}
    BY <2>3, ClosedRowFields DEF Follows
  <2> QED BY <2>1, <2>2, <2>3
<1> QED BY <1>1, <1>2, <1>3, <1>4, ReadKeeps

LEMMA ReadingKeeps ==
    ASSUME IInv, NEW t \in Transactions, NEW d \in Deals, Read(t, d)
    PROVE  IInv'
<1>0. /\ deal[d] \in DealRow /\ tx[t] \in TransactionRow /\ InMemory(t)
      /\ delivered[d] \in 0 .. MaxVersions /\ dispute[d] \in DisputeRow
      /\ MaxVersions \in Nat /\ MaxDisputes \in Nat
  BY TransactionsAssumption DEF IInv, TypeOK, MemoryIsSound
<1>r. 0 \in Intents \cup Nat
  OBVIOUS
<1>m. \A status : MoveTo(deal[d], status) => deal[d].status # "NONE"
  BY DEF MoveTo, DealTransitions
<1>1. ASSUME NEW i \in Intents, ReadToPay(t, d, i)
      PROVE  IInv'
  <2>1. Reads(t, "pay", d, i, deal[d]) /\ deal[d].status # "NONE"
    BY <1>1 DEF ReadToPay
  <2>2. "pay" \in UseCase /\ RefFits("pay", i) /\ SameTerms(deal[d], deal[d])
    BY DEF UseCase, RefFits, SameTerms
  <2> QED BY <1>0, <2>1, <2>2, PlainReadKeeps
<1>2. CASE ReadToCapture(t, d)
  <2>1. Reads(t, "capture", d, tx[t].ref, HeldDeal(deal[d]))
    BY <1>2 DEF ReadToCapture
  <2>2. tx[t].ref \in Intents /\ deal[d].status # "NONE"
    BY <1>0, <1>2 DEF ReadToCapture, InMemory, RefFits
  <2>3. /\ HeldDeal(deal[d]) \in DealRow /\ SameTerms(deal[d], HeldDeal(deal[d]))
        /\ HeldDeal(deal[d]).status # "NONE" /\ HeldDeal(deal[d]).escrow = "HELD"
    BY <1>0, <2>2, MethodsKeepTerms, MethodsMove
  <2>4. "capture" \in UseCase /\ RefFits("capture", tx[t].ref)
    BY <2>2 DEF UseCase, RefFits
  <2>5. Follows("capture", deal[d], HeldDeal(deal[d]))
    BY <2>3 DEF Follows
  <2> QED BY <2>1, <2>2, <2>3, <2>4, <2>5, ReadKeeps
<1>3. CASE ReadToAccept(t, d)
  <2>1. Reads(t, "accept", d, 0, AcceptedDeal(deal[d])) /\ deal[d].status # "NONE"
    BY <1>3, <1>m DEF ReadToAccept, CanAccept
  <2>2. /\ AcceptedDeal(deal[d]) \in DealRow /\ SameTerms(deal[d], AcceptedDeal(deal[d]))
        /\ AcceptedDeal(deal[d]).status # "NONE" /\ AcceptedDeal(deal[d]).escrow = deal[d].escrow
    BY <1>0, MethodsKeepTerms, MethodsMove
  <2>3. "accept" \in UseCase /\ RefFits("accept", 0)
    BY DEF UseCase, RefFits
  <2> QED BY <1>r, <2>1, <2>2, <2>3, PlainReadKeeps
<1>4. CASE ReadToDecline(t, d)
  <2>1. Reads(t, "decline", d, 0, ClosedRow(DeclinedDeal(deal[d]))) /\ deal[d].status # "NONE"
    BY <1>4, <1>m DEF ReadToDecline, CanDecline
  <2>2. /\ DeclinedDeal(deal[d]) \in DealRow /\ SameTerms(deal[d], DeclinedDeal(deal[d]))
        /\ DeclinedDeal(deal[d]).status # "NONE" /\ DeclinedDeal(deal[d]).escrow = deal[d].escrow
    BY <1>0, MethodsKeepTerms, MethodsMove
  <2> QED BY <1>r, <2>1, <2>2, CloseReadKeeps
<1>5. CASE ReadToExpire(t, d)
  <2>1. Reads(t, "expire", d, 0, ClosedRow(ExpiredDeal(deal[d]))) /\ deal[d].status # "NONE"
    BY <1>5, <1>m DEF ReadToExpire, CanExpire
  <2>2. /\ ExpiredDeal(deal[d]) \in DealRow /\ SameTerms(deal[d], ExpiredDeal(deal[d]))
        /\ ExpiredDeal(deal[d]).status # "NONE" /\ ExpiredDeal(deal[d]).escrow = deal[d].escrow
    BY <1>0, MethodsKeepTerms, MethodsMove
  <2> QED BY <1>r, <2>1, <2>2, CloseReadKeeps
<1>6. CASE ReadToDeliver(t, d)
  <2> DEFINE version == delivered[d] + 1
  <2>1. Reads(t, "deliver", d, version, DeliveredDeal(deal[d])) /\ deal[d].status # "NONE"
    BY <1>6, <1>m DEF ReadToDeliver, CanDeliver
  <2>2. /\ DeliveredDeal(deal[d]) \in DealRow /\ SameTerms(deal[d], DeliveredDeal(deal[d]))
        /\ DeliveredDeal(deal[d]).status # "NONE" /\ DeliveredDeal(deal[d]).escrow = deal[d].escrow
    BY <1>0, MethodsKeepTerms, MethodsMove
  <2>3. version \in 0 .. MaxVersions
    BY <1>0, <1>6 DEF ReadToDeliver
  <2> HIDE DEF version
  <2>4. "deliver" \in UseCase /\ RefFits("deliver", version)
    BY <2>3 DEF UseCase, RefFits
  <2>5. version \in Intents \cup Nat
    BY <1>0, <2>3
  <2> QED BY <2>1, <2>2, <2>4, <2>5, PlainReadKeeps
<1>7. CASE ReadToReject(t, d)
  <2>1. Reads(t, "reject", d, 0, RejectedDeal(deal[d])) /\ deal[d].status # "NONE" /\ CanReject(deal[d])
    BY <1>7, <1>m DEF ReadToReject, CanReject
  <2>2. /\ RejectedDeal(deal[d]) \in DealRow /\ SameTerms(deal[d], RejectedDeal(deal[d]))
        /\ RejectedDeal(deal[d]).status # "NONE" /\ RejectedDeal(deal[d]).escrow = deal[d].escrow
    BY <1>0, <2>1, MethodsKeepTerms, MethodsMove
  <2>3. "reject" \in UseCase /\ RefFits("reject", 0)
    BY DEF UseCase, RefFits
  <2> QED BY <1>r, <2>1, <2>2, <2>3, PlainReadKeeps
<1>8. ASSUME NEW use \in {"approve", "autoApprove"}, ReadsToApprove(t, use, d)
      PROVE  IInv'
  <2> DEFINE approved == ApprovedDeal(deal[d])
             settled  == SettledDeal(approved)
  <2>1. Reads(t, use, d, 0, settled) /\ deal[d].status # "NONE"
    BY <1>8, <1>m DEF ReadsToApprove, CanApprove
  <2>2. approved \in DealRow /\ SameTerms(deal[d], approved)
    BY <1>0, MethodsKeepTerms
  <2> HIDE DEF approved
  <2>3. /\ settled \in DealRow /\ SameTerms(approved, settled)
        /\ settled.status # "NONE" /\ settled.escrow = "RELEASED"
    BY <2>2, MethodsKeepTerms, MethodsMove
  <2> HIDE DEF settled
  <2>4. SameTerms(deal[d], settled)
    BY <2>2, <2>3, SameTermsCompose
  <2>5. use \in UseCase /\ RefFits(use, 0) /\ Follows(use, deal[d], settled)
    BY <2>3 DEF UseCase, RefFits, Follows
  <2> QED BY <1>r, <2>1, <2>3, <2>4, <2>5, ReadKeeps
<1>9. CASE ReadToApprove(t, d)
  BY <1>8, <1>9 DEF ReadToApprove
<1>10. CASE ReadToAutoApprove(t, d)
  BY <1>8, <1>10 DEF ReadToAutoApprove
<1>11. CASE ListOverdue(t, d)
  <2>1. Finds(t, "autoApprove", d, 0) /\ deal[d].status # "NONE"
    BY <1>11 DEF ListOverdue
  <2>2. "autoApprove" \in UseCase /\ RefFits("autoApprove", 0)
    BY DEF UseCase, RefFits
  <2> QED BY <1>r, <2>1, <2>2, FindKeeps
<1>12. CASE ReadToRefund(t, d)
  <2>1. Reads(t, "refund", d, 0, ClosedRow(RefundedDeal(deal[d]))) /\ deal[d].status # "NONE"
    BY <1>12, <1>m DEF ReadToRefund, CanRefund
  <2>2. /\ RefundedDeal(deal[d]) \in DealRow /\ SameTerms(deal[d], RefundedDeal(deal[d]))
        /\ RefundedDeal(deal[d]).status # "NONE" /\ RefundedDeal(deal[d]).escrow = deal[d].escrow
    BY <1>0, MethodsKeepTerms, MethodsMove
  <2> QED BY <1>r, <2>1, <2>2, CloseReadKeeps
<1>13. CASE ReadToOpenDispute(t, d)
  <2> DEFINE id == dispute[d].id + 1
  <2>1. Reads(t, "openDispute", d, id, deal[d]) /\ deal[d].status # "NONE"
    BY <1>13 DEF ReadToOpenDispute, DisputableStatus
  <2>2. id \in 0 .. MaxDisputes
    BY <1>0, <1>13 DEF ReadToOpenDispute, DisputeRow
  <2> HIDE DEF id
  <2>3. "openDispute" \in UseCase /\ RefFits("openDispute", id) /\ SameTerms(deal[d], deal[d])
    BY <2>2 DEF UseCase, RefFits, SameTerms
  <2>4. id \in Intents \cup Nat
    BY <1>0, <2>2
  <2> QED BY <1>0, <2>1, <2>3, <2>4, PlainReadKeeps
<1>14. CASE FindDispute(t, d)
  <2>1. Finds(t, "resolveForBuyer", d, dispute[d].id)
    BY <1>14 DEF FindDispute
  <2>2. dispute[d].id \in Intents \cup Nat
    BY <1>0 DEF DisputeRow
  <2>3. "resolveForBuyer" \in UseCase /\ RefFits("resolveForBuyer", dispute[d].id)
    BY DEF UseCase, RefFits
  <2> QED BY <2>1, <2>2, <2>3, FindKeeps
<1>15. CASE ReadToResolveForBuyer(t, d)
  <2>1. /\ Reads(t, "resolveForBuyer", d, tx[t].ref, ClosedRow(RefundedDeal(deal[d])))
        /\ deal[d].status # "NONE"
    BY <1>15, <1>m DEF ReadToResolveForBuyer, CanRefund
  <2>2. /\ RefundedDeal(deal[d]) \in DealRow /\ SameTerms(deal[d], RefundedDeal(deal[d]))
        /\ RefundedDeal(deal[d]).status # "NONE" /\ RefundedDeal(deal[d]).escrow = deal[d].escrow
    BY <1>0, MethodsKeepTerms, MethodsMove
  <2>3. tx[t].ref \in Intents \cup Nat
    BY <1>0 DEF TransactionRow
  <2> QED BY <2>1, <2>2, <2>3, CloseReadKeeps
<1>16. CASE ReadToSendMessage(t, d)
  <2>1. Reads(t, "message", d, 0, deal[d]) /\ deal[d].status # "NONE"
    BY <1>16 DEF ReadToSendMessage
  <2>2. "message" \in UseCase /\ RefFits("message", 0) /\ SameTerms(deal[d], deal[d])
    BY DEF UseCase, RefFits, SameTerms
  <2> QED BY <1>0, <1>r, <2>1, <2>2, PlainReadKeeps
<1> QED
  BY <1>1, <1>2, <1>3, <1>4, <1>5, <1>6, <1>7, <1>9, <1>10, <1>11, <1>12, <1>13, <1>14, <1>15,
     <1>16 DEF Read

-----------------------------------------------------------------------------
(* A step that keeps the terms of every deal in use, adds postings at most   *)
(* and ends transactions leaves the memory of the others sound.              *)
TermsKept == \A d \in Deals : deal[d].status # "NONE" =>
                 SameTerms(deal[d], deal'[d]) /\ deal'[d].status # "NONE"

LEMMA MemoryKept ==
    ASSUME IInv, TermsKept, posted \subseteq posted',
           \A u \in Transactions : tx'[u] = tx[u] \/ tx'[u] = Idle
    PROVE  MemoryIsSound'
<1>1. ASSUME NEW u \in Transactions
      PROVE  InMemory(u)'
  <2>1. CASE tx'[u] = Idle
    BY <2>1 DEF InMemory, Idle, RefFits
  <2>2. CASE tx'[u] = tx[u]
    <3> DEFINE d == tx[u].deal
    <3>1. InMemory(u)
      BY DEF IInv, MemoryIsSound
    <3>2. RefFits(tx[u].use, tx[u].ref)
      BY <3>1 DEF InMemory
    <3>3. ASSUME tx[u].phase \in {"read", "checked"}
          PROVE  /\ d \in Deals
                 /\ deal'[d].status # "NONE" /\ tx[u].row.status # "NONE"
                 /\ SameTerms(deal'[d], tx[u].seen) /\ SameTerms(deal'[d], tx[u].row)
                 /\ Backed(tx[u].seen, d)'
                 /\ Follows(tx[u].use, tx[u].seen, tx[u].row)
      <4>1. /\ d \in Deals /\ deal[d].status # "NONE" /\ tx[u].row.status # "NONE"
            /\ SameTerms(deal[d], tx[u].seen) /\ SameTerms(deal[d], tx[u].row)
            /\ Backed(tx[u].seen, d) /\ Follows(tx[u].use, tx[u].seen, tx[u].row)
        BY <3>1, <3>3 DEF InMemory
      <4>2. SameTerms(deal[d], deal'[d]) /\ deal'[d].status # "NONE"
        BY <4>1 DEF TermsKept
      <4>3. SameTerms(deal'[d], tx[u].seen) /\ SameTerms(deal'[d], tx[u].row)
        BY <4>1, <4>2 DEF SameTerms
      <4>4. Backed(tx[u].seen, d)'
        BY <2>2, <4>1 DEF Backed
      <4> QED BY <4>1, <4>2, <4>3, <4>4
    <3>4. tx[u].phase = "found" /\ tx[u].use = "capture" /\ d \in Deals => deal'[d].status # "NONE"
      BY <3>1 DEF InMemory, TermsKept
    <3>5. tx[u].phase = "checked" => tx[u].use \in {"approve", "autoApprove"}
      BY <3>1 DEF InMemory
    <3> QED BY <2>2, <3>2, <3>3, <3>4, <3>5 DEF InMemory, Backed
  <2> QED BY <2>1, <2>2
<1> QED BY <1>1 DEF MemoryIsSound

LEMMA EndsType ==
    ASSUME IInv, NEW t \in Transactions, Ends(t)
    PROVE  /\ tx' \in [Transactions -> TransactionRow]
           /\ \A u \in Transactions : tx'[u] = tx[u] \/ tx'[u] = Idle
BY IdleType DEF IInv, TypeOK, Ends

(* Without a new posting the books follow the postings as before. *)
LEMMA BooksKept ==
    ASSUME IInv, TermsKept, UNCHANGED <<ledger, posted>>
    PROVE  BooksFollowPostings'
<1>1. ASSUME NEW d \in Deals
      PROVE  Books(deal[d], ledger[d], d)'
  <2>1. Books(deal[d], ledger[d], d)
    BY DEF IInv, BooksFollowPostings
  <2>2. CASE deal[d].status # "NONE"
    BY <2>1, <2>2 DEF TermsKept, SameTerms, Books
  <2>3. CASE deal[d].status = "NONE"
    BY <2>1, <2>3 DEF IInv, UnusedIsUntouched, PostingKind, Books
  <2> QED BY <2>2, <2>3
<1> QED BY <1>1 DEF BooksFollowPostings

(* What deals.save does to the table, given the row that is saved. *)
LEMMA SaveKeeps ==
    ASSUME IInv, NEW t \in Transactions, tx[t].phase \in {"read", "checked"}, Saves(t),
           posted \subseteq posted', NEW row, NEW d, row = tx[t].row, d = tx[t].deal,
           Backed(row, d)'
    PROVE  /\ deal' \in [Deals -> DealRow]
           /\ d \in Deals /\ deal[d].status # "NONE"
           /\ deal'[d] = row /\ \A e \in Deals : e # d => deal'[e] = deal[e]
           /\ TermsKept
           /\ EscrowStatusIsBacked'
<1>1. /\ deal \in [Deals -> DealRow] /\ tx[t] \in TransactionRow
      /\ EscrowStatusIsBacked /\ InMemory(t)
  BY DEF IInv, TypeOK, MemoryIsSound
<1>2. row \in DealRow
  BY <1>1 DEF TransactionRow
<1>3. /\ d \in Deals /\ deal[d].status # "NONE" /\ row.status # "NONE"
      /\ SameTerms(deal[d], row)
  BY <1>1 DEF InMemory
<1>4. deal' = [deal EXCEPT ![d] = row]
  BY DEF Saves
<1>5. deal'[d] = row /\ \A e \in Deals : e # d => deal'[e] = deal[e]
  BY <1>1, <1>3, <1>4
<1>6. deal' \in [Deals -> DealRow]
  BY <1>1, <1>2, <1>4
<1>7. TermsKept
  BY <1>3, <1>5 DEF TermsKept, SameTerms
<1>8. ASSUME NEW e \in Deals
      PROVE  Backed(deal[e], e)'
  <2>1. CASE e = d
    BY <1>5, <2>1 DEF Backed
  <2>2. CASE e # d
    BY <1>1, <1>5, <2>2 DEF Backed, EscrowStatusIsBacked
  <2> QED BY <2>1, <2>2
<1>9. EscrowStatusIsBacked'
  BY <1>8 DEF EscrowStatusIsBacked, Backed
<1> QED BY <1>3, <1>5, <1>6, <1>7, <1>9

(* A row whose use left the escrow alone is backed by what was read. *)
LEMMA PlainRowBacked ==
    ASSUME IInv, NEW t \in Transactions, tx[t].phase = "read",
           tx[t].use \in {"accept", "reject", "message", "deliver"}, posted' = posted
    PROVE  \A row, d : row = tx[t].row /\ d = tx[t].deal => Backed(row, d)'
<1>1. InMemory(t)
  BY DEF IInv, MemoryIsSound
<1>2. Backed(tx[t].seen, tx[t].deal) /\ Follows(tx[t].use, tx[t].seen, tx[t].row)
  BY <1>1 DEF InMemory
<1>3. tx[t].row.escrow = tx[t].seen.escrow \/ tx[t].row.escrow = "FAILED"
  BY <1>2 DEF Follows
<1> QED BY <1>2, <1>3 DEF Backed

LEMMA UnusedKept ==
    ASSUME IInv, TermsKept,
           \A d \in Deals, kind \in PostingKind :
               <<kind, d>> \in posted' => <<kind, d>> \in posted \/ deal[d].status # "NONE",
           \A i \in Intents : intent'[i].deal \in Deals =>
               intent'[i].deal = intent[i].deal \/ deal[intent'[i].deal].status # "NONE"
    PROVE  UnusedIsUntouched'
<1>1. UnusedIsUntouched
  BY DEF IInv
<1>2. ASSUME NEW d \in Deals, NEW kind \in PostingKind, deal'[d].status = "NONE"
      PROVE  <<kind, d>> \notin posted'
  BY <1>1, <1>2 DEF UnusedIsUntouched, TermsKept
<1>3. ASSUME NEW i \in Intents, intent'[i].deal \in Deals
      PROVE  deal'[intent'[i].deal].status # "NONE"
  BY <1>1, <1>3 DEF UnusedIsUntouched, TermsKept
<1> QED BY <1>2, <1>3 DEF UnusedIsUntouched

(* A posting moves each account by what its kind says, and only once. *)
LEMMA PostKeeps ==
    ASSUME IInv, TermsKept, NEW d \in Deals, deal[d].status # "NONE",
           NEW kind \in PostingKind, NEW balance \in Balance, Posts(kind, d, balance),
           /\ balance.clearing = ledger[d].clearing
                + (IF kind = "ESCROW_FUNDING" THEN deal[d].amount ELSE 0)
           /\ balance.refunds = ledger[d].refunds
                + (IF kind = "ESCROW_REFUND" THEN deal[d].amount ELSE 0)
           /\ balance.creator = ledger[d].creator
                + (IF kind = "ESCROW_RELEASE" THEN deal[d].creatorNet ELSE 0)
           /\ balance.fees = ledger[d].fees
                + (IF kind = "ESCROW_RELEASE" THEN deal[d].platformFee ELSE 0)
    PROVE  /\ ledger' \in [Deals -> Balance]
           /\ posted \subseteq posted' /\ posted' \subseteq PostingKind \X Deals
           /\ <<kind, d>> \in posted'
           /\ \A e \in Deals, k \in PostingKind :
                 <<k, e>> \in posted' => <<k, e>> \in posted \/ deal[e].status # "NONE"
           /\ BooksFollowPostings'
<1>1. /\ ledger \in [Deals -> Balance] /\ deal \in [Deals -> DealRow]
      /\ posted \subseteq PostingKind \X Deals
  BY DEF IInv, TypeOK, PostingKind
<1>2. /\ <<kind, d>> \notin posted
      /\ posted' = posted \cup {<<kind, d>>}
      /\ ledger' = [ledger EXCEPT ![d] = balance]
  BY DEF Posts, NotPosted
<1>3. ASSUME NEW e \in Deals
      PROVE  Books(deal[e], ledger[e], e)'
  <2>1. Books(deal[e], ledger[e], e)
    BY DEF IInv, BooksFollowPostings
  <2>2. CASE e # d
    <3>1. ledger'[e] = ledger[e]
      BY <1>1, <1>2, <2>2
    <3>2. \A k : <<k, e>> \in posted' <=> <<k, e>> \in posted
      BY <1>2, <2>2
    <3>3. CASE deal[e].status # "NONE"
      BY <2>1, <3>1, <3>2, <3>3 DEF TermsKept, SameTerms, Books
    <3>4. CASE deal[e].status = "NONE"
      <4>1. \A k \in PostingKind : <<k, e>> \notin posted'
        BY <3>2, <3>4 DEF IInv, UnusedIsUntouched
      <4>2. \A k \in PostingKind : <<k, e>> \notin posted
        BY <3>2, <4>1
      <4> QED BY <2>1, <3>1, <4>1, <4>2 DEF PostingKind, Books
    <3> QED BY <3>3, <3>4
  <2>3. CASE e = d
    <3>1. ledger'[e] = balance
      BY <1>1, <1>2, <2>3
    <3>2. SameTerms(deal[e], deal'[e])
      BY <2>3 DEF TermsKept
    <3>3. \A k : <<k, e>> \in posted' <=> (k = kind \/ <<k, e>> \in posted)
      BY <1>2, <2>3
    <3>4. deal[e].amount \in Int /\ deal[e].creatorNet \in Int /\ deal[e].platformFee \in Int
      BY <1>1 DEF DealRow
    <3>5. CASE kind = "ESCROW_FUNDING"
      BY <1>2, <2>1, <2>3, <3>1, <3>2, <3>3, <3>4, <3>5 DEF Books, SameTerms
    <3>6. CASE kind = "ESCROW_REFUND"
      BY <1>2, <2>1, <2>3, <3>1, <3>2, <3>3, <3>4, <3>6 DEF Books, SameTerms
    <3>7. CASE kind = "ESCROW_RELEASE"
      BY <1>2, <2>1, <2>3, <3>1, <3>2, <3>3, <3>4, <3>7 DEF Books, SameTerms
    <3> QED BY <3>5, <3>6, <3>7 DEF PostingKind
  <2> QED BY <2>2, <2>3
<1>4. ledger' \in [Deals -> Balance]
  BY <1>1, <1>2
<1>5. posted \subseteq posted' /\ posted' \subseteq PostingKind \X Deals /\ <<kind, d>> \in posted'
  BY <1>1, <1>2
<1>6. \A e \in Deals, k \in PostingKind :
         <<k, e>> \in posted' => <<k, e>> \in posted \/ deal[e].status # "NONE"
  BY <1>2
<1> QED BY <1>3, <1>4, <1>5, <1>6 DEF BooksFollowPostings

-----------------------------------------------------------------------------
(* Every commit. *)
LEMMA PlainCommitKeeps ==
    ASSUME IInv, NEW t \in Transactions, CommitStatus(t) \/ CommitDelivery(t)
    PROVE  IInv'
<1>0. PICK row, d : row = tx[t].row /\ d = tx[t].deal
  OBVIOUS
<1>1. /\ tx[t].phase = "read" /\ tx[t].use \in {"accept", "reject", "message", "deliver"}
      /\ Saves(t) /\ Ends(t)
      /\ UNCHANGED <<dispute, intent, noticed, flagged, ledger, posted, slotsTaken>>
  BY DEF CommitStatus, CommitDelivery, IsReady
<1>2. Backed(row, d)'
  BY <1>0, <1>1, PlainRowBacked
<1>3. TypeOK /\ InMemory(t)
  BY DEF IInv, MemoryIsSound
<1>4. /\ deal' \in [Deals -> DealRow] /\ d \in Deals
      /\ TermsKept /\ EscrowStatusIsBacked'
  BY <1>0, <1>1, <1>2, SaveKeeps
<1>5. delivered' \in [Deals -> 0 .. MaxVersions]
  <2>1. CASE CommitStatus(t)
    BY <1>3, <2>1 DEF CommitStatus, TypeOK
  <2>2. CASE CommitDelivery(t)
    <3>1. tx[t].ref \in 0 .. MaxVersions
      BY <1>3, <2>2 DEF CommitDelivery, IsReady, InMemory, RefFits
    <3> QED BY <1>3, <2>2, <3>1 DEF CommitDelivery, TypeOK
  <2> QED BY <2>1, <2>2
<1>6. TypeOK'
  BY <1>1, <1>3, <1>4, <1>5, EndsType DEF TypeOK
<1>7. BooksFollowPostings' /\ UnusedIsUntouched' /\ MemoryIsSound'
  BY <1>1, <1>4, EndsType, BooksKept, UnusedKept, MemoryKept
<1> QED BY <1>4, <1>6, <1>7 DEF IInv

LEMMA CommitPayKeeps ==
    ASSUME IInv, NEW t \in Transactions, CommitPay(t)
    PROVE  IInv'
<1> DEFINE d == tx[t].deal
           i == tx[t].ref
<1>1. /\ tx[t].phase = "read" /\ tx[t].use = "pay" /\ Ends(t)
      /\ intent' = [intent EXCEPT ![i] = [deal |-> d, status |-> "PENDING"]]
      /\ UNCHANGED <<deal, delivered, dispute, noticed, flagged, ledger, posted, slotsTaken>>
  BY DEF CommitPay, IsReady
<1>2. TypeOK /\ EscrowStatusIsBacked /\ InMemory(t)
  BY DEF IInv, MemoryIsSound
<1>3. d \in Deals /\ i \in Intents /\ deal[d].status # "NONE"
  BY <1>1, <1>2 DEF InMemory, RefFits
<1>4. intent' \in [Intents -> IntentRow]
  BY <1>1, <1>2, <1>3 DEF TypeOK, IntentRow, IntentStatus
<1>5. \A j \in Intents : intent'[j].deal \in Deals =>
          intent'[j].deal = intent[j].deal \/ deal[intent'[j].deal].status # "NONE"
  BY <1>1, <1>2, <1>3 DEF TypeOK
<1>6. TermsKept
  BY <1>1 DEF TermsKept, SameTerms
<1>7. TypeOK'
  BY <1>1, <1>2, <1>4, EndsType DEF TypeOK
<1>8. EscrowStatusIsBacked'
  BY <1>1, <1>2 DEF EscrowStatusIsBacked
<1>9. BooksFollowPostings' /\ UnusedIsUntouched' /\ MemoryIsSound'
  BY <1>1, <1>5, <1>6, EndsType, BooksKept, UnusedKept, MemoryKept
<1> QED BY <1>7, <1>8, <1>9 DEF IInv

LEMMA CommitCaptureKeeps ==
    ASSUME IInv, NEW t \in Transactions, CommitCapture(t)
    PROVE  IInv'
<1>0. PICK row, d, i : row = tx[t].row /\ d = tx[t].deal /\ i = tx[t].ref
  OBVIOUS
<1> DEFINE balance == Funded(ledger[d], tx[t].seen.amount)
<1>1. /\ tx[t].phase = "read" /\ tx[t].use = "capture"
      /\ noticed' = noticed \cup {i} /\ intent' = [intent EXCEPT ![i].status = "CAPTURED"]
      /\ Posts("ESCROW_FUNDING", d, balance) /\ Saves(t) /\ Ends(t)
      /\ UNCHANGED <<delivered, dispute, flagged, slotsTaken>>
  BY <1>0 DEF CommitCapture, IsReady
<1>2. TypeOK /\ InMemory(t) /\ tx[t] \in TransactionRow
  BY DEF IInv, MemoryIsSound, TypeOK
<1>3. /\ d \in Deals /\ i \in Intents /\ deal[d].status # "NONE"
      /\ tx[t].seen.amount = deal[d].amount
      /\ Backed(tx[t].seen, d) /\ Follows("capture", tx[t].seen, row)
  BY <1>0, <1>1, <1>2 DEF InMemory, RefFits, SameTerms
<1>4. ledger[d] \in Balance /\ deal[d] \in DealRow /\ deal[d].amount \in Int
  BY <1>2, <1>3 DEF TypeOK, DealRow
<1>5. /\ posted' = posted \cup {<<"ESCROW_FUNDING", d>>}
  BY <1>1 DEF Posts
<1>6. Backed(row, d)'
  BY <1>3, <1>5 DEF Backed, Follows
<1>7. /\ deal' \in [Deals -> DealRow] /\ TermsKept /\ EscrowStatusIsBacked'
  BY <1>0, <1>1, <1>5, <1>6, SaveKeeps
<1>8. /\ balance \in Balance
      /\ balance.clearing = ledger[d].clearing + deal[d].amount
      /\ balance.refunds = ledger[d].refunds + 0
      /\ balance.creator = ledger[d].creator + 0
      /\ balance.fees = ledger[d].fees + 0
  BY <1>3, <1>4, FundedFields DEF Balance
<1> HIDE DEF balance
<1>9. /\ ledger' \in [Deals -> Balance] /\ posted \subseteq posted'
      /\ posted' \subseteq PostingKind \X Deals /\ BooksFollowPostings'
      /\ \A e \in Deals, k \in PostingKind :
            <<k, e>> \in posted' => <<k, e>> \in posted \/ deal[e].status # "NONE"
  BY <1>1, <1>3, <1>7, <1>8, PostKeeps DEF PostingKind
<1>10. /\ intent' \in [Intents -> IntentRow]
       /\ \A j \in Intents : intent'[j].deal = intent[j].deal
  BY <1>1, <1>2, <1>3 DEF TypeOK, IntentRow, IntentStatus
<1>11. TypeOK'
  BY <1>1, <1>2, <1>3, <1>7, <1>9, <1>10, EndsType DEF TypeOK, PostingKind
<1>12. UnusedIsUntouched' /\ MemoryIsSound'
  BY <1>1, <1>7, <1>9, <1>10, EndsType, UnusedKept, MemoryKept
<1> QED BY <1>7, <1>9, <1>11, <1>12 DEF IInv

LEMMA CommitReleaseKeeps ==
    ASSUME IInv, NEW t \in Transactions, CommitRelease(t)
    PROVE  IInv'
<1>0. PICK row, d : row = tx[t].row /\ d = tx[t].deal
  OBVIOUS
<1> DEFINE balance == Released(ledger[d], tx[t].seen)
<1>1. /\ tx[t].phase = "checked" /\ Posts("ESCROW_RELEASE", d, balance) /\ Saves(t) /\ Ends(t)
      /\ UNCHANGED <<delivered, dispute, intent, noticed, flagged, slotsTaken>>
  BY <1>0 DEF CommitRelease
<1>2. TypeOK /\ InMemory(t) /\ tx[t] \in TransactionRow
  BY DEF IInv, MemoryIsSound, TypeOK
<1>3. /\ d \in Deals /\ deal[d].status # "NONE"
      /\ tx[t].seen.creatorNet = deal[d].creatorNet /\ tx[t].seen.platformFee = deal[d].platformFee
      /\ Backed(tx[t].seen, d) /\ Follows(tx[t].use, tx[t].seen, row)
      /\ tx[t].use \in {"approve", "autoApprove"}
  BY <1>0, <1>1, <1>2 DEF InMemory, SameTerms
<1>4. ledger[d] \in Balance /\ tx[t].seen \in DealRow
  BY <1>2, <1>3 DEF TypeOK, TransactionRow
<1>5. posted' = posted \cup {<<"ESCROW_RELEASE", d>>}
  BY <1>1 DEF Posts
<1>6. Backed(row, d)'
  BY <1>3, <1>5 DEF Backed, Follows
<1>7. /\ deal' \in [Deals -> DealRow] /\ TermsKept /\ EscrowStatusIsBacked'
  BY <1>0, <1>1, <1>5, <1>6, SaveKeeps
<1>8. /\ balance \in Balance
      /\ balance.clearing = ledger[d].clearing + 0
      /\ balance.refunds = ledger[d].refunds + 0
      /\ balance.creator = ledger[d].creator + deal[d].creatorNet
      /\ balance.fees = ledger[d].fees + deal[d].platformFee
  BY <1>3, <1>4, ReleasedFields DEF Balance
<1> HIDE DEF balance
<1>9. /\ ledger' \in [Deals -> Balance] /\ posted \subseteq posted'
      /\ posted' \subseteq PostingKind \X Deals /\ BooksFollowPostings'
      /\ \A e \in Deals, k \in PostingKind :
            <<k, e>> \in posted' => <<k, e>> \in posted \/ deal[e].status # "NONE"
  BY <1>1, <1>3, <1>7, <1>8, PostKeeps DEF PostingKind
<1>10. TypeOK'
  BY <1>1, <1>2, <1>7, <1>9, EndsType DEF TypeOK, PostingKind
<1>11. UnusedIsUntouched' /\ MemoryIsSound'
  BY <1>1, <1>7, <1>9, EndsType, UnusedKept, MemoryKept
<1> QED BY <1>7, <1>9, <1>10, <1>11 DEF IInv

LEMMA CommitCloseKeeps ==
    ASSUME IInv, NEW t \in Transactions, CommitClose(t)
    PROVE  IInv'
<1>0. PICK row, d : row = tx[t].row /\ d = tx[t].deal
  OBVIOUS
<1> DEFINE balance == ReturnedToBuyer(ledger[d], tx[t].seen.amount)
<1>1. /\ tx[t].phase = "read"
      /\ tx[t].use \in {"decline", "expire", "refund", "resolveForBuyer"}
      /\ Saves(t) /\ Ends(t) /\ UNCHANGED <<delivered, noticed, flagged>>
  BY DEF CommitClose, IsReady
<1>2. TypeOK /\ InMemory(t) /\ tx[t] \in TransactionRow
  BY DEF IInv, MemoryIsSound, TypeOK
<1>3. /\ d \in Deals /\ deal[d].status # "NONE"
      /\ tx[t].seen.amount = deal[d].amount
      /\ Backed(tx[t].seen, d) /\ Follows(tx[t].use, tx[t].seen, row)
  BY <1>0, <1>1, <1>2 DEF InMemory, SameTerms
<1>4. ledger[d] \in Balance /\ deal[d].amount \in Int
  BY <1>2, <1>3 DEF TypeOK, DealRow
<1>5. \/ tx[t].seen.escrow = "HELD" /\ Posts("ESCROW_REFUND", d, balance)
      \/ tx[t].seen.escrow # "HELD" /\ UNCHANGED <<ledger, posted>>
  BY <1>0 DEF CommitClose
<1>6. Backed(row, d)' /\ posted \subseteq posted'
  <2>1. CASE tx[t].seen.escrow = "HELD" /\ Posts("ESCROW_REFUND", d, balance)
    <3>1. posted' = posted \cup {<<"ESCROW_REFUND", d>>}
      BY <2>1 DEF Posts
    <3> QED BY <1>1, <1>3, <3>1 DEF Backed, Follows
  <2>2. CASE tx[t].seen.escrow # "HELD" /\ UNCHANGED <<ledger, posted>>
    BY <1>1, <1>3, <2>2 DEF Backed, Follows
  <2> QED BY <1>5, <2>1, <2>2
<1>7. deal' \in [Deals -> DealRow] /\ TermsKept /\ EscrowStatusIsBacked'
  BY <1>0, <1>1, <1>6, SaveKeeps
<1>8. /\ balance \in Balance
      /\ balance.clearing = ledger[d].clearing + 0
      /\ balance.refunds = ledger[d].refunds + deal[d].amount
      /\ balance.creator = ledger[d].creator + 0
      /\ balance.fees = ledger[d].fees + 0
  <2> DEFINE money  == ledger[d]
             amount == deal[d].amount
  <2>1. money \in Balance /\ amount \in Int /\ balance = ReturnedToBuyer(money, amount)
    BY <1>3, <1>4
  <2> HIDE DEF money, amount, balance
  <2>2. /\ balance \in Balance
        /\ balance.clearing = money.clearing /\ balance.refunds = money.refunds + amount
        /\ balance.creator = money.creator /\ balance.fees = money.fees
    BY <2>1, ReturnedFields
  <2>3. /\ money.clearing + 0 = money.clearing /\ money.creator + 0 = money.creator
        /\ money.fees + 0 = money.fees
    BY <2>1 DEF Balance
  <2> QED BY <2>2, <2>3 DEF money, amount
<1> HIDE DEF balance
<1>9. /\ ledger' \in [Deals -> Balance] /\ posted' \subseteq PostingKind \X Deals
      /\ BooksFollowPostings'
      /\ \A e \in Deals, k \in PostingKind :
            <<k, e>> \in posted' => <<k, e>> \in posted \/ deal[e].status # "NONE"
  <2>1. CASE Posts("ESCROW_REFUND", d, balance)
    BY <1>3, <1>7, <1>8, <2>1, PostKeeps DEF PostingKind
  <2>2. CASE UNCHANGED <<ledger, posted>>
    BY <1>2, <1>7, <2>2, BooksKept DEF TypeOK, PostingKind
  <2> QED BY <1>5, <2>1, <2>2
<1>10. /\ intent' \in [Intents -> IntentRow]
       /\ \A j \in Intents : intent'[j].deal = intent[j].deal
  <2>1. \/ intent' = intent
        \/ intent' = [i \in Intents |-> IF i \in ActiveOf(d)
                                        THEN [intent[i] EXCEPT !.status = "EXPIRED"]
                                        ELSE intent[i]]
    BY <1>0, Zenon DEF CommitClose
  <2>2. intent \in [Intents -> IntentRow]
    BY <1>2 DEF TypeOK
  <2> QED BY <2>1, <2>2 DEF IntentRow, IntentStatus
<1>11. slotsTaken' \in 0 .. WindowSlots
  <2>1. slotsTaken' = slotsTaken \/ (slotsTaken > 0 /\ slotsTaken' = slotsTaken - 1)
    BY Zenon DEF CommitClose
  <2>2. slotsTaken \in 0 .. WindowSlots
    BY <1>2 DEF TypeOK
  <2> QED BY <2>1, <2>2, TransactionsAssumption
<1>12. dispute' \in [Deals -> DisputeRow]
  <2>1. dispute' = dispute \/ dispute' = [dispute EXCEPT ![d].open = FALSE]
    BY <1>0, Zenon DEF CommitClose
  <2>2. dispute \in [Deals -> DisputeRow]
    BY <1>2 DEF TypeOK
  <2> QED BY <2>1, <2>2 DEF DisputeRow
<1>13. TypeOK'
  BY <1>1, <1>2, <1>7, <1>9, <1>10, <1>11, <1>12, EndsType DEF TypeOK, PostingKind
<1>14. UnusedIsUntouched' /\ MemoryIsSound'
  BY <1>1, <1>6, <1>7, <1>9, <1>10, EndsType, UnusedKept, MemoryKept
<1> QED BY <1>7, <1>9, <1>13, <1>14 DEF IInv

(* The steps that change neither a deal nor the books. *)
LEMMA AsideKeeps ==
    ASSUME IInv, UNCHANGED <<deal, ledger, posted>>, TypeOK',
           \A j \in Intents : intent'[j].deal = intent[j].deal,
           \A u \in Transactions : tx'[u] = tx[u] \/ tx'[u] = Idle
    PROVE  IInv'
<1>1. TermsKept
  BY DEF TermsKept, SameTerms
<1>2. EscrowStatusIsBacked'
  BY DEF IInv, EscrowStatusIsBacked
<1> QED BY <1>1, <1>2, BooksKept, UnusedKept, MemoryKept DEF IInv

LEMMA CommitOpenDisputeKeeps ==
    ASSUME IInv, NEW t \in Transactions, CommitOpenDispute(t)
    PROVE  IInv'
<1>1. /\ tx[t].phase = "read" /\ tx[t].use = "openDispute" /\ Ends(t)
      /\ dispute' = [dispute EXCEPT ![tx[t].deal] = [id |-> tx[t].ref, open |-> TRUE]]
      /\ UNCHANGED <<deal, delivered, intent, noticed, flagged, ledger, posted, slotsTaken>>
  BY DEF CommitOpenDispute, IsReady
<1>2. TypeOK /\ InMemory(t)
  BY DEF IInv, MemoryIsSound
<1>3. tx[t].ref \in 0 .. MaxDisputes
  BY <1>1, <1>2 DEF InMemory, RefFits
<1>4. dispute' \in [Deals -> DisputeRow]
  BY <1>1, <1>2, <1>3 DEF TypeOK, DisputeRow
<1>5. TypeOK'
  BY <1>1, <1>2, <1>4, EndsType DEF TypeOK
<1> QED BY <1>1, <1>5, EndsType, AsideKeeps

LEMMA EndDisputeKeeps ==
    ASSUME IInv, NEW d \in Deals, EndDispute(d)
    PROVE  IInv'
<1>1. TypeOK
  BY DEF IInv
<1>2. TypeOK'
  BY <1>1 DEF EndDispute, TypeOK, DisputeRow
<1> QED BY <1>2, AsideKeeps DEF EndDispute

LEMMA FlagCaptureKeeps ==
    ASSUME IInv, NEW i \in Intents, FlagCapture(i)
    PROVE  IInv'
<1>1. TypeOK
  BY DEF IInv
<1>2. TypeOK'
  BY <1>1 DEF FlagCapture, TypeOK
<1> QED BY <1>2, AsideKeeps DEF FlagCapture

LEMMA RollBackKeeps ==
    ASSUME IInv, NEW t \in Transactions, RollBack(t)
    PROVE  IInv'
<1>1. TypeOK /\ Ends(t) /\ UNCHANGED tables
  BY DEF IInv, RollBack
<1>2. TypeOK'
  BY <1>1, EndsType DEF tables, TypeOK
<1> QED BY <1>1, <1>2, EndsType, AsideKeeps DEF tables

LEMMA CheckDisputeKeeps ==
    ASSUME IInv, NEW t \in Transactions, CheckDispute(t)
    PROVE  IInv'
<1>1. /\ tx' = [tx EXCEPT ![t].phase = "checked"] /\ UNCHANGED tables
      /\ tx[t].phase = "read" /\ tx[t].use \in {"approve", "autoApprove"}
  BY DEF CheckDispute
<1>2. TypeOK /\ tx \in [Transactions -> TransactionRow]
  BY DEF IInv, TypeOK
<1>3. /\ tx' \in [Transactions -> TransactionRow]
      /\ tx'[t].phase = "checked"
      /\ tx'[t].use = tx[t].use /\ tx'[t].deal = tx[t].deal /\ tx'[t].ref = tx[t].ref
      /\ tx'[t].seen = tx[t].seen /\ tx'[t].row = tx[t].row
      /\ \A u \in Transactions : u # t => tx'[u] = tx[u]
  BY <1>1, <1>2 DEF TransactionRow
<1>4. TypeOK'
  BY <1>1, <1>2, <1>3 DEF TypeOK, tables
<1>5. EscrowStatusIsBacked' /\ BooksFollowPostings' /\ UnusedIsUntouched'
  BY <1>1 DEF IInv, tables, EscrowStatusIsBacked, BooksFollowPostings, Books, UnusedIsUntouched
<1>6. ASSUME NEW u \in Transactions
      PROVE  InMemory(u)'
  <2>1. InMemory(u) /\ deal' = deal /\ posted' = posted
    BY <1>1 DEF IInv, MemoryIsSound, tables
  <2> QED BY <1>1, <1>3, <2>1 DEF InMemory, Backed
<1> QED BY <1>4, <1>5, <1>6 DEF IInv, MemoryIsSound

LEMMA CreateDealKeeps ==
    ASSUME IInv, NEW d \in Deals, NEW kind \in {"BOOKING", "CUSTOM_SERVICE"},
           NEW price \in Prices, NEW sla \in Slas, CreateDeal(d, kind, price, sla)
    PROVE  IInv'
<1> DEFINE opened == OpenedDeal(kind, price, sla)
<1>1. /\ deal[d].status = "NONE" /\ deal' = [deal EXCEPT ![d] = opened]
      /\ kind = "BOOKING" => HasSlot
      /\ slotsTaken' = IF kind = "BOOKING" THEN slotsTaken + 1 ELSE slotsTaken
      /\ UNCHANGED <<delivered, dispute, intent, noticed, flagged, ledger, posted, tx>>
  BY DEF CreateDeal
<1>2. opened \in DealRow
  BY OpenedDealType, PolicyAssumption DEF OfferKind
<1>3. opened.status = "PROPOSED" /\ opened.escrow = "PENDING"
  BY Zenon DEF OpenedDeal
<1> HIDE DEF opened
<1>4. TypeOK /\ EscrowStatusIsBacked
  BY DEF IInv
<1>5. slotsTaken' \in 0 .. WindowSlots
  BY <1>1, <1>4, TransactionsAssumption DEF TypeOK, HasSlot
<1>6. TypeOK'
  BY <1>1, <1>2, <1>4, <1>5 DEF TypeOK
<1>7. deal'[d] = opened /\ \A e \in Deals : e # d => deal'[e] = deal[e]
  BY <1>1, <1>4 DEF TypeOK
<1>8. TermsKept
  BY <1>1, <1>7 DEF TermsKept, SameTerms
<1>9. ASSUME NEW e \in Deals
      PROVE  Backed(deal[e], e)'
  <2>1. CASE e = d
    BY <1>3, <1>7, <2>1 DEF Backed
  <2>2. CASE e # d
    BY <1>1, <1>4, <1>7, <2>2 DEF Backed, EscrowStatusIsBacked
  <2> QED BY <2>1, <2>2
<1>10. EscrowStatusIsBacked'
  BY <1>9 DEF EscrowStatusIsBacked, Backed
<1> QED BY <1>1, <1>6, <1>8, <1>10, BooksKept, UnusedKept, MemoryKept DEF IInv

LEMMA TickKeeps ==
    ASSUME IInv, Tick
    PROVE  IInv'
<1>1. /\ deal' = [d \in Deals |-> TickedDeal(deal[d])]
      /\ tx' = [t \in Transactions |->
                   [tx[t] EXCEPT !.row = TickedDeal(tx[t].row), !.seen = TickedDeal(tx[t].seen)]]
      /\ UNCHANGED <<delivered, dispute, intent, noticed, flagged, ledger, posted, slotsTaken>>
  BY DEF Tick
<1>2. TypeOK /\ EscrowStatusIsBacked
  BY DEF IInv
<1>3. ASSUME NEW d \in Deals
      PROVE  /\ deal'[d] \in DealRow /\ SameTerms(deal[d], deal'[d])
             /\ deal'[d].status = deal[d].status /\ deal'[d].escrow = deal[d].escrow
  <2>1. deal[d] \in DealRow /\ deal'[d] = TickedDeal(deal[d])
    BY <1>1, <1>2 DEF TypeOK
  <2>2. /\ TickedDeal(deal[d]) \in DealRow /\ SameTerms(deal[d], TickedDeal(deal[d]))
        /\ TickedDeal(deal[d]).status = deal[d].status
        /\ TickedDeal(deal[d]).escrow = deal[d].escrow
    BY <2>1, MethodsKeepTerms, MethodsMove
  <2> QED BY <2>1, <2>2
<1>4. ASSUME NEW t \in Transactions
      PROVE  /\ tx'[t] \in TransactionRow
             /\ tx'[t].phase = tx[t].phase /\ tx'[t].use = tx[t].use
             /\ tx'[t].deal = tx[t].deal /\ tx'[t].ref = tx[t].ref
             /\ SameTerms(tx[t].seen, tx'[t].seen) /\ SameTerms(tx[t].row, tx'[t].row)
             /\ tx'[t].seen.escrow = tx[t].seen.escrow /\ tx'[t].row.escrow = tx[t].row.escrow
             /\ tx'[t].row.status = tx[t].row.status
  <2> DEFINE row  == TickedDeal(tx[t].row)
             seen == TickedDeal(tx[t].seen)
  <2>1. tx[t] \in TransactionRow /\ tx'[t] = [tx[t] EXCEPT !.row = row, !.seen = seen]
    BY <1>1, <1>2 DEF TypeOK
  <2>2. tx[t].row \in DealRow /\ tx[t].seen \in DealRow
    BY <2>1 DEF TransactionRow
  <2>3. /\ row \in DealRow /\ SameTerms(tx[t].row, row)
        /\ row.status = tx[t].row.status /\ row.escrow = tx[t].row.escrow
        /\ seen \in DealRow /\ SameTerms(tx[t].seen, seen) /\ seen.escrow = tx[t].seen.escrow
    BY <2>2, MethodsKeepTerms, MethodsMove
  <2> HIDE DEF row, seen
  <2>4. /\ tx'[t] \in TransactionRow /\ tx'[t].row = row /\ tx'[t].seen = seen
        /\ tx'[t].phase = tx[t].phase /\ tx'[t].use = tx[t].use
        /\ tx'[t].deal = tx[t].deal /\ tx'[t].ref = tx[t].ref
    BY <2>1, <2>3 DEF TransactionRow
  <2> QED BY <2>3, <2>4
<1>5. deal' \in [Deals -> DealRow] /\ tx' \in [Transactions -> TransactionRow]
  BY <1>1, <1>3, <1>4
<1>6. TypeOK'
  BY <1>1, <1>2, <1>5 DEF TypeOK
<1>7. TermsKept
  BY <1>3 DEF TermsKept
<1>8. EscrowStatusIsBacked'
  BY <1>1, <1>2, <1>3 DEF EscrowStatusIsBacked
<1>9. ASSUME NEW t \in Transactions
      PROVE  InMemory(t)'
  <2>1. InMemory(t)
    BY DEF IInv, MemoryIsSound
  <2>2. tx[t].phase \in {"read", "checked"} =>
            /\ deal'[tx[t].deal].status # "NONE"
            /\ SameTerms(deal'[tx[t].deal], tx'[t].seen) /\ SameTerms(deal'[tx[t].deal], tx'[t].row)
    BY <1>3, <1>4, <2>1 DEF InMemory, SameTerms
  <2>3. Follows(tx[t].use, tx[t].seen, tx[t].row) => Follows(tx'[t].use, tx'[t].seen, tx'[t].row)
    BY <1>4 DEF Follows
  <2>4. Backed(tx[t].seen, tx[t].deal) => Backed(tx[t].seen, tx[t].deal)'
    <3>1. tx'[t].deal = tx[t].deal /\ tx'[t].seen.escrow = tx[t].seen.escrow /\ posted' = posted
      BY <1>1, <1>4
    <3> QED BY <3>1 DEF Backed
  <2> QED BY <1>3, <1>4, <2>1, <2>2, <2>3, <2>4 DEF InMemory
<1> QED BY <1>1, <1>6, <1>7, <1>8, <1>9, BooksKept, UnusedKept DEF IInv, MemoryIsSound

-----------------------------------------------------------------------------
LEMMA InitIsSound ==
    ASSUME Init
    PROVE  IInv
<1>1. TypeOK
  BY IdleType, TransactionsAssumption
  DEF Init, TypeOK, NoIntent, IntentRow, IntentStatus, DisputeRow, NoMoney, Balance
<1>2. EscrowStatusIsBacked
  <2>1. \A d \in Deals : deal[d].escrow = "PENDING"
    BY DEF Init, NoDeal
  <2> QED BY <2>1 DEF EscrowStatusIsBacked
<1>3. UnusedIsUntouched
  <2>1. \A i \in Intents : intent[i].deal = "none"
    BY DEF Init, NoIntent
  <2> QED BY <2>1, TransactionsAssumption DEF Init, UnusedIsUntouched
<1>4. BooksFollowPostings
  BY DEF Init, BooksFollowPostings, Books, NoMoney
<1>5. MemoryIsSound
  BY DEF Init, MemoryIsSound, InMemory, Idle, RefFits
<1> QED BY <1>1, <1>2, <1>3, <1>4, <1>5 DEF IInv

LEMMA NextKeeps ==
    ASSUME IInv, [Next]_vars
    PROVE  IInv'
<1>1. CASE UNCHANGED vars
  <2>1. TypeOK' /\ UNCHANGED <<deal, ledger, posted, intent, tx>>
    BY <1>1 DEF vars, IInv, TypeOK
  <2> QED BY <2>1, AsideKeeps
<1>2. ASSUME NEW t \in Transactions, NEW i \in Intents, FindCaptured(t, i)
      PROVE  IInv'
  <2> DEFINE d == intent[i].deal
  <2>1. Finds(t, "capture", d, i)
    BY <1>2 DEF FindCaptured
  <2>2. d \in Deals \cup {"none"} /\ (d \in Deals => deal[d].status # "NONE")
    BY DEF IInv, TypeOK, IntentRow, UnusedIsUntouched
  <2>3. "capture" \in UseCase /\ RefFits("capture", i)
    BY DEF UseCase, RefFits
  <2> QED BY <2>1, <2>2, <2>3, FindKeeps
<1>3. ASSUME NEW t \in Transactions, Commit(t)
      PROVE  IInv'
  BY <1>3, PlainCommitKeeps, CommitPayKeeps, CommitCaptureKeeps, CommitCloseKeeps,
     CommitReleaseKeeps, CommitOpenDisputeKeeps DEF Commit
<1> QED
  BY <1>1, <1>2, <1>3, ReadingKeeps, CheckDisputeKeeps, RollBackKeeps, CreateDealKeeps,
     EndDisputeKeeps, FlagCaptureKeeps, TickKeeps DEF Next

LEMMA InductiveInvariant == Spec => []IInv
<1> QED BY InitIsSound, NextKeeps, PTL DEF Spec

(* The rows, postings and open transactions of any number of overlapping use *)
(* cases have the declared types: work is not sent back more often, nor a    *)
(* slot taken more often, than was agreed (Deal.rejectDelivery, takeSlot).   *)
THEOREM TransactionTypesCorrect == Spec => []TypeOK
<1>1. IInv => TypeOK
  BY DEF IInv
<1> QED BY <1>1, InductiveInvariant, PTL

(* A deal never shows a movement of its escrow that was not posted, although *)
(* saves overwrite what other transactions committed (deals.save).           *)
THEOREM EscrowStatusIsAlwaysBacked == Spec => []EscrowStatusIsBacked
<1>1. IInv => EscrowStatusIsBacked
  BY DEF IInv
<1> QED BY <1>1, InductiveInvariant, PTL

(* RN-104: nobody is paid twice for a deal, however many transactions try    *)
(* (ledger_transactions, unique by kind and reference).                      *)
THEOREM NothingIsEverPaidTwice == Spec => []NothingIsPaidTwice
<1>1. IInv => NothingIsPaidTwice
  BY DEF IInv, BooksFollowPostings, Books, NothingIsPaidTwice
<1> QED BY <1>1, InductiveInvariant, PTL

-----------------------------------------------------------------------------
(* Payments.  What the deal was funded with is one captured intent, which a  *)
(* transaction that captures has looked up at its own deal.                 *)

CapturedOf(d) == {i \in Intents : intent[i].deal = d /\ intent[i].status = "CAPTURED"}

IsFunded(d) == <<"ESCROW_FUNDING", d>> \in posted

LooksUp(t) ==
    tx[t].use = "capture" =>
        /\ tx[t].ref \in Intents
        /\ intent[tx[t].ref].status # "NONE"
        /\ intent[tx[t].ref].deal = tx[t].deal

CapturesAreNoticed ==
    /\ flagged \subseteq noticed
    /\ \A i \in Intents : intent[i].status \in {"NONE", "PENDING"} => i \notin noticed
    /\ \A i \in Intents : intent[i].status = "CAPTURED" => i \in noticed
    /\ \A i \in noticed : (i \in flagged) # (intent[i].status = "CAPTURED")

OneCapture ==
    \A d \in Deals : IF IsFunded(d) THEN \E i \in Intents : CapturedOf(d) = {i}
                                    ELSE CapturedOf(d) = {}

OnePending ==
    \A i, j \in Intents :
        /\ intent[i].status = "PENDING" /\ intent[j].status = "PENDING"
        /\ intent[i].deal = intent[j].deal
        => i = j

PaymentsSound ==
    /\ CapturesAreNoticed
    /\ OneCapture
    /\ OnePending
    /\ \A t \in Transactions : LooksUp(t)

(* The steps that touch no payment. *)
LEMMA PaymentsUntouched ==
    ASSUME PaymentsSound, UNCHANGED <<intent, noticed, flagged>>,
           \A d \in Deals : IsFunded(d)' = IsFunded(d),
           \A t \in Transactions : LooksUp(t)'
    PROVE  PaymentsSound'
<1>1. CapturesAreNoticed' /\ OnePending'
  BY DEF PaymentsSound, CapturesAreNoticed, OnePending
<1>2. \A d \in Deals : CapturedOf(d)' = CapturedOf(d)
  BY DEF CapturedOf
<1>3. OneCapture'
  BY <1>2 DEF PaymentsSound, OneCapture
<1> QED BY <1>1, <1>3 DEF PaymentsSound

LEMMA ReadsLookUp ==
    ASSUME IInv, PaymentsSound, NEW t \in Transactions, NEW use, NEW d, NEW ref, NEW row,
           Reads(t, use, d, ref, row),
           use # "capture" \/ (tx[t].use = "capture" /\ tx[t].deal = d /\ tx[t].ref = ref)
    PROVE  PaymentsSound'
<1> DEFINE entry == [phase |-> "read", use |-> use, deal |-> d, ref |-> ref,
                     seen |-> deal[d], row |-> row]
<1>1. tx' = [tx EXCEPT ![t] = entry] /\ UNCHANGED tables
  BY DEF Reads
<1>2. entry.use = use /\ entry.deal = d /\ entry.ref = ref
  OBVIOUS
<1> HIDE DEF entry
<1>3. tx \in [Transactions -> TransactionRow] /\ \A u \in Transactions : LooksUp(u)
  BY DEF IInv, TypeOK, PaymentsSound
<1>4. tx'[t] = entry /\ \A u \in Transactions : u # t => tx'[u] = tx[u]
  BY <1>1, <1>3
<1>5. \A u \in Transactions : LooksUp(u)'
  BY <1>1, <1>2, <1>3, <1>4 DEF LooksUp, tables
<1> QED BY <1>1, <1>5, PaymentsUntouched DEF tables, IsFunded

LEMMA FindsLookUp ==
    ASSUME IInv, PaymentsSound, NEW t \in Transactions, NEW use, NEW d, NEW ref,
           Finds(t, use, d, ref),
           use = "capture" =>
               ref \in Intents /\ intent[ref].status # "NONE" /\ intent[ref].deal = d
    PROVE  PaymentsSound'
<1> DEFINE entry == [Idle EXCEPT !.phase = "found", !.use = use, !.deal = d, !.ref = ref]
<1>1. tx' = [tx EXCEPT ![t] = entry] /\ UNCHANGED tables
  BY DEF Finds
<1>2. entry.use = use /\ entry.deal = d /\ entry.ref = ref
  BY DEF Idle
<1> HIDE DEF entry
<1>3. tx \in [Transactions -> TransactionRow] /\ \A u \in Transactions : LooksUp(u)
  BY DEF IInv, TypeOK, PaymentsSound
<1>4. tx'[t] = entry /\ \A u \in Transactions : u # t => tx'[u] = tx[u]
  BY <1>1, <1>3
<1>5. \A u \in Transactions : LooksUp(u)'
  BY <1>1, <1>2, <1>3, <1>4 DEF LooksUp, tables
<1> QED BY <1>1, <1>5, PaymentsUntouched DEF tables, IsFunded

LEMMA ReadingLooksUp ==
    ASSUME IInv, PaymentsSound, NEW t \in Transactions, NEW d \in Deals, Read(t, d)
    PROVE  PaymentsSound'
<1>1. CASE ListOverdue(t, d)
  BY <1>1, FindsLookUp DEF ListOverdue
<1>2. CASE FindDispute(t, d)
  BY <1>2, FindsLookUp DEF FindDispute
<1>3. CASE ReadToCapture(t, d)
  <2>1. /\ Reads(t, "capture", d, tx[t].ref, HeldDeal(deal[d]))
        /\ tx[t].use = "capture" /\ tx[t].deal = d
    BY <1>3 DEF ReadToCapture
  <2> QED BY <2>1, ReadsLookUp
<1>4. ASSUME NEW use, NEW ref, NEW row, Reads(t, use, d, ref, row), use # "capture"
      PROVE  PaymentsSound'
  BY <1>4, ReadsLookUp
<1>5. CASE ReadToAutoApprove(t, d) \/ ReadToApprove(t, d)
  BY <1>4, <1>5 DEF ReadToApprove, ReadToAutoApprove, ReadsToApprove
<1>6. CASE \/ \E i \in Intents : ReadToPay(t, d, i)
           \/ ReadToAccept(t, d) \/ ReadToDecline(t, d) \/ ReadToExpire(t, d)
           \/ ReadToDeliver(t, d) \/ ReadToReject(t, d)
  BY <1>4, <1>6 DEF ReadToPay, ReadToAccept, ReadToDecline, ReadToExpire, ReadToDeliver,
                    ReadToReject
<1>7. CASE \/ ReadToRefund(t, d) \/ ReadToOpenDispute(t, d) \/ ReadToResolveForBuyer(t, d)
           \/ ReadToSendMessage(t, d)
  BY <1>4, <1>7 DEF ReadToRefund, ReadToOpenDispute, ReadToResolveForBuyer, ReadToSendMessage
<1> QED BY <1>1, <1>2, <1>3, <1>5, <1>6, <1>7 DEF Read

(* A transaction that ends looks up nothing any more. *)
LEMMA EndedLookUp ==
    ASSUME \A t \in Transactions : LooksUp(t),
           \A u \in Transactions : tx'[u] = tx[u] \/ tx'[u] = Idle,
           \A i \in Intents : intent[i].status # "NONE" =>
               intent'[i].status # "NONE" /\ intent'[i].deal = intent[i].deal
    PROVE  \A t \in Transactions : LooksUp(t)'
BY DEF LooksUp, Idle

LEMMA CommitPaySound ==
    ASSUME IInv, PaymentsSound, NEW t \in Transactions, CommitPay(t)
    PROVE  PaymentsSound'
<1>0. PICK d, i : d = tx[t].deal /\ i = tx[t].ref
  OBVIOUS
<1>1. /\ tx[t].phase = "read" /\ tx[t].use = "pay" /\ Ends(t)
      /\ ActiveOf(d) = {} /\ intent[i].status = "NONE"
      /\ intent' = [intent EXCEPT ![i] = [deal |-> d, status |-> "PENDING"]]
      /\ UNCHANGED <<noticed, flagged, posted>>
  BY <1>0 DEF CommitPay, IsReady, NoneActive
<1>2. i \in Intents /\ intent \in [Intents -> IntentRow]
  BY <1>0, <1>1 DEF IInv, MemoryIsSound, InMemory, RefFits, TypeOK
<1>3. /\ intent'[i].deal = d /\ intent'[i].status = "PENDING"
      /\ \A j \in Intents : j # i => intent'[j] = intent[j]
  BY <1>1, <1>2
<1>4. CapturesAreNoticed'
  BY <1>1, <1>2, <1>3 DEF PaymentsSound, CapturesAreNoticed
<1>5. \A e \in Deals : CapturedOf(e)' = CapturedOf(e)
  BY <1>1, <1>3 DEF CapturedOf
<1>6. OneCapture'
  BY <1>1, <1>5 DEF PaymentsSound, OneCapture, IsFunded
<1>7. OnePending'
  BY <1>1, <1>3 DEF PaymentsSound, OnePending, ActiveOf
<1>8. \A u \in Transactions : LooksUp(u)'
  BY <1>1, <1>3, EndsType, EndedLookUp DEF PaymentsSound
<1> QED BY <1>4, <1>6, <1>7, <1>8 DEF PaymentsSound

LEMMA CommitCaptureSound ==
    ASSUME IInv, PaymentsSound, NEW t \in Transactions, CommitCapture(t)
    PROVE  PaymentsSound'
<1>0. PICK d, i : d = tx[t].deal /\ i = tx[t].ref
  OBVIOUS
<1>1. /\ tx[t].phase = "read" /\ tx[t].use = "capture" /\ Ends(t)
      /\ i \notin noticed /\ noticed' = noticed \cup {i}
      /\ intent' = [intent EXCEPT ![i].status = "CAPTURED"]
      /\ <<"ESCROW_FUNDING", d>> \notin posted
      /\ posted' = posted \cup {<<"ESCROW_FUNDING", d>>}
      /\ UNCHANGED flagged
  BY <1>0 DEF CommitCapture, IsReady, IsNew, Posts, NotPosted
<1>2. /\ i \in Intents /\ intent[i].status # "NONE" /\ intent[i].deal = d
      /\ d \in Deals /\ intent \in [Intents -> IntentRow]
  BY <1>0, <1>1 DEF IInv, TypeOK, PaymentsSound, LooksUp, MemoryIsSound, InMemory
<1>3. /\ intent'[i].deal = d /\ intent'[i].status = "CAPTURED"
      /\ \A j \in Intents : j # i => intent'[j] = intent[j]
  BY <1>1, <1>2 DEF IntentRow
<1>4. CapturesAreNoticed'
  BY <1>1, <1>2, <1>3 DEF PaymentsSound, CapturesAreNoticed
<1>5. ASSUME NEW e \in Deals
      PROVE  IF IsFunded(e)' THEN \E j \in Intents : CapturedOf(e)' = {j}
                             ELSE CapturedOf(e)' = {}
  <2>1. CASE e = d
    <3>1. CapturedOf(e) = {}
      BY <1>1, <2>1 DEF PaymentsSound, OneCapture, IsFunded
    <3>2. CapturedOf(e)' = {i}
      BY <1>2, <1>3, <2>1, <3>1 DEF CapturedOf
    <3>3. IsFunded(e)'
      BY <1>1, <2>1 DEF IsFunded
    <3> QED BY <1>2, <3>2, <3>3
  <2>2. CASE e # d
    <3>1. CapturedOf(e)' = CapturedOf(e)
      BY <1>2, <1>3, <2>2 DEF CapturedOf
    <3>2. IsFunded(e)' = IsFunded(e)
      BY <1>1, <2>2 DEF IsFunded
    <3> QED BY <3>1, <3>2 DEF PaymentsSound, OneCapture
  <2> QED BY <2>1, <2>2
<1>6. OneCapture'
  BY <1>5 DEF OneCapture
<1>7. OnePending'
  BY <1>2, <1>3 DEF PaymentsSound, OnePending
<1>8. \A u \in Transactions : LooksUp(u)'
  BY <1>1, <1>2, <1>3, EndsType, EndedLookUp DEF PaymentsSound
<1> QED BY <1>4, <1>6, <1>7, <1>8 DEF PaymentsSound

LEMMA CommitCloseSound ==
    ASSUME IInv, PaymentsSound, NEW t \in Transactions, CommitClose(t)
    PROVE  PaymentsSound'
<1>0. PICK d : d = tx[t].deal
  OBVIOUS
<1>1. /\ Ends(t) /\ UNCHANGED <<noticed, flagged>>
      /\ \/ UNCHANGED posted
         \/ posted' = posted \cup {<<"ESCROW_REFUND", d>>}
      /\ \/ intent' = intent
         \/ intent' = [i \in Intents |-> IF i \in ActiveOf(d)
                                         THEN [intent[i] EXCEPT !.status = "EXPIRED"]
                                         ELSE intent[i]]
  BY <1>0, Zenon DEF CommitClose, Posts
<1>2. intent \in [Intents -> IntentRow]
  BY DEF IInv, TypeOK
<1>3. \A i \in Intents :
         \/ intent'[i] = intent[i]
         \/ /\ intent'[i].deal = intent[i].deal
            /\ intent[i].status = "PENDING" /\ intent'[i].status = "EXPIRED"
  BY <1>1, <1>2 DEF ActiveOf, IntentRow
<1>4. CapturesAreNoticed'
  BY <1>1, <1>3 DEF PaymentsSound, CapturesAreNoticed, IInv, TypeOK
<1>5. \A e \in Deals : CapturedOf(e)' = CapturedOf(e) /\ IsFunded(e)' = IsFunded(e)
  <2>1. \A e \in Deals : IsFunded(e)' = IsFunded(e)
    BY <1>1 DEF IsFunded
  <2>2. \A e \in Deals : CapturedOf(e)' = CapturedOf(e)
    BY <1>3 DEF CapturedOf
  <2> QED BY <2>1, <2>2
<1>6. OneCapture'
  BY <1>5 DEF PaymentsSound, OneCapture
<1>7. OnePending'
  BY <1>3 DEF PaymentsSound, OnePending
<1>8. \A u \in Transactions : LooksUp(u)'
  BY <1>1, <1>3, EndsType, EndedLookUp DEF PaymentsSound
<1> QED BY <1>4, <1>6, <1>7, <1>8 DEF PaymentsSound

LEMMA FlagCaptureSound ==
    ASSUME IInv, PaymentsSound, NEW i \in Intents, FlagCapture(i)
    PROVE  PaymentsSound'
<1>1. /\ intent[i].status \notin {"NONE", "PENDING"} /\ i \notin noticed
      /\ noticed' = noticed \cup {i} /\ flagged' = flagged \cup {i}
      /\ UNCHANGED <<intent, posted, tx>>
  BY DEF FlagCapture, IsNew
<1>2. CapturesAreNoticed'
  BY <1>1 DEF PaymentsSound, CapturesAreNoticed
<1>3. OnePending' /\ \A t \in Transactions : LooksUp(t)'
  BY <1>1 DEF PaymentsSound, OnePending, LooksUp
<1>4. \A d \in Deals : CapturedOf(d)' = CapturedOf(d) /\ IsFunded(d)' = IsFunded(d)
  BY <1>1 DEF CapturedOf, IsFunded
<1>5. OneCapture'
  BY <1>4 DEF PaymentsSound, OneCapture
<1> QED BY <1>2, <1>3, <1>5 DEF PaymentsSound

LEMMA OtherStepsSound ==
    ASSUME IInv, PaymentsSound,
           \/ \E t \in Transactions :
                  CommitStatus(t) \/ CommitDelivery(t) \/ CommitRelease(t) \/ CommitOpenDispute(t)
                  \/ RollBack(t) \/ CheckDispute(t)
           \/ \E d \in Deals : EndDispute(d)
           \/ \E d \in Deals, kind \in {"BOOKING", "CUSTOM_SERVICE"}, price \in Prices, sla \in Slas :
                  CreateDeal(d, kind, price, sla)
           \/ Tick \/ UNCHANGED vars
    PROVE  PaymentsSound'
<1>1. UNCHANGED <<intent, noticed, flagged>> /\ (\A d \in Deals : IsFunded(d)' = IsFunded(d))
  <2>1. UNCHANGED <<intent, noticed, flagged>>
    BY DEF CommitStatus, CommitDelivery, CommitRelease, CommitOpenDispute, RollBack, CheckDispute,
           EndDispute, CreateDeal, Tick, vars, tables
  <2>2. UNCHANGED posted \/ \E d : posted' = posted \cup {<<"ESCROW_RELEASE", d>>}
    BY DEF CommitStatus, CommitDelivery, CommitRelease, CommitOpenDispute, RollBack, CheckDispute,
           EndDispute, CreateDeal, Tick, vars, tables, Posts
  <2> QED BY <2>1, <2>2 DEF IsFunded
<1>2. tx \in [Transactions -> TransactionRow] /\ \A u \in Transactions : LooksUp(u)
  BY DEF IInv, TypeOK, PaymentsSound
<1>3. ASSUME NEW u \in Transactions
      PROVE  \/ tx'[u] = Idle
             \/ tx'[u].use = tx[u].use /\ tx'[u].ref = tx[u].ref /\ tx'[u].deal = tx[u].deal
  <2>1. \/ UNCHANGED tx
        \/ \E t \in Transactions : Ends(t) \/ tx' = [tx EXCEPT ![t].phase = "checked"]
        \/ tx' = [t \in Transactions |->
                     [tx[t] EXCEPT !.row = TickedDeal(tx[t].row), !.seen = TickedDeal(tx[t].seen)]]
    BY DEF CommitStatus, CommitDelivery, CommitRelease, CommitOpenDispute, RollBack, CheckDispute,
           EndDispute, CreateDeal, Tick, vars
  <2>2. ASSUME NEW t \in Transactions, Ends(t)
        PROVE  tx'[u] = Idle \/ tx'[u] = tx[u]
    BY <2>2, EndsType
  <2>3. ASSUME NEW t \in Transactions, tx' = [tx EXCEPT ![t].phase = "checked"]
        PROVE  tx'[u].use = tx[u].use /\ tx'[u].ref = tx[u].ref /\ tx'[u].deal = tx[u].deal
    BY <1>2, <2>3 DEF TransactionRow
  <2>4. ASSUME tx' = [t \in Transactions |->
                     [tx[t] EXCEPT !.row = TickedDeal(tx[t].row), !.seen = TickedDeal(tx[t].seen)]]
        PROVE  tx'[u].use = tx[u].use /\ tx'[u].ref = tx[u].ref /\ tx'[u].deal = tx[u].deal
    BY <1>2, <2>4 DEF TransactionRow
  <2> QED BY <2>1, <2>2, <2>3, <2>4
<1>4. \A u \in Transactions : LooksUp(u)'
  BY <1>1, <1>2, <1>3 DEF LooksUp, Idle
<1> QED BY <1>1, <1>4, PaymentsUntouched

LEMMA PaymentsInvariant == Spec => []PaymentsSound
<1>1. Init => PaymentsSound
  BY DEF Init, PaymentsSound, CapturesAreNoticed, OneCapture, OnePending, LooksUp, CapturedOf,
         IsFunded, NoIntent, Idle
<1>2. ASSUME IInv, PaymentsSound, [Next]_vars PROVE PaymentsSound'
  <2>1. ASSUME NEW t \in Transactions, NEW i \in Intents, FindCaptured(t, i)
        PROVE  PaymentsSound'
    <3>1. /\ Finds(t, "capture", intent[i].deal, i)
          /\ intent[i].status = "PENDING"
      BY <2>1 DEF FindCaptured
    <3> QED BY <1>2, <3>1, FindsLookUp
  <2>2. ASSUME NEW t \in Transactions, Commit(t)
        PROVE  PaymentsSound'
    BY <1>2, <2>2, CommitPaySound, CommitCaptureSound, CommitCloseSound, OtherStepsSound DEF Commit
  <2>3. ASSUME NEW t \in Transactions, NEW d \in Deals, Read(t, d)
        PROVE  PaymentsSound'
    BY <1>2, <2>3, ReadingLooksUp
  <2> QED BY <1>2, <2>1, <2>2, <2>3, FlagCaptureSound, OtherStepsSound DEF Next
<1>3. IInv /\ PaymentsSound /\ [Next]_vars => PaymentsSound'
  BY <1>2
<1> QED BY <1>1, <1>3, InductiveInvariant, PTL DEF Spec

(* RN-091, RN-092: however the transactions that pay, capture, decline and   *)
(* expire overlap, a deal has one active intent at most, and every capture   *)
(* is in the books of its deal once or flagged (payment_events and           *)
(* payment_intents_one_active_per_deal, unique indexes).                     *)
THEOREM PaymentsAreAlwaysSingle == Spec => []PaymentsAreSingle
<1>1. ASSUME PaymentsSound PROVE OneActiveIntent
  <2> SUFFICES ASSUME NEW d \in Deals PROVE Cardinality(ActiveOf(d)) <= 1
    BY DEF OneActiveIntent
  <2>1. CASE ActiveOf(d) = {}
    BY <2>1, FS_EmptySet
  <2>2. CASE ActiveOf(d) # {}
    <3>1. PICK i \in ActiveOf(d) : TRUE
      BY <2>2
    <3>2. ActiveOf(d) = {i}
      BY <1>1, <3>1 DEF PaymentsSound, OnePending, ActiveOf
    <3>3. Cardinality({i}) = 1
      BY FS_Singleton
    <3> QED BY <3>2, <3>3
  <2> QED BY <2>1, <2>2
<1>2. ASSUME IInv, PaymentsSound PROVE CapturesAreBookedOnce
  <2>1. \A i \in noticed : (i \in flagged) # (intent[i].status = "CAPTURED")
    BY <1>2 DEF PaymentsSound, CapturesAreNoticed
  <2>2. ASSUME NEW d \in Deals
        PROVE  ledger[d].clearing = deal[d].amount * Cardinality(CapturedOf(d))
    <3>1. deal[d].amount \in Nat
      BY <1>2 DEF IInv, TypeOK, DealRow
    <3>2. ledger[d].clearing = IF IsFunded(d) THEN deal[d].amount ELSE 0
      BY <1>2 DEF IInv, BooksFollowPostings, Books, IsFunded
    <3>3. CASE IsFunded(d)
      <4>1. PICK i \in Intents : CapturedOf(d) = {i}
        BY <1>2, <3>3 DEF PaymentsSound, OneCapture
      <4>2. Cardinality({i}) = 1
        BY FS_Singleton
      <4> QED BY <3>1, <3>2, <3>3, <4>1, <4>2
    <3>4. CASE ~ IsFunded(d)
      <4>1. Cardinality(CapturedOf(d)) = 0
        BY <1>2, <3>4, FS_EmptySet DEF PaymentsSound, OneCapture
      <4> QED BY <3>1, <3>2, <3>4, <4>1
    <3> QED BY <3>3, <3>4
  <2> QED BY <2>1, <2>2 DEF CapturesAreBookedOnce, CapturedOf
<1>3. IInv /\ PaymentsSound => PaymentsAreSingle
  BY <1>1, <1>2 DEF PaymentsAreSingle
<1> QED BY <1>3, InductiveInvariant, PaymentsInvariant, PTL

-----------------------------------------------------------------------------
(* Deals that were never overwritten (DealOverwrites).  What a transaction   *)
(* has in memory is what a method of Deal made of the row it read; when that *)
(* row is still there at the commit, the use case is one step of its deal.   *)

ClosesEscrow(seen, row) ==
    /\ seen.escrow = "PENDING" => row.escrow = "FAILED"
    /\ seen.escrow = "HELD"    => row.escrow = "REFUNDED"
    /\ seen.escrow \notin {"PENDING", "HELD"} => row.escrow = seen.escrow

Leaves(seen, row, from, to) == seen.status \in from /\ row.status = to

Prepared(use, seen, row) ==
    /\ row.revisionCount = seen.revisionCount + (IF use = "reject" THEN 1 ELSE 0)
    /\ \/ /\ use \in {"pay", "openDispute", "message"}
          /\ row.status = seen.status /\ row.escrow = seen.escrow
       \/ /\ use = "capture" /\ row.status = seen.status
          /\ seen.escrow = "PENDING" /\ row.escrow = "HELD"
       \/ /\ use = "accept" /\ Leaves(seen, row, {"PROPOSED"}, "ACCEPTED")
          /\ seen.escrow = "HELD" /\ row.escrow = "HELD"
       \/ /\ use = "deliver" /\ Leaves(seen, row, {"ACCEPTED", "IN_PROGRESS"}, "DELIVERED")
          /\ row.escrow = seen.escrow
       \/ /\ use = "reject" /\ Leaves(seen, row, {"DELIVERED"}, "IN_PROGRESS")
          /\ row.escrow = seen.escrow
       \/ /\ use \in {"approve", "autoApprove"} /\ Leaves(seen, row, {"DELIVERED"}, "PAID")
          /\ seen.escrow = "HELD" /\ row.escrow = "RELEASED"
       \/ /\ use = "decline" /\ Leaves(seen, row, {"PROPOSED", "COUNTER_OFFERED"}, "DECLINED")
          /\ ClosesEscrow(seen, row)
       \/ /\ use = "expire" /\ Leaves(seen, row, {"PROPOSED", "COUNTER_OFFERED"}, "EXPIRED")
          /\ ClosesEscrow(seen, row)
       \/ /\ use \in {"refund", "resolveForBuyer"}
          /\ Leaves(seen, row, {"ACCEPTED", "IN_PROGRESS", "DELIVERED"}, "REFUNDED")
          /\ ClosesEscrow(seen, row)

HasRead(t) == tx[t].phase \in {"read", "checked"}

MemoryIsPrepared ==
    \A t \in Transactions : HasRead(t) => Prepared(tx[t].use, tx[t].seen, tx[t].row)

TermsArePriced ==
    \A d \in Deals : deal[d].status # "NONE" =>
        AddsUp(deal[d]) /\ deal[d].amount \in DealAmounts

(* What was posted for a deal, from its row. *)
PostingsFit(d) ==
    /\ <<"ESCROW_FUNDING", d>> \in posted <=> deal[d].escrow \in {"HELD", "RELEASED", "REFUNDED"}
    /\ <<"ESCROW_RELEASE", d>> \in posted <=> deal[d].escrow = "RELEASED"
    /\ <<"ESCROW_REFUND", d>> \in posted <=> deal[d].escrow = "REFUNDED"

BoxFits(d) == ledger[d].escrow = IF deal[d].escrow = "HELD" THEN deal[d].amount ELSE 0

Fits(d) == SidesAgree(deal[d]) /\ PostingsFit(d) /\ BoxFits(d) /\ DeliveriesAreCounted(d)

SlotsFit == slotsTaken = Cardinality(StandingBookings)

UnusedIsUndelivered == \A d \in Deals : deal[d].status = "NONE" => delivered[d] = 0

OInv ==
    /\ MemoryIsPrepared
    /\ TermsArePriced
    /\ UnusedIsUndelivered
    /\ \A d \in Deals \ overwritten : Fits(d)
    /\ overwritten = {} => SlotsFit

-----------------------------------------------------------------------------
(* What is in memory was prepared from what was read.                        *)
LEMMA MethodsKeepRevisions ==
    ASSUME NEW d \in DealRow
    PROVE  /\ HeldDeal(d).revisionCount = d.revisionCount
           /\ AcceptedDeal(d).revisionCount = d.revisionCount
           /\ DeclinedDeal(d).revisionCount = d.revisionCount
           /\ DeliveredDeal(d).revisionCount = d.revisionCount
           /\ ApprovedDeal(d).revisionCount = d.revisionCount
           /\ SettledDeal(d).revisionCount = d.revisionCount
           /\ ExpiredDeal(d).revisionCount = d.revisionCount
           /\ RefundedDeal(d).revisionCount = d.revisionCount
           /\ TickedDeal(d).revisionCount = d.revisionCount
           /\ EscrowReturnedDeal(d).revisionCount = d.revisionCount
           /\ PaymentFailedDeal(d).revisionCount = d.revisionCount
           /\ RejectedDeal(d).revisionCount = d.revisionCount + 1
BY DEF DealRow, HeldDeal, AcceptedDeal, DeclinedDeal, DeliveredDeal, RejectedDeal, ApprovedDeal,
       SettledDeal, ExpiredDeal, RefundedDeal, TickedDeal, EscrowReturnedDeal, PaymentFailedDeal

LEMMA ClosedIsPrepared ==
    ASSUME NEW seen \in DealRow, NEW closed \in DealRow, closed.escrow = seen.escrow,
           closed.revisionCount = seen.revisionCount
    PROVE  /\ ClosesEscrow(seen, ClosedRow(closed))
           /\ ClosedRow(closed).status = closed.status
           /\ ClosedRow(closed).revisionCount = seen.revisionCount
<1>1. \/ closed.escrow = "PENDING" /\ ClosedRow(closed) = PaymentFailedDeal(closed)
      \/ closed.escrow = "HELD" /\ ClosedRow(closed) = EscrowReturnedDeal(closed)
      \/ closed.escrow \notin {"PENDING", "HELD"} /\ ClosedRow(closed) = closed
  BY Zenon DEF ClosedRow
<1>2. ClosedRow(closed).revisionCount = seen.revisionCount
  BY <1>1, MethodsKeepRevisions
<1> QED BY <1>2, ClosedRowFields DEF ClosesEscrow

LEMMA ReadPrepares ==
    ASSUME IInv, MemoryIsPrepared, NEW t \in Transactions, NEW use, NEW d \in Deals, NEW ref,
           NEW row, Reads(t, use, d, ref, row), Prepared(use, deal[d], row)
    PROVE  MemoryIsPrepared'
<1>1. tx' = [tx EXCEPT ![t] = [phase |-> "read", use |-> use, deal |-> d, ref |-> ref,
                               seen |-> deal[d], row |-> row]]
  BY DEF Reads
<1>2. tx \in [Transactions -> TransactionRow]
  BY DEF IInv, TypeOK
<1>3. ASSUME NEW u \in Transactions, HasRead(u)'
      PROVE  Prepared(tx'[u].use, tx'[u].seen, tx'[u].row)
  <2>1. CASE u = t
    <3>1. tx'[u].use = use /\ tx'[u].seen = deal[d] /\ tx'[u].row = row
      BY <1>1, <1>2, <2>1
    <3> QED BY <3>1
  <2>2. CASE u # t
    <3>1. tx'[u] = tx[u]
      BY <1>1, <1>2, <2>2
    <3> QED BY <1>3, <3>1 DEF HasRead, MemoryIsPrepared
  <2> QED BY <2>1, <2>2
<1> QED BY <1>3 DEF MemoryIsPrepared

(* Steps that prepare nothing. *)
LEMMA NothingPrepared ==
    ASSUME MemoryIsPrepared,
           \A u \in Transactions :
               \/ tx'[u].phase \notin {"read", "checked"}
               \/ /\ HasRead(u)
                  /\ tx'[u].use = tx[u].use /\ tx'[u].seen = tx[u].seen /\ tx'[u].row = tx[u].row
    PROVE  MemoryIsPrepared'
BY DEF MemoryIsPrepared, HasRead

LEMMA FindPrepares ==
    ASSUME IInv, MemoryIsPrepared, NEW t \in Transactions, NEW use, NEW d, NEW ref,
           Finds(t, use, d, ref)
    PROVE  MemoryIsPrepared'
<1>1. tx' = [tx EXCEPT ![t] = [Idle EXCEPT !.phase = "found", !.use = use, !.deal = d, !.ref = ref]]
  BY DEF Finds
<1>2. tx \in [Transactions -> TransactionRow]
  BY DEF IInv, TypeOK
<1>3. ASSUME NEW u \in Transactions
      PROVE  tx'[u].phase = "found" \/ tx'[u] = tx[u]
  BY <1>1, <1>2, <1>3 DEF Idle
<1> QED BY <1>3, NothingPrepared DEF HasRead

LEMMA EndPrepares ==
    ASSUME IInv, MemoryIsPrepared, NEW t \in Transactions, Ends(t)
    PROVE  MemoryIsPrepared'
<1>1. \A u \in Transactions : tx'[u] = tx[u] \/ tx'[u] = Idle
  BY EndsType
<1> QED BY <1>1, NothingPrepared DEF HasRead, Idle

LEMMA ReadingPrepares ==
    ASSUME IInv, MemoryIsPrepared, NEW t \in Transactions, NEW d \in Deals, Read(t, d)
    PROVE  MemoryIsPrepared'
<1> DEFINE seen == deal[d]
<1>0. seen \in DealRow /\ seen.revisionCount \in Int /\ seen.revisionCount = seen.revisionCount + 0
  <2>1. seen \in DealRow
    BY DEF IInv, TypeOK
  <2>2. seen.revisionCount \in Int
    BY <2>1 DEF DealRow
  <2> QED BY <2>1, <2>2
<1> HIDE DEF seen
<1>1. ASSUME NEW i \in Intents, ReadToPay(t, d, i)
      PROVE  MemoryIsPrepared'
  <2>1. Reads(t, "pay", d, i, seen)
    BY <1>1 DEF ReadToPay, seen
  <2>2. Prepared("pay", seen, seen)
    BY <1>0 DEF Prepared
  <2> QED BY <2>1, <2>2, ReadPrepares DEF seen
<1>2. CASE ReadToCapture(t, d)
  <2>1. Reads(t, "capture", d, tx[t].ref, HeldDeal(seen)) /\ CanHold(seen)
    BY <1>2 DEF ReadToCapture, seen
  <2>2. seen.escrow = "PENDING"
    BY <2>1 DEF CanHold, MoveEscrowTo, EscrowTransitions
  <2>3. Prepared("capture", seen, HeldDeal(seen))
    BY <1>0, <2>2, MethodsMove, MethodsKeepRevisions DEF Prepared
  <2> QED BY <2>1, <2>3, ReadPrepares DEF seen
<1>3. CASE ReadToAccept(t, d)
  <2>1. Reads(t, "accept", d, 0, AcceptedDeal(seen)) /\ CanAccept(seen)
    BY <1>3 DEF ReadToAccept, seen
  <2>2. seen.status = "PROPOSED" /\ seen.escrow = "HELD"
    BY <2>1 DEF CanAccept, MoveTo, DealTransitions
  <2>3. Prepared("accept", seen, AcceptedDeal(seen))
    BY <1>0, <2>2, MethodsMove, MethodsKeepRevisions DEF Prepared, Leaves
  <2> QED BY <2>1, <2>3, ReadPrepares DEF seen
<1>4. CASE ReadToDecline(t, d)
  <2>1. Reads(t, "decline", d, 0, ClosedRow(DeclinedDeal(seen))) /\ CanDecline(seen)
    BY <1>4 DEF ReadToDecline, seen
  <2>2. seen.status \in {"PROPOSED", "COUNTER_OFFERED"}
    BY <2>1 DEF CanDecline, MoveTo, DealTransitions
  <2>3. /\ DeclinedDeal(seen) \in DealRow /\ DeclinedDeal(seen).status = "DECLINED"
        /\ DeclinedDeal(seen).escrow = seen.escrow
        /\ DeclinedDeal(seen).revisionCount = seen.revisionCount
    BY <1>0, MethodsMove, MethodsKeepTerms, MethodsKeepRevisions
  <2>4. Prepared("decline", seen, ClosedRow(DeclinedDeal(seen)))
    BY <1>0, <2>2, <2>3, ClosedIsPrepared DEF Prepared, Leaves
  <2> QED BY <2>1, <2>4, ReadPrepares DEF seen
<1>5. CASE ReadToExpire(t, d)
  <2>1. Reads(t, "expire", d, 0, ClosedRow(ExpiredDeal(seen))) /\ CanExpire(seen)
    BY <1>5 DEF ReadToExpire, seen
  <2>2. seen.status \in {"PROPOSED", "COUNTER_OFFERED"}
    BY <2>1 DEF CanExpire, MoveTo, DealTransitions
  <2>3. /\ ExpiredDeal(seen) \in DealRow /\ ExpiredDeal(seen).status = "EXPIRED"
        /\ ExpiredDeal(seen).escrow = seen.escrow
        /\ ExpiredDeal(seen).revisionCount = seen.revisionCount
    BY <1>0, MethodsMove, MethodsKeepTerms, MethodsKeepRevisions
  <2>4. Prepared("expire", seen, ClosedRow(ExpiredDeal(seen)))
    BY <1>0, <2>2, <2>3, ClosedIsPrepared DEF Prepared, Leaves
  <2> QED BY <2>1, <2>4, ReadPrepares DEF seen
<1>6. CASE ReadToDeliver(t, d)
  <2>1. Reads(t, "deliver", d, delivered[d] + 1, DeliveredDeal(seen)) /\ CanDeliver(seen)
    BY <1>6 DEF ReadToDeliver, seen
  <2>2. seen.status \in {"ACCEPTED", "IN_PROGRESS"}
    BY <2>1 DEF CanDeliver, MoveTo, DealTransitions
  <2>3. Prepared("deliver", seen, DeliveredDeal(seen))
    BY <1>0, <2>2, MethodsMove, MethodsKeepRevisions DEF Prepared, Leaves
  <2> QED BY <2>1, <2>3, ReadPrepares DEF seen
<1>7. CASE ReadToReject(t, d)
  <2>1. Reads(t, "reject", d, 0, RejectedDeal(seen)) /\ CanReject(seen)
    BY <1>7 DEF ReadToReject, seen
  <2>2. seen.status = "DELIVERED"
    BY <2>1 DEF CanReject, MoveTo, DealTransitions
  <2>3. Prepared("reject", seen, RejectedDeal(seen))
    BY <1>0, <2>2, MethodsMove, MethodsKeepRevisions DEF Prepared, Leaves
  <2> QED BY <2>1, <2>3, ReadPrepares DEF seen
<1>8. ASSUME NEW use \in {"approve", "autoApprove"}, ReadsToApprove(t, use, d)
      PROVE  MemoryIsPrepared'
  <2> DEFINE approved == ApprovedDeal(seen)
  <2>1. Reads(t, use, d, 0, SettledDeal(approved)) /\ CanApprove(seen) /\ CanRelease(approved)
    BY <1>8 DEF ReadsToApprove, seen
  <2>2. seen.status = "DELIVERED"
    BY <2>1 DEF CanApprove, MoveTo, DealTransitions
  <2>3. /\ approved \in DealRow /\ approved.escrow = seen.escrow
        /\ approved.revisionCount = seen.revisionCount
    BY <1>0, MethodsMove, MethodsKeepTerms, MethodsKeepRevisions
  <2>4. approved.escrow = "HELD"
    BY <2>1 DEF CanRelease, CanSettle, MoveEscrowTo, EscrowTransitions
  <2> HIDE DEF approved
  <2>5. Prepared(use, seen, SettledDeal(approved))
    BY <1>0, <2>2, <2>3, <2>4, MethodsMove, MethodsKeepRevisions DEF Prepared, Leaves
  <2> QED BY <2>1, <2>5, ReadPrepares DEF seen
<1>9. CASE ReadToApprove(t, d)
  BY <1>8, <1>9 DEF ReadToApprove
<1>10. CASE ReadToAutoApprove(t, d)
  BY <1>8, <1>10 DEF ReadToAutoApprove
<1>11. CASE ListOverdue(t, d)
  BY <1>11, FindPrepares DEF ListOverdue
<1>12. ASSUME NEW use \in {"refund", "resolveForBuyer"}, NEW ref, CanRefund(deal[d]),
              Reads(t, use, d, ref, ClosedRow(RefundedDeal(deal[d])))
       PROVE  MemoryIsPrepared'
  <2>1. Reads(t, use, d, ref, ClosedRow(RefundedDeal(seen))) /\ CanRefund(seen)
    BY <1>12 DEF seen
  <2>2. seen.status \in {"ACCEPTED", "IN_PROGRESS", "DELIVERED"}
    BY <2>1 DEF CanRefund, MoveTo, DealTransitions
  <2>3. /\ RefundedDeal(seen) \in DealRow /\ RefundedDeal(seen).status = "REFUNDED"
        /\ RefundedDeal(seen).escrow = seen.escrow
        /\ RefundedDeal(seen).revisionCount = seen.revisionCount
    BY <1>0, MethodsMove, MethodsKeepTerms, MethodsKeepRevisions
  <2>4. Prepared(use, seen, ClosedRow(RefundedDeal(seen)))
    BY <1>0, <2>2, <2>3, ClosedIsPrepared DEF Prepared, Leaves
  <2> QED BY <2>1, <2>4, ReadPrepares DEF seen
<1>13. CASE ReadToRefund(t, d)
  BY <1>12, <1>13 DEF ReadToRefund
<1>14. CASE ReadToOpenDispute(t, d)
  <2>1. Reads(t, "openDispute", d, dispute[d].id + 1, seen)
    BY <1>14 DEF ReadToOpenDispute, seen
  <2>2. Prepared("openDispute", seen, seen)
    BY <1>0 DEF Prepared
  <2> QED BY <2>1, <2>2, ReadPrepares DEF seen
<1>15. CASE FindDispute(t, d)
  BY <1>15, FindPrepares DEF FindDispute
<1>16. CASE ReadToResolveForBuyer(t, d)
  BY <1>12, <1>16 DEF ReadToResolveForBuyer
<1>17. CASE ReadToSendMessage(t, d)
  <2>1. Reads(t, "message", d, 0, seen)
    BY <1>17 DEF ReadToSendMessage, seen
  <2>2. Prepared("message", seen, seen)
    BY <1>0 DEF Prepared
  <2> QED BY <2>1, <2>2, ReadPrepares DEF seen
<1> QED
  BY <1>1, <1>2, <1>3, <1>4, <1>5, <1>6, <1>7, <1>9, <1>10, <1>11, <1>13, <1>14, <1>15, <1>16,
     <1>17 DEF Read

(* Deadlines are no part of what is prepared, so time does not undo it.      *)
LEMMA TickedIsPrepared ==
    ASSUME NEW use, NEW seen \in DealRow, NEW row \in DealRow, Prepared(use, seen, row)
    PROVE  Prepared(use, TickedDeal(seen), TickedDeal(row))
<1>1. /\ TickedDeal(seen).status = seen.status /\ TickedDeal(seen).escrow = seen.escrow
      /\ TickedDeal(seen).revisionCount = seen.revisionCount
      /\ TickedDeal(row).status = row.status /\ TickedDeal(row).escrow = row.escrow
      /\ TickedDeal(row).revisionCount = row.revisionCount
  BY MethodsMove, MethodsKeepRevisions
<1> QED BY <1>1 DEF Prepared, Leaves, ClosesEscrow

LEMMA NextPrepares ==
    ASSUME IInv, MemoryIsPrepared, [Next]_vars
    PROVE  MemoryIsPrepared'
<1>1. CASE UNCHANGED tx
  BY <1>1, NothingPrepared DEF HasRead, MemoryIsPrepared
<1>2. ASSUME NEW t \in Transactions, Ends(t)
      PROVE  MemoryIsPrepared'
  BY <1>2, EndPrepares
<1>3. ASSUME NEW t \in Transactions, NEW d \in Deals, Read(t, d)
      PROVE  MemoryIsPrepared'
  BY <1>3, ReadingPrepares
<1>4. ASSUME NEW t \in Transactions, NEW i \in Intents, FindCaptured(t, i)
      PROVE  MemoryIsPrepared'
  BY <1>4, FindPrepares DEF FindCaptured
<1>5. ASSUME NEW t \in Transactions, CheckDispute(t)
      PROVE  MemoryIsPrepared'
  <2>1. tx[t].phase = "read" /\ tx' = [tx EXCEPT ![t].phase = "checked"]
    BY <1>5 DEF CheckDispute
  <2>2. tx \in [Transactions -> TransactionRow]
    BY DEF IInv, TypeOK
  <2>3. ASSUME NEW u \in Transactions, HasRead(u)'
        PROVE  /\ HasRead(u)
               /\ tx'[u].use = tx[u].use /\ tx'[u].seen = tx[u].seen /\ tx'[u].row = tx[u].row
    BY <2>1, <2>2, <2>3 DEF HasRead, TransactionRow
  <2> QED BY <2>3, NothingPrepared DEF HasRead
<1>6. CASE Tick
  <2>1. ASSUME NEW u \in Transactions, HasRead(u)'
        PROVE  Prepared(tx'[u].use, tx'[u].seen, tx'[u].row)
    <3>1. tx[u] \in TransactionRow
      BY DEF IInv, TypeOK
    <3>2. tx'[u] = [tx[u] EXCEPT !.row = TickedDeal(tx[u].row), !.seen = TickedDeal(tx[u].seen)]
      BY <1>6 DEF Tick
    <3>3. /\ tx'[u].phase = tx[u].phase /\ tx'[u].use = tx[u].use
          /\ tx'[u].seen = TickedDeal(tx[u].seen) /\ tx'[u].row = TickedDeal(tx[u].row)
          /\ tx[u].seen \in DealRow /\ tx[u].row \in DealRow
      BY <3>1, <3>2 DEF TransactionRow
    <3>4. Prepared(tx[u].use, tx[u].seen, tx[u].row)
      BY <2>1, <3>3 DEF HasRead, MemoryIsPrepared
    <3> QED BY <3>3, <3>4, TickedIsPrepared
  <2> QED BY <2>1 DEF MemoryIsPrepared
<1> QED
  BY <1>1, <1>2, <1>3, <1>4, <1>5, <1>6
  DEF Next, vars, Commit, RollBack, CommitStatus, CommitDelivery, CommitPay, CommitCapture,
      CommitClose, CommitRelease, CommitOpenDispute, EndDispute, FlagCapture, CreateDeal

-----------------------------------------------------------------------------
(* A commit writes to its own deal only.                                     *)
Untouched(e) ==
    /\ deal'[e] = deal[e] /\ ledger'[e] = ledger[e] /\ delivered'[e] = delivered[e]
    /\ \A kind : <<kind, e>> \in posted' <=> <<kind, e>> \in posted

LEMMA UntouchedFits ==
    ASSUME NEW e \in Deals, Fits(e), Untouched(e)
    PROVE  Fits(e)' /\ BoxStays(e)
BY DEF Fits, Untouched, PostingsFit, BoxFits, DeliveriesAreCounted, BoxStays

LEMMA CommitsAreReady ==
    ASSUME IInv, NEW t \in Transactions, Commit(t)
    PROVE  HasRead(t) /\ tx[t].deal \in Deals /\ Ends(t)
<1>1. InMemory(t)
  BY DEF IInv, MemoryIsSound
<1>2. HasRead(t) /\ Ends(t)
  BY DEF Commit, CommitStatus, CommitDelivery, CommitPay, CommitCapture, CommitClose,
         CommitRelease, CommitOpenDispute, IsReady, HasRead
<1> QED BY <1>1, <1>2 DEF InMemory, HasRead

LEMMA SavedRow ==
    ASSUME IInv, NEW t \in Transactions, tx[t].deal \in Deals, Saves(t)
    PROVE  /\ deal'[tx[t].deal] = tx[t].row
           /\ \A e \in Deals : e # tx[t].deal => deal'[e] = deal[e]
BY DEF IInv, TypeOK, Saves

LEMMA PostedBalance ==
    ASSUME IInv, NEW d \in Deals, NEW kind, NEW balance, Posts(kind, d, balance)
    PROVE  /\ ledger'[d] = balance
           /\ \A e \in Deals : e # d =>
                 /\ ledger'[e] = ledger[e]
                 /\ \A k : <<k, e>> \in posted' <=> <<k, e>> \in posted
           /\ \A k : <<k, d>> \in posted' <=> k = kind \/ <<k, d>> \in posted
BY DEF IInv, TypeOK, Posts

LEMMA CommitTouchesItsDeal ==
    ASSUME IInv, NEW t \in Transactions, Commit(t), NEW e \in Deals, e # tx[t].deal
    PROVE  Untouched(e)
<1>0. PICK d : d = tx[t].deal
  OBVIOUS
<1>1. d \in Deals /\ e # d
  BY <1>0, CommitsAreReady
<1>2. CASE CommitStatus(t)
  BY <1>0, <1>1, <1>2, SavedRow DEF CommitStatus, Untouched
<1>3. CASE CommitDelivery(t)
  <2>1. delivered'[e] = delivered[e]
    BY <1>0, <1>1, <1>3 DEF CommitDelivery, IInv, TypeOK
  <2> QED BY <1>0, <1>1, <1>3, <2>1, SavedRow DEF CommitDelivery, Untouched
<1>4. CASE CommitPay(t)
  BY <1>4 DEF CommitPay, Untouched
<1>5. CASE CommitCapture(t)
  <2>1. Posts("ESCROW_FUNDING", d, Funded(ledger[d], tx[t].seen.amount))
    BY <1>0, <1>5 DEF CommitCapture
  <2> QED BY <1>0, <1>1, <1>5, <2>1, SavedRow, PostedBalance DEF CommitCapture, Untouched
<1>6. CASE CommitClose(t)
  <2>1. \/ Posts("ESCROW_REFUND", d, ReturnedToBuyer(ledger[d], tx[t].seen.amount))
        \/ UNCHANGED <<ledger, posted>>
    BY <1>0, <1>6, Zenon DEF CommitClose
  <2>2. /\ ledger'[e] = ledger[e]
        /\ \A k : <<k, e>> \in posted' <=> <<k, e>> \in posted
    BY <1>1, <2>1, PostedBalance
  <2>3. Saves(t) /\ UNCHANGED delivered
    BY <1>6 DEF CommitClose
  <2> QED BY <1>0, <1>1, <2>2, <2>3, SavedRow DEF Untouched
<1>7. CASE CommitRelease(t)
  <2>1. Posts("ESCROW_RELEASE", d, Released(ledger[d], tx[t].seen))
    BY <1>0, <1>7 DEF CommitRelease
  <2> QED BY <1>0, <1>1, <1>7, <2>1, SavedRow, PostedBalance DEF CommitRelease, Untouched
<1>8. CASE CommitOpenDispute(t)
  BY <1>8 DEF CommitOpenDispute, Untouched
<1> QED BY <1>2, <1>3, <1>4, <1>5, <1>6, <1>7, <1>8 DEF Commit

-----------------------------------------------------------------------------
(* What one step does to a deal when it saves over the row that was read.    *)
EscrowMoves(d) ==
    \/ deal'[d].escrow = deal[d].escrow
    \/ <<deal[d].escrow, deal'[d].escrow>> \in {<<"PENDING", "HELD">>, <<"PENDING", "FAILED">>,
                                                <<"HELD", "RELEASED">>, <<"HELD", "REFUNDED">>}

StaysClosed(d) == deal[d].status \in TerminalStatus => deal'[d].status = deal[d].status

StepsWell(d) == Fits(d)' /\ EscrowMoves(d) /\ StaysClosed(d)

(* The row that is there is the one that was read. *)
Stands(t) == tx[t].seen = deal[tx[t].deal]

LEMMA PlainCommitFits ==
    ASSUME IInv, MemoryIsPrepared, NEW t \in Transactions, CommitStatus(t) \/ CommitDelivery(t),
           NEW d \in Deals, d = tx[t].deal, Fits(d), Stands(t)
    PROVE  StepsWell(d)
<1>0. PICK use, row : use = tx[t].use /\ row = tx[t].row
  OBVIOUS
<1>1. /\ tx[t].phase = "read" /\ use \in {"accept", "reject", "message", "deliver"} /\ Saves(t)
      /\ UNCHANGED <<ledger, posted>>
      /\ use = "deliver" => delivered'[d] = delivered[d] + 1
      /\ use # "deliver" => delivered'[d] = delivered[d]
  BY <1>0 DEF CommitStatus, CommitDelivery, IsReady, IInv, TypeOK
<1>2. deal'[d] = row
  BY <1>0, <1>1, SavedRow
<1>3. Prepared(use, deal[d], row)
  BY <1>0, <1>1 DEF MemoryIsPrepared, HasRead, Stands
<1>4. SameTerms(deal[d], row)
  BY <1>0, <1>1 DEF IInv, MemoryIsSound, InMemory
<1>5. /\ deal[d].revisionCount \in Int /\ delivered[d] \in Int
      /\ deal[d] \in DealRow
  BY DEF IInv, TypeOK, DealRow
<1>6. row.escrow = deal[d].escrow
  BY <1>1, <1>3 DEF Prepared
<1>7. PostingsFit(d)'
  BY <1>1, <1>2, <1>6 DEF Fits, PostingsFit
<1>8. BoxFits(d)'
  BY <1>1, <1>2, <1>4, <1>6 DEF Fits, BoxFits, SameTerms
<1>9. SidesAgree(row)
  BY <1>1, <1>3, <1>6 DEF Prepared, Leaves, Fits, SidesAgree
<1>10. DeliveriesAreCounted(d)'
  BY <1>1, <1>2, <1>3, <1>5 DEF Prepared, Leaves, Fits, DeliveriesAreCounted
<1>11. StaysClosed(d)
  BY <1>1, <1>2, <1>3 DEF Prepared, Leaves, StaysClosed, TerminalStatus
<1> QED BY <1>2, <1>6, <1>7, <1>8, <1>9, <1>10, <1>11 DEF StepsWell, Fits, EscrowMoves

LEMMA CommitCaptureFits ==
    ASSUME IInv, MemoryIsPrepared, NEW t \in Transactions, CommitCapture(t),
           NEW d \in Deals, d = tx[t].deal, Fits(d), Stands(t)
    PROVE  StepsWell(d)
<1>0. PICK row : row = tx[t].row
  OBVIOUS
<1>1. /\ tx[t].phase = "read" /\ tx[t].use = "capture" /\ Saves(t) /\ UNCHANGED delivered
      /\ Posts("ESCROW_FUNDING", d, Funded(ledger[d], deal[d].amount))
  BY DEF CommitCapture, IsReady, Stands
<1>2. deal'[d] = row
  BY <1>0, <1>1, SavedRow
<1>3. /\ ledger'[d] = Funded(ledger[d], deal[d].amount)
      /\ \A k : <<k, d>> \in posted' <=> k = "ESCROW_FUNDING" \/ <<k, d>> \in posted
  BY <1>1, PostedBalance
<1>4. /\ row.status = deal[d].status /\ deal[d].escrow = "PENDING" /\ row.escrow = "HELD"
      /\ row.revisionCount = deal[d].revisionCount + 0
  BY <1>0, <1>1 DEF MemoryIsPrepared, HasRead, Stands, Prepared
<1>5. SameTerms(deal[d], row) /\ row.status # "NONE"
  BY <1>0, <1>1 DEF IInv, MemoryIsSound, InMemory
<1>6. /\ ledger[d] \in Balance /\ deal[d].amount \in Int /\ deal[d].revisionCount \in Int
  BY DEF IInv, TypeOK, DealRow
<1>7. ledger[d].escrow = 0
  BY <1>4 DEF Fits, BoxFits
<1>8. BoxFits(d)'
  BY <1>2, <1>3, <1>4, <1>5, <1>6, <1>7, FundedFields DEF BoxFits, SameTerms
<1>9. PostingsFit(d)'
  BY <1>2, <1>3, <1>4 DEF Fits, PostingsFit
<1>10. SidesAgree(row)
  BY <1>4, <1>5 DEF Fits, SidesAgree
<1>11. DeliveriesAreCounted(d)'
  BY <1>1, <1>2, <1>4, <1>6 DEF Fits, DeliveriesAreCounted
<1> QED BY <1>2, <1>4, <1>8, <1>9, <1>10, <1>11 DEF StepsWell, Fits, EscrowMoves, StaysClosed

LEMMA CommitReleaseFits ==
    ASSUME IInv, MemoryIsPrepared, NEW t \in Transactions, CommitRelease(t),
           NEW d \in Deals, d = tx[t].deal, Fits(d), Stands(t)
    PROVE  StepsWell(d)
<1>0. PICK row : row = tx[t].row
  OBVIOUS
<1>1. /\ tx[t].phase = "checked" /\ Saves(t) /\ UNCHANGED delivered
      /\ Posts("ESCROW_RELEASE", d, Released(ledger[d], deal[d]))
  BY DEF CommitRelease, Stands
<1>2. deal'[d] = row
  BY <1>0, <1>1, SavedRow
<1>3. /\ ledger'[d] = Released(ledger[d], deal[d])
      /\ \A k : <<k, d>> \in posted' <=> k = "ESCROW_RELEASE" \/ <<k, d>> \in posted
  BY <1>1, PostedBalance
<1>4. tx[t].use \in {"approve", "autoApprove"}
  BY <1>1 DEF IInv, MemoryIsSound, InMemory
<1>5. /\ deal[d].status = "DELIVERED" /\ row.status = "PAID"
      /\ deal[d].escrow = "HELD" /\ row.escrow = "RELEASED"
      /\ row.revisionCount = deal[d].revisionCount + 0
  BY <1>0, <1>1, <1>4 DEF MemoryIsPrepared, HasRead, Stands, Prepared, Leaves
<1>6. /\ ledger[d] \in Balance /\ deal[d] \in DealRow
      /\ deal[d].amount \in Int /\ deal[d].revisionCount \in Int
  BY DEF IInv, TypeOK, DealRow
<1>7. BoxFits(d)'
  BY <1>2, <1>3, <1>5, <1>6, ReleasedFields DEF Fits, BoxFits
<1>8. PostingsFit(d)'
  BY <1>2, <1>3, <1>5 DEF Fits, PostingsFit
<1>9. SidesAgree(row)
  BY <1>5 DEF SidesAgree
<1>10. DeliveriesAreCounted(d)'
  BY <1>1, <1>2, <1>5, <1>6 DEF Fits, DeliveriesAreCounted
<1> QED
  BY <1>2, <1>5, <1>7, <1>8, <1>9, <1>10
  DEF StepsWell, Fits, EscrowMoves, StaysClosed, TerminalStatus

LEMMA CommitCloseFits ==
    ASSUME IInv, MemoryIsPrepared, NEW t \in Transactions, CommitClose(t),
           NEW d \in Deals, d = tx[t].deal, Fits(d), Stands(t)
    PROVE  StepsWell(d)
<1>0. PICK row, use : row = tx[t].row /\ use = tx[t].use
  OBVIOUS
<1>1. /\ tx[t].phase = "read" /\ use \in {"decline", "expire", "refund", "resolveForBuyer"}
      /\ Saves(t) /\ UNCHANGED delivered
  BY <1>0 DEF CommitClose, IsReady
<1>2. deal'[d] = row
  BY <1>0, <1>1, SavedRow
<1>3. Prepared(use, deal[d], row)
  BY <1>0, <1>1 DEF MemoryIsPrepared, HasRead, Stands
<1>4. /\ ClosesEscrow(deal[d], row)
      /\ \/ /\ deal[d].status \in {"PROPOSED", "COUNTER_OFFERED"}
            /\ row.status \in {"DECLINED", "EXPIRED"}
         \/ /\ deal[d].status \in {"ACCEPTED", "IN_PROGRESS", "DELIVERED"}
            /\ row.status = "REFUNDED"
  BY <1>1, <1>3 DEF Prepared, Leaves
<1>5. deal[d] \in DealRow /\ ledger[d] \in Balance /\ deal[d].amount \in Int
  BY DEF IInv, TypeOK, DealRow
<1>6. \/ deal[d].escrow = "PENDING" /\ row.escrow = "FAILED" /\ deal[d].status = "PROPOSED"
      \/ deal[d].escrow = "HELD" /\ row.escrow = "REFUNDED"
  BY <1>4, <1>5 DEF ClosesEscrow, Fits, SidesAgree, DealRow, EscrowStatus
<1>7. SidesAgree(row)
  BY <1>4, <1>6 DEF SidesAgree
<1>8. ASSUME deal[d].escrow = "HELD"
      PROVE  BoxFits(d)' /\ PostingsFit(d)'
  <2>1. Posts("ESCROW_REFUND", d, ReturnedToBuyer(ledger[d], deal[d].amount))
    BY <1>8, Zenon DEF CommitClose, Stands
  <2>2. /\ ledger'[d] = ReturnedToBuyer(ledger[d], deal[d].amount)
        /\ \A k : <<k, d>> \in posted' <=> k = "ESCROW_REFUND" \/ <<k, d>> \in posted
    BY <2>1, PostedBalance
  <2>3. BoxFits(d)'
    <3>1. row.escrow = "REFUNDED"
      BY <1>6, <1>8
    <3>2. ledger[d].escrow = deal[d].amount
      BY <1>8 DEF Fits, BoxFits
    <3>3. ledger'[d].escrow = 0
      BY <1>5, <2>2, <3>2, ReturnedFields
    <3> QED BY <1>2, <3>1, <3>3 DEF BoxFits
  <2>4. PostingsFit(d)'
    BY <1>2, <1>6, <1>8, <2>2 DEF Fits, PostingsFit
  <2> QED BY <2>3, <2>4
<1>9. ASSUME deal[d].escrow = "PENDING"
      PROVE  BoxFits(d)' /\ PostingsFit(d)'
  <2>1. UNCHANGED <<ledger, posted>>
    BY <1>9, Zenon DEF CommitClose, Stands
  <2> QED BY <1>2, <1>6, <1>9, <2>1 DEF Fits, BoxFits, PostingsFit
<1>10. BoxFits(d)' /\ PostingsFit(d)'
  BY <1>6, <1>8, <1>9
<1>11. DeliveriesAreCounted(d)'
  BY <1>2, <1>4 DEF DeliveriesAreCounted
<1> QED
  BY <1>2, <1>4, <1>6, <1>7, <1>10, <1>11
  DEF StepsWell, Fits, EscrowMoves, StaysClosed, TerminalStatus

(* Every commit over the row that was read is one step of its deal. *)
Lands(t) == tx[t].use \in UsesThatSaveNothing \/ Stands(t)

LEMMA UntouchedSteps ==
    ASSUME NEW d \in Deals, Fits(d), Untouched(d)
    PROVE  StepsWell(d)
BY UntouchedFits DEF Untouched, StepsWell, EscrowMoves, StaysClosed

LEMMA CommitFits ==
    ASSUME IInv, MemoryIsPrepared, NEW t \in Transactions, Commit(t),
           NEW d \in Deals, Fits(d), d = tx[t].deal => Lands(t)
    PROVE  StepsWell(d)
<1>1. CASE d # tx[t].deal
  BY <1>1, CommitTouchesItsDeal, UntouchedSteps
<1>2. CASE d = tx[t].deal /\ tx[t].use \in UsesThatSaveNothing
  <2>1. tx[t].phase = "checked" => tx[t].use \in {"approve", "autoApprove"}
    BY DEF IInv, MemoryIsSound, InMemory
  <2>2. CommitPay(t) \/ CommitOpenDispute(t)
    BY <1>2, <2>1
    DEF UsesThatSaveNothing, Commit, CommitStatus, CommitDelivery, CommitCapture, CommitClose,
        CommitRelease, IsReady
  <2>3. Untouched(d)
    BY <2>2 DEF CommitPay, CommitOpenDispute, Untouched
  <2> QED BY <2>3, UntouchedSteps
<1>3. CASE d = tx[t].deal /\ Stands(t)
  <2>1. CASE CommitPay(t) \/ CommitOpenDispute(t)
    <3>1. Untouched(d)
      BY <2>1 DEF CommitPay, CommitOpenDispute, Untouched
    <3> QED BY <3>1, UntouchedSteps
  <2> QED
    BY <1>3, <2>1, PlainCommitFits, CommitCaptureFits, CommitReleaseFits, CommitCloseFits DEF Commit
<1> QED BY <1>1, <1>2, <1>3 DEF Lands

LEMMA CreateFits ==
    ASSUME IInv, UnusedIsUndelivered, NEW c \in Deals, NEW kind, NEW price, NEW sla, CreateDeal(c, kind, price, sla),
           NEW d \in Deals, Fits(d)
    PROVE  StepsWell(d)
<1> DEFINE opened == OpenedDeal(kind, price, sla)
<1>1. /\ deal[c].status = "NONE" /\ deal' = [deal EXCEPT ![c] = opened]
      /\ UNCHANGED <<delivered, ledger, posted>>
  BY DEF CreateDeal
<1>2. opened.status = "PROPOSED" /\ opened.escrow = "PENDING" /\ opened.revisionCount = 0
  BY DEF OpenedDeal
<1> HIDE DEF opened
<1>3. CASE d # c
  <2>1. Untouched(d)
    BY <1>1, <1>3 DEF IInv, TypeOK, Untouched
  <2> QED BY <2>1, UntouchedSteps
<1>4. CASE d = c
  <2>1. deal'[d] = opened
    BY <1>1, <1>4 DEF IInv, TypeOK
  <2>2. deal[d].escrow = "PENDING"
    <3>1. deal[d] \in DealRow
      BY DEF IInv, TypeOK
    <3> QED BY <1>1, <1>4, <3>1 DEF Fits, SidesAgree, DealRow, EscrowStatus
  <2>3. delivered[d] = 0
    BY <1>1, <1>4 DEF UnusedIsUndelivered
  <2>4. Fits(d)'
    BY <1>1, <1>2, <2>1, <2>2, <2>3
    DEF Fits, SidesAgree, PostingsFit, BoxFits, DeliveriesAreCounted
  <2> QED
    BY <1>1, <1>2, <1>4, <2>1, <2>2, <2>4 DEF StepsWell, EscrowMoves, StaysClosed, TerminalStatus
<1> QED BY <1>3, <1>4

LEMMA TickFits ==
    ASSUME IInv, Tick, NEW d \in Deals, Fits(d)
    PROVE  StepsWell(d)
<1>1. deal'[d] = TickedDeal(deal[d]) /\ UNCHANGED <<delivered, ledger, posted>>
  BY DEF Tick
<1>2. deal[d] \in DealRow
  BY DEF IInv, TypeOK
<1>t. SameTerms(deal[d], TickedDeal(deal[d]))
  BY <1>2, MethodsKeepTerms
<1>3. /\ deal'[d].status = deal[d].status /\ deal'[d].escrow = deal[d].escrow
      /\ deal'[d].revisionCount = deal[d].revisionCount /\ deal'[d].amount = deal[d].amount
  BY <1>1, <1>2, <1>t, MethodsMove, MethodsKeepRevisions DEF SameTerms
<1>4. Fits(d)'
  BY <1>1, <1>3 DEF Fits, SidesAgree, PostingsFit, BoxFits, DeliveriesAreCounted
<1> QED BY <1>3, <1>4 DEF StepsWell, EscrowMoves, StaysClosed

(* Steps that are neither a commit, nor a new deal, nor the clock. *)
LEMMA NextKinds ==
    ASSUME [Next]_vars
    PROVE  \/ UNCHANGED <<deal, delivered, ledger, posted, slotsTaken>>
           \/ \E t \in Transactions : Commit(t)
           \/ \E d \in Deals, kind \in {"BOOKING", "CUSTOM_SERVICE"}, price \in Prices, sla \in Slas :
                  CreateDeal(d, kind, price, sla)
           \/ Tick
<1>1. ASSUME NEW t \in Transactions, NEW d \in Deals, Read(t, d)
      PROVE  UNCHANGED tables
  BY <1>1
  DEF Read, ReadToPay, ReadToCapture, ReadToAccept, ReadToDecline, ReadToExpire, ReadToDeliver,
      ReadToReject, ReadToApprove, ReadsToApprove, ListOverdue, ReadToAutoApprove, ReadToRefund,
      ReadToOpenDispute, FindDispute, ReadToResolveForBuyer, ReadToSendMessage, Reads, Finds
<1> QED
  BY <1>1
  DEF Next, vars, tables, FindCaptured, Finds, CheckDispute, RollBack, EndDispute, FlagCapture

(* A deal is opened, or keeps its terms; deliveries are made of deals that exist. *)
Opens(d, kind, price, sla) ==
    /\ deal[d].status = "NONE" /\ deal'[d] = OpenedDeal(kind, price, sla)
    /\ delivered'[d] = delivered[d] /\ ledger'[d] = ledger[d]

KeepsTerms(d) ==
    /\ SameTerms(deal[d], deal'[d])
    /\ \/ deal'[d].status = deal[d].status /\ delivered'[d] = delivered[d]
       \/ deal[d].status # "NONE" /\ deal'[d].status # "NONE"

LEMMA RowsMove ==
    ASSUME IInv, [Next]_vars, NEW d \in Deals
    PROVE  \/ \E kind \in {"BOOKING", "CUSTOM_SERVICE"}, price \in Prices, sla \in Slas :
                  Opens(d, kind, price, sla)
           \/ KeepsTerms(d)
<1>0. deal[d] \in DealRow /\ SameTerms(deal[d], deal[d])
  BY DEF IInv, TypeOK, SameTerms
<1>1. CASE UNCHANGED <<deal, delivered, ledger, posted, slotsTaken>>
  BY <1>0, <1>1 DEF KeepsTerms
<1>2. ASSUME NEW t \in Transactions, Commit(t)
      PROVE  KeepsTerms(d)
  <2>1. CASE d # tx[t].deal
    BY <1>0, <1>2, <2>1, CommitTouchesItsDeal DEF Untouched, KeepsTerms
  <2>2. CASE d = tx[t].deal
    <3>1. HasRead(t)
      BY <1>2, CommitsAreReady
    <3>2. /\ deal[d].status # "NONE" /\ tx[t].row.status # "NONE"
          /\ SameTerms(deal[d], tx[t].row)
      BY <2>2, <3>1 DEF IInv, MemoryIsSound, InMemory, HasRead
    <3>3. Saves(t) \/ UNCHANGED deal
      BY <1>2
      DEF Commit, CommitStatus, CommitDelivery, CommitPay, CommitCapture, CommitClose,
          CommitRelease, CommitOpenDispute
    <3>4. deal'[d] = tx[t].row \/ deal'[d] = deal[d]
      BY <2>2, <3>3, SavedRow
    <3> QED BY <1>0, <3>2, <3>4 DEF KeepsTerms
  <2> QED BY <2>1, <2>2
<1>3. ASSUME NEW c \in Deals, NEW kind \in {"BOOKING", "CUSTOM_SERVICE"}, NEW price \in Prices,
             NEW sla \in Slas, CreateDeal(c, kind, price, sla)
      PROVE  Opens(d, kind, price, sla) \/ KeepsTerms(d)
  <2>1. /\ deal[c].status = "NONE" /\ deal' = [deal EXCEPT ![c] = OpenedDeal(kind, price, sla)]
        /\ UNCHANGED <<delivered, ledger>>
    BY <1>3 DEF CreateDeal
  <2>2. deal'[d] = IF d = c THEN OpenedDeal(kind, price, sla) ELSE deal[d]
    BY <2>1 DEF IInv, TypeOK
  <2> QED BY <1>0, <2>1, <2>2 DEF Opens, KeepsTerms
<1>4. CASE Tick
  <2>1. deal'[d] = TickedDeal(deal[d]) /\ UNCHANGED delivered
    BY <1>4 DEF Tick
  <2>2. SameTerms(deal[d], TickedDeal(deal[d])) /\ TickedDeal(deal[d]).status = deal[d].status
    BY <1>0, MethodsMove, MethodsKeepTerms
  <2> QED BY <2>1, <2>2 DEF KeepsTerms
<1> QED BY <1>1, <1>2, <1>3, <1>4, NextKinds

LEMMA TermsStayPriced ==
    ASSUME IInv, TermsArePriced, UnusedIsUndelivered, [Next]_vars
    PROVE  TermsArePriced' /\ UnusedIsUndelivered'
<1>1. ASSUME NEW d \in Deals, KeepsTerms(d)
      PROVE  /\ deal'[d].status # "NONE" => AddsUp(deal'[d]) /\ deal'[d].amount \in DealAmounts
             /\ deal'[d].status = "NONE" => delivered'[d] = 0
  BY <1>1 DEF KeepsTerms, SameTerms, AddsUp, TermsArePriced, UnusedIsUndelivered
<1>2. ASSUME NEW d \in Deals, NEW kind \in {"BOOKING", "CUSTOM_SERVICE"}, NEW price \in Prices,
             NEW sla \in Slas, Opens(d, kind, price, sla)
      PROVE  /\ AddsUp(deal'[d]) /\ deal'[d].amount \in DealAmounts
             /\ deal'[d].status # "NONE"
  <2>1. deal'[d] = OpenedDeal(kind, price, sla)
    BY <1>2 DEF Opens
  <2>2. kind \in OfferKind /\ price \in Nat /\ sla \in Nat
    BY PolicyAssumption DEF OfferKind
  <2>3. AddsUp(OpenedDeal(kind, price, sla))
    BY <2>2, OpenedDealType
  <2>4. /\ OpenedDeal(kind, price, sla).amount = SplitFees(price, FeeBasisPoints).amount
        /\ OpenedDeal(kind, price, sla).status = "PROPOSED"
    BY Zenon DEF OpenedDeal
  <2>5. SplitFees(price, FeeBasisPoints).amount \in DealAmounts
    BY Zenon DEF DealAmounts
  <2> QED BY <2>1, <2>3, <2>4, <2>5
<1> QED BY <1>1, <1>2, RowsMove DEF TermsArePriced, UnusedIsUndelivered

-----------------------------------------------------------------------------
(* The box of a deal: one step of Escrow, from the postings of its row.      *)
StageNow    == [d \in Deals |-> StageOf(deal[d].escrow)]
BoxNow      == [d \in Deals |-> ledger[d].escrow]
PaidInNow   == [d \in Deals |-> ledger[d].clearing]
PaidBackNow == [d \in Deals |-> ledger[d].refunds]
PaidOutNow  == [d \in Deals |-> ledger[d].creator + ledger[d].fees]

LEMMA OneBoxMoves ==
    ASSUME NEW d \in Deals, \A e \in Deals : e # d => Untouched(e)
    PROVE  /\ StageNow'    = [StageNow    EXCEPT ![d] = StageOf(deal'[d].escrow)]
           /\ BoxNow'      = [BoxNow      EXCEPT ![d] = ledger'[d].escrow]
           /\ PaidInNow'   = [PaidInNow   EXCEPT ![d] = ledger'[d].clearing]
           /\ PaidBackNow' = [PaidBackNow EXCEPT ![d] = ledger'[d].refunds]
           /\ PaidOutNow'  = [PaidOutNow  EXCEPT ![d] = ledger'[d].creator + ledger'[d].fees]
           /\ StageNow[d] = StageOf(deal[d].escrow) /\ BoxNow[d] = ledger[d].escrow
           /\ PaidInNow[d] = ledger[d].clearing     /\ PaidBackNow[d] = ledger[d].refunds
           /\ PaidOutNow[d] = ledger[d].creator + ledger[d].fees
BY DEF Untouched, StageNow, BoxNow, PaidInNow, PaidBackNow, PaidOutNow

(* The balances of a deal that was never overwritten, from its escrow status. *)
LEMMA BoxBalances ==
    ASSUME IInv, NEW d \in Deals, Fits(d), NEW amount, amount = deal[d].amount,
           AddsUp(deal[d])
    PROVE  /\ amount \in Nat
           /\ ledger[d].escrow = IF deal[d].escrow = "HELD" THEN amount ELSE 0
           /\ ledger[d].clearing =
                IF deal[d].escrow \in {"HELD", "RELEASED", "REFUNDED"} THEN amount ELSE 0
           /\ ledger[d].refunds = IF deal[d].escrow = "REFUNDED" THEN amount ELSE 0
           /\ ledger[d].creator + ledger[d].fees =
                IF deal[d].escrow = "RELEASED" THEN amount ELSE 0
<1>1. Books(deal[d], ledger[d], d) /\ deal[d] \in DealRow
  BY DEF IInv, TypeOK, BooksFollowPostings
<1>2. amount \in Nat /\ deal[d].creatorNet \in Nat /\ deal[d].platformFee \in Nat
  BY <1>1 DEF DealRow
<1> QED BY <1>1, <1>2 DEF Books, Fits, PostingsFit, BoxFits, AddsUp

LEMMA BoxStep ==
    ASSUME IInv, IInv', NEW d \in Deals, Fits(d), StepsWell(d), SameTerms(deal[d], deal'[d]),
           AddsUp(deal[d]), deal[d].amount \in DealAmounts,
           \A e \in Deals : e # d => Untouched(e)
    PROVE  Box!EscrowStep(d) \/ BoxStays(d)
<1> DEFINE in   == ledger[d].clearing   in2   == ledger'[d].clearing
           back == ledger[d].refunds    back2 == ledger'[d].refunds
           out  == ledger[d].creator + ledger[d].fees
           out2 == ledger'[d].creator + ledger'[d].fees
           box  == ledger[d].escrow     box2  == ledger'[d].escrow
           from == deal[d].escrow       to    == deal'[d].escrow
<1>sum. PICK sum : sum = deal[d].amount
  OBVIOUS
<1>1. /\ sum \in Nat
      /\ box = (IF from = "HELD" THEN sum ELSE 0)
      /\ in = (IF from \in {"HELD", "RELEASED", "REFUNDED"} THEN sum ELSE 0)
      /\ back = (IF from = "REFUNDED" THEN sum ELSE 0)
      /\ out = (IF from = "RELEASED" THEN sum ELSE 0)
  BY <1>sum, BoxBalances
<1>2. /\ box2 = (IF to = "HELD" THEN sum ELSE 0)
      /\ in2 = (IF to \in {"HELD", "RELEASED", "REFUNDED"} THEN sum ELSE 0)
      /\ back2 = (IF to = "REFUNDED" THEN sum ELSE 0)
      /\ out2 = (IF to = "RELEASED" THEN sum ELSE 0)
  <2>1. AddsUp(deal'[d]) /\ sum = deal'[d].amount
    BY <1>sum DEF SameTerms, AddsUp
  <2>2. Books(deal[d], ledger[d], d)' /\ Fits(d)'
    BY DEF IInv, BooksFollowPostings, StepsWell
  <2>3. deal'[d].creatorNet \in Nat /\ deal'[d].platformFee \in Nat
    BY DEF IInv, TypeOK, DealRow
  <2> QED BY <1>1, <2>1, <2>2, <2>3 DEF Books, Fits, PostingsFit, BoxFits, AddsUp
<1>3. /\ StageNow'    = [StageNow    EXCEPT ![d] = StageOf(to)]
      /\ BoxNow'      = [BoxNow      EXCEPT ![d] = box2]
      /\ PaidInNow'   = [PaidInNow   EXCEPT ![d] = in2]
      /\ PaidBackNow' = [PaidBackNow EXCEPT ![d] = back2]
      /\ PaidOutNow'  = [PaidOutNow  EXCEPT ![d] = out2]
      /\ StageNow[d] = StageOf(from) /\ BoxNow[d] = box /\ PaidInNow[d] = in
      /\ PaidBackNow[d] = back /\ PaidOutNow[d] = out
  BY OneBoxMoves
<1>4. /\ DOMAIN StageNow = Deals /\ DOMAIN BoxNow = Deals /\ DOMAIN PaidInNow = Deals
      /\ DOMAIN PaidBackNow = Deals /\ DOMAIN PaidOutNow = Deals
      /\ StageNow = [e \in Deals |-> StageNow[e]] /\ BoxNow = [e \in Deals |-> BoxNow[e]]
      /\ PaidInNow = [e \in Deals |-> PaidInNow[e]]
      /\ PaidBackNow = [e \in Deals |-> PaidBackNow[e]]
      /\ PaidOutNow = [e \in Deals |-> PaidOutNow[e]]
  BY DEF StageNow, BoxNow, PaidInNow, PaidBackNow, PaidOutNow
<1>5. /\ StageOf("PENDING") = "open" /\ StageOf("HELD") = "held"
      /\ StageOf("RELEASED") = "released" /\ StageOf("REFUNDED") = "returned"
      /\ StageOf("FAILED") = "void"
  BY DEF StageOf
<1>6. sum \in DealAmounts
  BY <1>sum
<1>7. \/ to = from
      \/ <<from, to>> \in {<<"PENDING", "HELD">>, <<"PENDING", "FAILED">>,
                           <<"HELD", "RELEASED">>, <<"HELD", "REFUNDED">>}
  BY DEF StepsWell, EscrowMoves
<1>8. CASE to = from
  <2>1. /\ ledger'[d].clearing = ledger[d].clearing /\ ledger'[d].escrow = ledger[d].escrow
        /\ ledger'[d].refunds = ledger[d].refunds
    BY <1>1, <1>2, <1>8
  <2>2. ledger'[d].creator = ledger[d].creator /\ ledger'[d].fees = ledger[d].fees
    <3>1. Books(deal[d], ledger[d], d) /\ Books(deal[d], ledger[d], d)'
      BY DEF IInv, BooksFollowPostings
    <3>2. <<"ESCROW_RELEASE", d>> \in posted' <=> <<"ESCROW_RELEASE", d>> \in posted
      BY <1>8 DEF StepsWell, Fits, PostingsFit
    <3> QED BY <3>1, <3>2 DEF Books, SameTerms
  <2>3. ledger[d] \in Balance /\ ledger'[d] \in Balance
    BY DEF IInv, TypeOK
  <2>4. ledger'[d] = ledger[d]
    BY <2>1, <2>2, <2>3 DEF Balance
  <2> QED BY <1>8, <2>4 DEF BoxStays
<1> HIDE DEF in, in2, back, back2, out, out2, box, box2, from, to
<1>9. CASE from = "PENDING" /\ to = "HELD"
  <2>0. box2 = sum /\ in2 = in + sum /\ back2 = back /\ out2 = out
    BY <1>1, <1>2, <1>9
  <2>1. /\ StageNow[d] = "open"
        /\ StageNow'  = [StageNow EXCEPT ![d] = "held"]
        /\ BoxNow'    = [BoxNow EXCEPT ![d] = sum]
        /\ PaidInNow' = [PaidInNow EXCEPT ![d] = PaidInNow[d] + sum]
        /\ PaidBackNow' = PaidBackNow /\ PaidOutNow' = PaidOutNow
    BY <1>3, <1>4, <1>5, <1>9, <2>0
  <2>2. Box!Fund(d, sum)
    BY <2>1 DEF Box!Fund, StageNow, BoxNow, PaidInNow, PaidBackNow, PaidOutNow
  <2> QED BY <1>6, <2>2 DEF Box!EscrowStep
<1>10. CASE from = "PENDING" /\ to = "FAILED"
  <2>1. /\ StageNow[d] = "open"
        /\ StageNow' = [StageNow EXCEPT ![d] = "void"]
        /\ BoxNow' = BoxNow /\ PaidBackNow' = PaidBackNow
        /\ PaidInNow' = PaidInNow /\ PaidOutNow' = PaidOutNow
    BY <1>1, <1>2, <1>3, <1>4, <1>5, <1>10
  <2>2. Box!Void(d)
    BY <2>1 DEF Box!Void, StageNow, BoxNow, PaidInNow, PaidBackNow, PaidOutNow
  <2> QED BY <2>2 DEF Box!EscrowStep
<1>11. CASE from = "HELD" /\ to = "RELEASED"
  <2>0. box2 = 0 /\ in2 = in /\ back2 = back /\ out2 = out + box
    BY <1>1, <1>2, <1>11
  <2>1. /\ StageNow[d] = "held"
        /\ StageNow'   = [StageNow EXCEPT ![d] = "released"]
        /\ BoxNow'     = [BoxNow EXCEPT ![d] = 0]
        /\ PaidOutNow' = [PaidOutNow EXCEPT ![d] = PaidOutNow[d] + BoxNow[d]]
        /\ PaidInNow' = PaidInNow /\ PaidBackNow' = PaidBackNow
    BY <1>3, <1>4, <1>5, <1>11, <2>0
  <2>2. Box!Release(d)
    BY <2>1 DEF Box!Release, StageNow, BoxNow, PaidInNow, PaidBackNow, PaidOutNow
  <2> QED BY <2>2 DEF Box!EscrowStep
<1>12. CASE from = "HELD" /\ to = "REFUNDED"
  <2>0. box2 = 0 /\ in2 = in /\ back2 = back + box /\ out2 = out
    BY <1>1, <1>2, <1>12
  <2>1. /\ StageNow[d] = "held"
        /\ StageNow'    = [StageNow EXCEPT ![d] = "returned"]
        /\ BoxNow'      = [BoxNow EXCEPT ![d] = 0]
        /\ PaidBackNow' = [PaidBackNow EXCEPT ![d] = PaidBackNow[d] + BoxNow[d]]
        /\ PaidInNow' = PaidInNow /\ PaidOutNow' = PaidOutNow
    BY <1>3, <1>4, <1>5, <1>12, <2>0
  <2>2. Box!Return(d)
    BY <2>1 DEF Box!Return, StageNow, BoxNow, PaidInNow, PaidBackNow, PaidOutNow
  <2> QED BY <2>2 DEF Box!EscrowStep
<1> QED BY <1>7, <1>8, <1>9, <1>10, <1>11, <1>12

-----------------------------------------------------------------------------
(* The slots: as long as no deal was saved over a row that was not read,     *)
(* every booking that stands has its slot.                                   *)
Standing(row) == row.kind = "BOOKING" /\ row.status \notin {"NONE", "DECLINED", "EXPIRED"}

LEMMA StandingIsFinite == IsFiniteSet(StandingBookings)
<1>1. StandingBookings \subseteq Deals
  BY DEF StandingBookings
<1> QED BY <1>1, FiniteDealsAssumption, FS_Subset

LEMMA StandingStays ==
    ASSUME SlotsFit, slotsTaken' = slotsTaken,
           \A e \in Deals : Standing(deal'[e]) <=> Standing(deal[e])
    PROVE  SlotsFit'
<1>1. StandingBookings' = StandingBookings
  BY DEF StandingBookings, Standing
<1> QED BY <1>1 DEF SlotsFit

LEMMA CommitKeepsSlots ==
    ASSUME IInv, MemoryIsPrepared, SlotsFit, NEW t \in Transactions, Commit(t), Lands(t)
    PROVE  SlotsFit'
<1>0. PICK d, use, row : d = tx[t].deal /\ use = tx[t].use /\ row = tx[t].row
  OBVIOUS
<1>1. d \in Deals /\ HasRead(t)
  BY <1>0, CommitsAreReady
<1>2. /\ deal[d].status # "NONE" /\ row.status # "NONE" /\ SameTerms(deal[d], row)
      /\ tx[t].phase = "checked" => use \in {"approve", "autoApprove"}
  BY <1>0, <1>1 DEF IInv, MemoryIsSound, InMemory, HasRead
<1>3. \A e \in Deals : e # d => deal'[e] = deal[e]
  BY <1>0, CommitTouchesItsDeal DEF Untouched
<1>4. CASE CommitPay(t) \/ CommitOpenDispute(t)
  <2>1. UNCHANGED <<deal, slotsTaken>>
    BY <1>4 DEF CommitPay, CommitOpenDispute
  <2> QED BY <2>1, StandingStays
<1>5. CASE ~ (CommitPay(t) \/ CommitOpenDispute(t))
  <2>1. /\ use \notin {"pay", "openDispute"} /\ Saves(t)
        /\ ~ CommitClose(t) => slotsTaken' = slotsTaken /\ use \notin {"decline", "expire"}
    BY <1>0, <1>2, <1>5
    DEF Commit, CommitStatus, CommitDelivery, CommitCapture, CommitClose, CommitRelease, IsReady
  <2>2. deal'[d] = row
    BY <1>0, <1>1, <2>1, SavedRow
  <2>3. Stands(t) /\ tx[t].seen = deal[d]
    BY <1>0, <2>1 DEF Lands, UsesThatSaveNothing, Stands
  <2>4. Prepared(use, deal[d], row)
    BY <1>0, <1>1, <2>3 DEF MemoryIsPrepared
  <2>5. CASE use \notin {"decline", "expire"}
    <3>1. slotsTaken' = slotsTaken
      <4>1. CASE CommitClose(t)
        BY <1>0, <2>5, <4>1, Zenon DEF CommitClose
      <4> QED BY <2>1, <4>1
    <3>2. row.status \in {"NONE", "DECLINED", "EXPIRED"} <=>
              deal[d].status \in {"NONE", "DECLINED", "EXPIRED"}
      BY <2>1, <2>4, <2>5 DEF Prepared, Leaves
    <3>3. Standing(row) <=> Standing(deal[d])
      BY <1>2, <3>2 DEF Standing, SameTerms
    <3> QED BY <1>3, <2>2, <3>1, <3>3, StandingStays
  <2>6. CASE use \in {"decline", "expire"}
    <3>1. CommitClose(t) /\ row.status \in {"DECLINED", "EXPIRED"}
          /\ deal[d].status \in {"PROPOSED", "COUNTER_OFFERED"}
      BY <2>1, <2>4, <2>6 DEF Prepared, Leaves
    <3>2. CASE deal[d].kind # "BOOKING"
      <4>1. slotsTaken' = slotsTaken
        BY <1>0, <2>3, <3>1, <3>2, Zenon DEF CommitClose
      <4>2. ~ Standing(row) /\ ~ Standing(deal[d])
        BY <1>2, <3>2 DEF Standing, SameTerms
      <4> QED BY <1>3, <2>2, <4>1, <4>2, StandingStays
    <3>3. CASE deal[d].kind = "BOOKING"
      <4>1. StandingBookings' = StandingBookings \ {d} /\ d \in StandingBookings
        BY <1>1, <1>3, <2>2, <3>1, <3>3 DEF StandingBookings
      <4>2. /\ Cardinality(StandingBookings \ {d}) = Cardinality(StandingBookings) - 1
            /\ Cardinality(StandingBookings) \in Nat
        BY <4>1, StandingIsFinite, FS_RemoveElement, FS_CardinalityType
      <4>3. Cardinality(StandingBookings) # 0
        BY <4>1, StandingIsFinite, FS_EmptySet
      <4>4. slotsTaken > 0
        BY <4>2, <4>3 DEF SlotsFit
      <4>5. slotsTaken' = slotsTaken - 1
        BY <1>0, <2>3, <2>6, <3>1, <3>3, <4>4, Zenon DEF CommitClose
      <4> QED BY <4>1, <4>2, <4>5 DEF SlotsFit
    <3> QED BY <3>2, <3>3
  <2> QED BY <2>5, <2>6
<1> QED BY <1>4, <1>5

LEMMA CreateKeepsSlots ==
    ASSUME IInv, SlotsFit, NEW d \in Deals, NEW kind, NEW price, NEW sla,
           CreateDeal(d, kind, price, sla)
    PROVE  SlotsFit'
<1> DEFINE opened == OpenedDeal(kind, price, sla)
<1>1. deal[d].status = "NONE" /\ deal' = [deal EXCEPT ![d] = opened]
  BY DEF CreateDeal
<1>2. opened.status = "PROPOSED" /\ opened.kind = kind
  BY DEF OpenedDeal
<1> HIDE DEF opened
<1>3. deal'[d] = opened /\ \A e \in Deals : e # d => deal'[e] = deal[e]
  BY <1>1 DEF IInv, TypeOK
<1>4. CASE kind # "BOOKING"
  <2>1. slotsTaken' = slotsTaken
    BY <1>4 DEF CreateDeal
  <2>2. Standing(deal'[d]) <=> Standing(deal[d])
    BY <1>1, <1>2, <1>3, <1>4 DEF Standing
  <2> QED BY <1>3, <2>1, <2>2, StandingStays
<1>5. CASE kind = "BOOKING"
  <2>1. slotsTaken' = slotsTaken + 1
    BY <1>5 DEF CreateDeal
  <2>2. StandingBookings' = StandingBookings \cup {d} /\ d \notin StandingBookings
    BY <1>1, <1>2, <1>3, <1>5 DEF StandingBookings
  <2>3. Cardinality(StandingBookings \cup {d}) = Cardinality(StandingBookings) + 1
    BY <2>2, StandingIsFinite, FS_AddElement
  <2> QED BY <2>1, <2>2, <2>3 DEF SlotsFit
<1> QED BY <1>4, <1>5

LEMMA SlotsKept ==
    ASSUME IInv, MemoryIsPrepared, SlotsFit, [Next]_vars,
           \A t \in Transactions : Commit(t) => Lands(t)
    PROVE  SlotsFit'
<1>1. CASE UNCHANGED <<deal, delivered, ledger, posted, slotsTaken>>
  BY <1>1, StandingStays
<1>2. ASSUME NEW t \in Transactions, Commit(t)
      PROVE  SlotsFit'
  BY <1>2, CommitKeepsSlots
<1>3. ASSUME NEW d \in Deals, NEW kind, NEW price, NEW sla, CreateDeal(d, kind, price, sla)
      PROVE  SlotsFit'
  BY <1>3, CreateKeepsSlots
<1>4. CASE Tick
  <2>1. slotsTaken' = slotsTaken
    BY <1>4 DEF Tick
  <2>2. ASSUME NEW e \in Deals
        PROVE  Standing(deal'[e]) <=> Standing(deal[e])
    <3>1. deal[e] \in DealRow /\ deal'[e] = TickedDeal(deal[e])
      BY <1>4 DEF IInv, TypeOK, Tick
    <3>2. SameTerms(deal[e], TickedDeal(deal[e])) /\ TickedDeal(deal[e]).status = deal[e].status
      BY <3>1, MethodsMove, MethodsKeepTerms
    <3> QED BY <3>1, <3>2 DEF Standing, SameTerms
  <2> QED BY <2>1, <2>2, StandingStays
<1> QED BY <1>1, <1>2, <1>3, <1>4, NextKinds

-----------------------------------------------------------------------------
(* The invariant of the deals that were never overwritten. *)
LEMMA DealStepsWell ==
    ASSUME IInv, OInv, OverwriteNext, NEW d \in Deals, d \notin overwritten'
    PROVE  Fits(d) /\ StepsWell(d)
<1>1. d \notin overwritten /\ Next
  BY DEF OverwriteNext, Remember
<1>2. Fits(d) /\ MemoryIsPrepared /\ UnusedIsUndelivered
  BY <1>1 DEF OInv
<1>3. CASE UNCHANGED <<deal, delivered, ledger, posted, slotsTaken>>
  <2>1. Untouched(d)
    BY <1>3 DEF Untouched
  <2> QED BY <1>2, <2>1, UntouchedSteps
<1>4. ASSUME NEW t \in Transactions, Commit(t)
      PROVE  StepsWell(d)
  <2>1. d = tx[t].deal => ~ Overwrites(t)
    BY DEF OverwriteNext, Remember
  <2>2. d = tx[t].deal => Lands(t)
    BY <1>4, <2>1 DEF Overwrites, Lands, Stands
  <2> QED BY <1>2, <1>4, <2>2, CommitFits
<1>5. ASSUME NEW c \in Deals, NEW kind, NEW price, NEW sla, CreateDeal(c, kind, price, sla)
      PROVE  StepsWell(d)
  BY <1>2, <1>5, CreateFits
<1>6. CASE Tick
  BY <1>2, <1>6, TickFits
<1>7. [Next]_vars
  BY <1>1
<1> QED BY <1>2, <1>3, <1>4, <1>5, <1>6, <1>7, NextKinds

LEMMA OverwriteKeeps ==
    ASSUME IInv, OInv, [OverwriteNext]_overwriteVars
    PROVE  OInv'
<1>1. CASE UNCHANGED overwriteVars
  BY <1>1
  DEF overwriteVars, OInv, MemoryIsPrepared, HasRead, TermsArePriced, UnusedIsUndelivered, Fits,
      PostingsFit, BoxFits, DeliveriesAreCounted, SlotsFit, StandingBookings
<1>2. CASE OverwriteNext
  <2>1. [Next]_vars
    BY <1>2 DEF OverwriteNext
  <2>2. MemoryIsPrepared' /\ TermsArePriced' /\ UnusedIsUndelivered'
    BY <2>1, NextPrepares, TermsStayPriced DEF OInv
  <2>3. \A d \in Deals : d \notin overwritten' => Fits(d)'
    BY <1>2, DealStepsWell DEF StepsWell
  <2>4. ASSUME overwritten' = {}
        PROVE  SlotsFit'
    <3>1. overwritten = {} /\ \A t \in Transactions : ~ Overwrites(t)
      BY <1>2, <2>4 DEF OverwriteNext, Remember
    <3>2. \A t \in Transactions : Commit(t) => Lands(t)
      BY <3>1 DEF Overwrites, Lands, Stands
    <3> QED BY <2>1, <3>1, <3>2, SlotsKept DEF OInv
  <2> QED BY <2>2, <2>3, <2>4 DEF OInv
<1> QED BY <1>1, <1>2

LEMMA OverwriteInitIsSound == OverwriteInit => OInv
<1> SUFFICES ASSUME OverwriteInit PROVE OInv
  OBVIOUS
<1> USE DEF OverwriteInit, Init
<1>1. MemoryIsPrepared
  BY DEF MemoryIsPrepared, HasRead, Idle
<1>2. TermsArePriced /\ UnusedIsUndelivered
  BY DEF TermsArePriced, UnusedIsUndelivered, NoDeal
<1>3. ASSUME NEW d \in Deals
      PROVE  Fits(d)
  BY DEF Fits, SidesAgree, PostingsFit, BoxFits, DeliveriesAreCounted, NoDeal, NoMoney
<1>4. SlotsFit
  <2>1. StandingBookings = {}
    BY DEF StandingBookings, NoDeal
  <2> QED BY <2>1, FS_EmptySet DEF SlotsFit
<1> QED BY <1>1, <1>2, <1>3, <1>4 DEF OInv

LEMMA OverwriteIsNext ==
    /\ OverwriteInit => Init
    /\ [OverwriteNext]_overwriteVars => [Next]_vars
BY DEF OverwriteInit, OverwriteNext, overwriteVars, vars

LEMMA OverwriteInvariant == OverwriteSpec => [](IInv /\ OInv)
<1>1. OverwriteInit => IInv /\ OInv
  BY OverwriteIsNext, OverwriteInitIsSound, InitIsSound
<1>2. IInv /\ OInv /\ [OverwriteNext]_overwriteVars => (IInv /\ OInv)'
  BY OverwriteIsNext, OverwriteKeeps, NextKeeps
<1> QED BY <1>1, <1>2, PTL DEF OverwriteSpec

(* T3, SDD 16.5: a deal that no transaction saved over a row it had not read *)
(* keeps its two sides in agreement and its escrow account in step with them *)
(* is paid out on one side only, and counts its deliveries; without any such *)
(* save no slot is lost.  However many transactions overlap.                 *)
THEOREM SoundUnlessEverOverwritten == OverwriteSpec => []SoundUnlessOverwritten
<1>1. ASSUME OInv PROVE SoundUnlessOverwritten
  <2>1. ASSUME NEW d \in Deals \ overwritten
        PROVE  /\ SidesAgree(deal[d])
               /\ ledger[d].escrow = IF deal[d].escrow = "HELD" THEN deal[d].amount ELSE 0
               /\ ~ {<<"ESCROW_RELEASE", d>>, <<"ESCROW_REFUND", d>>} \subseteq posted
               /\ DeliveriesAreCounted(d)
    <3>1. Fits(d)
      BY <1>1, <2>1 DEF OInv
    <3> QED BY <3>1 DEF Fits, BoxFits, PostingsFit
  <2>2. overwritten = {} => slotsTaken = Cardinality(StandingBookings)
    BY <1>1 DEF OInv, SlotsFit
  <2> QED BY <2>1, <2>2 DEF SoundUnlessOverwritten
<1>2. IInv /\ OInv => SoundUnlessOverwritten
  BY <1>1
<1> QED BY <1>2, OverwriteInvariant, PTL

(* What one step does to the box of a deal that stays out of `overwritten`.  *)
LEMMA BoxMoves ==
    ASSUME IInv, IInv', OInv, OverwriteNext, NEW d \in Deals, d \notin overwritten'
    PROVE  Box!EscrowStep(d) \/ BoxStays(d)
<1>1. Fits(d) /\ StepsWell(d) /\ [Next]_vars
  BY DealStepsWell DEF OverwriteNext
<1>2. CASE UNCHANGED <<deal, delivered, ledger, posted, slotsTaken>>
  BY <1>2 DEF BoxStays
<1>3. CASE Tick
  <2>1. deal[d] \in DealRow /\ deal'[d] = TickedDeal(deal[d]) /\ UNCHANGED ledger
    BY <1>3 DEF IInv, TypeOK, Tick
  <2> QED BY <2>1, MethodsMove DEF BoxStays
<1>4. ASSUME NEW c \in Deals, NEW kind, NEW price, NEW sla, CreateDeal(c, kind, price, sla)
      PROVE  BoxStays(d)
  <2>1. /\ deal[c].status = "NONE" /\ deal' = [deal EXCEPT ![c] = OpenedDeal(kind, price, sla)]
        /\ UNCHANGED ledger
    BY <1>4 DEF CreateDeal
  <2>2. deal[d] \in DealRow /\ deal'[d] = IF d = c THEN OpenedDeal(kind, price, sla) ELSE deal[d]
    BY <2>1 DEF IInv, TypeOK
  <2>3. OpenedDeal(kind, price, sla).escrow = "PENDING"
    BY DEF OpenedDeal
  <2>4. d = c => deal[d].escrow = "PENDING"
    BY <1>1, <2>1, <2>2 DEF Fits, SidesAgree, DealRow, EscrowStatus
  <2> QED BY <2>1, <2>2, <2>3, <2>4 DEF BoxStays
<1>5. ASSUME NEW t \in Transactions, Commit(t)
      PROVE  Box!EscrowStep(d) \/ BoxStays(d)
  <2>1. CASE d # tx[t].deal
    BY <1>5, <2>1, CommitTouchesItsDeal DEF Untouched, BoxStays
  <2>2. CASE d = tx[t].deal
    <3>1. \A e \in Deals : e # d => Untouched(e)
      BY <1>5, <2>2, CommitTouchesItsDeal
    <3>2. deal[d].status # "NONE"
      <4>1. HasRead(t)
        BY <1>5, CommitsAreReady
      <4> QED BY <2>2, <4>1 DEF IInv, MemoryIsSound, InMemory, HasRead
    <3>3. SameTerms(deal[d], deal'[d])
      BY <1>1, <3>2, RowsMove DEF Opens, KeepsTerms
    <3>4. AddsUp(deal[d]) /\ deal[d].amount \in DealAmounts
      BY <3>2 DEF OInv, TermsArePriced
    <3> QED BY <1>1, <3>1, <3>3, <3>4, BoxStep
  <2> QED BY <2>1, <2>2
<1> QED BY <1>1, <1>2, <1>3, <1>4, <1>5, NextKinds

(* RN-042, RN-105, RN-110: whatever overlaps, the money of a deal that was   *)
(* never overwritten enters its box once and leaves it once and whole, and a *)
(* closed deal stays closed.                                                 *)
THEOREM EscrowUnlessEverOverwritten == OverwriteSpec => EscrowUnlessOverwritten
<1> DEFINE Keeps == \A d \in Deals :
                        d \notin overwritten' =>
                            /\ Box!EscrowStep(d) \/ BoxStays(d)
                            /\ deal[d].status \in TerminalStatus => deal'[d].status = deal[d].status
<1>1. ASSUME IInv, IInv', OInv, OverwriteNext PROVE Keeps
  <2>1. ASSUME NEW d \in Deals, d \notin overwritten'
        PROVE  /\ Box!EscrowStep(d) \/ BoxStays(d)
               /\ deal[d].status \in TerminalStatus => deal'[d].status = deal[d].status
    BY <1>1, <2>1, BoxMoves, DealStepsWell DEF StepsWell, StaysClosed
  <2> QED BY <2>1
<1>2. (IInv /\ OInv) /\ (IInv /\ OInv)' /\ [OverwriteNext]_overwriteVars => [Keeps]_overwriteVars
  BY <1>1
<1> QED BY <1>2, OverwriteInvariant, PTL DEF OverwriteSpec, EscrowUnlessOverwritten

(* As long as transactions only ever save over the rows they read, the deals *)
(* are boxes: overlapping use cases implement Escrow as sequential ones do.  *)
THEOREM WithoutOverwritesDealsAreBoxes ==
    OverwriteSpec /\ [](overwritten = {}) => Box!EscrowSpec
<1>1. OverwriteInit => Box!EscrowInit
  BY DEF OverwriteInit, Init, Box!EscrowInit, NoDeal, NoMoney, StageOf
<1>2. ASSUME IInv, IInv', OInv, [OverwriteNext]_overwriteVars, overwritten' = {}
      PROVE  [Box!EscrowNext]_(Box!escrowVars)
  <2>1. CASE UNCHANGED overwriteVars
    BY <2>1 DEF overwriteVars, Box!escrowVars
  <2>2. CASE OverwriteNext /\ \E d \in Deals : Box!EscrowStep(d)
    BY <2>2 DEF Box!EscrowNext
  <2>3. CASE OverwriteNext /\ ~ \E d \in Deals : Box!EscrowStep(d)
    <3>1. \A d \in Deals : deal'[d].escrow = deal[d].escrow /\ ledger'[d] = ledger[d]
      BY <1>2, <2>3, BoxMoves DEF BoxStays
    <3> QED BY <3>1 DEF Box!escrowVars
  <2> QED BY <1>2, <2>1, <2>2, <2>3
<1>3. /\ IInv /\ OInv /\ (IInv /\ OInv)' /\ [OverwriteNext]_overwriteVars
      /\ overwritten = {} /\ (overwritten = {})'
      => [Box!EscrowNext]_(Box!escrowVars)
  BY <1>2
<1> QED BY <1>1, <1>3, OverwriteInvariant, PTL DEF OverwriteSpec, Box!EscrowSpec
==============================================================================
