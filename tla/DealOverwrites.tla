--------------------------- MODULE DealOverwrites ---------------------------
(***************************************************************************)
(* What overlapping transactions do to a deal goes wrong in one way only:  *)
(* deals.save replaces a row that is no longer the one the transaction     *)
(* read (prisma-deals.repository.ts).  This module remembers the deals     *)
(* that happened to and says of all others what DealLifecycle says of      *)
(* deals whose use cases do not overlap at all, however many transactions  *)
(* had them in memory at once.                                             *)
(***************************************************************************)
EXTENDS DealTransactions

ASSUME FiniteDealsAssumption == IsFiniteSet(Deals)

VARIABLE overwritten \* deals saved over a row that was not read (a history)

overwriteVars == <<deal, delivered, dispute, intent, noticed, flagged, ledger, posted, slotsTaken,
                   tx, overwritten>>

(* The commits of these save no deal. *)
UsesThatSaveNothing == {"pay", "openDispute"}

Overwrites(t) ==
    /\ Commit(t)
    /\ tx[t].use \notin UsesThatSaveNothing
    /\ tx[t].seen # deal[tx[t].deal]

Remember ==
    overwritten' = overwritten \cup {tx[t].deal : t \in {u \in Transactions : Overwrites(u)}}

OverwriteInit == Init /\ overwritten = {}

OverwriteNext == Next /\ Remember

OverwriteSpec == OverwriteInit /\ [][OverwriteNext]_overwriteVars
-----------------------------------------------------------------------------
(* The deals as boxes of money, as in DealEscrow.  Terms do not change here. *)
Box == INSTANCE Escrow WITH
    Amounts  <- DealAmounts,
    stage    <- [d \in Deals |-> StageOf(deal[d].escrow)],
    box      <- [d \in Deals |-> ledger[d].escrow],
    paidIn   <- [d \in Deals |-> ledger[d].clearing],
    paidBack <- [d \in Deals |-> ledger[d].refunds],
    paidOut  <- [d \in Deals |-> ledger[d].creator + ledger[d].fees]

(* Work is delivered once more than it was sent back while it waits or is    *)
(* paid, and as often while it is under way.                                 *)
DeliveriesAreCounted(d) ==
    /\ deal[d].status \in {"PROPOSED", "ACCEPTED", "IN_PROGRESS"} =>
           delivered[d] = deal[d].revisionCount
    /\ deal[d].status \in {"DELIVERED", "PAID"} =>
           delivered[d] = deal[d].revisionCount + 1

StandingBookings ==
    {d \in Deals : /\ deal[d].kind = "BOOKING"
                   /\ deal[d].status \notin {"NONE", "DECLINED", "EXPIRED"}}

(* A deal that was never overwritten keeps what the documents promise under   *)
(* overlap: its two sides agree and the escrow account is worth it, so that  *)
(* declined and expired deals hold no money (T3); an approval and the        *)
(* decision of a dispute move it once between them (SDD 16.5); no more is    *)
(* delivered than the revisions allow; and while no deal was overwritten, no *)
(* slot is lost or given back twice.                                         *)
SoundUnlessOverwritten ==
    /\ \A d \in Deals \ overwritten :
          /\ SidesAgree(deal[d])
          /\ ledger[d].escrow = IF deal[d].escrow = "HELD" THEN deal[d].amount ELSE 0
          /\ ~ {<<"ESCROW_RELEASE", d>>, <<"ESCROW_REFUND", d>>} \subseteq posted
          /\ DeliveriesAreCounted(d)
    /\ overwritten = {} => slotsTaken = Cardinality(StandingBookings)

BoxStays(d) == deal'[d].escrow = deal[d].escrow /\ ledger'[d] = ledger[d]

(* Its money is put in the box once and leaves it once and whole, as Escrow   *)
(* promises, and once it is closed nothing opens it again (RN-105): every     *)
(* commit that would do otherwise overwrites it.                             *)
EscrowUnlessOverwritten ==
    [][\A d \in Deals :
          d \notin overwritten' =>
              /\ Box!EscrowStep(d) \/ BoxStays(d)
              /\ deal[d].status \in TerminalStatus => deal'[d].status = deal[d].status
      ]_overwriteVars
=============================================================================
