------------------------------ MODULE DealMoney ------------------------------
(***************************************************************************)
(* What the use cases of deals do to money: the entries of their postings  *)
(* and the money side of a deal that is released or closed, as pure        *)
(* operators over one balance and one row.                                 *)
(***************************************************************************)
EXTENDS DealEntity

(* Per deal, the net of the entries that transactions of that deal made on *)
(* PROVIDER_CLEARING (debit), ESCROW, REFUNDS_PAYABLE, CREATOR_AVAILABLE   *)
(* and PLATFORM_FEE_REVENUE (credit).                                      *)
Balance == [clearing : Int, escrow : Int, refunds : Int, creator : Int, fees : Int]
NoMoney == [clearing |-> 0, escrow |-> 0, refunds |-> 0, creator |-> 0, fees |-> 0]

Funded(balance, amount) ==
    [balance EXCEPT !.clearing = @ + amount, !.escrow = @ + amount]

ReturnedToBuyer(balance, amount) ==
    [balance EXCEPT !.escrow = @ - amount, !.refunds = @ + amount]

(* releaseEntries: the creator is credited the price and debited the fee. *)
CreatorFee(row) == row.price - row.creatorNet

(* Mutants: the creator's fee is not debited; the buyer's is left behind. *)
ReleasedGross(balance, row) ==
    [balance EXCEPT !.escrow  = @ - row.amount,
                    !.creator = @ + row.price,
                    !.fees    = @ + row.platformFee]
ReleasedAtPrice(balance, row) ==
    [balance EXCEPT !.escrow  = @ - row.price,
                    !.creator = @ + row.creatorNet,
                    !.fees    = @ + CreatorFee(row)]

Released(balance, row) ==
    [balance EXCEPT !.escrow  = @ - row.amount,
                    !.creator = @ + row.price - CreatorFee(row),
                    !.fees    = @ + row.platformFee]

(* A posting with an entry that is not positive, or whose entries do not     *)
(* sum to zero, throws.                                                     *)
CanRelease(row) ==
    /\ CanSettle(row)
    /\ row.amount > 0
    /\ row.price > 0
    /\ row.amount = row.price - CreatorFee(row) + row.platformFee

ClosedRowIfHeld(row) == \* mutant: an unpaid deal keeps its payment open
    IF row.escrow = "HELD" THEN EscrowReturnedDeal(row) ELSE row

(* Mutant: every deal that closes is said to be refunded. *)
ClosedRowRefunded(row) == EscrowReturnedDeal(row)

ClosedRow(row) ==
    CASE row.escrow = "PENDING" -> PaymentFailedDeal(row)
      [] row.escrow = "HELD"    -> EscrowReturnedDeal(row)
      [] OTHER                  -> row
-----------------------------------------------------------------------------
(* What properties of deals say of one row: what a deal can be worth, how its *)
(* escrow is called in Escrow, and when its two statuses agree.               *)
DealAmounts == {SplitFees(price, FeeBasisPoints).amount : price \in Prices}

StageOf(escrow) ==
    CASE escrow = "PENDING"  -> "open"
      [] escrow = "HELD"     -> "held"
      [] escrow = "RELEASED" -> "released"
      [] escrow = "REFUNDED" -> "returned"
      [] escrow = "FAILED"   -> "void"

SidesAgree(row) ==
    /\ row.status # "APPROVED"
    /\ row.escrow = "PENDING"  => row.status \in {"NONE", "PROPOSED"}
    /\ row.escrow = "HELD"     => row.status \in {"PROPOSED", "COUNTER_OFFERED", "ACCEPTED",
                                                  "IN_PROGRESS", "DELIVERED"}
    /\ row.escrow = "RELEASED" => row.status = "PAID"
    /\ row.escrow = "REFUNDED" => row.status \in {"DECLINED", "EXPIRED", "REFUNDED"}
    /\ row.escrow = "FAILED"   => row.status \in {"DECLINED", "EXPIRED"}
=============================================================================
