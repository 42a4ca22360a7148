-------------------------------- MODULE Fees --------------------------------
(***************************************************************************)
(* How the price of an offer is split between the buyer, the creator and   *)
(* the platform (splitFees in deals/domain/deal.ts) and the integer        *)
(* division it rests on (Money.allocate in shared/domain/money.ts).        *)
(*                                                                         *)
(* Amounts are minor units, integers of any size (bigint in the code, so   *)
(* there is no width to model).  All the operators are pure.               *)
(***************************************************************************)
EXTENDS Integers

FullBasisPoints == 10000

(* PLATFORM_FEE_BP, as the environment schema accepts it. *)
BasisPoints == 0 .. FullBasisPoints

(***************************************************************************)
(* amount.allocate([10000 - basisPoints, basisPoints]): every part is      *)
(* rounded down and what is left over goes to the first one.               *)
(***************************************************************************)
Allocate(amount, basisPoints) ==
    LET first    == (amount * (FullBasisPoints - basisPoints)) \div FullBasisPoints
        second   == (amount * basisPoints) \div FullBasisPoints
        leftOver == amount - first - second
    IN  [first |-> first + leftOver, second |-> second]

(***************************************************************************)
(* splitFees: both parties are charged the same percentage, the buyer on   *)
(* top of the price and the creator out of it.                             *)
(***************************************************************************)
SplitFees(price, basisPoints) ==
    LET parts == Allocate(price, basisPoints)
    IN  [amount      |-> price + parts.second,
         platformFee |-> parts.second + parts.second,
         creatorNet  |-> parts.first]

(* Mutant: the difference between prices, which forgets the buyer's fee. *)
SettlementOfPrices(amount, price, basisPoints) == price - amount

(* Deal.settlementFor: what the buyer still owes (or, if negative, is owed) *)
(* when a deal funded with `amount` is renegotiated to `price`.             *)
SettlementFor(amount, price, basisPoints) ==
    SplitFees(price, basisPoints).amount - amount
=============================================================================
