----------------------------- MODULE DealScreens -----------------------------
(***************************************************************************)
(* The screens of a deal in the web application (apps/web/src/app/deals),  *)
(* as functions of the deal that GET /deals/:id has just answered: which   *)
(* buttons each party is offered, which steps it is told are done, and what *)
(* each screen says of where the money is.                                 *)
(* The handlers behind the buttons are the actions of DealLifecycle.       *)
(*                                                                         *)
(* Not modelled: a screen left open while the deal moves on (every button  *)
(* may then be refused, and the screen shows the refusal), the review      *)
(* (Reviews), and the conversation (Conversation).                         *)
(***************************************************************************)
EXTENDS DealLifecycle

(* pagar/page.tsx payable. *)
MayPay(d) == deal[d].status = "PROPOSED" /\ deal[d].escrow = "PENDING"

(* entregar/page.tsx podeDecidir, podeEntregar. *)
MayDecide(d)  == deal[d].status = "PROPOSED" /\ deal[d].escrow = "HELD"
MayDeliver(d) == deal[d].status = "ACCEPTED"

(* entrega/page.tsx podeAprovar, podePedirAlteracao. *)
MayApprove(d) == deal[d].status = "DELIVERED"

(* Mutant: the button does not go away with the last revision. *)
MayAskForEver(d) == MayApprove(d)

MayAskForChange(d) == MayApprove(d) /\ deal[d].revisionCount < RevisionsIncluded

(* podePedirDevolucao: the instant is the server's, refundableFrom. *)
MayAskForRefund(d) == deal[d].status \in {"ACCEPTED", "IN_PROGRESS"} /\ deal[d].lateIn = 0

(* disputa/page.tsx disputavel. *)
MayDispute(d) ==
    dispute[d] = "none" /\ deal[d].status \in {"ACCEPTED", "IN_PROGRESS", "DELIVERED"}

(* AccoesDoPedido and the screens it leads to, and the block of the dispute. *)
(* pagar/page.tsx and entrega/page.tsx ask who is looking; entregar/page.tsx *)
(* does not, and offers its buttons to a buyer who opens it.                *)
Buttons(d, viewer) ==
    {b \in {"pay", "accept", "decline", "deliver", "approve", "ask for change",
            "ask for refund", "open dispute", "withdraw dispute"} :
        CASE b = "pay"                    -> viewer = "buyer" /\ MayPay(d)
          [] b \in {"accept", "decline"}  -> MayDecide(d)
          [] b = "deliver"                -> MayDeliver(d)
          [] b = "approve"                -> viewer = "buyer" /\ MayApprove(d)
          [] b = "ask for change"         -> viewer = "buyer" /\ MayAskForChange(d)
          [] b = "ask for refund"         -> viewer = "buyer" /\ MayAskForRefund(d)
          [] b = "open dispute"           -> MayDispute(d)
          [] b = "withdraw dispute"       -> dispute[d] = viewer}

(* requireCreator and requireBuyer, in the handlers. *)
IsAllowed(b, viewer) ==
    /\ b \in {"accept", "decline", "deliver"} => viewer = "creator"
    /\ b \in {"pay", "approve", "ask for change", "ask for refund"} => viewer = "buyer"

(* A payment that is already under way is answered with that payment. *)
PaymentIsAnswered(d) ==
    \/ ActiveOf(d) # {}
    \/ \A i \in Intents : intent[i].status # "NONE"  \* the bound on intents
    \/ \E i \in Intents : ENABLED StartDealPayment(d, i, "PENDING")

IsAnswered(b, d, viewer) ==
    /\ IsAllowed(b, viewer)
    /\ CASE b = "pay"              -> PaymentIsAnswered(d)
         [] b = "accept"           -> ENABLED AcceptDeal(d)
         [] b = "decline"          -> ENABLED DeclineDeal(d)
         [] b = "deliver"          -> ENABLED SubmitDelivery(d)
         [] b = "approve"          -> ENABLED ApproveDelivery(d)
         [] b = "ask for change"   -> ENABLED RejectDelivery(d)
         [] b = "ask for refund"   -> ENABLED RequestRefund(d)
         [] b = "open dispute"     -> ENABLED OpenDispute(d, viewer)
         [] b = "withdraw dispute" -> ENABLED WithdrawDispute(d, viewer)

(* What the screens do not look at: who opens entregar/page.tsx (the server   *)
(* answers requireCreator), a proposal whose time is over and that the sweep  *)
(* has not closed yet, a dispute under the delivery, and a deal that costs    *)
(* nothing, whose money the ledger refuses to move.                           *)
IsExcused(b, d, viewer) ==
    \/ b \in {"accept", "decline", "deliver"} /\ viewer = "buyer"
    \/ b = "accept" /\ deal[d].expiresIn = 0
    \/ b = "approve" /\ dispute[d] # "none"
    \/ deal[d].amount = 0

(* passosDoPedido: what is done, in the order of the screen. *)
DoneSteps(row) ==
    <<row.escrow \notin {"PENDING", "FAILED"},
      row.status \in {"ACCEPTED", "IN_PROGRESS", "DELIVERED", "APPROVED", "PAID"},
      row.status \in {"DELIVERED", "APPROVED", "PAID"},
      row.status \in {"APPROVED", "PAID"}>>

(* proximoPasso: what the conversation proposes to do next, if anything. *)
NextButton(row, viewer) ==
    CASE viewer = "creator" /\ row.status = "PROPOSED" /\ row.escrow = "HELD" -> {"accept"}
      [] viewer = "creator" /\ row.status = "ACCEPTED"                        -> {"deliver"}
      [] viewer = "buyer" /\ row.status = "PROPOSED" /\ row.escrow # "HELD"   -> {"pay"}
      [] viewer = "buyer" /\ row.status = "DELIVERED"                         -> {"approve"}
      [] OTHER                                                               -> {}

(* Where each screen says the money is, "nothing" when it does not say.      *)

(* ondeEstaODinheiro: beside the amount. *)
WhereTheMoneyIs(row) ==
    CASE row.escrow = "RELEASED"                -> "with the creator"
      [] row.escrow = "REFUNDED"                -> "returned"
      [] row.escrow = "HELD"                    -> "held"
      [] row.escrow \in {"PENDING", "FAILED"}   -> "not paid"

(* The note of proximoPasso, under the conversation. *)
NextStepSays(row, viewer) ==
    CASE row.status = "PROPOSED" /\ row.escrow = "HELD" -> "held"
      [] row.status = "ACCEPTED"                        -> "held"
      [] row.status = "PAID" /\ viewer = "creator"      -> "with the creator"
      [] OTHER                                          -> "nothing"

(* estado/page.tsx nota. *)
NoteSays(row) ==
    CASE row.escrow = "PENDING"                           -> "not paid"
      [] row.escrow # "PENDING" /\ row.status = "PAID"    -> "with the creator"
      [] row.escrow # "PENDING" /\ row.status # "PAID"    -> "held"

(* entrega/page.tsx, which the conversation links to once there is a delivery. *)
DeliveryPageSays(d, viewer) ==
    CASE delivery[d].version = 0              -> "nothing"
      [] delivery[d].version > 0 /\ deal[d].status = "DELIVERED" /\ viewer = "buyer" -> "held"
      [] OTHER                                -> "with the creator"

Agrees(said, row) == said \in {"nothing", WhereTheMoneyIs(row)}
-----------------------------------------------------------------------------
(* Whatever happened to a deal, a button that its screens offer is one that   *)
(* the server accepts ("oferecê-lo seria mentir", disputa/page.tsx:45; "o     *)
(* botão desaparece em vez de falhar no servidor", entrega/page.tsx:51), but  *)
(* for those that are excused, and the next step is one of the buttons.       *)
ButtonsAreAccepted ==
    \A d \in Deals : \A viewer \in Parties :
        /\ NextButton(deal[d], viewer) \subseteq Buttons(d, viewer)
        /\ \A b \in Buttons(d, viewer) : IsAnswered(b, d, viewer) \/ IsExcused(b, d, viewer)

(* No step is shown as done before the one that precedes it (passosDoPedido). *)
(* The money is in the books where it is said to be beside the amount ("ao    *)
(* lado do valor diz-se sempre onde o dinheiro está", deal-state.ts:18), and  *)
(* the note of the next step never says otherwise.  The note of estado/page   *)
(* agrees until the deal closes without being paid, and what the buyer reads  *)
(* on the page of the delivery while a delivery waits or was approved; what   *)
(* the two say in the other states is below.                                  *)
WhatIsShownIsTrue ==
    \A d \in Deals :
        LET row  == deal[d]
            said == WhereTheMoneyIs(row)
            book == ledger[d]
        IN  /\ \A n \in 2 .. 4 : DoneSteps(row)[n] => DoneSteps(row)[n - 1]
            /\ said = "not paid" => book = NoMoney
            /\ (said = "held" /\ row.amount > 0) = (book.escrow > 0)
            /\ (said = "with the creator") = (book.creator > 0)
            /\ said = "returned" => book.refunds = book.clearing
            /\ \A viewer \in Parties : Agrees(NextStepSays(row, viewer), row)
            /\ row.status \notin {"DECLINED", "EXPIRED", "REFUNDED"} =>
                  Agrees(NoteSays(row), row)
            /\ row.status \in {"DELIVERED", "APPROVED", "PAID"} =>
                  Agrees(DeliveryPageSays(d, "buyer"), row)

ScreensTellTheTruth == ButtonsAreAccepted /\ WhatIsShownIsTrue
-----------------------------------------------------------------------------
(* What is said of the screens and the code does not keep.                    *)

(* Work that was sent back is delivered again (docs/sdd.md:644 "Pré: Deal em  *)
(* ACCEPTED ou IN_PROGRESS"), so its creator is offered to.                   *)
WorkCanGoOn == \A d \in Deals : CanDeliver(deal[d]) => "deliver" \in Buttons(d, "creator")

(* The buyer who opens the state of the order knows where it stands (estado/  *)
(* page.tsx:18): its note says what is said beside the amount above it, when  *)
(* the deal is closed too.                                                    *)
NoteTellsTheTruth == \A d \in Deals : Agrees(NoteSays(deal[d]), deal[d])

(* A buyer who sends the work back is told that it goes back to the creator   *)
(* and that the money stays held ("e o teu dinheiro / continua retido",       *)
(* entrega/page.tsx:236); the same page says so afterwards.                   *)
DeliveryPageTellsTheTruth ==
    \A d \in Deals : Agrees(DeliveryPageSays(d, "buyer"), deal[d])

(* "O valor fica retido até a NaDM decidir.  Nenhuma das partes recebe        *)
(* entretanto" (disputa/page.tsx:91): while a dispute stays open, the escrow  *)
(* that it found held is not moved.                                           *)
DisputedMoneyStays ==
    [][\A d \in Deals :
          dispute[d] # "none" /\ dispute'[d] = dispute[d] =>
              ledger'[d].escrow = ledger[d].escrow]_vars
==============================================================================
