------------------------------- MODULE MCDesks -------------------------------
(***************************************************************************)
(* Small instances, for TLC, of the eight modules that share no state: a   *)
(* behaviour is one of them, chosen at its beginning.  Some of what        *)
(* Payouts promises does not survive transactions that overlap, so it has  *)
(* two desks: "payouts", and "payouts alone", where one transaction is     *)
(* open at a time.                                                         *)
(***************************************************************************)
EXTENDS Payouts, Conversation, DirectMessages, Reviews, Accounts, Agenda, Catalogue,
        MediaAccess, TLC

CONSTANTS
    ana, rui, s1, s2, m1, m2, m3,     \* users, requests and ids of DirectMessages
    d1, thanks, sorry,                \* a deal and answers of Reviews
    u1, u2, n1, n2, q1, q2,           \* users, phones and requests
    o1, v1, v2, b1, b2,               \* an offer, windows and bookings of Agenda
    c1, f1,                           \* content and a file
    t1, t2, t3, p1, p2, r1, r2        \* transactions, payouts and deals of Payouts

CONSTANT Desks  \* the modules that are checked

VARIABLE desk   \* the one of this behaviour

desksVars == <<desk, vars, conversationVars, directMessagesVars, reviewsVars, accountsVars,
               agendaVars, catalogueVars, mediaVars>>

MCCreatorOf == [i \in Items |-> u1]

DesksInit ==
    /\ desk \in Desks
    /\ Init /\ ConversationInit /\ DirectMessagesInit /\ ReviewsInit /\ AccountsInit
    /\ AgendaInit /\ CatalogueInit /\ MediaInit

At(d) == desk = d /\ UNCHANGED desk

OneAtATime == Cardinality({t \in Transactions : tx'[t].phase # "idle"}) <= 1

(* A bound: where three transactions overlap, one deal is released. *)
OneRelease ==
    Cardinality({r \in Releases : \/ <<"ESCROW_RELEASE", r>> \in posted'
                                  \/ \E t \in Transactions : tx'[t].id = r}) <= 1

DesksNext ==
    \/ /\ Next
       /\ \/ At("payouts") /\ OneRelease
          \/ At("payouts alone") /\ OneAtATime
       /\ UNCHANGED <<conversationVars, directMessagesVars, reviewsVars, accountsVars,
                      agendaVars, catalogueVars, mediaVars>>
    \/ /\ At("conversation") /\ ConversationNext
       /\ UNCHANGED <<vars, directMessagesVars, reviewsVars, accountsVars, agendaVars,
                      catalogueVars, mediaVars>>
    \/ /\ At("direct messages") /\ DirectMessagesNext
       /\ UNCHANGED <<vars, conversationVars, reviewsVars, accountsVars, agendaVars, catalogueVars,
                      mediaVars>>
    \/ /\ At("reviews") /\ ReviewsNext
       /\ UNCHANGED <<vars, conversationVars, directMessagesVars, accountsVars, agendaVars,
                      catalogueVars, mediaVars>>
    \/ /\ At("accounts") /\ AccountsNext
       /\ UNCHANGED <<vars, conversationVars, directMessagesVars, reviewsVars, agendaVars,
                      catalogueVars, mediaVars>>
    \/ /\ At("agenda") /\ AgendaNext
       /\ UNCHANGED <<vars, conversationVars, directMessagesVars, reviewsVars, accountsVars,
                      catalogueVars, mediaVars>>
    \/ /\ At("catalogue") /\ CatalogueNext
       /\ UNCHANGED <<vars, conversationVars, directMessagesVars, reviewsVars, accountsVars,
                      agendaVars, mediaVars>>
    \/ /\ At("media") /\ MediaNext
       /\ UNCHANGED <<vars, conversationVars, directMessagesVars, reviewsVars, accountsVars,
                      agendaVars, catalogueVars>>

DesksSpec == DesksInit /\ [][DesksNext]_desksVars

(* The same, of Payouts alone: for what the documents say of it. *)
PayoutsSpec == /\ Init /\ ConversationInit /\ DirectMessagesInit /\ ReviewsInit /\ AccountsInit
               /\ AgendaInit /\ CatalogueInit /\ MediaInit /\ desk = "payouts"
               /\ [][Next /\ UNCHANGED <<desk, conversationVars, directMessagesVars,
                                         reviewsVars, accountsVars, agendaVars,
                                         catalogueVars, mediaVars>>]_desksVars

DesksTypeOK ==
    /\ desk \in Desks
    /\ TypeOK /\ ConversationTypeOK /\ DirectMessagesTypeOK /\ ReviewsTypeOK /\ AccountsTypeOK
    /\ AgendaTypeOK /\ CatalogueTypeOK /\ MediaTypeOK

(* Where decisions do not overlap, what is reserved is the sum of the         *)
(* withdrawals that may still happen, a reservation ends once and the wallet  *)
(* shows what the books owe (PayoutLedgerService, payout.ts                   *)
(* PAYOUT_TRANSITIONS, recomputeFromLedger).                                  *)
AloneTheBooksAgree ==
    desk = "payouts alone" =>
        ReservedIsWhatPayoutsHold /\ ReservationEndsOnce /\ WalletIsTheLedger
=============================================================================
