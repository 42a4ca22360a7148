------------------------------- MODULE Reviews -------------------------------
(***************************************************************************)
(* Reviews (modules/reviews): the buyer of an approved deal reviews it     *)
(* once, and its creator answers the review once.                          *)
(*                                                                         *)
(* A request is a transaction that reads what is committed, decides, and   *)
(* writes later.  reviews.deal_id is unique and the insertion skips what   *)
(* is there already, so of two reviews sent together the first stays and   *)
(* the other is compared with it.  An answer is only checked when it is    *)
(* read: the update that writes it has no condition.                       *)
(*                                                                         *)
(* A rating and its text are one Grade.  Not modelled: the public list and *)
(* the average of its ratings, which change nothing.                       *)
(***************************************************************************)
EXTENDS Naturals

CONSTANTS
    ReviewedDeals,  \* deals that may come to be reviewed
    Grades,         \* what a buyer may write: a rating and a text
    Answers,        \* what a creator may answer
    ReviewRequests  \* requests that may be handled at once (a bound)

ASSUME ReviewsAssumption == "none" \notin Grades \cup Answers

VARIABLES
    job,       \* the status of each deal, as far as it matters here
    review,    \* the row of reviews of each deal
    writing,   \* the requests under way
    thanked,   \* reviews whose buyer was told they were accepted
    overtaken  \* answers that another one was written before

reviewsVars == <<job, review, writing, thanked, overtaken>>
-----------------------------------------------------------------------------
NoReview == [grade |-> "none", reply |-> "none"]

NoWriting == [phase |-> "idle"]

ReviewsInit ==
    /\ job       = [d \in ReviewedDeals |-> "open"]
    /\ review    = [d \in ReviewedDeals |-> NoReview]
    /\ writing   = [q \in ReviewRequests |-> NoWriting]
    /\ thanked   = {}
    /\ overtaken = {}

(* The deal is approved, and its escrow released. *)
JobGoesOn(d, status) ==
    /\ <<job[d], status>> \in {<<"open", "APPROVED">>, <<"APPROVED", "PAID">>}
    /\ job' = [job EXCEPT ![d] = status]
    /\ UNCHANGED <<review, writing, thanked, overtaken>>

(* SubmitReviewUseCase finds an approved deal without a review, ... *)
SubmitReview(q, d, g) ==
    /\ writing[q] = NoWriting
    /\ job[d] \in {"APPROVED", "PAID"}
    /\ review[d].grade = "none"
    /\ writing' = [writing EXCEPT ![q] = [phase |-> "reviewing", deal |-> d, grade |-> g]]
    /\ UNCHANGED <<job, review, thanked, overtaken>>

(* ... or with the very one that is sent again, which is accepted as it is. *)
SubmitAgain(q, d, g) ==
    /\ writing[q] = NoWriting
    /\ job[d] \in {"APPROVED", "PAID"}
    /\ review[d].grade = g
    /\ thanked' = thanked \cup {<<d, g>>}
    /\ UNCHANGED <<job, review, writing, overtaken>>

(* createIfAbsent: the review that is there from now on. *)
ReviewKept(d, g) == IF review[d].grade = "none" THEN g ELSE review[d].grade

(* Mutant: the buyer is thanked without a look at the review that was kept. *)
WriteUnseen(q) ==
    /\ writing[q].phase = "reviewing"
    /\ LET d == writing[q].deal
           g == writing[q].grade
       IN  /\ review' = [review EXCEPT ![d].grade = ReviewKept(d, g)]
           /\ thanked' = thanked \cup {<<d, g>>}
    /\ writing' = [writing EXCEPT ![q] = NoWriting]
    /\ UNCHANGED <<job, overtaken>>

(* The review is accepted if it is the one that was kept. *)
WriteReview(q) ==
    /\ writing[q].phase = "reviewing"
    /\ LET d == writing[q].deal
           g == writing[q].grade
       IN  /\ review' = [review EXCEPT ![d].grade = ReviewKept(d, g)]
           /\ thanked' = IF ReviewKept(d, g) = g THEN thanked \cup {<<d, g>>} ELSE thanked
    /\ writing' = [writing EXCEPT ![q] = NoWriting]
    /\ UNCHANGED <<job, overtaken>>

(* ReplyToReviewUseCase: the creator of the deal has not answered yet, ... *)
ReadForReply(q, d, a) ==
    /\ writing[q] = NoWriting
    /\ review[d].grade # "none" /\ review[d].reply = "none"
    /\ writing' = [writing EXCEPT ![q] = [phase |-> "answering", deal |-> d, answer |-> a]]
    /\ UNCHANGED <<job, review, thanked, overtaken>>

AnsweringAt(d) ==
    {q \in ReviewRequests : writing[q].phase = "answering" /\ writing[q].deal = d}

(* ... and saveReply writes whatever has been written meanwhile. *)
SaveReply(q) ==
    /\ writing[q].phase = "answering"
    /\ LET d == writing[q].deal
       IN  /\ review' = [review EXCEPT ![d].reply = writing[q].answer]
           /\ overtaken' = (overtaken \cup AnsweringAt(d)) \ {q}
    /\ writing' = [writing EXCEPT ![q] = NoWriting]
    /\ UNCHANGED <<job, thanked>>

(* The transaction fails, or its process dies. *)
DropReview(q) ==
    /\ writing[q] # NoWriting
    /\ writing' = [writing EXCEPT ![q] = NoWriting]
    /\ overtaken' = overtaken \ {q}
    /\ UNCHANGED <<job, review, thanked>>

ReviewsNext ==
    \/ \E d \in ReviewedDeals, s \in {"APPROVED", "PAID"} : JobGoesOn(d, s)
    \/ \E q \in ReviewRequests, d \in ReviewedDeals, g \in Grades :
           SubmitReview(q, d, g) \/ SubmitAgain(q, d, g)
    \/ \E q \in ReviewRequests, d \in ReviewedDeals, a \in Answers : ReadForReply(q, d, a)
    \/ \E q \in ReviewRequests : WriteReview(q) \/ SaveReply(q) \/ DropReview(q)

ReviewsSpec == ReviewsInit /\ [][ReviewsNext]_reviewsVars
-----------------------------------------------------------------------------
Writings ==
    [phase : {"reviewing"}, deal : ReviewedDeals, grade : Grades]
        \cup [phase : {"answering"}, deal : ReviewedDeals, answer : Answers]

ReviewsTypeOK ==
    /\ job \in [ReviewedDeals -> {"open", "APPROVED", "PAID"}]
    /\ review \in [ReviewedDeals -> [grade : Grades \cup {"none"}, reply : Answers \cup {"none"}]]
    /\ writing \in [ReviewRequests -> Writings \cup {NoWriting}]
    /\ thanked \subseteq ReviewedDeals \X Grades
    /\ overtaken \subseteq ReviewRequests

(* What is published stays.  A buyer who was told the review is accepted finds *)
(* that very one, though another tab sent a different one (reviews.use-case.ts *)
(* :35 "Este pedido já tem uma avaliação").  The creator answers once and      *)
(* never rewrites history (:61 "Uma vez, e não apaga"), except with an answer  *)
(* under way when the first was written: then the later one replaces it.       *)
WhatIsPublishedStays ==
    /\ [](\A pair \in thanked : review[pair[1]].grade = pair[2])
    /\ [][\A d \in ReviewedDeals :
             review[d].reply # "none" /\ review'[d].reply # review[d].reply
             => \E q \in overtaken : q \in AnsweringAt(d)]_reviewsVars
=============================================================================
