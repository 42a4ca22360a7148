---------------------------- MODULE DirectMessages ----------------------------
(***************************************************************************)
(* Direct messages (modules/direct-messages): a buyer may write to a       *)
(* creator for nothing once a week, and the creator may always answer.     *)
(*                                                                         *)
(* A request reads the clock, and only then opens a transaction that locks *)
(* the conversation (pg_advisory_xact_lock) until it ends; the limit is    *)
(* checked against the messages committed by then.  Nobody waits for the   *)
(* first of the two locks of start without going on to the second, so the  *)
(* lock of the conversation stands for both.                               *)
(*                                                                         *)
(* Time is counted in days; a message is its sender, the id its client     *)
(* gave it and when it was sent.                                           *)
(***************************************************************************)
EXTENDS Naturals, Sequences, SequencesExt

CONSTANTS
    People,     \* users
    Authors,    \* the users who have a creator's profile
    Sends,      \* requests that may be handled at once (a bound)
    ClientIds,  \* ids that clients give to messages (a bound: how many are sent)
    Page,       \* messages of a conversation that are fetched: 200 in the code
    Days        \* days on which something happens (a bound)

ASSUME DirectMessagesAssumption ==
    /\ Authors \subseteq People
    /\ "none" \notin People \cup ClientIds
    /\ Page \in Nat
    /\ Days \subseteq Nat /\ 0 \in Days

VARIABLES
    day,     \* the day it is
    open,    \* creators whose profile is published
    thread,  \* direct_conversations that exist
    message, \* direct_messages of each, in the order they were committed
    sending  \* the requests under way

directMessagesVars == <<day, open, thread, message, sending>>
-----------------------------------------------------------------------------
(* FREE_INTERVAL_MS, in days. *)
FreeInterval == 7

(* A conversation is known by its two parties; nobody writes to themselves. *)
Conversations == {c \in People \X Authors : c[1] # c[2]}

Buyer(c) == c[1]
Author(c) == c[2]

MessageRow == [sender : People, client : ClientIds, at : Days]

SentBy(u, messages) == {n \in DOMAIN messages : messages[n].sender = u}

(* The free message is due again: a week after the latest one, if any. *)
FreeSince(u, messages, now) ==
    \A n \in SentBy(u, messages) : messages[n].at + FreeInterval <= now

(* messageInclude: only the first messages of a conversation, oldest first. *)
Fetched(c) == SubSeq(message[c], 1, IF Len(message[c]) < Page THEN Len(message[c]) ELSE Page)

(* present: canSendFree, for the buyer, from the messages that were fetched. *)
CanSendFree(c) == FreeSince(Buyer(c), Fetched(c), day)
-----------------------------------------------------------------------------
NotSending == [phase |-> "idle", thread |-> <<>>, sender |-> "none", client |-> "none", now |-> 0]

Sending ==
    {s \in [phase : {"waiting", "locked", "checked"}, thread : Conversations, sender : People,
            client : ClientIds, now : Days] :
         s.sender \in {Buyer(s.thread), Author(s.thread)}}

DirectMessagesInit ==
    /\ day = 0
    /\ open \in SUBSET Authors
    /\ thread = {}
    /\ message = [c \in Conversations |-> <<>>]
    /\ sending = [q \in Sends |-> NotSending]

DayPasses(later) ==
    /\ later > day
    /\ day' = later
    /\ UNCHANGED <<open, thread, message, sending>>

Publish(a) ==
    /\ a \notin open
    /\ open' = open \cup {a}
    /\ UNCHANGED <<day, thread, message, sending>>

Accept(q, c, u, id) ==
    /\ sending[q].phase = "idle"
    /\ sending' = [sending EXCEPT ![q] = [phase |-> "waiting", thread |-> c, sender |-> u,
                                          client |-> id, now |-> day]]

(* start: a user writes on the page of a published creator. *)
Start(q, c, id) ==
    /\ Author(c) \in open
    /\ Accept(q, c, Buyer(c), id)
    /\ UNCHANGED <<day, open, thread, message>>

(* reply: one of the two parties writes in a conversation there is. *)
Reply(q, c, u, id) ==
    /\ c \in thread
    /\ u \in {Buyer(c), Author(c)}
    /\ Accept(q, c, u, id)
    /\ UNCHANGED <<day, open, thread, message>>

(* Mutant: nobody waits for the lock. *)
LockNothing(q) ==
    /\ sending[q].phase = "waiting"
    /\ sending' = [sending EXCEPT ![q].phase = "locked"]
    /\ UNCHANGED <<day, open, thread, message>>

Holds(q, c) == sending[q].phase \in {"locked", "checked"} /\ sending[q].thread = c

(* createMessage waits for the lock of the conversation. *)
Lock(q) ==
    /\ sending[q].phase = "waiting"
    /\ \A p \in Sends \ {q} : ~ Holds(p, sending[q].thread)
    /\ sending' = [sending EXCEPT ![q].phase = "locked"]
    /\ UNCHANGED <<day, open, thread, message>>

(* The client has sent this message before, and is told of the conversation. *)
Existing(q) ==
    \E n \in DOMAIN message[sending[q].thread] :
        message[sending[q].thread][n].client = sending[q].client

(* The creator writes as they please, the buyer a week after their latest. *)
InTime(q) ==
    \/ sending[q].sender = Author(sending[q].thread)
    \/ FreeSince(sending[q].sender, message[sending[q].thread], sending[q].now)

Check(q) ==
    /\ sending[q].phase = "locked"
    /\ ~ Existing(q) /\ InTime(q)
    /\ sending' = [sending EXCEPT ![q].phase = "checked"]
    /\ UNCHANGED <<day, open, thread, message>>

(* A message the client had sent already, or that came too early, is dropped, *)
(* and with it the conversation that start would have opened.                 *)
Refuse(q) ==
    /\ sending[q].phase = "locked"
    /\ Existing(q) \/ ~ InTime(q)
    /\ sending' = [sending EXCEPT ![q] = NotSending]
    /\ UNCHANGED <<day, open, thread, message>>

(* The message and its conversation are committed, and the lock is let go. *)
CommitMessage(q) ==
    /\ sending[q].phase = "checked"
    /\ thread' = thread \cup {sending[q].thread}
    /\ message' = [message EXCEPT ![sending[q].thread] =
                       Append(@, [sender |-> sending[q].sender, client |-> sending[q].client,
                                  at |-> sending[q].now])]
    /\ sending' = [sending EXCEPT ![q] = NotSending]
    /\ UNCHANGED <<day, open>>

(* The transaction fails, or its process dies; the client may send again. *)
Abandon(q) ==
    /\ sending[q].phase # "idle"
    /\ sending' = [sending EXCEPT ![q] = NotSending]
    /\ UNCHANGED <<day, open, thread, message>>

Handle(q) == Lock(q) \/ Check(q) \/ Refuse(q) \/ CommitMessage(q) \/ Abandon(q)

DirectMessagesNext ==
    \/ \E later \in Days : DayPasses(later)
    \/ \E a \in Authors : Publish(a)
    \/ \E q \in Sends, c \in Conversations, id \in ClientIds : Start(q, c, id)
    \/ \E q \in Sends, c \in Conversations, u \in People, id \in ClientIds : Reply(q, c, u, id)
    \/ \E q \in Sends : Handle(q)

DirectMessagesSpec == DirectMessagesInit /\ [][DirectMessagesNext]_directMessagesVars
-----------------------------------------------------------------------------
DirectMessagesTypeOK ==
    /\ day \in Days
    /\ open \subseteq Authors
    /\ thread \subseteq Conversations
    /\ message \in [Conversations -> Seq(MessageRow)]
    /\ sending \in [Sends -> Sending \cup {NotSending}]

(* However many requests of a buyer run together or are repeated, two of their *)
(* free messages are a week apart (direct-messages.service.ts:122: "Já         *)
(* enviaste a mensagem grátis desta semana").                                  *)
FreeMessagesAreAWeekApart ==
    \A c \in Conversations :
        \A m, n \in SentBy(Buyer(c), message[c]) :
            m # n => \/ message[c][m].at + FreeInterval <= message[c][n].at
                     \/ message[c][n].at + FreeInterval <= message[c][m].at

(* A message that a client sends again, not knowing what became of it, is      *)
(* there once (direct-messages.e2e-spec.ts:44).                                *)
EachMessageOnce ==
    \A c \in Conversations :
        \A m, n \in DOMAIN message[c] : message[c][m].client = message[c][n].client => m = n

(* Who has just written is told so, and may not again for a week               *)
(* (direct-messages.e2e-spec.ts:39 expects canSendFree false).  What tells is  *)
(* the first Page messages, among which the latest are not.                    *)
WrittenIsNotFree ==
    \A c \in Conversations :
        \A n \in SentBy(Buyer(c), message[c]) :
            day < message[c][n].at + FreeInterval => ~ CanSendFree(c)
=============================================================================
