---------------------------- MODULE Conversation ----------------------------
(***************************************************************************)
(* The conversation of a deal (modules/deals: SendMessage and the two use  *)
(* cases of the administration).  Its two parties write while the deal is  *)
(* open and for some days after; an administrator reads and writes only    *)
(* where a dispute is open, and leaves a row in the audit log.             *)
(*                                                                         *)
(* A request is a transaction that reads what is committed, decides, and   *)
(* writes later.  The client's id of a message is unique in its deal.      *)
(* Both kinds of message save the whole deal, as it was read: a closing    *)
(* that commits between the two is undone.                                 *)
(*                                                                         *)
(* Not modelled: the text, the messages a change of state writes (they are *)
(* part of the use cases of DealLifecycle) and the lists, which are of the *)
(* first hundred messages and change nothing.                              *)
(***************************************************************************)
EXTENDS Naturals

CONSTANTS
    TalkDeals,     \* deals with a conversation
    TalkIds,       \* ids of rows of messages (a bound: how many are written)
    TalkClientIds, \* ids the clients give to what they send
    TalkRequests,  \* requests that may be handled at once (a bound)
    GraceDays,     \* CONVERSATION_GRACE_DAYS
    MaxDay,        \* the last day (a bound)
    MaxReads       \* how often the administration reads (a bound)

ASSUME ConversationAssumption ==
    /\ GraceDays \in Nat \ {0} /\ MaxDay \in Nat /\ MaxReads \in Nat
    /\ "none" \notin TalkDeals \cup TalkClientIds

VARIABLES
    talk,        \* the row of each deal, as far as it matters here
    disputed,    \* deals with an open dispute
    talkMessage, \* the messages table
    told,        \* outbox rows "message.created": a message and whom it is for
    signed,      \* audit rows "admin.conversation_message"
    audits,      \* per deal, the audit rows "admin.conversation_read"
    reads,       \* per deal, how often the administration was answered with it
    talkRequest, \* the requests under way
    today

conversationVars ==
    <<talk, disputed, talkMessage, told, signed, audits, reads, talkRequest, today>>
-----------------------------------------------------------------------------
Talkers == {"buyer", "creator"}
TalkRow == [status : {"open", "closed"}, closedOn : 0 .. MaxDay]

(* TEXT has a sender; SYSTEM is the platform's, and has none. *)
MessageOf == [deal : TalkDeals, sender : Talkers \cup {"none"},
              client : TalkClientIds \cup {"none"}, day : 0 .. MaxDay]

NoMessage == [deal |-> "none", sender |-> "none", client |-> "none", day |-> 0]
NoTalk    == [phase |-> "idle"]

Of(d) == {m \in TalkIds : talkMessage[m].deal = d}

ConversationInit ==
    /\ talk        = [d \in TalkDeals |-> [status |-> "open", closedOn |-> 0]]
    /\ disputed    = {}
    /\ talkMessage = [m \in TalkIds |-> NoMessage]
    /\ told        = {}
    /\ signed      = {}
    /\ audits      = [d \in TalkDeals |-> 0]
    /\ reads       = [d \in TalkDeals |-> 0]
    /\ talkRequest = [q \in TalkRequests |-> NoTalk]
    /\ today       = 0
-----------------------------------------------------------------------------
(* What the rest of the deal does meanwhile (DealLifecycle): disputes open and *)
(* end, and the deal closes, with the dispute or, by a late refund, without it. *)
Dispute(d) ==
    /\ talk[d].status = "open" \/ d \in disputed
    /\ disputed' = IF d \in disputed THEN disputed \ {d} ELSE disputed \cup {d}
    /\ UNCHANGED <<talk, talkMessage, told, signed, audits, reads, talkRequest, today>>

Close(d) ==
    /\ talk[d].status = "open"
    /\ talk' = [talk EXCEPT ![d] = [status |-> "closed", closedOn |-> today]]
    /\ disputed' \in {disputed, disputed \ {d}}
    /\ UNCHANGED <<talkMessage, told, signed, audits, reads, talkRequest, today>>

(* A request takes less than a day. *)
TalkDayPasses ==
    /\ today < MaxDay
    /\ \A q \in TalkRequests : talkRequest[q] = NoTalk
    /\ today' = today + 1
    /\ UNCHANGED <<talk, disputed, talkMessage, told, signed, audits, reads, talkRequest>>

(* A request has read the deal. *)
Handling(q, phase, d, sender, client) ==
    /\ talkRequest[q] = NoTalk
    /\ talkRequest' = [talkRequest EXCEPT ![q] =
          [phase |-> phase, deal |-> d, sender |-> sender, client |-> client,
           row |-> talk[d]]]
    /\ UNCHANGED <<talk, disputed, talkMessage, told, signed, audits, reads, today>>

(* Deal.acceptsMessagesAt. *)
AcceptsMessages(d) ==
    talk[d].status = "open" \/ today < talk[d].closedOn + GraceDays

(* What was sent before, under the same id, is answered with what is there. *)
IsSentAlready(d, client) == \E m \in Of(d) : talkMessage[m].client = client

(* SendMessageUseCase: one of the parties sends something new. *)
AskToSend(q, d, sender, client) ==
    /\ AcceptsMessages(d)
    /\ ~IsSentAlready(d, client)
    /\ Handling(q, "sending", d, sender, client)

(* What both kinds of message write: a row with an id of its own, and the     *)
(* whole deal as the request read it.                                        *)
InsertMessage(q, m) ==
    LET r == talkRequest[q]
    IN  /\ talkMessage[m] = NoMessage
        /\ talkMessage' = [talkMessage EXCEPT ![m] =
              [deal |-> r.deal, sender |-> r.sender, client |-> r.client, day |-> today]]
        /\ talk' = [talk EXCEPT ![r.deal] = r.row]
        /\ talkRequest' = [talkRequest EXCEPT ![q] = NoTalk]

(* Mutant: the client's id is not unique. *)
WriteAnyway(q, m) ==
    /\ talkRequest[q].phase = "sending"
    /\ InsertMessage(q, m)
    /\ told' = told \cup ({m} \X (Talkers \ {talkRequest[q].sender}))
    /\ UNCHANGED <<disputed, signed, audits, reads, today>>

(* The message, and the event that tells the other party; a second insertion *)
(* of a client's id throws.                                                   *)
WriteMessage(q, m) ==
    /\ talkRequest[q].phase = "sending"
    /\ ~IsSentAlready(talkRequest[q].deal, talkRequest[q].client)
    /\ InsertMessage(q, m)
    /\ told' = told \cup ({m} \X (Talkers \ {talkRequest[q].sender}))
    /\ UNCHANGED <<disputed, signed, audits, reads, today>>

(* AdminPostMessageUseCase and AdminReadConversationUseCase find a dispute.   *)
AdminAsks(q, d, phase) ==
    /\ d \in disputed
    /\ phase \in {"posting", "reading"}
    /\ phase = "reading" => reads[d] < MaxReads
    /\ Handling(q, phase, d, "none", "none")

AdminWrites(q, m) ==
    /\ talkRequest[q].phase = "posting"
    /\ InsertMessage(q, m)
    /\ signed' = signed \cup {m}
    /\ UNCHANGED <<disputed, told, audits, reads, today>>

(* The audit row commits with the answer: without it nobody reads anything. *)
ShowConversation(q) ==
    LET d == talkRequest[q].deal
    IN  /\ talkRequest[q].phase = "reading"
        /\ reads[d] < MaxReads
        /\ audits' = [audits EXCEPT ![d] = @ + 1]
        /\ reads' = [reads EXCEPT ![d] = @ + 1]
        /\ talkRequest' = [talkRequest EXCEPT ![q] = NoTalk]
        /\ UNCHANGED <<talk, disputed, talkMessage, told, signed, today>>

(* The transaction fails, or its process dies. *)
DropTalk(q) ==
    /\ talkRequest[q] # NoTalk
    /\ talkRequest' = [talkRequest EXCEPT ![q] = NoTalk]
    /\ UNCHANGED <<talk, disputed, talkMessage, told, signed, audits, reads, today>>

ConversationNext ==
    \/ TalkDayPasses
    \/ \E d \in TalkDeals : Dispute(d) \/ Close(d)
    \/ \E q \in TalkRequests, d \in TalkDeals, u \in Talkers, c \in TalkClientIds :
           AskToSend(q, d, u, c)
    \/ \E q \in TalkRequests, d \in TalkDeals, p \in {"posting", "reading"} :
           AdminAsks(q, d, p)
    \/ \E q \in TalkRequests, m \in TalkIds : WriteMessage(q, m) \/ AdminWrites(q, m)
    \/ \E q \in TalkRequests : ShowConversation(q) \/ DropTalk(q)

ConversationSpec == ConversationInit /\ [][ConversationNext]_conversationVars
-----------------------------------------------------------------------------
Handlings == [phase : {"sending", "posting", "reading"}, deal : TalkDeals,
              sender : Talkers \cup {"none"}, client : TalkClientIds \cup {"none"},
              row : TalkRow]

ConversationTypeOK ==
    /\ talk \in [TalkDeals -> TalkRow]
    /\ disputed \subseteq TalkDeals
    /\ talkMessage \in [TalkIds -> MessageOf \cup {NoMessage}]
    /\ told \subseteq TalkIds \X Talkers
    /\ signed \subseteq TalkIds
    /\ audits \in [TalkDeals -> 0 .. MaxReads] /\ reads \in [TalkDeals -> 0 .. MaxReads]
    /\ talkRequest \in [TalkRequests -> Handlings \cup {NoTalk}]
    /\ today \in 0 .. MaxDay

(* Nothing happens in a conversation that its records do not show, however    *)
(* requests overlap, fail and are sent again: a message sent twice is there   *)
(* once and announced once, to the other party (send-message.use-case.ts:17   *)
(* "para o duplo envio em rede fraca"); what the administration writes is     *)
(* signed in the audit log, and it reads nothing "sem deixar rasto"           *)
(* (admin-conversation.use-case.ts:66); and the deal never shows a message of *)
(* a day when the conversation it closed was over (deal.ts                    *)
(* assertAcceptsMessagesAt), although saves overwrite one another.            *)
ConversationIsOnRecord ==
    /\ \A d \in TalkDeals :
          /\ reads[d] <= audits[d]
          /\ \A m, n \in Of(d) :
                talkMessage[m].client = talkMessage[n].client
                    => m = n \/ talkMessage[m].client = "none"
          /\ \A m \in Of(d) :
                talk[d].status = "closed" /\ talkMessage[m].sender # "none"
                    => talkMessage[m].day < talk[d].closedOn + GraceDays
    /\ \A m \in TalkIds :
          LET written == talkMessage[m] # NoMessage
          IN  /\ {u \in Talkers : <<m, u>> \in told} =
                    IF written /\ talkMessage[m].sender # "none"
                    THEN Talkers \ {talkMessage[m].sender} ELSE {}
              /\ m \in signed <=> written /\ talkMessage[m].sender = "none"
=============================================================================
