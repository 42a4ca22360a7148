------------------------------ MODULE DesksProofs ------------------------------
(***************************************************************************)
(* What the desks promise, for any number of users, rows and requests: the *)
(* modules that share no state and that MCDesks checks side by side.  One  *)
(* part per module, each with the inductive invariant of its own; the last *)
(* part puts the types together again.                                     *)
(***************************************************************************)
EXTENDS MCDesks, PayoutsProofs, FiniteSetTheorems

-----------------------------------------------------------------------------
(* Direct messages.  What carries the weekly limit is the lock: a request that *)
(* has checked the limit is the only one that holds its conversation, so no    *)
(* message is committed between its check and its own commit.                  *)
HasLock(q) == sending[q].phase \in {"locked", "checked"}

LockIsExclusive ==
    \A p, q \in Sends : HasLock(p) /\ HasLock(q) /\ p # q => sending[p].thread # sending[q].thread

CheckedHolds == \A q \in Sends : sending[q].phase = "checked" => ~ Existing(q) /\ InTime(q)

LettersInv ==
    /\ DirectMessagesTypeOK
    /\ LockIsExclusive
    /\ CheckedHolds
    /\ FreeMessagesAreAWeekApart
    /\ EachMessageOnce

LEMMA InitLettersInv == DirectMessagesInit => LettersInv
<1> SUFFICES ASSUME DirectMessagesInit PROVE LettersInv
    OBVIOUS
<1>1. DirectMessagesTypeOK
    BY DirectMessagesAssumption DEF DirectMessagesInit, DirectMessagesTypeOK
<1>2. \A q \in Sends : sending[q].phase = "idle"
    BY DEF DirectMessagesInit, NotSending
<1>3. \A c \in Conversations : message[c] = <<>>
    BY DEF DirectMessagesInit
<1>4. LockIsExclusive /\ CheckedHolds
    BY <1>2 DEF LockIsExclusive, CheckedHolds, HasLock
<1>5. FreeMessagesAreAWeekApart /\ EachMessageOnce
    BY <1>3 DEF FreeMessagesAreAWeekApart, EachMessageOnce, SentBy
<1>6. QED
    BY <1>1, <1>4, <1>5 DEF LettersInv

(* A request that is under way is about a conversation and its parties. *)
LEMMA MessageUnderWay ==
    ASSUME DirectMessagesTypeOK, NEW q \in Sends, sending[q].phase # "idle"
    PROVE  /\ sending[q] \in Sending
           /\ sending[q].thread \in Conversations
           /\ sending[q].sender \in People
           /\ sending[q].sender \in {Buyer(sending[q].thread), Author(sending[q].thread)}
           /\ sending[q].client \in ClientIds
           /\ sending[q].now \in Days
<1>1. sending[q] \in Sending
    BY DEF DirectMessagesTypeOK, NotSending
<1>2. QED
    BY <1>1 DEF Sending

(* A step that leaves the messages alone keeps what is said of them. *)
LEMMA MessagesKept ==
    ASSUME LettersInv, UNCHANGED message
    PROVE  FreeMessagesAreAWeekApart' /\ EachMessageOnce'
    BY DEF LettersInv, FreeMessagesAreAWeekApart, EachMessageOnce, SentBy

(* A step that gives a request no lock and moves no message keeps the locks. *)
LEMMA LocksKept ==
    ASSUME LettersInv, UNCHANGED message,
           \A q \in Sends : HasLock(q)' => sending'[q] = sending[q]
    PROVE  LockIsExclusive' /\ CheckedHolds'
<1>1. \A q \in Sends : HasLock(q)' => HasLock(q) /\ sending'[q] = sending[q]
    BY DEF HasLock
<1>2. LockIsExclusive'
    BY <1>1 DEF LettersInv, LockIsExclusive, HasLock
<1>3. CheckedHolds'
    <2> SUFFICES ASSUME NEW q \in Sends, sending'[q].phase = "checked"
                 PROVE  (~ Existing(q) /\ InTime(q))'
        BY DEF CheckedHolds
    <2>1. sending'[q] = sending[q]
        BY DEF HasLock
    <2>2. ~ Existing(q) /\ InTime(q)
        BY <2>1 DEF LettersInv, CheckedHolds
    <2>3. QED
        BY <2>1, <2>2 DEF Existing, InTime
<1>4. QED
    BY <1>2, <1>3

LEMMA ClockAndProfileStep ==
    ASSUME LettersInv, (\E later \in Days : DayPasses(later)) \/ (\E a \in Authors : Publish(a))
    PROVE  LettersInv'
<1>1. UNCHANGED <<thread, message, sending>>
    BY DEF DayPasses, Publish
<1>2. day' \in Days /\ open' \subseteq Authors
    BY DEF DayPasses, Publish, LettersInv, DirectMessagesTypeOK
<1>3. DirectMessagesTypeOK'
    BY <1>1, <1>2 DEF LettersInv, DirectMessagesTypeOK
<1>4. QED
    BY <1>1, <1>3, MessagesKept, LocksKept DEF LettersInv

LEMMA AcceptMessageStep ==
    ASSUME LettersInv, NEW q \in Sends, NEW c \in Conversations, NEW u \in People,
           NEW id \in ClientIds, u \in {Buyer(c), Author(c)}, Accept(q, c, u, id),
           UNCHANGED <<day, open, thread, message>>
    PROVE  LettersInv'
<1> DEFINE new == [phase |-> "waiting", thread |-> c, sender |-> u, client |-> id, now |-> day]
<1>1. sending' = [sending EXCEPT ![q] = new]
    BY DEF Accept
<1>2. new \in Sending /\ new.phase = "waiting"
    BY DEF Sending, LettersInv, DirectMessagesTypeOK
<1> HIDE DEF new
<1>3. DirectMessagesTypeOK'
    BY <1>1, <1>2 DEF LettersInv, DirectMessagesTypeOK
<1>4. \A p \in Sends : HasLock(p)' => sending'[p] = sending[p]
    BY <1>1, <1>2 DEF HasLock, LettersInv, DirectMessagesTypeOK
<1>5. QED
    BY <1>3, <1>4, MessagesKept, LocksKept DEF LettersInv

LEMMA LockMessageStep ==
    ASSUME LettersInv, NEW q \in Sends, Lock(q)
    PROVE  LettersInv'
<1> DEFINE new == [sending[q] EXCEPT !.phase = "locked"]
<1>1. sending' = [sending EXCEPT ![q] = new] /\ UNCHANGED <<day, open, thread, message>>
    BY DEF Lock
<1>2. sending[q] \in Sending
    BY MessageUnderWay DEF Lock, LettersInv
<1>3. new \in Sending /\ new.phase = "locked" /\ new.thread = sending[q].thread
    BY <1>2 DEF Sending
<1> HIDE DEF new
<1>4. DirectMessagesTypeOK'
    BY <1>1, <1>3 DEF LettersInv, DirectMessagesTypeOK
<1>5. \A p \in Sends \ {q} : HasLock(p) => sending[p].thread # sending[q].thread
    BY DEF Lock, Holds, HasLock
<1>6. \A p \in Sends \ {q} : sending'[p] = sending[p]
    BY <1>1 DEF LettersInv, DirectMessagesTypeOK
<1>7. sending'[q] = new
    BY <1>1 DEF LettersInv, DirectMessagesTypeOK
<1>8. LockIsExclusive'
    BY <1>3, <1>5, <1>6, <1>7 DEF LettersInv, LockIsExclusive, HasLock
<1>9. CheckedHolds'
    <2> SUFFICES ASSUME NEW p \in Sends, sending'[p].phase = "checked"
                 PROVE  (~ Existing(p) /\ InTime(p))'
        BY DEF CheckedHolds
    <2>1. p # q
        BY <1>3, <1>7
    <2>2. sending'[p] = sending[p] /\ ~ Existing(p) /\ InTime(p)
        BY <1>6, <2>1 DEF LettersInv, CheckedHolds
    <2>3. QED
        BY <1>1, <2>2 DEF Existing, InTime
<1>10. QED
    BY <1>1, <1>4, <1>8, <1>9, MessagesKept DEF LettersInv

LEMMA CheckMessageStep ==
    ASSUME LettersInv, NEW q \in Sends, Check(q)
    PROVE  LettersInv'
<1> DEFINE new == [sending[q] EXCEPT !.phase = "checked"]
<1>1. sending' = [sending EXCEPT ![q] = new] /\ UNCHANGED <<day, open, thread, message>>
    BY DEF Check
<1>2. sending[q] \in Sending /\ sending[q].phase = "locked"
    BY MessageUnderWay DEF Check, LettersInv
<1>3. /\ new \in Sending /\ new.phase = "checked" /\ new.thread = sending[q].thread
      /\ new.sender = sending[q].sender /\ new.client = sending[q].client
      /\ new.now = sending[q].now
    BY <1>2 DEF Sending
<1> HIDE DEF new
<1>4. DirectMessagesTypeOK'
    BY <1>1, <1>3 DEF LettersInv, DirectMessagesTypeOK
<1>6. \A p \in Sends \ {q} : sending'[p] = sending[p]
    BY <1>1 DEF LettersInv, DirectMessagesTypeOK
<1>7. sending'[q] = new
    BY <1>1 DEF LettersInv, DirectMessagesTypeOK
<1>8. LockIsExclusive'
    BY <1>2, <1>3, <1>6, <1>7 DEF LettersInv, LockIsExclusive, HasLock
<1>9. CheckedHolds'
    <2> SUFFICES ASSUME NEW p \in Sends, sending'[p].phase = "checked"
                 PROVE  (~ Existing(p) /\ InTime(p))'
        BY DEF CheckedHolds
    <2>1. CASE p = q
        <3>1. ~ Existing(q) /\ InTime(q)
            BY DEF Check
        <3>2. /\ sending'[q].thread = sending[q].thread /\ sending'[q].sender = sending[q].sender
              /\ sending'[q].client = sending[q].client /\ sending'[q].now = sending[q].now
            BY <1>3, <1>7
        <3>3. QED
            BY <1>1, <2>1, <3>1, <3>2 DEF Existing, InTime
    <2>2. CASE p # q
        <3>1. sending'[p] = sending[p] /\ ~ Existing(p) /\ InTime(p)
            BY <1>6, <2>2 DEF LettersInv, CheckedHolds
        <3>2. QED
            BY <1>1, <3>1 DEF Existing, InTime
    <2>3. QED
        BY <2>1, <2>2
<1>10. QED
    BY <1>1, <1>4, <1>8, <1>9, MessagesKept DEF LettersInv

LEMMA DropMessageStep ==
    ASSUME LettersInv, NEW q \in Sends, Refuse(q) \/ Abandon(q)
    PROVE  LettersInv'
<1>1. sending' = [sending EXCEPT ![q] = NotSending] /\ UNCHANGED <<day, open, thread, message>>
    BY DEF Refuse, Abandon
<1>2. DirectMessagesTypeOK'
    BY <1>1 DEF LettersInv, DirectMessagesTypeOK
<1>3. NotSending.phase = "idle"
    BY DEF NotSending
<1>4. \A p \in Sends : HasLock(p)' => sending'[p] = sending[p]
    BY <1>1, <1>3 DEF HasLock, LettersInv, DirectMessagesTypeOK
<1>5. QED
    BY <1>1, <1>2, <1>4, MessagesKept, LocksKept DEF LettersInv

(* The message that is added comes a week after all of its sender's, and is *)
(* the first with its id.                                                   *)
LEMMA CommitMessageStep ==
    ASSUME LettersInv, NEW q \in Sends, CommitMessage(q)
    PROVE  LettersInv'
<1> DEFINE c == sending[q].thread
           new == [sender |-> sending[q].sender, client |-> sending[q].client,
                   at |-> sending[q].now]
<1>0. /\ c \in Conversations /\ sending[q].sender \in {Buyer(c), Author(c)}
      /\ new \in MessageRow /\ sending[q].now \in Nat
    BY MessageUnderWay, DirectMessagesAssumption DEF CommitMessage, LettersInv, MessageRow
<1>1. /\ message[c] \in Seq(MessageRow)
      /\ message'[c] = Append(message[c], new)
      /\ \A d \in Conversations \ {c} : message'[d] = message[d]
      /\ message' \in [Conversations -> Seq(MessageRow)]
    BY <1>0 DEF CommitMessage, LettersInv, DirectMessagesTypeOK
<1>2. sending' = [sending EXCEPT ![q] = NotSending] /\ UNCHANGED <<day, open>>
      /\ thread' = thread \cup {c}
    BY DEF CommitMessage
<1>3. ~ Existing(q) /\ InTime(q) /\ HasLock(q)
    BY DEF CommitMessage, LettersInv, CheckedHolds, HasLock
<1>4. DirectMessagesTypeOK'
    BY <1>0, <1>1, <1>2 DEF LettersInv, DirectMessagesTypeOK
<1>5. \A p \in Sends : HasLock(p)' => p # q /\ sending'[p] = sending[p] /\ HasLock(p)
    BY <1>2 DEF HasLock, NotSending, LettersInv, DirectMessagesTypeOK
<1>6. \A p \in Sends : HasLock(p)' => sending[p].thread \in Conversations \ {c}
    BY <1>3, <1>5, MessageUnderWay DEF LettersInv, LockIsExclusive, HasLock
<1>7. LockIsExclusive'
    BY <1>5 DEF LettersInv, LockIsExclusive
<1>8. CheckedHolds'
    <2> SUFFICES ASSUME NEW p \in Sends, sending'[p].phase = "checked"
                 PROVE  (~ Existing(p) /\ InTime(p))'
        BY DEF CheckedHolds
    <2>1. sending'[p] = sending[p] /\ sending[p].thread \in Conversations \ {c}
        BY <1>5, <1>6 DEF HasLock
    <2>2. ~ Existing(p) /\ InTime(p)
        BY <2>1 DEF LettersInv, CheckedHolds
    <2>3. message'[sending[p].thread] = message[sending[p].thread]
        BY <1>1, <2>1
    <2>4. QED
        BY <2>1, <2>2, <2>3 DEF Existing, InTime
<1> HIDE DEF c, new
<1>9. /\ DOMAIN message'[c] = 1 .. Len(message[c]) + 1
      /\ DOMAIN message[c] = 1 .. Len(message[c]) /\ Len(message[c]) \in Nat
      /\ \A n \in DOMAIN message[c] : message'[c][n] = message[c][n]
      /\ message'[c][Len(message[c]) + 1] = new
    BY <1>1
<1>10. FreeMessagesAreAWeekApart'
    <2> SUFFICES ASSUME NEW d \in Conversations, NEW m \in SentBy(Buyer(d), message'[d]),
                        NEW n \in SentBy(Buyer(d), message'[d]), m # n
                 PROVE  \/ message'[d][m].at + FreeInterval <= message'[d][n].at
                        \/ message'[d][n].at + FreeInterval <= message'[d][m].at
        BY DEF FreeMessagesAreAWeekApart
    <2>1. CASE d # c
        BY <1>1, <2>1 DEF LettersInv, FreeMessagesAreAWeekApart
    <2>2. CASE d = c
        <3> DEFINE last == Len(message[c]) + 1
        <3>1. ASSUME m # last, n # last
              PROVE  /\ m \in SentBy(Buyer(c), message[c]) /\ message'[c][m] = message[c][m]
                     /\ n \in SentBy(Buyer(c), message[c]) /\ message'[c][n] = message[c][n]
            BY <1>9, <2>2, <3>1 DEF SentBy
        <3>2. ASSUME NEW i \in SentBy(Buyer(c), message'[c]), i # last,
                     last \in SentBy(Buyer(c), message'[c])
              PROVE  message'[c][i].at + FreeInterval <= message'[c][last].at
            <4>1. i \in SentBy(Buyer(c), message[c]) /\ message'[c][i] = message[c][i]
                BY <1>9, <3>2 DEF SentBy
            <4>2. new.sender = Buyer(c)
                BY <1>9, <3>2 DEF SentBy
            <4>3. sending[q].sender = Buyer(c) /\ Buyer(c) # Author(c)
                BY <1>0, <4>2 DEF new, c, Conversations, Buyer, Author
            <4>4. FreeSince(Buyer(c), message[c], sending[q].now)
                BY <1>3, <4>3 DEF InTime, c
            <4>5. message[c][i].at + FreeInterval <= new.at
                BY <4>1, <4>4 DEF FreeSince, new
            <4>6. QED
                BY <1>9, <4>1, <4>5
        <3>3. QED
            BY <2>2, <3>1, <3>2 DEF LettersInv, FreeMessagesAreAWeekApart
    <2>3. QED
        BY <2>1, <2>2
<1>11. EachMessageOnce'
    <2> SUFFICES ASSUME NEW d \in Conversations, NEW m \in DOMAIN message'[d],
                        NEW n \in DOMAIN message'[d],
                        message'[d][m].client = message'[d][n].client
                 PROVE  m = n
        BY DEF EachMessageOnce
    <2>1. CASE d # c
        BY <1>1, <2>1 DEF LettersInv, EachMessageOnce
    <2>2. CASE d = c
        <3>1. \A i \in DOMAIN message[c] : message[c][i].client # new.client
            BY <1>3 DEF Existing, new, c
        <3>2. \A i, j \in DOMAIN message[c] : message[c][i].client = message[c][j].client => i = j
            BY <2>2 DEF LettersInv, EachMessageOnce
        <3>3. ASSUME NEW i \in DOMAIN message'[c], NEW j \in DOMAIN message'[c],
                     message'[c][i].client = message'[c][j].client, i \in DOMAIN message[c]
              PROVE  i = j
            <4>1. message'[c][i] = message[c][i]
                BY <1>9, <3>3
            <4>2. CASE j \in DOMAIN message[c]
                BY <1>9, <3>2, <3>3, <4>1, <4>2
            <4>3. CASE j = Len(message[c]) + 1
                BY <1>9, <3>1, <3>3, <4>1, <4>3
            <4>4. QED
                BY <1>9, <4>2, <4>3
        <3>4. m \in DOMAIN message[c] \/ m = Len(message[c]) + 1
            BY <1>9, <2>2
        <3>5. n \in DOMAIN message[c] \/ n = Len(message[c]) + 1
            BY <1>9, <2>2
        <3>6. QED
            BY <2>2, <3>3, <3>4, <3>5
    <2>3. QED
        BY <2>1, <2>2
<1>12. QED
    BY <1>4, <1>7, <1>8, <1>10, <1>11 DEF LettersInv

LEMMA NextLettersInv == LettersInv /\ [DirectMessagesNext]_directMessagesVars => LettersInv'
<1> SUFFICES ASSUME LettersInv, [DirectMessagesNext]_directMessagesVars PROVE LettersInv'
    OBVIOUS
<1>1. ASSUME (\E later \in Days : DayPasses(later)) \/ (\E a \in Authors : Publish(a))
      PROVE  LettersInv'
    BY <1>1, ClockAndProfileStep
<1>2. ASSUME NEW q \in Sends, NEW c \in Conversations, NEW id \in ClientIds, Start(q, c, id)
      PROVE  LettersInv'
    <2>1. Buyer(c) \in People
        <3>1. c \in People \X Authors
            BY DEF Conversations
        <3>2. QED
            BY <3>1 DEF Buyer
    <2>2. QED
        BY <1>2, <2>1, AcceptMessageStep DEF Start
<1>3. ASSUME NEW q \in Sends, NEW c \in Conversations, NEW u \in People, NEW id \in ClientIds,
             Reply(q, c, u, id)
      PROVE  LettersInv'
    BY <1>3, AcceptMessageStep DEF Reply
<1>4. ASSUME NEW q \in Sends, Handle(q) PROVE LettersInv'
    BY <1>4, LockMessageStep, CheckMessageStep, DropMessageStep, CommitMessageStep DEF Handle
<1>5. CASE UNCHANGED directMessagesVars
    <2>1. UNCHANGED <<day, open, thread, message, sending>>
        BY <1>5 DEF directMessagesVars
    <2>2. DirectMessagesTypeOK'
        BY <2>1 DEF LettersInv, DirectMessagesTypeOK
    <2>3. QED
        BY <2>1, <2>2, MessagesKept, LocksKept DEF LettersInv
<1>6. QED
    BY <1>1, <1>2, <1>3, <1>4, <1>5 DEF DirectMessagesNext

(* Two free messages of a buyer to the same creator are a week apart, and no   *)
(* message is there twice, whatever the number of requests under way           *)
(* (direct-messages.service.ts, createMessage).                                *)
THEOREM WeeklyLimitHolds ==
    DirectMessagesSpec =>
        [](DirectMessagesTypeOK /\ FreeMessagesAreAWeekApart /\ EachMessageOnce)
<1>1. LettersInv => DirectMessagesTypeOK /\ FreeMessagesAreAWeekApart /\ EachMessageOnce
    BY DEF LettersInv
<1>2. QED
    BY <1>1, InitLettersInv, NextLettersInv, PTL DEF DirectMessagesSpec

-----------------------------------------------------------------------------
(* Accounts.  Whoever is let through, and whoever was verified, has an account,*)
(* so that creating one takes no level away; ...                               *)
AskersHaveAccounts ==
    \A q \in AccountRequests :
        asking[q].phase \in {"passed", "submitting"} => user[asking[q].user] # NoUser

VerifiedHaveAccounts == \A n \in DOMAIN verification : user[verification[n].user] # NoUser

(* ... and a reviewer who is late is one of two who were deciding at once.     *)
LateReviewsAreTorn ==
    \A q \in AccountRequests :
        asking[q].phase = "deciding" =>
            verification[asking[q].of].status = "PENDING" \/ asking[q].of \in torn

AccountsInv ==
    /\ AccountsTypeOK /\ OneAccountOnePending /\ LevelIsDecided
    /\ AskersHaveAccounts /\ VerifiedHaveAccounts /\ LateReviewsAreTorn

LEMMA InitAccountsInv == AccountsInit => AccountsInv
<1> SUFFICES ASSUME AccountsInit PROVE AccountsInv
    OBVIOUS
<1>1. /\ \A u \in Persons : user[u] = NoUser
      /\ verification = <<>> /\ torn = {} /\ DOMAIN verification = {}
      /\ \A q \in AccountRequests : asking[q] = NoRequest /\ asking[q].phase = "idle"
    BY DEF AccountsInit, NoRequest
<1>2. AccountsTypeOK
    BY DEF AccountsInit, AccountsTypeOK, NoUser
<1>3. OneAccountOnePending
    BY <1>1 DEF OneAccountOnePending, NoUser, Waiting
<1>4. LevelIsDecided
    BY <1>1 DEF LevelIsDecided, NoUser
<1>5. AskersHaveAccounts /\ VerifiedHaveAccounts /\ LateReviewsAreTorn
    BY <1>1 DEF AskersHaveAccounts, VerifiedHaveAccounts, LateReviewsAreTorn
<1>6. QED
    BY <1>2, <1>3, <1>4, <1>5 DEF AccountsInv

(* A request that is under way is one of the three kinds. *)
LEMMA AccountRequestIs ==
    ASSUME AccountsTypeOK, NEW q \in AccountRequests
    PROVE  /\ asking[q].phase = "creating" =>
                  asking[q].user \in Persons /\ asking[q].phone \in Phones
           /\ asking[q].phase \in {"passed", "submitting"} => asking[q].user \in Persons
           /\ asking[q].phase = "deciding" =>
                  /\ asking[q].of \in DOMAIN verification
                  /\ asking[q].decision \in {"APPROVED", "REJECTED"}
<1>1. asking[q] \in AccountRequestsMade \cup {NoRequest}
    BY DEF AccountsTypeOK
<1>2. QED
    BY <1>1 DEF AccountRequestsMade, NoRequest

LEMMA VerificationIs ==
    ASSUME AccountsTypeOK
    PROVE  /\ DOMAIN verification = 1 .. Len(verification) /\ Len(verification) \in Nat
           /\ \A n \in DOMAIN verification :
                  /\ verification[n].user \in Persons
                  /\ verification[n].status \in {"PENDING", "APPROVED", "REJECTED"}
<1> DEFINE Row == [user : Persons, status : {"PENDING", "APPROVED", "REJECTED"}]
<1>1. verification \in Seq(Row)
    BY DEF AccountsTypeOK
<1> HIDE DEF Row
<1>2. /\ DOMAIN verification = 1 .. Len(verification) /\ Len(verification) \in Nat
      /\ \A n \in DOMAIN verification : verification[n] \in Row
    BY <1>1
<1>3. QED
    BY <1>2 DEF Row

(* A request comes, goes on or ends, and writes nothing. *)
LEMMA AskedAccounts ==
    ASSUME AccountsInv, NEW q \in AccountRequests, NEW r \in AccountRequestsMade \cup {NoRequest},
           asking' = [asking EXCEPT ![q] = r], UNCHANGED <<user, verification, torn>>,
           r.phase \in {"passed", "submitting"} => user[r.user] # NoUser,
           r.phase = "deciding" => verification[r.of].status = "PENDING" \/ r.of \in torn
    PROVE  AccountsInv'
<1>1. asking'[q] = r /\ \A p \in AccountRequests \ {q} : asking'[p] = asking[p]
    BY DEF AccountsInv, AccountsTypeOK
<1>2. AccountsTypeOK'
    BY DEF AccountsInv, AccountsTypeOK, AccountRequestsMade
<1>3. OneAccountOnePending' /\ LevelIsDecided' /\ VerifiedHaveAccounts'
    BY DEF AccountsInv, OneAccountOnePending, LevelIsDecided, VerifiedHaveAccounts, Waiting
<1>4. AskersHaveAccounts'
    BY <1>1 DEF AccountsInv, AskersHaveAccounts
<1>5. LateReviewsAreTorn'
    BY <1>1 DEF AccountsInv, LateReviewsAreTorn
<1>6. QED
    BY <1>2, <1>3, <1>4, <1>5 DEF AccountsInv

(* A request that has done its work is gone. *)
LEMMA RequestGone ==
    ASSUME AccountsTypeOK, NEW q \in AccountRequests, asking' = [asking EXCEPT ![q] = NoRequest]
    PROVE  /\ asking'[q].phase = "idle"
           /\ \A p \in AccountRequests \ {q} : asking'[p] = asking[p]
           /\ \A p \in AccountRequests :
                  asking'[p].phase # "idle" => p # q /\ asking'[p] = asking[p]
           /\ DOMAIN verification \subseteq DOMAIN verification' =>
                  asking' \in [AccountRequests -> AccountRequestsMade' \cup {NoRequest}]
    BY DEF AccountsTypeOK, NoRequest, AccountRequestsMade

LEMMA SetStatusStep ==
    ASSUME AccountsInv, NEW u \in Persons, NEW s \in {"ACTIVE", "SUSPENDED"}, SetStatus(u, s)
    PROVE  AccountsInv'
<1> DEFINE new == [user[u] EXCEPT !.status = s]
<1>1. user' = [user EXCEPT ![u] = new] /\ UNCHANGED <<verification, asking, torn>>
    BY DEF SetStatus
<1>2. user \in [Persons -> [phone : Phones \cup {"none"}, status : {"none", "ACTIVE", "SUSPENDED"},
                            level : {"NONE", "IDENTITY"}]]
    BY DEF AccountsInv, AccountsTypeOK
<1>3. /\ new \in [phone : Phones \cup {"none"}, status : {"none", "ACTIVE", "SUSPENDED"},
                  level : {"NONE", "IDENTITY"}]
      /\ new.phone = user[u].phone /\ new.level = user[u].level /\ new.status = s
    BY <1>2
<1>4. new # NoUser
    BY <1>3 DEF NoUser
<1> HIDE DEF new
<1>5. \A v \in Persons : /\ user'[v].phone = user[v].phone /\ user'[v].level = user[v].level
                         /\ user[v] # NoUser => user'[v] # NoUser
    BY <1>1, <1>2, <1>3, <1>4
<1>6. AccountsTypeOK'
    BY <1>1, <1>2, <1>3 DEF AccountsInv, AccountsTypeOK, AccountRequestsMade
<1>7. OneAccountOnePending'
    BY <1>1, <1>5 DEF AccountsInv, OneAccountOnePending, Waiting
<1>8. LevelIsDecided'
    BY <1>1, <1>5 DEF AccountsInv, LevelIsDecided
<1>9. AskersHaveAccounts'
    BY <1>1, <1>5, AccountRequestIs DEF AccountsInv, AskersHaveAccounts
<1>10. VerifiedHaveAccounts'
    <2>1. \A n \in DOMAIN verification : verification[n].user \in Persons
        BY VerificationIs DEF AccountsInv
    <2>2. QED
        BY <1>1, <1>5, <2>1 DEF AccountsInv, VerifiedHaveAccounts
<1>11. LateReviewsAreTorn'
    BY <1>1 DEF AccountsInv, LateReviewsAreTorn
<1>12. QED
    BY <1>6, <1>7, <1>8, <1>9, <1>10, <1>11 DEF AccountsInv

LEMMA CreateAccountStep ==
    ASSUME AccountsInv, NEW q \in AccountRequests, CreateAccount(q)
    PROVE  AccountsInv'
<1> DEFINE u == asking[q].user
           new == [phone |-> asking[q].phone, status |-> "ACTIVE", level |-> "NONE"]
<1>1. /\ asking' = [asking EXCEPT ![q] = NoRequest] /\ UNCHANGED <<verification, torn>>
      /\ asking[q].phase = "creating"
    BY DEF CreateAccount
<1>2. u \in Persons /\ asking[q].phone \in Phones
    BY <1>1, AccountRequestIs DEF AccountsInv
<1>3. CASE user' = user
    <2>1. NoRequest \in AccountRequestsMade \cup {NoRequest} /\ NoRequest.phase = "idle"
        BY DEF NoRequest
    <2>2. QED
        BY <1>1, <1>3, <2>1, AskedAccounts
<1>4. CASE user' # user
    <2>1. user' = [user EXCEPT ![u] = new] /\ user[u] = NoUser /\ ~ Taken(asking[q].phone)
        BY <1>4 DEF CreateAccount
    <2>2. \A v \in Persons : user[v].phone # asking[q].phone
        BY <2>1 DEF Taken
    <2>3. /\ user'[u] = new /\ \A v \in Persons \ {u} : user'[v] = user[v]
          /\ user' \in [Persons -> [phone : Phones \cup {"none"},
                                    status : {"none", "ACTIVE", "SUSPENDED"},
                                    level : {"NONE", "IDENTITY"}]]
        BY <1>2, <2>1 DEF AccountsInv, AccountsTypeOK
    <2>4. new.phone = asking[q].phone /\ new.level = "NONE" /\ new # NoUser
        BY DEF NoUser
    <2> HIDE DEF new
    <2>5. AccountsTypeOK'
        BY <1>1, <2>3, RequestGone DEF AccountsInv, AccountsTypeOK
    <2>6. OneAccountOnePending'
        BY <1>1, <2>2, <2>3, <2>4 DEF AccountsInv, OneAccountOnePending, Waiting
    <2>7. \A n \in DOMAIN verification : verification[n].user # u
        BY <2>1 DEF AccountsInv, VerifiedHaveAccounts
    <2>8. LevelIsDecided'
        <3> SUFFICES ASSUME NEW v \in Persons
                     PROVE  LET Approved == {n \in DOMAIN verification : verification[n].user = v
                                                /\ verification[n].status = "APPROVED"}
                                Torn == {n \in torn : verification[n].user = v}
                            IN  /\ Approved # {} => user'[v].level = "IDENTITY"
                                /\ user'[v].level = "IDENTITY" => Approved \cup Torn # {}
            BY <1>1 DEF LevelIsDecided
        <3>1. CASE v = u
            BY <2>3, <2>4, <2>7, <3>1
        <3>2. CASE v # u
            BY <2>3, <3>2 DEF AccountsInv, LevelIsDecided
        <3>3. QED
            BY <3>1, <3>2
    <2>9. \A p \in AccountRequests :
              asking'[p].phase # "idle" => p # q /\ asking'[p] = asking[p]
        BY <1>1, RequestGone DEF AccountsInv
    <2>10. AskersHaveAccounts'
        BY <2>1, <2>3, <2>9, AccountRequestIs DEF AccountsInv, AskersHaveAccounts
    <2>11. VerifiedHaveAccounts'
        <3>1. \A n \in DOMAIN verification : verification[n].user \in Persons \ {u}
            BY <2>7, VerificationIs DEF AccountsInv
        <3>2. QED
            BY <1>1, <2>3, <3>1 DEF AccountsInv, VerifiedHaveAccounts
    <2>12. LateReviewsAreTorn'
        BY <1>1, <2>9 DEF AccountsInv, LateReviewsAreTorn
    <2>13. QED
        BY <2>5, <2>6, <2>8, <2>10, <2>11, <2>12 DEF AccountsInv
<1>5. QED
    BY <1>3, <1>4

LEMMA SubmitVerificationStep ==
    ASSUME AccountsInv, NEW q \in AccountRequests, SubmitVerification(q)
    PROVE  AccountsInv'
<1> DEFINE u == asking[q].user
           row == [user |-> u, status |-> "PENDING"]
           last == Len(verification) + 1
<1>1. /\ asking' = [asking EXCEPT ![q] = NoRequest] /\ UNCHANGED <<user, torn>>
      /\ asking[q].phase = "submitting"
    BY DEF SubmitVerification
<1>2. u \in Persons /\ user[u] # NoUser
    BY <1>1, AccountRequestIs DEF AccountsInv, AskersHaveAccounts
<1>3. CASE verification' = verification
    <2>1. NoRequest \in AccountRequestsMade \cup {NoRequest} /\ NoRequest.phase = "idle"
        BY DEF NoRequest
    <2>2. QED
        BY <1>1, <1>3, <2>1, AskedAccounts
<1>4. CASE verification' # verification
    <2>1. verification' = Append(verification, row) /\ Waiting(u) = {}
        BY <1>4 DEF SubmitVerification
    <2>2. verification \in Seq([user : Persons, status : {"PENDING", "APPROVED", "REJECTED"}])
        BY DEF AccountsInv, AccountsTypeOK
    <2>3. row \in [user : Persons, status : {"PENDING", "APPROVED", "REJECTED"}]
        BY <1>2
    <2>4. row.user = u /\ row.status = "PENDING"
        OBVIOUS
    <2>5. \A n \in DOMAIN verification :
              verification[n].user = u => verification[n].status # "PENDING"
        BY <2>1 DEF Waiting
    <2> HIDE DEF row, u
    <2>6. /\ verification' \in Seq([user : Persons, status : {"PENDING", "APPROVED", "REJECTED"}])
          /\ DOMAIN verification' = DOMAIN verification \cup {last}
          /\ verification'[last] = row
          /\ \A n \in DOMAIN verification : verification'[n] = verification[n] /\ n # last
        BY <2>1, <2>2, <2>3
    <2> HIDE DEF last
    <2>7. torn \subseteq DOMAIN verification
        BY DEF AccountsInv, AccountsTypeOK
    <2>8. AccountsTypeOK'
        <3>1. asking' \in [AccountRequests -> AccountRequestsMade' \cup {NoRequest}]
            BY <1>1, <2>6, RequestGone DEF AccountsInv
        <3>2. QED
            BY <1>1, <2>6, <2>7, <3>1 DEF AccountsInv, AccountsTypeOK
    <2>9. OneAccountOnePending'
        <3>1. \A v, w \in Persons :
                  user'[v].phone = user'[w].phone /\ user'[v].phone # "none" => v = w
            BY <1>1 DEF AccountsInv, OneAccountOnePending
        <3>2. \A v \in Persons, m, n \in DOMAIN verification' :
                  /\ verification'[m].user = v /\ verification'[m].status = "PENDING"
                  /\ verification'[n].user = v /\ verification'[n].status = "PENDING"
                  => m = n
            BY <2>4, <2>5, <2>6 DEF AccountsInv, OneAccountOnePending, Waiting
        <3>3. QED
            BY <3>1, <3>2 DEF OneAccountOnePending, Waiting
    <2>10. LevelIsDecided'
        <3> SUFFICES ASSUME NEW v \in Persons
                     PROVE  LET Approved == {n \in DOMAIN verification' :
                                                verification'[n].user = v
                                                /\ verification'[n].status = "APPROVED"}
                                Torn == {n \in torn : verification'[n].user = v}
                            IN  /\ Approved # {} => user[v].level = "IDENTITY"
                                /\ user[v].level = "IDENTITY" => Approved \cup Torn # {}
            BY <1>1 DEF LevelIsDecided
        <3>1. {n \in DOMAIN verification' : verification'[n].user = v
                                                /\ verification'[n].status = "APPROVED"}
              = {n \in DOMAIN verification : verification[n].user = v
                                                /\ verification[n].status = "APPROVED"}
            BY <2>4, <2>6
        <3>2. {n \in torn : verification'[n].user = v} = {n \in torn : verification[n].user = v}
            BY <2>6, <2>7
        <3>3. QED
            BY <3>1, <3>2 DEF AccountsInv, LevelIsDecided
    <2>11. \A p \in AccountRequests :
              asking'[p].phase # "idle" => p # q /\ asking'[p] = asking[p]
        BY <1>1, RequestGone DEF AccountsInv
    <2>12. AskersHaveAccounts'
        BY <1>1, <2>11 DEF AccountsInv, AskersHaveAccounts
    <2>13. VerifiedHaveAccounts'
        BY <1>1, <1>2, <2>4, <2>6 DEF AccountsInv, VerifiedHaveAccounts
    <2>14. LateReviewsAreTorn'
        <3>1. \A p \in AccountRequests :
                  asking'[p].phase = "deciding" => asking[p].of \in DOMAIN verification
            BY <2>11, AccountRequestIs DEF AccountsInv
        <3>2. QED
            BY <1>1, <2>6, <2>11, <3>1 DEF AccountsInv, LateReviewsAreTorn
    <2>15. QED
        BY <2>8, <2>9, <2>10, <2>12, <2>13, <2>14 DEF AccountsInv
<1>5. QED
    BY <1>3, <1>4

(* A decision: of who else is deciding on it, the row is torn from then on. *)
LEMMA DecideStep ==
    ASSUME AccountsInv, NEW q \in AccountRequests, Decide(q)
    PROVE  AccountsInv'
<1> DEFINE n == asking[q].of
           decision == asking[q].decision
           owner == verification[n].user
<1>1. /\ asking' = [asking EXCEPT ![q] = NoRequest] /\ asking[q].phase = "deciding"
      /\ user' = IF decision = "APPROVED" THEN [user EXCEPT ![owner].level = "IDENTITY"] ELSE user
      /\ verification' = [verification EXCEPT ![n].status = decision]
      /\ torn' = IF DecidingOn(n) # {q} THEN torn \cup {n} ELSE torn
    BY DEF Decide
<1>2. /\ n \in DOMAIN verification /\ decision \in {"APPROVED", "REJECTED"}
      /\ verification[n].status = "PENDING" \/ n \in torn
    BY <1>1, AccountRequestIs DEF AccountsInv, LateReviewsAreTorn
<1>3. owner \in Persons /\ user[owner] # NoUser
    BY <1>2, VerificationIs DEF AccountsInv, VerifiedHaveAccounts
<1>4. \A p \in AccountRequests :
          asking'[p].phase # "idle" => p # q /\ asking'[p] = asking[p]
    BY <1>1, RequestGone DEF AccountsInv
<1>5. \A p \in AccountRequests :
          p # q /\ asking[p].phase = "deciding" /\ asking[p].of = n => n \in torn'
    BY <1>1 DEF DecidingOn
<1>6. torn \subseteq torn' /\ torn' \subseteq torn \cup {n} /\ torn \subseteq DOMAIN verification
    BY <1>1 DEF AccountsInv, AccountsTypeOK
<1> DEFINE R == [user : Persons, status : {"PENDING", "APPROVED", "REJECTED"}]
           new == [verification[n] EXCEPT !.status = decision]
<1>7. verification \in Seq(R) /\ verification[n] \in R
    <2>1. verification \in Seq(R)
        BY DEF AccountsInv, AccountsTypeOK
    <2> HIDE DEF R, n
    <2>2. verification[n] \in R
        BY <1>2, <2>1
    <2>3. QED
        BY <2>1, <2>2
<1>8. new \in R /\ new.user = owner /\ new.status = decision
    BY <1>2, <1>7
<1>9. verification' = [verification EXCEPT ![n] = new]
    BY <1>1, <1>2
<1> HIDE DEF R, new, n, decision, owner
<1>10. /\ verification' \in Seq(R) /\ DOMAIN verification' = DOMAIN verification
       /\ verification'[n] = new
       /\ \A m \in DOMAIN verification : m # n => verification'[m] = verification[m]
    BY <1>2, <1>7, <1>8, <1>9
<1>11. \A m \in DOMAIN verification : verification'[m].user = verification[m].user
    BY <1>8, <1>10 DEF owner
<1>12. /\ user' \in [Persons -> [phone : Phones \cup {"none"},
                                 status : {"none", "ACTIVE", "SUSPENDED"},
                                 level : {"NONE", "IDENTITY"}]]
       /\ \A v \in Persons : /\ user'[v].phone = user[v].phone
                             /\ user'[v].level = IF decision = "APPROVED" /\ v = owner
                                                 THEN "IDENTITY" ELSE user[v].level
                             /\ user'[v].status = user[v].status
    <2>1. user \in [Persons -> [phone : Phones \cup {"none"},
                                status : {"none", "ACTIVE", "SUSPENDED"},
                                level : {"NONE", "IDENTITY"}]]
        BY DEF AccountsInv, AccountsTypeOK
    <2>2. CASE decision = "APPROVED"
        <3> DEFINE raised == [user[owner] EXCEPT !.level = "IDENTITY"]
        <3>1. user' = [user EXCEPT ![owner] = raised]
            BY <1>1, <2>2
        <3>2. /\ raised.phone = user[owner].phone /\ raised.level = "IDENTITY"
              /\ raised.status = user[owner].status
              /\ raised \in [phone : Phones \cup {"none"},
                             status : {"none", "ACTIVE", "SUSPENDED"},
                             level : {"NONE", "IDENTITY"}]
            BY <1>3, <2>1
        <3> HIDE DEF raised
        <3>3. QED
            BY <1>3, <2>1, <2>2, <3>1, <3>2
    <2>3. CASE decision # "APPROVED"
        BY <1>1, <2>1, <2>3
    <2>4. QED
        BY <2>2, <2>3
<1>13. \A v \in Persons : user[v] # NoUser => user'[v] # NoUser
    <2> SUFFICES ASSUME NEW v \in Persons, user'[v] = NoUser PROVE user[v] = NoUser
        OBVIOUS
    <2>1. user'[v].phone = "none" /\ user'[v].status = "none" /\ user'[v].level = "NONE"
        BY DEF NoUser
    <2>2. user[v].phone = "none" /\ user[v].status = "none" /\ user[v].level = "NONE"
        BY <1>12, <2>1
    <2>3. user[v] \in [phone : Phones \cup {"none"}, status : {"none", "ACTIVE", "SUSPENDED"},
                       level : {"NONE", "IDENTITY"}]
        BY DEF AccountsInv, AccountsTypeOK
    <2>4. QED
        BY <2>2, <2>3 DEF NoUser
<1>14. AccountsTypeOK'
    <2>1. torn' \subseteq DOMAIN verification'
        BY <1>2, <1>6, <1>10
    <2>2. asking' \in [AccountRequests -> AccountRequestsMade' \cup {NoRequest}]
        BY <1>1, <1>10, RequestGone DEF AccountsInv
    <2>3. QED
        BY <1>10, <1>12, <2>1, <2>2 DEF AccountsTypeOK, R
<1>15. OneAccountOnePending'
    <2>1. \A v, w \in Persons :
              user'[v].phone = user'[w].phone /\ user'[v].phone # "none" => v = w
        BY <1>12 DEF AccountsInv, OneAccountOnePending
    <2>2. \A m \in DOMAIN verification' :
              verification'[m].status = "PENDING" => verification'[m] = verification[m]
        BY <1>2, <1>8, <1>10
    <2>3. \A v \in Persons, k, m \in DOMAIN verification' :
              /\ verification'[k].user = v /\ verification'[k].status = "PENDING"
              /\ verification'[m].user = v /\ verification'[m].status = "PENDING"
              => k = m
        BY <1>10, <2>2 DEF AccountsInv, OneAccountOnePending, Waiting
    <2>4. QED
        BY <2>1, <2>3 DEF OneAccountOnePending, Waiting
<1>16. LevelIsDecided'
    <2> SUFFICES ASSUME NEW v \in Persons
                 PROVE  /\ \A m \in DOMAIN verification' :
                               verification'[m].user = v /\ verification'[m].status = "APPROVED"
                                   => user'[v].level = "IDENTITY"
                        /\ user'[v].level = "IDENTITY" =>
                               \/ \E m \in DOMAIN verification' :
                                      /\ verification'[m].user = v
                                      /\ verification'[m].status = "APPROVED"
                               \/ \E m \in torn' : verification'[m].user = v
        BY DEF LevelIsDecided
    <2>1. /\ \A m \in DOMAIN verification :
                 verification[m].user = v /\ verification[m].status = "APPROVED"
                     => user[v].level = "IDENTITY"
          /\ user[v].level = "IDENTITY" =>
                 \/ \E m \in DOMAIN verification :
                        verification[m].user = v /\ verification[m].status = "APPROVED"
                 \/ \E m \in torn : verification[m].user = v
        BY DEF AccountsInv, LevelIsDecided
    <2>2. ASSUME NEW m \in DOMAIN verification', verification'[m].user = v,
                 verification'[m].status = "APPROVED"
          PROVE  user'[v].level = "IDENTITY"
        <3>1. CASE m = n
            BY <1>8, <1>10, <1>12, <2>2, <3>1
        <3>2. CASE m # n
            BY <1>10, <1>12, <2>1, <2>2, <3>2
        <3>3. QED
            BY <3>1, <3>2
    <2>3. ASSUME user'[v].level = "IDENTITY"
          PROVE  \/ \E m \in DOMAIN verification' :
                        verification'[m].user = v /\ verification'[m].status = "APPROVED"
                 \/ \E m \in torn' : verification'[m].user = v
        <3>1. CASE decision = "APPROVED" /\ v = owner
            BY <1>2, <1>8, <1>10, <3>1
        <3>2. CASE ~ (decision = "APPROVED" /\ v = owner)
            <4>1. user[v].level = "IDENTITY"
                BY <1>12, <2>3, <3>2
            <4>2. CASE \E m \in torn : verification[m].user = v
                BY <1>6, <1>11, <4>2
            <4>3. CASE \E m \in DOMAIN verification :
                          verification[m].user = v /\ verification[m].status = "APPROVED"
                <5>1. PICK m \in DOMAIN verification :
                          verification[m].user = v /\ verification[m].status = "APPROVED"
                    BY <4>3
                <5>2. CASE m = n
                    BY <1>2, <1>6, <1>11, <5>1, <5>2
                <5>3. CASE m # n
                    BY <1>10, <5>1, <5>3
                <5>4. QED
                    BY <5>2, <5>3
            <4>4. QED
                BY <2>1, <4>1, <4>2, <4>3
        <3>3. QED
            BY <3>1, <3>2
    <2>4. QED
        BY <2>2, <2>3
<1>17. AskersHaveAccounts'
    BY <1>4, <1>13, AccountRequestIs DEF AccountsInv, AskersHaveAccounts
<1>18. VerifiedHaveAccounts'
    <2>1. \A m \in DOMAIN verification : verification[m].user \in Persons
        BY VerificationIs DEF AccountsInv
    <2>2. QED
        BY <1>10, <1>11, <1>13, <2>1 DEF AccountsInv, VerifiedHaveAccounts
<1>19. LateReviewsAreTorn'
    <2> SUFFICES ASSUME NEW p \in AccountRequests, asking'[p].phase = "deciding"
                 PROVE  verification'[asking'[p].of].status = "PENDING" \/ asking'[p].of \in torn'
        BY DEF LateReviewsAreTorn
    <2>1. p # q /\ asking'[p] = asking[p]
        BY <1>4
    <2>2. /\ asking[p].of \in DOMAIN verification
          /\ verification[asking[p].of].status = "PENDING" \/ asking[p].of \in torn
        BY <2>1, AccountRequestIs DEF AccountsInv, LateReviewsAreTorn
    <2>3. CASE asking[p].of = n
        BY <1>5, <2>1, <2>3
    <2>4. CASE asking[p].of # n
        BY <1>6, <1>10, <2>1, <2>2, <2>4
    <2>5. QED
        BY <2>3, <2>4
<1>20. QED
    BY <1>14, <1>15, <1>16, <1>17, <1>18, <1>19 DEF AccountsInv

LEMMA NextAccountsInv == AccountsInv /\ [AccountsNext]_accountsVars => AccountsInv'
<1> SUFFICES ASSUME AccountsInv, [AccountsNext]_accountsVars PROVE AccountsInv'
    OBVIOUS
<1>1. ASSUME NEW q \in AccountRequests, NEW u \in Persons, NEW p \in Phones, AskForAccount(q, u, p)
      PROVE  AccountsInv'
    <2> DEFINE r == [phase |-> "creating", user |-> u, phone |-> p]
    <2>1. asking' = [asking EXCEPT ![q] = r] /\ UNCHANGED <<user, verification, torn>>
        BY <1>1 DEF AskForAccount, Ask
    <2>2. r \in AccountRequestsMade \cup {NoRequest} /\ r.phase = "creating"
        BY DEF AccountRequestsMade
    <2> HIDE DEF r
    <2>3. QED
        BY <2>1, <2>2, AskedAccounts
<1>2. ASSUME NEW q \in AccountRequests, NEW u \in Persons, PassGuard(q, u)
      PROVE  AccountsInv'
    <2> DEFINE r == [phase |-> "passed", user |-> u]
    <2>1. asking' = [asking EXCEPT ![q] = r] /\ UNCHANGED <<user, verification, torn>>
        BY <1>2 DEF PassGuard, Ask
    <2>2. r \in AccountRequestsMade \cup {NoRequest} /\ r.phase = "passed" /\ r.user = u
        BY DEF AccountRequestsMade
    <2>3. user[u] # NoUser
        BY <1>2 DEF PassGuard, NoUser
    <2> HIDE DEF r
    <2>4. QED
        BY <2>1, <2>2, <2>3, AskedAccounts
<1>3. ASSUME NEW q \in AccountRequests, NEW n \in DOMAIN verification,
             NEW d \in {"APPROVED", "REJECTED"}, ReadVerification(q, n, d)
      PROVE  AccountsInv'
    <2> DEFINE r == [phase |-> "deciding", of |-> n, decision |-> d]
    <2>1. asking' = [asking EXCEPT ![q] = r] /\ UNCHANGED <<user, verification, torn>>
        BY <1>3 DEF ReadVerification, Ask
    <2>2. r \in AccountRequestsMade \cup {NoRequest} /\ r.phase = "deciding" /\ r.of = n
        BY DEF AccountRequestsMade
    <2>3. verification[n].status = "PENDING"
        BY <1>3 DEF ReadVerification
    <2> HIDE DEF r
    <2>4. QED
        BY <2>1, <2>2, <2>3, AskedAccounts
<1>4. ASSUME NEW q \in AccountRequests, LookForPending(q) PROVE AccountsInv'
    <2> DEFINE on == [phase |-> "submitting", user |-> asking[q].user]
               r == IF Waiting(asking[q].user) # {} THEN NoRequest ELSE on
    <2>1. /\ asking' = [asking EXCEPT ![q] = r] /\ UNCHANGED <<user, verification, torn>>
          /\ asking[q].phase = "passed"
        BY <1>4 DEF LookForPending
    <2>2. asking[q].user \in Persons /\ user[asking[q].user] # NoUser
        BY <2>1, AccountRequestIs DEF AccountsInv, AskersHaveAccounts
    <2>3. /\ on \in AccountRequestsMade /\ on.phase = "submitting" /\ on.user = asking[q].user
          /\ NoRequest.phase = "idle"
        BY <2>2 DEF AccountRequestsMade, NoRequest
    <2> HIDE DEF on
    <2>4. /\ r \in AccountRequestsMade \cup {NoRequest}
          /\ r.phase \in {"passed", "submitting"} => user[r.user] # NoUser
          /\ r.phase # "deciding"
        BY <2>2, <2>3
    <2> HIDE DEF r
    <2>5. QED
        BY <2>1, <2>4, AskedAccounts
<1>5. ASSUME NEW q \in AccountRequests, DropRequest(q) PROVE AccountsInv'
    <2>1. NoRequest \in AccountRequestsMade \cup {NoRequest} /\ NoRequest.phase = "idle"
        BY DEF NoRequest
    <2>2. QED
        BY <1>5, <2>1, AskedAccounts DEF DropRequest
<1>6. CASE UNCHANGED accountsVars
    BY <1>6 DEF accountsVars, AccountsInv, AccountsTypeOK, AccountRequestsMade,
                OneAccountOnePending, LevelIsDecided, Waiting, AskersHaveAccounts,
                VerifiedHaveAccounts, LateReviewsAreTorn
<1>7. QED
    BY <1>1, <1>2, <1>3, <1>4, <1>5, <1>6, SetStatusStep, CreateAccountStep,
       SubmitVerificationStep, DecideStep DEF AccountsNext

(* However many requests run together, a phone has one account and a user one  *)
(* verification waiting (the unique indexes that CreateDevSessionUseCase and   *)
(* SubmitIdentityVerificationUseCase rely on).                                 *)
THEOREM NobodySharesOrQueuesTwice == AccountsSpec => []OneAccountOnePending
<1>1. AccountsInv => OneAccountOnePending
    BY DEF AccountsInv
<1>2. QED
    BY <1>1, InitAccountsInv, NextAccountsInv, PTL DEF AccountsSpec

(* The level that opens withdrawals is the one the decisions on record say,    *)
(* but for verifications two reviewers were deciding at once                   *)
(* (ReviewIdentityVerificationUseCase, whose save has no condition).           *)
THEOREM LevelIsAlwaysDecided == AccountsSpec => []LevelIsDecided
<1>1. AccountsInv => LevelIsDecided
    BY DEF AccountsInv
<1>2. QED
    BY <1>1, InitAccountsInv, NextAccountsInv, PTL DEF AccountsSpec

-----------------------------------------------------------------------------
(* Conversations.  ConversationIsOnRecord, message by message.                 *)
SentOnceEach ==
    \A m, n \in TalkIds :
        /\ talkMessage[m].deal \in TalkDeals /\ talkMessage[n].deal = talkMessage[m].deal
        /\ talkMessage[n].client = talkMessage[m].client /\ talkMessage[m].client # "none"
        => m = n

WrittenInTime ==
    \A m \in TalkIds :
        /\ talkMessage[m].deal \in TalkDeals /\ talkMessage[m].sender # "none"
        /\ talk[talkMessage[m].deal].status = "closed"
        => talkMessage[m].day < talk[talkMessage[m].deal].closedOn + GraceDays

AllIsTold ==
    \A m \in TalkIds :
        /\ \A u \in Talkers :
               <<m, u>> \in told <=> /\ talkMessage[m] # NoMessage
                                     /\ talkMessage[m].sender \notin {"none", u}
        /\ m \in signed <=> talkMessage[m] # NoMessage /\ talkMessage[m].sender = "none"

(* The conversation of this row is over by now.                                *)
IsOver(r) == r.status = "closed" /\ r.closedOn + GraceDays <= today

(* A request saves the row it has read over what was saved since.  It undoes   *)
(* nothing that matters: a deal whose conversation was over when the day began *)
(* does not change that day, and one that closes is not over that day.         *)
RowsReadAgree ==
    \A q \in TalkRequests :
        talkRequest[q].phase # "idle" =>
            /\ IsOver(talkRequest[q].row) \/ IsOver(talk[talkRequest[q].deal])
                   => talk[talkRequest[q].deal] = talkRequest[q].row
            /\ talkRequest[q].phase = "sending" => ~ IsOver(talkRequest[q].row)

(* Of what was written, the row that is read tells the same as the deal's.     *)
ReadInTime ==
    \A q \in TalkRequests, m \in TalkIds :
        /\ talkRequest[q].phase # "idle" /\ talkMessage[m].deal = talkRequest[q].deal
        /\ talkMessage[m].sender # "none" /\ talkRequest[q].row.status = "closed"
        => talkMessage[m].day < talkRequest[q].row.closedOn + GraceDays

SendersAreParties ==
    \A q \in TalkRequests :
        /\ talkRequest[q].phase = "sending" =>
               talkRequest[q].sender \in Talkers /\ talkRequest[q].client \in TalkClientIds
        /\ talkRequest[q].phase = "posting" =>
               talkRequest[q].sender = "none" /\ talkRequest[q].client = "none"

NothingIsAhead == \A m \in TalkIds : talkMessage[m].day <= today

TalkInv ==
    /\ ConversationTypeOK /\ audits = reads /\ SentOnceEach /\ WrittenInTime /\ AllIsTold
    /\ RowsReadAgree /\ ReadInTime /\ SendersAreParties /\ NothingIsAhead

LEMMA OnRecord == ASSUME TalkInv PROVE ConversationIsOnRecord
<1>1. \A d \in TalkDeals : reads[d] <= audits[d]
    BY DEF TalkInv, ConversationTypeOK
<1>2. \A d \in TalkDeals : \A m, n \in Of(d) :
          talkMessage[m].client = talkMessage[n].client => m = n \/ talkMessage[m].client = "none"
    BY DEF TalkInv, SentOnceEach, Of
<1>3. \A d \in TalkDeals : \A m \in Of(d) :
          talk[d].status = "closed" /\ talkMessage[m].sender # "none"
              => talkMessage[m].day < talk[d].closedOn + GraceDays
    BY DEF TalkInv, WrittenInTime, Of
<1>4. ASSUME NEW m \in TalkIds
      PROVE  {u \in Talkers : <<m, u>> \in told} =
                 IF talkMessage[m] # NoMessage /\ talkMessage[m].sender # "none"
                 THEN Talkers \ {talkMessage[m].sender} ELSE {}
    BY DEF TalkInv, AllIsTold
<1>5. \A m \in TalkIds :
          m \in signed <=> talkMessage[m] # NoMessage /\ talkMessage[m].sender = "none"
    BY DEF TalkInv, AllIsTold
<1>6. QED
    BY <1>1, <1>2, <1>3, <1>4, <1>5 DEF ConversationIsOnRecord

LEMMA InitTalkInv == ConversationInit => TalkInv
<1> SUFFICES ASSUME ConversationInit PROVE TalkInv
    OBVIOUS
<1>1. /\ \A m \in TalkIds : talkMessage[m] = NoMessage
      /\ \A q \in TalkRequests : talkRequest[q].phase = "idle"
      /\ told = {} /\ signed = {} /\ audits = reads /\ today = 0
    BY DEF ConversationInit, NoTalk
<1>2. ConversationTypeOK
    BY ConversationAssumption DEF ConversationInit, ConversationTypeOK, TalkRow, NoTalk
<1>3. /\ NoMessage.deal \notin TalkDeals /\ NoMessage.sender = "none" /\ NoMessage.client = "none"
      /\ NoMessage.day = 0
    BY ConversationAssumption DEF NoMessage
<1>4. SentOnceEach /\ WrittenInTime /\ AllIsTold /\ NothingIsAhead
    BY <1>1, <1>3 DEF SentOnceEach, WrittenInTime, AllIsTold, NothingIsAhead
<1>5. RowsReadAgree /\ ReadInTime /\ SendersAreParties
    BY <1>1 DEF RowsReadAgree, ReadInTime, SendersAreParties
<1>6. QED
    BY <1>1, <1>2, <1>4, <1>5 DEF TalkInv

(* What the type invariant says of each row.                                   *)
LEMMA TalkIs ==
    ASSUME ConversationTypeOK
    PROVE  /\ \A d \in TalkDeals : /\ talk[d] \in TalkRow /\ talk[d].closedOn \in 0 .. MaxDay
                                   /\ talk[d].status \in {"open", "closed"}
           /\ \A q \in TalkRequests :
                  talkRequest[q].phase # "idle" =>
                      /\ talkRequest[q] \in Handlings
                      /\ talkRequest[q].deal \in TalkDeals /\ talkRequest[q].row \in TalkRow
                      /\ talkRequest[q].row.closedOn \in 0 .. MaxDay
                      /\ talkRequest[q].row.status \in {"open", "closed"}
           /\ \A m \in TalkIds : /\ talkMessage[m] \in MessageOf \cup {NoMessage}
                                 /\ talkMessage[m].day \in 0 .. MaxDay
                                 /\ talkMessage[m].sender \in Talkers \cup {"none"}
           /\ today \in 0 .. MaxDay
<1>1. /\ \A d \in TalkDeals : talk[d] \in TalkRow
      /\ \A q \in TalkRequests : talkRequest[q] \in Handlings \cup {NoTalk}
      /\ \A m \in TalkIds : talkMessage[m] \in MessageOf \cup {NoMessage}
      /\ today \in 0 .. MaxDay
    BY DEF ConversationTypeOK
<1>2. \A d \in TalkDeals : talk[d].closedOn \in 0 .. MaxDay /\ talk[d].status \in {"open", "closed"}
    BY <1>1 DEF TalkRow
<1>3. \A q \in TalkRequests :
          talkRequest[q].phase # "idle" =>
              /\ talkRequest[q] \in Handlings
              /\ talkRequest[q].deal \in TalkDeals /\ talkRequest[q].row \in TalkRow
              /\ talkRequest[q].row.closedOn \in 0 .. MaxDay
              /\ talkRequest[q].row.status \in {"open", "closed"}
    BY <1>1 DEF Handlings, NoTalk, TalkRow
<1>4. \A m \in TalkIds : /\ talkMessage[m].day \in 0 .. MaxDay
                         /\ talkMessage[m].sender \in Talkers \cup {"none"}
    BY <1>1, ConversationAssumption DEF MessageOf, NoMessage
<1>5. QED
    BY <1>1, <1>2, <1>3, <1>4

(* A step that writes no message and no audit row. *)
LEMMA WritingKept ==
    ASSUME TalkInv, UNCHANGED <<talkMessage, told, signed, audits, reads>>,
           today' \in Nat, today' >= today
    PROVE  SentOnceEach' /\ AllIsTold' /\ (audits = reads)' /\ NothingIsAhead'
<1>1. SentOnceEach' /\ AllIsTold' /\ (audits = reads)'
    BY DEF TalkInv, SentOnceEach, AllIsTold
<1>2. NothingIsAhead'
    <2>1. \A m \in TalkIds : talkMessage[m].day \in Nat /\ today \in Nat
        BY TalkIs, ConversationAssumption DEF TalkInv
    <2>2. QED
        BY <2>1 DEF TalkInv, NothingIsAhead
<1>3. QED
    BY <1>1, <1>2

LEMMA DisputeStep ==
    ASSUME TalkInv, NEW d \in TalkDeals, Dispute(d)
    PROVE  TalkInv'
<1>1. /\ UNCHANGED <<talk, talkMessage, told, signed, audits, reads, talkRequest, today>>
      /\ disputed' \subseteq TalkDeals
    BY DEF Dispute, TalkInv, ConversationTypeOK
<1>2. ConversationTypeOK'
    BY <1>1 DEF TalkInv, ConversationTypeOK
<1>3. SentOnceEach' /\ AllIsTold' /\ (audits = reads)' /\ NothingIsAhead'
    BY <1>1 DEF TalkInv, SentOnceEach, AllIsTold, NothingIsAhead
<1>4. WrittenInTime' /\ RowsReadAgree' /\ ReadInTime' /\ SendersAreParties'
    BY <1>1 DEF TalkInv, WrittenInTime, RowsReadAgree, ReadInTime, SendersAreParties, IsOver
<1>5. QED
    BY <1>2, <1>3, <1>4 DEF TalkInv

(* The deal closes today: its conversation is not over today, and all that was *)
(* written was written before the end of it.                                   *)
LEMMA CloseStep ==
    ASSUME TalkInv, NEW d \in TalkDeals, Close(d)
    PROVE  TalkInv'
<1> DEFINE new == [status |-> "closed", closedOn |-> today]
<1>1. /\ UNCHANGED <<talkMessage, told, signed, audits, reads, talkRequest, today>>
      /\ disputed' \subseteq TalkDeals /\ talk' = [talk EXCEPT ![d] = new]
      /\ talk[d].status = "open"
    BY DEF Close, TalkInv, ConversationTypeOK
<1>2. today \in 0 .. MaxDay /\ MaxDay \in Nat /\ GraceDays \in Nat /\ GraceDays > 0
    BY TalkIs, ConversationAssumption DEF TalkInv
<1>3. new \in TalkRow /\ new.closedOn = today /\ new.status = "closed"
    BY <1>2 DEF TalkRow
<1> HIDE DEF new
<1>4. /\ talk'[d] = new /\ \A e \in TalkDeals \ {d} : talk'[e] = talk[e]
      /\ talk' \in [TalkDeals -> TalkRow]
    BY <1>1, <1>3 DEF TalkInv, ConversationTypeOK
<1>5. ConversationTypeOK'
    BY <1>1, <1>4 DEF TalkInv, ConversationTypeOK
<1>6. SentOnceEach' /\ AllIsTold' /\ (audits = reads)' /\ NothingIsAhead'
    BY <1>1 DEF TalkInv, SentOnceEach, AllIsTold, NothingIsAhead
<1>7. WrittenInTime'
    <2>1. \A m \in TalkIds : talkMessage[m].day \in Nat /\ talkMessage[m].day < today + GraceDays
        BY <1>2, TalkIs DEF TalkInv, NothingIsAhead
    <2>2. QED
        BY <1>1, <1>3, <1>4, <2>1 DEF TalkInv, WrittenInTime
<1>8. ~ IsOver(new) /\ ~ IsOver(talk[d])
    BY <1>1, <1>2, <1>3 DEF IsOver
<1>9. \A q \in TalkRequests :
          talkRequest[q].phase # "idle" /\ talkRequest[q].deal = d => ~ IsOver(talkRequest[q].row)
    BY <1>8 DEF TalkInv, RowsReadAgree
<1>10. RowsReadAgree'
    <2> SUFFICES ASSUME NEW q \in TalkRequests, talkRequest[q].phase # "idle"
                 PROVE  /\ IsOver(talkRequest[q].row) \/ IsOver(talk'[talkRequest[q].deal])
                               => talk'[talkRequest[q].deal] = talkRequest[q].row
                        /\ talkRequest[q].phase = "sending" => ~ IsOver(talkRequest[q].row)
        BY <1>1 DEF RowsReadAgree, IsOver
    <2>1. CASE talkRequest[q].deal = d
        BY <1>4, <1>8, <1>9, <2>1 DEF IsOver
    <2>2. CASE talkRequest[q].deal # d
        <3>1. talkRequest[q].deal \in TalkDeals
            BY TalkIs DEF TalkInv
        <3>2. talk'[talkRequest[q].deal] = talk[talkRequest[q].deal]
            BY <1>4, <2>2, <3>1
        <3>3. QED
            BY <3>2 DEF TalkInv, RowsReadAgree, IsOver
    <2>3. QED
        BY <2>1, <2>2
<1>11. ReadInTime' /\ SendersAreParties'
    BY <1>1 DEF TalkInv, ReadInTime, SendersAreParties
<1>12. QED
    BY <1>5, <1>6, <1>7, <1>10, <1>11 DEF TalkInv

LEMMA TalkDayStep ==
    ASSUME TalkInv, TalkDayPasses
    PROVE  TalkInv'
<1>1. /\ UNCHANGED <<talk, disputed, talkMessage, told, signed, audits, reads, talkRequest>>
      /\ today' = today + 1 /\ today < MaxDay
      /\ \A q \in TalkRequests : talkRequest[q].phase = "idle"
    BY DEF TalkDayPasses, NoTalk
<1>2. today \in 0 .. MaxDay /\ MaxDay \in Nat
    BY TalkIs, ConversationAssumption DEF TalkInv
<1>3. today' \in 0 .. MaxDay /\ today' \in Nat /\ today' >= today
    BY <1>1, <1>2
<1>4. ConversationTypeOK'
    BY <1>1, <1>3 DEF TalkInv, ConversationTypeOK
<1>5. SentOnceEach' /\ AllIsTold' /\ (audits = reads)' /\ NothingIsAhead'
    BY <1>1, <1>3, WritingKept
<1>6. WrittenInTime'
    BY <1>1 DEF TalkInv, WrittenInTime
<1>7. RowsReadAgree' /\ ReadInTime' /\ SendersAreParties'
    BY <1>1 DEF RowsReadAgree, ReadInTime, SendersAreParties
<1>8. QED
    BY <1>4, <1>5, <1>6, <1>7 DEF TalkInv

(* A request reads the deal as it is. *)
LEMMA HandlingStep ==
    ASSUME TalkInv, NEW q \in TalkRequests, NEW phase \in {"sending", "posting", "reading"},
           NEW d \in TalkDeals, NEW sender \in Talkers \cup {"none"},
           NEW client \in TalkClientIds \cup {"none"}, Handling(q, phase, d, sender, client),
           phase = "sending" => /\ AcceptsMessages(d)
                                /\ sender \in Talkers /\ client \in TalkClientIds,
           phase = "posting" => sender = "none" /\ client = "none"
    PROVE  TalkInv'
<1> DEFINE r == [phase |-> phase, deal |-> d, sender |-> sender, client |-> client,
                 row |-> talk[d]]
<1>1. /\ talkRequest' = [talkRequest EXCEPT ![q] = r]
      /\ UNCHANGED <<talk, disputed, talkMessage, told, signed, audits, reads, today>>
    BY DEF Handling
<1>2. talk[d] \in TalkRow
    BY TalkIs DEF TalkInv
<1>3. /\ r \in Handlings /\ r.phase = phase /\ r.deal = d /\ r.sender = sender
      /\ r.client = client /\ r.row = talk[d]
    BY <1>2 DEF Handlings
<1> HIDE DEF r
<1>4. /\ talkRequest'[q] = r /\ \A p \in TalkRequests \ {q} : talkRequest'[p] = talkRequest[p]
      /\ talkRequest' \in [TalkRequests -> Handlings \cup {NoTalk}]
    BY <1>1, <1>3 DEF TalkInv, ConversationTypeOK
<1>5. ConversationTypeOK'
    BY <1>1, <1>4 DEF TalkInv, ConversationTypeOK
<1>6. SentOnceEach' /\ AllIsTold' /\ (audits = reads)' /\ NothingIsAhead' /\ WrittenInTime'
    BY <1>1 DEF TalkInv, SentOnceEach, AllIsTold, NothingIsAhead, WrittenInTime
<1>7. phase = "sending" => ~ IsOver(talk[d])
    <2>1. today \in Nat /\ GraceDays \in Nat /\ talk[d].closedOn \in Nat
        BY TalkIs, ConversationAssumption DEF TalkInv
    <2>2. QED
        BY <2>1 DEF AcceptsMessages, IsOver
<1>8. RowsReadAgree'
    <2> SUFFICES ASSUME NEW p \in TalkRequests, talkRequest'[p].phase # "idle"
                 PROVE  /\ IsOver(talkRequest'[p].row) \/ IsOver(talk[talkRequest'[p].deal])
                               => talk[talkRequest'[p].deal] = talkRequest'[p].row
                        /\ talkRequest'[p].phase = "sending" => ~ IsOver(talkRequest'[p].row)
        BY <1>1 DEF RowsReadAgree, IsOver
    <2>1. CASE p = q
        BY <1>3, <1>4, <1>7, <2>1 DEF IsOver
    <2>2. CASE p # q
        BY <1>4, <2>2 DEF TalkInv, RowsReadAgree, IsOver
    <2>3. QED
        BY <2>1, <2>2
<1>9. ReadInTime'
    <2> SUFFICES ASSUME NEW p \in TalkRequests, NEW m \in TalkIds,
                        talkRequest'[p].phase # "idle",
                        talkMessage[m].deal = talkRequest'[p].deal,
                        talkMessage[m].sender # "none", talkRequest'[p].row.status = "closed"
                 PROVE  talkMessage[m].day < talkRequest'[p].row.closedOn + GraceDays
        BY <1>1 DEF ReadInTime
    <2>1. CASE p = q
        BY <1>3, <1>4, <2>1 DEF TalkInv, WrittenInTime
    <2>2. CASE p # q
        BY <1>4, <2>2 DEF TalkInv, ReadInTime
    <2>3. QED
        BY <2>1, <2>2
<1>10. SendersAreParties'
    BY <1>3, <1>4 DEF TalkInv, SendersAreParties
<1>11. QED
    BY <1>5, <1>6, <1>8, <1>9, <1>10 DEF TalkInv

(* A request ends without a message. *)
LEMMA RequestEndsStep ==
    ASSUME TalkInv, NEW q \in TalkRequests, talkRequest' = [talkRequest EXCEPT ![q] = NoTalk],
           UNCHANGED <<talk, disputed, talkMessage, told, signed, today>>,
           audits' \in [TalkDeals -> 0 .. MaxReads], reads' = audits'
    PROVE  TalkInv'
<1>1. NoTalk.phase = "idle"
    BY DEF NoTalk
<1>2. /\ talkRequest'[q].phase = "idle"
      /\ \A p \in TalkRequests \ {q} : talkRequest'[p] = talkRequest[p]
      /\ talkRequest' \in [TalkRequests -> Handlings \cup {NoTalk}]
    BY <1>1 DEF TalkInv, ConversationTypeOK
<1>3. ConversationTypeOK'
    BY <1>2 DEF TalkInv, ConversationTypeOK
<1>4. SentOnceEach' /\ AllIsTold' /\ NothingIsAhead' /\ WrittenInTime'
    BY DEF TalkInv, SentOnceEach, AllIsTold, NothingIsAhead, WrittenInTime
<1>5. RowsReadAgree' /\ ReadInTime' /\ SendersAreParties'
    BY <1>2 DEF TalkInv, RowsReadAgree, ReadInTime, SendersAreParties, IsOver
<1>6. QED
    BY <1>3, <1>4, <1>5 DEF TalkInv

(* The message is written, and with it the deal as the request read it: what   *)
(* was over stays over, and what others read still agrees.                     *)
LEMMA InsertStep ==
    ASSUME TalkInv, NEW q \in TalkRequests, NEW m \in TalkIds, WriteMessage(q, m) \/ AdminWrites(q, m)
    PROVE  TalkInv'
<1> DEFINE r == talkRequest[q]
           d == r.deal
           new == [deal |-> d, sender |-> r.sender, client |-> r.client, day |-> today]
<1>1. /\ talkMessage[m] = NoMessage /\ talkMessage' = [talkMessage EXCEPT ![m] = new]
      /\ talk' = [talk EXCEPT ![d] = r.row] /\ talkRequest' = [talkRequest EXCEPT ![q] = NoTalk]
      /\ UNCHANGED <<disputed, audits, reads, today>>
      /\ r.phase \in {"sending", "posting"}
    BY DEF WriteMessage, AdminWrites, InsertMessage
<1>2. /\ r \in Handlings /\ d \in TalkDeals /\ r.row \in TalkRow
      /\ r.row.closedOn \in Nat /\ today \in 0 .. MaxDay /\ today \in Nat /\ GraceDays \in Nat
    BY <1>1, TalkIs, ConversationAssumption DEF TalkInv
<1>3. /\ r.phase = "sending" => r.sender \in Talkers /\ r.client \in TalkClientIds
      /\ r.phase = "posting" => r.sender = "none" /\ r.client = "none"
    BY DEF TalkInv, SendersAreParties
<1>4. /\ new \in MessageOf /\ new.deal = d /\ new.sender = r.sender /\ new.client = r.client
      /\ new.day = today
    BY <1>2 DEF MessageOf, Handlings
<1>5. new # NoMessage
    BY <1>2, <1>4, ConversationAssumption DEF NoMessage
<1>6. /\ NoMessage.deal \notin TalkDeals
      /\ \A n \in TalkIds : talkMessage[n].deal \in TalkDeals => n # m
    BY <1>1, ConversationAssumption DEF NoMessage
<1>7. r.phase = "sending" =>
          /\ ~ IsOver(r.row)
          /\ \A n \in TalkIds : talkMessage[n].deal = d => talkMessage[n].client # r.client
    <2>1. r.phase = "sending" => ~ IsOver(r.row)
        BY DEF TalkInv, RowsReadAgree
    <2>2. r.phase = "sending" => ~ IsSentAlready(d, r.client)
        BY DEF WriteMessage, AdminWrites
    <2>3. QED
        BY <2>1, <2>2 DEF IsSentAlready, Of
<1>8. /\ r.phase = "sending" => /\ told' = told \cup ({m} \X (Talkers \ {r.sender}))
                                /\ signed' = signed
      /\ r.phase = "posting" => told' = told /\ signed' = signed \cup {m}
    BY DEF WriteMessage, AdminWrites
<1> HIDE DEF new
<1>9. /\ talkMessage'[m] = new /\ \A n \in TalkIds \ {m} : talkMessage'[n] = talkMessage[n]
      /\ talkMessage' \in [TalkIds -> MessageOf \cup {NoMessage}]
    BY <1>1, <1>4 DEF TalkInv, ConversationTypeOK
<1>10. /\ talk'[d] = r.row /\ \A e \in TalkDeals \ {d} : talk'[e] = talk[e]
       /\ talk' \in [TalkDeals -> TalkRow]
    BY <1>1, <1>2 DEF TalkInv, ConversationTypeOK
<1>11. /\ talkRequest'[q].phase = "idle"
       /\ \A p \in TalkRequests \ {q} : talkRequest'[p] = talkRequest[p]
       /\ talkRequest' \in [TalkRequests -> Handlings \cup {NoTalk}]
    BY <1>1 DEF TalkInv, ConversationTypeOK, NoTalk
<1>12. told' \subseteq TalkIds \X Talkers /\ signed' \subseteq TalkIds
    BY <1>1, <1>8 DEF TalkInv, ConversationTypeOK
<1>13. ConversationTypeOK'
    BY <1>1, <1>9, <1>10, <1>11, <1>12 DEF TalkInv, ConversationTypeOK
<1>14. SentOnceEach'
    <2>1. ASSUME NEW n \in TalkIds, n # m, talkMessage[n].deal = d, r.client # "none"
          PROVE  talkMessage[n].client # r.client
        BY <1>1, <1>3, <1>7, <2>1
    <2>2. QED
        BY <1>4, <1>9, <2>1 DEF TalkInv, SentOnceEach
<1>15. WrittenInTime'
    <2> SUFFICES ASSUME NEW n \in TalkIds, talkMessage'[n].deal \in TalkDeals,
                        talkMessage'[n].sender # "none",
                        talk'[talkMessage'[n].deal].status = "closed"
                 PROVE  talkMessage'[n].day < talk'[talkMessage'[n].deal].closedOn + GraceDays
        BY DEF WrittenInTime
    <2>1. CASE n = m
        <3>1. r.phase = "sending" /\ r.row.status = "closed"
            BY <1>1, <1>3, <1>4, <1>9, <1>10, <2>1
        <3>2. today < r.row.closedOn + GraceDays
            BY <1>2, <1>7, <3>1 DEF IsOver
        <3>3. QED
            BY <1>4, <1>9, <1>10, <2>1, <3>2
    <2>2. CASE n # m /\ talkMessage[n].deal = d
        <3>1. talkMessage'[n] = talkMessage[n] /\ talk'[talkMessage'[n].deal] = r.row
            BY <1>9, <1>10, <2>2
        <3>2. QED
            BY <1>1, <2>2, <3>1 DEF TalkInv, ReadInTime
    <2>3. CASE n # m /\ talkMessage[n].deal # d
        <3>1. talkMessage'[n] = talkMessage[n]
            BY <1>9, <2>3
        <3>2. talk'[talkMessage[n].deal] = talk[talkMessage[n].deal]
            BY <1>10, <2>3, <3>1
        <3>3. QED
            BY <3>1, <3>2 DEF TalkInv, WrittenInTime
    <2>4. QED
        BY <2>1, <2>2, <2>3
<1>16. AllIsTold'
    <2> SUFFICES ASSUME NEW n \in TalkIds
                 PROVE  /\ \A u \in Talkers :
                               <<n, u>> \in told' <=> /\ talkMessage'[n] # NoMessage
                                                      /\ talkMessage'[n].sender \notin {"none", u}
                        /\ n \in signed' <=> /\ talkMessage'[n] # NoMessage
                                             /\ talkMessage'[n].sender = "none"
        BY DEF AllIsTold
    <2>1. /\ \A u \in Talkers : <<n, u>> \in told <=> /\ talkMessage[n] # NoMessage
                                                      /\ talkMessage[n].sender \notin {"none", u}
          /\ n \in signed <=> talkMessage[n] # NoMessage /\ talkMessage[n].sender = "none"
        BY DEF TalkInv, AllIsTold
    <2>2. CASE n # m
        <3>1. talkMessage'[n] = talkMessage[n]
            BY <1>9, <2>2
        <3>2. /\ \A u \in Talkers : <<n, u>> \in told' <=> <<n, u>> \in told
              /\ n \in signed' <=> n \in signed
            BY <1>1, <1>8, <2>2
        <3>3. QED
            BY <2>1, <3>1, <3>2
    <2>3. CASE n = m
        <3>1. /\ \A u \in Talkers : <<m, u>> \notin told
              /\ m \notin signed
            BY <1>1, <2>1, <2>3
        <3>2. talkMessage'[n] = new /\ new # NoMessage /\ new.sender = r.sender
            BY <1>4, <1>5, <1>9, <2>3
        <3>3. CASE r.phase = "sending"
            <4>1. \A u \in Talkers : <<m, u>> \in told' <=> u # r.sender
                BY <1>8, <3>1, <3>3
            <4>2. r.sender # "none"
                BY <1>3, <3>3 DEF Talkers
            <4>3. QED
                BY <1>8, <2>3, <3>1, <3>2, <3>3, <4>1, <4>2
        <3>4. CASE r.phase = "posting"
            BY <1>3, <1>8, <2>3, <3>1, <3>2, <3>4
        <3>5. QED
            BY <1>1, <3>3, <3>4
    <2>4. QED
        BY <2>2, <2>3
<1>17. RowsReadAgree'
    <2> SUFFICES ASSUME NEW p \in TalkRequests, talkRequest'[p].phase # "idle"
                 PROVE  /\ IsOver(talkRequest'[p].row) \/ IsOver(talk'[talkRequest'[p].deal])
                               => talk'[talkRequest'[p].deal] = talkRequest'[p].row
                        /\ talkRequest'[p].phase = "sending" => ~ IsOver(talkRequest'[p].row)
        BY <1>1 DEF RowsReadAgree, IsOver
    <2>1. p # q /\ talkRequest'[p] = talkRequest[p]
        BY <1>11
    <2>2. talkRequest[p].deal \in TalkDeals
        BY <2>1, TalkIs DEF TalkInv
    <2>3. /\ IsOver(talkRequest[p].row) \/ IsOver(talk[talkRequest[p].deal])
                 => talk[talkRequest[p].deal] = talkRequest[p].row
          /\ talkRequest[p].phase = "sending" => ~ IsOver(talkRequest[p].row)
        BY <2>1 DEF TalkInv, RowsReadAgree
    <2>4. IsOver(r.row) \/ IsOver(talk[d]) => talk[d] = r.row
        BY <1>1 DEF TalkInv, RowsReadAgree
    <2>5. CASE talkRequest[p].deal = d
        <3>1. IsOver(talkRequest[p].row) \/ IsOver(r.row) => r.row = talkRequest[p].row
            BY <2>3, <2>4, <2>5
        <3>2. QED
            BY <1>10, <2>1, <2>3, <2>5, <3>1
    <2>6. CASE talkRequest[p].deal # d
        <3>1. talk'[talkRequest[p].deal] = talk[talkRequest[p].deal]
            BY <1>10, <2>2, <2>6
        <3>2. QED
            BY <2>1, <2>3, <3>1 DEF IsOver
    <2>7. QED
        BY <2>5, <2>6
<1>18. ReadInTime'
    <2> SUFFICES ASSUME NEW p \in TalkRequests, NEW n \in TalkIds,
                        talkRequest'[p].phase # "idle",
                        talkMessage'[n].deal = talkRequest'[p].deal,
                        talkMessage'[n].sender # "none", talkRequest'[p].row.status = "closed"
                 PROVE  talkMessage'[n].day < talkRequest'[p].row.closedOn + GraceDays
        BY DEF ReadInTime
    <2>1. p # q /\ talkRequest'[p] = talkRequest[p]
        BY <1>11
    <2>2. CASE n # m
        BY <1>9, <2>1, <2>2 DEF TalkInv, ReadInTime
    <2>3. CASE n = m
        <3>1. r.phase = "sending" /\ talkRequest[p].deal = d
            BY <1>1, <1>3, <1>4, <1>9, <2>1, <2>3
        <3>2. /\ IsOver(talkRequest[p].row) => talk[d] = talkRequest[p].row
              /\ IsOver(talk[d]) => talk[d] = r.row
            BY <1>1, <2>1, <3>1 DEF TalkInv, RowsReadAgree
        <3>3. ~ IsOver(talkRequest[p].row)
            BY <1>7, <3>1, <3>2
        <3>4. talkRequest[p].row.closedOn \in Nat
            BY <2>1, TalkIs, ConversationAssumption DEF TalkInv
        <3>5. talkMessage'[n].day = today
            BY <1>4, <1>9, <2>3
        <3>6. QED
            BY <1>2, <2>1, <3>3, <3>4, <3>5 DEF IsOver
    <2>4. QED
        BY <2>2, <2>3
<1>19. SendersAreParties'
    BY <1>11 DEF TalkInv, SendersAreParties
<1>20. NothingIsAhead'
    BY <1>1, <1>2, <1>4, <1>9 DEF TalkInv, NothingIsAhead
<1>21. QED
    BY <1>1, <1>13, <1>14, <1>15, <1>16, <1>17, <1>18, <1>19, <1>20 DEF TalkInv

LEMMA NextTalkInv == TalkInv /\ [ConversationNext]_conversationVars => TalkInv'
<1> SUFFICES ASSUME TalkInv, [ConversationNext]_conversationVars PROVE TalkInv'
    OBVIOUS
<1>1. ASSUME NEW q \in TalkRequests, NEW d \in TalkDeals, NEW u \in Talkers,
             NEW c \in TalkClientIds, AskToSend(q, d, u, c)
      PROVE  TalkInv'
    BY <1>1, HandlingStep DEF AskToSend
<1>2. ASSUME NEW q \in TalkRequests, NEW d \in TalkDeals, NEW p \in {"posting", "reading"},
             AdminAsks(q, d, p)
      PROVE  TalkInv'
    BY <1>2, HandlingStep DEF AdminAsks
<1>3. ASSUME NEW q \in TalkRequests, ShowConversation(q) PROVE TalkInv'
    <2> DEFINE d == talkRequest[q].deal
    <2>1. /\ audits' = [audits EXCEPT ![d] = audits[d] + 1]
          /\ reads' = [reads EXCEPT ![d] = reads[d] + 1] /\ reads[d] < MaxReads
          /\ talkRequest' = [talkRequest EXCEPT ![q] = NoTalk]
          /\ UNCHANGED <<talk, disputed, talkMessage, told, signed, today>>
          /\ talkRequest[q].phase = "reading"
        BY <1>3 DEF ShowConversation
    <2>2. d \in TalkDeals
        BY <2>1, TalkIs DEF TalkInv
    <2> HIDE DEF d
    <2>3. reads[d] \in 0 .. MaxReads /\ MaxReads \in Nat
        BY <2>2, ConversationAssumption DEF TalkInv, ConversationTypeOK
    <2>4. reads[d] + 1 \in 0 .. MaxReads
        BY <2>1, <2>3
    <2>5. audits' \in [TalkDeals -> 0 .. MaxReads] /\ reads' = audits'
        BY <2>1, <2>2, <2>4 DEF TalkInv, ConversationTypeOK
    <2>6. QED
        BY <2>1, <2>5, RequestEndsStep
<1>4. ASSUME NEW q \in TalkRequests, DropTalk(q) PROVE TalkInv'
    BY <1>4, RequestEndsStep DEF DropTalk, TalkInv, ConversationTypeOK
<1>5. CASE UNCHANGED conversationVars
    <2>1. ConversationTypeOK' /\ SentOnceEach' /\ AllIsTold' /\ NothingIsAhead' /\ WrittenInTime'
        BY <1>5 DEF conversationVars, TalkInv, ConversationTypeOK, SentOnceEach, AllIsTold,
                    NothingIsAhead, WrittenInTime
    <2>2. RowsReadAgree' /\ ReadInTime' /\ SendersAreParties' /\ (audits = reads)'
        BY <1>5 DEF conversationVars, TalkInv, RowsReadAgree, ReadInTime, SendersAreParties, IsOver
    <2>3. QED
        BY <2>1, <2>2 DEF TalkInv
<1>6. QED
    BY <1>1, <1>2, <1>3, <1>4, <1>5, DisputeStep, CloseStep, TalkDayStep, InsertStep
       DEF ConversationNext

(* However requests overlap, fail and are sent again, a message is there once  *)
(* and told once, the administration leaves its mark, and no message is later  *)
(* than the conversation it is in, although every one of them saves the whole  *)
(* deal as it was read (SendMessageUseCase, AdminPostMessageUseCase).          *)
THEOREM ConversationIsAlwaysOnRecord == ConversationSpec => []ConversationIsOnRecord
<1>1. TalkInv => ConversationIsOnRecord
    BY OnRecord
<1>2. QED
    BY <1>1, InitTalkInv, NextTalkInv, PTL DEF ConversationSpec

-----------------------------------------------------------------------------
(* Reviews.  The grade of a row is only written while it is "none", and what a *)
(* buyer is thanked for is never "none"; an answer under way to a review that  *)
(* has one already was there when that one was written.                        *)
AcceptedIsThere == \A pair \in thanked : review[pair[1]].grade = pair[2]

LateAnswersAreKnown ==
    \A q \in ReviewRequests :
        writing[q].phase = "answering" /\ review[writing[q].deal].reply # "none" => q \in overtaken

ReviewsInv == ReviewsTypeOK /\ AcceptedIsThere /\ LateAnswersAreKnown

LEMMA InitReviewsInv == ReviewsInit => ReviewsInv
<1> SUFFICES ASSUME ReviewsInit PROVE ReviewsInv
    OBVIOUS
<1>1. ReviewsTypeOK
    BY DEF ReviewsInit, ReviewsTypeOK, NoReview
<1>2. AcceptedIsThere /\ LateAnswersAreKnown
    BY DEF ReviewsInit, AcceptedIsThere, LateAnswersAreKnown, NoWriting
<1>3. QED
    BY <1>1, <1>2 DEF ReviewsInv

(* What a request under way holds. *)
LEMMA WritingIs ==
    ASSUME ReviewsTypeOK, NEW q \in ReviewRequests
    PROVE  /\ writing[q].phase = "reviewing" => writing[q].deal \in ReviewedDeals
                                                /\ writing[q].grade \in Grades
           /\ writing[q].phase = "answering" => writing[q].deal \in ReviewedDeals
                                                /\ writing[q].answer \in Answers
<1>1. writing[q] \in Writings \cup {NoWriting}
    BY DEF ReviewsTypeOK
<1>2. QED
    BY <1>1 DEF Writings, NoWriting

(* A request that ends, its own row of overtaken being struck out. *)
LEMMA WritingEnds ==
    ASSUME ReviewsTypeOK, NEW q \in ReviewRequests,
           writing' = [writing EXCEPT ![q] = NoWriting]
    PROVE  /\ writing' \in [ReviewRequests -> Writings \cup {NoWriting}]
           /\ writing'[q].phase # "answering"
           /\ \A p \in ReviewRequests \ {q} : writing'[p] = writing[p]
    BY DEF ReviewsTypeOK, NoWriting

LEMMA SubmitReviewStep ==
    ASSUME ReviewsInv, NEW q \in ReviewRequests, NEW d \in ReviewedDeals, NEW g \in Grades,
           SubmitReview(q, d, g)
    PROVE  ReviewsInv'
<1> DEFINE new == [phase |-> "reviewing", deal |-> d, grade |-> g]
<1>1. writing' = [writing EXCEPT ![q] = new] /\ UNCHANGED <<job, review, thanked, overtaken>>
    BY DEF SubmitReview
<1>2. new \in Writings /\ new.phase = "reviewing"
    BY DEF Writings
<1> HIDE DEF new
<1>3. ReviewsTypeOK'
    BY <1>1, <1>2 DEF ReviewsInv, ReviewsTypeOK
<1>4. AcceptedIsThere' /\ LateAnswersAreKnown'
    BY <1>1, <1>2 DEF ReviewsInv, ReviewsTypeOK, AcceptedIsThere, LateAnswersAreKnown
<1>5. QED
    BY <1>3, <1>4 DEF ReviewsInv

LEMMA ReadForReplyStep ==
    ASSUME ReviewsInv, NEW q \in ReviewRequests, NEW d \in ReviewedDeals, NEW a \in Answers,
           ReadForReply(q, d, a)
    PROVE  ReviewsInv'
<1> DEFINE new == [phase |-> "answering", deal |-> d, answer |-> a]
<1>1. /\ writing' = [writing EXCEPT ![q] = new] /\ UNCHANGED <<job, review, thanked, overtaken>>
      /\ review[d].reply = "none"
    BY DEF ReadForReply
<1>2. new \in Writings /\ new.deal = d
    BY DEF Writings
<1> HIDE DEF new
<1>3. ReviewsTypeOK'
    BY <1>1, <1>2 DEF ReviewsInv, ReviewsTypeOK
<1>4. AcceptedIsThere' /\ LateAnswersAreKnown'
    BY <1>1, <1>2 DEF ReviewsInv, ReviewsTypeOK, AcceptedIsThere, LateAnswersAreKnown
<1>5. QED
    BY <1>3, <1>4 DEF ReviewsInv

(* The review that is kept is the one that was there, if there was one. *)
LEMMA WriteReviewStep ==
    ASSUME ReviewsInv, NEW q \in ReviewRequests, WriteReview(q)
    PROVE  ReviewsInv'
<1> DEFINE d == writing[q].deal
           g == writing[q].grade
           kept == ReviewKept(d, g)
           row == [review[d] EXCEPT !.grade = kept]
<1>1. /\ review' = [review EXCEPT ![d] = row]
      /\ thanked' = IF kept = g THEN thanked \cup {<<d, g>>} ELSE thanked
      /\ writing' = [writing EXCEPT ![q] = NoWriting] /\ UNCHANGED <<job, overtaken>>
      /\ d \in ReviewedDeals /\ g \in Grades
    BY WritingIs DEF WriteReview, ReviewsInv
<1>2. /\ review[d] \in [grade : Grades \cup {"none"}, reply : Answers \cup {"none"}]
      /\ kept \in Grades
      /\ review[d].grade # "none" => kept = review[d].grade
    BY <1>1 DEF ReviewsInv, ReviewsTypeOK, ReviewKept
<1> HIDE DEF d, g, kept
<1>3. /\ row \in [grade : Grades \cup {"none"}, reply : Answers \cup {"none"}]
      /\ row.grade = kept /\ row.reply = review[d].reply
    BY <1>2
<1> HIDE DEF row
<1>4. /\ review'[d] = row /\ \A e \in ReviewedDeals \ {d} : review'[e] = review[e]
      /\ thanked' \subseteq ReviewedDeals \X Grades
    BY <1>1 DEF ReviewsInv, ReviewsTypeOK
<1>5. ReviewsTypeOK'
    BY <1>1, <1>3, <1>4, WritingEnds DEF ReviewsInv, ReviewsTypeOK
<1>6. AcceptedIsThere'
    <2> SUFFICES ASSUME NEW pair \in thanked' PROVE review'[pair[1]].grade = pair[2]
        BY DEF AcceptedIsThere
    <2>1. CASE pair \in thanked
        <3>1. review[pair[1]].grade = pair[2] /\ pair[1] \in ReviewedDeals /\ pair[2] # "none"
            BY <2>1, ReviewsAssumption DEF ReviewsInv, AcceptedIsThere, ReviewsTypeOK
        <3>2. CASE pair[1] = d
            <4>1. review[d].grade = pair[2]
                BY <3>1, <3>2
            <4>2. review'[pair[1]] = row
                BY <1>4, <3>2
            <4>3. QED
                BY <1>2, <1>3, <3>1, <4>1, <4>2
        <3>3. CASE pair[1] # d
            BY <1>4, <3>1, <3>3
        <3>4. QED
            BY <3>2, <3>3
    <2>2. CASE pair = <<d, g>> /\ kept = g
        BY <1>3, <1>4, <2>2
    <2>3. QED
        BY <1>1, <2>1, <2>2
<1>7. LateAnswersAreKnown'
    <2> SUFFICES ASSUME NEW p \in ReviewRequests, writing'[p].phase = "answering",
                        review'[writing'[p].deal].reply # "none"
                 PROVE  p \in overtaken'
        BY DEF LateAnswersAreKnown
    <2>1. writing'[p] = writing[p] /\ writing[p].deal \in ReviewedDeals
        BY <1>1, WritingEnds, WritingIs DEF ReviewsInv
    <2>2. review'[writing[p].deal].reply = review[writing[p].deal].reply
        BY <1>3, <1>4, <2>1
    <2>3. QED
        BY <1>1, <2>1, <2>2 DEF ReviewsInv, LateAnswersAreKnown
<1>8. QED
    BY <1>5, <1>6, <1>7 DEF ReviewsInv

(* Whoever was answering the same review is overtaken from here on. *)
LEMMA SaveReplyStep ==
    ASSUME ReviewsInv, NEW q \in ReviewRequests, SaveReply(q)
    PROVE  ReviewsInv'
<1> DEFINE d == writing[q].deal
           row == [review[d] EXCEPT !.reply = writing[q].answer]
<1>1. /\ review' = [review EXCEPT ![d] = row]
      /\ overtaken' = (overtaken \cup AnsweringAt(d)) \ {q}
      /\ writing' = [writing EXCEPT ![q] = NoWriting] /\ UNCHANGED <<job, thanked>>
      /\ d \in ReviewedDeals /\ writing[q].answer \in Answers
    BY WritingIs DEF SaveReply, ReviewsInv
<1>2. review[d] \in [grade : Grades \cup {"none"}, reply : Answers \cup {"none"}]
    BY <1>1 DEF ReviewsInv, ReviewsTypeOK
<1>3. /\ row \in [grade : Grades \cup {"none"}, reply : Answers \cup {"none"}]
      /\ row.grade = review[d].grade
    BY <1>1, <1>2
<1> HIDE DEF d, row
<1>4. review'[d] = row /\ \A e \in ReviewedDeals \ {d} : review'[e] = review[e]
    BY <1>1 DEF ReviewsInv, ReviewsTypeOK
<1>5. overtaken' \subseteq ReviewRequests
    BY <1>1 DEF ReviewsInv, ReviewsTypeOK, AnsweringAt
<1>6. ReviewsTypeOK'
    BY <1>1, <1>3, <1>5, WritingEnds DEF ReviewsInv, ReviewsTypeOK
<1>7. AcceptedIsThere'
    BY <1>1, <1>3, <1>4 DEF ReviewsInv, AcceptedIsThere, ReviewsTypeOK
<1>8. LateAnswersAreKnown'
    <2> SUFFICES ASSUME NEW p \in ReviewRequests, writing'[p].phase = "answering",
                        review'[writing'[p].deal].reply # "none"
                 PROVE  p \in overtaken'
        BY DEF LateAnswersAreKnown
    <2>1. p # q /\ writing'[p] = writing[p] /\ writing[p].deal \in ReviewedDeals
        BY <1>1, WritingEnds, WritingIs DEF ReviewsInv
    <2>2. CASE writing[p].deal = d
        BY <1>1, <2>1, <2>2 DEF AnsweringAt
    <2>3. CASE writing[p].deal # d
        BY <1>1, <1>4, <2>1, <2>3 DEF ReviewsInv, LateAnswersAreKnown
    <2>4. QED
        BY <2>2, <2>3
<1>9. QED
    BY <1>6, <1>7, <1>8 DEF ReviewsInv

LEMMA NextReviewsInv == ReviewsInv /\ [ReviewsNext]_reviewsVars => ReviewsInv'
<1> SUFFICES ASSUME ReviewsInv, [ReviewsNext]_reviewsVars PROVE ReviewsInv'
    OBVIOUS
<1>1. ASSUME NEW d \in ReviewedDeals, NEW s \in {"APPROVED", "PAID"}, JobGoesOn(d, s)
      PROVE  ReviewsInv'
    BY <1>1 DEF JobGoesOn, ReviewsInv, ReviewsTypeOK, AcceptedIsThere, LateAnswersAreKnown
<1>2. ASSUME NEW q \in ReviewRequests, NEW d \in ReviewedDeals, NEW g \in Grades,
             SubmitAgain(q, d, g)
      PROVE  ReviewsInv'
    BY <1>2 DEF SubmitAgain, ReviewsInv, ReviewsTypeOK, AcceptedIsThere, LateAnswersAreKnown
<1>3. ASSUME NEW q \in ReviewRequests, DropReview(q) PROVE ReviewsInv'
    <2>1. /\ writing' = [writing EXCEPT ![q] = NoWriting] /\ overtaken' = overtaken \ {q}
          /\ UNCHANGED <<job, review, thanked>>
        BY <1>3 DEF DropReview
    <2>2. ReviewsTypeOK' /\ AcceptedIsThere'
        BY <2>1, WritingEnds DEF ReviewsInv, ReviewsTypeOK, AcceptedIsThere
    <2>3. LateAnswersAreKnown'
        BY <2>1, WritingEnds DEF ReviewsInv, LateAnswersAreKnown
    <2>4. QED
        BY <2>2, <2>3 DEF ReviewsInv
<1>4. CASE UNCHANGED reviewsVars
    BY <1>4 DEF reviewsVars, ReviewsInv, ReviewsTypeOK, AcceptedIsThere, LateAnswersAreKnown
<1>5. QED
    BY <1>1, <1>2, <1>3, <1>4, SubmitReviewStep, ReadForReplyStep, WriteReviewStep, SaveReplyStep
       DEF ReviewsNext

(* Only saveReply writes an answer; when there is one already, the answer that *)
(* replaces it is one that was overtaken.                                      *)
LEMMA AnswersStay ==
    ASSUME ReviewsInv, [ReviewsNext]_reviewsVars, NEW d \in ReviewedDeals,
           review[d].reply # "none", review'[d].reply # review[d].reply
    PROVE  \E q \in overtaken : q \in AnsweringAt(d)
<1>1. ASSUME NEW q \in ReviewRequests, WriteReview(q) PROVE review'[d].reply = review[d].reply
    <2> DEFINE e == writing[q].deal
               row == [review[e] EXCEPT !.grade = ReviewKept(e, writing[q].grade)]
    <2>1. review' = [review EXCEPT ![e] = row] /\ e \in ReviewedDeals
        BY <1>1, WritingIs DEF WriteReview, ReviewsInv
    <2>2. review[e] \in [grade : Grades \cup {"none"}, reply : Answers \cup {"none"}]
        BY <2>1 DEF ReviewsInv, ReviewsTypeOK
    <2>3. row.reply = review[e].reply
        BY <2>2
    <2> HIDE DEF e, row
    <2>4. QED
        BY <2>1, <2>3 DEF ReviewsInv, ReviewsTypeOK
<1>2. ASSUME NEW q \in ReviewRequests, SaveReply(q)
      PROVE  \E p \in overtaken : p \in AnsweringAt(d)
    <2> DEFINE e == writing[q].deal
               row == [review[e] EXCEPT !.reply = writing[q].answer]
    <2>1. review' = [review EXCEPT ![e] = row] /\ writing[q].phase = "answering"
        BY <1>2 DEF SaveReply
    <2> HIDE DEF row
    <2>2. e = d
        BY <2>1 DEF ReviewsInv, ReviewsTypeOK
    <2>3. q \in overtaken /\ q \in AnsweringAt(d)
        BY <2>1, <2>2 DEF ReviewsInv, LateAnswersAreKnown, AnsweringAt
    <2>4. QED
        BY <2>3
<1>3. CASE UNCHANGED review
    BY <1>3
<1>4. QED
    BY <1>1, <1>2, <1>3 DEF ReviewsNext, reviewsVars, JobGoesOn, SubmitReview, SubmitAgain,
                            ReadForReply, DropReview

(* A buyer who was told the review is accepted finds that very one, and an     *)
(* answer is only replaced by one that was under way when it was written       *)
(* (SubmitReviewUseCase, ReplyToReviewUseCase).                                *)
THEOREM AcceptedReviewsStay == ReviewsSpec => WhatIsPublishedStays
<1>1. ReviewsInv => AcceptedIsThere
    BY DEF ReviewsInv
<1>2. ReviewsInv /\ [ReviewsNext]_reviewsVars
      => [\A d \in ReviewedDeals :
             review[d].reply # "none" /\ review'[d].reply # review[d].reply
             => \E q \in overtaken : q \in AnsweringAt(d)]_reviewsVars
    BY AnswersStay
<1>3. ReviewsSpec => []ReviewsInv
    BY InitReviewsInv, NextReviewsInv, PTL DEF ReviewsSpec
<1>4. QED
    BY <1>1, <1>2, <1>3, PTL DEF ReviewsSpec, WhatIsPublishedStays, AcceptedIsThere

-----------------------------------------------------------------------------
(* Catalogue.  A change of a profile that is under way, and was not overtaken, *)
(* holds the settings the profile has: what it writes back is what is there,   *)
(* but for the one setting that was sent.                                      *)
UnlessStale ==
    \A q \in CatalogueRequests :
        editing[q].phase = "updating" /\ q \notin stale =>
            editing[q].settings = profile[editing[q].creator].settings

UpdatedIsThere ==
    \A q \in CatalogueRequests :
        editing[q].phase = "updating" => profile[editing[q].creator] # NoProfile

CatalogueInv == CatalogueTypeOK /\ PriceFollowsContent /\ UnlessStale /\ UpdatedIsThere

LEMMA InitCatalogueInv == CatalogueInit => CatalogueInv
<1> SUFFICES ASSUME CatalogueInit PROVE CatalogueInv
    OBVIOUS
<1>1. CatalogueTypeOK
    BY DEF CatalogueInit, CatalogueTypeOK
<1>2. PriceFollowsContent /\ UnlessStale /\ UpdatedIsThere
    BY DEF CatalogueInit, PriceFollowsContent, UnlessStale, UpdatedIsThere, NoEdit
<1>3. QED
    BY <1>1, <1>2 DEF CatalogueInv

(* What a request under way holds. *)
LEMMA EditIs ==
    ASSUME CatalogueTypeOK, NEW q \in CatalogueRequests
    PROVE  /\ editing[q].phase = "creating" => editing[q].creator \in Sellers
                                               /\ editing[q].handle \in Handles
           /\ editing[q].phase = "updating" => /\ editing[q].creator \in Sellers
                                               /\ editing[q].field \in {"hide", "show", "other"}
                                               /\ editing[q].settings \in Settings
           /\ editing[q].phase = "repricing" => editing[q].item \in Items
                                                /\ editing[q].row \in OfferRow
<1>1. editing[q] \in Edits \cup {NoEdit}
    BY DEF CatalogueTypeOK
<1>2. QED
    BY <1>1 DEF Edits, NoEdit

LEMMA EditEnds ==
    ASSUME CatalogueTypeOK, NEW q \in CatalogueRequests, EndEdit(q)
    PROVE  /\ editing' \in [CatalogueRequests -> Edits \cup {NoEdit}]
           /\ editing'[q].phase = "idle"
           /\ \A p \in CatalogueRequests \ {q} : editing'[p] = editing[p]
    BY DEF CatalogueTypeOK, EndEdit, NoEdit

(* Merging leaves a setting that is not sent as it was. *)
LEMMA MergedIs ==
    ASSUME NEW settings \in Settings, NEW field \in {"hide", "show", "other"}
    PROVE  /\ MergedSettings(settings, field) \in Settings
           /\ field = "hide" => ~ MergedSettings(settings, field).visible
           /\ field = "other" => MergedSettings(settings, field).visible = settings.visible
<1>1. CASE field = "hide"
    BY <1>1 DEF Settings, MergedSettings
<1>2. CASE field = "show"
    BY <1>2 DEF Settings, MergedSettings
<1>3. CASE field = "other"
    BY <1>3 DEF Settings, MergedSettings
<1>4. QED
    BY <1>1, <1>2, <1>3

(* A request that begins holds the settings it has just read. *)
LEMMA EditStep ==
    ASSUME CatalogueInv, NEW q \in CatalogueRequests, NEW edit \in Edits, Edit(q, edit),
           edit.phase = "updating" => /\ edit.settings = profile[edit.creator].settings
                                      /\ profile[edit.creator] # NoProfile
    PROVE  CatalogueInv'
<1>1. /\ editing' = [editing EXCEPT ![q] = edit] /\ stale' = stale \ {q}
      /\ UNCHANGED <<profile, item, offer, repriced>>
    BY DEF Edit
<1>2. /\ editing'[q] = edit /\ \A p \in CatalogueRequests \ {q} : editing'[p] = editing[p]
      /\ editing' \in [CatalogueRequests -> Edits \cup {NoEdit}]
    BY <1>1 DEF CatalogueInv, CatalogueTypeOK
<1>3. CatalogueTypeOK'
    BY <1>1, <1>2 DEF CatalogueInv, CatalogueTypeOK
<1>4. PriceFollowsContent'
    BY <1>1 DEF CatalogueInv, PriceFollowsContent
<1>5. UnlessStale' /\ UpdatedIsThere'
    BY <1>1, <1>2 DEF CatalogueInv, UnlessStale, UpdatedIsThere
<1>6. QED
    BY <1>3, <1>4, <1>5 DEF CatalogueInv

(* Nobody is changing a profile that does not exist yet. *)
LEMMA CreateProfileStep ==
    ASSUME CatalogueInv, NEW q \in CatalogueRequests, CreateProfile(q)
    PROVE  CatalogueInv'
<1> DEFINE c == editing[q].creator
           h == editing[q].handle
           new == [handle |-> h, settings |-> [visible |-> TRUE, other |-> "as before"]]
<1>1. /\ profile' = IF profile[c] # NoProfile \/ HasHandle(h) THEN profile
                    ELSE [profile EXCEPT ![c] = new]
      /\ EndEdit(q) /\ UNCHANGED <<item, offer, repriced, stale>>
      /\ c \in Sellers /\ h \in Handles
    BY EditIs DEF CreateProfile, CatalogueInv
<1>2. new \in [handle : Handles, settings : Settings] /\ new.handle = h
    BY <1>1 DEF Settings
<1> HIDE DEF c, h, new
<1>3. CatalogueTypeOK'
    <2>1. profile' \in [Sellers -> [handle : Handles, settings : Settings] \cup {NoProfile}]
        BY <1>1, <1>2 DEF CatalogueInv, CatalogueTypeOK
    <2>2. ASSUME NEW a \in Sellers, NEW b \in Sellers,
                 profile'[a].handle = profile'[b].handle, profile'[a] # NoProfile
          PROVE  a = b
        <3>1. CASE profile' = profile
            BY <2>2, <3>1 DEF CatalogueInv, CatalogueTypeOK
        <3>2. CASE profile' = [profile EXCEPT ![c] = new] /\ ~ HasHandle(h)
            <4>1. \A e \in Sellers : profile[e].handle # h
                BY <3>2 DEF HasHandle
            <4>2. profile'[c] = new /\ \A e \in Sellers \ {c} : profile'[e] = profile[e]
                BY <1>1, <3>2 DEF CatalogueInv, CatalogueTypeOK
            <4>3. CASE a = c \/ b = c
                BY <1>2, <2>2, <4>1, <4>2, <4>3
            <4>4. CASE a # c /\ b # c
                BY <2>2, <4>2, <4>4 DEF CatalogueInv, CatalogueTypeOK
            <4>5. QED
                BY <4>3, <4>4
        <3>3. QED
            BY <1>1, <3>1, <3>2
    <2>3. QED
        BY <1>1, <2>1, <2>2, EditEnds DEF CatalogueInv, CatalogueTypeOK
<1>4. PriceFollowsContent'
    BY <1>1 DEF CatalogueInv, PriceFollowsContent
<1>5. ASSUME NEW p \in CatalogueRequests, editing'[p].phase = "updating"
      PROVE  editing'[p] = editing[p] /\ profile'[editing[p].creator] = profile[editing[p].creator]
    <2>1. p # q /\ editing'[p] = editing[p]
        BY <1>1, <1>5, EditEnds DEF CatalogueInv
    <2>2. editing[p].creator \in Sellers /\ profile[editing[p].creator] # NoProfile
        BY <1>5, <2>1, EditIs DEF CatalogueInv, UpdatedIsThere
    <2>3. QED
        BY <1>1, <2>1, <2>2 DEF CatalogueInv, CatalogueTypeOK
<1>6. UnlessStale' /\ UpdatedIsThere'
    BY <1>1, <1>5 DEF CatalogueInv, UnlessStale, UpdatedIsThere
<1>7. QED
    BY <1>3, <1>4, <1>6 DEF CatalogueInv

(* Whoever else is changing the same profile is stale from here on. *)
LEMMA UpdateProfileStep ==
    ASSUME CatalogueInv, NEW q \in CatalogueRequests, UpdateProfile(q)
    PROVE  CatalogueInv'
<1> DEFINE c == editing[q].creator
           merged == MergedSettings(editing[q].settings, editing[q].field)
           row == [profile[c] EXCEPT !.settings = merged]
<1>1. /\ profile' = [profile EXCEPT ![c] = row]
      /\ stale' = (stale \cup {p \in CatalogueRequests : /\ editing[p].phase = "updating"
                                                         /\ editing[p].creator = c}) \ {q}
      /\ EndEdit(q) /\ UNCHANGED <<item, offer, repriced>>
      /\ c \in Sellers /\ profile[c] # NoProfile
    BY EditIs DEF UpdateProfile, CatalogueInv, UpdatedIsThere
<1>2. merged \in Settings /\ profile[c] \in [handle : Handles, settings : Settings]
    <2>1. editing[q].phase = "updating"
        BY DEF UpdateProfile
    <2>2. QED
        BY <1>1, <2>1, EditIs, MergedIs DEF CatalogueInv, CatalogueTypeOK
<1> HIDE DEF c, merged
<1>3. row \in [handle : Handles, settings : Settings] /\ row.handle = profile[c].handle
    BY <1>2
<1>4. row.handle \in Handles /\ row # NoProfile
    BY <1>3, CatalogueAssumption DEF NoProfile
<1> HIDE DEF row
<1>5. profile'[c] = row /\ \A e \in Sellers \ {c} : profile'[e] = profile[e]
    BY <1>1 DEF CatalogueInv, CatalogueTypeOK
<1>6. CatalogueTypeOK'
    <2>1. profile' \in [Sellers -> [handle : Handles, settings : Settings] \cup {NoProfile}]
        BY <1>1, <1>3 DEF CatalogueInv, CatalogueTypeOK
    <2>2. \A e \in Sellers : /\ profile'[e].handle = profile[e].handle
                             /\ profile'[e] # NoProfile => profile[e] # NoProfile
        BY <1>1, <1>3, <1>5
    <2>3. \A a, b \in Sellers :
              profile'[a].handle = profile'[b].handle /\ profile'[a] # NoProfile => a = b
        BY <2>2 DEF CatalogueInv, CatalogueTypeOK
    <2>4. stale' \subseteq CatalogueRequests
        BY <1>1 DEF CatalogueInv, CatalogueTypeOK
    <2>5. QED
        BY <1>1, <2>1, <2>3, <2>4, EditEnds DEF CatalogueInv, CatalogueTypeOK
<1>7. PriceFollowsContent'
    BY <1>1 DEF CatalogueInv, PriceFollowsContent
<1>8. ASSUME NEW p \in CatalogueRequests, editing'[p].phase = "updating"
      PROVE  /\ p # q /\ editing'[p] = editing[p] /\ editing[p].creator \in Sellers
             /\ editing[p].creator = c => p \in stale'
    BY <1>1, <1>8, EditEnds, EditIs DEF CatalogueInv
<1>9. UnlessStale'
    BY <1>1, <1>5, <1>8 DEF CatalogueInv, UnlessStale
<1>10. UpdatedIsThere'
    BY <1>4, <1>5, <1>8 DEF CatalogueInv, UpdatedIsThere
<1>11. QED
    BY <1>6, <1>7, <1>9, <1>10 DEF CatalogueInv

(* The offer follows what is saved, whatever it was before. *)
LEMMA SaveContentStep ==
    ASSUME CatalogueInv, NEW i \in Items, NEW row \in ContentRow, SaveContent(i, row)
    PROVE  CatalogueInv'
<1> DEFINE sold == [status |-> "ACTIVE", price |-> row.price]
<1>1. /\ item' = [item EXCEPT ![i] = row]
      /\ offer' = IF ~ ForSale(row) THEN offer ELSE [offer EXCEPT ![i] = sold]
      /\ repriced' = IF ForSale(row) THEN repriced \ {i} ELSE repriced
      /\ UNCHANGED <<profile, editing, stale>>
    BY DEF SaveContent, EnsureUnlockOffer
<1>2. sold \in OfferRow
    BY DEF OfferRow, ContentRow
<1>3. /\ item'[i] = row /\ \A j \in Items \ {i} : item'[j] = item[j]
      /\ item' \in [Items -> ContentRow \cup {NoItem}]
    BY <1>1 DEF CatalogueInv, CatalogueTypeOK
<1>4. /\ ForSale(row) => offer'[i] = sold
      /\ \A j \in Items \ {i} : offer'[j] = offer[j]
      /\ offer' \in [Items -> OfferRow \cup {NoOffer}]
    BY <1>1, <1>2 DEF CatalogueInv, CatalogueTypeOK
<1>5. CatalogueTypeOK'
    BY <1>1, <1>3, <1>4 DEF CatalogueInv, CatalogueTypeOK
<1>6. PriceFollowsContent'
    BY <1>1, <1>3, <1>4 DEF CatalogueInv, PriceFollowsContent, ForSale
<1>7. UnlessStale' /\ UpdatedIsThere'
    BY <1>1 DEF CatalogueInv, UnlessStale, UpdatedIsThere
<1>8. QED
    BY <1>5, <1>6, <1>7 DEF CatalogueInv

LEMMA UpdateOfferStep ==
    ASSUME CatalogueInv, NEW q \in CatalogueRequests, UpdateOffer(q) \/ DropEdit(q)
    PROVE  CatalogueInv'
<1>1. EndEdit(q) /\ UNCHANGED <<profile, item, stale>>
    BY DEF UpdateOffer, DropEdit
<1>2. offer' \in [Items -> OfferRow \cup {NoOffer}] /\ repriced' \subseteq Items
    BY EditIs DEF UpdateOffer, DropEdit, CatalogueInv, CatalogueTypeOK
<1>3. CatalogueTypeOK'
    BY <1>1, <1>2, EditEnds DEF CatalogueInv, CatalogueTypeOK
<1>4. PriceFollowsContent'
    <2>1. \A i \in Items : i \notin repriced' => offer'[i] = offer[i] /\ i \notin repriced
        BY DEF UpdateOffer, DropEdit, CatalogueInv, CatalogueTypeOK
    <2>2. QED
        BY <1>1, <2>1 DEF CatalogueInv, PriceFollowsContent
<1>5. \A p \in CatalogueRequests : editing'[p].phase = "updating" => editing'[p] = editing[p]
    BY <1>1, EditEnds DEF CatalogueInv
<1>6. UnlessStale' /\ UpdatedIsThere'
    BY <1>1, <1>5 DEF CatalogueInv, UnlessStale, UpdatedIsThere
<1>7. QED
    BY <1>3, <1>4, <1>6 DEF CatalogueInv

LEMMA NextCatalogueInv == CatalogueInv /\ [CatalogueNext]_catalogueVars => CatalogueInv'
<1> SUFFICES ASSUME CatalogueInv, [CatalogueNext]_catalogueVars PROVE CatalogueInv'
    OBVIOUS
<1>1. ASSUME NEW q \in CatalogueRequests, NEW c \in Sellers, NEW h \in Handles,
             AskForProfile(q, c, h)
      PROVE  CatalogueInv'
    <2> DEFINE new == [phase |-> "creating", creator |-> c, handle |-> h]
    <2>1. Edit(q, new) /\ new \in Edits /\ new.phase = "creating"
        BY <1>1 DEF AskForProfile, Edits
    <2> HIDE DEF new
    <2>2. QED
        BY <2>1, EditStep
<1>2. ASSUME NEW q \in CatalogueRequests, NEW c \in Sellers, NEW s \in {"hide", "show", "other"},
             ReadProfile(q, c, s)
      PROVE  CatalogueInv'
    <2> DEFINE new == [phase |-> "updating", creator |-> c, field |-> s,
                       settings |-> profile[c].settings]
    <2>1. profile[c] # NoProfile /\ profile[c].settings \in Settings
        BY <1>2 DEF ReadProfile, CatalogueInv, CatalogueTypeOK
    <2>2. /\ Edit(q, new) /\ new \in Edits /\ new.creator = c
          /\ new.settings = profile[c].settings
        BY <1>2, <2>1 DEF ReadProfile, Edits
    <2> HIDE DEF new
    <2>3. QED
        BY <2>1, <2>2, EditStep
<1>3. ASSUME NEW q \in CatalogueRequests, NEW i \in Items, NEW row \in OfferRow,
             ReadOffer(q, i, row)
      PROVE  CatalogueInv'
    <2> DEFINE new == [phase |-> "repricing", item |-> i, row |-> row]
    <2>1. Edit(q, new) /\ new \in Edits /\ new.phase = "repricing"
        BY <1>3 DEF ReadOffer, Edits
    <2> HIDE DEF new
    <2>2. QED
        BY <2>1, EditStep
<1>4. CASE UNCHANGED catalogueVars
    BY <1>4 DEF catalogueVars, CatalogueInv, CatalogueTypeOK, PriceFollowsContent, UnlessStale,
                UpdatedIsThere
<1>5. QED
    BY <1>1, <1>2, <1>3, <1>4, CreateProfileStep, UpdateProfileStep, UpdateOfferStep,
       SaveContentStep
       DEF CatalogueNext

(* Of the requests that end, only the one that writes the profile changes it. *)
LEMMA ChangeOfAHiddenProfile ==
    ASSUME CatalogueInv, CatalogueNext, NEW c \in Sellers, NEW q \in CatalogueRequests,
           profile' # profile, editing[q].phase = "updating", editing'[q] = NoEdit
    PROVE  UpdateProfile(q)
<1>1. ASSUME NEW p \in CatalogueRequests, CreateProfile(p) \/ UpdateProfile(p)
      PROVE  p = q
    <2>1. EndEdit(p)
        BY <1>1 DEF CreateProfile, UpdateProfile
    <2>2. editing[q] # NoEdit
        BY DEF NoEdit
    <2>3. QED
        BY <2>1, <2>2 DEF EndEdit, CatalogueInv, CatalogueTypeOK
<1>2. ~ CreateProfile(q)
    BY DEF CreateProfile
<1>3. QED
    BY <1>1, <1>2 DEF CatalogueNext, AskForProfile, ReadProfile, ReadOffer, Edit, UpdateOffer,
                      DropEdit, SaveContent

(* What unlocks content costs what the content says, unless the offer itself   *)
(* was edited since (SaveContentUseCase, ensureUnlockOffer).                   *)
THEOREM PriceAlwaysFollowsContent == CatalogueSpec => []PriceFollowsContent
<1>1. CatalogueInv => PriceFollowsContent
    BY DEF CatalogueInv
<1>2. QED
    BY <1>1, InitCatalogueInv, NextCatalogueInv, PTL DEF CatalogueSpec

(* A change of something else does not show a hidden profile again, unless it  *)
(* was read before the profile was hidden (UpdateProfileUseCase).              *)
THEOREM HiddenProfilesStayHidden == CatalogueSpec => HiddenUntilShown
<1>1. ASSUME CatalogueInv, [CatalogueNext]_catalogueVars, NEW c \in Sellers,
             NEW q \in CatalogueRequests, profile[c] # NoProfile, profile' # profile,
             editing[q].phase = "updating", editing'[q] = NoEdit, editing[q].creator = c,
             editing[q].field # "show", q \notin stale, Visible(c)'
      PROVE  Visible(c)
    <2> DEFINE merged == MergedSettings(editing[q].settings, editing[q].field)
               row == [profile[c] EXCEPT !.settings = merged]
    <2>1. CatalogueNext
        BY <1>1 DEF catalogueVars
    <2>2. UpdateProfile(q)
        BY <1>1, <2>1, ChangeOfAHiddenProfile
    <2>3. profile' = [profile EXCEPT ![c] = row]
        BY <1>1, <2>2 DEF UpdateProfile
    <2>4. /\ editing[q].settings = profile[c].settings
          /\ editing[q].settings \in Settings /\ editing[q].field \in {"hide", "other"}
        BY <1>1, EditIs DEF CatalogueInv, UnlessStale
    <2>5. merged.visible => profile[c].settings.visible
        BY <2>4, MergedIs
    <2>6. profile[c] \in [handle : Handles, settings : Settings]
        BY <1>1 DEF CatalogueInv, CatalogueTypeOK
    <2> HIDE DEF merged
    <2>7. row.settings = merged
        BY <2>6
    <2> HIDE DEF row
    <2>8. profile'[c].settings = merged
        BY <1>1, <2>3, <2>7 DEF CatalogueInv, CatalogueTypeOK
    <2>9. QED
        BY <1>1, <2>5, <2>8 DEF Visible
<1>2. CatalogueInv /\ [CatalogueNext]_catalogueVars
      => [\A c \in Sellers : \A q \in CatalogueRequests :
              /\ profile[c] # NoProfile /\ profile' # profile
              /\ editing[q].phase = "updating" /\ editing'[q] = NoEdit
              /\ editing[q].creator = c /\ editing[q].field # "show" /\ q \notin stale
              => (Visible(c)' => Visible(c))]_catalogueVars
    BY <1>1
<1>3. CatalogueSpec => []CatalogueInv
    BY InitCatalogueInv, NextCatalogueInv, PTL DEF CatalogueSpec
<1>4. QED
    BY <1>2, <1>3, PTL DEF CatalogueSpec, HiddenUntilShown

-----------------------------------------------------------------------------
(* Media.  The file of an upload that has not ended is there, has no row yet   *)
(* and belongs to no other upload: so the one who removes it takes nobody      *)
(* else's file away.                                                           *)
UploadsAreFiles ==
    \A q \in Uploads : upload[q].phase = "written" =>
        /\ upload[q].media \in files \ media
        /\ \A p \in Uploads \ {q} : upload[p].phase = "written" => upload[p].media # upload[q].media

(* What a reading has asked so far is not against it, and what it was told of  *)
(* the content decides what is left.                                           *)
Checked(r) ==
    LET l       == r.link
        isOwner == l.reader = MediaOwner
        isShown == l.media \in r.item.media /\ (isOwner \/ r.item.status = "PUBLISHED")
        isFree  == r.item.visibility = "PUBLIC" \/ l.media \in r.item.preview
    IN  /\ "link" \notin r.withdrawn
        /\ l.content = "none" =>
               r.phase \in {"account", "file", "served"} /\ r.withdrawn \subseteq AccountReasons
        /\ r.phase # "account" => "account" \notin r.withdrawn
        /\ r.phase = "profile" /\ isShown => "content" \notin r.withdrawn
        /\ r.phase \in {"profile", "grant"} /\ isShown /\ isFree => "payment" \notin r.withdrawn
        /\ r.phase = "grant" => isShown /\ r.withdrawn \subseteq {"payment"}
        /\ r.phase \in {"file", "served"} => r.withdrawn = {}

(* What is left against a reading is against it now.                           *)
ReadingIsChecked ==
    /\ reading # NoReading => Checked(reading)
    /\ IsReading => reading.withdrawn \subseteq Against(reading.link, World)

MediaInv == MediaTypeOK /\ EveryMediaHasItsFile /\ UploadsAreFiles /\ ReadingIsChecked

LEMMA InitMediaInv == MediaInit => MediaInv
<1> SUFFICES ASSUME MediaInit PROVE MediaInv
    OBVIOUS
<1>1. MediaTypeOK
    BY MediaAccessAssumption DEF MediaInit, MediaTypeOK
<1>2. EveryMediaHasItsFile /\ UploadsAreFiles
    BY DEF MediaInit, EveryMediaHasItsFile, UploadsAreFiles, NoUpload, NoContent
<1>3. ReadingIsChecked
    BY DEF MediaInit, ReadingIsChecked, IsReading, NoReading
<1>4. QED
    BY <1>1, <1>2, <1>3 DEF MediaInv

(* A step that leaves files, uploads and content alone. *)
LEMMA FilesKept ==
    ASSUME MediaInv, UNCHANGED <<files, media, upload, content>>
    PROVE  EveryMediaHasItsFile' /\ UploadsAreFiles'
    BY DEF MediaInv, EveryMediaHasItsFile, UploadsAreFiles

(* A step of something else, while a reading goes on. *)
LEMMA ReadingKept ==
    ASSUME MediaInv, UNCHANGED <<clock, content, public, grant, suspended, reading>>
    PROVE  ReadingIsChecked'
    BY DEF MediaInv, ReadingIsChecked, IsReading, World

Phases == {"account", "item", "profile", "grant", "file", "served"}

Readings(S) == [phase : Phases, link : S, item : ContentItem \cup {NoContent},
                withdrawn : SUBSET Reasons]

LEMMA ReadingIs ==
    ASSUME MediaTypeOK
    PROVE  reading \in Readings(link) \cup {NoReading} /\ (IsReading => reading \in Readings(link))
    BY DEF MediaTypeOK, Readings, Phases, IsReading, NoReading

(* The links that a reading may follow are never taken back. *)
LEMMA LinksGrow ==
    ASSUME MediaTypeOK, link \subseteq link', UNCHANGED reading
    PROVE  reading' \in Readings(link') \cup {NoReading}
    BY ReadingIs DEF Readings

(* Withdrawals that end leave what was checked as it was. *)
LEMMA FewerWithdrawals ==
    ASSUME MediaInv, WithdrawalsThatLast, UNCHANGED link
    PROVE  ReadingIsChecked' /\ reading' \in Readings(link') \cup {NoReading}
<1>1. CASE ~ IsReading
    <2>1. reading' = reading
        BY <1>1 DEF WithdrawalsThatLast
    <2>2. QED
        BY <1>1, <2>1, ReadingIs DEF MediaInv, ReadingIsChecked, IsReading
<1>2. ASSUME IsReading
      PROVE  ReadingIsChecked' /\ reading' \in Readings(link') \cup {NoReading}
    <2> DEFINE S == Against(reading.link, World')
               new == [reading EXCEPT !.withdrawn = @ \cap S]
    <2>1. reading' = new /\ reading \in Readings(link) /\ Checked(reading)
        BY <1>2, ReadingIs DEF WithdrawalsThatLast, MediaInv, ReadingIsChecked, IsReading, NoReading
    <2> HIDE DEF S
    <2>2. /\ new.phase = reading.phase /\ new.link = reading.link /\ new.item = reading.item
          /\ new.withdrawn = reading.withdrawn \cap S
        BY <2>1 DEF Readings
    <2>3. new \in Readings(link)
        BY <2>1 DEF Readings
    <2> HIDE DEF new
    <2>4. Checked(new)
        BY <2>1, <2>2 DEF Checked
    <2>5. IsReading' => reading'.withdrawn \subseteq Against(reading'.link, World')
        BY <2>1, <2>2 DEF S
    <2>6. QED
        BY <2>1, <2>3, <2>4, <2>5 DEF ReadingIsChecked
<1>3. QED
    BY <1>1, <1>2

LEMMA WriteFileStep ==
    ASSUME MediaInv, NEW q \in Uploads, NEW m \in Media, WriteFile(q, m)
    PROVE  MediaInv'
<1> DEFINE new == [phase |-> "written", media |-> m, since |-> clock]
<1>1. /\ m \notin files \cup media /\ files' = files \cup {m}
      /\ upload' = [upload EXCEPT ![q] = new]
      /\ UNCHANGED <<clock, media, content, public, grant, suspended, link, reading>>
    BY DEF WriteFile
<1>2. new \in [phase : {"written"}, media : Media, since : 0 .. clock] /\ new.media = m
    BY MediaAccessAssumption DEF MediaInv, MediaTypeOK
<1> HIDE DEF new
<1>3. upload'[q] = new /\ \A p \in Uploads \ {q} : upload'[p] = upload[p]
    BY <1>1 DEF MediaInv, MediaTypeOK
<1>4. MediaTypeOK'
    BY <1>1, <1>2 DEF MediaInv, MediaTypeOK
<1>5. EveryMediaHasItsFile'
    BY <1>1 DEF MediaInv, EveryMediaHasItsFile
<1>6. UploadsAreFiles'
    <2>1. \A p \in Uploads \ {q} : upload[p].phase = "written" =>
              upload'[p].media = upload[p].media /\ upload[p].media \in files \ media
        BY <1>3 DEF MediaInv, UploadsAreFiles
    <2>2. \A p \in Uploads \ {q} : upload[p].phase = "written" => upload[p].media # m
        BY <1>1, <2>1
    <2>3. QED
        BY <1>1, <1>2, <1>3, <2>1, <2>2 DEF MediaInv, UploadsAreFiles
<1>7. QED
    BY <1>1, <1>4, <1>5, <1>6, ReadingKept DEF MediaInv

(* However an upload ends, the files of the others and of the rows stay. *)
LEMMA UploadEndsStep ==
    ASSUME MediaInv, NEW q \in Uploads, CreateMedia(q) \/ RemoveFile(q) \/ DieUploading(q)
    PROVE  MediaInv'
<1> DEFINE m == upload[q].media
           new == [media |-> m, reader |-> MediaOwner, content |-> "none",
                   until |-> upload[q].since + LinkLife]
<1>1. /\ upload[q].phase = "written" /\ upload' = [upload EXCEPT ![q] = NoUpload]
      /\ UNCHANGED <<clock, content, public, grant, suspended, reading>>
    BY DEF CreateMedia, RemoveFile, DieUploading
<1>2. \/ files' = files /\ media' = media \cup {m}
      \/ files' = files /\ media' = media
      \/ files' = files \ {m} /\ media' = media
    BY DEF CreateMedia, RemoveFile, DieUploading
<1>3. m \in files \ media
    BY <1>1 DEF MediaInv, UploadsAreFiles
<1>4. upload'[q].phase # "written" /\ \A p \in Uploads \ {q} : upload'[p] = upload[p]
    BY <1>1 DEF MediaInv, MediaTypeOK, NoUpload
<1>5. upload' \in [Uploads -> [phase : {"written"}, media : Media, since : 0 .. clock]
                              \cup {NoUpload}]
    BY <1>1 DEF MediaInv, MediaTypeOK
<1>6. \A p \in Uploads \ {q} : upload[p].phase = "written" => upload[p].media # m
    BY <1>1 DEF MediaInv, UploadsAreFiles
<1>7. link' = link \/ link' = link \cup {new}
    BY DEF CreateMedia, RemoveFile, DieUploading
<1>8. new \in Links
    <2>1. upload[q] \in [phase : {"written"}, media : Media, since : 0 .. clock]
        BY <1>1 DEF MediaInv, MediaTypeOK, NoUpload
    <2>2. upload[q].media \in Media /\ upload[q].since + LinkLife \in Nat
        BY <2>1, MediaAccessAssumption DEF MediaInv, MediaTypeOK
    <2>3. QED
        BY <2>2 DEF Links
<1> HIDE DEF m, new
<1>9. MediaTypeOK'
    <2>1. link \subseteq link' /\ link' \subseteq Links
        BY <1>7, <1>8 DEF MediaInv, MediaTypeOK
    <2>2. reading' \in Readings(link') \cup {NoReading}
        BY <1>1, <2>1, LinksGrow DEF MediaInv
    <2>3. QED
        BY <1>1, <1>2, <1>3, <1>5, <2>1, <2>2 DEF MediaInv, MediaTypeOK, Readings, Phases
<1>10. EveryMediaHasItsFile'
    BY <1>1, <1>2, <1>3 DEF MediaInv, EveryMediaHasItsFile
<1>11. UploadsAreFiles'
    <2> SUFFICES ASSUME NEW p \in Uploads, upload'[p].phase = "written"
                 PROVE  /\ upload'[p].media \in files' \ media'
                        /\ \A o \in Uploads \ {p} :
                               upload'[o].phase = "written" => upload'[o].media # upload'[p].media
        BY DEF UploadsAreFiles
    <2>1. p # q /\ upload'[p] = upload[p]
        BY <1>4
    <2>2. upload[p].media \in files \ media /\ upload[p].media # m
        BY <1>6, <2>1 DEF MediaInv, UploadsAreFiles
    <2>3. QED
        BY <1>2, <1>4, <2>1, <2>2 DEF MediaInv, UploadsAreFiles
<1>12. QED
    BY <1>1, <1>9, <1>10, <1>11, ReadingKept DEF MediaInv

LEMMA PutContentStep ==
    ASSUME MediaInv, NEW c \in Contents, NEW row \in ContentItem, PutContent(c, row)
    PROVE  MediaInv'
<1>1. /\ row.media \subseteq media /\ content' = [content EXCEPT ![c] = row]
      /\ UNCHANGED <<clock, files, media, upload, public, grant, suspended, link>>
      /\ WithdrawalsThatLast
    BY DEF PutContent
<1>2. content'[c] = row /\ \A d \in Contents \ {c} : content'[d] = content[d]
    BY <1>1 DEF MediaInv, MediaTypeOK
<1>3. ReadingIsChecked' /\ reading' \in Readings(link') \cup {NoReading}
    BY <1>1, FewerWithdrawals
<1>4. MediaTypeOK'
    BY <1>1, <1>3 DEF MediaInv, MediaTypeOK, Readings, Phases
<1>5. EveryMediaHasItsFile'
    BY <1>1, <1>2 DEF MediaInv, EveryMediaHasItsFile
<1>6. UploadsAreFiles'
    BY <1>1 DEF MediaInv, UploadsAreFiles
<1>7. QED
    BY <1>3, <1>4, <1>5, <1>6 DEF MediaInv

LEMMA ChangeWorldStep ==
    ASSUME MediaInv, ChangeWorld
    PROVE  MediaInv'
<1> DEFINE Fits == /\ public' \in BOOLEAN /\ grant' \subseteq Contents \X Readers
                   /\ suspended' \subseteq Readers \cup {MediaOwner}
<1>1. UNCHANGED <<clock, files, media, upload, content, link>> /\ WithdrawalsThatLast
    BY DEF ChangeWorld
<1>2. Fits
    <2>1. /\ public \in BOOLEAN /\ grant \subseteq Contents \X Readers
          /\ suspended \subseteq Readers \cup {MediaOwner}
        BY DEF MediaInv, MediaTypeOK
    <2>2. CASE public' = ~ public /\ UNCHANGED <<grant, suspended>>
        BY <2>1, <2>2
    <2>3. ASSUME NEW u \in Readers \cup {MediaOwner}, UNCHANGED <<public, grant>>,
                 suspended' = IF u \in suspended THEN suspended \ {u} ELSE suspended \cup {u}
          PROVE  Fits
        BY <2>1, <2>3
    <2>4. ASSUME NEW c \in Contents, NEW u \in Readers, UNCHANGED <<public, suspended>>,
                 grant' = grant \cup {<<c, u>>}
          PROVE  Fits
        BY <2>1, <2>4
    <2> HIDE DEF Fits
    <2>5. QED
        BY <2>2, <2>3, <2>4 DEF ChangeWorld
<1>3. ReadingIsChecked' /\ reading' \in Readings(link') \cup {NoReading}
    BY <1>1, FewerWithdrawals
<1>4. MediaTypeOK'
    BY <1>1, <1>2, <1>3 DEF MediaInv, MediaTypeOK, Readings, Phases
<1>5. QED
    BY <1>1, <1>3, <1>4, FilesKept DEF MediaInv

LEMMA GiveLinkStep ==
    ASSUME MediaInv, NEW c \in Contents, NEW u \in Readers \cup {MediaOwner, "anybody"},
           NEW m \in Media, GiveLink(c, u, m)
    PROVE  MediaInv'
<1> DEFINE new == [media |-> m, reader |-> Actor(u), content |-> c, until |-> clock + LinkLife]
<1>1. /\ link' = link \cup {new}
      /\ UNCHANGED <<clock, files, media, upload, content, public, grant, suspended, reading>>
    BY DEF GiveLink
<1>2. Actor(u) \in Readers \cup {MediaOwner, "anybody"} /\ clock + LinkLife \in Nat
    BY MediaAccessAssumption DEF Actor, MediaInv, MediaTypeOK
<1>3. new \in Links
    BY <1>2 DEF Links
<1> HIDE DEF new
<1>4. reading' \in Readings(link') \cup {NoReading}
    BY <1>1, LinksGrow DEF MediaInv
<1>5. MediaTypeOK'
    BY <1>1, <1>3, <1>4 DEF MediaInv, MediaTypeOK, Readings, Phases
<1>6. QED
    BY <1>1, <1>5, FilesKept, ReadingKept DEF MediaInv

(* A link that was good stays over once it is over: nothing else has changed. *)
LEMMA ClockTicksStep ==
    ASSUME MediaInv, ClockTicks
    PROVE  MediaInv'
<1>1. /\ clock' = clock + 1 /\ clock < MaxClock
      /\ UNCHANGED <<files, media, upload, content, public, grant, suspended, link, reading>>
    BY DEF ClockTicks
<1>2. clock' \in 0 .. MaxClock /\ (\A n \in 0 .. clock : n \in 0 .. clock') /\ clock \in Nat
    BY <1>1, MediaAccessAssumption DEF MediaInv, MediaTypeOK
<1>3. MediaTypeOK'
    BY <1>1, <1>2 DEF MediaInv, MediaTypeOK
<1>4. ReadingIsChecked'
    <2> DEFINE l == reading.link
               row == content[l.content]
    <2>1. ASSUME IsReading PROVE Against(l, World) \subseteq Against(l, World')
        <3>1. l.until \in Nat
            BY <2>1, ReadingIs DEF MediaInv, MediaTypeOK, Readings, Links
        <3>2. clock >= l.until => clock' >= l.until
            BY <1>1, <1>2, <3>1
        <3>3. /\ World.now = clock /\ World'.now = clock'
              /\ World.suspended = suspended /\ World'.suspended = suspended
              /\ World.public = public /\ World'.public = public
              /\ World.content = content /\ World'.content = content
              /\ World.grant = grant /\ World'.grant = grant
            BY <1>1 DEF World
        <3> HIDE DEF l
        <3>4. QED
            BY <3>2, <3>3 DEF Against, Reasons, AccountReasons, ContentReasons
    <2>2. QED
        BY <1>1, <2>1 DEF MediaInv, ReadingIsChecked, IsReading
<1>5. QED
    BY <1>1, <1>3, <1>4, FilesKept DEF MediaInv

(* Each read of a request finds nothing of its own against it, or ends it.     *)
LEMMA ReadMediaStep ==
    ASSUME MediaInv, ReadMedia
    PROVE  MediaInv'
<1> DEFINE l == reading.link
           seen == reading.item
           isOwner == l.reader = MediaOwner
           Goes(phase) == [reading EXCEPT !.phase = phase]
           Sound == ReadingIsChecked' /\ reading' \in Readings(link') \cup {NoReading}
<1>1. UNCHANGED <<clock, files, media, upload, content, public, grant, suspended, link>>
    BY DEF ReadMedia
<1>2. World' = World
    BY <1>1 DEF World
<1>3. ASSUME NEW k \in link, BeginReading(k) PROVE Sound
    <2> DEFINE new == [phase |-> "account", link |-> k, item |-> NoContent,
                       withdrawn |-> Against(k, World)]
    <2>1. reading' = new /\ clock < k.until
        BY <1>3 DEF BeginReading
    <2>2. clock \in Nat /\ k.until \in Nat
        BY MediaAccessAssumption DEF MediaInv, MediaTypeOK, Links
    <2>3. "link" \notin Against(k, World)
        BY <2>1, <2>2 DEF Against, World
    <2>4. /\ Against(k, World) \subseteq Reasons
          /\ k.content = "none" => Against(k, World) \subseteq AccountReasons
        BY DEF Against, Reasons
    <2>5. new \in Readings(link)
        BY <2>4 DEF Readings, Phases
    <2>6. Checked(new)
        BY <2>3, <2>4 DEF Checked
    <2>7. QED
        BY <1>1, <1>2, <2>1, <2>5, <2>6 DEF ReadingIsChecked
<1>4. ASSUME IsReading
      PROVE  /\ reading \in Readings(link) /\ Checked(reading)
             /\ reading.withdrawn \subseteq Against(l, World) /\ reading.withdrawn \subseteq Reasons
    BY <1>4, ReadingIs DEF MediaInv, ReadingIsChecked, IsReading, NoReading, Readings
<1>5. ASSUME reading' = NoReading PROVE Sound
    BY <1>5 DEF ReadingIsChecked, IsReading, NoReading
<1>6. ASSUME IsReading, NEW p \in Phases, Checked(Goes(p)), reading' = Goes(p) PROVE Sound
    <2>1. Goes(p) \in Readings(link)
        BY <1>4, <1>6 DEF Readings
    <2>2. Goes(p).withdrawn = reading.withdrawn /\ Goes(p).link = l
        BY <1>4, <1>6 DEF Readings
    <2>3. Goes(p).withdrawn \subseteq Against(Goes(p).link, World)
        BY <1>4, <1>6, <2>2
    <2> HIDE DEF Goes
    <2>4. QED
        BY <1>1, <1>2, <1>6, <2>1, <2>3 DEF ReadingIsChecked
<1>7. ASSUME IsReading, NEW p \in Phases
      PROVE  /\ Goes(p).phase = p /\ Goes(p).link = l /\ Goes(p).item = seen
             /\ Goes(p).withdrawn = reading.withdrawn
    BY <1>4, <1>7 DEF Readings
<1>8. ASSUME AskAccount PROVE Sound
    <2>1. reading.phase = "account" /\ IsReading
        BY <1>8 DEF AskAccount, IsReading
    <2>2. CASE l.reader \in suspended
        BY <1>5, <1>8, <2>2 DEF AskAccount, GoOnIf
    <2>3. ASSUME l.reader \notin suspended PROVE Sound
        <3>1. "account" \notin reading.withdrawn
            <4>1. "account" \notin Against(l, World)
                BY <2>3 DEF Against, World
            <4>2. QED
                BY <1>4, <2>1, <4>1
        <3>2. CASE l.content = "none" /\ ~ isOwner
            BY <1>5, <1>8, <3>2 DEF AskAccount, GoOnIf
        <3>3. CASE l.content = "none" /\ isOwner
            <4>1. reading' = Goes("file")
                BY <1>8, <2>3, <3>3 DEF AskAccount, GoOnIf
            <4>2. reading.withdrawn = {}
                BY <1>4, <2>1, <3>1, <3>3 DEF Checked, AccountReasons
            <4> HIDE DEF Goes
            <4>3. Checked(Goes("file"))
                BY <1>7, <2>1, <4>2 DEF Checked, Phases
            <4>4. QED
                BY <1>6, <2>1, <4>1, <4>3 DEF Phases
        <3>4. CASE l.content # "none"
            <4>1. reading' = Goes("item")
                BY <1>8, <2>3, <3>4 DEF AskAccount, GoOnIf
            <4> HIDE DEF Goes
            <4>2. Checked(Goes("item"))
                BY <1>4, <1>7, <2>1, <3>1, <3>4 DEF Checked, Phases
            <4>3. QED
                BY <1>6, <2>1, <4>1, <4>2 DEF Phases
        <3>5. QED
            BY <3>2, <3>3, <3>4
    <2>4. QED
        BY <2>2, <2>3
<1>9. ASSUME AskContent PROVE Sound
    <2> DEFINE row == content[l.content]
               new == [reading EXCEPT !.phase = "profile", !.item = row]
    <2>1. reading.phase = "item" /\ IsReading /\ reading' = new
        BY <1>9 DEF AskContent, IsReading
    <2>2. /\ reading \in Readings(link) /\ Checked(reading)
          /\ reading.withdrawn \subseteq Against(l, World)
        BY <1>4, <2>1
    <2>3. l.content \in Contents
        BY <2>1, <2>2 DEF MediaInv, MediaTypeOK, Readings, Links, Checked
    <2>4. row \in ContentItem \cup {NoContent}
        BY <2>3 DEF MediaInv, MediaTypeOK
    <2>5. l.media \in row.media /\ (isOwner \/ row.status = "PUBLISHED") =>
              /\ "content" \notin reading.withdrawn
              /\ (row.visibility = "PUBLIC" \/ l.media \in row.preview) =>
                     "payment" \notin reading.withdrawn
        BY <2>2 DEF Against, World
    <2>6. /\ new.phase = "profile" /\ new.link = l /\ new.item = row
          /\ new.withdrawn = reading.withdrawn /\ new \in Readings(link)
        BY <2>2, <2>4 DEF Readings, Phases
    <2> HIDE DEF new, row
    <2>7. Checked(new)
        BY <2>1, <2>2, <2>5, <2>6 DEF Checked
    <2>8. QED
        BY <1>1, <1>2, <2>1, <2>2, <2>6, <2>7 DEF ReadingIsChecked
<1>10. ASSUME AskProfile PROVE Sound
    <2> DEFINE next == IF seen.visibility = "PUBLIC" THEN "file" ELSE "grant"
               isShown == l.media \in seen.media /\ (isOwner \/ seen.status = "PUBLISHED")
    <2>1. reading.phase = "profile" /\ IsReading
        BY <1>10 DEF AskProfile, IsReading
    <2>2. reading' = NoReading \/ (reading' = Goes(next) /\ isShown /\ (isOwner \/ public))
        BY <1>10 DEF AskProfile, GoOnIf
    <2>3. ASSUME reading' = Goes(next), isShown, isOwner \/ public PROVE Sound
        <3>1. "profile" \notin reading.withdrawn
            <4>1. "profile" \notin Against(l, World)
                BY <2>3 DEF Against, World
            <4>2. QED
                BY <1>4, <2>1, <4>1
        <3>2. reading.withdrawn \subseteq {"payment"}
            BY <1>4, <2>1, <2>3, <3>1
               DEF Checked, Reasons, AccountReasons, ContentReasons
        <3>3. seen.visibility = "PUBLIC" => reading.withdrawn = {}
            BY <1>4, <2>1, <2>3, <3>2 DEF Checked
        <3>4. next \in Phases
            BY DEF Phases
        <3> HIDE DEF Goes
        <3>5. Checked(Goes(next))
            BY <1>4, <1>7, <2>1, <2>3, <3>2, <3>3, <3>4 DEF Checked
        <3>6. QED
            BY <1>6, <2>1, <2>3, <3>4, <3>5
    <2>4. QED
        BY <1>5, <2>2, <2>3
<1>11. ASSUME AskGrant PROVE Sound
    <2>1. reading.phase = "grant" /\ IsReading
        BY <1>11 DEF AskGrant, IsReading
    <2>2. \/ reading' = NoReading
          \/ reading' = Goes("file") /\ (HasGrant(l.content, l.reader) \/ l.media \in seen.preview)
        BY <1>11 DEF AskGrant, GoOnIf
    <2>3. ASSUME reading' = Goes("file"), HasGrant(l.content, l.reader) \/ l.media \in seen.preview
          PROVE  Sound
        <3>1. HasGrant(l.content, l.reader) => "payment" \notin Against(l, World)
            BY DEF HasGrant, Against, World
        <3>2. reading.withdrawn = {}
            BY <1>4, <2>1, <2>3, <3>1 DEF Checked
        <3> HIDE DEF Goes
        <3>3. Checked(Goes("file"))
            BY <1>4, <1>7, <2>1, <3>2 DEF Checked, Phases
        <3>4. QED
            BY <1>6, <2>1, <2>3, <3>3 DEF Phases
    <2>4. QED
        BY <1>5, <2>2, <2>3
<1>12. ASSUME ServeFile PROVE Sound
    <2>1. reading.phase = "file" /\ IsReading
        BY <1>12 DEF ServeFile, IsReading
    <2>2. reading' = NoReading \/ reading' = Goes("served")
        BY <1>12 DEF ServeFile, GoOnIf
    <2>3. ASSUME reading' = Goes("served") PROVE Sound
        <3> HIDE DEF Goes
        <3>1. Checked(Goes("served"))
            BY <1>4, <1>7, <2>1 DEF Checked, Phases
        <3>2. QED
            BY <1>6, <2>1, <2>3, <3>1 DEF Phases
    <2>4. QED
        BY <1>5, <2>2, <2>3
<1> HIDE DEF Sound
<1>13. Sound
    BY <1>3, <1>8, <1>9, <1>10, <1>11, <1>12 DEF ReadMedia
<1>14. MediaTypeOK'
    BY <1>1, <1>13 DEF MediaInv, MediaTypeOK, Sound, Readings, Phases
<1>15. QED
    BY <1>1, <1>13, <1>14, FilesKept DEF MediaInv, Sound

LEMMA NextMediaInv == MediaInv /\ [MediaNext]_mediaVars => MediaInv'
<1> SUFFICES ASSUME MediaInv, [MediaNext]_mediaVars PROVE MediaInv'
    OBVIOUS
<1>1. CASE UNCHANGED mediaVars
    <2>1. UNCHANGED <<clock, files, media, upload, content, public, grant, suspended, link, reading>>
        BY <1>1 DEF mediaVars
    <2>2. MediaTypeOK'
        BY <2>1 DEF MediaInv, MediaTypeOK
    <2>3. QED
        BY <2>1, <2>2, FilesKept, ReadingKept DEF MediaInv
<1>2. QED
    BY <1>1, ClockTicksStep, WriteFileStep, UploadEndsStep, PutContentStep, ChangeWorldStep,
       GiveLinkStep, ReadMediaStep DEF MediaNext

(* Whichever step an upload fails at, a row has its file and content has the   *)
(* rows of its media (UploadMediaUseCase, SaveContentUseCase).                 *)
THEOREM MediaAlwaysHaveTheirFiles == MediaSpec => []EveryMediaHasItsFile
<1>1. MediaInv => EveryMediaHasItsFile
    BY DEF MediaInv
<1>2. QED
    BY <1>1, InitMediaInv, NextMediaInv, PTL DEF MediaSpec

(* Through five reads that are not in one transaction, while profiles, content *)
(* and accounts change, nothing is served that was withdrawn before the        *)
(* request began and stayed so (ReadMediaUseCase).                             *)
THEOREM NothingWithdrawnIsServed == MediaSpec => []WithdrawnIsNotServed
<1>1. MediaInv => WithdrawnIsNotServed
    BY DEF MediaInv, ReadingIsChecked, Checked, WithdrawnIsNotServed, NoReading
<1>2. QED
    BY <1>1, InitMediaInv, NextMediaInv, PTL DEF MediaSpec

-----------------------------------------------------------------------------
(* Agenda.  A window is opened with no slot taken, under an id that no booking *)
(* can have: a booking has its window, and this one is not there yet.          *)
NewWindowsAreFree ==
    \A q \in AgendaRequests : planning[q].phase = "opening" => planning[q].row.taken = 0

FewBookings == \A w \in Windows : IsFiniteSet(LiveBookings(w))

(* A request that closes or saves a booking found it there, and there it stays. *)
PlannedAreThere ==
    \A q \in AgendaRequests : planning[q].phase \in {"closing", "saving"} =>
        booking[planning[q].booking] # NoBooking

AgendaInv == /\ AgendaTypeOK /\ WindowsKeepTheirBookings /\ NewWindowsAreFree /\ FewBookings
             /\ PlannedAreThere

LEMMA InitAgendaInv == AgendaInit => AgendaInv
<1> SUFFICES ASSUME AgendaInit PROVE AgendaInv
    OBVIOUS
<1>1. AgendaTypeOK
    BY AgendaAssumption DEF AgendaInit, AgendaTypeOK, Times
<1>2. \A w \in Windows : ~ WindowThere(w) /\ LiveBookings(w) = {}
    BY AgendaAssumption DEF AgendaInit, WindowThere, LiveBookings, NoBooking
<1>3. WindowsKeepTheirBookings
    BY <1>2 DEF AgendaInit, WindowsKeepTheirBookings
<1>4. NewWindowsAreFree /\ FewBookings /\ PlannedAreThere
    BY <1>2, FS_EmptySet DEF AgendaInit, NewWindowsAreFree, FewBookings, PlannedAreThere, NoPlan
<1>5. QED
    BY <1>1, <1>3, <1>4 DEF AgendaInv

(* What a request under way holds, and what a window that is there is. *)
LEMMA PlanIs ==
    ASSUME AgendaTypeOK, NEW q \in AgendaRequests
    PROVE  /\ planning[q].phase = "opening" => planning[q].window \in Windows
                                               /\ planning[q].row \in WindowRow
           /\ planning[q].phase = "deleting" => planning[q].window \in Windows
           /\ planning[q].phase = "booking" => planning[q].window \in Windows
                                               /\ planning[q].booking \in Bookings
           /\ planning[q].phase \in {"closing", "saving"} => planning[q].booking \in Bookings
<1>1. planning[q] \in Plans \cup {NoPlan}
    BY DEF AgendaTypeOK
<1>2. QED
    BY <1>1 DEF Plans, NoPlan

LEMMA WindowIs ==
    ASSUME NEW row \in WindowRow
    PROVE  /\ row \in [offer : BookingOffers, from : Times, to : Times, total : 1 .. MaxSlots,
                       taken : 0 .. MaxSlots]
           /\ row.from < row.to /\ row.offer \in BookingOffers /\ row # NoWindow
           /\ row.total \in Nat /\ row.taken \in Nat /\ row.total <= MaxSlots
<1>1. /\ row \in [offer : BookingOffers, from : Times, to : Times, total : 1 .. MaxSlots,
                  taken : 0 .. MaxSlots]
      /\ row.from < row.to
    BY DEF WindowRow
<1>2. row.offer \in BookingOffers /\ row.total \in 1 .. MaxSlots /\ row.taken \in 0 .. MaxSlots
    BY <1>1
<1>3. row # NoWindow
    BY <1>2, AgendaAssumption DEF NoWindow
<1>4. QED
    BY <1>1, <1>2, <1>3, AgendaAssumption

LEMMA PlanEnds ==
    ASSUME AgendaInv, NEW q \in AgendaRequests, EndPlan(q)
    PROVE  /\ planning' \in [AgendaRequests -> Plans \cup {NoPlan}] /\ NewWindowsAreFree'
           /\ (\A b \in Bookings : booking[b] # NoBooking => booking'[b] # NoBooking) =>
                 PlannedAreThere'
<1>1. /\ planning' \in [AgendaRequests -> Plans \cup {NoPlan}] /\ planning'[q].phase = "idle"
      /\ \A p \in AgendaRequests \ {q} : planning'[p] = planning[p]
    BY DEF AgendaInv, AgendaTypeOK, EndPlan, NoPlan
<1>2. NewWindowsAreFree'
    BY <1>1 DEF AgendaInv, NewWindowsAreFree
<1>3. ASSUME \A b \in Bookings : booking[b] # NoBooking => booking'[b] # NoBooking
      PROVE  PlannedAreThere'
    <2> SUFFICES ASSUME NEW p \in AgendaRequests, planning'[p].phase \in {"closing", "saving"}
                 PROVE  booking'[planning'[p].booking] # NoBooking
        BY DEF PlannedAreThere
    <2>1. p # q /\ planning'[p] = planning[p]
        BY <1>1
    <2>2. planning[p].booking \in Bookings /\ booking[planning[p].booking] # NoBooking
        BY <2>1, PlanIs DEF AgendaInv, PlannedAreThere
    <2>3. QED
        BY <1>3, <2>1, <2>2
<1>4. QED
    BY <1>1, <1>2, <1>3

(* A step that leaves windows and bookings alone. *)
LEMMA WindowsKept ==
    ASSUME AgendaInv, UNCHANGED <<window, booking>>
    PROVE  WindowsKeepTheirBookings' /\ FewBookings'
<1>1. \A w \in Windows : LiveBookings(w)' = LiveBookings(w)
    BY DEF LiveBookings
<1>2. QED
    BY <1>1 DEF AgendaInv, WindowsKeepTheirBookings, SlotsAreCounted, FewBookings, WindowThere

(* A request that begins. *)
LEMMA PlanStep ==
    ASSUME AgendaInv, NEW q \in AgendaRequests, NEW plan \in Plans, Plan(q, plan),
           plan.phase = "opening" => plan.row.taken = 0,
           plan.phase \in {"closing", "saving"} => booking[plan.booking] # NoBooking
    PROVE  AgendaInv'
<1>1. /\ planning' = [planning EXCEPT ![q] = plan]
      /\ UNCHANGED <<time, offered, active, window, booking>>
    BY DEF Plan
<1>2. /\ planning'[q] = plan /\ \A p \in AgendaRequests \ {q} : planning'[p] = planning[p]
      /\ planning' \in [AgendaRequests -> Plans \cup {NoPlan}]
    BY <1>1 DEF AgendaInv, AgendaTypeOK
<1>3. AgendaTypeOK'
    BY <1>1, <1>2 DEF AgendaInv, AgendaTypeOK
<1>4. NewWindowsAreFree'
    BY <1>2 DEF AgendaInv, NewWindowsAreFree
<1>5. PlannedAreThere'
    BY <1>1, <1>2 DEF AgendaInv, PlannedAreThere
<1>6. QED
    BY <1>1, <1>3, <1>4, <1>5, WindowsKept DEF AgendaInv

(* The window that is opened has no booking, and overlaps none of its offer. *)
LEMMA OpenWindowStep ==
    ASSUME AgendaInv, NEW q \in AgendaRequests, OpenWindow(q)
    PROVE  AgendaInv'
<1> DEFINE w == planning[q].window
           row == planning[q].row
           clash == \E v \in Windows : WindowThere(v) /\ (v = w \/ Overlap(window[v], row))
<1>1. /\ window' = IF clash THEN window ELSE [window EXCEPT ![w] = row]
      /\ EndPlan(q) /\ UNCHANGED <<time, offered, active, booking>>
      /\ w \in Windows /\ row \in WindowRow /\ row.taken = 0
    BY PlanIs DEF OpenWindow, AgendaInv, NewWindowsAreFree
<1>2. AgendaTypeOK'
    BY <1>1, PlanEnds DEF AgendaInv, AgendaTypeOK
<1> HIDE DEF w, row
<1>3. CASE clash
    BY <1>1, <1>2, <1>3, PlanEnds, WindowsKept DEF AgendaInv
<1>4. CASE ~ clash
    <2>1. /\ window'[w] = row /\ \A v \in Windows \ {w} : window'[v] = window[v]
        BY <1>1, <1>4 DEF AgendaInv, AgendaTypeOK
    <2>2. ~ WindowThere(w) /\ \A v \in Windows : WindowThere(v) => ~ Overlap(window[v], row)
        BY <1>1, <1>4
    <2>3. \A b \in Bookings : booking[b].window # w
        <3>1. \A b \in Bookings : booking[b] # NoBooking => booking[b].window # w
            BY <2>2 DEF AgendaInv, WindowsKeepTheirBookings
        <3>2. NoBooking.window # w
            BY <1>1, AgendaAssumption DEF NoBooking
        <3>3. QED
            BY <3>1, <3>2
    <2>4. LiveBookings(w) = {} /\ \A v \in Windows : LiveBookings(v)' = LiveBookings(v)
        BY <1>1, <2>3 DEF LiveBookings
    <2>5. \A v \in Windows : window[v] # NoWindow => window[v] \in WindowRow
        BY DEF AgendaInv, AgendaTypeOK
    <2>6. ASSUME NEW u \in Windows, NEW v \in Windows, u # v, WindowThere(u)', WindowThere(v)'
          PROVE  ~ Overlap(window'[u], window'[v])
        <3>1. CASE u = w
            BY <2>1, <2>2, <2>6, <3>1 DEF Overlap, WindowThere
        <3>2. CASE v = w
            BY <2>1, <2>2, <2>6, <3>2 DEF WindowThere
        <3>3. CASE u # w /\ v # w
            BY <2>1, <2>6, <3>3 DEF AgendaInv, WindowsKeepTheirBookings, WindowThere
        <3>4. QED
            BY <3>1, <3>2, <3>3
    <2>7. \A b \in Bookings : booking'[b] # NoBooking => window'[booking'[b].window] # NoWindow
        <3> SUFFICES ASSUME NEW b \in Bookings, booking[b] # NoBooking
                     PROVE  window'[booking[b].window] # NoWindow
            BY <1>1
        <3>1. booking[b].window \in Windows \ {w}
            BY <2>3 DEF AgendaInv, AgendaTypeOK
        <3>2. QED
            BY <2>1, <3>1 DEF AgendaInv, WindowsKeepTheirBookings, WindowThere
    <2>8. \A v \in Windows : WindowThere(v)' => SlotsAreCounted(v)'
        <3> SUFFICES ASSUME NEW v \in Windows, WindowThere(v)'
                     PROVE  SlotsAreCounted(v)'
            OBVIOUS
        <3>1. CASE v = w
            <4>1. window'[v].taken = 0 /\ window'[v].total \in Nat
                BY <1>1, <2>1, <3>1, WindowIs
            <4>2. Cardinality(LiveBookings(v)') = 0
                BY <2>4, <3>1, FS_EmptySet
            <4>3. QED
                BY <4>1, <4>2 DEF SlotsAreCounted
        <3>2. CASE v # w
            <4>1. window'[v] = window[v] /\ SlotsAreCounted(v)
                BY <2>1, <3>2 DEF AgendaInv, WindowsKeepTheirBookings, WindowThere
            <4>2. QED
                BY <1>1, <2>4, <4>1 DEF SlotsAreCounted
        <3>3. QED
            BY <3>1, <3>2
    <2>9. WindowsKeepTheirBookings'
        BY <2>6, <2>7, <2>8 DEF WindowsKeepTheirBookings, WindowThere
    <2>10. FewBookings'
        BY <2>4 DEF AgendaInv, FewBookings
    <2>11. QED
        BY <1>1, <1>2, <2>9, <2>10, PlanEnds DEF AgendaInv
<1>5. QED
    BY <1>3, <1>4

(* The window that goes is one that no deal refers to, nor ever did. *)
LEMMA DeleteWindowStep ==
    ASSUME AgendaInv, NEW q \in AgendaRequests, DeleteWindow(q)
    PROVE  AgendaInv'
<1> DEFINE w == planning[q].window
<1>1. /\ window' = IF \E b \in Bookings : booking[b].window = w THEN window
                   ELSE [window EXCEPT ![w] = NoWindow]
      /\ EndPlan(q) /\ UNCHANGED <<time, offered, active, booking>> /\ w \in Windows
    BY PlanIs DEF DeleteWindow, AgendaInv
<1>2. AgendaTypeOK'
    BY <1>1, PlanEnds DEF AgendaInv, AgendaTypeOK
<1> HIDE DEF w
<1>3. CASE \E b \in Bookings : booking[b].window = w
    BY <1>1, <1>2, <1>3, PlanEnds, WindowsKept DEF AgendaInv
<1>4. CASE ~ \E b \in Bookings : booking[b].window = w
    <2>1. window'[w] = NoWindow /\ \A v \in Windows \ {w} : window'[v] = window[v]
        BY <1>1, <1>4 DEF AgendaInv, AgendaTypeOK
    <2>2. \A v \in Windows : WindowThere(v)' => v # w /\ WindowThere(v) /\ window'[v] = window[v]
        BY <2>1 DEF WindowThere
    <2>3. \A v \in Windows : LiveBookings(v)' = LiveBookings(v)
        BY <1>1 DEF LiveBookings
    <2>4. \A b \in Bookings : booking'[b] # NoBooking => window'[booking'[b].window] # NoWindow
        <3> SUFFICES ASSUME NEW b \in Bookings, booking[b] # NoBooking
                     PROVE  window'[booking[b].window] # NoWindow
            BY <1>1
        <3>1. booking[b].window \in Windows \ {w}
            BY <1>4 DEF AgendaInv, AgendaTypeOK
        <3>2. QED
            BY <2>1, <3>1 DEF AgendaInv, WindowsKeepTheirBookings, WindowThere
    <2>5. \A u, v \in Windows : u # v /\ WindowThere(u)' /\ WindowThere(v)'
                                    => ~ Overlap(window'[u], window'[v])
        BY <2>2 DEF AgendaInv, WindowsKeepTheirBookings
    <2>6. \A v \in Windows : WindowThere(v)' => SlotsAreCounted(v)'
        BY <1>1, <2>2, <2>3 DEF AgendaInv, WindowsKeepTheirBookings, SlotsAreCounted
    <2>7. WindowsKeepTheirBookings' /\ FewBookings'
        BY <2>3, <2>4, <2>5, <2>6
           DEF WindowsKeepTheirBookings, WindowThere, AgendaInv, FewBookings
    <2>8. QED
        BY <1>1, <1>2, <2>7, PlanEnds DEF AgendaInv
<1>5. QED
    BY <1>3, <1>4

(* What counting one slot more or less makes of a window. *)
LEMMA WindowWith ==
    ASSUME NEW old \in WindowRow, NEW taken \in 0 .. MaxSlots
    PROVE  LET row == [old EXCEPT !.taken = taken]
           IN  /\ row \in WindowRow /\ row.taken = taken /\ row.total = old.total
               /\ row.offer = old.offer /\ row.from = old.from /\ row.to = old.to
    BY WindowIs DEF WindowRow

(* A step that changes one booking and the count of the window it has. *)
LEMMA CountedBooking ==
    ASSUME AgendaInv, NEW b \in Bookings, NEW w \in Windows, WindowThere(w),
           NEW row \in WindowRow, row.total = window[w].total, row.offer = window[w].offer,
           row.from = window[w].from, row.to = window[w].to,
           booking' \in [Bookings -> [window : Windows, live : BOOLEAN, overwritten : BOOLEAN]
                                     \cup {NoBooking}],
           booking'[b].window = w, booking'[b] # NoBooking,
           \A a \in Bookings \ {b} : booking'[a] = booking[a],
           booking[b] # NoBooking => booking[b].window = w,
           window' = [window EXCEPT ![w] = row],
           IsFiniteSet(LiveBookings(w)'), SlotsAreCounted(w)'
    PROVE  /\ window' \in [Windows -> WindowRow \cup {NoWindow}]
           /\ WindowsKeepTheirBookings' /\ FewBookings'
<1>1. /\ window'[w] = row /\ \A v \in Windows \ {w} : window'[v] = window[v]
      /\ window' \in [Windows -> WindowRow \cup {NoWindow}]
    BY DEF AgendaInv, AgendaTypeOK
<1>2. row # NoWindow
    BY WindowIs
<1>3. \A v \in Windows : WindowThere(v)' <=> WindowThere(v)
    BY <1>1, <1>2 DEF WindowThere
<1>4. NoBooking.window \notin Windows
    BY AgendaAssumption DEF NoBooking
<1>5. ASSUME NEW v \in Windows \ {w}, NEW a \in Bookings,
             booking'[a].window = v \/ booking[a].window = v
      PROVE  booking'[a] = booking[a]
    BY <1>4, <1>5
<1>6. \A v \in Windows \ {w} : LiveBookings(v)' = LiveBookings(v)
    BY <1>5 DEF LiveBookings
<1>7. \A u, v \in Windows : u # v /\ WindowThere(u) /\ WindowThere(v)
                                => ~ Overlap(window'[u], window'[v])
    BY <1>1 DEF AgendaInv, WindowsKeepTheirBookings, Overlap
<1>8. \A a \in Bookings : booking'[a] # NoBooking => window'[booking'[a].window] # NoWindow
    <2> SUFFICES ASSUME NEW a \in Bookings, booking'[a] # NoBooking
                 PROVE  window'[booking'[a].window] # NoWindow
        OBVIOUS
    <2>1. CASE a = b
        BY <1>1, <1>2, <2>1
    <2>2. CASE a # b
        <3>1. /\ booking'[a] = booking[a] /\ booking[a].window \in Windows
              /\ WindowThere(booking[a].window)
            BY <2>2 DEF AgendaInv, AgendaTypeOK, WindowsKeepTheirBookings
        <3>2. QED
            BY <1>1, <1>2, <3>1 DEF WindowThere
    <2>3. QED
        BY <2>1, <2>2
<1>9. ASSUME NEW v \in Windows \ {w}, WindowThere(v) PROVE SlotsAreCounted(v)'
    <2>1. SlotsAreCounted(v) /\ window'[v] = window[v]
        BY <1>1, <1>9 DEF AgendaInv, WindowsKeepTheirBookings
    <2>2. (\A a \in Bookings : booking'[a].window = v => ~ booking'[a].overwritten) =>
              \A a \in Bookings : booking[a].window = v => ~ booking[a].overwritten
        BY <1>5
    <2>3. QED
        BY <1>6, <2>1, <2>2 DEF SlotsAreCounted
<1>10. WindowsKeepTheirBookings'
    BY <1>3, <1>7, <1>8, <1>9 DEF WindowsKeepTheirBookings, WindowThere
<1>11. FewBookings'
    BY <1>6 DEF AgendaInv, FewBookings
<1>12. QED
    BY <1>1, <1>10, <1>11

LEMMA TakeSlotStep ==
    ASSUME AgendaInv, NEW q \in AgendaRequests, TakeSlot(q)
    PROVE  AgendaInv'
<1>0. PICK w \in Windows, b \in Bookings : w = planning[q].window /\ b = planning[q].booking
    BY PlanIs DEF TakeSlot, AgendaInv
<1> DEFINE new == [window |-> w, live |-> TRUE, overwritten |-> FALSE]
           found == WindowThere(w) /\ HasFreeSlots(w) /\ booking[b] = NoBooking
<1>1. /\ EndPlan(q) /\ UNCHANGED <<time, offered, active>>
      /\ ~ found => UNCHANGED <<window, booking>>
      /\ found => /\ window' = [window EXCEPT ![w].taken = @ + 1]
                  /\ booking' = [booking EXCEPT ![b] = new]
    BY <1>0 DEF TakeSlot
<1>2. /\ new \in [window : Windows, live : BOOLEAN, overwritten : BOOLEAN]
      /\ new.window = w /\ new.live /\ ~ new.overwritten
    OBVIOUS
<1>3. new # NoBooking
    BY <1>2, AgendaAssumption DEF NoBooking
<1> HIDE DEF new
<1>4. CASE ~ found
    BY <1>1, <1>4, PlanEnds, WindowsKept DEF AgendaInv, AgendaTypeOK
<1>5. CASE found
    <2> DEFINE taken == window[w].taken + 1
               row == [window[w] EXCEPT !.taken = taken]
    <2>1. /\ booking'[b] = new /\ \A a \in Bookings \ {b} : booking'[a] = booking[a]
          /\ booking' \in [Bookings -> [window : Windows, live : BOOLEAN, overwritten : BOOLEAN]
                                       \cup {NoBooking}]
        BY <1>1, <1>2, <1>5 DEF AgendaInv, AgendaTypeOK
    <2>2. b \notin LiveBookings(w) /\ booking[b].window # w
        BY <1>1, <1>5, AgendaAssumption DEF LiveBookings, NoBooking
    <2>3. LiveBookings(w)' = LiveBookings(w) \cup {b}
        BY <1>1, <1>2, <2>1 DEF LiveBookings
    <2>4. window[w] \in WindowRow
        BY <1>1, <1>5 DEF AgendaInv, AgendaTypeOK, WindowThere
    <2>5. SlotsAreCounted(w) /\ IsFiniteSet(LiveBookings(w)) /\ window[w].taken < window[w].total
        BY <1>1, <1>5 DEF AgendaInv, WindowsKeepTheirBookings, FewBookings, HasFreeSlots
    <2>6. taken \in 0 .. MaxSlots /\ taken <= window[w].total
        BY <2>4, <2>5, WindowIs, AgendaAssumption
    <2>7. /\ IsFiniteSet(LiveBookings(w)') /\ Cardinality(LiveBookings(w)) \in Nat
          /\ Cardinality(LiveBookings(w)') = Cardinality(LiveBookings(w)) + 1
        BY <2>2, <2>3, <2>5, FS_AddElement, FS_CardinalityType
    <2>8. row \in WindowRow /\ row.taken = taken /\ row.total = window[w].total
          /\ row.offer = window[w].offer /\ row.from = window[w].from /\ row.to = window[w].to
        BY <2>4, <2>6, WindowWith
    <2>9. window' = [window EXCEPT ![w] = row] /\ window'[w] = row
        BY <1>1, <1>5 DEF AgendaInv, AgendaTypeOK
    <2> HIDE DEF row
    <2>10. (\A a \in Bookings : booking'[a].window = w => ~ booking'[a].overwritten) =>
               \A a \in Bookings : booking[a].window = w => ~ booking[a].overwritten
        BY <2>1, <2>2
    <2>11. window[w].taken \in Nat
        BY <2>4, WindowIs
    <2>12. SlotsAreCounted(w)'
        BY <2>5, <2>6, <2>7, <2>8, <2>9, <2>10, <2>11 DEF SlotsAreCounted
    <2> HIDE DEF taken
    <2>13. /\ window' \in [Windows -> WindowRow \cup {NoWindow}]
           /\ WindowsKeepTheirBookings' /\ FewBookings'
        BY <1>1, <1>2, <1>3, <1>5, <2>1, <2>7, <2>8, <2>9, <2>12, CountedBooking
    <2>14. \A a \in Bookings : booking[a] # NoBooking => booking'[a] # NoBooking
        BY <1>3, <2>1
    <2>15. QED
        BY <1>1, <2>1, <2>13, <2>14, PlanEnds DEF AgendaInv, AgendaTypeOK
<1>6. QED
    BY <1>4, <1>5

(* The booking that is closed had its slot counted, or was closed before. *)
LEMMA ReleaseSlotStep ==
    ASSUME AgendaInv, NEW q \in AgendaRequests, ReleaseSlot(q)
    PROVE  AgendaInv'
<1>0. PICK b \in Bookings, w \in Windows :
          b = planning[q].booking /\ booking[b] # NoBooking /\ w = booking[b].window
    <2>1. planning[q].booking \in Bookings /\ booking[planning[q].booking] # NoBooking
        BY PlanIs DEF ReleaseSlot, AgendaInv, PlannedAreThere
    <2>2. booking[planning[q].booking].window \in Windows
        BY <2>1 DEF AgendaInv, AgendaTypeOK
    <2>3. QED
        BY <2>1, <2>2
<1> DEFINE taken == IF window[w].taken > 0 THEN window[w].taken - 1 ELSE window[w].taken
           row == [window[w] EXCEPT !.taken = taken]
           new == [booking[b] EXCEPT !.live = FALSE, !.overwritten = @ \/ ~ booking[b].live]
<1>1. /\ booking' = [booking EXCEPT ![b].live = FALSE,
                                    ![b].overwritten = @ \/ ~ booking[b].live]
      /\ window' = IF window[w].taken > 0 THEN [window EXCEPT ![w].taken = @ - 1] ELSE window
      /\ EndPlan(q) /\ UNCHANGED <<time, offered, active>>
    BY <1>0 DEF ReleaseSlot
<1>2. b \in Bookings /\ booking[b] # NoBooking
    BY <1>0
<1>3. booking[b] \in [window : Windows, live : BOOLEAN, overwritten : BOOLEAN]
    BY <1>2 DEF AgendaInv, AgendaTypeOK
<1>4. w \in Windows /\ WindowThere(w)
    BY <1>0 DEF AgendaInv, WindowsKeepTheirBookings
<1>5. /\ new \in [window : Windows, live : BOOLEAN, overwritten : BOOLEAN]
      /\ new.window = w /\ ~ new.live
      /\ new.overwritten = (booking[b].overwritten \/ ~ booking[b].live)
    BY <1>0, <1>3
<1>6. booking' = [booking EXCEPT ![b] = new]
    BY <1>1, <1>2 DEF AgendaInv, AgendaTypeOK
<1>7. new # NoBooking
    BY <1>4, <1>5, AgendaAssumption DEF NoBooking
<1> HIDE DEF new
<1>8. /\ booking'[b] = new /\ \A a \in Bookings \ {b} : booking'[a] = booking[a]
      /\ booking' \in [Bookings -> [window : Windows, live : BOOLEAN, overwritten : BOOLEAN]
                                   \cup {NoBooking}]
    BY <1>2, <1>5, <1>6 DEF AgendaInv, AgendaTypeOK
<1>9. window[w] \in WindowRow
    BY <1>4 DEF AgendaInv, AgendaTypeOK, WindowThere
<1>10. /\ SlotsAreCounted(w) /\ IsFiniteSet(LiveBookings(w))
       /\ window[w].taken \in Nat /\ window[w].total \in Nat /\ window[w].taken <= MaxSlots
    BY <1>4, <1>9, WindowIs DEF AgendaInv, WindowsKeepTheirBookings, FewBookings
<1>11. taken \in 0 .. MaxSlots
    BY <1>10, AgendaAssumption
<1>12. row \in WindowRow /\ row.taken = taken /\ row.total = window[w].total
       /\ row.offer = window[w].offer /\ row.from = window[w].from /\ row.to = window[w].to
    BY <1>9, <1>11, WindowWith
<1>13. window' = [window EXCEPT ![w] = row] /\ window'[w] = row
    <2>1. CASE window[w].taken > 0
        BY <1>1, <1>4, <2>1 DEF AgendaInv, AgendaTypeOK
    <2>2. CASE ~ (window[w].taken > 0)
        <3>1. row = window[w]
            BY <1>9, <2>2, WindowIs
        <3> HIDE DEF row
        <3>2. QED
            BY <1>1, <1>4, <2>2, <3>1 DEF AgendaInv, AgendaTypeOK
    <2>3. QED
        BY <2>1, <2>2
<1> HIDE DEF row
<1>14. LiveBookings(w)' = LiveBookings(w) \ {b}
    BY <1>0, <1>5, <1>8 DEF LiveBookings
<1>15. IsFiniteSet(LiveBookings(w)') /\ Cardinality(LiveBookings(w)) \in Nat
       /\ Cardinality(LiveBookings(w)') \in Nat
    BY <1>10, <1>14, FS_RemoveElement, FS_CardinalityType, FS_Subset
<1>16. SlotsAreCounted(w)'
    <2>1. CASE booking[b].live
        <3>1. b \in LiveBookings(w)
            BY <1>0, <2>1 DEF LiveBookings
        <3>2. Cardinality(LiveBookings(w)') = Cardinality(LiveBookings(w)) - 1
            BY <1>10, <1>14, <3>1, FS_RemoveElement
        <3>3. (\A a \in Bookings : booking'[a].window = w => ~ booking'[a].overwritten) =>
                  \A a \in Bookings : booking[a].window = w => ~ booking[a].overwritten
            BY <1>2, <1>5, <1>8, <2>1
        <3>4. taken <= window[w].total /\ taken <= Cardinality(LiveBookings(w)')
              /\ (window[w].taken = Cardinality(LiveBookings(w)) =>
                     taken = Cardinality(LiveBookings(w)'))
            BY <1>10, <1>15, <3>2 DEF SlotsAreCounted
        <3> HIDE DEF taken
        <3>5. QED
            BY <1>10, <1>12, <1>13, <3>3, <3>4 DEF SlotsAreCounted
    <2>2. CASE ~ booking[b].live
        <3>1. LiveBookings(w)' = LiveBookings(w)
            BY <1>14, <2>2 DEF LiveBookings
        <3>2. booking'[b].window = w /\ booking'[b].overwritten
            BY <1>3, <1>5, <1>8, <2>2
        <3>3. taken <= window[w].total /\ taken <= Cardinality(LiveBookings(w)')
            BY <1>10, <1>15, <3>1 DEF SlotsAreCounted
        <3> HIDE DEF taken
        <3>4. QED
            BY <1>2, <1>12, <1>13, <3>2, <3>3 DEF SlotsAreCounted
    <2>3. QED
        BY <2>1, <2>2
<1> HIDE DEF taken
<1>17. /\ window' \in [Windows -> WindowRow \cup {NoWindow}]
       /\ WindowsKeepTheirBookings' /\ FewBookings'
    BY <1>0, <1>2, <1>4, <1>5, <1>7, <1>8, <1>12, <1>13, <1>15, <1>16, CountedBooking
<1>18. \A a \in Bookings : booking[a] # NoBooking => booking'[a] # NoBooking
    BY <1>7, <1>8
<1>19. QED
    BY <1>1, <1>8, <1>17, <1>18, PlanEnds DEF AgendaInv, AgendaTypeOK

(* The booking that is saved has its slot, or is live again without it. *)
LEMMA SaveBookingStep ==
    ASSUME AgendaInv, NEW q \in AgendaRequests, SaveBooking(q)
    PROVE  AgendaInv'
<1>0. PICK b \in Bookings, w \in Windows :
          b = planning[q].booking /\ booking[b] # NoBooking /\ w = booking[b].window
    <2>1. planning[q].booking \in Bookings /\ booking[planning[q].booking] # NoBooking
        BY PlanIs DEF SaveBooking, AgendaInv, PlannedAreThere
    <2>2. booking[planning[q].booking].window \in Windows
        BY <2>1 DEF AgendaInv, AgendaTypeOK
    <2>3. QED
        BY <2>1, <2>2
<1> DEFINE new == [booking[b] EXCEPT !.live = TRUE, !.overwritten = @ \/ ~ booking[b].live]
<1>1. /\ booking' = [booking EXCEPT ![b].live = TRUE,
                                    ![b].overwritten = @ \/ ~ booking[b].live]
      /\ EndPlan(q) /\ UNCHANGED <<time, offered, active, window>>
    BY <1>0 DEF SaveBooking
<1>2. b \in Bookings /\ booking[b] # NoBooking
    BY <1>0
<1>3. booking[b] \in [window : Windows, live : BOOLEAN, overwritten : BOOLEAN]
    BY <1>2 DEF AgendaInv, AgendaTypeOK
<1>4. w \in Windows /\ WindowThere(w)
    BY <1>0 DEF AgendaInv, WindowsKeepTheirBookings
<1>5. /\ new \in [window : Windows, live : BOOLEAN, overwritten : BOOLEAN]
      /\ new.window = w /\ new.live
      /\ new.overwritten = (booking[b].overwritten \/ ~ booking[b].live)
    BY <1>0, <1>3
<1>6. booking' = [booking EXCEPT ![b] = new]
    BY <1>1, <1>2 DEF AgendaInv, AgendaTypeOK
<1>7. new # NoBooking
    BY <1>4, <1>5, AgendaAssumption DEF NoBooking
<1> HIDE DEF new
<1>8. /\ booking'[b] = new /\ \A a \in Bookings \ {b} : booking'[a] = booking[a]
      /\ booking' \in [Bookings -> [window : Windows, live : BOOLEAN, overwritten : BOOLEAN]
                                   \cup {NoBooking}]
    BY <1>2, <1>5, <1>6 DEF AgendaInv, AgendaTypeOK
<1>9. window[w] \in WindowRow /\ window' = [window EXCEPT ![w] = window[w]]
    BY <1>1, <1>4 DEF AgendaInv, AgendaTypeOK, WindowThere
<1>10. /\ SlotsAreCounted(w) /\ IsFiniteSet(LiveBookings(w))
       /\ window[w].taken \in Nat /\ Cardinality(LiveBookings(w)) \in Nat
    BY <1>4, <1>9, WindowIs, FS_CardinalityType
       DEF AgendaInv, WindowsKeepTheirBookings, FewBookings
<1>11. LiveBookings(w)' = LiveBookings(w) \cup {b}
    BY <1>0, <1>2, <1>5, <1>8 DEF LiveBookings
<1>12. /\ IsFiniteSet(LiveBookings(w)')
       /\ Cardinality(LiveBookings(w)') \in Nat
       /\ Cardinality(LiveBookings(w)) <= Cardinality(LiveBookings(w)')
    <2>1. CASE b \in LiveBookings(w)
        <3>1. LiveBookings(w)' = LiveBookings(w)
            BY <1>11, <2>1
        <3>2. QED
            BY <1>10, <3>1
    <2>2. CASE b \notin LiveBookings(w)
        <3>1. /\ IsFiniteSet(LiveBookings(w)')
              /\ Cardinality(LiveBookings(w)') = Cardinality(LiveBookings(w)) + 1
            BY <1>10, <1>11, <2>2, FS_AddElement
        <3>2. QED
            BY <1>10, <3>1
    <2>3. QED
        BY <2>1, <2>2
<1>13. SlotsAreCounted(w)'
    <2>1. CASE booking[b].live
        <3>1. LiveBookings(w)' = LiveBookings(w)
            BY <1>0, <1>11, <2>1 DEF LiveBookings
        <3>2. (\A a \in Bookings : booking'[a].window = w => ~ booking'[a].overwritten) =>
                  \A a \in Bookings : booking[a].window = w => ~ booking[a].overwritten
            BY <1>2, <1>5, <1>8, <2>1
        <3>3. QED
            BY <1>1, <1>10, <3>1, <3>2 DEF SlotsAreCounted
    <2>2. CASE ~ booking[b].live
        <3>1. booking'[b].window = w /\ booking'[b].overwritten
            BY <1>3, <1>5, <1>8, <2>2
        <3>2. window'[w].taken <= window'[w].total /\ window'[w].taken <= Cardinality(LiveBookings(w)')
            BY <1>1, <1>10, <1>12 DEF SlotsAreCounted
        <3>3. QED
            BY <1>2, <3>1, <3>2 DEF SlotsAreCounted
    <2>3. QED
        BY <2>1, <2>2
<1>14. WindowsKeepTheirBookings' /\ FewBookings'
    BY <1>0, <1>2, <1>4, <1>5, <1>7, <1>8, <1>9, <1>12, <1>13, CountedBooking
<1>15. \A a \in Bookings : booking[a] # NoBooking => booking'[a] # NoBooking
    BY <1>7, <1>8
<1>16. QED
    BY <1>1, <1>8, <1>14, <1>15, PlanEnds DEF AgendaInv, AgendaTypeOK

LEMMA NextAgendaInv == AgendaInv /\ [AgendaNext]_agendaVars => AgendaInv'
<1> SUFFICES ASSUME AgendaInv, [AgendaNext]_agendaVars PROVE AgendaInv'
    OBVIOUS
<1>1. ASSUME \/ TimeGoesOn
             \/ \E o \in BookingOffers : CreateOffer(o) \/ ToggleOffer(o)
             \/ UNCHANGED agendaVars
      PROVE  AgendaInv'
    <2>1. UNCHANGED <<window, booking, planning>>
        BY <1>1 DEF TimeGoesOn, CreateOffer, ToggleOffer, agendaVars
    <2>2. time' \in Times
        BY <1>1, AgendaAssumption
           DEF TimeGoesOn, CreateOffer, ToggleOffer, agendaVars, AgendaInv, AgendaTypeOK, Times
    <2>3. offered' \subseteq BookingOffers /\ active' \subseteq offered'
        BY <1>1 DEF TimeGoesOn, CreateOffer, ToggleOffer, agendaVars, AgendaInv, AgendaTypeOK
    <2>4. AgendaTypeOK' /\ NewWindowsAreFree' /\ PlannedAreThere'
        BY <2>1, <2>2, <2>3 DEF AgendaInv, AgendaTypeOK, NewWindowsAreFree, PlannedAreThere
    <2>5. QED
        BY <2>1, <2>4, WindowsKept DEF AgendaInv
<1>2. ASSUME NEW q \in AgendaRequests, NEW w \in Windows, NEW row \in WindowRow,
             AskForWindow(q, w, row)
      PROVE  AgendaInv'
    <2> DEFINE plan == [phase |-> "opening", window |-> w, row |-> row]
    <2>1. Plan(q, plan) /\ plan \in Plans /\ plan.row.taken = 0
        BY <1>2 DEF AskForWindow, Plans
    <2>2. plan.phase \notin {"closing", "saving"}
        OBVIOUS
    <2> HIDE DEF plan
    <2>3. QED
        BY <2>1, <2>2, PlanStep
<1>3. ASSUME NEW q \in AgendaRequests, NEW w \in Windows, AskToDelete(q, w) PROVE AgendaInv'
    <2> DEFINE plan == [phase |-> "deleting", window |-> w]
    <2>1. Plan(q, plan) /\ plan \in Plans /\ plan.phase = "deleting"
        BY <1>3 DEF AskToDelete, Plans
    <2>2. plan.phase \notin {"closing", "saving"}
        OBVIOUS
    <2> HIDE DEF plan
    <2>3. QED
        BY <2>1, <2>2, PlanStep
<1>4. ASSUME NEW q \in AgendaRequests, NEW w \in Windows, NEW b \in Bookings, AskForSlot(q, b, w)
      PROVE  AgendaInv'
    <2> DEFINE plan == [phase |-> "booking", booking |-> b, window |-> w]
    <2>1. Plan(q, plan) /\ plan \in Plans /\ plan.phase = "booking"
        BY <1>4 DEF AskForSlot, Plans
    <2>2. plan.phase \notin {"closing", "saving"}
        OBVIOUS
    <2> HIDE DEF plan
    <2>3. QED
        BY <2>1, <2>2, PlanStep
<1>5. ASSUME NEW q \in AgendaRequests, NEW b \in Bookings, AskToClose(q, b) \/ AskToSave(q, b)
      PROVE  AgendaInv'
    <2>1. PICK phase \in {"closing", "saving"} : Plan(q, [phase |-> phase, booking |-> b])
        BY <1>5 DEF AskToClose, AskToSave
    <2> DEFINE plan == [phase |-> phase, booking |-> b]
    <2>2. Plan(q, plan) /\ plan \in Plans /\ plan.phase # "opening" /\ plan.booking = b
        BY <2>1 DEF Plans
    <2>3. booking[b] # NoBooking
        BY <1>5 DEF AskToClose, AskToSave
    <2> HIDE DEF plan
    <2>4. QED
        BY <2>2, <2>3, PlanStep
<1>6. ASSUME NEW q \in AgendaRequests, DropPlan(q) PROVE AgendaInv'
    <2>1. EndPlan(q) /\ UNCHANGED <<time, offered, active, window, booking>>
        BY <1>6 DEF DropPlan
    <2>2. AgendaTypeOK'
        BY <2>1, PlanEnds DEF AgendaInv, AgendaTypeOK
    <2>3. QED
        BY <2>1, <2>2, PlanEnds, WindowsKept DEF AgendaInv
<1>7. QED
    BY <1>1, <1>2, <1>3, <1>4, <1>5, <1>6, OpenWindowStep, DeleteWindowStep, TakeSlotStep,
       ReleaseSlotStep, SaveBookingStep
       DEF AgendaNext

(* A profile says that there are no slots only when the bookings have them all. *)
LEMMA NoSlotsIsTrue == AgendaInv => NoSlotsMeansSoldOut
<1> SUFFICES ASSUME AgendaInv, DerivedAvailability(time) = "NO_SLOTS", NEW o \in active,
                    NEW w \in UpcomingWindows(o, time)
             PROVE  Cardinality(LiveBookings(w)) >= window[w].total
    BY DEF NoSlotsMeansSoldOut
<1>1. HasBookableSlots(time) = "no"
    BY DEF DerivedAvailability
<1>2. ~ \E v \in Windows : IsBookableAt(v, time)
    BY <1>1 DEF HasBookableSlots
<1>3. w \in Windows /\ WindowThere(w) /\ window[w].to > time
    BY DEF UpcomingWindows
<1>4. /\ window[w].taken \in Nat /\ window[w].total \in Nat
      /\ Cardinality(LiveBookings(w)) \in Nat /\ window[w].taken <= Cardinality(LiveBookings(w))
    BY <1>3, WindowIs, FS_CardinalityType
       DEF AgendaInv, AgendaTypeOK, WindowThere, WindowsKeepTheirBookings, SlotsAreCounted,
           FewBookings
<1>5. ~ (window[w].taken < window[w].total)
    BY <1>2, <1>3 DEF IsBookableAt, HasFreeSlots
<1>6. QED
    BY <1>4, <1>5

(* Whatever requests run together, windows of an offer do not overlap, deals   *)
(* have their window, no slot is taken by nobody nor more than there are, the  *)
(* slots taken are those of the live bookings where none was written over, and *)
(* NO_SLOTS is said only when the live bookings fill every window of an active *)
(* offer (RN-033, RN-034).                                                     *)
THEOREM AgendaAlwaysHolds == AgendaSpec => []WindowsAreKeptAndShown
<1>1. AgendaInv => WindowsAreKeptAndShown
    BY NoSlotsIsTrue DEF AgendaInv, WindowsAreKeptAndShown
<1>2. QED
    BY <1>1, InitAgendaInv, NextAgendaInv, PTL DEF AgendaSpec

-----------------------------------------------------------------------------
(* Side by side.  A step of DesksNext is a step of one desk, or a stutter, for *)
(* each of the modules: so a behaviour of DesksSpec is one of every module,    *)
(* and what was proved of each holds of all of them together.                  *)
LEMMA OneDeskMoves ==
    ASSUME [DesksNext]_desksVars
    PROVE  /\ [Next]_vars /\ [ConversationNext]_conversationVars
           /\ [DirectMessagesNext]_directMessagesVars /\ [ReviewsNext]_reviewsVars
           /\ [AccountsNext]_accountsVars /\ [AgendaNext]_agendaVars
           /\ [CatalogueNext]_catalogueVars /\ [MediaNext]_mediaVars
           /\ UNCHANGED desk
    BY DEF DesksNext, desksVars, At

LEMMA EachDeskRunsItsOwn ==
    DesksSpec => /\ Spec /\ ConversationSpec /\ DirectMessagesSpec /\ ReviewsSpec
                 /\ AccountsSpec /\ AgendaSpec /\ CatalogueSpec /\ MediaSpec
<1>1. DesksInit => /\ Init /\ ConversationInit /\ DirectMessagesInit /\ ReviewsInit
                   /\ AccountsInit /\ AgendaInit /\ CatalogueInit /\ MediaInit
    BY DEF DesksInit
<1>2. [DesksNext]_desksVars
      => /\ [Next]_vars /\ [ConversationNext]_conversationVars
         /\ [DirectMessagesNext]_directMessagesVars /\ [ReviewsNext]_reviewsVars
         /\ [AccountsNext]_accountsVars /\ [AgendaNext]_agendaVars
         /\ [CatalogueNext]_catalogueVars /\ [MediaNext]_mediaVars
    BY OneDeskMoves
<1>3. QED
    BY <1>1, <1>2, PTL DEF DesksSpec, Spec, ConversationSpec, DirectMessagesSpec, ReviewsSpec,
                           AccountsSpec, AgendaSpec, CatalogueSpec, MediaSpec

(* The types of all the desks, whichever of them moves. *)
THEOREM DesksTypesCorrect == DesksSpec => []DesksTypeOK
<1>1. DesksSpec => [](desk \in Desks)
    <2>1. DesksInit => desk \in Desks
        BY DEF DesksInit
    <2>2. desk \in Desks /\ [DesksNext]_desksVars => (desk \in Desks)'
        BY OneDeskMoves
    <2>3. QED
        BY <2>1, <2>2, PTL DEF DesksSpec
<1>2. ConversationSpec /\ DirectMessagesSpec => [](TalkInv /\ LettersInv)
    BY InitTalkInv, NextTalkInv, InitLettersInv, NextLettersInv, PTL
       DEF ConversationSpec, DirectMessagesSpec
<1>3. ReviewsSpec /\ AccountsSpec => [](ReviewsInv /\ AccountsInv)
    BY InitReviewsInv, NextReviewsInv, InitAccountsInv, NextAccountsInv, PTL
       DEF ReviewsSpec, AccountsSpec
<1>4. AgendaSpec /\ CatalogueSpec /\ MediaSpec => [](AgendaInv /\ CatalogueInv /\ MediaInv)
    BY InitAgendaInv, NextAgendaInv, InitCatalogueInv, NextCatalogueInv, InitMediaInv,
       NextMediaInv, PTL
       DEF AgendaSpec, CatalogueSpec, MediaSpec
<1>5. /\ desk \in Desks /\ TypeOK /\ TalkInv /\ LettersInv /\ ReviewsInv /\ AccountsInv
      /\ AgendaInv /\ CatalogueInv /\ MediaInv
      => DesksTypeOK
    BY DEF DesksTypeOK, TalkInv, LettersInv, ReviewsInv, AccountsInv, AgendaInv, CatalogueInv,
           MediaInv
<1>6. QED
    BY <1>1, <1>2, <1>3, <1>4, <1>5, EachDeskRunsItsOwn, PayoutTypesCorrect, PTL

(* The desk "payouts alone": at most one transaction is open after any step.   *)
LEMMA OneAtATimeIsOne ==
    ASSUME KInv, OneIsOpen, Next, OneAtATime
    PROVE  OneIsOpen'
<1>1. PICK t \in Transactions : \A u \in Transactions \ {t} : tx'[u] = tx[u]
    BY DEF Next, ReleaseEscrow, RequestPayout, CancelPayout, GetWallet, ReadPayout,
           LockAndDecide, Commit, RollBack, KInv, IInv, TypeOK
<1> DEFINE S == {u \in Transactions : tx'[u].phase # "idle"}
<1>2. IsFiniteSet(S)
    <2>1. PICK w : S \subseteq {w} \cup {t}
        BY <1>1 DEF OneIsOpen, IsIdle
    <2>2. IsFiniteSet({w} \cup {t})
        BY FS_Singleton, FS_AddElement
    <2> HIDE DEF S
    <2>3. QED
        BY <2>1, <2>2, FS_Subset
<1>3. Cardinality(S) <= 1
    BY DEF OneAtATime
<1>4. ASSUME NEW u \in S, NEW w \in S PROVE u = w
    <2> HIDE DEF S
    <2>1. /\ IsFiniteSet(S \ {u}) /\ Cardinality(S \ {u}) = Cardinality(S) - 1
        BY <1>2, FS_RemoveElement
    <2>2. Cardinality(S) \in Nat /\ Cardinality(S \ {u}) \in Nat
        BY <1>2, <2>1, FS_CardinalityType
    <2>3. Cardinality(S \ {u}) = 0
        BY <1>3, <2>1, <2>2
    <2>4. S \ {u} = {}
        BY <2>1, <2>3, FS_EmptySet
    <2>5. QED
        BY <2>4
<1>5. QED
    BY <1>4 DEF OneIsOpen, IsIdle

LEMMA AloneStep ==
    ASSUME KInv, desk = "payouts alone" => BooksInv, [DesksNext]_desksVars
    PROVE  (desk = "payouts alone" => BooksInv)'
<1>1. desk' = desk
    BY OneDeskMoves
<1>2. SUFFICES ASSUME desk = "payouts alone" PROVE BooksInv'
    BY <1>1
<1>3. (Next /\ OneAtATime) \/ UNCHANGED vars
    BY <1>2 DEF DesksNext, desksVars, At
<1>4. BooksInv
    BY <1>2
<1>5. CASE Next /\ OneAtATime
    BY <1>4, <1>5, OneAtATimeIsOne, StepKeepsBooks DEF BooksInv
<1>6. CASE UNCHANGED vars
    BY <1>4, <1>6, BooksStutter
<1>7. QED
    BY <1>3, <1>5, <1>6

(* Where decisions do not overlap, for any number of creators, withdrawals and *)
(* releases: what is reserved is the sum of the withdrawals that may still     *)
(* happen, a reservation ends once, and the wallet shows what the books owe    *)
(* (PayoutLedgerService, recomputeFromLedger).                                 *)
THEOREM AloneTheBooksAlwaysAgree == DesksSpec => []AloneTheBooksAgree
<1>1. Spec => []KInv
    BY InitKInv, NextKInv, PTL DEF Spec
<1>2. DesksInit => (desk = "payouts alone" => BooksInv)
    BY InitBooks DEF DesksInit
<1>3. KInv /\ (desk = "payouts alone" => BooksInv) /\ [DesksNext]_desksVars
      => (desk = "payouts alone" => BooksInv)'
    BY AloneStep
<1>4. (desk = "payouts alone" => BooksInv) => AloneTheBooksAgree
    BY BooksAgree DEF AloneTheBooksAgree
<1>5. QED
    BY <1>1, <1>2, <1>3, <1>4, EachDeskRunsItsOwn, PTL DEF DesksSpec

(* What the run of the desks checks of them, of any number of users, rows and   *)
(* requests.                                                                   *)
THEOREM EveryDeskKeepsItsWord ==
    DesksSpec =>
        /\ []NeverOverdrawn /\ []AloneTheBooksAgree /\ []ConversationIsOnRecord
        /\ []FreeMessagesAreAWeekApart /\ []OneAccountOnePending /\ []LevelIsDecided
        /\ []WindowsAreKeptAndShown /\ []PriceFollowsContent /\ []EveryMediaHasItsFile
        /\ []WithdrawnIsNotServed
        /\ CancelNeverOverwritesADecision /\ WhatIsPublishedStays /\ HiddenUntilShown
    BY EachDeskRunsItsOwn, CreatorsAreNeverOverdrawn, AloneTheBooksAlwaysAgree,
       ConversationIsAlwaysOnRecord, WeeklyLimitHolds, NobodySharesOrQueuesTwice,
       LevelIsAlwaysDecided, AgendaAlwaysHolds, PriceAlwaysFollowsContent,
       MediaAlwaysHaveTheirFiles, DecisionsAreNeverCancelled, AcceptedReviewsStay,
       HiddenProfilesStayHidden, NothingWithdrawnIsServed
==============================================================================
