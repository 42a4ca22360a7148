------------------------------- MODULE Outbox -------------------------------
(***************************************************************************)
(* Notifications (modules/notifications): the rows of outbox_events, which *)
(* every use case writes in its own transaction, the workers that consume  *)
(* them, and the log of deliveries whose unique key keeps the same notice  *)
(* from going out twice.                                                   *)
(*                                                                         *)
(* A worker is the scheduler of one process or an administrator who runs   *)
(* the dispatch by hand: nothing but that key keeps them apart.  One of    *)
(* its passes goes                                                         *)
(*     claim, then per event: defer or plan, then per notice: look at the  *)
(*     account, record the delivery (a transaction of its own), send       *)
(* and it can stop between any two of these, at an error or in a crash.    *)
(*                                                                         *)
(* The clock counts the hours of the day in UTC; the minutes of a retry    *)
(* are not modelled (an event that failed may be claimed again at once),   *)
(* nor are the attempts, which no condition reads, nor the limit of 100    *)
(* events to a pass.                                                       *)
(***************************************************************************)
EXTENDS Integers, FiniteSets

CONSTANTS
    Events,     \* ids of rows of outbox_events (a bound: how many are published)
    Workers,    \* passes that may run at once (a bound)
    Buyer,      \* the two parties of the deal the events are about
    Creator,
    Types,      \* the types of event that are published, user.suspended apart
    Hours,      \* hours of the day, UTC, at which something happens
    MaxFaults   \* errors and crashes that may happen (a bound)

Users == {Buyer, Creator}

ASSUME OutboxAssumption ==
    /\ Buyer # Creator
    /\ Hours \subseteq 0 .. 23
    /\ MaxFaults \in Nat
    /\ "none" \notin Events \cup Workers \cup Users

VARIABLES
    event,    \* outbox_events
    account,  \* users.status
    log,      \* idempotency keys of notification_deliveries
    sent,     \* per key, how often the channel was given it
    worker,   \* the passes under way
    clock,    \* the hour of the day, UTC
    faults,   \* errors and crashes so far
    skipped   \* keys whose account was found suspended (history)

vars == <<event, account, log, sent, worker, clock, faults, skipped>>
-----------------------------------------------------------------------------
(* Who is told of what: EVENT_MATRIX and DIRECT_MATRIX. *)
ToCreator == {"deal.created", "delivery.rejected", "escrow.released", "deal.refunded",
              "deal.counter_offer_accepted", "deal.counter_offer_declined"}

ToBuyer == {"deal.accepted", "deal.declined", "delivery.submitted", "escrow.refunded",
            "deal.counter_offered"}

ToBoth == {"payment.captured", "deal.expired", "message.created", "dispute.opened",
           "dispute.resolved", "dispute.withdrawn"}

(* Told to the user the event names, or to the creator of its profile. *)
Direct == {"payout.paid", "payout.failed", "identity.approved", "identity.rejected",
           "user.suspended"}

Channel == {"PUSH", "SMS", "EMAIL"}

ByMail == {"deal.declined", "delivery.submitted", "deal.counter_offered", "dispute.opened",
           "dispute.resolved"}

(* SMS_PERMITIDO, which are also the types whose entry asks for one. *)
ByMessage == {"deal.created", "deal.accepted", "payout.paid"}

ChannelsOf(type) ==
    IF type = "user.suspended"
    THEN {"EMAIL"}
    ELSE {"PUSH"} \cup {c \in {"EMAIL"} : type \in ByMail} \cup {c \in {"SMS"} : type \in ByMessage}

(* ATRAVESSA_A_NOITE: money and disputes wake people up. *)
CrossesTheNight == {"payment.captured", "deal.created", "dispute.opened", "dispute.resolved",
                    "escrow.released", "escrow.refunded", "payout.paid"}

EventType == ToCreator \cup ToBuyer \cup ToBoth \cup Direct \cup {"identity.submitted"}

ASSUME TypesAssumption == Types \subseteq EventType

(* about is the author of a message, or the user a direct event names. *)
EventRow == [state : {"unpublished", "waiting", "processed"}, type : EventType \cup {"none"},
             about : Users \cup {"none"}, deferred : BOOLEAN]

Unpublished == [state |-> "unpublished", type |-> "none", about |-> "none", deferred |-> FALSE]

Published(type, about) ==
    [state |-> "waiting", type |-> type, about |-> about, deferred |-> FALSE]

Recipients(e) ==
    LET type == event[e].type
    IN  CASE type \in Direct    -> {event[e].about}
          [] type \in ToCreator -> {Creator} \ {event[e].about}
          [] type \in ToBuyer   -> {Buyer} \ {event[e].about}
          [] type \in ToBoth    -> Users \ {event[e].about}
          [] OTHER              -> {}

(* notificationKey: event, recipient and channel. *)
Key == Events \X Users \X Channel

(* NotificationPlanner.plan: one notice for each recipient and channel. *)
Plan(e) == {e} \X Recipients(e) \X ChannelsOf(event[e].type)
-----------------------------------------------------------------------------
(* The silence of the night, 22h to 7h in Luanda, which is UTC+1. *)
LuandaHour(hour) == (hour + 1) % 24

IsQuietHour(hour) == LuandaHour(hour) >= 22 \/ LuandaHour(hour) < 7

(* Mutant: the night is over an hour early. *)
DeliverableEarly(hour, type) ==
    IF ~ IsQuietHour(hour) \/ LuandaHour(hour) = 6 \/ type \in CrossesTheNight THEN hour
    ELSE 6 + (IF LuandaHour(hour) >= 22 THEN 24 ELSE 0)

(* deliverableAt, in hours since midnight UTC of the day of that hour: 6h UTC *)
(* of the same day in UTC, or of the next one from 22h in Luanda on.          *)
DeliverableAt(hour, type) ==
    IF ~ IsQuietHour(hour) \/ type \in CrossesTheNight THEN hour
    ELSE 6 + (IF LuandaHour(hour) >= 22 THEN 24 ELSE 0)

(* The hour after this one at which something happens. *)
IsNextHour(hour, next) ==
    \A g \in Hours \ {hour} : next # hour /\ (next - hour) % 24 <= (g - hour) % 24

(* It gets to be 6h UTC on the way from one hour to the next. *)
MorningComes(hour, next) ==
    IF next > hour THEN hour < 6 /\ next >= 6 ELSE hour < 6 \/ next >= 6
-----------------------------------------------------------------------------
(* A pass: the events it claimed and has not come to, the one it is at, the  *)
(* notices left of it and the one being delivered; when it began, and        *)
(* whether a morning has come since.                                         *)
Idle == [phase |-> "idle", batch |-> {}, event |-> "none", plans |-> {}, key |-> <<>>,
         began |-> 0, morning |-> FALSE]

WorkerRow ==
    [phase : {"idle", "pass", "deliver", "record", "send"}, batch : SUBSET Events,
     event : Events \cup {"none"}, plans : SUBSET Key, key : Key \cup {<<>>},
     began : 0 .. 23, morning : BOOLEAN]

(* claimBatch: not processed, and available by now. *)
Claimable(e) == event[e].state = "waiting" /\ ~ event[e].deferred

(* The worker is done with the event it is at, and goes on with its batch. *)
NextInBatch(w) == [worker[w] EXCEPT !.phase = "pass", !.event = "none", !.plans = {}, !.key = <<>>]

(* The worker is done with this notice. *)
NoticeDone(w) ==
    [worker[w] EXCEPT !.phase = "deliver", !.plans = @ \ {worker[w].key}, !.key = <<>>]

Init ==
    /\ event   = [e \in Events |-> Unpublished]
    /\ account \in [Users -> {"ACTIVE", "SUSPENDED"}]
    /\ log     = {}
    /\ sent    = [k \in Key |-> 0]
    /\ worker  = [w \in Workers |-> Idle]
    /\ clock \in Hours
    /\ faults  = 0
    /\ skipped = {}

(* A use case commits its transition and, with it, the event: of a deal, or a  *)
(* decision about the creator.                                                 *)
Publish(e, type, about) ==
    /\ event[e].state = "unpublished"
    /\ type \in Direct => about = Creator
    /\ type # "message.created" /\ type \notin Direct => about = "none"
    /\ type = "message.created" => about \in Users
    /\ event' = [event EXCEPT ![e] = Published(type, about)]
    /\ UNCHANGED <<account, log, sent, worker, clock, faults, skipped>>

(* SuspendUserUseCase: the status and its event, in one transaction. *)
Suspend(e, u) ==
    /\ event[e].state = "unpublished"
    /\ account' = [account EXCEPT ![u] = "SUSPENDED"]
    /\ event' = [event EXCEPT ![e] = Published("user.suspended", u)]
    /\ UNCHANGED <<log, sent, worker, clock, faults, skipped>>

(* ReinstateUserUseCase: nobody is told. *)
Reinstate(u) ==
    /\ account[u] = "SUSPENDED"
    /\ account' = [account EXCEPT ![u] = "ACTIVE"]
    /\ UNCHANGED <<event, log, sent, worker, clock, faults, skipped>>

(* execute: one pass at a time for each worker (running), on what can be claimed. *)
Claim(w) ==
    /\ worker[w].phase = "idle"
    /\ \E e \in Events : Claimable(e)
    /\ worker' = [worker EXCEPT ![w] = [Idle EXCEPT !.phase = "pass",
                                                    !.batch = {e \in Events : Claimable(e)},
                                                    !.began = clock]]
    /\ UNCHANGED <<event, account, log, sent, clock, faults, skipped>>

(* The silence of the night puts the event off (markFailed), to a morning that *)
(* may have come since the pass began.                                         *)
Defer(w, e) ==
    /\ worker[w].phase = "pass"
    /\ e \in worker[w].batch
    /\ DeliverableAt(worker[w].began, event[e].type) > worker[w].began
    /\ event' = [event EXCEPT ![e].deferred = ~ worker[w].morning]
    /\ worker' = [worker EXCEPT ![w].batch = @ \ {e}]
    /\ UNCHANGED <<account, log, sent, clock, faults, skipped>>

(* dispatch: plan the notices of the event. *)
Dispatch(w, e) ==
    /\ worker[w].phase = "pass"
    /\ e \in worker[w].batch
    /\ DeliverableAt(worker[w].began, event[e].type) <= worker[w].began
    /\ worker' = [worker EXCEPT ![w].phase = "deliver", ![w].batch = @ \ {e},
                                ![w].event = e, ![w].plans = Plan(e)]
    /\ UNCHANGED <<event, account, log, sent, clock, faults, skipped>>

(* deliver: a suspended account is not written to ... *)
SkipSuspended(w, k) ==
    /\ worker[w].phase = "deliver"
    /\ k \in worker[w].plans
    /\ account[k[2]] # "ACTIVE"
    /\ worker' = [worker EXCEPT ![w].plans = @ \ {k}]
    /\ skipped' = skipped \cup {k}
    /\ UNCHANGED <<event, account, log, sent, clock, faults>>

(* ... and any other is, from here on whatever becomes of it. *)
LookAtAccount(w, k) ==
    /\ worker[w].phase = "deliver"
    /\ k \in worker[w].plans
    /\ account[k[2]] = "ACTIVE"
    /\ worker' = [worker EXCEPT ![w].phase = "record", ![w].key = k]
    /\ UNCHANGED <<event, account, log, sent, clock, faults, skipped>>

(* Mutant: a key that is there already does not stop the notice. *)
RecordAnyway(w) ==
    /\ worker[w].phase = "record"
    /\ log' = log \cup {worker[w].key}
    /\ worker' = [worker EXCEPT ![w].phase = "send"]
    /\ UNCHANGED <<event, account, sent, clock, faults, skipped>>

(* recordIfNew commits before the notice is sent; the unique key tells whether *)
(* somebody, this worker in an earlier pass or another, recorded it already.   *)
Record(w) ==
    /\ worker[w].phase = "record"
    /\ log' = log \cup {worker[w].key}
    /\ worker' = [worker EXCEPT ![w] = IF worker[w].key \in log THEN NoticeDone(w)
                                       ELSE [@ EXCEPT !.phase = "send"]]
    /\ UNCHANGED <<event, account, sent, clock, faults, skipped>>

(* NotificationChannel.send. *)
Send(w) ==
    /\ worker[w].phase = "send"
    /\ sent' = [sent EXCEPT ![worker[w].key] = @ + 1]
    /\ worker' = [worker EXCEPT ![w] = NoticeDone(w)]
    /\ UNCHANGED <<event, account, log, clock, faults, skipped>>

(* Mutant: an event whose notices were all given out is not marked. *)
LeaveUnmarked(w) ==
    /\ worker[w].phase = "deliver"
    /\ worker[w].plans = {}
    /\ worker' = [worker EXCEPT ![w] = NextInBatch(w)]
    /\ UNCHANGED <<event, account, log, sent, clock, faults, skipped>>

(* markProcessed, once every notice has had its turn. *)
MarkProcessed(w) ==
    /\ worker[w].phase = "deliver"
    /\ worker[w].plans = {}
    /\ event' = [event EXCEPT ![worker[w].event].state = "processed"]
    /\ worker' = [worker EXCEPT ![w] = NextInBatch(w)]
    /\ UNCHANGED <<account, log, sent, clock, faults, skipped>>

(* Mutant: an event that failed is given up. *)
GiveUp(w) ==
    /\ worker[w].phase \in {"deliver", "record", "send"}
    /\ faults < MaxFaults
    /\ faults' = faults + 1
    /\ event' = [event EXCEPT ![worker[w].event].state = "processed"]
    /\ worker' = [worker EXCEPT ![w] = NextInBatch(w)]
    /\ UNCHANGED <<account, log, sent, clock, skipped>>

(* The planner, the database or the channel throws: the event stays unprocessed *)
(* and waits some minutes (retry), however often that has happened.             *)
Fail(w) ==
    /\ worker[w].phase \in {"deliver", "record", "send"}
    /\ faults < MaxFaults
    /\ faults' = faults + 1
    /\ worker' = [worker EXCEPT ![w] = NextInBatch(w)]
    /\ UNCHANGED <<event, account, log, sent, clock, skipped>>

EndPass(w) ==
    /\ worker[w].phase = "pass"
    /\ worker[w].batch = {}
    /\ worker' = [worker EXCEPT ![w] = Idle]
    /\ UNCHANGED <<event, account, log, sent, clock, faults, skipped>>

(* The process dies, or loses its database, and its pass with it. *)
Crash(w) ==
    /\ worker[w].phase # "idle"
    /\ faults < MaxFaults
    /\ faults' = faults + 1
    /\ worker' = [worker EXCEPT ![w] = Idle]
    /\ UNCHANGED <<event, account, log, sent, clock, skipped>>

(* Time passes, and what was put off to this morning becomes available.  A pass *)
(* sees the hour change once at most.                                           *)
Tick(hour) ==
    /\ \A w \in Workers : worker[w].phase # "idle" => worker[w].began = clock
    /\ IsNextHour(clock, hour)
    /\ clock' = hour
    /\ event' = [e \in Events |-> [event[e] EXCEPT !.deferred = @ /\ ~ MorningComes(clock, hour)]]
    /\ worker' = [w \in Workers |->
                     IF worker[w].phase = "idle" THEN Idle
                     ELSE [worker[w] EXCEPT !.morning = @ \/ MorningComes(clock, hour)]]
    /\ UNCHANGED <<account, log, sent, faults, skipped>>

Step(w) ==
    \/ Claim(w)
    \/ \E e \in Events : Defer(w, e) \/ Dispatch(w, e)
    \/ \E k \in Key : SkipSuspended(w, k) \/ LookAtAccount(w, k)
    \/ Record(w)
    \/ Send(w)
    \/ MarkProcessed(w)
    \/ EndPass(w)

Next ==
    \/ \E e \in Events, type \in Types, about \in Users \cup {"none"} : Publish(e, type, about)
    \/ \E e \in Events, u \in Users : Suspend(e, u)
    \/ \E u \in Users : Reinstate(u)
    \/ \E w \in Workers : Step(w) \/ Fail(w) \/ Crash(w)
    \/ \E hour \in Hours : Tick(hour)

Spec == Init /\ [][Next]_vars

(* The timer of OutboxScheduler starts pass after pass, seconds apart, so that  *)
(* one of them begins by day; a pass goes on by itself; the hours go by.        *)
(* Nothing obliges anybody else to act.                                         *)
ClaimByDay(w) == Claim(w) /\ ~ IsQuietHour(clock)

FairSpec ==
    /\ Spec
    /\ WF_vars(\E hour \in Hours : Tick(hour))
    /\ \A w \in Workers : WF_vars(Step(w)) /\ SF_vars(ClaimByDay(w))
-----------------------------------------------------------------------------
TypeOK ==
    /\ event \in [Events -> EventRow]
    /\ account \in [Users -> {"ACTIVE", "SUSPENDED"}]
    /\ log \subseteq Key
    /\ sent \in [Key -> Nat]
    /\ worker \in [Workers -> WorkerRow]
    /\ clock \in 0 .. 23
    /\ faults \in 0 .. MaxFaults
    /\ skipped \subseteq Key

(* However passes overlap, fail, are retried or die half way, the same notice  *)
(* never goes out twice (notification.ts: "A chave que impede a mesma          *)
(* notificação de sair duas vezes").                                           *)
SentOnce == \A k \in Key : sent[k] <= 1

(* An event is only put aside once everyone it is about has been seen to:      *)
(* whatever failed on the way, each notice was recorded, or its account was    *)
(* suspended when its turn came (dispatch-outbox.use-case.ts: "Um que falhe    *)
(* não leva atrás os outros, e volta a ser tentado").                          *)
ProcessedReachedEverybody ==
    \A e \in Events : event[e].state = "processed" => Plan(e) \subseteq log \cup skipped

(* What is sent in the silence of the night is money or a dispute, and it is   *)
(* the pass that has to begin outside it (deliverableAt).  The code is an hour *)
(* short: from 0h to 1h in Luanda it is still the day before in UTC, and the   *)
(* morning that deliverableAt answers has been already.                        *)
NightIsSilent ==
    [][\A w \in Workers :
          worker[w].phase = "deliver" /\ worker'[w].phase = "record" =>
              \/ event[worker[w].event].type \in CrossesTheNight
              \/ ~ IsQuietHour(worker[w].began)
              \/ LuandaHour(worker[w].began) = 0]_vars

(* Silence puts off and an error delays, but no event is abandoned: each is    *)
(* processed in the end (notification.ts: "adiar, não descartar").             *)
EventsAreProcessed ==
    \A e \in Events : event[e].state = "waiting" ~> event[e].state = "processed"

(* Who is suspended is told so: event-matrix.ts:133 sends user.suspended by    *)
(* mail.  The dispatcher skips every account that is not active, which that    *)
(* account no longer is.                                                       *)
SuspensionIsTold ==
    \A e \in Events :
        event[e].state = "processed" /\ event[e].type = "user.suspended" => Plan(e) \subseteq log
=============================================================================
