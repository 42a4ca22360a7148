--------------------------- MODULE OperationsProofs ---------------------------
(***************************************************************************)
(* What the work in the background promises, for any number of events,     *)
(* workers, tables, passes and administrators: the two modules share no    *)
(* state.                                                                  *)
(***************************************************************************)
EXTENDS Outbox, Reconciliation, SequenceTheorems, FiniteSetTheorems, TLAPS

-----------------------------------------------------------------------------
(* The outbox.  However many passes of the dispatcher overlap, fail and die,   *)
(* no notice goes out twice.                                                   *)

(* What the types leave out: a direct event names a user.                   *)
DirectNamesSomebody ==
    \A e \in Events :
        /\ event[e].type \in Direct => event[e].about \in Users

(* Why a notice goes out once: the key of whatever was sent, or is about to  *)
(* be, is in the log, so nobody records it again; and of what is about to be *)
(* sent nothing has gone out, and one worker alone holds it.                 *)
Sending(w) == worker[w].phase = "send"

LogGuardsTheChannel ==
    /\ \A k \in Key : sent[k] = 0 \/ (sent[k] = 1 /\ k \in log)
    /\ \A w \in Workers : Sending(w) => worker[w].key \in log /\ sent[worker[w].key] = 0
    /\ \A v, w \in Workers :
           Sending(v) /\ Sending(w) /\ worker[v].key = worker[w].key => v = w

HasKey == \A w \in Workers : worker[w].phase \in {"record", "send"} => worker[w].key \in Key

NoticesInv == TypeOK /\ DirectNamesSomebody /\ HasKey /\ LogGuardsTheChannel

(* The notices of an event are keys: its recipients are users. *)
LEMMA PlanIsKeys ==
    ASSUME TypeOK, DirectNamesSomebody, NEW e \in Events
    PROVE  Plan(e) \subseteq Key
<1>1. event[e] \in EventRow
    BY DEF TypeOK
<1>2. Recipients(e) \subseteq Users
    BY <1>1 DEF Recipients, DirectNamesSomebody, Users, EventRow
<1>3. ChannelsOf(event[e].type) \subseteq Channel
    BY DEF ChannelsOf, Channel
<1>4. QED
    BY <1>2, <1>3, Zenon DEF Plan, Key

LEMMA IdleRow == Idle \in WorkerRow
BY DEF Idle, WorkerRow

LEMMA RowsOfWorkers ==
    ASSUME TypeOK, NEW w \in Workers
    PROVE  /\ NextInBatch(w) \in WorkerRow
           /\ NoticeDone(w) \in WorkerRow
           /\ NextInBatch(w).phase = "pass"
           /\ NoticeDone(w).phase = "deliver"
<1>1. worker[w] \in WorkerRow
    BY DEF TypeOK
<1>2. QED
    BY <1>1 DEF NextInBatch, NoticeDone, WorkerRow

LEMMA InitNoticesInv == Init => NoticesInv
<1> SUFFICES ASSUME Init PROVE NoticesInv
    OBVIOUS
<1>1. TypeOK
    <2>1. Unpublished \in EventRow
        BY DEF Unpublished, EventRow
    <2>2. QED
        BY <2>1, IdleRow, OutboxAssumption DEF Init, TypeOK
<1>2. DirectNamesSomebody
    BY DEF Init, DirectNamesSomebody, Unpublished, Direct
<1>3. HasKey
    BY DEF Init, HasKey, Idle
<1>4. LogGuardsTheChannel
    BY DEF Init, LogGuardsTheChannel, Sending, Idle
<1>5. QED
    BY <1>1, <1>2, <1>3, <1>4 DEF NoticesInv

(* A worker that goes on to a row that neither records nor sends, while the   *)
(* channel is left alone, disturbs nobody.                                    *)
LEMMA QuietStep ==
    ASSUME NoticesInv, NEW w \in Workers, NEW entry \in WorkerRow,
           entry.phase \notin {"record", "send"},
           worker' = [worker EXCEPT ![w] = entry],
           UNCHANGED <<log, sent>>
    PROVE  /\ worker' \in [Workers -> WorkerRow]
           /\ HasKey'
           /\ LogGuardsTheChannel'
<1>1. worker' \in [Workers -> WorkerRow]
    BY DEF NoticesInv, TypeOK
<1>2. \A v \in Workers : worker'[v] = worker[v] \/ worker'[v].phase \notin {"record", "send"}
    BY DEF NoticesInv, TypeOK
<1>3. HasKey'
    BY <1>2 DEF NoticesInv, HasKey
<1>4. LogGuardsTheChannel'
    BY <1>2 DEF NoticesInv, LogGuardsTheChannel, Sending
<1>5. QED
    BY <1>1, <1>3, <1>4

(* The workers are left alone and an event changes. *)
LEMMA EventStep ==
    ASSUME NoticesInv, NEW e \in Events, NEW entry \in EventRow,
           entry.type \in Direct => entry.about \in Users,
           event' = [event EXCEPT ![e] = entry],
           account' \in [Users -> {"ACTIVE", "SUSPENDED"}],
           UNCHANGED <<log, sent, worker, clock, faults, skipped>>
    PROVE  NoticesInv'
<1>1. TypeOK'
    BY DEF NoticesInv, TypeOK
<1>2. DirectNamesSomebody'
    BY DEF NoticesInv, TypeOK, DirectNamesSomebody
<1>3. HasKey' /\ LogGuardsTheChannel'
    BY DEF NoticesInv, HasKey, LogGuardsTheChannel, Sending
<1>4. QED
    BY <1>1, <1>2, <1>3 DEF NoticesInv

LEMMA PublishStep ==
    ASSUME NoticesInv, NEW e \in Events, NEW type \in Types, NEW about \in Users \cup {"none"},
           Publish(e, type, about)
    PROVE  NoticesInv'
<1> DEFINE entry == Published(type, about)
<1>1. entry \in EventRow
    BY TypesAssumption DEF Published, EventRow
<1>2. entry.type \in Direct => entry.about \in Users
    BY DEF Published, Publish, Users
<1>3. account' \in [Users -> {"ACTIVE", "SUSPENDED"}]
    BY DEF Publish, NoticesInv, TypeOK
<1>4. event' = [event EXCEPT ![e] = entry]
    BY DEF Publish
<1>5. UNCHANGED <<log, sent, worker, clock, faults, skipped>>
    BY DEF Publish
<1> HIDE DEF entry
<1>6. QED
    BY <1>1, <1>2, <1>3, <1>4, <1>5, EventStep

LEMMA SuspendStep ==
    ASSUME NoticesInv, NEW e \in Events, NEW u \in Users, Suspend(e, u)
    PROVE  NoticesInv'
<1> DEFINE entry == Published("user.suspended", u)
<1>1. entry \in EventRow
    BY DEF Published, EventRow, EventType, Direct
<1>2. entry.type \in Direct => entry.about \in Users
    BY DEF Published
<1>3. account' \in [Users -> {"ACTIVE", "SUSPENDED"}]
    BY DEF Suspend, NoticesInv, TypeOK
<1>4. event' = [event EXCEPT ![e] = entry]
    BY DEF Suspend
<1>5. UNCHANGED <<log, sent, worker, clock, faults, skipped>>
    BY DEF Suspend
<1> HIDE DEF entry
<1>6. QED
    BY <1>1, <1>2, <1>3, <1>4, <1>5, EventStep

LEMMA ReinstateStep ==
    ASSUME NoticesInv, NEW u \in Users, Reinstate(u)
    PROVE  NoticesInv'
<1>1. TypeOK'
    BY DEF NoticesInv, TypeOK, Reinstate
<1>2. DirectNamesSomebody' /\ HasKey' /\ LogGuardsTheChannel'
    BY DEF NoticesInv, DirectNamesSomebody, HasKey, LogGuardsTheChannel, Sending, Reinstate
<1>3. QED
    BY <1>1, <1>2 DEF NoticesInv

(* The steps of a pass that neither record nor send. *)
LEMMA PassStep ==
    ASSUME NoticesInv, NEW w \in Workers,
           \/ Claim(w)
           \/ \E e \in Events : Defer(w, e) \/ Dispatch(w, e)
           \/ \E k \in Key : SkipSuspended(w, k)
           \/ MarkProcessed(w)
           \/ EndPass(w)
           \/ Fail(w)
           \/ Crash(w)
    PROVE  NoticesInv'
<1> DEFINE entry == worker'[w]
<1>0. worker[w] \in WorkerRow /\ worker \in [Workers -> WorkerRow]
    BY DEF NoticesInv, TypeOK
<1>1. CASE Claim(w)
    <2>1. entry \in WorkerRow /\ entry.phase = "pass" /\ worker' = [worker EXCEPT ![w] = entry]
        <3>1. clock \in 0 .. 23
            BY DEF NoticesInv, TypeOK
        <3>2. QED
            BY <1>0, <1>1, <3>1 DEF Claim, Idle, WorkerRow
    <2>2. UNCHANGED <<event, account, log, sent, clock, faults, skipped>>
        BY <1>1 DEF Claim
    <2> HIDE DEF entry
    <2>3. worker' \in [Workers -> WorkerRow] /\ HasKey' /\ LogGuardsTheChannel'
        BY <2>1, <2>2, QuietStep
    <2>4. QED
        BY <2>2, <2>3 DEF NoticesInv, TypeOK, DirectNamesSomebody
<1>2. ASSUME NEW e \in Events, Defer(w, e) PROVE NoticesInv'
    <2>1. entry \in WorkerRow /\ entry.phase = "pass" /\ worker' = [worker EXCEPT ![w] = entry]
        BY <1>0, <1>2 DEF Defer, WorkerRow
    <2>2. UNCHANGED <<account, log, sent, clock, faults, skipped>>
        BY <1>2 DEF Defer
    <2> HIDE DEF entry
    <2>3. worker' \in [Workers -> WorkerRow] /\ HasKey' /\ LogGuardsTheChannel'
        BY <2>1, <2>2, QuietStep
    <2>4. event' \in [Events -> EventRow] /\ DirectNamesSomebody'
        <3> DEFINE b == ~ worker[w].morning
        <3>1. event' = [event EXCEPT ![e].deferred = b] /\ event \in [Events -> EventRow] /\ b \in BOOLEAN
            BY <1>2, <1>0 DEF Defer, NoticesInv, TypeOK, WorkerRow
        <3> HIDE DEF b
        <3>2. QED
            BY <3>1 DEF NoticesInv, DirectNamesSomebody, EventRow
    <2>5. QED
        BY <2>2, <2>3, <2>4 DEF NoticesInv, TypeOK
<1>3. ASSUME NEW e \in Events, Dispatch(w, e) PROVE NoticesInv'
    <2>1. entry \in WorkerRow /\ entry.phase = "deliver" /\ worker' = [worker EXCEPT ![w] = entry]
        <3>1. Plan(e) \subseteq Key
            BY PlanIsKeys DEF NoticesInv
        <3>2. QED
            BY <1>0, <1>3, <3>1 DEF Dispatch, WorkerRow
    <2>2. UNCHANGED <<event, account, log, sent, clock, faults, skipped>>
        BY <1>3 DEF Dispatch
    <2> HIDE DEF entry
    <2>3. worker' \in [Workers -> WorkerRow] /\ HasKey' /\ LogGuardsTheChannel'
        BY <2>1, <2>2, QuietStep
    <2>4. QED
        BY <2>2, <2>3 DEF NoticesInv, TypeOK, DirectNamesSomebody
<1>4. ASSUME NEW k \in Key, SkipSuspended(w, k) PROVE NoticesInv'
    <2>1. entry \in WorkerRow /\ entry.phase = "deliver" /\ worker' = [worker EXCEPT ![w] = entry]
        BY <1>0, <1>4 DEF SkipSuspended, WorkerRow
    <2>2. UNCHANGED <<event, account, log, sent, clock, faults>> /\ skipped' = skipped \cup {k}
        BY <1>4 DEF SkipSuspended
    <2> HIDE DEF entry
    <2>3. worker' \in [Workers -> WorkerRow] /\ HasKey' /\ LogGuardsTheChannel'
        BY <2>1, <2>2, QuietStep
    <2>4. QED
        BY <2>2, <2>3 DEF NoticesInv, TypeOK, DirectNamesSomebody
<1>5. CASE MarkProcessed(w)
    <2>1. worker' = [worker EXCEPT ![w] = NextInBatch(w)] /\ UNCHANGED <<account, log, sent, clock, faults, skipped>>
        BY <1>5 DEF MarkProcessed
    <2>2. worker' \in [Workers -> WorkerRow] /\ HasKey' /\ LogGuardsTheChannel'
        <3>1. NextInBatch(w) \in WorkerRow /\ NextInBatch(w).phase = "pass"
            BY RowsOfWorkers DEF NoticesInv
        <3>2. QED
            BY <2>1, <3>1, QuietStep
    <2>3. event' \in [Events -> EventRow] /\ DirectNamesSomebody'
        BY <1>5 DEF NoticesInv, TypeOK, DirectNamesSomebody, MarkProcessed, EventRow
    <2>4. QED
        BY <2>1, <2>2, <2>3 DEF NoticesInv, TypeOK
<1>6. CASE EndPass(w) \/ Crash(w)
    <2>1. /\ worker' = [worker EXCEPT ![w] = Idle]
          /\ UNCHANGED <<event, account, log, sent, clock, skipped>>
          /\ faults' \in 0 .. MaxFaults
        BY <1>6, OutboxAssumption DEF EndPass, Crash, NoticesInv, TypeOK
    <2>2. worker' \in [Workers -> WorkerRow] /\ HasKey' /\ LogGuardsTheChannel'
        <3>1. Idle.phase = "idle"
            BY DEF Idle
        <3>2. QED
            BY <2>1, <3>1, IdleRow, QuietStep
    <2>3. QED
        BY <2>1, <2>2 DEF NoticesInv, TypeOK, DirectNamesSomebody
<1>7. CASE Fail(w)
    <2>1. /\ worker' = [worker EXCEPT ![w] = NextInBatch(w)]
          /\ UNCHANGED <<event, account, log, sent, clock, skipped>>
          /\ faults' \in 0 .. MaxFaults
        BY <1>7, OutboxAssumption DEF Fail, NoticesInv, TypeOK
    <2>2. worker' \in [Workers -> WorkerRow] /\ HasKey' /\ LogGuardsTheChannel'
        <3>1. NextInBatch(w) \in WorkerRow /\ NextInBatch(w).phase = "pass"
            BY RowsOfWorkers DEF NoticesInv
        <3>2. QED
            BY <2>1, <3>1, QuietStep
    <2>3. QED
        BY <2>1, <2>2 DEF NoticesInv, TypeOK, DirectNamesSomebody
<1>8. QED
    BY <1>1, <1>2, <1>3, <1>4, <1>5, <1>6, <1>7

(* A worker that takes up a notice has its key. *)
LEMMA LookAtAccountStep ==
    ASSUME NoticesInv, NEW w \in Workers, NEW k \in Key, LookAtAccount(w, k)
    PROVE  NoticesInv'
<1>0. worker[w] \in WorkerRow /\ worker \in [Workers -> WorkerRow]
    BY DEF NoticesInv, TypeOK
<1>1. worker' \in [Workers -> WorkerRow]
    BY <1>0 DEF LookAtAccount, WorkerRow
<1>2. \A v \in Workers : worker'[v] = worker[v] \/ (worker'[v].phase = "record" /\ worker'[v].key = k)
    BY <1>0 DEF LookAtAccount, WorkerRow
<1>3. HasKey'
    BY <1>2 DEF NoticesInv, HasKey
<1>4. LogGuardsTheChannel'
    <2>1. UNCHANGED <<log, sent>>
        BY DEF LookAtAccount
    <2>2. \A v \in Workers : Sending(v)' => Sending(v) /\ worker'[v] = worker[v]
        BY <1>2 DEF Sending
    <2>3. QED
        BY <2>1, <2>2 DEF NoticesInv, LogGuardsTheChannel, Sending
<1>5. QED
    BY <1>1, <1>3, <1>4 DEF LookAtAccount, NoticesInv, TypeOK, DirectNamesSomebody

(* Recording: only a key that was not in the log goes on to the channel. *)
LEMMA RecordStep ==
    ASSUME NoticesInv, NEW w \in Workers, Record(w)
    PROVE  NoticesInv'
<1> DEFINE k == worker[w].key
<1>0. worker[w] \in WorkerRow /\ worker \in [Workers -> WorkerRow] /\ k \in Key
    BY DEF NoticesInv, TypeOK, HasKey, Record
<1>1. /\ log' = log \cup {k} /\ log \subseteq Key
      /\ UNCHANGED <<event, account, sent, clock, faults, skipped>>
    BY DEF Record, NoticesInv, TypeOK
<1>2. worker' \in [Workers -> WorkerRow]
    <2>1. NoticeDone(w) \in WorkerRow
        BY RowsOfWorkers DEF NoticesInv
    <2>2. [worker[w] EXCEPT !.phase = "send"] \in WorkerRow
        BY <1>0 DEF WorkerRow
    <2>3. QED
        BY <1>0, <2>1, <2>2 DEF Record
<1>3. \A v \in Workers :
          \/ worker'[v] = worker[v] /\ v # w
          \/ worker'[v].phase = "deliver"
          \/ v = w /\ k \notin log /\ worker'[v].phase = "send" /\ worker'[v].key = k
    <2>1. NoticeDone(w).phase = "deliver"
        BY RowsOfWorkers DEF NoticesInv
    <2>2. [worker[w] EXCEPT !.phase = "send"].phase = "send" /\ [worker[w] EXCEPT !.phase = "send"].key = k
        BY <1>0 DEF WorkerRow
    <2>3. QED
        BY <1>0, <2>1, <2>2 DEF Record
<1> HIDE DEF k
<1>4. HasKey'
    BY <1>0, <1>3 DEF NoticesInv, HasKey
<1>5. LogGuardsTheChannel'
    <2>1. \A j \in Key : (sent[j] = 0 \/ (sent[j] = 1 /\ j \in log))'
        BY <1>1 DEF NoticesInv, LogGuardsTheChannel
    <2>2. \A v \in Workers : (Sending(v) => worker[v].key \in log /\ sent[worker[v].key] = 0)'
        BY <1>0, <1>1, <1>3 DEF NoticesInv, LogGuardsTheChannel, Sending
    <2>3. \A u, v \in Workers : (Sending(u) /\ Sending(v) /\ worker[u].key = worker[v].key => u = v)'
        BY <1>1, <1>3 DEF NoticesInv, LogGuardsTheChannel, Sending
    <2>4. QED
        BY <2>1, <2>2, <2>3 DEF LogGuardsTheChannel
<1>6. QED
    BY <1>0, <1>1, <1>2, <1>4, <1>5 DEF NoticesInv, TypeOK, DirectNamesSomebody

(* Sending: the one worker that holds the key lets go of it. *)
LEMMA SendStep ==
    ASSUME NoticesInv, NEW w \in Workers, Send(w)
    PROVE  NoticesInv'
<1> DEFINE k == worker[w].key
<1>0. /\ worker[w] \in WorkerRow /\ worker \in [Workers -> WorkerRow] /\ k \in Key
      /\ sent \in [Key -> Nat] /\ sent[k] = 0 /\ k \in log
    BY DEF NoticesInv, TypeOK, HasKey, Send, LogGuardsTheChannel, Sending
<1>1. /\ sent' = [sent EXCEPT ![k] = 1]
      /\ UNCHANGED <<event, account, log, clock, faults, skipped>>
    BY <1>0 DEF Send
<1>2. worker' \in [Workers -> WorkerRow]
    <2>1. NoticeDone(w) \in WorkerRow
        BY RowsOfWorkers DEF NoticesInv
    <2>2. QED
        BY <1>0, <2>1 DEF Send
<1>3. \A v \in Workers :
          \/ worker'[v] = worker[v] /\ v # w
          \/ worker'[v].phase = "deliver"
    <2>1. NoticeDone(w).phase = "deliver"
        BY RowsOfWorkers DEF NoticesInv
    <2>2. QED
        BY <1>0, <2>1 DEF Send
<1>4. \A v \in Workers : Sending(v) /\ v # w => worker[v].key # k
    BY DEF NoticesInv, LogGuardsTheChannel, Send, Sending
<1> HIDE DEF k
<1>5. HasKey'
    BY <1>3 DEF NoticesInv, HasKey
<1>6. LogGuardsTheChannel'
    <2>1. \A j \in Key : (sent[j] = 0 \/ (sent[j] = 1 /\ j \in log))'
        BY <1>0, <1>1 DEF NoticesInv, LogGuardsTheChannel
    <2>2. \A v \in Workers : (Sending(v) => worker[v].key \in log /\ sent[worker[v].key] = 0)'
        <3> SUFFICES ASSUME NEW v \in Workers, Sending(v)'
                     PROVE  (worker[v].key \in log /\ sent[worker[v].key] = 0)'
            OBVIOUS
        <3>1. worker'[v] = worker[v] /\ v # w /\ Sending(v)
            BY <1>3 DEF Sending
        <3>2. worker[v].key \in Key /\ worker[v].key # k /\ worker[v].key \in log /\ sent[worker[v].key] = 0
            BY <3>1, <1>4 DEF NoticesInv, HasKey, LogGuardsTheChannel, Sending
        <3>3. QED
            BY <3>1, <3>2, <1>0, <1>1
    <2>3. \A u, v \in Workers : (Sending(u) /\ Sending(v) /\ worker[u].key = worker[v].key => u = v)'
        BY <1>3 DEF NoticesInv, LogGuardsTheChannel, Sending
    <2>4. QED
        BY <2>1, <2>2, <2>3 DEF LogGuardsTheChannel
<1>7. QED
    BY <1>0, <1>1, <1>2, <1>5, <1>6 DEF NoticesInv, TypeOK, DirectNamesSomebody

LEMMA TickStep ==
    ASSUME NoticesInv, NEW hour \in Hours, Tick(hour)
    PROVE  NoticesInv'
<1>0. worker \in [Workers -> WorkerRow] /\ event \in [Events -> EventRow]
    BY DEF NoticesInv, TypeOK
<1>1. event' \in [Events -> EventRow] /\ DirectNamesSomebody'
    <2>1. \A e \in Events : /\ event'[e] \in EventRow
                            /\ event'[e].type = event[e].type
                            /\ event'[e].about = event[e].about
        <3> SUFFICES ASSUME NEW e \in Events
                     PROVE  /\ event'[e] \in EventRow
                            /\ event'[e].type = event[e].type
                            /\ event'[e].about = event[e].about
            OBVIOUS
        <3> DEFINE b == event[e].deferred /\ ~ MorningComes(clock, hour)
        <3>1. event'[e] = [event[e] EXCEPT !.deferred = b]
            BY DEF Tick
        <3>2. b \in BOOLEAN
            OBVIOUS
        <3> HIDE DEF b
        <3>3. QED
            BY <1>0, <3>1, <3>2 DEF EventRow
    <2>2. event' \in [Events -> EventRow]
        BY <2>1 DEF Tick
    <2>3. QED
        BY <2>1, <2>2 DEF NoticesInv, DirectNamesSomebody
<1>2. ASSUME NEW w \in Workers
      PROVE  /\ worker'[w] \in WorkerRow
             /\ worker'[w].phase = worker[w].phase
             /\ worker'[w].phase \in {"record", "send"} => worker'[w].key = worker[w].key
    <2> DEFINE b == worker[w].morning \/ MorningComes(clock, hour)
    <2>1. worker'[w] = IF worker[w].phase = "idle" THEN Idle ELSE [worker[w] EXCEPT !.morning = b]
        BY DEF Tick
    <2>2. b \in BOOLEAN
        OBVIOUS
    <2>3. Idle.phase = "idle"
        BY DEF Idle
    <2> HIDE DEF b
    <2>4. QED
        BY <1>0, <2>1, <2>2, <2>3, IdleRow DEF WorkerRow
<1>6. worker' \in [Workers -> WorkerRow]
    <2>1. worker' = [w \in Workers |-> worker'[w]]
        BY Zenon DEF Tick
    <2>2. \A w \in Workers : worker'[w] \in WorkerRow
        BY <1>2
    <2>3. QED
        BY <2>1, <2>2
<1>3. UNCHANGED <<account, log, sent, faults, skipped>> /\ clock' \in 0 .. 23
    BY OutboxAssumption DEF Tick
<1>4. HasKey' /\ LogGuardsTheChannel'
    <2>1. ASSUME NEW w \in Workers, worker'[w].phase \in {"record", "send"}
          PROVE  worker[w].phase = worker'[w].phase /\ worker'[w].key = worker[w].key
        <3>1. worker'[w].phase = worker[w].phase
            BY <1>2
        <3>2. worker'[w].phase \in {"record", "send"} => worker'[w].key = worker[w].key
            BY <1>2
        <3>3. QED
            BY <2>1, <3>1, <3>2
    <2>2. UNCHANGED <<log, sent>>
        BY <1>3
    <2>3. HasKey'
        <3> SUFFICES ASSUME NEW w \in Workers, worker'[w].phase \in {"record", "send"}
                     PROVE  worker'[w].key \in Key
            BY DEF HasKey
        <3>1. worker[w].phase \in {"record", "send"} /\ worker'[w].key = worker[w].key
            BY <2>1
        <3>2. QED
            BY <3>1 DEF NoticesInv, HasKey
    <2>6. ASSUME NEW w \in Workers, Sending(w)'
          PROVE  Sending(w) /\ worker'[w].key = worker[w].key
        <3>1. worker'[w].phase = "send"
            BY <2>6 DEF Sending
        <3>2. worker'[w].phase \in {"record", "send"}
            BY <3>1
        <3>3. worker[w].phase = worker'[w].phase /\ worker'[w].key = worker[w].key
            BY <2>1, <3>2
        <3>4. QED
            BY <3>1, <3>3 DEF Sending
    <2>7. \A w \in Workers : (Sending(w) => worker[w].key \in log /\ sent[worker[w].key] = 0)'
        <3> SUFFICES ASSUME NEW w \in Workers, Sending(w)'
                     PROVE  (worker[w].key \in log /\ sent[worker[w].key] = 0)'
            OBVIOUS
        <3>1. worker[w].key \in log /\ sent[worker[w].key] = 0
            BY <2>6 DEF NoticesInv, LogGuardsTheChannel
        <3>2. QED
            BY <2>2, <2>6, <3>1
    <2>8. \A v, w \in Workers :
              (Sending(v) /\ Sending(w) /\ worker[v].key = worker[w].key => v = w)'
        <3> SUFFICES ASSUME NEW v \in Workers, NEW w \in Workers, Sending(v)', Sending(w)',
                            (worker[v].key = worker[w].key)'
                     PROVE  v = w
            OBVIOUS
        <3>1. Sending(v) /\ Sending(w) /\ worker[v].key = worker[w].key
            BY <2>6
        <3>2. QED
            BY <3>1 DEF NoticesInv, LogGuardsTheChannel
    <2>4. LogGuardsTheChannel'
        <3>1. \A k \in Key : (sent[k] = 0 \/ (sent[k] = 1 /\ k \in log))'
            BY <2>2 DEF NoticesInv, LogGuardsTheChannel
        <3>2. QED
            BY <2>7, <2>8, <3>1 DEF LogGuardsTheChannel
    <2>5. QED
        BY <2>3, <2>4
<1>5. QED
    BY <1>1, <1>3, <1>4, <1>6 DEF NoticesInv, TypeOK

LEMMA NextKeepsIInv == NoticesInv /\ [Next]_vars => NoticesInv'
<1> SUFFICES ASSUME NoticesInv, [Next]_vars PROVE NoticesInv'
    OBVIOUS
<1>1. ASSUME NEW e \in Events, NEW type \in Types, NEW about \in Users \cup {"none"},
             Publish(e, type, about)
      PROVE  NoticesInv'
    BY <1>1, PublishStep
<1>2. ASSUME NEW e \in Events, NEW u \in Users, Suspend(e, u) PROVE NoticesInv'
    BY <1>2, SuspendStep
<1>3. ASSUME NEW u \in Users, Reinstate(u) PROVE NoticesInv'
    BY <1>3, ReinstateStep
<1>4. ASSUME NEW w \in Workers, Step(w) \/ Fail(w) \/ Crash(w) PROVE NoticesInv'
    BY <1>4, PassStep, LookAtAccountStep, RecordStep, SendStep DEF Step
<1>5. ASSUME NEW hour \in Hours, Tick(hour) PROVE NoticesInv'
    BY <1>5, TickStep
<1>6. CASE UNCHANGED vars
    BY <1>6 DEF vars, NoticesInv, TypeOK, DirectNamesSomebody, HasKey, LogGuardsTheChannel, Sending
<1>7. QED
    BY <1>1, <1>2, <1>3, <1>4, <1>5, <1>6 DEF Next

(* The same notice never goes out twice, whatever the number of passes that   *)
(* overlap and of faults (dispatch-outbox.use-case.ts, recordIfNew).          *)
THEOREM NoticesGoOutOnce ==
    Spec => [](TypeOK /\ SentOnce)
<1>1. NoticesInv => TypeOK /\ SentOnce
    BY DEF NoticesInv, SentOnce, LogGuardsTheChannel
<1>2. NoticesInv /\ [Next]_vars => NoticesInv'
    BY NextKeepsIInv
<1>3. QED
    BY <1>1, <1>2, InitNoticesInv, PTL DEF Spec

-----------------------------------------------------------------------------
(* What a pass has behind it: its events are published, the notices of the   *)
(* one it is at that are not left are recorded or were for a suspended       *)
(* account, and the hour it began at is one when that event may go out.      *)
IsWorking(w) == worker[w].phase \in {"deliver", "record", "send"}

IsPublished(e) == event[e].state # "unpublished"

PassIsSound(w) ==
    /\ \A e \in worker[w].batch : IsPublished(e)
    /\ IsWorking(w) =>
          LET e == worker[w].event
          IN  /\ e \in Events /\ IsPublished(e)
              /\ Plan(e) \subseteq worker[w].plans \cup log \cup skipped
              /\ DeliverableAt(worker[w].began, event[e].type) <= worker[w].began

PassesSound ==
    /\ \A w \in Workers : PassIsSound(w)
    /\ ProcessedReachedEverybody

(* What is published stays what it is, and what is seen to stays seen to. *)
RecordsOnlyGrow ==
    /\ \A e \in Events : IsPublished(e) =>
           /\ IsPublished(e)'
           /\ event'[e].type = event[e].type /\ event'[e].about = event[e].about
    /\ log \subseteq log' /\ skipped \subseteq skipped'

LEMMA NothingIsForgotten ==
    ASSUME NoticesInv, [Next]_vars
    PROVE  RecordsOnlyGrow
<1>0. event \in [Events -> EventRow]
    BY DEF NoticesInv, TypeOK
<1>1. log \subseteq log' /\ skipped \subseteq skipped'
    BY DEF Next, vars, Publish, Suspend, Reinstate, Step, Claim, Defer, Dispatch, SkipSuspended,
           LookAtAccount, Record, Send, MarkProcessed, EndPass, Fail, Crash, Tick
<1>2. \/ event' = event
      \/ \E e \in Events : event[e].state = "unpublished" /\ \E entry : event' = [event EXCEPT ![e] = entry]
      \/ \E e \in Events, b \in BOOLEAN : event' = [event EXCEPT ![e].deferred = b]
      \/ \E w \in Workers : event' = [event EXCEPT ![worker[w].event].state = "processed"]
      \/ \E hour : event' = [e \in Events |-> [event[e] EXCEPT !.deferred =
                                                  event[e].deferred /\ ~ MorningComes(clock, hour)]]
    <2>1. CASE \E e \in Events, type \in Types, about \in Users \cup {"none"} : Publish(e, type, about)
        BY <2>1 DEF Publish
    <2>2. CASE \E e \in Events, u \in Users : Suspend(e, u)
        BY <2>2 DEF Suspend
    <2>3. CASE \E w \in Workers : Step(w)
        <3>1. PICK w \in Workers : Step(w)
            BY <2>3
        <3>2. CASE \E e \in Events : Defer(w, e)
            <4>1. PICK e \in Events : event' = [event EXCEPT ![e].deferred = ~ worker[w].morning]
                BY <3>2 DEF Defer
            <4>2. (~ worker[w].morning) \in BOOLEAN
                OBVIOUS
            <4> QED BY <4>1, <4>2
        <3>3. CASE ~ \E e \in Events : Defer(w, e)
            BY <3>1, <3>3 DEF Step, Claim, Dispatch, SkipSuspended, LookAtAccount, Record, Send,
                              MarkProcessed, EndPass
        <3> QED BY <3>2, <3>3
    <2>4. CASE \E hour \in Hours : Tick(hour)
        BY <2>4, Zenon DEF Tick
    <2>5. CASE \/ \E u \in Users : Reinstate(u)
               \/ \E w \in Workers : Fail(w) \/ Crash(w)
               \/ UNCHANGED vars
        BY <2>5 DEF Reinstate, Fail, Crash, vars
    <2> QED BY <2>1, <2>2, <2>3, <2>4, <2>5 DEF Next
<1>3. ASSUME NEW e \in Events, IsPublished(e)
      PROVE  /\ event'[e].state \in {event[e].state, "processed"}
             /\ event'[e].type = event[e].type /\ event'[e].about = event[e].about
    <2>1. CASE \E hour : event' = [x \in Events |-> [event[x] EXCEPT !.deferred =
                                                        event[x].deferred /\ ~ MorningComes(clock, hour)]]
        <3>1. PICK hour : event'[e] = [event[e] EXCEPT !.deferred =
                                          event[e].deferred /\ ~ MorningComes(clock, hour)]
            BY <2>1
        <3> QED BY <1>0, <3>1 DEF EventRow
    <2>2. CASE event' = event
        BY <2>2
    <2>3. CASE \E x \in Events : event[x].state = "unpublished" /\ \E entry : event' = [event EXCEPT ![x] = entry]
        BY <1>0, <1>3, <2>3 DEF IsPublished
    <2>4. CASE \E x \in Events, b \in BOOLEAN : event' = [event EXCEPT ![x].deferred = b]
        BY <1>0, <2>4 DEF EventRow
    <2>5. CASE \E w \in Workers : event' = [event EXCEPT ![worker[w].event].state = "processed"]
        BY <1>0, <2>5 DEF EventRow
    <2> QED BY <1>2, <2>1, <2>2, <2>3, <2>4, <2>5
<1> QED BY <1>1, <1>3 DEF RecordsOnlyGrow, IsPublished

LEMMA PlanIsFixed ==
    ASSUME RecordsOnlyGrow, NEW e \in Events, IsPublished(e)
    PROVE  Plan(e)' = Plan(e)
<1>1. event'[e].type = event[e].type /\ event'[e].about = event[e].about
    BY DEF RecordsOnlyGrow
<1>2. Recipients(e)' = Recipients(e)
    BY <1>1, Zenon DEF Recipients
<1>3. ChannelsOf(event'[e].type) = ChannelsOf(event[e].type)
    BY <1>1
<1> QED BY <1>2, <1>3, Zenon DEF Plan

(* How the row of a worker may go on. *)
Rests(w) ==
    /\ worker'[w].phase \in {"idle", "pass"}
    /\ \A e \in worker'[w].batch : e \in worker[w].batch \/ IsPublished(e)

GoesOn(w) ==
    /\ IsWorking(w) \/ worker'[w].phase \notin {"deliver", "record", "send"}
    /\ worker'[w].event = worker[w].event /\ worker'[w].began = worker[w].began
    /\ worker'[w].batch \subseteq worker[w].batch
    /\ worker[w].plans \subseteq worker'[w].plans \cup log' \cup skipped'

TakesUp(w) ==
    \E e \in worker[w].batch :
        /\ worker'[w].event = e /\ worker'[w].plans = Plan(e)
        /\ worker'[w].began = worker[w].began
        /\ worker'[w].batch \subseteq worker[w].batch
        /\ DeliverableAt(worker[w].began, event[e].type) <= worker[w].began

LEMMA WorkersGoOn ==
    ASSUME NoticesInv, [Next]_vars, NEW w \in Workers
    PROVE  Rests(w) \/ GoesOn(w) \/ TakesUp(w)
<1>0. worker \in [Workers -> WorkerRow] /\ worker[w] \in WorkerRow
    BY DEF NoticesInv, TypeOK
<1>1. CASE worker'[w] = worker[w]
    BY <1>1 DEF GoesOn, IsWorking
<1>2. ASSUME NEW v \in Workers, Step(v) \/ Fail(v) \/ Crash(v), v # w
      PROVE  worker'[w] = worker[w]
    BY <1>0, <1>2 DEF Step, Fail, Crash, Claim, Defer, Dispatch, SkipSuspended, LookAtAccount, Record,
                      Send, MarkProcessed, EndPass
<1>3. CASE Claim(w)
    <2> DEFINE entry == [Idle EXCEPT !.phase = "pass", !.batch = {e \in Events : Claimable(e)},
                                   !.began = clock]
    <2>1. worker'[w] = entry
        BY <1>0, <1>3 DEF Claim
    <2>2. entry.phase = "pass" /\ entry.batch = {e \in Events : Claimable(e)}
        BY DEF Idle
    <2> HIDE DEF entry
    <2> QED BY <2>1, <2>2 DEF Rests, Claimable, IsPublished
<1>4. ASSUME NEW e \in Events, Defer(w, e) PROVE Rests(w)
    BY <1>0, <1>4 DEF Defer, Rests, WorkerRow
<1>5. ASSUME NEW e \in Events, Dispatch(w, e) PROVE TakesUp(w)
    <2>1. /\ e \in worker[w].batch /\ DeliverableAt(worker[w].began, event[e].type) <= worker[w].began
          /\ worker' = [worker EXCEPT ![w].phase = "deliver", ![w].batch = worker[w].batch \ {e},
                                      ![w].event = e, ![w].plans = Plan(e)]
        BY <1>5 DEF Dispatch
    <2>2. /\ worker'[w].event = e /\ worker'[w].plans = Plan(e)
          /\ worker'[w].began = worker[w].began /\ worker'[w].batch = worker[w].batch \ {e}
        BY <1>0, <2>1 DEF WorkerRow
    <2> QED BY <2>1, <2>2 DEF TakesUp
<1>6. ASSUME NEW k \in Key, SkipSuspended(w, k) PROVE GoesOn(w)
    BY <1>0, <1>6 DEF SkipSuspended, GoesOn, IsWorking, WorkerRow
<1>7. ASSUME NEW k \in Key, LookAtAccount(w, k) PROVE GoesOn(w)
    BY <1>0, <1>7 DEF LookAtAccount, GoesOn, IsWorking, WorkerRow
<1>8. /\ NoticeDone(w).event = worker[w].event /\ NoticeDone(w).began = worker[w].began
      /\ NoticeDone(w).batch = worker[w].batch
      /\ worker[w].plans \subseteq NoticeDone(w).plans \cup {worker[w].key}
    BY <1>0 DEF NoticeDone, WorkerRow
<1>9. CASE Record(w)
    <2>1. IsWorking(w) /\ log' = log \cup {worker[w].key}
        BY <1>9 DEF Record, IsWorking
    <2>2. worker'[w] = NoticeDone(w) \/ worker'[w] = [worker[w] EXCEPT !.phase = "send"]
        BY <1>0, <1>9 DEF Record
    <2>3. CASE worker'[w] = NoticeDone(w)
        BY <1>8, <2>1, <2>3 DEF GoesOn
    <2>4. CASE worker'[w] = [worker[w] EXCEPT !.phase = "send"]
        BY <1>0, <2>1, <2>4 DEF GoesOn, WorkerRow
    <2> QED BY <2>2, <2>3, <2>4
<1>10. CASE Send(w)
    <2>1. IsWorking(w) /\ worker'[w] = NoticeDone(w) /\ log' = log
        BY <1>0, <1>10 DEF Send, IsWorking
    <2>2. worker[w].key \in log
        BY <1>10 DEF Send, NoticesInv, LogGuardsTheChannel, Sending
    <2> QED BY <1>8, <2>1, <2>2 DEF GoesOn
<1>11. CASE MarkProcessed(w) \/ Fail(w)
    <2>1. worker'[w] = NextInBatch(w)
        BY <1>0, <1>11 DEF MarkProcessed, Fail
    <2>2. NextInBatch(w).phase = "pass" /\ NextInBatch(w).batch = worker[w].batch
        BY <1>0 DEF NextInBatch, WorkerRow
    <2> QED BY <2>1, <2>2 DEF Rests
<1>12. CASE EndPass(w) \/ Crash(w)
    <2>1. worker'[w] = Idle
        BY <1>0, <1>12 DEF EndPass, Crash
    <2> QED BY <2>1 DEF Rests, Idle
<1>13. ASSUME NEW hour \in Hours, Tick(hour) PROVE Rests(w) \/ GoesOn(w)
    <2> DEFINE b == worker[w].morning \/ MorningComes(clock, hour)
    <2>1. worker'[w] = IF worker[w].phase = "idle" THEN Idle ELSE [worker[w] EXCEPT !.morning = b]
        BY <1>13 DEF Tick
    <2>2. Idle.phase = "idle" /\ Idle.batch = {}
        BY DEF Idle
    <2> HIDE DEF b
    <2>3. CASE worker[w].phase = "idle"
        BY <2>1, <2>2, <2>3 DEF Rests
    <2>4. CASE worker[w].phase # "idle"
        BY <1>0, <2>1, <2>4 DEF GoesOn, IsWorking, WorkerRow
    <2> QED BY <2>3, <2>4
<1>14. CASE \/ \E e \in Events, type \in Types, about \in Users \cup {"none"} : Publish(e, type, about)
            \/ \E e \in Events, u \in Users : Suspend(e, u)
            \/ \E u \in Users : Reinstate(u)
            \/ UNCHANGED vars
    <2>1. worker' = worker
        BY <1>14 DEF Publish, Suspend, Reinstate, vars
    <2> QED BY <1>1, <2>1
<1>15. ASSUME Step(w) \/ Fail(w) \/ Crash(w)
       PROVE  Rests(w) \/ GoesOn(w) \/ TakesUp(w)
    BY <1>3, <1>4, <1>5, <1>6, <1>7, <1>9, <1>10, <1>11, <1>12, <1>15 DEF Step
<1> QED BY <1>1, <1>2, <1>13, <1>14, <1>15 DEF Next

(* Nothing else puts an event aside. *)
LEMMA OnlyMarkingProcesses ==
    ASSUME NoticesInv, [Next]_vars, NEW e \in Events,
           event[e].state # "processed", event'[e].state = "processed"
    PROVE  \E w \in Workers : MarkProcessed(w) /\ worker[w].event = e
<1>0. event \in [Events -> EventRow]
    BY DEF NoticesInv, TypeOK
<1>1. ASSUME NEW x \in Events, NEW entry, event' = [event EXCEPT ![x] = entry], entry.state # "processed"
      PROVE  FALSE
    BY <1>0, <1>1
<1>2. CASE \/ \E x \in Events, type \in Types, about \in Users \cup {"none"} : Publish(x, type, about)
           \/ \E x \in Events, u \in Users : Suspend(x, u)
    <2>1. PICK x \in Events, type \in Types \cup {"user.suspended"}, about \in Users \cup {"none"} :
              event' = [event EXCEPT ![x] = Published(type, about)]
        BY <1>2 DEF Publish, Suspend
    <2>2. Published(type, about).state = "waiting"
        BY DEF Published
    <2> QED BY <1>1, <2>1, <2>2
<1>3. ASSUME NEW x \in Events, NEW w \in Workers, Defer(w, x)
      PROVE  FALSE
    <2>1. event' = [event EXCEPT ![x].deferred = ~ worker[w].morning]
        BY <1>3 DEF Defer
    <2> QED BY <1>0, <2>1 DEF EventRow
<1>4. ASSUME NEW hour \in Hours, Tick(hour)
      PROVE  FALSE
    <2>1. event'[e] = [event[e] EXCEPT !.deferred = event[e].deferred /\ ~ MorningComes(clock, hour)]
        BY <1>4 DEF Tick
    <2> QED BY <1>0, <2>1 DEF EventRow
<1>5. ASSUME NEW w \in Workers, MarkProcessed(w)
      PROVE  worker[w].event = e
    <2>1. event' = [event EXCEPT ![worker[w].event].state = "processed"]
        BY <1>5 DEF MarkProcessed
    <2> QED BY <1>0, <2>1
<1>6. event' # event
    OBVIOUS
<1>7. ASSUME NEW w \in Workers, Step(w)
      PROVE  MarkProcessed(w)
    BY <1>3, <1>6, <1>7 DEF Step, Claim, Dispatch, SkipSuspended, LookAtAccount, Record, Send, EndPass
<1> QED
    BY <1>2, <1>4, <1>5, <1>6, <1>7 DEF Next, Reinstate, Fail, Crash, vars

LEMMA PassesKept ==
    ASSUME NoticesInv, PassesSound, [Next]_vars
    PROVE  PassesSound'
<1>0. RecordsOnlyGrow /\ worker \in [Workers -> WorkerRow]
    BY NothingIsForgotten DEF NoticesInv, TypeOK
<1>batches. \A w \in Workers : worker'[w].batch \subseteq Events
    BY NextKeepsIInv DEF NoticesInv, TypeOK, WorkerRow
<1>1. ASSUME NEW w \in Workers PROVE PassIsSound(w)'
    <2>0. PassIsSound(w) /\ worker[w].batch \subseteq Events
        BY <1>0 DEF PassesSound, WorkerRow
    <2>kept. ASSUME NEW e \in Events, IsPublished(e)
          PROVE  /\ IsPublished(e)' /\ Plan(e)' = Plan(e) /\ event'[e].type = event[e].type
                 /\ log \subseteq log' /\ skipped \subseteq skipped'
        BY <1>0, <2>kept, PlanIsFixed DEF RecordsOnlyGrow
    <2>grow. log \subseteq log' /\ skipped \subseteq skipped'
        BY <1>0 DEF RecordsOnlyGrow
    <2>1. CASE Rests(w)
        <3>1. ASSUME NEW e \in worker'[w].batch PROVE IsPublished(e)'
            <4>1. e \in Events /\ IsPublished(e)
                BY <1>batches, <2>0, <2>1 DEF Rests, PassIsSound
            <4> QED BY <2>kept, <4>1
        <3>2. ~ IsWorking(w)'
            BY <2>1 DEF Rests, IsWorking
        <3> QED BY <3>1, <3>2 DEF PassIsSound
    <2>2. CASE GoesOn(w)
        <3>1. ASSUME NEW e \in worker'[w].batch PROVE IsPublished(e)'
            BY <2>0, <2>2, <2>kept DEF GoesOn, PassIsSound
        <3>2. ASSUME IsWorking(w)'
              PROVE  /\ worker'[w].event \in Events /\ IsPublished(worker[w].event)'
                     /\ Plan(worker[w].event)' \subseteq worker'[w].plans \cup log' \cup skipped'
                     /\ DeliverableAt(worker'[w].began, event'[worker'[w].event].type) <= worker'[w].began
            <4> DEFINE e == worker[w].event
            <4>1. /\ IsWorking(w) /\ worker'[w].event = e /\ worker'[w].began = worker[w].began
                  /\ worker[w].plans \subseteq worker'[w].plans \cup log' \cup skipped'
                BY <2>2, <3>2 DEF GoesOn, IsWorking
            <4>2. /\ e \in Events /\ IsPublished(e)
                  /\ Plan(e) \subseteq worker[w].plans \cup log \cup skipped
                  /\ DeliverableAt(worker[w].began, event[e].type) <= worker[w].began
                BY <2>0, <4>1 DEF PassIsSound
            <4>3. event'[e].type = event[e].type /\ \A x \in Events : x = e => Plan(x)' = Plan(x) /\ IsPublished(x)'
                BY <2>kept, <4>2
            <4>4. PICK x \in Events : x = e
                BY <4>2
            <4>5. Plan(x)' \subseteq worker'[w].plans \cup log' \cup skipped' /\ IsPublished(x)'
                BY <2>grow, <4>1, <4>2, <4>3, <4>4
            <4>6. Plan(worker[w].event)' = Plan(x)' /\ (IsPublished(worker[w].event)' <=> IsPublished(x)')
                BY <4>1, <4>4, Zenon DEF Plan, Recipients, IsPublished
            <4> QED BY <4>1, <4>2, <4>3, <4>5, <4>6
        <3> QED BY <3>1, <3>2 DEF PassIsSound
    <2>3. CASE TakesUp(w)
        <3>1. PICK e \in worker[w].batch :
                  /\ worker'[w].event = e /\ worker'[w].plans = Plan(e)
                  /\ worker'[w].began = worker[w].began
                  /\ worker'[w].batch \subseteq worker[w].batch
                  /\ DeliverableAt(worker[w].began, event[e].type) <= worker[w].began
            BY <2>3 DEF TakesUp
        <3>2. e \in Events /\ IsPublished(e)
            BY <2>0 DEF PassIsSound
        <3>3. Plan(e)' \subseteq worker'[w].plans /\ IsPublished(e)' /\ event'[e].type = event[e].type
            BY <2>kept, <3>1, <3>2
        <3>4. ASSUME NEW x \in worker'[w].batch PROVE IsPublished(x)'
            BY <2>0, <2>kept, <3>1 DEF PassIsSound
        <3>5. /\ worker'[w].event \in Events /\ IsPublished(worker[w].event)'
              /\ Plan(worker[w].event)' \subseteq worker'[w].plans \cup log' \cup skipped'
              /\ DeliverableAt(worker'[w].began, event'[worker'[w].event].type) <= worker'[w].began
            <4>1. Plan(worker[w].event)' = Plan(e)' /\ (IsPublished(worker[w].event)' <=> IsPublished(e)')
                BY <3>1, Zenon DEF Plan, Recipients, IsPublished
            <4> QED BY <3>1, <3>2, <3>3, <4>1
        <3> QED BY <3>4, <3>5 DEF PassIsSound
    <2> QED BY <2>1, <2>2, <2>3, WorkersGoOn
<1>2. ASSUME NEW e \in Events, event'[e].state = "processed"
      PROVE  Plan(e)' \subseteq log' \cup skipped'
    <2>1. CASE event[e].state = "processed"
        <3>1. Plan(e) \subseteq log \cup skipped /\ IsPublished(e)
            BY <2>1 DEF PassesSound, ProcessedReachedEverybody, IsPublished
        <3>2. Plan(e)' = Plan(e)
            BY <1>0, <3>1, PlanIsFixed
        <3> QED BY <1>0, <3>1, <3>2 DEF RecordsOnlyGrow
    <2>2. CASE event[e].state # "processed"
        <3>1. PICK w \in Workers : MarkProcessed(w) /\ worker[w].event = e
            BY <1>2, <2>2, OnlyMarkingProcesses
        <3>2. /\ IsWorking(w) /\ worker[w].plans = {}
            BY <3>1 DEF MarkProcessed, IsWorking
        <3>3. Plan(e) \subseteq log \cup skipped /\ IsPublished(e)
            BY <3>1, <3>2 DEF PassesSound, PassIsSound
        <3>4. Plan(e)' = Plan(e)
            BY <1>0, <3>3, PlanIsFixed
        <3> QED BY <1>0, <3>3, <3>4 DEF RecordsOnlyGrow
    <2> QED BY <2>1, <2>2
<1> QED BY <1>1, <1>2 DEF PassesSound, ProcessedReachedEverybody

LEMMA PassesInvariant == Spec => [](NoticesInv /\ PassesSound)
<1>1. Init => PassesSound
    BY DEF Init, PassesSound, PassIsSound, IsWorking, ProcessedReachedEverybody, Idle, Unpublished
<1>2. NoticesInv /\ PassesSound /\ [Next]_vars => NoticesInv' /\ PassesSound'
    BY NextKeepsIInv, PassesKept
<1> QED
    BY <1>1, <1>2, InitNoticesInv, PTL DEF Spec

(* What is recorded and given to a channel is always a notice: a published    *)
(* event, one of the two parties and a channel, at an hour of the day         *)
(* (outbox_events, notification_deliveries).                                  *)
THEOREM OutboxTypesCorrect == Spec => []TypeOK
<1>1. NoticesInv => TypeOK
    BY DEF NoticesInv
<1> QED BY <1>1, PassesInvariant, PTL

(* No event is put aside before every notice of it was recorded, or was for   *)
(* an account found suspended, however passes overlap, fail and die           *)
(* (DispatchOutbox.dispatch, markProcessed).                                  *)
THEOREM ProcessedAlwaysReachedEverybody == Spec => []ProcessedReachedEverybody
<1>1. PassesSound => ProcessedReachedEverybody
    BY DEF PassesSound
<1> QED BY <1>1, PassesInvariant, PTL

(* An hour at which a quiet event may go out is by day, or the hour before    *)
(* one in the morning that deliverableAt takes for the day before.            *)
LEMMA DeliverableHours ==
    ASSUME NEW hour \in 0 .. 23, NEW type, DeliverableAt(hour, type) <= hour
    PROVE  type \in CrossesTheNight \/ ~ IsQuietHour(hour) \/ LuandaHour(hour) = 0
<1>1. LuandaHour(hour) = IF hour = 23 THEN 0 ELSE hour + 1
    BY DEF LuandaHour
<1>2. CASE IsQuietHour(hour) /\ type \notin CrossesTheNight
    <2>1. 6 + (IF LuandaHour(hour) >= 22 THEN 24 ELSE 0) <= hour
        BY <1>2 DEF DeliverableAt
    <2> QED BY <1>1, <1>2, <2>1 DEF IsQuietHour
<1> QED BY <1>2

(* The night is silent but for money and disputes, and but for the hour that  *)
(* the code is short of (deliverableAt).                                      *)
THEOREM NightIsAlwaysSilent == Spec => NightIsSilent
<1>1. ASSUME NoticesInv, PassesSound, NEW w \in Workers, worker[w].phase = "deliver"
      PROVE  \/ event[worker[w].event].type \in CrossesTheNight
             \/ ~ IsQuietHour(worker[w].began)
             \/ LuandaHour(worker[w].began) = 0
    <2>1. worker[w].began \in 0 .. 23
        BY <1>1 DEF NoticesInv, TypeOK, WorkerRow
    <2>2. DeliverableAt(worker[w].began, event[worker[w].event].type) <= worker[w].began
        BY <1>1 DEF PassesSound, PassIsSound, IsWorking
    <2> QED BY <2>1, <2>2, DeliverableHours
<1>2. NoticesInv /\ PassesSound /\ [Next]_vars =>
         [\A w \in Workers :
             worker[w].phase = "deliver" /\ worker'[w].phase = "record" =>
                 \/ event[worker[w].event].type \in CrossesTheNight
                 \/ ~ IsQuietHour(worker[w].began)
                 \/ LuandaHour(worker[w].began) = 0]_vars
    BY <1>1
<1> QED BY <1>2, PassesInvariant, PTL DEF Spec, NightIsSilent

-----------------------------------------------------------------------------
(* Reconciliation.  A divergence has one open finding.  The index looks only   *)
(* at what is committed, and two passes may be about to commit: what carries   *)
(* the property is that an insertion waits for the other passes, so that what  *)
(* the passes under way have inserted is open nowhere and inserted by no two   *)
(* of them.                                                                    *)
PassRow ==
    [phase : {"idle", "asking"}, asked : 0 .. Len(Kinds),
     found : Seq(Fingerprints), new : Seq(Fingerprints)]

PassesTyped == pass \in [Tasks -> PassRow]

(* What a pass has inserted, it has inserted once, ... *)
InsertedOnce ==
    \A t \in Tasks : \A m, n \in DOMAIN pass[t].new : pass[t].new[m] = pass[t].new[n] => m = n

(* ... no open finding has it, ... *)
InsertedIsNotOpen ==
    \A t \in Tasks : \A n \in DOMAIN pass[t].new : \A f \in DOMAIN finding :
        finding[f].status = "OPEN" => finding[f].print # pass[t].new[n]

(* ... and no other pass has inserted it. *)
InsertedByNoOther ==
    \A t, u \in Tasks : \A m \in DOMAIN pass[t].new : \A n \in DOMAIN pass[u].new :
        t # u => pass[t].new[m] # pass[u].new[n]

NewAreNew == InsertedOnce /\ InsertedIsNotOpen /\ InsertedByNoOther

FindingsInv == ReconciliationTypeOK /\ PassesTyped /\ NewAreNew /\ OneOpenFinding
-----------------------------------------------------------------------------

(* The candidates of every query are fingerprints: what a query returns are    *)
(* rows of a finite table, which a sequence can list.                          *)
LEMMA KindsAre ==
    /\ Len(Kinds) = 6
    /\ \A k \in 1 .. Len(Kinds) : Kinds[k] \in Range(Kinds)
    /\ Range(Kinds) = {"STUCK_PAYMENT_INTENT", "CAPTURE_WITHOUT_LEDGER", "WALLET_DIVERGENCE",
                       "STUCK_PAYOUT", "UNBALANCED_LEDGER", "ESCROW_ON_CLOSED_DEAL"}
<1>1. Len(Kinds) = 6
    BY DEF Kinds
<1>2. DOMAIN Kinds = 1 .. 6
    BY DEF Kinds
<1>3. \A k \in 1 .. Len(Kinds) : Kinds[k] \in Range(Kinds)
    BY <1>1, <1>2 DEF Range
<1>4. /\ Kinds[1] = "STUCK_PAYMENT_INTENT" /\ Kinds[2] = "CAPTURE_WITHOUT_LEDGER"
      /\ Kinds[3] = "WALLET_DIVERGENCE" /\ Kinds[4] = "STUCK_PAYOUT"
      /\ Kinds[5] = "UNBALANCED_LEDGER" /\ Kinds[6] = "ESCROW_ON_CLOSED_DEAL"
    BY DEF Kinds
<1>5. 1 .. 6 = {1, 2, 3, 4, 5, 6}
    OBVIOUS
<1>6. Range(Kinds) = {Kinds[1], Kinds[2], Kinds[3], Kinds[4], Kinds[5], Kinds[6]}
    BY <1>2, <1>5 DEF Range
<1>7. QED
    BY <1>1, <1>3, <1>4, <1>6

LEMMA ListedSet ==
    ASSUME NEW S, IsFiniteSet(S)
    PROVE  SetToSeq(S) \in Seq(S)
<1>1. Cardinality(S) \in Nat /\ ExistsBijection(1 .. Cardinality(S), S)
    BY FS_CardinalityType
<1>2. PICK f \in Bijection(1 .. Cardinality(S), S) : TRUE
    BY <1>1 DEF ExistsBijection
<1>3. f \in [1 .. Cardinality(S) -> S] /\ IsInjective(f)
    BY <1>2 DEF Bijection, Injection
<1>4. SetToSeq(S) \in [1 .. Cardinality(S) -> S]
    BY <1>3 DEF SetToSeq
<1>5. QED
    BY <1>1, <1>4

LEMMA FewRows ==
    ASSUME row \in Rows, NEW kind \in Range(Kinds)
    PROVE  /\ IsFiniteSet(Query(kind))
           /\ \A found \in Query(kind) : found[1] \in SubjectsOf(kind)
<1> USE ReconciliationAssumption
<1>0. /\ DOMAIN row.intent = PaymentIntents /\ row.uneven \subseteq Postings
      /\ row.closed \subseteq Deals
    BY DEF Rows
<1>1. CASE kind = "STUCK_PAYMENT_INTENT"
    <2>1. Query(kind) = StuckPaymentIntents /\ SubjectsOf(kind) = PaymentIntents
        BY <1>1 DEF Query, SubjectsOf
    <2>2. StuckPaymentIntents \subseteq PaymentIntents \X PaymentIntents
        BY DEF StuckPaymentIntents
    <2>3. IsFiniteSet(PaymentIntents \X PaymentIntents)
        BY FS_Product
    <2>4. QED
        BY <2>1, <2>2, <2>3, FS_Subset
<1>2. CASE kind = "CAPTURE_WITHOUT_LEDGER"
    <2>1. Query(kind) = CapturesWithoutLedger /\ SubjectsOf(kind) = Deals
        BY <1>2 DEF Query, SubjectsOf
    <2>2. CapturesWithoutLedger \subseteq Deals \X PaymentIntents
        BY DEF CapturesWithoutLedger
    <2>3. IsFiniteSet(Deals \X PaymentIntents)
        BY FS_Product
    <2>4. QED
        BY <2>1, <2>2, <2>3, FS_Subset
<1>3. CASE kind = "WALLET_DIVERGENCE"
    <2>1. Query(kind) = WalletDivergences /\ SubjectsOf(kind) = Wallets
        BY <1>3 DEF Query, SubjectsOf
    <2>2. WalletDivergences \subseteq Wallets \X Wallets
        BY DEF WalletDivergences
    <2>3. IsFiniteSet(Wallets \X Wallets)
        BY FS_Product
    <2>4. QED
        BY <2>1, <2>2, <2>3, FS_Subset
<1>4. CASE kind = "STUCK_PAYOUT"
    <2>1. Query(kind) = StuckPayouts /\ SubjectsOf(kind) = Payouts
        BY <1>4 DEF Query, SubjectsOf
    <2>2. StuckPayouts \subseteq Payouts \X Payouts
        BY DEF StuckPayouts
    <2>3. IsFiniteSet(Payouts \X Payouts)
        BY FS_Product
    <2>4. QED
        BY <2>1, <2>2, <2>3, FS_Subset
<1>5. CASE kind = "UNBALANCED_LEDGER"
    <2>1. Query(kind) = UnbalancedLedgerTransactions /\ SubjectsOf(kind) = Postings
        BY <1>5 DEF Query, SubjectsOf
    <2>2. UnbalancedLedgerTransactions \subseteq Postings \X Postings
        BY <1>0 DEF UnbalancedLedgerTransactions
    <2>3. IsFiniteSet(Postings \X Postings)
        BY FS_Product
    <2>4. QED
        BY <2>1, <2>2, <2>3, FS_Subset
<1>6. CASE kind = "ESCROW_ON_CLOSED_DEAL"
    <2>1. Query(kind) = EscrowOnClosedDeals /\ SubjectsOf(kind) = Deals
        BY <1>6 DEF Query, SubjectsOf
    <2>2. EscrowOnClosedDeals \subseteq Deals \X Deals
        BY <1>0 DEF EscrowOnClosedDeals
    <2>3. IsFiniteSet(Deals \X Deals)
        BY FS_Product
    <2>4. QED
        BY <2>1, <2>2, <2>3, FS_Subset
<1>7. QED
    BY <1>1, <1>2, <1>3, <1>4, <1>5, <1>6, KindsAre

LEMMA CandidatesArePrints ==
    ASSUME row \in Rows, NEW kind \in Range(Kinds)
    PROVE  Candidates(kind) \in Seq(Fingerprints)
<1> DEFINE rows == SetToSeq(Query(kind))
           prints == [n \in DOMAIN rows |-> Fingerprint(kind, rows[n][1])]
<1>1. rows \in Seq(Query(kind))
    BY FewRows, ListedSet
<1> HIDE DEF rows
<1>2. \A n \in DOMAIN rows : rows[n][1] \in SubjectsOf(kind)
    BY <1>1, FewRows
<1>3. \A subject \in SubjectsOf(kind) : Fingerprint(kind, subject) \in Fingerprints
    BY DEF Fingerprints, Fingerprint
<1>4. Len(rows) \in Nat /\ DOMAIN rows = 1 .. Len(rows)
    BY <1>1
<1>5. prints \in [1 .. Len(rows) -> Fingerprints]
    BY <1>2, <1>3, <1>4
<1>6. prints \in Seq(Fingerprints)
    BY <1>4, <1>5
<1>7. Candidates(kind) = prints
    BY DEF Candidates, rows
<1>8. QED
    BY <1>6, <1>7

-----------------------------------------------------------------------------
LEMMA InitFindingsInv == ReconciliationInit => FindingsInv
<1> SUFFICES ASSUME ReconciliationInit PROVE FindingsInv
    OBVIOUS
<1>1. row \in Rows
    BY DEF ReconciliationInit, SoundRows, Rows
<1>2. NoPass \in PassRow
    BY KindsAre DEF NoPass, PassRow
<1>3. PassesTyped
    BY <1>2 DEF ReconciliationInit, PassesTyped
<1>4. finding = <<>> /\ alerted = {} /\ changes = 0 /\ closes = 0
    BY DEF ReconciliationInit
<1>5. reading \in [Reviewers -> 0 .. Len(finding)]
    BY <1>4 DEF ReconciliationInit
<1>6. finding \in Seq(FindingRow) /\ alerted = DOMAIN finding
    BY <1>4
<1>7. changes \in 0 .. MaxChanges /\ closes \in 0 .. MaxCloses
    BY <1>4, ReconciliationAssumption
<1>8. ReconciliationTypeOK
    BY <1>1, <1>3, <1>5, <1>6, <1>7 DEF ReconciliationTypeOK, PassesTyped, PassRow
<1>9. \A t \in Tasks : pass[t].new = <<>>
    BY DEF ReconciliationInit, NoPass
<1>10. NewAreNew
    BY <1>9 DEF NewAreNew, InsertedOnce, InsertedIsNotOpen, InsertedByNoOther
<1>11. OneOpenFinding
    BY <1>4 DEF OneOpenFinding
<1>12. QED
    BY <1>3, <1>8, <1>10, <1>11 DEF FindingsInv

(* What is typed of the passes says what the type invariant says of them. *)
LEMMA TypesTogether ==
    ASSUME row \in Rows, finding \in Seq(FindingRow), alerted = DOMAIN finding, PassesTyped,
           reading \in [Reviewers -> 0 .. Len(finding)],
           changes \in 0 .. MaxChanges, closes \in 0 .. MaxCloses
    PROVE  ReconciliationTypeOK
    BY DEF ReconciliationTypeOK, PassesTyped, PassRow

(* What is inserted and what is committed keep what is said of them while they *)
(* stay as they are.                                                           *)
LEMMA InsertionsKept ==
    ASSUME FindingsInv, UNCHANGED finding, \A t \in Tasks : pass'[t].new = pass[t].new
    PROVE  NewAreNew' /\ OneOpenFinding'
    BY DEF FindingsInv, NewAreNew, InsertedOnce, InsertedIsNotOpen, InsertedByNoOther, OneOpenFinding

(* Whatever changes in the tables, they stay tables. *)
LEMMA RowsStayRows ==
    ASSUME row \in Rows,
           \/ \E i \in PaymentIntents, s \in {"stuck", "captured", "failed"} : ChangeIntent(i, s)
           \/ \E w \in Wallets : ChangeWallet(w)
           \/ \E p \in Payouts, s \in {"requested", "late", "paid"} : ChangePayout(p, s)
           \/ \E d \in Deals, f \in {"funded", "closed", "paid"} : ChangeDeal(d, f)
           \/ \E t \in Postings : PostUneven(t)
    PROVE  /\ row' \in Rows /\ changes' = changes + 1 /\ changes < MaxChanges
           /\ UNCHANGED <<finding, alerted, pass, reading, closes>>
<1>1. CASE \E i \in PaymentIntents, s \in {"stuck", "captured", "failed"} : ChangeIntent(i, s)
    <2>1. PICK i \in PaymentIntents, s \in {"stuck", "captured", "failed"} : ChangeIntent(i, s)
        BY <1>1
    <2>2. row' = [row EXCEPT !.intent[i] = s]
        BY <2>1 DEF ChangeIntent
    <2>3. row' \in Rows
        BY <2>2 DEF Rows
    <2>4. QED
        BY <2>1, <2>3 DEF ChangeIntent
<1>2. CASE \E w \in Wallets : ChangeWallet(w)
    <2>1. PICK w \in Wallets : ChangeWallet(w)
        BY <1>2
    <2>2. row' = [row EXCEPT !.wallet[w] = IF row.wallet[w] = "agrees" THEN "differs" ELSE "agrees"]
        BY <2>1 DEF ChangeWallet
    <2>3. row' \in Rows
        BY <2>2 DEF Rows
    <2>4. QED
        BY <2>1, <2>3 DEF ChangeWallet
<1>3. CASE \E p \in Payouts, s \in {"requested", "late", "paid"} : ChangePayout(p, s)
    <2>1. PICK p \in Payouts, s \in {"requested", "late", "paid"} : ChangePayout(p, s)
        BY <1>3
    <2>2. row' = [row EXCEPT !.payout[p] = s]
        BY <2>1 DEF ChangePayout
    <2>3. row' \in Rows
        BY <2>2 DEF Rows
    <2>4. QED
        BY <2>1, <2>3 DEF ChangePayout
<1>4. CASE \E d \in Deals, f \in {"funded", "closed", "paid"} : ChangeDeal(d, f)
    <2>1. PICK d \in Deals, f \in {"funded", "closed", "paid"} : ChangeDeal(d, f)
        BY <1>4
    <2>2. CASE f = "funded"
        <3>1. row' = [row EXCEPT !.funded = row.funded \cup {d}, !.holding = row.holding \cup {d}]
            BY <2>1, <2>2 DEF ChangeDeal
        <3>2. row' \in Rows
            BY <3>1 DEF Rows
        <3>3. QED
            BY <2>1, <3>2 DEF ChangeDeal
    <2>3. CASE f = "closed"
        <3>1. row' = [row EXCEPT !.closed = row.closed \cup {d}]
            BY <2>1, <2>3 DEF ChangeDeal
        <3>2. row' \in Rows
            BY <3>1 DEF Rows
        <3>3. QED
            BY <2>1, <3>2 DEF ChangeDeal
    <2>4. CASE f = "paid"
        <3>1. row' = [row EXCEPT !.holding = row.holding \ {d}]
            BY <2>1, <2>4 DEF ChangeDeal
        <3>2. row' \in Rows
            BY <3>1 DEF Rows
        <3>3. QED
            BY <2>1, <3>2 DEF ChangeDeal
    <2>5. QED
        BY <2>1, <2>2, <2>3, <2>4
<1>5. CASE \E t \in Postings : PostUneven(t)
    <2>1. PICK t \in Postings : PostUneven(t)
        BY <1>5
    <2>2. row' = [row EXCEPT !.uneven = row.uneven \cup {t}]
        BY <2>1 DEF PostUneven
    <2>3. row' \in Rows
        BY <2>2 DEF Rows
    <2>4. QED
        BY <2>1, <2>3 DEF PostUneven
<1>6. QED
    BY <1>1, <1>2, <1>3, <1>4, <1>5

LEMMA RowStep ==
    ASSUME FindingsInv, row' \in Rows, changes' = changes + 1, changes < MaxChanges,
           UNCHANGED <<finding, alerted, pass, reading, closes>>
    PROVE  FindingsInv'
<1>1. changes' \in 0 .. MaxChanges
    BY ReconciliationAssumption DEF FindingsInv, ReconciliationTypeOK
<1>2. PassesTyped'
    BY DEF FindingsInv, PassesTyped
<1>3. ReconciliationTypeOK'
    BY <1>1 DEF FindingsInv, ReconciliationTypeOK
<1>4. QED
    BY <1>2, <1>3, InsertionsKept DEF FindingsInv

(* A pass begins, or runs its next query. *)
LEMMA AskingStep ==
    ASSUME FindingsInv, NEW t \in Tasks, BeginPass(t) \/ AskNext(t)
    PROVE  FindingsInv'
<1>1. UNCHANGED <<row, finding, alerted, reading, changes, closes>>
    BY DEF BeginPass, AskNext
<1>2. pass \in [Tasks -> PassRow] /\ pass[t] \in PassRow
    BY DEF FindingsInv, PassesTyped
<1>3. PICK p \in PassRow : pass' = [pass EXCEPT ![t] = p] /\ p.new = pass[t].new
    <2>1. CASE BeginPass(t)
        <3> DEFINE p == [pass[t] EXCEPT !.phase = "asking"]
        <3>1. pass' = [pass EXCEPT ![t] = p]
            BY <2>1 DEF BeginPass
        <3>2. p \in PassRow /\ p.new = pass[t].new
            BY <1>2 DEF PassRow
        <3>3. QED
            BY <3>1, <3>2
    <2>2. CASE AskNext(t)
        <3> DEFINE kind == Kinds[pass[t].asked + 1]
                   more == pass[t].found \o Candidates(kind)
                   p == [pass[t] EXCEPT !.asked = pass[t].asked + 1, !.found = more]
        <3>1. pass' = [pass EXCEPT ![t] = p]
            BY <2>2 DEF AskNext
        <3>2. pass[t].asked \in 0 .. Len(Kinds) /\ pass[t].asked < Len(Kinds)
            BY <1>2, <2>2 DEF AskNext, PassRow
        <3>3. pass[t].asked + 1 \in 1 .. Len(Kinds) /\ pass[t].asked + 1 \in 0 .. Len(Kinds)
            BY <3>2, KindsAre
        <3>4. Candidates(kind) \in Seq(Fingerprints)
            BY <3>3, KindsAre, CandidatesArePrints DEF FindingsInv, ReconciliationTypeOK
        <3>5. more \in Seq(Fingerprints)
            BY <1>2, <3>4, ConcatProperties DEF PassRow
        <3> HIDE DEF more
        <3>6. p \in PassRow /\ p.new = pass[t].new
            BY <1>2, <3>3, <3>5 DEF PassRow
        <3>7. QED
            BY <3>1, <3>6
    <2>3. QED
        BY <2>1, <2>2
<1>4. PassesTyped'
    BY <1>2, <1>3 DEF PassesTyped
<1>5. ReconciliationTypeOK'
    BY <1>1, <1>4, TypesTogether DEF FindingsInv, ReconciliationTypeOK, PassesTyped, PassRow
<1>6. \A u \in Tasks : pass'[u].new = pass[u].new
    BY <1>2, <1>3
<1>7. QED
    BY <1>1, <1>4, <1>5, <1>6, InsertionsKept DEF FindingsInv

(* A pass ends: what it had inserted goes, and nothing of it remains. *)
LEMMA PassEnds ==
    ASSUME PassesTyped, NEW t \in Tasks, pass' = [pass EXCEPT ![t] = NoPass]
    PROVE  /\ PassesTyped'
           /\ pass'[t].new = <<>>
           /\ \A u \in Tasks \ {t} : pass'[u].new = pass[u].new
<1>1. NoPass \in PassRow /\ NoPass.new = <<>>
    BY KindsAre DEF NoPass, PassRow
<1>2. QED
    BY <1>1 DEF PassesTyped

LEMMA RepeatedStep ==
    ASSUME FindingsInv, NEW t \in Tasks, RepeatedFinding(t)
    PROVE  FindingsInv'
<1>1. pass' = [pass EXCEPT ![t] = NoPass]
    BY DEF RepeatedFinding
<1>2. UNCHANGED <<row, finding, alerted, reading, changes, closes>>
    BY DEF RepeatedFinding
<1>3. /\ PassesTyped' /\ pass'[t].new = <<>>
      /\ \A u \in Tasks \ {t} : pass'[u].new = pass[u].new
    BY <1>1, PassEnds DEF FindingsInv
<1>4. ReconciliationTypeOK'
    BY <1>2, <1>3, TypesTogether DEF FindingsInv, ReconciliationTypeOK, PassesTyped, PassRow
<1>5. NewAreNew'
    BY <1>2, <1>3 DEF FindingsInv, NewAreNew, InsertedOnce, InsertedIsNotOpen, InsertedByNoOther
<1>6. OneOpenFinding'
    BY <1>2 DEF FindingsInv, OneOpenFinding
<1>7. QED
    BY <1>3, <1>4, <1>5, <1>6 DEF FindingsInv

(* The insertion: the index saw no open finding of the divergence, and the     *)
(* wait for the other passes that none of them has inserted it.                *)
LEMMA RecordFindingStep ==
    ASSUME FindingsInv, NEW t \in Tasks, RecordIfNew(t)
    PROVE  FindingsInv'
<1> DEFINE found == pass[t].found
           new   == pass[t].new
           print == Head(found)
           p     == [pass[t] EXCEPT !.found = Tail(found), !.new = Append(new, print)]
<1>1. pass' = [pass EXCEPT ![t] = p] /\ found # <<>>
    BY DEF RecordIfNew
<1>2. UNCHANGED <<row, finding, alerted, reading, changes, closes>>
    BY DEF RecordIfNew
<1>3. pass \in [Tasks -> PassRow] /\ pass[t] \in PassRow
    BY DEF FindingsInv, PassesTyped
<1>4. found \in Seq(Fingerprints) /\ new \in Seq(Fingerprints)
    BY <1>3 DEF PassRow
<1>5. print \in Fingerprints /\ Tail(found) \in Seq(Fingerprints)
    BY <1>1, <1>4, HeadTailProperties
<1>6. ~ InsertedElsewhere(t, print) /\ ~ IsOpen(print) /\ print \notin Range(new)
    BY DEF RecordIfNew
<1>7. /\ \A u \in Tasks \ {t} : \A n \in DOMAIN pass[u].new : pass[u].new[n] # print
      /\ \A f \in DOMAIN finding : finding[f].status = "OPEN" => finding[f].print # print
      /\ \A n \in DOMAIN new : new[n] # print
    BY <1>6 DEF InsertedElsewhere, IsOpen, Range
<1> HIDE DEF new, found, print
<1>8. /\ Append(new, print) \in Seq(Fingerprints)
      /\ DOMAIN Append(new, print) = DOMAIN new \cup {Len(new) + 1}
      /\ Append(new, print)[Len(new) + 1] = print
      /\ \A n \in DOMAIN new : Append(new, print)[n] = new[n]
    BY <1>4, <1>5
<1>9. PICK longer : longer = Append(new, print)
    OBVIOUS
<1>10. p \in PassRow /\ p.new = longer
    BY <1>3, <1>5, <1>8, <1>9 DEF PassRow
<1> HIDE DEF p
<1>11. PassesTyped'
    BY <1>1, <1>3, <1>10 DEF PassesTyped
<1>12. ReconciliationTypeOK'
    BY <1>2, <1>11, TypesTogether DEF FindingsInv, ReconciliationTypeOK, PassesTyped, PassRow
<1>13. pass'[t].new = longer /\ \A u \in Tasks \ {t} : pass'[u].new = pass[u].new
    BY <1>1, <1>3, <1>10
<1>14. /\ DOMAIN longer = DOMAIN new \cup {Len(new) + 1} /\ longer[Len(new) + 1] = print
       /\ \A n \in DOMAIN new : longer[n] = new[n]
    BY <1>8, <1>9
<1>15. new = pass[t].new
    BY DEF new
<1>16. InsertedOnce'
    BY <1>7, <1>13, <1>14, <1>15 DEF FindingsInv, NewAreNew, InsertedOnce
<1>17. InsertedIsNotOpen'
    BY <1>2, <1>7, <1>13, <1>14, <1>15 DEF FindingsInv, NewAreNew, InsertedIsNotOpen
<1>18. InsertedByNoOther'
    BY <1>7, <1>13, <1>14, <1>15 DEF FindingsInv, NewAreNew, InsertedByNoOther
<1>19. OneOpenFinding'
    BY <1>2 DEF FindingsInv, OneOpenFinding
<1>20. QED
    BY <1>11, <1>12, <1>16, <1>17, <1>18, <1>19 DEF FindingsInv, NewAreNew

(* The commit: the findings that come in are open nowhere yet, and no two of   *)
(* them are of one divergence.                                                 *)
LEMMA CommitStep ==
    ASSUME FindingsInv, NEW t \in Tasks, CommitPass(t)
    PROVE  FindingsInv'
<1> DEFINE new   == pass[t].new
           fresh == [n \in DOMAIN new |-> Detected(new[n])]
<1>1. /\ finding' = finding \o fresh
      /\ alerted' = alerted \cup (Len(finding) + 1 .. Len(finding) + Len(new))
      /\ pass' = [pass EXCEPT ![t] = NoPass]
      /\ UNCHANGED <<row, reading, changes, closes>>
    BY DEF CommitPass
<1>2. /\ finding \in Seq(FindingRow) /\ alerted = DOMAIN finding
      /\ reading \in [Reviewers -> 0 .. Len(finding)]
    BY DEF FindingsInv, ReconciliationTypeOK
<1>3. pass[t] \in PassRow /\ new \in Seq(Fingerprints)
    BY DEF FindingsInv, PassesTyped, PassRow
<1>4. /\ PassesTyped' /\ pass'[t].new = <<>>
      /\ \A u \in Tasks \ {t} : pass'[u].new = pass[u].new
    BY <1>1, PassEnds DEF FindingsInv
<1>5. /\ \A m, n \in DOMAIN new : new[m] = new[n] => m = n
      /\ \A n \in DOMAIN new : \A f \in DOMAIN finding :
             finding[f].status = "OPEN" => finding[f].print # new[n]
      /\ \A u \in Tasks \ {t} : \A m \in DOMAIN new : \A n \in DOMAIN pass[u].new :
             new[m] # pass[u].new[n]
    BY DEF FindingsInv, NewAreNew, InsertedOnce, InsertedIsNotOpen, InsertedByNoOther
<1> HIDE DEF new
<1>6. DOMAIN new = 1 .. Len(new) /\ Len(new) \in Nat
    BY <1>3
<1>7. \A n \in DOMAIN new : Detected(new[n]) \in FindingRow
    BY <1>3 DEF Detected, FindingRow
<1>8. fresh \in [1 .. Len(new) -> FindingRow]
    BY <1>6, <1>7
<1>9. fresh \in Seq(FindingRow) /\ Len(fresh) = Len(new)
    BY <1>6, <1>8
<1>10. \A n \in 1 .. Len(new) : fresh[n].print = new[n]
    BY <1>6 DEF Detected
<1> HIDE DEF fresh
<1>11. /\ finding' \in Seq(FindingRow) /\ Len(finding') = Len(finding) + Len(new)
       /\ \A i \in 1 .. Len(finding) + Len(new) :
              finding'[i] = IF i <= Len(finding) THEN finding[i] ELSE fresh[i - Len(finding)]
    <2>1. PICK longer : longer = finding \o fresh
        OBVIOUS
    <2>2. /\ longer \in Seq(FindingRow) /\ Len(longer) = Len(finding) + Len(fresh)
          /\ \A i \in 1 .. Len(finding) + Len(fresh) :
                 longer[i] = IF i <= Len(finding) THEN finding[i] ELSE fresh[i - Len(finding)]
        BY <1>2, <1>9, <2>1, ConcatProperties
    <2>3. Len(fresh) = Len(new) /\ finding' = longer
        BY <1>1, <1>9, <2>1
    <2>4. QED
        BY <2>2, <2>3
<1>12. Len(finding) \in Nat /\ DOMAIN finding = 1 .. Len(finding)
    BY <1>2
<1>13. DOMAIN finding' = 1 .. Len(finding) + Len(new)
    BY <1>11
<1>14. alerted' = DOMAIN finding'
    <2>1. 1 .. Len(finding) + Len(new) =
              (1 .. Len(finding)) \cup (Len(finding) + 1 .. Len(finding) + Len(new))
        BY <1>6, <1>12
    <2>2. QED
        BY <1>1, <1>2, <1>12, <1>13, <2>1
<1>15. reading' \in [Reviewers -> 0 .. Len(finding')]
    <2>1. 0 .. Len(finding) \subseteq 0 .. Len(finding')
        BY <1>6, <1>11, <1>12
    <2>2. QED
        BY <1>1, <1>2, <2>1
<1>16. ReconciliationTypeOK'
    BY <1>1, <1>4, <1>11, <1>14, <1>15 DEF FindingsInv, ReconciliationTypeOK, PassesTyped, PassRow
<1>17. \A i \in DOMAIN finding' :
           \/ i \in DOMAIN finding /\ finding'[i] = finding[i]
           \/ \E n \in DOMAIN new : i = Len(finding) + n /\ finding'[i].print = new[n]
    <2> SUFFICES ASSUME NEW i \in DOMAIN finding', i \notin DOMAIN finding
                 PROVE  \E n \in DOMAIN new : i = Len(finding) + n /\ finding'[i].print = new[n]
        BY <1>11, <1>12, <1>13
    <2>1. i \in 1 .. Len(finding) + Len(new) /\ ~ (i <= Len(finding))
        BY <1>12, <1>13
    <2>2. i - Len(finding) \in 1 .. Len(new) /\ i = Len(finding) + (i - Len(finding))
        BY <1>6, <1>12, <2>1
    <2>3. finding'[i] = fresh[i - Len(finding)]
        BY <1>11, <2>1
    <2>4. QED
        BY <1>6, <1>10, <2>2, <2>3
<1>18. OneOpenFinding'
    BY <1>5, <1>17 DEF FindingsInv, OneOpenFinding
<1>19. InsertedOnce' /\ InsertedByNoOther'
    BY <1>4 DEF FindingsInv, NewAreNew, InsertedOnce, InsertedByNoOther
<1>20. InsertedIsNotOpen'
    <2> SUFFICES ASSUME NEW u \in Tasks, NEW n \in DOMAIN pass'[u].new,
                        NEW f \in DOMAIN finding', finding'[f].status = "OPEN"
                 PROVE  finding'[f].print # pass'[u].new[n]
        BY DEF InsertedIsNotOpen
    <2>1. u # t /\ pass'[u].new = pass[u].new
        BY <1>4
    <2>2. QED
        BY <1>5, <1>17, <2>1 DEF FindingsInv, NewAreNew, InsertedIsNotOpen
<1>21. QED
    BY <1>4, <1>16, <1>18, <1>19, <1>20 DEF FindingsInv, NewAreNew

(* A reviewer reads an open finding, or writes an outcome over a finding:      *)
(* fewer findings are open than before, and the same divergences.              *)
LEMMA ReviewStep ==
    ASSUME FindingsInv, NEW r \in Reviewers,
           \/ \E n \in DOMAIN finding : ReadFinding(r, n)
           \/ \E o \in {"RESOLVED", "ACCEPTED"} : CloseFinding(r, o)
    PROVE  FindingsInv'
<1>0. /\ finding \in Seq(FindingRow) /\ alerted = DOMAIN finding
      /\ reading \in [Reviewers -> 0 .. Len(finding)] /\ closes \in 0 .. MaxCloses
      /\ changes \in 0 .. MaxChanges /\ row \in Rows /\ PassesTyped
    BY DEF FindingsInv, ReconciliationTypeOK
<1>1. CASE \E n \in DOMAIN finding : ReadFinding(r, n)
    <2>1. PICK n \in DOMAIN finding : ReadFinding(r, n)
        BY <1>1
    <2>2. /\ UNCHANGED <<row, finding, alerted, pass, changes, closes>>
          /\ reading' = [reading EXCEPT ![r] = n]
        BY <2>1 DEF ReadFinding
    <2>3. n \in 0 .. Len(finding)
        BY <1>0
    <2>4. reading' \in [Reviewers -> 0 .. Len(finding)]
        BY <1>0, <2>2, <2>3
    <2>5. PassesTyped'
        BY <1>0, <2>2 DEF PassesTyped
    <2>6. ReconciliationTypeOK'
        BY <1>0, <2>2, <2>4, <2>5 DEF ReconciliationTypeOK, PassesTyped, PassRow
    <2>7. QED
        BY <2>2, <2>5, <2>6, InsertionsKept DEF FindingsInv
<1>2. CASE \E o \in {"RESOLVED", "ACCEPTED"} : CloseFinding(r, o)
    <2>1. PICK o \in {"RESOLVED", "ACCEPTED"} : CloseFinding(r, o)
        BY <1>2
    <2> DEFINE closed == [finding[reading[r]] EXCEPT !.status = o, !.by = r]
    <2>2. /\ UNCHANGED <<row, alerted, pass, changes>>
          /\ finding' = [finding EXCEPT ![reading[r]].status = o, ![reading[r]].by = r]
          /\ reading' = [reading EXCEPT ![r] = 0]
          /\ closes' = closes + 1 /\ closes < MaxCloses /\ reading[r] # 0
        BY <2>1 DEF CloseFinding
    <2>3. reading[r] \in 1 .. Len(finding)
        BY <1>0, <2>2
    <2>4. finding[reading[r]] \in FindingRow
        BY <1>0, <2>3
    <2>5. /\ closed \in FindingRow /\ closed.status # "OPEN"
          /\ closed.print = finding[reading[r]].print
        BY <2>4 DEF FindingRow
    <2>6. finding' = [finding EXCEPT ![reading[r]] = closed]
        BY <1>0, <2>2, <2>3
    <2> HIDE DEF closed
    <2>7. /\ finding' \in Seq(FindingRow) /\ Len(finding') = Len(finding)
          /\ \A n \in 1 .. Len(finding) :
                 finding'[n] = IF n = reading[r] THEN closed ELSE finding[n]
        BY <1>0, <2>3, <2>5, <2>6
    <2>8. DOMAIN finding' = DOMAIN finding /\ DOMAIN finding = 1 .. Len(finding)
        BY <1>0, <2>7
    <2>9. \A n \in DOMAIN finding' :
              finding'[n].status = "OPEN" =>
                  /\ n \in DOMAIN finding /\ finding[n].status = "OPEN"
                  /\ finding'[n].print = finding[n].print
        BY <2>5, <2>7, <2>8
    <2>10. closes' \in 0 .. MaxCloses
        BY <1>0, <2>2, ReconciliationAssumption
    <2>11. 0 \in 0 .. Len(finding)
        BY <1>0
    <2>12. reading' \in [Reviewers -> 0 .. Len(finding')]
        BY <1>0, <2>2, <2>7, <2>11
    <2>13. PassesTyped'
        BY <1>0, <2>2 DEF PassesTyped
    <2>14. ReconciliationTypeOK'
        BY <1>0, <2>2, <2>7, <2>8, <2>10, <2>12, <2>13
           DEF ReconciliationTypeOK, PassesTyped, PassRow
    <2>15. NewAreNew'
        BY <2>2, <2>9 DEF FindingsInv, NewAreNew, InsertedOnce, InsertedIsNotOpen, InsertedByNoOther
    <2>16. OneOpenFinding'
        BY <2>9 DEF FindingsInv, OneOpenFinding
    <2>17. QED
        BY <2>13, <2>14, <2>15, <2>16 DEF FindingsInv
<1>3. QED
    BY <1>1, <1>2

LEMMA NextFindingsInv == FindingsInv /\ [ReconciliationNext]_reconciliationVars => FindingsInv'
<1> SUFFICES ASSUME FindingsInv, [ReconciliationNext]_reconciliationVars PROVE FindingsInv'
    OBVIOUS
<1>1. CASE \/ \E i \in PaymentIntents, s \in {"stuck", "captured", "failed"} : ChangeIntent(i, s)
           \/ \E w \in Wallets : ChangeWallet(w)
           \/ \E p \in Payouts, s \in {"requested", "late", "paid"} : ChangePayout(p, s)
           \/ \E d \in Deals, f \in {"funded", "closed", "paid"} : ChangeDeal(d, f)
           \/ \E t \in Postings : PostUneven(t)
    <2>1. row \in Rows
        BY DEF FindingsInv, ReconciliationTypeOK
    <2>2. QED
        BY <1>1, <2>1, RowsStayRows, RowStep
<1>2. ASSUME NEW t \in Tasks, TaskStep(t) PROVE FindingsInv'
    BY <1>2, AskingStep, RecordFindingStep, RepeatedStep, CommitStep DEF TaskStep
<1>3. ASSUME NEW r \in Reviewers, NEW n \in DOMAIN finding, ReadFinding(r, n) PROVE FindingsInv'
    BY <1>3, ReviewStep
<1>4. ASSUME NEW r \in Reviewers, NEW o \in {"RESOLVED", "ACCEPTED"}, CloseFinding(r, o)
      PROVE  FindingsInv'
    BY <1>4, ReviewStep
<1>5. CASE UNCHANGED reconciliationVars
    <2>1. PassesTyped' /\ ReconciliationTypeOK'
        BY <1>5 DEF FindingsInv, ReconciliationTypeOK, PassesTyped, reconciliationVars
    <2>2. QED
        BY <1>5, <2>1, InsertionsKept DEF FindingsInv, reconciliationVars
<1>6. QED
    BY <1>1, <1>2, <1>3, <1>4, <1>5 DEF ReconciliationNext

LEMMA FindingsInvariance == ReconciliationSpec => []FindingsInv
    BY InitFindingsInv, NextFindingsInv, PTL DEF ReconciliationSpec

(* Every variable of the reconciliation keeps its type, and every finding has  *)
(* its alert (RunReconciliationUseCase commits the two together).              *)
THEOREM ReconciliationTypesCorrect == ReconciliationSpec => []ReconciliationTypeOK
<1>1. FindingsInv => ReconciliationTypeOK
    BY DEF FindingsInv
<1>2. QED
    BY <1>1, FindingsInvariance, PTL

(* However many passes run at once, and whatever reviewers close meanwhile, a  *)
(* divergence has one open finding (recordIfNew and the index of the findings  *)
(* that are open).                                                             *)
THEOREM OneFindingIsEverOpen == ReconciliationSpec => []OneOpenFinding
<1>1. FindingsInv => OneOpenFinding
    BY DEF FindingsInv
<1>2. QED
    BY <1>1, FindingsInvariance, PTL
==============================================================================
