---------------------------- MODULE Reconciliation ----------------------------
(***************************************************************************)
(* Reconciliation (modules/ops): a task that compares what the tables say  *)
(* with one another, records every divergence as a finding and alerts; an  *)
(* administrator closes findings, and nothing is ever corrected by itself. *)
(*                                                                         *)
(* A pass (the scheduler of a process, or an administrator who runs it) is *)
(* one transaction: six queries, each of which sees what is committed when *)
(* it runs, then one insertion per row they found.  A finding has a        *)
(* fingerprint, unique among the open ones.  The insertion that breaks     *)
(* that index is caught (recordIfNew) and counted as repeated, but the     *)
(* database has aborted the transaction by then: whatever the pass goes on *)
(* to do, nothing of it is kept.                                           *)
(*                                                                         *)
(* The rows the queries read change in any way other modules could change  *)
(* them.  Not modelled: the limit of 200 rows to a query, and deadlocks    *)
(* between two passes, which insert here in one order.                     *)
(***************************************************************************)
EXTENDS Naturals, Sequences, FiniteSets, SequencesExt

CONSTANTS
    PaymentIntents, \* rows of payment_intents
    Deals,          \* rows of deals
    Payouts,        \* rows of payouts
    Wallets,        \* rows of wallets
    Postings,       \* rows of ledger_transactions
    Tasks,          \* passes that may run at once (a bound)
    Reviewers,      \* administrators who may be closing a finding at once (a bound)
    DealPaid,       \* the deal of an intent
    MaxChanges,     \* how often the rows change (a bound)
    MaxCloses       \* how often a finding is closed (a bound)

ASSUME ReconciliationAssumption ==
    /\ DealPaid \in [PaymentIntents -> Deals]
    /\ MaxChanges \in Nat /\ MaxCloses \in Nat
    /\ "none" \notin PaymentIntents \cup Deals \cup Payouts \cup Wallets \cup Postings
    /\ IsFiniteSet(PaymentIntents) /\ IsFiniteSet(Deals) /\ IsFiniteSet(Payouts)
    /\ IsFiniteSet(Wallets) /\ IsFiniteSet(Postings) \* a table has finitely many rows

VARIABLES
    row,      \* the rows the queries read
    finding,  \* reconciliation_findings, in the order of their ids
    alerted,  \* findings with an event reconciliation.finding_detected
    pass,     \* the passes under way
    reading,   \* the finding each reviewer has read open, 0 for none
    changes,  \* how often the rows have changed
    closes    \* how often a finding has been closed

reconciliationVars == <<row, finding, alerted, pass, reading, changes, closes>>
-----------------------------------------------------------------------------
(* FINDING_KINDS, in the order in which execute runs their queries. *)
Kinds == <<"STUCK_PAYMENT_INTENT", "CAPTURE_WITHOUT_LEDGER", "WALLET_DIVERGENCE",
           "STUCK_PAYOUT", "UNBALANCED_LEDGER", "ESCROW_ON_CLOSED_DEAL">>

(* fingerprint: what a divergence is, however often it is seen. *)
Fingerprint(kind, subject) == <<kind, subject>>

(* The subject of a finding is a row of the table its query reads. *)
SubjectsOf(kind) ==
    CASE kind = "STUCK_PAYMENT_INTENT"   -> PaymentIntents
      [] kind = "CAPTURE_WITHOUT_LEDGER" -> Deals
      [] kind = "WALLET_DIVERGENCE"      -> Wallets
      [] kind = "STUCK_PAYOUT"           -> Payouts
      [] kind = "UNBALANCED_LEDGER"      -> Postings
      [] kind = "ESCROW_ON_CLOSED_DEAL"  -> Deals

Fingerprints == UNION {{kind} \X SubjectsOf(kind) : kind \in Range(Kinds)}

(* What the queries tell apart of each table. "stuck" and "late" are PENDING    *)
(* for over an hour and PROCESSING for over two days.                           *)
Rows ==
    [intent : [PaymentIntents -> {"pending", "stuck", "captured", "failed"}],
     funded : SUBSET Deals,
     wallet : [Wallets -> {"agrees", "differs"}],
     payout : [Payouts -> {"requested", "late", "paid"}],
     uneven : SUBSET Postings,
     closed : SUBSET Deals,
     holding : SUBSET Deals]

SoundRows ==
    [intent |-> [i \in PaymentIntents |-> "pending"],
     funded |-> {},
     wallet |-> [w \in Wallets |-> "agrees"],
     payout |-> [p \in Payouts |-> "requested"],
     uneven |-> {},
     closed |-> {},
     holding |-> {}]
-----------------------------------------------------------------------------
(* The six queries: the subjects of the rows they return, one per row. *)
StuckPaymentIntents == {<<i, i>> : i \in {j \in PaymentIntents : row.intent[j] = "stuck"}}

(* One row for each captured intent of a deal without any ESCROW_FUNDING. *)
CapturesWithoutLedger ==
    {<<DealPaid[i], i>> : i \in {j \in PaymentIntents :
                                    row.intent[j] = "captured" /\ DealPaid[j] \notin row.funded}}

WalletDivergences == {<<w, w>> : w \in {v \in Wallets : row.wallet[v] = "differs"}}

StuckPayouts == {<<p, p>> : p \in {q \in Payouts : row.payout[q] = "late"}}

UnbalancedLedgerTransactions == {<<t, t>> : t \in row.uneven}

EscrowOnClosedDeals == {<<d, d>> : d \in row.closed \cap row.holding}

Query(kind) ==
    CASE kind = "STUCK_PAYMENT_INTENT"   -> StuckPaymentIntents
      [] kind = "CAPTURE_WITHOUT_LEDGER" -> CapturesWithoutLedger
      [] kind = "WALLET_DIVERGENCE"      -> WalletDivergences
      [] kind = "STUCK_PAYOUT"           -> StuckPayouts
      [] kind = "UNBALANCED_LEDGER"      -> UnbalancedLedgerTransactions
      [] kind = "ESCROW_ON_CLOSED_DEAL"  -> EscrowOnClosedDeals

(* The candidates of a query: one fingerprint per row, so perhaps the same twice. *)
Candidates(kind) ==
    LET rows == SetToSeq(Query(kind))
    IN  [n \in DOMAIN rows |-> Fingerprint(kind, rows[n][1])]

Diverging == UNION {Range(Candidates(kind)) : kind \in Range(Kinds)}

IsOpen(print) ==
    \E n \in DOMAIN finding : finding[n].print = print /\ finding[n].status = "OPEN"

Detected(print) == [print |-> print, status |-> "OPEN", by |-> "none"]
-----------------------------------------------------------------------------
(* asked counts the queries run, found are the rows still to be recorded and   *)
(* new the findings inserted so far, which nobody else sees yet.               *)
NoPass == [phase |-> "idle", asked |-> 0, found |-> <<>>, new |-> <<>>]

ReconciliationInit ==
    /\ row     = SoundRows
    /\ finding = <<>>
    /\ alerted = {}
    /\ pass    = [t \in Tasks |-> NoPass]
    /\ reading  = [r \in Reviewers |-> 0]
    /\ changes = 0
    /\ closes  = 0

(* A module changes a row: an intent is captured, or is left behind, ... *)
ChangeIntent(i, status) ==
    /\ changes < MaxChanges
    /\ row.intent[i] # status
    /\ row.intent[i] \in {"captured", "failed"} => status = "captured"
    /\ row' = [row EXCEPT !.intent[i] = status]
    /\ changes' = changes + 1
    /\ UNCHANGED <<finding, alerted, pass, reading, closes>>

ChangeWallet(w) ==
    /\ changes < MaxChanges
    /\ row' = [row EXCEPT !.wallet[w] = IF @ = "agrees" THEN "differs" ELSE "agrees"]
    /\ changes' = changes + 1
    /\ UNCHANGED <<finding, alerted, pass, reading, closes>>

ChangePayout(p, status) ==
    /\ changes < MaxChanges
    /\ row.payout[p] # status
    /\ row' = [row EXCEPT !.payout[p] = status]
    /\ changes' = changes + 1
    /\ UNCHANGED <<finding, alerted, pass, reading, closes>>

(* ... a deal is funded, closed, or paid out; the ledger only ever grows. *)
ChangeDeal(d, field) ==
    /\ changes < MaxChanges
    /\ row' = CASE field = "funded" -> [row EXCEPT !.funded = @ \cup {d}, !.holding = @ \cup {d}]
                [] field = "closed" -> [row EXCEPT !.closed = @ \cup {d}]
                [] field = "paid"   -> [row EXCEPT !.holding = @ \ {d}]
    /\ row' # row
    /\ changes' = changes + 1
    /\ UNCHANGED <<finding, alerted, pass, reading, closes>>

PostUneven(t) ==
    /\ changes < MaxChanges
    /\ t \notin row.uneven
    /\ row' = [row EXCEPT !.uneven = @ \cup {t}]
    /\ changes' = changes + 1
    /\ UNCHANGED <<finding, alerted, pass, reading, closes>>

BeginPass(t) ==
    /\ pass[t].phase = "idle"
    /\ pass' = [pass EXCEPT ![t].phase = "asking"]
    /\ UNCHANGED <<row, finding, alerted, reading, changes, closes>>

(* The next query, on what is committed by now. *)
AskNext(t) ==
    /\ pass[t].phase = "asking"
    /\ pass[t].asked < Len(Kinds)
    /\ pass' = [pass EXCEPT ![t].asked = @ + 1,
                            ![t].found = @ \o Candidates(Kinds[pass[t].asked + 1])]
    /\ UNCHANGED <<row, finding, alerted, reading, changes, closes>>

AskedAll(t) == pass[t].phase = "asking" /\ pass[t].asked = Len(Kinds)

(* Another pass has inserted this fingerprint and has not committed yet. *)
InsertedElsewhere(t, print) ==
    \E u \in Tasks \ {t} : print \in Range(pass[u].new)

(* Mutant: the insertion looks at the open findings and waits for nobody. *)
RecordUnguarded(t) ==
    /\ AskedAll(t)
    /\ pass[t].found # <<>>
    /\ LET print == Head(pass[t].found)
       IN  /\ ~ IsOpen(print)
           /\ print \notin Range(pass[t].new)
           /\ pass' = [pass EXCEPT ![t].found = Tail(@), ![t].new = Append(@, print)]
    /\ UNCHANGED <<row, finding, alerted, reading, changes, closes>>

(* recordIfNew: the insertion waits for the other pass to end ... *)
RecordIfNew(t) ==
    /\ AskedAll(t)
    /\ pass[t].found # <<>>
    /\ LET print == Head(pass[t].found)
       IN  /\ ~ InsertedElsewhere(t, print)
           /\ ~ IsOpen(print)
           /\ print \notin Range(pass[t].new)
           /\ pass' = [pass EXCEPT ![t].found = Tail(@), ![t].new = Append(@, print)]
    /\ UNCHANGED <<row, finding, alerted, reading, changes, closes>>

(* Mutant: the index has the closed findings in it too. *)
RepeatedEver(t) ==
    /\ AskedAll(t)
    /\ pass[t].found # <<>>
    /\ LET print == Head(pass[t].found)
       IN  /\ ~ InsertedElsewhere(t, print)
           /\ \/ \E n \in DOMAIN finding : finding[n].print = print
              \/ print \in Range(pass[t].new)
    /\ pass' = [pass EXCEPT ![t] = NoPass]
    /\ UNCHANGED <<row, finding, alerted, reading, changes, closes>>

(* ... and, if there is one open already, fails, and the transaction with it:  *)
(* the next statement throws, or the commit turns out to be a rollback.        *)
RepeatedFinding(t) ==
    /\ AskedAll(t)
    /\ pass[t].found # <<>>
    /\ LET print == Head(pass[t].found)
       IN  /\ ~ InsertedElsewhere(t, print)
           /\ IsOpen(print) \/ print \in Range(pass[t].new)
    /\ pass' = [pass EXCEPT ![t] = NoPass]
    /\ UNCHANGED <<row, finding, alerted, reading, changes, closes>>

(* The findings and their alerts are committed together. *)
CommitPass(t) ==
    /\ AskedAll(t)
    /\ pass[t].found = <<>>
    /\ LET new == pass[t].new
       IN  /\ finding' = finding \o [n \in DOMAIN new |-> Detected(new[n])]
           /\ alerted' = alerted \cup (Len(finding) + 1 .. Len(finding) + Len(new))
    /\ pass' = [pass EXCEPT ![t] = NoPass]
    /\ UNCHANGED <<row, reading, changes, closes>>

(* The findings a reviewer is shown, which are the open ones. *)
ListFindings == {n \in DOMAIN finding : finding[n].status = "OPEN"}

(* CloseFindingUseCase reads the finding, which has to be open ... *)
ReadFinding(r, n) ==
    /\ reading[r] = 0
    /\ n \in ListFindings
    /\ reading' = [reading EXCEPT ![r] = n]
    /\ UNCHANGED <<row, finding, alerted, pass, changes, closes>>

(* ... and writes the outcome over whatever the row says by then. *)
CloseFinding(r, outcome) ==
    /\ reading[r] # 0
    /\ closes < MaxCloses
    /\ finding' = [finding EXCEPT ![reading[r]].status = outcome, ![reading[r]].by = r]
    /\ reading' = [reading EXCEPT ![r] = 0]
    /\ closes' = closes + 1
    /\ UNCHANGED <<row, alerted, pass, changes>>

TaskStep(t) == BeginPass(t) \/ AskNext(t) \/ RecordIfNew(t) \/ RepeatedFinding(t) \/ CommitPass(t)

ReconciliationNext ==
    \/ \E i \in PaymentIntents, s \in {"stuck", "captured", "failed"} : ChangeIntent(i, s)
    \/ \E w \in Wallets : ChangeWallet(w)
    \/ \E p \in Payouts, s \in {"requested", "late", "paid"} : ChangePayout(p, s)
    \/ \E d \in Deals, f \in {"funded", "closed", "paid"} : ChangeDeal(d, f)
    \/ \E t \in Postings : PostUneven(t)
    \/ \E t \in Tasks : TaskStep(t)
    \/ \E r \in Reviewers, n \in DOMAIN finding : ReadFinding(r, n)
    \/ \E r \in Reviewers, o \in {"RESOLVED", "ACCEPTED"} : CloseFinding(r, o)

ReconciliationSpec == ReconciliationInit /\ [][ReconciliationNext]_reconciliationVars

(* The timer starts pass after pass, and a pass goes on by itself. *)
ReconciliationFairness == \A t \in Tasks : WF_reconciliationVars(TaskStep(t))

ReconciliationFairSpec == ReconciliationSpec /\ ReconciliationFairness
-----------------------------------------------------------------------------
FindingRow ==
    [print : Fingerprints, status : {"OPEN", "RESOLVED", "ACCEPTED"},
     by : Reviewers \cup {"none"}]

ReconciliationTypeOK ==
    /\ row \in Rows
    /\ finding \in Seq(FindingRow)
    /\ alerted = DOMAIN finding
    /\ \A t \in Tasks : /\ pass[t].phase \in {"idle", "asking"}
                        /\ pass[t].asked \in 0 .. Len(Kinds)
                        /\ pass[t].found \in Seq(Fingerprints)
                        /\ pass[t].new \in Seq(Fingerprints)
    /\ reading \in [Reviewers -> 0 .. Len(finding)]
    /\ changes \in 0 .. MaxChanges
    /\ closes \in 0 .. MaxCloses

(* However many passes run together, a divergence is open once, so the list    *)
(* can still be read (reconciliation.ts: "sem isto, uma intenção presa há uma  *)
(* semana produziria sete registos iguais").                                   *)
OneOpenFinding ==
    \A m, n \in DOMAIN finding :
        /\ finding[m].status = "OPEN" /\ finding[n].status = "OPEN"
        /\ finding[m].print = finding[n].print
        => m = n

(* Some row a pass will find has its finding open, or two have the same one. *)
Clogged(print) ==
    \/ \E other \in Diverging \ {print} : IsOpen(other)
    \/ \E kind \in Range(Kinds) : ~ IsInjective(Candidates(kind))

(* A divergence that lasts is found, and found again if it is closed without   *)
(* being corrected, as long as nothing clogs the passes.                       *)
FoundUnlessClogged ==
    \A print \in Fingerprints :
        <>[](print \in Diverging /\ ~ Clogged(print)) => []<> IsOpen(print)

(* sdd.md:1205: "Toda a divergência gera um registo em reconciliation_findings *)
(* e alerta", which an open finding of something else is enough to prevent.    *)
DivergencesAreFound ==
    \A print \in Fingerprints : <>[](print \in Diverging) => []<> IsOpen(print)
=============================================================================
