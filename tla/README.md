# Verification of the NaDM deal platform

TLA+ specifications of the server in `src/apps/api` and of the deal screens in
`src/apps/web`, the TLC configurations that check them on small instances, and proofs
checked by TLAPS. The reference is always the code; where a document disagrees with it,
section 4 says so.

NaDM is a marketplace. A buyer proposes a *deal* on a creator's offer and pays it in
advance; the money is held in escrow until the work is approved, or goes back.

## 1. Inventory

Paths without a prefix are under `src/apps/api/src/`.

| Part | State | Operations | Talks to |
|---|---|---|---|
| **Deal aggregate** `modules/deals/domain` | status, escrow status, terms (snapshot), amounts, deadlines, revisions | T1-T16, E1-E4 (methods of `Deal`) | is loaded and saved by every use case of deals and payments |
| **Negotiation** `create-`, `accept-`, `decline-`, `counter-offer-`, `respond-counter-offer` | counter-offers, one PENDING per deal | propose, accept, decline, counter-offer, accept or decline it | slots, escrow refund, ledger, payments (expires intents) |
| **Work** `submit-`, `reject-`, `approve-delivery`, `request-refund` | deliveries, numbered per deal | deliver, send back, approve, ask for the money back when late | escrow release and refund, disputes |
| **Disputes** `open-`, `resolve-dispute` | one OPEN per deal | open, withdraw, decide for either party | escrow refund |
| **Deadline sweep** `run-deal-deadlines`, `deal-deadlines.scheduler` | none | T13 expires undecided deals, T10 approves unanswered deliveries | a timer calls it; it calls `ApproveDelivery` and escrow refund |
| **Escrow services** `escrow-release`, `escrow-refund` | none | the posting and the status change that go together | ledger, wallet |
| **Payments** `modules/payments` | intents (one active per deal), provider events | start a payment or a top-up, handle a notification | the provider, in both directions; deals; ledger |
| **Ledger** `modules/ledger` | append-only transactions with a unique `(kind, reference)`; wallets as a projection | record, recompute | every use case that moves money |
| **Conversation** `modules/deals` | messages of a deal, audit rows | send; read and write as administrator | saves the deal; disputes; outbox |
| **Content and private media** `modules/content` | items, files, grants (one per buyer and item) | upload, publish, withdraw, unlock by purchase, follow a link | payments (the unlock runs inside a capture), profiles |
| **Availability** `modules/profiles` | windows with total and taken slots | open, delete, take, release | deals |
| **Profiles and offers** `modules/profiles` | profile, settings, offers | create, edit, publish, pause | content (one offer per item on sale) |
| **Payouts** `modules/payouts` | withdrawals | request, cancel, approve, process, settle, fail | ledger, under a row lock on the creator's account |
| **Outbox, notifications** `modules/notifications` | outbox rows, delivery log | enqueue in the caller's transaction, dispatch by timer or by hand | every use case; mail, SMS and push |
| **Operations** `modules/ops` | findings, suspensions | periodic reconciliation, closing of findings, suspend, reinstate | ledger, deals, payouts, users |
| **Identity** `modules/identity` | users, verifications | session, guard, submit, approve, reject | operations (suspension) |
| **Reviews** `modules/reviews` | one review per deal, one answer per review | submit, answer | deals |
| **Direct messages** `modules/direct-messages` | conversations, messages | start, write | profiles |
| **Web** `src/apps/web` | none of its own | screens | HTTP API |

### What is hard here

* **Two state machines per deal**, one commercial and one of the money, plus the rows
  that must follow them: intents, counter-offers, deliveries, disputes, slots, grants,
  ledger. They are kept in step by code in a dozen use cases and by unique indexes.
* **The provider** answers when it wants: notifications are repeated, arrive after the
  deal closed, contradict each other, or carry another amount.
* **Deadlines** are only enforced by a sweep, so between the deadline and the sweep
  everything else may still happen.
* **Renegotiation** moves money on a deal that is already funded.
* **Transactions** run at READ COMMITTED with reads that take no lock and saves that
  write every column that changes after creation. Withdrawals lock a row and direct messages an advisory lock; the other
  parts rely on unique keys, conditional updates and foreign keys.
* **Timers** run in every process at once, and die: the same event or divergence may be
  handled twice, or half.
* **A caught unique violation** still aborts the transaction it happened in.
* **Links** to private files outlive what they were given for.
* **Money** is divided in integers, and the ledger refuses entries that are not positive.

### What makes each part correct

* *Deal and escrow*: the two statuses agree; the escrow account is worth exactly the
  deal while it is funded and nothing otherwise; the money leaves once, whole, to the
  right parties; closed deals stay closed; terms change only through the counter-offer.
* *Payments*: of the captures of an intent one is booked, once, and every other one is
  flagged; an active intent can still land.
* *Work*: deliveries, their answers and the revision counter agree; no release under
  dispute.
* *Slots and content*: no slot is lost or freed twice; content is not paid twice.
* *Sweep and notifications*: nothing waits for ever.
* *Payouts*: reservations never exceed the balance; each ends settled or reversed once.
* *Outbox*: a notice goes out once at most; an event is put aside only when everybody
  was seen to, and in the end it is; nights are silent.
* *Reconciliation*: a divergence has one open finding at most, and has one.
* *Conversation*: a message is there once and was told once; the administration reads
  with a trace and only under dispute.
* *Direct messages*: free messages are a week apart. *Reviews*: what was published
  stays. *Accounts*: one per phone, one verification waiting, a level that somebody
  decided.
* *Agenda*: a booking keeps its window, and the slots taken are those of the bookings; a
  profile that shows no slots has sold them. *Catalogue*: the price that is charged is the
  price of the content; a hidden profile stays hidden until it is shown. *Media*: every
  row has its file; what was withdrawn before a file is asked for is not served.
* *Screens*: every button is one the server accepts, and what they say of the money is so.

`PROJECT.json` lists the hazards line by line, with the properties that watch each.

## 2. Modules

| Module | Models |
|---|---|
| `Fees` | `Money.allocate`, `splitFees`, `Deal.settlementFor`, as operators |
| `DealEntity` | the class `Deal`: for each method a guard (`CanAccept`) and a result (`AcceptedDeal`), over one row; deadlines as ticks left |
| `DealLifecycle`, `MCDealLifecycle` | the use cases of deals and payments, one action each, over the tables they share |
| `Escrow` | what the platform promises about the money of a deal, with nothing else in it |
| `DealEscrow` | the refinement mapping from `DealLifecycle` to `Escrow` |
| `DealScreens` | the screens of a deal, their buttons and what each says of the money, as functions of its state, over `DealLifecycle` |
| `MCDealEscrow` | an instance of the two above |
| `DealMoney` | the postings of deals and `closeEscrow`, as operators over one balance and one row |
| `DealTransactions`, `MCDealTransactions` | the use cases of deals again, each as a transaction that reads and commits in separate steps |
| `DealOverwrites` | which deals were saved over a row that was not the one read (a history over `DealTransactions`), and what all others keep; its mapping to `Escrow` |
| `Outbox`, `MCOutbox` | events and the processes that dispatch them |
| `Reconciliation`, `MCReconciliation` | passes, findings and those who close them |
| `Payouts` | withdrawals, as transactions that overlap, with the lock on the creator's profile |
| `Conversation`, `DirectMessages`, `Reviews`, `Accounts`, `Agenda`, `Catalogue`, `MediaAccess` | one module each of the smaller parts, as requests that overlap |
| `MCDesks` | an instance of the eight modules above that share no state with the deals' |
| `DealMoneyProofs`, `SumProofs` | lemmas and one theorem about rows, balances and sums over tables |
| `DealLifecycleProofs`, `DealStepsProofs` | `DealLifecycle`: its inductive invariant, and then what a step may do; the refinement of `Escrow`; `DealScreens` |
| `DealTransactionsProofs` | `DealTransactions` and `DealOverwrites` |
| `PayoutsProofs`, `DesksProofs` | `Payouts`, and the other modules of `MCDesks` with their composition |
| `OperationsProofs` | `Outbox` and `Reconciliation` |

### How DealLifecycle corresponds to the code

| Variable | Table or source |
|---|---|
| `deal` | `deals`: kind, both statuses, price and delivery time of the snapshot, the three amounts, `revision_count`, and each deadline as the ticks left (-1 for null) |
| `delivery` | the latest row of `deliveries` (version) and whether it waits, was accepted or rejected |
| `dispute` | who opened the OPEN row of `disputes`, or `"none"` |
| `offer` | `deal_counter_offers` |
| `intent` | `payment_intents` |
| `sent` | what the provider has sent; not in the code, external |
| `events` | `payment_events`: the notifications that were handled |
| `flagged` | the captures among them that were put aside: `payment.inactive_intent`, `payment.amount_mismatch`, and what `flagForReconciliation` flags of a top-up |
| `ledger` | the balance that the entries of a deal's transactions leave on each account |
| `posted` | the unique `(kind, external_reference)` of `ledger_transactions` |
| `slotsTaken` | `slots_taken` of one window |
| `grants` | `content_grants` of the one item on sale |

Each action is a whole transaction, with everything its helpers do (`CloseEscrow`,
`ReleaseEscrow`, `ExpireIntentsIfUnpaid`, `ReleaseSlot`). A use case that throws rolls
back, so it is not a step: what must not throw is the action's guard, including the
ledger's refusal of entries that are not positive and the abort that a unique violation
causes. Inputs are drawn from `Prices`, `Slas`, `OfferKind` and the ids.

Abstractions:

* messages, audit rows and outbox rows are left out: these use cases write and never
  read them (`Conversation` and `Outbox` follow them from there);
* transactions run one at a time; `DealTransactions` takes that back;
* a purchase of content for which no item was put on sale behaves like a service, so
  `CONTENT_UNLOCK` always has its item, and there is one item;
* `expectedVersion` of an approval or rejection only makes it fail more often; left out;
* repeating the idempotency key of an active intent returns that intent: no step;
* the gateway answers `PENDING`, `FAILED` or `EXPIRED`, which is what the only gateway in
  the code can answer; the port also allows `CAPTURED` (see the hazards);
* a notification is an intent and an event id, which says its type: a capture of the right
  amount, a second one of it under another id, a capture of another amount, and a refusal
  or expiry. An intent may get `NoticesPerIntent` of them, in any order, each repeated by
  the provider until it is answered with success: so an intent is flagged for another
  amount and then booked, or booked and then captured again. UC-05 A2 of the SDD speaks of a job that polls the provider;
  the code has none, so repetition by the provider is what liveness rests on.

### How DealTransactions corresponds to the code

`DealLifecycle` says what each use case does; `DealTransactions` says what is left of it
when two run at once. The database gives READ COMMITTED, `findById` takes no lock, and
`deals.save` writes the statuses, deadlines and counters of the object in memory (all but
the snapshot, the amounts and the parties, which this module never changes). So a use case is a `ReadTo...`
step, which checks the entity's assertions on the row it sees and keeps the row it will
write (`tx[t].seen`, `tx[t].row`), and a `Commit...` step, which writes that row whatever
happened in between. Where the code reads a second time and something may happen between
the two reads, there is a step more: the intent before the deal (`FindCaptured`), the
dispute before the deal (`FindDispute`), the sweep's list before the deal
(`ListOverdue`), the deal before the disputes (`CheckDispute`).

What a commit does check is what the database checks: `NotPosted` (the key of
`ledger_transactions`), `IsNew` (`provider_event_id`), `NoneActive`
(`payment_intents_one_active_per_deal`), the version of a delivery, the one open dispute,
and the conditional updates of slots. A violated key aborts the transaction, so those are
guards; `RollBack` is always possible. `Uses` chooses which use cases run.

`DealOverwrites` adds the set `overwritten` of deals that were saved by a commit whose
`tx[t].seen` was no longer the row of the deal (`Overwrites`; starting a payment and
opening a dispute save no deal). The run `transactions_money` explores it, and its
properties say of a deal outside the set what `DealLifecycle` says of every deal.

The entity and the postings are the operators that `DealLifecycle` uses too
(`DealEntity`, `DealMoney`). Renegotiation, top-ups and content are not in this module.

### How Payouts corresponds to the code

| Variable | Table or source |
|---|---|
| `payout` | `payouts`: creator, amount, status |
| `book` | what the entries leave on `CREATOR_AVAILABLE`, `CREATOR_RESERVED` and the clearing account of withdrawals, per creator |
| `wallet` | the row of `wallets`, as last recomputed |
| `posted` | the unique `(kind, external_reference)` |
| `tx` | the open transactions and what each has read |
| `locked` | per creator, the transaction that holds the lock of the creator profile |

A request locks the profile before it looks at the balance (`RequestPayout`, then
`Commit`). `change`, behind the four decisions of an administrator, reads the payout first
and locks after (`ReadPayout`, `LockAndDecide`, `Commit`). The release of an escrow and
the reading of a wallet take no lock (`ReleaseEscrow`, `GetWallet`) and recompute the
projection from what they see.

### How Outbox corresponds to the code

| Variable | Table or source |
|---|---|
| `event` | `outbox_events`: type, recipient where it has one, waiting or processed |
| `account` | `users.status` |
| `log` | the unique idempotency keys of `notification_deliveries` |
| `sent` | per key, how often the channel was called |
| `worker` | the passes under way, one per process: what each has claimed, planned and recorded |
| `clock` | the hour of the day, UTC |
| `faults`, `skipped` | how many errors and crashes there were; keys skipped for an account that is not active (a history) |

`Claim`, `Defer` or `Dispatch`, `LookAtAccount` or `SkipSuspended`, `Record`, `Send` and
`MarkProcessed` are steps of their own, in the order of `DispatchOutboxUseCase`; an error
(`Fail`) and the death of a process (`Crash`) may come between any two. `user.suspended` is published by the action that suspends, in its
transaction. The matrix of events, the recipients and the hours of silence are taken from
`event-matrix.ts`, `notification-planner.ts` and `notification.ts`.

### How Reconciliation corresponds to the code

| Variable | Table or source |
|---|---|
| `row` | the columns the six queries read, of one small set of rows per table |
| `finding` | `reconciliation_findings`, in the order of their ids |
| `alerted` | findings with their outbox row |
| `pass` | the passes under way: the query each is at, what it found, whether its transaction is aborted |
| `reading` | the finding a reviewer has read and not yet closed |
| `changes`, `closes` | how often the two happened (bounds) |

The rest of the platform are the actions that change a row in any way (`ChangeIntent`,
`ChangeWallet`, `ChangePayout`, `ChangeDeal`, `PostUneven`): this module asks what becomes
of a divergence, not whether there is one.

### How the smaller modules correspond to the code

Each is a set of requests (`talkRequest`, `sending`, `writing`, `asking`, `planning`,
`editing`) that read what is committed, decide, and commit later, over these tables:

| Module | Variables |
|---|---|
| `Conversation` | `talk` the columns of a deal that a message depends on, `disputed` its open dispute, `talkMessage` `messages`, `told` outbox rows, `signed` and `audits` audit rows, `reads` what the administration was answered, `today` |
| `DirectMessages` | `day`, `open` published profiles, `thread` `direct_conversations`, `message` `direct_messages` |
| `Reviews` | `job` the deal's status, `review` `reviews` with its answer, `thanked` buyers told it was accepted, `overtaken` answers written over (a history) |
| `Accounts` | `user` `users`, `verification` `identity_verifications`, `torn` verifications two reviewers were deciding at once (a history) |
| `Agenda` | `time`, `offered` and `active` booking offers, `window` `availability_windows`, `booking` the deals that refer to them, each with whether it was `overwritten` by a request that read it earlier (a history) |
| `Catalogue` | `profile` `profiles` with its settings, `item` `content_items`, `offer` the unlock offer of each, `repriced` and `stale` histories |
| `MediaAccess` | `clock`, `files` the storage, `media` its rows, `upload`, `content`, `public` the profile, `grant` `content_grants`, `suspended`, `link` the links given, `reading` the request that reads a file and what was against it all along (a history) |

`ReadMediaUseCase` is five reads outside a transaction (the link with its row, the account,
the content, the profile, the grant) and the file, and so it is six steps (`BeginReading`,
`AskAccount`, `AskContent`, `AskProfile`, `AskGrant`, `ServeFile`), between which anything may
be withdrawn. The link that an upload answers with has no content, and asks only whether the
account is active and the owner. In `Agenda` a use case that closes the deal of a booking, or
saves it, reads it in one step and writes it, and its slot, in another (`AskToClose`,
`ReleaseSlot`, `AskToSave`, `SaveBooking`).

`DealScreens` has no variables: it is `AccoesDoPedido` and the screens it leads to, as functions
of the row that `GET /deals/:id` answers.

A history variable is read by properties only.

## 3. Runs

`tlc -workers 2 -config X.cfg M`. `CHECK_DEADLOCK FALSE` everywhere: no user is obliged
to do anything, and the tables may well be at rest.

| Run | Checks | Instance |
|---|---|---|
| `lifecycle_one` | the invariants of one deal, `NoReleaseUnderDispute`, `ImplementsEscrow`, and `ScreensTellTheTruth` | 1 deal, 2 intents, 2 notifications of each, 2 counter-offers, prices 0, 105, 210, two delivery times, no slot |
| `lifecycle_two` | `SlotsTakenByBookings`, `ContentIsPaidOnce` | 2 deals of one buyer, 1 slot, 1 item, 1 notification of each intent |
| `lifecycle_live` | the three liveness properties | 1 deal, 2 intents, 2 notifications of each, 1 counter-offer, prices 105, 210, no slot |
| `transactions_money` | what unique keys still guarantee under overlap (`EscrowStatusIsBacked`, `NothingIsPaidTwice`, `PaymentsAreSingle`), and what holds of deals that were not overwritten (`SoundUnlessOverwritten`, `EscrowUnlessOverwritten`) | 1 deal, 2 intents, 2 transactions at once, every use case, 1 dispute, 2 deliveries |
| `outbox` | `SentOnce`, `ProcessedReachedEverybody`, `NightIsSilent`, `EventsAreProcessed` | 1 event of one of four types, 2 processes, the hours 5, 9, 21 and 23, 2 faults |
| `reconciliation` | `OneOpenFinding`, `FoundUnlessClogged` | 1 row of each table, 2 passes, 1 reviewer, 2 changes, 1 closing |
| `desks` | the properties of the eight modules of `MCDesks` | 2 requests at once in each; see below |
| `escrow_moves_twice`, `payout_paid_and_returned`, `suspension_untold`, `reconciliation_stuck`, `work_cannot_go_on` | see section 4 | as small as shows it |

**Bounds**, all of them constants of the specification. For deals: the ids (how many
deals, payments and counter-offers happen), the windows (1 tick: before, at and after a
deadline are the only cases the code tells apart), one included revision (the first is
allowed, the second is not), one slot where two deals compete for it and none elsewhere
(one booking differs from a service in nothing but its slot). The prices are chosen so that a half fee of 5 % is
not a whole number (105 gives 5.25, rounded down), that a renegotiation goes up, down and
to the same price, and, where it matters, zero. Two notifications of one intent are a
capture and a second one, one of another amount before or after the right one, or a refusal
and a capture; the handler looks at each on its own. The grace of a late delivery is 0 in
all runs of these modules but one: a refund is due in the tick in which the delivery is.
Two counter-offers make a deal go up and down again; two intents are a first payment and a top-up, or a payment and the next one.

Two transactions at once are enough for every race of `DealTransactions` that has two
sides, and the bound is on those open at the same time, not on how many run in all; the
theorems of section 5 cover any number. `MaxDisputes` and `MaxVersions` are bounds the
code does not have: a lost update can give a revision back, so the number of deliveries
is not bounded by the revisions that were agreed.

In `outbox` the four types have one recipient or two, cross the night or wait for the
morning; the four hours are the night on both sides of midnight, and day on both sides of
it; two faults are an error and the crash of the pass that repeats it. In
`reconciliation` two changes make a divergence and correct it or make a second one.

In `desks` a behaviour is one module, chosen at its start, so that one run explores eight
machines that do not meet and their state spaces add up instead of multiplying. Two
requests meet in each, on one or two of everything they contend for: two withdrawals and
two releases (one, where they overlap), a week's two sides (days 0, 6, 7) with a page of
two messages, two people and one phone too many, two windows of one offer, two bookings,
two prices, two links that live for one tick of two, each followed by one request at a time. `MaxVerifications`, `MaxTime`,
`MaxClock`, `MaxLinks`, `MaxDay`, `MaxReads` and `MaxSlots` bound what would grow. Part of
what `Payouts` promises fails under overlap (section 4), so it has a second desk,
`"payouts alone"`, where one transaction is open at a time.

The types of `Outbox` and `Reconciliation` are proved and need no run.

No variable grows without a bound, so the runs exhaust their state spaces.

**Symmetry** is used in `lifecycle_one`, `lifecycle_two`, `transactions_money` and
`escrow_moves_twice`, over ids that no property names; runs with liveness use none.

**Fairness.** `LiveSpec` of `DealLifecycle`: weak fairness of the clock, of the two halves
of the sweep and of the handling of a notification. `DealDeadlinesScheduler` runs the
sweep every interval, and a provider that got an error repeats the notification.
`FairSpec` of `Outbox`: weak fairness of the clock and of the steps of a pass, and strong
fairness of a pass that begins by day, because `OutboxScheduler` begins one every few
seconds whatever the hour. `ReconciliationFairness`: weak fairness of each pass, which a
timer starts too. Users, administrators and the provider's first notification have no
fairness anywhere.

## 4. What the code does not keep

Each of these has a run that TLC finds violated:

* `escrow_moves_twice`: an approval and the decision of a dispute for the buyer both read
  the deal as DELIVERED and HELD. Their postings have different keys, so both commit: the
  creator is credited and the buyer refunded.
* `payout_paid_and_returned`: two decisions read a payout as PROCESSING before either
  locks. One settles it, the other reverses it, and both posts have their own key.
* `suspension_untold`: the mail that tells an account of its suspension is dispatched
  when the account is no longer active, skipped for that, and put aside as processed.
* `reconciliation_stuck`: while a finding is open, every pass meets its divergence again,
  breaks the unique index, and loses its transaction with everything else it found.
* `work_cannot_go_on`: work sent back for a revision leaves its deal IN_PROGRESS, where
  the server accepts another delivery and no screen offers one; the studio nevertheless
  counts it among what waits for the creator (`creator-api.ts`, `hasCreatorAction`).

What else the models reach, or reading for them showed, without a run of its own. Where a
property is named, its module states what was promised, and TLC refutes it on the
instances above (those of the deal's modules within seconds).

*Deals and money*

* A top-up is captured after the sweep expired its deal. The comment in
  `handle-payment-captured.use-case.ts:292` promises reconciliation; the counter-offer is
  still PENDING, so T5 is tried, throws, and rolls back on every repeat
  (`TopUpCapturesAreAnswered`).
* That counter-offer is PENDING because the sweep, which expires the deal under it, leaves it
  so, although the same comment takes it to be over (`OffersEndWithTheDeadline`). So does the
  creator who declines the deal, which the server allows while the answer is the buyer's to
  give (T6, `sdd.md:424`).
* A late refund does not ask for disputes. The creator opens one and the buyer asks for the
  money back, which leaves at once, although the screen of the dispute says that it stays
  until NaDM decides (`disputa/page.tsx:91`, `DisputedMoneyStays` of `DealScreens`); the
  dispute stays OPEN on a refunded deal.
* A counter-offer of price 0 is legal and, once accepted, leaves a funded deal whose
  refund is an entry of 0, which the ledger refuses. The sweep fails on it every time.
* A capture commits between the read and the commit of a decline. `closeEscrow` saw an
  unpaid deal, `save` overwrites the capture, and the deal ends DECLINED and FAILED with
  its money in the books (`DeclinedDealsHoldNoMoney`).
* A dispute is opened after an approval looked for one and before it commits
  (`NoReleaseUnderDispute` of `DealTransactions`).
* A refusal or an expiry that the provider reports (`HandleNotice`) leaves the intent
  active, so the buyer cannot try again; UC-05 E1 (`sdd.md:614`) says the intent fails.
* `SendMessage` saves the deal it read. Over a decline that committed meanwhile, this
  brings the proposal back as HELD while its money has been returned (RN-105).
* The sweep lists an overdue delivery, the buyer sends it back and a new version arrives:
  `ApproveDelivery` approves that version at once (`ListOverdue`, `ReadToReject`,
  `CommitStatus`, `CommitDelivery`, `ReadToAutoApprove`).
* A decline and the sweep both close the same unpaid booking, and `CommitClose` gives its
  slot back twice.
* A release of escrow takes no lock, so its wallet projection can miss the posting of a
  transaction that overlaps it; the next recomputation repairs it. `NeverOverdrawn` holds
  nevertheless, because a request does not decide on the wallet.

Of what transactions of deals do to each other, only two do not go through a row saved
over one that was not read: the dispute opened beside an approval, and the delivery
approved early. Every other one of these needs such a save (`DealOverwrites`).

*Notifications and operations*

* `MAX_TENTATIVAS` (`dispatch-outbox.use-case.ts:13`) promises that an event is no longer
  tried after six attempts; it only changes what is logged.
* From 0h to 1h in Luanda it is still the day before in UTC, and `deliverableAt` answers
  with a morning that is past: a silenced notice goes out at once.
* A delivery is recorded before it is sent, so one whose sending failed is taken for sent
  when its event is retried.
* Two captured intents of one deal are two rows with one fingerprint, and abort even the
  first pass of a reconciliation.
* Each query returns 200 rows, always the same ones, open findings among them.
* Two reviewers who read one finding as open both close it, and the second overwrites the
  first (`reconciliation.use-case.spec.ts:232`, "não se fecha duas vezes").

*The smaller parts*

* The page of a conversation is its first 100 or 200 messages, not its last. A buyer
  whose latest message is beyond the page of 200 is told a free one is due
  (`WrittenIsNotFree`; `direct-messages.e2e-spec.ts:39` expects the opposite), although
  the server then refuses it.
* "Não há dois sítios onde o mudar" (`save-content.use-case.ts:93`): the price of an
  unlock offer can be changed as an offer too, until its content is saved again
  (`OnePlaceForThePrice`).
* Content that is no longer on sale keeps its unlock offer ACTIVE.
* Two answers to a review that overlap replace one another.
* A verification that is approved and rejected at once can end with a level and a row
  that disagree.
* Settings are written back whole by a request that read them earlier.
* Two requests that read a booking before either closes it give its slot back twice, and
  one that saves it after it was closed takes it back without the slot: the window then
  shows a slot more than it has (`ReleaseSlot`, `SaveBooking`).
* A request for a private file asks its questions one after the other. What is withdrawn
  while it runs, after the question that would have found it, is served once more.
* A window cannot be deleted once any deal referred to it, an ended one included;
  `WindowAlreadyStartedError` is never thrown; `hasBookableSlots` counts the windows of
  paused offers.

*The screens*

* The note of the state of an order (`estado/page.tsx:121`) says that the value is held of
  every status without a line of its own: of deals that were declined, expired or refunded
  too, paid or not, under a line that says the opposite (`NoteTellsTheTruth`).
* The page of a delivery says that it was approved and the value released in every status
  but DELIVERED (`entrega/page.tsx:131`, `:222`). The buyer who sends the work back finds that
  there, although the same page has just said that the money stays held (`:236`), and so does
  the one who took the money back (`DeliveryPageTellsTheTruth`).
* No screen exists for a COUNTER_OFFERED deal.
* The button to approve is offered under an open dispute, and the server refuses it.
* `entregar/page.tsx` does not ask who is looking: a buyer who opens it is offered to accept,
  to decline and to deliver, and refused by `requireCreator`.
* The page of the delivery tells the creator that it was approved also while it waits for the
  buyer (`podeAprovar` asks for the buyer's role).
* A proposal whose time is over, and that the sweep has not closed yet, can be accepted on
  the screen and not on the server.

## 5. Proofs

`tlapm M.tla` for each module `M` whose name ends in `Proofs`. Every safety invariant and
every action property of the passing runs is a theorem, for every value of the constants
that the assumptions allow, with one exception (`ScreensTellTheTruth`, below).

**Assumptions**, named in the modules that declare the constants: the fee is in 0..10000;
windows, prices and days are natural numbers; `BuyerOf`, `CreatorOf` and `DealPaid` are
functions; `Deals` and the tables that reconciliation reads are finite; the buyer is not
the creator; a payout and a deal have different ids (each row has a UUID of its own); and
`"none"`, which stands for null, is the id of nothing. Numbers of deals, payments,
requests, transactions, processes and passes are otherwise arbitrary.

Each proof has an inductive invariant, which was model-checked on a small instance before
it was proved, a lemma per action (or per group of actions that do the same to it)
and a step that collects them.

### Deals, one use case at a time

`SplitLosesNothing` proves RN-042 for every price and fee: the parts are natural and add
up to the amount, because the remainder of the division goes to the first part.

The invariants of `DealLifecycle` rest on `IInv`:

* `TypeOK` and `StatusAgreesWithEscrow`, which alone are almost inductive;
* `DealsSound`: the amounts of every row are the split of its price, so that the release
  adds up and the settlement of a counter-offer is a difference of totals;
* `Books`: the escrow, refunds, creator and fee accounts of a deal as a function of its
  row and of what was captured. `EscrowMatchesDeal` is not inductive without it: a refund
  takes `amount` out of the account, and only `Books` says that this empties it;
* `IntentsSound` and `OffersSound`: an active first payment is for an unpaid proposal of
  the same amount, a deal under counter-offer has the one offer that waits, and rows in
  use name real deals.

`DealStepsProofs` builds on it. `EveryStepIsAMove` says that a step of `Next` moves one
deal at most, and in one of eleven ways (`Opens`, `Talks`, `Renegotiates`, `IsPaid`,
`Unlocks`, `Ends`, `Delivers`, `SendsBack`, `Approves`, `Refunds`, `Argues`), each with
the two statuses before and after and what flows into and out of the ledger. Everything
else about deals is then shown move by move:

* `QuestionsMatchTheDeal`, with `DeliveriesSound`: deliveries are counted by the
  revisions, and only content is paid without one;
* `NoReleaseUnderDispute`: of the moves only `Approves`, which asks, and `Unlocks`, of a
  deal too young to be disputed (`DisputesSound`), release;
* `SlotsTakenByBookings`: the moves change the set of bookings that stand, and its
  cardinality, by the one that the counter changes by;
* `ContentIsPaidOnce`: each buyer with a grant has exactly one deal behind it
  (`GrantsSound`);
* `ImplementsEscrow`: a move is a step of `Escrow` on the box of its deal under the
  mapping of `DealEscrow`, or leaves all boxes alone. What the step needs from outside the
  move is that the amount is one the deals can have (`AmountsSound`).

`CapturedMoneyIsAccountedFor` is about payments, which no move mentions, and has a
reduction of its own: a step captures one intent and books it on its deal (`Captures`),
records a notification and flags it if it is a capture (`Notes`), or does neither (`Quiet`).
Nothing is assumed of what the provider sends: several captures of one intent, of any
amount and in any order, each come to be recorded, and the status of the intent is what
lets one of them into the books. With `IInv` the property is then inductive as it stands. That the clearing account stays the sum of the
captured intents uses the lemmas of `SumProofs`.

`KeysAreAlwaysFresh` has no run: whenever the rows allow a posting, its key is new, so
the unique index of `ledger_transactions` refuses nothing that the statuses would let
through, as long as use cases run one at a time. `DealTransactions` is where the index is
needed.

Of `ScreensTellTheTruth` two parts are proved. `ScreensAlwaysSayTheTruth` is
`WhatIsShownIsTrue`, for fees under a hundred per cent: with the whole price as its fee, a
deal that was paid shows "with the creator" over an account that received nothing. It says
of every state that the line beside the amount (`ondeEstaODinheiro`) and the note of the next
step are so, and of the other two pages in which states they are: the note of the order until
the deal closes unpaid, the page of the delivery while one waits or was approved. The rest is
refuted (`NoteTellsTheTruth`, `DeliveryPageTellsTheTruth`, section 4).
`ButtonsAreAlwaysAdmitted` is `ButtonsAreAccepted` with the guards of each handler written
out (`Admits`) in the place of `ENABLED`, which the prover cannot reason about; that the
guards are all that `ENABLED` asks is what the run checks.

Of the three liveness properties the safety half is proved: that at every moment what the
fair steps wait for can be done. `DeadlinesAreAlwaysServed` says that whoever waits has a
deadline (`Dated`), and that when it falls the sweep finds nothing against closing the
deal, and against approving work nothing but a dispute. The exception is `IsCostFree`, a
funded deal that was renegotiated to nothing, and there is none unless a price is zero:
the prices of `lifecycle_live` leave zero out for that. `CapturesAlwaysLand`
says that a capture which is not for flagging can be booked at once, and names the three
that cannot (`IsKeptWaiting`); two end with the sweep, and the top-up of a closed deal is
the one of section 4. It needs that no payment was asked for nothing
(`PaymentsArePositive`), because a release of nothing is refused. That fair steps that are
always possible are taken in the end is left to `lifecycle_live`.

### Deals, in transactions that overlap

The invariant of `DealTransactions` is about memory: a transaction saves a row it read
long ago, so every row in memory must be one the table may still rely on (`InMemory`). Its
terms are those of the deal, which never change here; its escrow status is the one it was
read with, which postings back for ever, or one that its own commit posts (`Follows`).
With `BooksFollowPostings`, which gives each account as a function of the deal's postings,
this is inductive. `PaymentsAreSingle` has an invariant of its own (`PaymentsSound`): a
deal has a captured intent exactly when it was funded, and a transaction that captures has
looked that intent up at its own deal (`LooksUp`).

That is all the database gives. `DealOverwrites` asks what goes wrong then, and how, and
the answer is proved for any number of transactions, one deal at a time:

* what a transaction has in memory is what one method of `Deal` makes of the row it read
  (`MemoryIsPrepared`, one case for each use case in `Prepared`);
* so a commit that finds that row still there (`Lands`) is one step of `DealLifecycle` on
  its deal, however long ago it read and whatever other deals did meanwhile, and a deal
  whose commits all land keeps `Fits`: its statuses agree, the escrow account is worth it,
  it is not both released and refunded, and its deliveries are counted. This needs that
  terms are priced (`TermsArePriced`) and that an unused id has no deliveries (`UnusedIsUndelivered`);
* what does not land and saves the deal puts it in `overwritten`, and nothing is claimed of
  it any more. Slots are shared, so they are claimed only while the set is empty
  (`SlotsFit`).

`SoundUnlessEverOverwritten` and `EscrowUnlessEverOverwritten` follow; `BoxStep` shows that
each commit is a step of `Escrow` on the box of its deal. `WithoutOverwritesDealsAreBoxes`
puts it the other way round: if no deal is ever saved over a row that was not read, which
is what a version column in `deals.save` would give, overlapping use cases implement
`Escrow` as sequential ones do.

### Withdrawals

For any number of overlapping transactions, `IInv` joins the types, the fact that rows in
memory name real creators, `ReservationIsCovered` (who is about to reserve holds the lock
and a sufficient balance) and `NeverOverdrawn`. The step that needs it is the commit of a
request: between check and commit others may add to the balance but only a holder of the
lock may take from it. `KInv` adds what a cancellation needs: it has read its payout under
the lock that any decision must take (`CancelsAreCurrent`).

With one transaction at a time (`"payouts alone"`), what the open transaction read is
still so when it commits (`OpenIsCurrent`), every posting that ends a reservation goes
with a status that ends the payout (`EndingsAreFinal`), and the reserved account is a sum
over the payouts that hold money (`Reserves`). `OpenIsCurrent` is what overlapping
decisions break, in the run `payout_paid_and_returned`.

`SumProofs` says what `MapThenSumSet` gives when a row enters the set, leaves it or
changes. The definition is recursive over sets; the induction theorems take an operator
as parameter and cannot be used, so the unfolding is proved by a smallest counterexample:
strict inclusion is well founded among the subsets of a finite set (`SmallestSet`).

### Background work

*Outbox.* `SentOnce` rests on the log: `LogGuardsTheChannel` says that the channel was
given a key only if it is in the log, once at most, and that the one process about to send
it is the one that put it there and has not sent it. A process that dies between the two
leaves the key in the log, and so the notice is lost rather than sent again.
`ProcessedReachedEverybody` and `NightIsSilent` follow a pass (`PassIsSound`): the notices
of its event that are not left to do are recorded or were skipped, and the hour it began
at is one when that event may go out.

*Reconciliation.* The index that keeps one open finding sees only what is committed. What
carries the property is that an insertion waits for the other passes: what a pass under
way has inserted is open nowhere and inserted by no other (`NewAreNew`).

### The smaller modules

One invariant each, in `DesksProofs`:

* *Direct messages*: who has passed the check holds the lock of the conversation
  (`LockIsExclusive`), and what the check saw is still so (`CheckedHolds`): between check
  and commit nobody else writes there.
* *Accounts*: whoever asks for something or was verified has an account, so creating one
  takes no level away; a reviewer who is late is one of two who decided at once
  (`LateReviewsAreTorn`).
* *Conversations*: a request saves the row it read over what was saved since, and the
  invariant says why this undoes nothing (`RowsReadAgree`): a conversation that was over
  when the day began does not change that day, and one that closes is not over that day.
* *Reviews*: an answer under way to a review that has one was under way when that one was
  written (`LateAnswersAreKnown`).
* *Catalogue*: a change of a profile that nobody overtook holds the settings the profile
  has (`UnlessStale`).
* *Media*: the file of an upload that has not ended is there, has no row and belongs to no
  other upload (`UploadsAreFiles`), so a failed one takes nobody else's file away.
  What is left of the reasons against a reading is against it now (`ReadingIsChecked`), so
  a step that finds no such reason leaves none; `Checked` says which are excluded in each
  phase, given what the content read earlier decides.
* *Agenda*: a booking has its window, a window about to be opened is under an id that no
  booking has (`NewWindowsAreFree`), and a request about to close or save a booking names
  one that is there (`PlannedAreThere`). The slots are counted (`SlotsAreCounted`): each
  step changes the bookings that stand and the counter of their window by the same one, or
  marks the booking it wrote over.

Each theorem is about the specification of its module. `EachDeskRunsItsOwn` shows that a
behaviour of `MCDesks` is one of each of the eight, and `EveryDeskKeepsItsWord` concludes
that the composition, which is what the run explores, keeps all of their properties.

### Theorems

| Module | Theorem | States |
|---|---|---|
| `DealMoneyProofs` | `SplitLosesNothing` | RN-042, of `SplitFees` |
| `DealLifecycleProofs` | `TypeCorrect` | `[]TypeOK` |
| | `EscrowAlwaysMatches` | `[]EscrowMatchesDeal` |
| | `MoneyAlwaysGoesToItsOwner` | `[]MoneyGoesToItsOwner` |
| | `StatusAlwaysAgrees` | `[]StatusAgreesWithEscrow` |
| | `InitialIntentsAlwaysLand` | `[]InitialIntentsCanStillLand` |
| `DealStepsProofs` | `QuestionsAlwaysMatch` | `[]QuestionsMatchTheDeal` |
| | `NeverReleasedUnderDispute` | `NoReleaseUnderDispute` |
| | `SlotsAlwaysTakenByBookings` | `[]SlotsTakenByBookings` |
| | `ContentAlwaysPaidOnce` | `[]ContentIsPaidOnce` |
| | `CapturesAlwaysAccountedFor` | `[]CapturedMoneyIsAccountedFor` |
| | `DealsImplementEscrow` | `ImplementsEscrow` |
| | `KeysAreAlwaysFresh` | `[]KeysAreFresh` |
| | `ScreensAlwaysSayTheTruth` | `[]WhatIsShownIsTrue`, fees under 10000 |
| | `ButtonsAreAlwaysAdmitted` | guards of the buttons that are offered |
| | `DeadlinesAreAlwaysServed` | `[]DeadlinesAreServed`: guards of the sweep |
| | `CapturesAlwaysLand` | `[]CapturesLand`: guards of the handler of captures |
| `DealTransactionsProofs` | `TransactionTypesCorrect` | `[]TypeOK` |
| | `EscrowStatusIsAlwaysBacked` | `[]EscrowStatusIsBacked` |
| | `NothingIsEverPaidTwice` | `[]NothingIsPaidTwice` |
| | `PaymentsAreAlwaysSingle` | `[]PaymentsAreSingle` |
| | `SoundUnlessEverOverwritten` | `[]SoundUnlessOverwritten` |
| | `EscrowUnlessEverOverwritten` | `EscrowUnlessOverwritten` |
| | `WithoutOverwritesDealsAreBoxes` | `Escrow` is implemented if no deal is overwritten |
| `PayoutsProofs` | `PayoutTypesCorrect` | `[]TypeOK` |
| | `ReservationsAreCovered` | `[]ReservationIsCovered` |
| | `CreatorsAreNeverOverdrawn` | `[]NeverOverdrawn` |
| | `DecisionsAreNeverCancelled` | `CancelNeverOverwritesADecision` |
| `OperationsProofs` | `OutboxTypesCorrect` | `[]TypeOK` |
| | `NoticesGoOutOnce` | `[]SentOnce` |
| | `ProcessedAlwaysReachedEverybody` | `[]ProcessedReachedEverybody` |
| | `NightIsAlwaysSilent` | `NightIsSilent` |
| | `ReconciliationTypesCorrect` | `[]ReconciliationTypeOK` |
| | `OneFindingIsEverOpen` | `[]OneOpenFinding` |
| `DesksProofs` | `WeeklyLimitHolds` | `[]FreeMessagesAreAWeekApart` |
| | `NobodySharesOrQueuesTwice` | `[]OneAccountOnePending` |
| | `LevelIsAlwaysDecided` | `[]LevelIsDecided` |
| | `ConversationIsAlwaysOnRecord` | `[]ConversationIsOnRecord` |
| | `AcceptedReviewsStay` | `WhatIsPublishedStays` |
| | `PriceAlwaysFollowsContent` | `[]PriceFollowsContent` |
| | `HiddenProfilesStayHidden` | `HiddenUntilShown` |
| | `MediaAlwaysHaveTheirFiles` | `[]EveryMediaHasItsFile` |
| | `NothingWithdrawnIsServed` | `[]WithdrawnIsNotServed` |
| | `AgendaAlwaysHolds` | `[]WindowsAreKeptAndShown` |
| | `AloneTheBooksAlwaysAgree` | `[]AloneTheBooksAgree` |
| | `DesksTypesCorrect` | `[]DesksTypeOK` |
| | `EveryDeskKeepsItsWord` | all of the above of `MCDesks` |

**Only model-checked**: liveness under fairness, which is out of this prover's reach
beyond the two theorems on what its steps wait for (`UndecidedDealsAreDecided`, `DeliveriesAreAnswered`, `InitialCapturesAreAnswered`,
`EventsAreProcessed`, `FoundUnlessClogged`), the `ENABLED` of `ScreensTellTheTruth`, and
the violations of section 4.

## 6. Not modelled

* The batch limit of the sweep and the order of its list: an instance with more deals than
  a batch is out of TLC's reach. The same holds for the 200 rows of a query of
  reconciliation and the 100 events of a pass of the outbox.
* The call to the gateway apart from the write of the intent, and the answer `CAPTURED`,
  which the port allows and the only gateway in the code never gives.
* Renegotiation, top-ups and the unlock of content in transactions that overlap: they run
  one at a time, in `DealLifecycle`.
* Validation of requests, wording, error mapping, presenters and dashboard counters: they
  keep no state. Rendering and the other screens of the web application.
* Migrations, seed data and the design files under `src/design`.
* The providers of mail, SMS and push, the bytes of a file and the signature of a link.
* The production session (DP-01), which does not exist yet: only the development one does.
