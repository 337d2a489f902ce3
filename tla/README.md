# Lucky Plan: models, checks and proofs

The repository is the back office of a furniture shop that sells on instalments: a Django backend
(`backend/`, PostgreSQL, one database transaction per request through `ATOMIC_REQUESTS`, Celery for
the daily jobs), a Next.js frontend and many documents. Its own core is the *Lucky Plan*: customers
enrol in a batch, each with a Lucky ID and a schedule of monthly instalments (EMIs); draws pick
winners, whose future EMIs are waived. This directory models that core in TLA+, together with the
parts around it where concurrency, retries and failures decide what happens: collecting money over a
network, paying out commissions, the daily jobs and the live counters of the dashboards. TLC checks
the models on small instances; TLAPS proves every safety property and every
action property that the passing runs check for instances of any size.

## The system

| component | state | operations | interacts with |
|---|---|---|---|
| Batch and Lucky IDs (`lucky_plan/`) | `Batch.status`, `LuckyId.status` | status transitions, lock, release of a Lucky ID | enrolment fills it, draws read it |
| Enrolment (`contracts/services/subscription_service.py`, admin serializer) | `Subscription` (status, lucky_id, winner_month), `Emi` rows | two enrolment routes, admin edits of Lucky ID and product, cancel, close | every `Subscription.save` rewrites its Lucky ID |
| Payments (`payments/services/payment_service.py`) | `Payment`, `FinancialLedger`, `Emi.status` | record, reverse, reconcile | recomputes the status of EMI and subscription; creates commissions |
| Draws (`lucky_plan/services/`) | `DrawCommit`, `LuckyDraw`, `DrawEligibilitySnapshot` | legacy commit, lock, coordinated commit, reveal, direct winner, repair | waives EMIs, marks subscription and Lucky ID |
| Commissions (`commissions/`) | `Commission`, `CommissionPayoutBatch`, lines | create with a payment, reverse, settle, payout batches | created and reversed by payments |
| Collection (`contracts/services/contract_reference_service.py`, `services/collection_router.py`; the forms of the frontend) | `UnifiedCollectionIdempotency`, keys and references of payments | submit, time out, submit again; recognise, replay, post | calls `record_emi_payment` |
| Daily jobs (`system_jobs/`, `reminders/services/emi_reminder_jobs.py`) | `SystemJobLog`, reminders, admin notifications | beat, take, run under a key, report failures | read the EMIs |
| Realtime notifications (`frontend/src/lib/realtime.ts`, the stream view) | one event stream per page, single-use tickets | subscribe, leave, reconnect, poll | shows the server's counts |
| Customer advances, cash counters, day close, receivables (`payments/`, `settlements/`) | balances, shifts | collect, allocate, close | payments |
| Rent and lease (`contracts/services/rent_lease_*`) | demands, deposits | bill, collect, settle, return | own ledger |
| Inventory, deliveries, manufacturing, procurement | stock ledgers, reservations | reserve, issue, return | direct sales, contracts |
| Billing, accounting, reconciliation | invoices, credit notes, journals | post, reverse | everything financial |
| CRM, service desk, growth, PIM, AI, privacy, other pages | their own tables | CRUD and reports | read the core |

What makes the core hard is that the same facts are written by many services. The status of a
subscription is rewritten by payments, reversals, draws, cancellation, closing, a repair that runs
on reading a page, and a command; its Lucky ID is rewritten by every save of it; a win is recorded in
four tables; draws can be made by a monthly ("legacy") route and by a coordinated route on the same
batch. Requests of different clerks interleave at transaction grain, and inside a transaction at the
grain of its row locks. Around the core, requests are late, lost or sent again; workers are killed
in the middle of a run; an answer overtakes an event.

### What makes each component correct

* Lucky IDs: for sale exactly when nobody holds them, held by one subscription at most.
* Payments: the ledger of an EMI is the sum of its unreversed payments and stays in 0..amount; the
  EMI is PAID exactly while it is covered.
* Schedule and status: a subscription that did not win is completed exactly when everything is
  settled; a winner stays WON (the rulebook) or is completed as well (the code).
* Draws: a commitment is kept, a revealed draw is final, the winner of a coordinated draw was frozen.
* Waivers: only future pending EMIs, posted once, never undone.
* Commissions: a reversed payment earns nothing; a settlement happens once and leads to its payout.
* Collection: a key or a reference stands for one payment; success stands for a recorded payment.
* Daily jobs: one run per key; SUCCESS means the whole job; failures are reported; nothing is
  forgotten for ever.
* Realtime: one stream while anybody listens, none otherwise; who stays comes to see the count.

## Modules

| module | models | correspondence |
|---|---|---|
| `PlanRules` | the shared rules: batch transitions, EMI and subscription status resolution, what a save writes on the Lucky ID | one operator per function; `PROJECT.json` maps each to its lines |
| `LuckyPlan` | one batch with everything in it | each variable is a column, each action one committed transaction of the endpoint, service or command it is named after |
| `SumTheorems` | what `SumFunction` of the community modules adds up to, for any finite domain | cited by the three modules that keep sums |
| `LuckyPlanProofs` | the inductive invariants `PlanInv` and `LedgerInv` and what follows from them | EXTENDS `LuckyPlan` |
| `LuckyDrawProofs` | proofs about waivers and draws | EXTENDS `LuckyPlanProofs` |
| `EmiTransactions` | payments, reversals and reveals of one subscription, statement by statement | each action is a statement that reads or locks rows, `txn` what a transaction holds in memory and has written; instantiates `LuckyPlan` as its abstract specification |
| `EmiTransactionsProofs` | that its commits are atomic steps of `LuckyPlan`, and what EMIs and ledger agree on | EXTENDS `EmiTransactions` |
| `CommissionPayout` | commissions, payout batches, and the reversals beside them | a request that decides on locked rows is one action, the two that decide on unlocked reads are two |
| `CommissionPayoutProofs` | its invariant and properties | EXTENDS `CommissionPayout` |
| `OncePerJob` | what an idempotency key promises | abstract specification |
| `CollectionRequests` | three kinds of client, requests that are late, lost or repeated, lookups and commit of the server | client actions are what the form does, server actions the two halves of a request's transaction; instantiates `OncePerJob` |
| `CollectionRequestsProofs` | its invariant, the refinement, the balance of an EMI, what success stands for | EXTENDS `CollectionRequests` |
| `RealtimeChannel` | the module variables of `realtime.ts`, the generator of the stream view, the REST fetch | one action per callback |
| `RealtimeChannelProofs` | its invariant and properties | EXTENDS `RealtimeChannel` |
| `DailyJobs` | beat, broker, workers, the log row of a key, the job's transaction, midnight, an admin's own run | one action per statement that another process can come between |
| `DailyJobsProofs` | exclusion, completeness, reports, the bound on duplicates | EXTENDS `DailyJobs` |
| `MC...` | the instances TLC checks | values for the constants, symmetry |

### LuckyPlan

Abstractions, and why they lose nothing the properties tell apart:

* One batch: no operation of these services reads another batch.
* All EMIs of a schedule have the amount `EmiAmount`; the code's rounding puts the difference on one
  instalment, and no rule compares two instalments.
* Stored `waived_amount` is recomputed by each of its writers from the EMIs, so it is not a variable.
* `DEFAULTED` and `OVERDUE` are declared in the enumerations and assigned nowhere; their branches are
  left out. The statuses of rent and lease contracts do not occur in a batch.
* The seed and the hash of a draw pick one of the eligible: a nondeterministic choice here.
* Verification of a payment, the audit log, events, notifications, accounting postings and delivery
  follow-up write rows none of these rules reads.
* The generic admin viewsets that edit single Lucky ID, EMI, draw and payment rows are left out: an
  administrator can write any value there, and no property survives that.
* `LuckyPlan` takes whole transactions as steps. `EmiTransactions` shows for which transactions
  that is right and for which it is not.

### EmiTransactions

It follows PostgreSQL's READ COMMITTED: a statement sees what was committed before it and the writes
of its own transaction; a row one transaction locked or wrote makes the next writer wait. The row
locks of the code decide everything:

* a payment takes `select_for_update().select_related("subscription", ...)`, one statement that locks
  the EMI and its subscription;
* a reveal locks the draw, the subscription, its Lucky ID and all its EMIs;
* a reversal locks only the payment row. It reads the EMI, its ledger and the subscription without a
  lock, and locks the last two rows as it writes them.

So payments and reveals of one subscription are serialised by the subscription row, and each commits
exactly a step of `LuckyPlan`, whatever order their statements run in; so does a reversal that
overlaps nothing. This is `CommitsAreAtomic`: the rows, read as a `LuckyPlan` batch of one
subscription, change by its `Next`, except at the commit of a transaction that overlapped another
when one of the two was a reversal. The auxiliary field `mixed` records that overlap, and no action
reads it. Reversals are not serialised with the others, and the first finding below shows what
follows. `EmiCoveredWhenPaid` says what is left of the agreement of EMI and ledger: a reversal finds
less than the amount on its EMI, there is no PARTIAL status, and so it writes PENDING or, meeting a
waiver, nothing. On an EMI whose month no draw has reached (`NeverWaived`) the two always agree; on
another they need not (*Paid and not covered* under Findings), and an EMI of three units is the
smallest that shows it.

Abstractions: the reads a statement makes together are one read (the two ledger sums; the EMIs and
the Lucky ID of `_refresh_subscription_status`); a statement takes all its locks together, so a
deadlock is not a state here and its victim is a `Rollback`; the foreign key checks PostgreSQL defers
to COMMIT are left out (they can only delay a reversal); a reveal uses the live eligibility of the
legacy route. Cancelling, direct winner execution and the reconcile command are not transactions of
this module. `Init` is a sold-out batch with its draws committed, which `LuckyPlan` reaches.

### CommissionPayout

A payment earns one commission, so a payment stands for its commission. Finalising a batch locks the
batch row and checks commissions it has only read; reversing a payment locks the payment and saves a
commission object loaded before. Both are two actions, with what they read kept between them in
`finalizing` and `reversing`. Everything else decides on rows it holds locked and is one action.
Amounts, partners and the batch total are kept; dates, references and audit rows are not.

### CollectionRequests

A *collection* is money handed over once. `view` is its form, `attempt` counts its submissions, and
a request is a pair of the two, so that a late request is still there while the next one runs.
`StopWaiting` is the time-out of the cashier page and any broken connection. A request's transaction
is its lookups (`ReplayStored`, `Recognize`, `Reject`, `Start`), made without a lock, and its commit
(`Post` or `Fail`) behind the lock of the EMI and the unique constraints on keys and references.
`OncePerJob` is the promise of an idempotency key; a client that repeats its key implements it.
Method, finance account and date are taken as equal, so requests differ in user, client, EMI, amount
and reference. Two behaviours of the code are in the model as they are: the unified layer replays a
stored answer even when the payment was reversed since, and the fallback key of a form without
`crypto.randomUUID` (`collection_router.py:97`) takes two equal payments of a day for one.

### RealtimeChannel

The variables are those of `realtime.ts` and of the generator, the actions its callbacks: subscribe,
leave, timer, ticket granted or refused, stream end and error, and on the server accept, poll and
the last poll at the deadline. An `await` separates `Connect` from `TicketGranted` and `TicketFails`:
subscribers can leave and return in between. Timers and streams take no particular time. The count
only grows, and a subscriber's REST answer can arrive after the stream has shown a newer count.

### DailyJobs

One job (overdue reminders) under `run_idempotent_job`. The log row of a key is locked or inserted by
the transaction that runs the job, so the PENDING and RUNNING states are never visible and `Held`
makes the next worker wait. A run can end well, raise half way (`Raise`: what it wrote is committed
with a FAILED log and reported to every admin), lose its transaction (`Abort`), or be killed
(`Crash`). `NextDay` renames today's key to yesterday's; a task is stopped after an hour, so no run
outlives the next day and two keys are enough. The date is read when the task starts, so a message
delayed past midnight runs under the next day's key. The other tasks share the runner; the job for
EMIs due today asks for `due_date = today` and, unlike the overdue job, never makes up for a day it
missed.

Two auxiliary variables record what was lost, and no action reads them. `killed` has the keys of which a
run was killed and none succeeded since; `KilledRunRetried` is about them. `silenced` has the keys of
which a worker was killed while it reported a failure; a later failure of the key, which is told to
every admin anew, takes it out. `FailureReachedAdmins` excepts the silenced keys and no others: a run
killed at any other point does not excuse a missing report. What happens to a silenced key is told
under Findings (*A report that is lost*).

## Runs

| run | instance | what it shows |
|---|---|---|
| `plan_core` | 2 subscriptions, 2 Lucky IDs, 2 payment rows, 2 months, EMI of 2 | types, Lucky IDs, ledger, statuses, waivers posted once and for good, on EMIs that may be paid in part too |
| `plan_draws` | 3 subscriptions for 2 Lucky IDs, 1 payment row, 3 months, EMI of 1 | wins, waivers, the two draw routes |
| `txn_interleaved` | 3 sessions, 3 payment rows, 2 months, EMI of 3 | EMI and ledger agree and no payment is counted or reversed twice, reversals included; refinement of `LuckyPlan` for every commit no reversal overlapped |
| `txn_waived_forever` | 2 sessions, 2 payment rows | *violated*: a reversal writes PENDING over a waiver |
| `commission_payout` | 3 payments of 2 partners with different commissions, 2 batches | reversals, settlements and payouts agree |
| `payout_paid_once` | the same | *violated*: a commission is settled by hand and paid by a batch |
| `collection_requests` | 2 collections of 2 submissions each, 3 kinds of client and the form without a UUID, 2 EMIs of 2 | no EMI over-collected, one payment per key and reference, success stands for a payment, refinement of `OncePerJob` |
| `collection_resubmitted` | 1 collection, 2 submissions | *violated*: the same money is recorded twice |
| `realtime_channel` | 2 subscribers, 2 stream names, a count up to 2, 2 failures, 2 events on their way | one connection, none without subscribers; who stays sees the count in the end |
| `daily_jobs` | 2 EMIs, 1 admin, 2 workers, 2 faults, 1 waiting message | one run per key, SUCCESS only for the whole list, notices only with the reminders |
| `daily_jobs_live` | 1 EMI, 1 admin, 2 workers, an admin's run, 2 faults | bounded duplicates, failures reported unless a report is cut off, nothing forgotten for ever |
| `killed_run` | 1 EMI, 1 admin, 2 workers, 1 fault | *violated*: nothing retries a killed run on its day |

Bounds. An EMI of 2 units is the smallest with a partial payment, two payment rows the fewest for a
split payment and its reversal; where statements interleave the EMI has 3 units and there are 3 rows,
so that two part payments can be on their way back while a third completes what they left. Two months are the fewest in which a win leaves something to waive;
three let a later draw fall on a subscription that won before. Three subscriptions for two Lucky IDs
let an ID be released and sold again, and leave somebody without one. Two sessions are the fewest
that race; a third lets a payment and a reveal both pass a reversal. Two commissions of one partner fill one batch together and a
third, of another partner, cannot join them; two batches are the fewest that compete for a line, and
commissions of 1, 2 and 3 make a wrong total show. Two submissions are a retry; two collections let
a retry meet another cashier, and the form of each can be any of twelve intents, part or full, with
and without a reference. Two stream names let a stream be replaced while the old one closes; two
failures let a ticket and a stream fail in turn. Two workers are the configured concurrency's
smallest race; two faults kill or fail a run and then its repetition; a second EMI lets a run fail
between two reminders, and since EMIs do not interact otherwise the liveness run makes do with one.

`MaxAttempts`, `MaxCount`, `MaxFailures`, `MaxSent`, `MaxMessages`, `MaxRuns` and `MaxFaults` are the
only counters that had to be bounded, each in the guard of the action that uses it up. They bound
what the surroundings do, never what the program does: `MaxSent` delays a poll until events have been
delivered, as the flow control of the connection does. Symmetry over rows, sessions and collections
is sound because actions only compare them; the runs with liveness use none. `CHECK_DEADLOCK FALSE` is
used where everything may really be over: a batch closed and settled, forms closed, payment rows,
attempts or faults used up. `realtime_channel` checks for deadlock.

Fairness. Draws, payments, closings, payouts and collections are requests of people, and the code
schedules none of them: `LuckyPlan`, `EmiTransactions`, `CommissionPayout` and `CollectionRequests`
assume no fairness and claim no liveness. Two modules do.

* `RealtimeChannel`: timers fire, a ticket request is answered, a stream on the server is accepted and
  reaches its deadline (`LastPoll`), events are delivered, REST answers arrive: weak fairness of each.
  Subscribing, leaving, a changed count, an ordinary poll and every failure are not fair. The planned
  end of a stream is what brings a page that was overtaken by a late REST answer up to date.
* `DailyJobs`: days pass, beat (which systemd restarts) sends what is due, a worker that is not killed
  goes on, a request ends: weak fairness of `NextDay`, `Beat`, `Work(w)` and `DeskWork(k)`. None for
  raising, aborting, being killed, falling overdue, being paid, or starting a run by hand. Faults are
  finite in number, so that a worker that is killed every day for ever is excluded and no more.

## Proofs

Every theorem holds for all values of the constants that satisfy the assumptions named beside their
declaration: any number of subscriptions, Lucky IDs, payments, months, sessions, batches, requests,
subscribers, workers and faults. The assumptions say that such sets are finite, as rows of a table and
processes of a machine are, that amounts and bounds are natural numbers, and that the null values lie
outside the sets they stand beside.

**`SumTheorems`** is what the proofs about money rest on. `SumFunction` is a fold over a set, so what it
returns would be an induction over finite sets, whose theorem in the library takes an operator as a
parameter, which is out of reach. The module goes another way: a sum is described by a function on the
finite subsets of its domain that takes one chosen element off at a time (`PartUnfolds`), and that the
choice does not matter is shown on a smallest subset where it would (`SmallestSubset`), which exists
because a finite set has no endless descending chain of subsets. The theorems that others cite are `SumWithOneMore`,
`SumWithOneLess`, `SumIsInteger` and `SumOfNaturals`.

**`LuckyPlanProofs`** proves `Spec => []PlanInv`. `PlanInv` joins the type invariant,
`LuckyIdAvailability` and `WinnerRecordsAgree` with three strengthenings:

* `ScheduleDecidesStatus`: `StatusMatchesSchedule` for winners as well, as the code has it: WON while an
  EMI is open, COMPLETED when none is. It describes the code and is not claimed to be right of it.
* `PaymentsNamed`: a recorded payment names an enrolled subscription. Without it the reversal of a
  payment could reconcile a subscription that does not exist.
* `EnrolmentShape`: before enrolment a subscription holds nothing and its schedule is pending, and
  only a cancelled one may lack a Lucky ID.

`StatusMatchesSchedule` follows from the first; none of these properties is inductive alone. That a
save never downgrades a winner's Lucky ID needs `WinnerIsRecorded` (a subscription counts as a winner exactly when its winner_month is set),
which needs that no two subscriptions share a Lucky ID; that the Lucky ID can be edited away from
no winner (`EditableNotWon`) needs that statuses match schedules. Payments, reversals and the
reconcile command go through one lemma, `FollowStep`; every win goes through `WinStep`; the steps of
the batch through `BatchStep`.

`LedgerInv` then joins `LedgerMatchesPayments` and `PaidExactlyWhenCovered`, which need each other: a
payment that is reversed is one of those the ledger sums, so the ledger is at least its amount and
less than the whole afterwards, which is why the EMI that becomes PENDING was right to. Every step is a
payment, a reversal or a step that leaves ledger and payments alone.

**`LuckyDrawProofs`** first shows what a step can do to a waiver (`WaiverEffect`: leave it, or grant
it to a pending EMI of a later month) and derives three properties from it. `DrawInv` adds to the two
properties of draws that there is no snapshot before the lock and that only the draw of month 1 is
coordinated; `DrawsAreFinal` follows from both invariants.

**`EmiTransactionsProofs`** proves `CommitsAreAtomic`, that interleaved transactions implement
`LuckyPlan`, from `TxnInv`. Its three parts are the types; `Serial`: a payment and a reveal hold the
subscription row from their first statement, so no two of them overlap, and where one of two
overlapping transactions is a reversal both are mixed; and `FaithfulRow`: a transaction that runs and
is not mixed is alone, so what it has read is still what the rows hold, and what it has written is
what `LuckyPlan` would write from them. Statements before a commit leave the rows alone and keep a
transaction faithful (`GoesQuietly`, `BeginsQuietly`, one lemma for each statement); the commit of a
faithful transaction is then `RecordPayment`, `ReversePayment` or `RevealDraw` of `LuckyPlan`
(`PaymentIsAtomic`, `ReversalIsAtomic`, `RevealIsAtomic`). `SerialWithoutReversals` draws the
conclusion for a plan whose payments are never reversed: there every step is one of `LuckyPlan`.

What EMIs and ledger agree on at every statement, reversals included, needs a second invariant,
`CoverInv`, about what each transaction in flight will write. A payment owns its EMI from its first
statement: the EMI stays open, what the payment adds still fits, and the status it has computed is the
one of the ledger it will leave (`PaymentOwnsEmi`). A reversal writes PENDING under the lock of the
row, or nothing at all, and then a draw has reached the month (`ReversalWritesPending`). A reveal holds
all EMIs (`RevealHoldsEmis`), and no two transactions hold a row or a payment together
(`LocksExclude`). Three lemmas of a commit (`PaidOnAdds`, `PaidOnSubtracts`, `PaidOnBounds`) tie the ledger
to the sum of the payments that stand; `EmisCovered` and `LedgerSums` follow.

**`CommissionPayoutProofs`** proves `PayoutInv`: the three invariants with `RequestsHold` (a batch being
finalised is a draft that keeps its lines; a payment being reversed is not reversed yet, and what its
request loaded of a missing or reversed commission, or of one a batch settled, is so still) and
`LinesHeld` (lines are held by live batches, and a draft has the total of its lines). These say that
the reads made before the locks are harmless, for everything but the finding `payout_paid_once`.

**`CollectionRequestsProofs`** proves `RequestInv`: what a request has left behind at each stage,
`PaymentsDistinct` from the lookups repeated at the commit under unique constraints, and that a
collection which repeats its key is answered with a payment of its own. From it follows
`RepeatedKeyImplementsOnce`, the refinement of `OncePerJob`, temporal formula included. `AnswerInv` adds
that a request pays the EMI it was asked to pay, that an answer names a payment of the same amount and
reference (`AnswersFit`), and that a form is closed by the answer of one of its own requests, however
late (`DoneWasAnswered`): `SuccessMeansRecorded`. For `NothingOverCollected` the balance of an EMI falls by
just the amount posted (`PostBalance`), which the check under the EMI's lock found to fit, and no
request posts twice (`BalanceStep`).

**`RealtimeChannelProofs`** proves `Inv`: a stream, a pending timer and a ticket request exclude each
other, a page without subscribers has at most the request, and one with subscribers has one of the
three. `SingleConnection`, `ClosedWithoutSubscribers` and `StaysConnected` are its consequences.

**`DailyJobsProofs`** proves exclusion (`OneRunPerKey` is inductive with the types, because a run enters
only when nobody holds its key), completeness (`ListAccounted`: each EMI of a list is still to do,
written, or reminded of) and the bound on duplicates by the generators that race. That a failure reaches
every admin, unless its report is cut off, takes `ReportInv`. `UntoldAreToTell`: who reports has every untold admin still before it.
`SomeoneTells`: while an admin is untold, one of those who report will not collide. Several failed runs
of one key may report at the same time, and the first to insert a notification ends the task of
another that had looked for it; so no single reporter can be relied on, but the one that inserted goes
on. Of killed workers only the one that was reporting matters (`ReportsKilled`), and its key is silenced.
`TellsOfMade`, that a run tells only what it wrote, gives `TellingFollowsReminders`.

Only model-checked:

* liveness (`ShowsCountInTheEnd`, `OverdueRemindedInTheEnd`): fairness and ENABLED are out of reach of
  the provers;
* the runs that end in a violation, whose properties are false.

## Findings

Four are runs that end in a violation, with the sentence of the repository they refute quoted in
`PROJECT.json`:

1. `txn_waived_forever`: the reversal of a part payment reads PENDING, the reveal waives the EMI and
   commits, the reversal then writes PENDING. The comment in `_refresh_emi_status` asks for the
   opposite; the method reads the status again but does not lock the row.
2. `payout_paid_once`: a finalisation checks a commission it has not locked; `settle_commission` by hand
   commits; the finalisation finds it SETTLED, skips it without an error and pays its line.
3. `collection_resubmitted`: the cashier page gives up after 20 seconds while the request runs on, and
   both forms make a new key for each submission; the retry of a part payment is a second payment.
4. `killed_run`: the message of a run is acknowledged before the run and its log row is rolled back with
   it. The next day has another key. The overdue job makes up for it on a later day
   (`OverdueRemindedInTheEnd`); the job for EMIs due on the day never does.

Others show in one action or in a short trace, and have no run of their own:

* *Terminal statuses.* `subscriptions/services/state_machine.py:7`: "Terminal states have empty sets (no
  further transitions allowed)." Reversing a payment of a CANCELLED or CLOSED subscription recomputes
  its status from the EMIs (`payment_service.py:285`); the table is consulted by nothing.
* *Paid and waived.* `reconcile_financials.py:127` holds amount = paid + waived + outstanding. A partial
  payment leaves an EMI PENDING, and a win waives a PENDING EMI in full (`winner_state_service.py:267`).
* *Paid and not covered.* Two reversals of part payments of one EMI pass the reveal that waives it. The
  first overwrites the waiver with PENDING; the second had read WAIVED, which `_refresh_emi_status` leaves
  alone, and has not committed. A payment of the rest makes the EMI PAID, the second reversal commits
  its ledger entry, and the EMI stays PAID with less than its amount on the ledger. The cause is that
  of `txn_waived_forever`; `EmiCoveredWhenPaid` therefore speaks of months no draw has reached.
* *Sold out.* `subscription_service.py:142`: "A sold-out batch must remain FULL and drawable." The admin
  serializer sells the last Lucky ID and leaves the batch OPEN (`admin_resources.py:2459`); so do two
  enrolments that take the last two at once, neither of which sees the other.
* *A winner who has paid.* Rulebook, line 102: "Winner subscription status is WON, not COMPLETED." and "A
  winner stays WON even when all EMIs are settled (PAID+WAIVED)." A monthly draw picks a subscription
  and waives its later EMIs; the customer pays the one that was left; and
  `subscription_status_service.py:50` returns COMPLETED for a winner whose EMIs are settled. The table of
  `state_machine.py` allows it too. `StatusMatchesSchedule` leaves winners out for this reason.
* *A report that is lost.* A run is committed as FAILED (`Raise`), and its worker is killed (`Crash`)
  before it has told the admins, which it does afterwards in transactions of their own
  (`system_jobs/tasks.py:107`). The message is acknowledged, so nothing takes the report up again
  unless another run of the same key fails. `FailureReachedAdmins` excepts this and nothing else.
* *Completed.* A payment of the last open EMI and a reversal on another EMI each read the other EMI as
  it was (`payment_service.py:922`), and the subscription is COMPLETED with an open EMI, which line 457
  of the rulebook excludes.
* *The winner's Lucky ID.* A reversal loads the subscription, a reveal marks it won and commits, and the
  reversal's `Subscription.save` writes ASSIGNED on the Lucky ID from the `winner_month` it loaded
  (`contracts/models.py:295`).
* *Reversed after its payout.* Rulebook, line 518: "Reversal/cancellation must not leave stale payable
  state." A batch finalised before the reversal is marked paid with the total it had
  (`commission_payout_service.py:483`).
* *Enrolment into a draft.* The admin serializer enrols into a DRAFT batch (`AdminEnrol`), where
  `batch_draw_coordination_service.py:62` says only OPEN batches accept subscriptions.
* *A report that writes.* `reconcile_financials`, described as read-only, saves EMI and subscription rows
  (`ReconcileFinancials`).
* *Two part payments of a day.* Without a key of the client the fallback key (`collection_router.py:97`)
  is made of what was filled in, and the second of two equal payments is answered with the first.

## Not modelled

The other components of the table above: `PROJECT.json` lists each with its reason. They fall into
three groups. Advances, cash counters, rent and lease, billing, stock and the WhatsApp outbox have
state machines of their own beside the Lucky Plan and could be modelled in the same way. Accounting,
audit, finance control, privacy and the migration centre record what the modelled operations did and
are read back by none of them. Catalogue, CRM, growth, documents and all but a few pages of the
frontend keep records and render them; nothing there runs concurrently with itself in a way its rows
could notice. That third group is most of the code: the pages alone are several times the size of the
backend services, so the mapped lines, which are those of the core, are a small part of the whole.

Within the modelled parts: deadlocks between the locks of a payment and those of a reveal are below
the grain of `EmiTransactions` (PostgreSQL aborts one of the two, which is its `Rollback`).
`DrawAuthorisation` rows are created and never consulted by the draw services. `dispatch_reminders`
locks nullable joins FOR UPDATE, which PostgreSQL refuses, so the source does not settle in which order
its steps run. Split tenders, smart collection and the request `apiFetch` repeats after a 401 are not in
`CollectionRequests`.

## Plan

Done: `PlanRules`, `LuckyPlan`, `EmiTransactions`, `CommissionPayout`, `CollectionRequests` with
`OncePerJob`, `RealtimeChannel`, `DailyJobs`, their runs and the proofs above. Left, in this order:

1. Cancelling, direct winner execution, the reconcile command and two concurrent enrolments as further
   transactions of `EmiTransactions`.
2. `EmiSchedule`: the split of a price into instalments as a function, checked against "sums to the
   price, no instalment negative" over bounded prices and tenures.
3. Customer advances and forfeiture; cash counter and day close.
4. Stock reservations; rent and lease demands and deposits; contract amendments; credit notes; the
   WhatsApp outbox; the bodies of the other daily jobs.
