# A verification project for the Telegram bot platform

TLA+ models of the platform's core, TLC configurations that check them on small
instances, and theorems the TLA+ proof system proves for every instance. The
models are translated from the Python and SQL sources; `PROJECT.json` maps each
definition to the lines it stands for.

## 1. The system

A user's update reaches a bot, through long polling or through the webhook
gateway. A handler decides what to generate, takes a credit and enqueues a job
in a Redis stream; worker processes take jobs from it, generate, and send the
media or give the credit back. Balances, charges, analytics and presets are in
Supabase (PostgreSQL); counters for Prometheus go through Redis. The gateway,
each polling bot and the worker are separate processes (`docker-compose.yml`).

| Component | State | Operations | Interacts with |
|---|---|---|---|
| Task queue broker (`queue/broker.py`) | Redis stream, group, dead-letter stream; per process a fallback flag and an `asyncio.Queue` | enqueue, dequeue (claim stalled, read new), dead-letter, acknowledge | bots enqueue, workers dequeue |
| Worker pool (`queue/worker.py`, `cli.py`) | per loop: the job at hand | process_job, start, cancellation | broker, Telegram, credit store, generators |
| Credit store (`db/supabase_client.py`, `schema.sql`) | rows of `user_balances` and `star_transactions`; per process `_in_memory_balances` | get balance (opens, resets daily), deduct, add | pipeline, payments, middleware, workers |
| Payments (`payments/`) | none | invoice, pre-checkout, fulfillment | credit store |
| Generation pipeline (`bot/handlers/common.py`) | none of its own | deduct, status message, enqueue or generate, refund | credit store, broker |
| Chat flow (`bot/handlers/`) | one FSM state and its data per chat (Redis or memory) | photo, preset, prompt, cancel | pipeline, presets |
| Event tracker (`events/tracker.py`) | a queue, the flush loop's batch | track, flush loop, flush before reports, shutdown | analytics store |
| Analytics store and report (`db/supabase_client.py`) | event rows or lists | insert, batch insert, query, summary | tracker, admin bot |
| Metrics accumulator (`metrics/prometheus.py`) | counters behind a lock, a flusher thread | record, flush, shutdown, render | every component |
| Preset manager, document store (`presets/manager.py`, `db/nosql.py`) | TTL cache, promoted ids, documents | fetch, save, toggle, delete, seed | chat flow, admin bot |
| Admin bot (`bots/admin_bot/`) | wizard state | add, toggle, delete presets, reports | preset manager, analytics |
| Webhook gateway (`server.py`) | table of bot instances | start, shutdown, webhook, health | bots, broker |
| Builder, middlewares, generators, storage, translations | configuration | wiring, lookups, external calls | |

What is hard, and which properties would make each component correct:

* **Broker and workers.** Any process may die between any two awaits; a Redis
  call may fail or take effect and lose its reply; several workers claim the
  same stalled entries. Correct means: no job vanishes, none is started without
  bound, a user is answered at most once per start, every job is settled.
* **Credit store.** Each operation is several queries with other operations in
  between, and a failed query silently switches to the memory of the process.
  Correct means: a charge counts once, credits neither appear nor vanish, no
  generation is free, a refund is a refund.
* **Pipeline.** A credit is taken in one system and the job put into another,
  with nothing in between to remember it. Correct means: for each credit taken,
  an answer or a refund.
* **Chat flow.** aiogram handles updates concurrently, so two of one chat
  interleave at every await. Correct means: what is generated is what the last
  choices of the chat say, once for each request.
* **Event tracker, metrics.** Buffers swapped out before the write that may
  fail; a shutdown during a flush. Correct means: no event counted twice, none
  lost but in the ways the code accepts.
* **Presets.** Each process keeps a memory beside the table, which does not follow
  what the others write. Correct means: an edit is not lost, a deleted preset stays
  deleted.

Every hazard is listed with its line in `PROJECT.json`, with the properties that
cover it.

## 2. Modules

| Module | What it is |
|---|---|
| `JobContract` | abstract: what the job queue promises for a job it has taken |
| `TaskQueueBroker` | `broker.py` on a model of the Redis stream |
| `WorkerPool` | extends it with `worker.py`, SIGINT, deaths; states the queue's properties |
| `CreditLedger` | abstract: what the credit operations promise |
| `CreditStore` | the credit operations of `supabase_client.py`, query by query |
| `ChatFlow` | the FSM state and data of one chat, and the handlers that keep them |
| `GenerationPipeline` | composes `ChatFlow`, the charge, the broker's fallback and `JobContract` |
| `EventTracker` | `tracker.py` in one process and the writes and reads of `supabase_client.py` |
| `AnalyticsReport` | pure operators: the counts of the summary and the pages the admin bot makes of them, and what they promise |
| `TrackedReport` | composes the two: the report of the rows that `EventTracker` has read |
| `MetricsAccumulator` | `prometheus.py`: several processes, two threads each, one Redis |
| `PresetStore` | the preset documents in the table and in each process |
| `AdminPresets` | extends it with the admin bot's wizard |
| `MCWorkerPool`, `MCCreditStore`, `MCGenerationPipeline`, `MCEventTracker`, `MCMetrics`, `MCAdminPresets` | instances for TLC |
| `WorkerPoolProofs` | theorems about `WorkerPool`, among them that it implements `JobContract` |
| `CreditProofs`, `LedgerProofs` | theorems about `CreditStore` and about `CreditLedger` |
| `PipelineProofs`, `MetricsProofs` | theorems about `ChatFlow` with `GenerationPipeline`, about `MetricsAccumulator` |
| `ReportProofs` | theorems about `AnalyticsReport`, for any rows |
| `TrackerProofs` | theorems about `EventTracker` and `TrackedReport` |
| `PresetProofs` | theorems about `PresetStore` and `AdminPresets` |

The components meet at interfaces. `GenerationPipeline` does not repeat the
queue: it uses the actions of `JobContract`, which `WorkerPool` is shown to
implement, so that what holds of the pipeline holds with the queue in its place.
`TrackedReport` computes `AnalyticsReport` from whatever rows a report has read
in `EventTracker`; what each row says is a constant.

What could come next: the user profiles (section 9), and the credit store's
memory of a process without a database as an implementation of the ledger.

## 3. The job queue

### State and actions

`TaskQueueBroker` keeps of Redis what the properties tell apart. `id[j]` orders
the entries; `lastRead` is the group's last-delivered id; `times[j] > 0` says
the entry is pending and how often it was handed over; `idle` are pending
entries older than the 60 s XAUTOCLAIM asks for; `entries` is what XLEN counts.
Each process has its `fallback` flag and `local` queue. A worker loop is a
program counter (`pc`) over the awaits of `dequeue_job` and `process_job`, with
the claimed entries it still has to look at and the job at hand:

| Code | Action |
|---|---|
| `enqueue_job` | `EnqueueJob`, `Enqueue` |
| XAUTOCLAIM of `dequeue_job` | `Claim` |
| the loop body: parse, XPENDING, limit | `Inspect` |
| XADD, XACK, XDEL of a poison pill or a corrupted payload | `DlqAdd`, `DlqAck`, `DlqDel` |
| XREADGROUP | `ReadNew` |
| the in-memory queue | `ReadLocal` |
| `process_job`: generate and send; refund; a token `Bot()` refuses | `GenerateAndSend`, `RefundJob`, `RefuseToken` |
| XACK, XDEL of `ack_job` | `AckJob`, `DeleteEntry` |
| SIGINT; the end of the cancelled process | `Interrupt`, `Exit` |
| SIGTERM, OOM, power; restart by Docker | `Crash` |

Every Redis call has three outcomes (`Reply`): answered, effective with the
reply lost, not effective. Each but the first uses up one of `MaxFaults`.

Steps that are merged, and why nothing is lost:

* A death and the restart are one step: until it restarts, a process that is
  down is a process that takes no step, which the model allows anyway. A call in
  flight at a death is a lost reply followed by the death.
* Connecting (`_get_client`) and the first call after it fail alike: both set
  the fallback flag. A failed creation of the group shows up as a failed read.
* Generating and sending is one step: in between, nothing is recorded anywhere.
* `resolve_bot_token` looks into the environment and the files of its process:
  which jobs it finds nothing for (`NoToken[p]`, refunded), and for which a token
  that `Bot()` refuses (`BadToken[p]`), are constants of the process. A refused
  token raises before the `try`: the loop logs it and goes on, the job stays
  pending, and a claim starts it again.
* A job counts as started (`attempts`) when `dequeue_job` returns it, which the
  loop passes to `process_job` without an await.
* Logs, metrics and events are left out: their exceptions are swallowed.

`_use_fallback` is read where the code reads it: at the start of `dequeue_job`
and of `ack_job`, not between XACK and XDEL.

### What is checked

`worker_pool_safety` (`MCWorkerPool.cfg`, 557 437 states): two jobs, one of them
of a bot without a token; the gateway enqueues, two worker processes of one loop
each; one Redis call may go wrong and one process may die. Two jobs are needed
for a batch with a second entry that is dropped, two workers for every race over
a claim; three deliveries of one job need a death or a generation that overruns
60 s twice, both of which occur. The worker processes are symmetric.

* `NoJobLost`: a job Redis took and no longer holds was answered,
  dead-lettered, or cut short by SIGINT.
* `AttemptBound`: a job is started fewer than three times, plus the starts for
  which no delivery count was seen.
* `OneAnswerPerAttempt`: at most one answer a start, but for a message Telegram
  took without answering, which is delivered and refunded.
* `RetryHasCause`: a second start has a death, an interrupt, a failed call, a
  fallback, an overrun or a malformed token behind it. The fallback is a cause of its own: a
  payload that cannot be read makes the process fall back though no call failed,
  and its other loops then acknowledge nothing of what they finish.
* `DeadJobsWereStarted`: a job goes to the dead-letter stream unstarted only if
  the reply that first handed it over was lost, or its payload is corrupted.
* `NoLeakedEntry`: XLEN counts no entry that nobody will read, unless a call
  failed or a process died (an XDEL that fails after its XACK does leave one).
* `ImplementsContract`: the pool implements `JobContract`.

`worker_pool_liveness` (`MCWorkerPoolLive.cfg`, 111 640 states) has one death or
SIGINT, a corrupted payload, a malformed token in one of the two processes, and a
process that both enqueues and works, so that the in-memory queue is written and
read. `JobsSettleUnlessAllFellBack`: every job Redis took is answered or
dead-lettered in the end, unless it was cut short or every worker process has
fallen back.

Two runs show where the code does other than it says:

* `interrupt_acks_unfinished`: SIGINT cancels `process_job` in its `try`; the
  `finally` clause acknowledges the job, though nobody was answered.
* `fallback_strands_jobs`: Redis refuses one XADD of the gateway, which puts the
  job into its own `asyncio.Queue`; no loop of the gateway reads it, and the
  worker polls Redis for ever (`FallbackJobsSettle`).

**Fairness.** A worker loop takes its next step (the event loop runs it, and
every await ends: clients and generators have timeouts), an entry that stays
pending becomes idle (the clock advances), a cancelled process exits. All three
are weak fairness of one action; nothing forces a job, a fault or a death.

**Bounds.** `MaxFaults`, `MaxDeaths`, `MaxInterrupts` bound what goes wrong in
one behaviour, `ClaimBatch` is 2 for the code's 10 (with two jobs more makes no
difference), `MaxAttempts` is the code's 3. A larger instance, two loops in one
process with one fault, one death and one SIGINT (6.9 million states), passed too;
it is too slow to keep. So did three loops, two of them in one process, with a
payload that cannot be read and no failure (37 888 states): only there does a
fallback make a second loop leave its job unacknowledged. Of such instances the
theorems below speak in general.

### What is proved

For every number of jobs, processes, worker loops, faults and deaths, every
`ClaimBatch` and every `MaxAttempts` of at least 2 (`BrokerAssumption`,
`PoolAssumption`):

* `TypeCorrect`: `Spec => []TypeOK`.
* `AttemptsBounded`: `Spec => []AttemptBound`. The bound by itself is not
  inductive, because a worker decides on the delivery count it reads when it
  inspects a claimed entry, and other workers may claim the entry meanwhile.
  `DeliveryInv` is `TypeOK` with two parts. `HandedOutFirst`: a job that was
  never handed out is neither pending nor in a claimed batch. `StartsPaid`: while
  a job is pending, each counted start and each claim still to be inspected was
  paid for by a delivery of its own, and the starts stay below the limit plus
  those made blind.
* `QueueImplementsContract` and `JobsNotLost`: the inductive invariant `PoolInv`
  is `TypeOK` with `StreamInv` (ids are distinct and none exceeds the last one
  added; what is pending is in the stream, and what is idle is pending),
  `StoreInv` (only submitted jobs leave a trace, local queues hold submitted jobs,
  only jobs of the stream are dead-lettered) and, for each loop, `LoopInv` (what
  it claims or buries came from the stream; a loop that removes a poison pill has
  put it into the dead-letter stream; one that acknowledges a job has answered
  it, or SIGINT cut the job short). A lemma per action shows it is kept, another
  that the action is a step of the contract or leaves it alone.
* `AnswersBounded`: `Spec => []OneAnswerPerAttempt`. `AnswersPaid` counts, beside
  the answers given, the loops that still owe one (`Owing`): each of them has a
  start of its own, so that several loops with one job do not make the bound
  false when they all answer. It is a count of loops, hence the cardinality
  lemmas.
* `DeadWereStarted`: `Spec => []DeadJobsWereStarted`, from `BegunFirst`: without a
  failed call, whatever is pending, claimed or buried has been started or cannot be
  read, because a claim takes pending entries only.
* `EntriesNotLeaked`: `Spec => []NoLeakedEntry`, from `NoLeak`, which asks of each
  entry left over for a loop that is about to delete it, as long as nothing failed.
* `RetriesHaveCause`: `Spec => []RetryHasCause`. In an undisturbed run (`Orderly`)
  a job that has not overrun, and whose token no process refuses, is started once (`Once`): while it is pending, a loop
  is at work on it, so it never becomes idle and is never claimed. Without the
  fallback among the causes the statement is false for two loops in one process,
  which the attempt to prove it showed.

## 4. The credit store

### State and actions

The database is `opened`, `credits`, `resetDay` (one row a user) and `recorded`
(the charge ids, unique). Each task with an operation in progress is a program
counter over its queries; `then` says what `get_user_balance` was called for;
`bal` is the balance object it holds. `mem` is `_in_memory_balances` of each
process, which an exception in `get_user_balance` falls back to, and which
`add_user_credits` then increases in place.

| Code | Action |
|---|---|
| `get_user_balance`: select, insert of a new row, daily reset | `Select`, `OpenAccount`, `ResetDaily` |
| the SQL function `deduct_user_credit` | `Deduct` |
| `add_user_credits`: check, insert of the charge, update | `CheckCharge`, `RecordCharge`, `AddCredits` |
| the middleware, a generation, a payment or refund | `BeginView`, `BeginDeduct`, `BeginAdd` |
| the UTC date changes; a process ends | `Midnight`; `Die` |

`spent`, `paid`, `granted`, `credited`, `misread`, `stale` are bookkeeping: what
the database took and gave, and which rows were overwritten with a value that
was not read from them. A day is a number, compared as the code compares dates;
days pass at `Midnight`, and `get_user_balance` keeps the day it began on, while
a new balance carries the day it was made on. The fulfillment handler's own look
at the charge is the same query as the check of `add_user_credits` and is merged
with it. `total_stars_spent` is written with the credits and never read.

The row of a charge is sent with an `id` of `None`. `schema.sql` declares
`id UUID PRIMARY KEY`, whose default does not replace a NULL, so this database
refuses every charge; one whose tables fill the id in (a trigger) takes it. `FillsIds` says which one it is. The passing run and the
theorems need the second, or say nothing about charges; with the first the third
query of `add_user_credits` always fails. A process may die between two queries
with its calls and its memory (`Die`), which counts as a fault.

### What is checked

`credit_store_concurrent` (`MCCreditStore.cfg`, 1 670 771 states): two
calls, of two processes, on one user, with payments delivered any number of
times, one refund, one midnight, and one query that goes wrong or one process
that dies. Two calls are what a lost update needs. The two are symmetric, and a
view hides what a finished call still remembers, which its next operation
overwrites.

* `CreditedOnce`: a charge is credited at most once.
* `Balanced`: credits and spent equal granted and paid for every user whose row
  was never overwritten with something that was not read from it.
* `RecordedIsCredited`: a recorded charge was credited, is about to be, or a
  query failed or a process died.
* `LedgerUntilOverwritten`: every step, of however many calls at once, is a step
  of `CreditLedger` or changes nothing of it, until some call writes over a row
  a value it did not read from it or that has changed since.

The last three do not rule out the lost updates of this code (a sum or a reset
written over a deduction); they say that nothing else goes wrong.

Two runs show defects:

* `concurrent_free_content`: on a new day the reset of one request overwrites
  the deduction of another.
* `charges_refused`: with the tables of `schema.sql` a payment that arrives is
  never credited, though nothing fails and nobody else is at work
  (`ChargesCredited`; weak fairness of each call: a query ends, if only with a
  timeout). Where the insert is accepted, every refund carries the same charge
  id, so that each but the first is taken for a duplicate; the pipeline's model
  (section 5) has both.

**Bounds.** `MaxDay` is 1 (one midnight: one daily reset can race), `MaxRefunds`
1, `MaxFaults` 1, `Free` 1 for the code's 3, a package is
worth 2.

### What is proved

For all users, charges, tasks, processes and any number of faults
(`StoreAssumption`):

* `ChargesCreditedOnce`: `Spec => []CreditedOnce`. `CreditedOnce` is not
  inductive; `OneCreditor` adds that a call which still owes the credits of its
  charge has recorded it, is alone with it, and the charge has not been credited;
  `WriterAdds` that only such a call comes to the write.
* `TypeCorrect` and `CreditsBalanced` rest on one invariant, `StoreInv`. `Holds`
  says what a call between its queries holds: one that is about to open an account
  the free credits, one before the daily reset or before the write of a sum what
  the row still says, unless it is marked as stale; without a row it comes to the
  write only after a query failed. `EmptyUnopened` says that a user without a row
  has no credits. `Marks` is what every step does for the calls of others: it
  leaves their copies true or marks them.
* `RecordedCharges`: `Spec => []RecordedIsCredited`, which is inductive beside
  `StoreInv` (the write finds a row, or a query failed) and the invariant of
  `ChargesCreditedOnce` (the write is the first of its charge).
* `FreeCreditsCapped`, `CreditsAccounted`: what `CreditLedger` entails.
* `CallsKeepLedger`: `Spec => LedgerUntilOverwritten`, for any number of calls at
  once, queries that fail and deaths. As long as nothing was written over
  (`misread` is empty), what a call holds before its write is what its row says,
  or the call is stale and its write ends the promise (`DatedInv` adds that no call
  is dated later than today); every query is then a step
  of the ledger or leaves it alone, so that what `CreditLedger` entails holds of
  the code up to the first lost update, which `concurrent_free_content` shows.

## 5. The chat and its generations

### State and actions

`ChatFlow` keeps the state of one chat (`fsm`) and its data, the reference photo
and the selected preset. A photo or a preset is known by the update that brought
it. The storage is Redis, so `get_data`, `get_state`, `set_state` and `set_data`
are an await each, `clear()` is two of them and `update_data` a read and a write;
each is a step, and the handlers of two updates interleave at all of them. What
a handler does between its last read and its next call is one step with the
read.

| Code | Action |
|---|---|
| an update arrives | `Arrive` |
| `handle_photo_upload` | `FirstRead`, `PhotoUploaded` |
| `handle_preset_selection`, with the button of the custom prompt | `PresetSelected`, `CustomSelected` |
| `handle_custom_text_prompt` | `FirstRead`, `TextSent` |
| `clear()`, `update_data()`, `set_state()` | `ClearState`, `ClearData`; `ReadForUpdate`, `WriteData`; `SetState` |
| an exception in a handler | `Raise`, `Fail` |
| `run_generation_job` | `Deduct`, `SendStatus`, `EnqueueJob` |
| the workers | `Deliver`, `Refund`, `GiveUp`, `Leave` |
| SIGINT cuts a job short; the last worker process falls back | `Interrupt`; `FallBack` |
| the gateway dies and starts again | `Crash` |

`GenerationPipeline` goes on from there. What balances there are, and what their
queries do, is up to `CreditStore`, where other calls for the user interleave with
these; here a deduction takes a credit, or answers False, because there is none,
because it raised, or because its reply was lost. A worker's refund either adds a
credit or adds nothing (`unpaid`), and answers in both cases: it swallows a query
that fails, the database may refuse its record, and every refund carries the charge
id `refund`, so that at most one is ever credited (section 4). `enqueue_job` never
raises: it falls back to the memory of the gateway, for good, and no worker reads
that memory. `deaf` says that every worker process has given up Redis. The media's
sending and the answer to the queue's contract are one step. A crash ends all
handlers, and the state of the chat stays in Redis; updates that wait at Telegram
are dropped by `set_webhook(drop_pending_updates=True)`, so the model need not
deliver them.

### What is checked

`generation_pipeline` (693 720 states): two updates are behind and two of any
kind are to come, handled at the same time; one call that fails, one SIGINT or
one crash. The initial states are the ones the two updates behind can leave: a
chat that waits for a preset, one that waits for a photo, one without a state
whose broker has fallen back, and one in which a preset chosen while the photo
was being handled is about to write.

* `NoChargeForgotten`: a generation that was charged for is delivered, repaid, or
  being worked on, or lost in a named way: the reply to the deduction was lost, the
  handler raised or died after the charge, the gateway died with the job in its
  memory, the refund added nothing, the job is in the dead-letter stream or was cut
  short by SIGINT.
* `EveryJobPaid`: nothing is for free: a job, media that was sent and a credit that
  was given back belong to a generation that was charged for, and one refund at most
  is credited.
* `OneChargePerChoice`: two charged generations with the same choice of a preset
  overlapped, and so did two with the same photo, unless a choice that read the
  data before it was cleared wrote it back.
* `PresetStillChosen`: in a chat whose updates never overlap, a preset that is
  applied to a photo was not cancelled, used or replaced since it was chosen.
* `StateMatchesData`: with no handler at work, the state says what the data
  holds.
* `EveryRequestSettles`: handlers end, and what was charged for is settled or
  forfeited, or strands in the gateway's memory, or all workers have fallen back.

`custom_prompt_ignored` (`MCCustomPrompt.cfg`) shows a disagreement: the custom
prompt's button asks for a photo to transform with the user's own words
(`en.json:12`, `photo.py:69`), but neither the button nor the photo handler forgets
a preset chosen before, and the photo that follows is generated with the preset
(`CustomPromptTakesPhoto`).

**Fairness.** The event loop runs a handler that can go on, and the workers
settle a job that had no outcome yet, as long as one of them reads Redis
(`JobsSettleUnlessAllFellBack` of section 3): weak fairness of each group. Updates,
faults and crashes need not happen.

### What is proved

For any number of updates, handlers at a time, faults and crashes:
`TypeCorrect`, `ChargesAreKept` and `JobsArePaid` of `PipelineProofs`. The
invariant adds `Order` (an update that has not arrived has not begun; a handler
is at the status message or at the queue only after its charge, and one that was
charged is there or over), `Kept` (a charge is on its way, in the queue, in the
memory or has a cause to be lost; an answered job was delivered or had its refund,
credited or not) and `Books` (what is queued was charged for, what is delivered or
repaid was queued). `ChargesAreKept` by itself is not
inductive, because nothing in it says that a charge is not made twice or for a
handler that is over.

`ChoicesChargedOnce`, `AppliedIsChosen` and `StateFitsData` prove the three
properties of the chat. Their invariant, `ChatInv`, adds to the first one:

* `Stage`, `Overlap`: what a handler of each kind may be doing, and that a handler
  at work has met every update that arrived after its own.
* `Sources`: a photo or preset that is kept, read or used by another handler was
  written by the handler it is named after, which generated nothing.
* `PresetOnce`, `PhotoOnce`: once a generation has cleared the data, its preset
  never comes back, and another handler that is about to use it overlapped with
  the generation; its photo comes back only with a preset's handler that had read
  the data before, which is the exception `OneChargePerChoice` makes.
* `Quiet`, `LastChoice`: as long as no updates overlapped, the data is what the
  stage of the one handler at work says, and nothing that ended since the preset
  was chosen has cleared or replaced it.

All six theorems are about `Spec`, which begins with an empty chat and no update;
the run begins later (`MCInit`), to reach the interesting updates with few.

## 6. Events and the report

### State and actions

`EventTracker` is one process: `queue` is the `asyncio.Queue`, `loop` what
`_flush_loop` waits for and `batch` its batch, which `flush_events` cannot see.
Each task that writes is at a query of `track_events_batch` (`stage`): the insert
of the whole batch, and when that fails, for each event an insert into
`events`, then one into `bot_events`, then the list in memory. Each query is
answered, fails, or takes effect and loses its reply. `usable` are the insertions
that the database accepts. Most rows carry an explicit `id: None`, which the tables of
`schema.sql` refuse; only the insert into `bot_events` of `track_event` sends no id.
So two databases are initial states of their own (`BothSchemas`): the one of
`schema.sql`, which accepts that fallback insert alone, and one that fills ids in and
also accepts the batches for `events` and what `record_event` and `log_generation`
of other processes send (`"records"`). A process without a database, which accepts
nothing, is left to the theorems.

| Code | Action |
|---|---|
| `track` | `Track` |
| `_flush_loop`: the first event, more of them, the interval, the end of a write | `GetFirst`, `GetMore`, `IntervalOver`, `Flushed` |
| `track_events_batch`, `track_event` | `InsertBatch`, `InsertOne`, `InsertLegacy` |
| `get_metrics_summary` | `BeginReport`, `ReadEvents`, `ReadLogs` |
| an event, a generation recorded by another process | `RecordElsewhere`, `LogElsewhere` |
| `shutdown_event_tracker` | `Shutdown`, `CancelLoop`, `Exit` |
| the end of a polling bot (`asyncio.run` cancels every task) | `Quit`, `CancelReport`, `CancelLoop`, `Exit` |

A cancelled task's query runs on in its thread and takes effect or does not
(`CutShort`).

`AnalyticsReport` defines `_compute_metrics_summary` table by table, with its
defaults and cuts, and the pages of `handlers/analytics.py` and `formatters.py` as
records of what they show. A loop that fills a dict is the fold `Tally`: what a
row adds is an `Item`, and `Counted` makes or changes the entry of its name. A
comprehension with an `if` is the fold `Only`. `sorted(..., reverse=True)` is
`Sorted`: the place at position k is the one that has k - 1 places before it, by
falling key and, the sort being stable, by place. The averages, the popular presets
and the feed of recent events are left out: no count depends on them, and the order
of the feed is that of the inserts (`created_at` is set by the database), not of the
events.

### What is checked

`event_tracker` (305 948 states): three events, batches of two, a row of another
process, one report, one query that goes wrong, both schemas, a shutdown or a
cancellation at any moment. Three events fill a batch and leave one over.

* `StoredOnce`: an event is stored once, and once more for each write of it that
  lost its reply, and once more when the loop was cancelled while writing it.
* `NoEventLost`: an event waits, is being written, or is stored, unless the
  report that was flushing it was cancelled.
* `ShutdownPersists`: an ordered end leaves each event in a table, unless a query
  failed.
* `ReportMissesOnlyHeld`: a report misses, of what was tracked before it began,
  only what another task held, rows of `events` (it reads `bot_events`), and what
  is on the other side of a failed query. It bounds what the code's report misses; it
  does not say that a report misses nothing, which is false.
* `ReportAddsUp`: once a report has read its rows, its pages agree with
  themselves and with each other. A table that is not cut sums up to the total beside it; the models share
  the generations, those that succeeded and those that failed; the bots share the
  events, clicks and stars (`PagesAgree`).
* `TablesRanked`: the button table has each clicked name once, the most clicked
  first, with its clicks and known users as a definition by sets counts them.
* `TrackedIsStored`: a tracked event is stored in the end.

**Fairness.** The flush loop goes on, its deadline passes, and a query returns;
a report goes on. Nothing makes a process end.

### What is proved

For any number of events, reports, faults and batch sizes, whatever the database
accepts (one that takes the `"records"` of `record_event` also takes the fallback
insert): `TypeCorrect`, `EventsAreKept`, `EndPersists` and `ReportsShow` of
`TrackerProofs`. The invariant `IInv` is `TypeOK` and `NoEventLost` with `Flow`
(who is at work when: a task has events to write exactly while it writes; reports
are over before the loop is cancelled; the last flush finds the queue empty),
`Batches` (what the loop has still to write is in its batch, and the rest of a
batch that is being written is stored, which is why `Flushed` may forget it),
`Clean` (without a fault the memory is used only when there is no table) and
`Reporting` (what a report owes is being flushed by it or stored, and shown once
it has read).

`EventsStoredOnce` proves `StoredOnce`. It needs a second invariant on top,
`OnceInv`, because the bound by itself allows a copy to be written while another
task still has the event to write. `OnePlace`: the queue, the batch and what each
task has to write hold an event once and share none, but for the loop, which
writes its batch. `Bound`: while somebody has the event in hand, each of its
copies is one that a write without an answer left behind; the one copy that
counts as its own comes when nobody has it any more. `Untouched`: an event not
yet tracked is nowhere. Copies are cardinalities of sets of positions; `CountConcat`
says what an insert adds. A cancelled loop takes its whole batch in hand again,
which is why `rewritten` allows one more.

`ReportsAddUp` and `ReportsRanked` prove `ReportAddsUp` and `TablesRanked`. The
rows of a report are rows of their tables, by `TypeCorrect` and `RowsAssumption`;
the rest is said by two theorems of `ReportProofs` about the operators, for
sequences of rows of any length and content:

* `PagesOfSummary`: the pages of one summary agree.
* `ButtonsCounted`: the button table has each clicked name once, the most clicked
  first, with its clicks and its known users.

They are inductions over data. The library's induction theorems take an operator
as a parameter, which the provers cannot instantiate, but its `WFMin` takes a set:
from it follow `LeastNatural`, and `SetInduction`, induction over a set of
numbers. A fold of the library is the function that satisfies an equation;
`FoldExists` shows, by induction on the size of what is folded, that there is one,
so that the folds of `Tally`, `Only` and `SumFunction` can be computed step by
step. `TallyCounts` then says what a tally of k items is (each name once, in the
order of first appearance, with the number and the users of its items),
`OnlyPicks` that the rows kept are those picked, each once and in order,
`SortedPlaces` that `Sorted` is a permutation by falling key (the places before
another are strictly fewer, so their numbers are distinct), and `SumOfParts` that
a sum of sizes of disjoint sets is the size of their union. Every total is such a
size: of places of rows or, for the stars, of pairs of a row and a number up to
its stars. The names of items are drawn from `Word`, which is `STRING` spelled with
the literals the code falls back to: no prover is told that a literal is a string.

## 7. Metrics

`MetricsAccumulator` has several processes, each with the pending counters, a
flusher thread and an event loop. Either of the two swaps the counters out under
the lock and sends them, one HINCRBY after the other, in a pipeline that is no
transaction; a failed pipeline drops what was not sent, and the exception is
swallowed. The scrape flushes, then reads the hashes one by one, and falls back
to the registry of its own process. `shutdown_metrics` flushes and does not wait
for the daemon thread. `REDIS_URL` is set; the client retries nothing; a process
that starts again is another process. Calls to Redis from the event loop block
it, so nothing is recorded between a scrape's flush and its reads. `hash` is what
the Redis hashes hold, for all processes together, and what a scrape reads;
`sent`, the share of each process, is bookkeeping.

`metrics` (761 454 states): a gateway that is scraped once and a worker, two
events, one call that fails or one process killed, a shutdown at any moment.

* `Accounted`: what a process recorded is in Redis once, pending, in somebody's
  hands, or lost.
* `LossHasCause`: losses come with a failed pipeline, a killed process, or a
  flusher cut short by the end of its process.
* `ScrapeCountsOwn`: a scrape misses of its own process only what the flusher
  held and what was lost.
* `RecordedIsSent`: nothing stays pending for ever (weak fairness of thread and
  loop).

`EventsAccounted` and `LossesCaused` prove the first two for any number of
processes, records and faults. The invariant keeps the books counter by counter,
with `Hands`: whoever is not sending holds nothing, and after the flush of a
shutdown nothing is pending.

`ScrapesCountOwn` proves `ScrapeCountsOwn`, whatever the other processes add to
the hashes meanwhile. `ScrapeInv` says that the hashes count at least the share
of each process (`Shared`); that while a scrape is served nothing is pending and
the flusher holds no more than when the scrape flushed (`Behind`); and that what
the scrape has read so far counts what was recorded (`Found`). `RecordedIsSent`
is a liveness property and stays with TLC.

## 8. Presets and the admin bot

`PresetStore` has the rows of `preset_prompts`, the memory of each process beside
them and the registry of `PresetManager`. `update_preset` reads the row (without
an answer, the memory), changes the field and upserts the whole document; a
deletion clears registry and memory before the row; a seed saves one preset
after the other. `AdminPresets` adds the wizard: its state is the field it asks
for, its data the texts; `update_data` reads and writes, `set_state` comes
after. aiogram picks the handler by the state at the arrival of an update. The
wizard's fields are three in the run for the code's six: first, middle and last.

`admin_presets` (1 408 234 states) begins with the wizard at its start, left
and started again, or with the wizard at its last field beside a toggle, a
deletion and a seed at two processes that share the table; two handlers at a
time, one call that goes wrong.

* `MemoryMatches`: the process that wrote or deleted a preset last remembers what the
  table holds, and its registry brings no deleted preset back.
* `DeletedStaysDeleted`: a toggle starts from the process's memory when the table has
  no row, and writes what it finds there. It brings back a deleted preset only if
  another process deleted it, if the last query its own process made for it failed,
  or if handlers crossed.
* `NoLostEdit`: a toggle changes nothing but the flag, unless it crossed another
  handler or took the document of its memory.
* `WizardSavesOneRun`: a preset is made of the texts of one run, unless two
  updates were handled at once. `❌ Cancel` lists the presets and leaves state
  and data as they are; the property holds because each field is overwritten by
  the next run.

### What is proved

All four properties, and the types, for any number of presets, processes, fields,
updates and handlers at a time, any files and any number of faults:
`TypeCorrect`, `MemoryFollowsTable`, `WizardKeepsRunsApart` and, as action
properties, `TogglesKeepText` and `DeletionsLast` of `PresetProofs`. They are about
`Spec`; the run begins later (`MCInit`). The invariant has three parts:

* `Types`: `TypeOK`, with which update is at what (`Control`) and what the wizard
  asked for when a text arrived (`Asking`).
* `StoreOK`: handlers that share a preset are marked as crossed (`Alone`); a
  handler about to write or delete has the memory of its process say so already, and
  a toggle about to make a row belongs to a process whose memory another process or a
  failed query has set apart from the table (`Hand`, `Apart`); where nothing has, and
  nobody is about to change the row, memory and table agree (`Matches`).
  `MemoryMatches` alone is not inductive, since nothing in it says what the handlers
  still hold.
* `WizardOK`: as long as no two updates of the wizard were handled at once, the
  one at work is the latest (`Latest`); the fields up to the one asked for are in
  the order of their updates, and since the first of them nobody has started or
  left the wizard (`Chain`, `Turns`). That `❌ Cancel` and a new start leave old
  fields behind does no harm, because the chain counts only the fields below the
  one the state asks for.

Met on the way, and not stated as properties: after a toggle the handler shows
the detail of the preset again and takes `id:bool` for its id
(`presets.py:110`); deleting is called permanent (`presets.py:119`), though the
memory of another process can bring the preset back; `manager.py:91` says that
presets come from the database and the registry only, while `nosql.py:59-65` answers
from memory when the query fails or finds nothing; the live feed is announced
in chronological order (`analytics.py:193`) and follows the inserts, newest first;
`docs/KUBERNETES_DEPLOYMENT.md:132` runs four gateways, which is why the model has
several processes.

## 9. Limits

* Liveness is only model-checked: the proof system has no rule for fairness here.
* Every invariant and every action property of the passing runs is stated by a
  theorem; what is only model-checked is liveness, and the findings of the runs
  that expect a violation.
* Several passing properties excuse what the code does, and so bound a defect rather
  than rule it out: `Balanced` and `LedgerUntilOverwritten` lost updates of a balance,
  `NoLeakedEntry` and `RecordedIsCredited` whatever follows a failed call,
  `NoChargeForgotten` refunds that add nothing, the properties of the chat handlers that
  overlap, `MemoryMatches`, `DeletedStaysDeleted` and `NoLostEdit` what other processes
  wrote or handlers crossed, `ReportMissesOnlyHeld` and `ScrapeCountsOwn` what a
  flusher held.
* What a process offers its users (`get_presets`, which only reads), the averages, the
  popular presets and the live feed of the report are not modelled.
* Redis, PostgreSQL and Telegram are modelled from how the code uses them:
  atomic commands, a stream's order, XAUTOCLAIM taking the oldest idle entries, a
  unique index. Redis itself losing its data is not modelled.
* The credit store without a database is not modelled: its operations hold
  `balance_lock` and await nothing, so each is one step.
* User profiles (`sync_user`, `update_user_language`, `update_user_model`) are
  not modelled. A row and a copy in the process's memory are read and written
  whole; a preference that is set while a query fails stays in one process, and
  the selected model is used by no generation.
* The TTL cache of `PresetManager` is not modelled: `fetch_presets` reads it only
  without a bot id, with active presets only and without `force_reload`, which no
  caller outside the tests asks for. Nor is the order promotion gives the presets.
  The list a remote URL (`PRESETS_REMOTE_URL`) would add is left out: the setting
  is empty by default, and the fetch only adds to what is read from the store.
* The direct path of `run_generation_job`, which no caller takes.
* Builder, module wiring, generators, keyboards, texts, translations,
  configuration, logging and deployment: they keep no state the properties could
  tell apart.
