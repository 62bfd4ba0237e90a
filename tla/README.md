# Dream: specifications, checks and proofs

Dream is a single-user agent harness: a terminal application and a local web
Studio drive chat turns over language models, some of them served by a local
engine, and add delegated workers, scheduled automations, guided workflows,
memory and media jobs.  It is Python; almost all of its concurrency is asyncio
inside one process, plus several Dream processes (terminals, Studio servers, a
background timer) that share files under the owner's state directory and one
local inference engine.

This directory holds TLA+ modules of the parts where an order of events nobody
tested decides whether the program is right, TLC configurations that check
them, and TLAPS proofs of their safety properties for every size.  Paths below
are relative to the repository's root.

## How to run it

    tlc -config InferenceLease.cfg InferenceLease       # any run listed below
    tlapm InferenceLeaseProofs.tla                      # any of the *Proofs

`PROJECT.json` lists the runs, the properties of each, the source lines each
definition models, a mutant for each property (a plausible bug that must break
it), the hazards with the properties that watch them, and the theorems.

## 1. Inventory

### Parts, their state and their operations

| Part (source) | State | Operations | Talks to |
| --- | --- | --- | --- |
| Inference lease (`dream/core/inference_coordination.py`) | per slot: a kernel file lock and a JSON record (idle, running, uncertain) | `request` (claim, write, send, exit), `reconcile`, `status` | shared by every Dream process; called around each request to a local engine |
| HTTP backend (`dream/core/backends/openai_compat.py`) | messages, round counter, the turn's inbox, the idle queue, worker journals | `_ask` (rounds, tools, compaction, salvage, verifier), `_request_coordination`, delegation | lease, inbox, journal, idle queue, tools |
| Engine (`dream/core/engine.py`) | the session's turn, outcome, delivery review | `ask` with its brackets: open the inbox, run the turn, settle | backend, recovery, telemetry |
| Worker journal (`dream/core/worker_checkpoints.py`) | an append-only fsynced ledger behind a lock; a view of its last row in memory | create, resume, request and tool brackets, settle, message, control, finish, acknowledge | driven by the backend's worker loop and by Controls |
| Steering inbox (`dream/core/steering.py`) | receipts with a status, a receipt file, `open` | submit, drain, submitted, close | Studio and terminal submit; `_ask` drains |
| Terminal prompt queue (`dream/tui/app.py`) | `_typed_queue`, `_typed_steered` | `_send_typed`, `_take_typed` | inbox, prompt loop |
| Idle work queue (`dream/core/idle_work.py`) | pending jobs, one worker task, the foreground flag | enqueue, foreground started and finished, close | backend's turns and its filing jobs |
| Sleepwalk (`dream/sleepwalk/`) | automations file with `last_slot` and pending marks, run records, three kinds of file locks | tick, claim, run, note, save, delete | Dream processes and the background timer |
| Managed recovery (`dream/core/recovery.py`, `recovery_runtime.py`) | counters of calls, errors, checks and evidence; the decision that stands; the task-wide budget | observe, consume, stop, block | the coordinator, for every observation |
| Task checkpoints (`dream/core/task_checkpoints.py`) | intents and receipts of handler calls, the recovery snapshot, the review's receipt, completion and boundary - all in the run's ledger | begin and finish an action, observe, stop and resume, reconcile, verify, complete, reset | handlers, loop, SQLite task row |
| Run state (`dream/core/run_state.py`, `run_resume.py`) | locked ledger and a `state.json` view per loop run | record, open again, inspect | autonomous loop, checkpoints, Controls |
| Council help (`dream/core/frontier_help.py`, `help_continuation.py`) | one-shot request receipts | ask, receive, continue | engine, providers |
| Loop and phases (`dream/core/loop.py`, `phase_runner.py`, `phase_plan.py`) | phase, contract, iteration budget | run: contract, turns, review, completion, resume | engine, run state, checkpoints |
| Linked sessions, DeepSleep (`dream/core/linked_sessions.py`, `dream/gui/deepsleep.py`) | the board's receipts, groups and terminals; each terminal's own receipts in memory | send, watch, settle, route, join, close, restart; accept, start, finish | Studio server, terminal processes over HTTP |
| Local engine launch (`dream/local/`) | inherited launch lock, child process, guard | launch, adopt, stop | the engine process, the lease |
| Workflows, Frontier (`dream/workflows/`) | guided tasks, attempts, versions | start, advance, settle | providers |
| Memory, media, library, file checkpoints | SQLite tables, job records, atomic files | create, update, list | tools, Studio |
| Policy, stream guards, context budget, providers, tools, skills, web, MCP, Studio, desktop | mostly none | decisions and formatting over text; input and output | all of the above |

### What is hard, and what makes each part right

* **Inference lease.**  Processes race over slots, die at any instruction and
  leave records behind; a cut connection does not say whether the engine still
  works; the engine restarts.  Right: no request is sent beside one that may
  still run, nobody clears the record of a live request, and every request
  ends.
* **Worker journal.**  Each append can fail before, within or after the write;
  processes restart; the wall clock steps; calls come in any order.  Right: the
  ledger loads again, a driver never acts on anything but the ledger, requests
  and effects are never forgotten, pauses do not buy time, and a closed run
  stays closed.
* **Steering.**  A correction, a stop, a failing save or the end of the process
  comes between any two steps of a turn.  Right: a receipt says what happened,
  no accepted text is lost, a successful turn has answered every correction.
* **Idle work.**  asyncio sends a cancellation to whatever the cancelled task
  awaits, and three tasks await one another here.  Right: a turn at work has
  the engine to itself, no job starts twice, the queue neither stalls nor
  outlives `close()`.
* **Sleepwalk.**  Several processes, edits and ticks compete for a slot; a
  crash falls between a record and its mark.  Right: a slot runs at most once
  and every claimed slot gets one record.
* **Managed tasks** (loop, checkpoints, recovery, run state).  A handler's
  effect falls between two rows of a ledger whose writes may fail, fail half
  way, or commit and raise; Stop arrives with handlers inside; a resume meets a
  ledger on which a cut turn, an unknown effect, a decision and a completion
  may all stand.  Right: no effect is forgotten or worked beside, a Stop holds
  until the owner has accounted for everything, budgets are spent once, the
  recovery state can always be loaded, and completion, projection and reset
  happen in this order, once.
* **Linked sessions.**  Requests are lost, late or unanswered while polls tell
  what became of them; terminals end, are closed and restarted in the middle.
  Right: each answer is routed once, receipts tell the truth, and every outcome
  reaches the board.
* **Council, workflows, launch lock.**  What a restart makes of an intent
  without an outcome; an inherited lock.
* **The rest** is text, presentation, or input and output: an error there shows
  in a unit test, and a model would restate it.

## 2. Modules

    EngineLanes          what the lease promises, without locks or records
      ^ implemented by
    InferenceLease       the lease and the request path around it
      MCInferenceLease     symmetry for the run without liveness
      InferenceLeaseProofs the theorems
    WorkerJournal        the ledger of one delegated run
      MCWorkerJournal, WorkerJournalProofs
    Steering             inbox, chat turn, terminal prompt queue
      SteeringProofs
    IdleWork             idle queue, its worker, the turns that join it
      IdleWorkProofs
    Sleepwalk            schedulers, the automations store, runs
      SleepwalkProofs
    RecoveryRules        what recovery may decide, without the counters
      ^ implemented by
    Recovery             the counters of one managed task
      RecoveryProofs
    CheckedTask          what a managed task promises
      ^ implemented by
    ManagedTask          loop, coordinator, ledger, task row, reset (over
      MCManagedTask        RecoveryRules); symmetry for TLC
      ManagedTaskProofs
    LinkedSessions       the board, its terminals and the requests between
      MCLinkedSessions     the automatic links of the instance
      LinkedSessionsProofs

### InferenceLease

A *client* is a Dream process with at most one request at a time; `pc` says how
far it is.  `lock` and `record` are the slots on disk, `work[r]` is what the
engine did with request `r` (nothing, running, returned, lost).

| Code | Model |
| --- | --- |
| `_coordinator`, `_served_slots` (capacity) | `Begin` |
| `_claim`'s walk over the slots | `SkipBusy`, `SkipFenced`, `TakeSlot` |
| `request`: waiting for a live holder, or refusing | `WaitForLive`, `TimedOut`, `Refuse` |
| `request`: writing the record | `WriteRunning`, `WriteRunningFails` |
| `_enter_lease`, `_settle_lease`, `_engine_activity` | `RefusalStands`, `StartSettling`, `ReadLeftOver`, `Probe`, `ClearLeftOver`, `PollAgain`, `LeftOverChanged`, `ClaimAgain`, `GiveUp` |
| `_settle_left_over_slots` | `Sweep`, `Ask`, `SweepClear`, `SweepFails` |
| `_stream_with_retry`, `_post_retry` | `Send`, `Rejected`, `Complete`, `CutOff` |
| `request`'s exit | `ExitClean`, `ExitCut` |
| the Controls panel's confirmation | `Controls` |
| processes and the engine | `Crash`, `Restart`, `Return`, `EngineStop`, `EngineStart` |

Time is the number of engine starts: `server_started_at() > started_at` becomes
a comparison of epochs.  Waits (120 s for a live holder, `DREAM_LEASE_WAIT_S`
for a left-over record) are counted in passes.  Abstractions: `/health` reports
idle exactly when no admitted request runs; the confirmation given in Controls
is true when the record is cleared; `status()` reads all records at once (the
code checks ids again under the lock before it clears anything, and so does
the model); a client has one request; the engine's restart ends its
generations; a completion marker comes after the generation ended.

The engine may start while a request has its record but was not sent yet;
nothing in the code prevents it, and the record then looks older than the
engine.  `crossed` is history: the requests this happened to.  The properties
say of each what the code keeps: such a request is fenced while its process
works on it, and its record may be taken as stale once that process is dead,
whatever the engine still does for it.  For every other request the fence holds
to the end.

### WorkerJournal

`ledger` is what `_load` would make of the file (state of the last row, the
start of an open pause, readable or not); `view[p]` and `failed[p]` are the
object of process `p`.  Each public operation of `WorkerJournal` is an action
with the outcomes of `_append`: written, written but unconfirmed, nothing
written, or torn.  `Accepted` is the loader's check of a row after its
predecessor, so a row `_load` would refuse makes the ledger unreadable.  The
clock shows any value at each call.  `allowance`, `active`, `sent` and
`entered` are history: the time given, the time recorded while not paused, the
requests let out, the tool calls without a recorded outcome.  The binding, the
scope and snapshots are opaque; messages are counted.  Initial states include a
ledger left paused by a version that did not record when.

### Steering

`receipts` and `file` are the inbox in memory and on disk.  Each inbox
operation holds one asyncio lock throughout, and `finish_owned` makes a
cancelled caller wait for the storage call, so an operation is one step with
several outcomes; a failing save happens before the replacement of the file or
after it.  `turn` follows `_ask`: drain at the top of a round, request,
`submitted` once the response opens, then tools and another round, a cut reply
with Dream's note, an answer (with the final drain), the loop guard, the round
limit, the context stop, and the salvage request.  `EngineClose` is the
`finally` of `Engine.ask`; `Type` and `TakeTyped` are `_send_typed` and
`_take_typed`.  A half-price round (reads on a local engine) is a round;
compaction, the hand-over of history to later turns and the verifier's
requests are left out; so is the browser route's own limit across turns.
Dream's note may be taken by the inbox, kept back in it or refused by a full
one; `cut` is history, that there was a cut reply, so that
`ContinuationCarriesNote` speaks of all three.

### IdleWork

One asyncio loop: what a task does between two awaits is one step.  `worker` is
the task in `_worker`, `job` what the awaited job's task does; `CancelWorker`
delivers a cancellation to what the worker awaits.  A job may finish, raise,
cancel itself, clean up after a cancellation or swallow it.  `TurnEnds(FALSE)`
is a turn that did not complete: `Engine.ask` then leaves the queue paused.
A second `close()` and a cancelled `close()` are left out.

### Sleepwalk

`store` is `automations.json` (per automation: kept, enabled, the missed
setting, `last_slot`, and how many pending marks each slot has), `firing` the
scheduler lock, `running` the automations' own locks.  `tick[p]` is the thread
`Scheduler.due` runs in; `stop` does not end it, and one that was on its way to
the lock (`late`) may still take it and keep it until its process ends.

| Code | Model |
| --- | --- |
| `Scheduler.start`, `stop` | `Open`, `Stop`, `RunCancelled`, `Stopped` |
| `due`: the lock and the recovery of marks | `Tick`, `LateTick`, `LoadMarks`, `Recover`, `Recovered` |
| `due`: what is due, its claim, its note | `Read`, `Claim`, `NotClaimed`, `ClaimFails`, `NoteSkipped` |
| `tick`, `_run`, `runner.run` | `EndTick`, `BeginRun`, `EndRun` |
| `add_run`: the record, then the mark | `Recorded`, `RecordingFails`, `Recording` in `Crash` |
| Studio: save, delete, run now | `Save`, `Delete`, `RunNow`, `RunNowEnds` |

Time is a few instants the clock shows in any order, so it may step back; all
lie within the week in which `due` honours a future `last_slot`.  Triggers are
the set of slot instants; a slot is on time only at its own instant.  A mark is
the slot it names (the code's label has weekday and minute, so a slot of a week
later shares it).  `claims`, `passed`, `hurt` and `rewound` are history: what
was claimed to be run and to be skipped, whose recording was cut in two, and
which automations were saved while the clock was behind their last slot.  A
"run now" belongs to `Studio`, whoever asked for it, and may end or die at any
step.  A run
is one step from its start to its record: what it does meanwhile touches
neither the store nor the locks.

### RecoveryRules and Recovery

`Recovery` is one managed task's `RecoveryController` and `RecoveryRuntime`:
`ctl` the controller, `total` and `pending` the runtime, `before` what
`recovery_before_stop` keeps.  `Observe` is `RecoveryRuntime.observe` with the
controller's `observe` inside; `HandlerReturned`, `AnswerCut`, `CheckExecuted`,
`Stop`, `ResumeStopped`, `ConsumeIntervention` and `BlockTracking` are the
coordinator's calls of it, with the observations each can make.  Digests are
model values.  The runtime is rebuilt from the ledger's snapshot for every
operation, so what must hold is that `Loads` accepts every snapshot: it is the
two loaders' checks (`from_snapshot`, `RecoveryRuntime.__init__`).  The last
sequence number (`_MAX_COUNTER`, a million) blocks the task whatever it brings;
`MaxCounter` is that number, small enough to be reached.
`RecoveryRules` forgets the counters and keeps the decisions, and `FollowsRules`
shows that nothing is lost by it.

### ManagedTask

`ledger` is the state after the last complete row of `ledger.jsonl`, `row` the
receipt in the SQLite task row, `drv` the run of `AutonomousLoop.run` with its
coordinator (flags `accepting`, `stopped`, `failed`, and `dead` for a latched
ledger), `talk` what the conversation holds beyond its head.  `Record` is
`RunState.record`; every action that writes goes through it, and so may commit,
raise without a row, leave a part of a row, or commit and raise.  A row that is
too long is refused before anything is written (`Refused`); that raises too, but
does not latch the ledger.

| Code | Model |
| --- | --- |
| `run`: opening, the order of refusals, the note | `Resume`, `ReconcileAction`, `Admit`, `ClearUncertainty`, `ResumeStopped` |
| `run`: contract, attach, decisions, turns | `StartContract`, `EstablishContract`, `Attach`, `DecisionFirst`, `RecoveryReady`, `StartTurn`, `EndTurn`, `OutOfBudget` |
| `wrap_tool`, `begin_action`, `finish_action` | `BeginAction`, `FinishAction`, `ReturnUnrecorded` |
| `observe_guard_refusal`, `observe_generation_cut`, `record_observation_failure` | `ObserveRepetition`, `ObservationLost` |
| review, `record_verification` | `StartReview`, `Rejected`, `Unverified`, `Passed` |
| `complete_task`, `_complete_managed`, `checked_task_boundary` | `Complete`, `Project`, `PrepareBoundary`, `CompareArchive`, `Archive`, `Reset` |
| the three exception paths of `run`, `_drive`, `_finish` | `BudgetLimit`, `Cancel`, `Interrupted`, `TurnFails`, `HandleError`, `ReportStorageFailure`, `WriteOutcome` |

`fate` and `doubt` are history: what the world knows of each handler call, and
whether a turn went out that nobody saw end.  Abstractions: an outcome that is
not done is `need_input` or `halted`; the conversation is its head, the task's
talk or something later; the review's evidence is the task's revision; a turn's
own event rows, which change no state, are left out.

### LinkedSessions

`receipts` are the board's, `proc[n].has` those of a terminal's process,
`call[i]` the request that carries message `i` (out, accepted, refused, late,
lost with its process).  The board is one event loop: what a task does between
two awaits is one step, and `Free` lets another begin only where the last one
waits.  `watch[n]` is `_watch` with the `_settle` and the forwards inside it,
`group` the coroutine of `DeepSleep.group`; `Joined` is `_join`.  A terminal is
ready from the moment its address is found (`Discover`), also one that is being
closed and has not ended.  The instance begins with two researchers that were
found and a synthesizer that has just started.  A cancelled
watch leaves its request to its thread.  The process acknowledges, works on and
settles messages; an interrupted turn there is one that failed.

## 3. Runs

| Run | Instance | What it shows |
| --- | --- | --- |
| `lease` | 2 processes, 2 requests in all, 2 slots, 1 engine restart, 1 pass of patience | the fence, that live records stand, that what is settled is never sent, safe clearing, `EngineLanes`, and that every request that began ends |
| `lease_restart` | 2 processes, 3 requests in all, 1 slot, 1 engine restart, no patience | violated: a stale lease may be in flight (section 7) |
| `worker_journal` | 2 processes, 2 tool calls of which 1 per request, 2 rounds, 1 message, 9 rows, clock 0..4 | all journal properties |
| `steering` | 2 corrections and Dream's note, room for 2 receipts, 3 rounds, 2 failing saves | receipts, files and texts agree; corrections end; typed text is used |
| `steering_typed_twice` | the same without failing saves | violated: a text used twice (section 7) |
| `idle_work` | 3 jobs, room for 2 | turns are alone, jobs begin once, turns proceed, the queue drains |
| `idle_work_cancel` | 1 job, room for 1 | violated: a lost cancellation (section 7) |
| `sleepwalk` | 2 processes, 1 automation, 1 slot, 3 instants, at most one mishap: an edit or a failing write | a slot is claimed and recorded once, marked until recorded; nothing live is called interrupted; no mark stays for ever |
| `sleepwalk_interrupted` | 2 processes, 1 automation, 1 slot, 2 instants, no edit, 1 failing write | violated: a finished run is recorded as interrupted (section 7) |
| `recovery` | 2 calls, 2 errors, 3 facts of which 1 check; repetition limits of 2, no-progress limit 3, budget 5, 7 observations, 2 interventions, 1 help request, room for 1 digest of a kind and 2 facts | snapshots reload, budgets hold, failures stay on record, `RecoveryRules` |
| `managed_task` | 2 handler calls, 3 invocations of 2 turns, 1 failing write, 1 intervention, 1 help request; symmetry | effects remembered, Stop holds, recovery usable, originals archived, `CheckedTask` |
| `linked_sessions` | 2 researchers, a synthesizer that forwards to one of them, 3 messages, 2 events (typed prompts, lost answers, ends, closes, restarts) | routed once, receipts truthful, outcomes arrive |

Why these bounds are enough to be worth running:

* *Lease.*  Two processes on two slots are a holder of one and a process that
  waits for it, walks past it or settles a left-over record beside it while the
  slots change hands; one restart separates records of before from records of
  after, and a patience of 1 makes polling repeat and end.  Two requests in all
  leave none that could take a slot in the middle of a sweep over both; that
  case, and more processes, are the proofs' matter: they hold for any number.
* *Journal.*  Nine rows hold a run with two rounds, a tool call, a pause and
  its resume, a message, a settlement and the closing rows; two processes are a
  driver and its successor, and taking over repeats.  The bounds on tools and
  rounds are the code's own limits (128 and the round limit) made small, so
  that they are reached.
* *Steering.*  Three rounds are a first, a re-ask and the last; two receipts
  make the inbox full with a correction and a note, and two faults allow a save
  to fail after one that failed before.
* *Idle work.*  Three jobs fill a queue of two while one runs; turns repeat
  without a bound.
* *Sleepwalk.*  Process lives repeat without a bound, so every takeover of the
  scheduler lock meets every state of a run.  The instants are one before, one
  at and one after the slot.  Automations meet only in the order of a tick.
* *Recovery.*  Room for one digest of a kind makes a second one overflow; the
  phase budget leaves two observations past the no-progress limit, a single
  help request makes the last decision a block, and the seventh observation is
  the last there may be, two past the budget.
* *Managed task.*  Three invocations are a first, one that is resumed after a
  crash, a failing write or a Stop, and one that finds what the second left;
  two handler calls are one of unknown effect and one that would be let in
  beside it.
* *Linked sessions.*  Two researchers are the least whose answers are joined;
  three messages are the research and its synthesis, or a typed prompt and its
  forward; two events are a lost answer with a close, or an end with a restart.
  No message is left for a second synthesis: that there is none is proved
  (`SettlesOnce`), not checked.

`CHECK_DEADLOCK FALSE` is set where the system stops: requests are used once, a
ledger that cannot be read is refused for good, a turn ends, and the bounded
invocations and events are used up.

## 4. Fairness

* *Lease* (`FairSpec`): weak fairness of the steps of a live process.  Each is
  a call with a timeout (HTTP, the lock's non-blocking attempts, sleeps).  A
  dead process has no obligation, and the engine none to restart.
* *Steering*: weak fairness of a turn's own step and of taking typed text.  A
  turn's requests have read timeouts, and the prompt loop calls `_take_typed`
  after each turn.
* *Idle work*: weak fairness of the worker, of the end of a job, and of what
  waits for the worker.  asyncio runs every task that is ready; filing requests
  have timeouts, and the queue asks that "Factories must be cancellable async
  work" (`dream/core/idle_work.py`).  `QueueDrains` holds under the condition
  that turns at some point leave the queue alone (`<>[]~foreground`).
* *Linked sessions*: weak fairness of the board's tasks (one event loop), of
  the answer to a request, which has a timeout of three seconds, and of its
  arrival.  None of a terminal's turns, of the end of a process, or of `_wait`.
* *Recovery, managed tasks*: none; all their properties are safety.
* *Sleepwalk*: none.  `MarksSettle` is conditional: if recovery completes
  again and again, every mark goes.  Without a takeover a mark may stay for as
  long as the process lives; see section 8.

## 5. What is proved

The proofs hold for every value of the constants; TLC checked each formula
first on the instances above.

**InferenceLeaseProofs**, without assumptions beyond those on the constants:
engines may start at any time.  `LeaseInvariant` proves

    LeaseInv == TypeOK /\ LocksHeld /\ OwnRecords /\ NamesUnique
                /\ FenceIsFresh /\ SoughtIsOver

inductive.  `LocksHeld` and `OwnRecords` say which program points have a slot
and whose name its record bears, without which a step of one process could be
taken to destroy the record of another; `NamesUnique` says that a request is in
one record at most, so that settling one record says nothing about another;
`FenceIsFresh` dates the record of a running request that did not cross an
engine start to the present engine, so that a stale record cannot be its;
`SoughtIsOver` is what a process knows of
the record it asked the engine about.  From it follow `TypeCorrect`,
`FenceHolds`, `LiveRecordsStand`, `SoughtIsNeverSent`, `StaleLeaseIsOver`, the
action property `ClearingIsSafe`, and `LeaseImplementsLanes`: each step is a
step of `EngineLanes` or a stutter.  There a lane is a slot and carries the
requests in flight that the slot's record names, so a slot never has two
requests in flight, none is sent twice, and none leaves its slot before it is
over.  The exemption the code needs is in the statements: `StaleLeaseIsOver`
speaks of the requests that did not cross an engine start, the action property
lets a claim take the stale record of one that did, and the mapping counts such
a request as over from then on (`GivenUp`).

**WorkerJournalProofs**, without assumptions beyond those on the constants.
`JournalInvariant` proves

    JournalInv == TypeOK /\ ClosedUnlessLocked /\ OpenIsReadable /\ ViewIsLedger
                  /\ LedgerReloads /\ EmptyIsUnused /\ RowIsValid /\ StartIsClock
                  /\ TimeKept /\ RequestsOnRecord /\ NoEffectForgotten

inductive.  `ViewIsLedger` needs the lock (`ClosedUnlessLocked`) and the
latch; `LedgerReloads` needs `RowIsValid`, that the last row would be accepted
again; the bound on active time is not inductive by itself and follows from
`TimeKept`, which balances allowance, deadline and an open pause
(`StartIsClock`).  From it follow `TypeCorrect`, `DriverSeesLedger`,
`LedgersReload`, `ActiveTimeIsBounded`, `RequestsAreOnRecord`,
`EffectsAreRemembered` and the action property `ClosedRunsStayClosed`.

**SteeringProofs** proves `SteerInv` inductive: `TextInv`, for each text, with
`NoteInv` and `TurnInv`.  The properties speak of the file, which lags behind
memory when saves fail; so `TextInv` relates the file, memory, what the
submitter was told, the messages and the requests of one text, and says that
memory is at least as far as the file while the process lives.  `NoteInv`
follows Dream's note, taken, kept back or refused by the inbox, from the cut
reply to the request.  `TakenInv` counts the
receipts.  From it follow `ReceiptsAreHonest`, `TextsAreKept`, `NoteIsCarried`
and `SuccessIsComplete`.

**IdleWorkProofs** proves `IdleInv` inductive.  `Agree` relates the queue, the
statuses and the worker's job, and needs what no property says: that no job is
queued twice.  `TurnYields` says that a turn that has begun has set the
foreground flag, which is why no worker starts behind its back.  From it follow
`TurnsAreAlone`, `ClosedStaysQuiet` and the action property `NothingIsReplayed`.

**RecoveryProofs** proves `RecoveryInv` inductive: the snapshot and the one kept
for after a Stop are both `Good`.  `Consistent` is what the two loaders demand;
the budgets need `Paced`, which dates the counters by the interventions granted
so far - an active task is past its phase budget, or without evidence, by at
most one observation for each - and `Granted`, that no intervention is consumed
before it was granted, also when a Stop came between the two.  `StopKeeps` says
that a Stop alters nothing but the decision.  From it follow `SnapshotsReload`,
`BudgetsAreKept`, and the action properties `DebtIsKept` and `RulesAreFollowed`;
the last makes `RecoveryRules`, which `ManagedTask` builds on, a sound account
of recovery for every set of digests and every limit.

**ManagedTaskProofs** proves

    TaskInv == Typed /\ OnRecord /\ Accounted /\ RecoveryUsable
               /\ InOrder /\ Resuming

inductive.  No property says where the driver can be when the ledger says what
it says, and all of them need it.  `OnRecord`: what is owed while the driver
works belongs to its own invocation, and a handler is inside only during a turn
or after one was stopped.  `Accounted`: a running phase stands for the turn the
driver is in, so any other driver at work has accounted for it.  `InOrder`:
the receipt, the task row and the reset come from one another.  `Resuming`: a
run that goes on was admitted with nothing owed, past a Stop only with the
owner's note.  Every action writes through `Record`, which may leave the ledger
as before or as after and the driver on its error path; `RecordOutcome` says so
once, and each action's lemma only adds what it wrote.  From the invariant
follow `TaskForgetsNothing` and `RecoveryStaysUsable`; from it and a
description of the kinds of step (`KindsOfStep`: the recovery decides, a
handler is let in or its effect settled, the steps from the receipt to the
reset, a crash, and steps that do none of these) the action properties
`UnknownComesFirst`, `StopIsKept` and `OriginalsAreArchived`, and
`TaskIsChecked`: each step is a step of `CheckedTask` or a stutter.

**SleepwalkProofs** proves

    SleepInv == Data /\ PlaceTyped /\ Places /\ Account

inductive.  `Data` is about the store and the history: a slot that was claimed
is not later than the last one handled, unless the automation was saved while
the clock was behind it.  `Places` says that only the process with the
scheduler lock has runs, none of its own while it recovers the runs of an
earlier one, and none once it has stopped, although its late thread may have the
lock.  `Account` balances each slot: what is recorded, together with
what a mark, a run, a mark being recovered or a thread about to note a skip may
still record, never exceeds what was claimed - unless a recording was cut in
two (`hurt`).  That is why recovery and the run it takes for dead cannot both
record a slot.  From it follow `SlotsAreOnce`, `MarksStay` and the action
property `InterruptedWasOver`.

**LinkedSessionsProofs** proves

    LinkInv == LinkTyped /\ GroupOnce /\ WaitsKnown /\ MessagesOk

inductive.  `MessagesOk` is an account of each message: one terminal at most
has it, the target of its receipt (`HeldByTarget`); what that terminal, or an
answer of it not read to its end, says of it as finished is its outcome
(`ToldTruly`); while its request is under way nobody has it, its target lives
and its receipt is not settled, and a request that was refused was never taken
(`UnderWay`).  So a settled receipt stays true (`Truthful`), and only a receipt
that is not settled is settled and routed (`RoutedOnceAt`).  `GroupOnce` keeps
a group that was launched from running again.  From it follow `SettlesOnce` and
`ReceiptsAreTrue`, for any links and however many requests are lost: the
exemption for receipts a lost answer undid (`undone`) is the one the code needs
(section 7).

## 6. What is only model-checked

Liveness (`EveryRequestEnds`, `CorrectionsEnd`, `TypedIsUsed`,
`ForegroundProceeds`, `QueueDrains`, `MarksSettle`, `OutcomeArrives`) is beyond
the prover.  Every safety property of the passing runs, invariants, action
properties and the three refinements, is proved.

## 7. Where the code and its words differ

* `StaleIsOver` (`dream/core/inference_coordination.py:292`).  A record is
  written before its request is sent; an engine that restarts in between is
  newer than the record, and the request still reaches it.  If its owner dies
  then, the record counts as stale and a second request is sent beside it.
* `TypedOnce` (`dream/tui/app.py:2599`).  `close()` calls included corrections
  retained, and the terminal queues what is retained, although it may have been
  in a request already.
* `CancelHonoured` (`dream/core/idle_work.py:85`).  A turn cancelled while it
  waits for a job that swallows the cancellation goes on.
* `InterruptedNeverEnded` (`dream/sleepwalk/store.py:328`).  A record and its
  mark are two files; a crash between them makes a finished run an interrupted
  one.

Met in the DeepSleep board, without a run of their own:

* When a request gets no answer, `send` sets its receipt to uncertain whatever
  it said before (`dream/gui/deepsleep.py:852`).  If the terminal ended
  meanwhile, `_interrupt_receipts` had settled it, "Close and process-exit races
  must settle both research and synthesis" (line 648), and it and its group stay
  uncertain for good.  If a poll had settled it as completed, it is settled and
  forwarded a second time, although "Each completion starts routing once" (line
  897); `RoutedOnce` exempts these (`undone`).
* A restart cancels `_wait`, which may not have interrupted the receipts of the
  old process yet; they stay open.
* Closing a terminal cancels the forward its watch is waiting for: the receipt
  of the target stays in "sending" until a poll of the target finds it, and a
  group whose synthesis it is stays in "joining".

## 8. Hazards without a property, and oddities met

* `LinkedMessages` keeps 128 messages and drops none
  (`dream/core/linked_sessions.py:111`); the prompts the owner types count, so
  the 129th raises `ValueError` in the terminal (`dream/tui/app.py:1895`).
* A pid that is reused keeps a dead owner's record fenced until the owner of
  the machine clears it in Controls; the model gives processes identities.
* The confirmation in Controls is taken to be true when the record is cleared.
* `_send_typed` (`dream/tui/app.py:2585`) catches only `ValueError`: typed text
  whose first save raises `OSError` is in neither inbox nor queue.
* After a turn that did not complete, idle work waits for one that does
  (`dream/core/engine.py:1512`).
* `WorkerJournal.resume` has no caller outside the tests; the 129th tool call
  of a request latches the journal instead of being refused.
* `Scheduler.stop` does not end the thread of its tick, which may even take the
  lock after the stop and keep every other Dream process from firing runs until
  its own process ends (`dream/sleepwalk/scheduler.py:58`).  A thread that goes on
  after the lock was given up may record marks a second time, or record a run
  of the next process as interrupted; `RecordedOnce` and `InterruptedIsOver`
  exempt what such a thread recovers, and say so.
* A slot claimed to be skipped has no mark: a crash before its note leaves it
  neither run nor recorded, although `scheduler.py:4` promises one of the two.
* When recovery fails part way, the process has the lock and never recovers
  the rest (`scheduler.py:58-64`).

## 9. What is not modelled

Parts that decide over text or values without state worth interleaving
(policy, stream guards, context budget, formatting), that are input and output
(providers, web, MCP, Studio's pages, desktop), and those of the plan below.
Within the modelled parts: the checks of folders and file modes, JSON shapes
beyond what makes a ledger readable, the calendar arithmetic of `latest_slot`,
the runner of an automation; of managed tasks the child delegations, the saved
parent conversation, assisted stages, the phase runner and the evaluator; of the
board its native terminals, handoffs, sends by the owner or an agent, and the
changing of links.

## 10. Plan

1. `DurableWorker`: the delegated worker loop over `WorkerJournal`, with the
   hand-over of its result to the parent task (`record_child_return`), crashes
   between each two steps, and the owner's pause and stop.  Abstract
   specification: each effect is let in once and each result handed over once.
2. `ManagedTask`: the assisted stages (`needs_help` consumed by a help request)
   and the parent's child delegations, whose results `DurableWorker` hands over.
3. `EngineGuard`: the inherited launch lock and the guard, composed with the
   engine of `InferenceLease`.
4. `Frontier`: attempts and versions; `Media` jobs.
