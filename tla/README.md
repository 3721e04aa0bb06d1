# QQ-Agent-Bridge in TLA+

The bridge is one asyncio process between a OneBot gateway (QQ messages) and an
Agent CLI. Everything it decides is decided between two `await`s of one event
loop, and beside it there is only the thread of a storage cleanup. Everything
that can go wrong goes wrong across the `await`s, across the SQLite
transactions of its two stores, and across the death of a process. These
modules model that: the state each part keeps, one action per operation, and
what the parts promise. Paths below are relative to `src/src/qq_agent_bridge/`.

Contents: [inventory](#1-inventory), [plan](#2-plan),
[the modules](#3-the-modules), [runs](#4-runs-and-bounds),
[fairness](#5-fairness), [proofs](#6-proofs),
[disagreements found](#7-disagreements-with-the-repository),
[not modelled](#8-what-is-not-modelled).

## 1. Inventory

| Part (files) | State | Operations | Hard behaviour | What makes it correct |
|---|---|---|---|---|
| Storage gate (`storage_gate.py`) | counters, condition, two ContextVars | `activity()`, `maintenance()` | waits that are cancelled, nested blocks, inherited contexts, wake-ups in vain | exclusion, no lost wake-up, maintenance not starved, no self-deadlock |
| Scheduler and store (`scheduler.py`, `schedule_store.py`) | tables `schedules` and `schedule_runs`, loop task, run tasks, wake event | `create`, `pause`, `resume`, `cancel`, `run_now`, `tick`, `start`, `stop`, recovery | crash between two transactions, reload while runs unwind, late finish of a recovered run, misfires, timed waits | one run per schedule, each occurrence dispatched or written off once, counters true, nothing stuck |
| Job policy (`policy.py`) | `jobs`, `seen`, a semaphore | `start_job`, `approve`, `cancel_by_ref`, `_run`, `cleanup`, `reload_config` | handlers that suspend while they send, cancellation at any point of a task | limit respected, approval before code runs, stop is final, live jobs can be found |
| App (`main.py`) | the parts, reply tasks, reload lock | command handlers, `_reply_when_done`, `_reload_config_locked`, `run` | a reload with several stages that can each fail, shutdown order | old configuration restored completely, results delivered once |
| Reply delivery (`artifact_delivery.py`, `outgoing_resources.py`, replies in `main.py`) | outbox, staged copies, delivery outcome, repair tasks | inspect, repair, send resources and chunks, clean up | part of a reply fails, a repair answers late | success and memory commit only for what was delivered whole; every reply ends |
| Storage maintenance (`storage_maintenance.py`) | protected paths, loop, its thread, summary | run, protect, pressure check, stop | a candidate comes into use after the inventory; a cancelled pass leaves its thread | a protected path is never deleted, requests are not lost, the thread works alone |
| OneBot adapter (`onebot.py`) | connections, pending actions by echo, recent messages | send, call, complete, disconnect | late, lost and duplicated answers, reuse of an echo | an answer reaches only the call it is for |
| Proactive speaker (`proactive.py`) | batches, timers, work in flight, generation | observe, flush, reset, begin/commit/rollback handoff | an evaluation that spans a reload, a cancellation that is swallowed | no message lost or answered twice by a handoff |
| Configuration and reload (`config.py`, stores, `main.py`) | file, configuration of each part | `/reload`, `/permission`, `/mode`, `/profile` | a part fails after others have moved; a command during a reload | all parts agree again, an override stays |
| Agent adapter and trace (`cursor_adapter.py`, `agent_trace.py`, `progress_directives.py`) | process group, stream, retries, trace file | run, stream, retry, kill, record | process that outlives its run, retry after side effects, message or progress, the trace's limit | everything said is shown once, nothing is left running, the trace fits |
| Memory review (`memory_review.py`) | dirty scopes, deadlines, attempts, tasks | notify, `run_due`, `review_now`, maintenance, `stop` | interruption by interactive work, back-off, expiry | a cancelled review applies nothing, a backlog is reviewed again |
| Memory store and curation (`long_term_memory.py`, `memory_curation.py`) | items, revisions, index, buffered sources | commit of a review or a job, decay, delete | decisions of the validator against a database that changes with each operation | evidence, sensitivity and versions hold on every path |
| Memory commands (`memory_commands.py`) | pending confirmations | remember, correct, confirm, forget, clear, on, off | a command between a snapshot and its commit | no lost update |
| Agent memory sessions (`agent_memory.py`) | a directory and a snapshot per job | prepare, inspect, commit, cleanup | another writer between snapshot and commit | commit only after delivery, of what is still current |
| Resources, caches, short-term memory, progress limits, parsers, help | see PROJECT.json | | mostly I/O and text | |

How they interact. `App._handle` runs as a task per message (`onebot.py`,
`_dispatch_event`), so any two handlers interleave wherever they send.
Handlers start jobs of `Policy`; a job's runner takes an activity lease of the
gate and calls the Agent adapter; its reply task waits for it, inspects the
outbox, perhaps repairs, sends, and commits the job's memory. The scheduler's
loop claims a due schedule and runs `App._execute_schedule`, which starts a job
and waits for it and for its reply. `/reload` stops or starts the scheduler,
hands over the proactive speaker, reloads long-term memory, swaps the
configuration and tells `Policy`; any failure before the swap rolls back.
Memory review and storage maintenance take the maintenance lease. Reviews,
commands and jobs write the same memory items.

The hazards of this code, each at its line and with the properties that would
catch it, are listed in PROJECT.json.

## 2. Plan

Order: the parts whose failure loses or repeats work first. All of it is done
but the last point.

1. `StorageGate`, refining `Lease`; proofs in `StorageProofs`.
2. `ScheduleRuns`, refining `OccurrenceLedger`: scheduler, store, and reload,
   crash and restart as they see it; proofs in `ScheduleRunsProofs`.
3. `JobLifecycle`: policy, launch, approval, stop, reply; proofs in
   `JobLifecycleProofs`.
4. `OneBotActions`, refining `ActionReceipts`; proofs in `OneBotActionsProofs`.
5. `StorageMaintenance` and, over it, `ReplyDelivery`: replies, repairs, memory
   commit and cleanup beside a thread that deletes; proofs in
   `StorageProofs`, too.
6. `MemoryReview`; `MemoryItems`, `MemoryCuration` and, over both,
   `MemoryWriters`; the proofs of all four in `MemoryProofs`.
7. `ProactiveSpeaker` and, over it, `ConfigReload`: one reload with all its
   parts and its rollback; proofs in `ConfigReloadProofs`.
8. `AgentTrace` and, over it, `AgentRun`; proofs in `AgentRunProofs`.
9. Left: `Recurrence`, the anchored and re-anchored next occurrence, `COUNT`,
   and the misfire plan over a small calendar with a gap, against a reference.
   It needs a model of `dateutil` and of zone rules, which are not in `src/`.

## 3. The modules

### StorageGate, Lease

`StorageActivityGate` completely. A task is idle, waiting for or holding an
activity lease, or the same for maintenance. `activeCount`,
`maintenanceActive` and `maintenanceWaiters` are the three fields; `owner` and
`depth` are the ContextVars, which belong to a task and are copied when it
creates a child (`inherited` is what a block restores them to). `notified` is
the set of sleepers whose condition future is done. The condition's lock is
never held across a suspension, so it is not modelled: an acquire, the
predicate and the assignments after it are one step. `Condition.wait_for` is a
loop, so a notified task may find its predicate false and sleep again
(`WakeActivity`, `WakeMaintenance`), and a cancelled `wait` hands its wake-up
to one other sleeper (`CancelActivityWait`). Waiting tasks may be cancelled at
any time.

`Lease` is what callers rely on: shared leases, one exclusive lease, and no
shared lease while somebody waits for the exclusive one. `ImplementsLease`
maps the holders and waiters to sets of tasks.

### ScheduleRuns, OccurrenceLedger

`sched` and `run` are the two tables (`next` is `next_run_at`, `consecutive`
is `consecutive_failures`); `pruned` are the rows that the history limit
deleted. `task`, `tracked` and `cancelling` are the asyncio tasks,
`_run_tasks` and cancellations under way. `loop`, `wake` and `alarm` are the
dispatch loop, the event and the end of its timed wait; `batch` is what
`list_due` returned.

| Code | Action |
|---|---|
| `Scheduler.create/pause/resume/cancel/run_now` via `/schedule` | `Create`, `Pause`, `Resume`, `Cancel`, `RunNow` |
| `_run_loop`, `tick`: query, misfire update, claim, wait | `Turn`, `WriteOff`, `Claim`, `Rest` |
| `_execute`, done callback | `Begin`, `Abandon`, `Finish`, `Discard` |
| `_reload_config_locked` up to the end of its transition | `BeginReload`, `StopEnds` |
| its success, its rollback | `Commit`; `Rollback`, `Restored` |
| process death, `App.run` | `Crash`, `Boot` |

`tick()` contains no `await`, yet each of its transactions is a step, since the
process can die between them; while a tick is under way only a crash
interleaves. Recurrence rules are the set of due times they produce.
Simplifications: the wait of `stop()` for the cancelled loop is merged with the
step that cancels it; `Boot` is recovery and start in one step, at the same
database path (a reload that moved it is undone before the restart); the poll
of the loop every hour when nothing is due is left out, so that no property can
rest on it; the clock does not go back; SQLite never fails.

`OccurrenceLedger` is the promise about each occurrence: settled in order,
dispatched when due and at most the grace period late, written off only with an
occurrence older than that, and the newest due one is not written off while it
is within the grace period. `Fate` computes what became of an occurrence from
the tables.

### JobLifecycle

`state`, `nonce`, `task` are the fields of `Job`; `listed` the keys of
`Policy.jobs` in insertion order; `semaphores` every semaphore the policy has
had, because a task keeps the one it entered; `pending` the handlers suspended
in a send. `asyncio.Semaphore` is external: FIFO, with slots granted to waiters
before they run, as in Python 3.13, which `pyproject.toml` requires.

| Code | Action |
|---|---|
| `start_job` from a chat command, `/code`, `_start_schedule_parse_job`, `_execute_schedule` | `Submit` |
| the rest of these handlers after their message; `/approve` after its own | `Sent`, `SendFails` |
| `approve`, `cancel_by_ref`, `reload_config`, `cleanup` | `Approve`, `Stop`, `Reload`, `CleanUp` (in every action that ends with it) |
| cancellation of `_execute_schedule` | `Interrupt` |
| `_run` | `Enter`, `Acquire`, `CancelWait`, `EndRun` |
| `_reply_when_done` | `Collect`, `Deliver` |

`OtherCommand` is the end of a handler that has only its cleanup left.
`approved`, `replies`, `orphaned` and `revived` are history variables: no guard
reads them. Simplifications: a job is named by its id (no index or prefix); a
runner that is cancelled unwinds with `CancelledError`; shutdown, which cancels
the reply tasks and ends the process, is not modelled.

### OneBotActions, ActionReceipts

`_send_action` and `_call_action` differ in what a caller gets (an exception or
None), and only the first checks its echo; a call of the second takes an echo
from the clock, which no other call has. `status` is where the coroutine of a
call is (suspended in `conn.send`, or waiting for its future), `interrupt` the
exception that a timer or a cancellation will throw into it, `pending` and
`target` the two dictionaries, `reader` the coroutine `_serve` of a connection,
`open` the sockets. A future that is done only makes its caller ready: the
cleanup in the `finally` block is a later step (`Resume`, `Written`), and an
exception thrown in between wins. A connection stays in `_conns` until its
reader has read what had arrived and seen the end (`Leave`), so a call may
choose a closed one. The first connection after `/reboot` runs the connected
callback, which sends the restart notice before the connection is read.

| Code | Action |
|---|---|
| `_send_action`, `_call_action` up to their first suspension | `Refuse`, `Begin` |
| `conn.send` returns or raises | `Written`, `WriteFails` |
| `wait_for`: timer, cancellation, resumption and cleanup | `Timeout`, `Cancel`, `Resume` |
| `_serve`: a connection opens, an answer is read, the end | `Connect`, `Receive`, `Leave` |
| `stop` before and after `wait_closed` | `BeginStop`, `FinishStop` |
| gateway and network (external) | `Answer`, `Drop` |

The gateway answers a frame at most once, in any order; a socket may close with
or without what had arrived. Simplifications: an answer is "ok" or not, each
kind of call by its own test; `stop()` closes all sockets in one step; the
cancellation of the dispatch tasks inside it is one of the cancellations that
may happen at any time. `ActionReceipts` is what callers rely on: "ok" is the
receipt of one execution under the echo of the call, and of no other call.
Any other end promises nothing: the gateway may have executed the action.

### MemoryReview

`MemoryReviewCoordinator` over the review buffer of the store. `buffer` holds
the rows, `attempts` their `attempt_count`, `retryLater` those whose
`next_attempt_at` is ahead; `dirty` is `_dirty`, `sched` and `queue` the
scheduler task and the scopes left in the loop of `run_due` or `run_periodic`;
`pc`, `scope`, `sources` are the tasks inside `_review_scope`. `cancelled` are
the tasks whose `cancel()` was called, `outdated` those whose captured epochs
no longer agree with `_background_epoch` or `_all_review_epoch`. Both matter: an
Agent may have returned when the cancellation is requested, or suppress it, and
then only the epochs keep its proposals out. `input` is the review whose data
lies in the file that every review hands to its Agent.

| Code | Action |
|---|---|
| `_collect_long_term_event`, `notify` | `Collect` |
| `_scheduler_loop`, `run_due`, `run_periodic`, `_run_background` | `SchedulerTurn`, `SchedulerResumes`, `SchedulerDies` |
| `review_now` | `ReviewNow` |
| `_review_scope`: the lock, the gate, the Agent | `BackgroundBegins`, `LockGranted`, `GateGranted` |
| what follows the Agent; `except CancelledError` | `CuratorReturns`; `Swallow` |
| `cancel_background_for_interactive` before a job or command | `Interactive` |
| `_maintenance_loop`, `run_maintenance` | `MaintenanceTurn`, `MaintenanceEnters` |
| `set_scope_enabled`, `reload` | `SetScopeEnabled`, `Reload` |
| `stop`: up to the first gather, between, the end | `BeginStop`, `LoopsEnded`, `ReviewsEnded` |

SQLite is synchronous, so a commit is part of one step and `_commit_started` is
never seen true. Time is what a comparison with the clock tells: a deadline is
ahead or has passed (`IdlePasses`, `IntervalPasses`, `RetryPasses`). A pass of
the loop reads the clock once; sources whose deadline passes during it (`late`)
are not due for it. Since back-off counts from that reading, it may be over
when a failed review records it. Simplifications: `start()` is part of `Init`, with
any buffer an earlier process may have left; the order of scopes in a pass,
the age of rows and which of its sources a commit consumes are left open; the
limit on the number of sources of one review is not reached; attempts are
counted up to `max_attempts`, which is all that is compared; the event `_wake`
is left out, because no suspension lies between reading the deadlines and
clearing it; jobs hold the gate only through the tasks modelled here; each task
of an explicit review is used once; decay, the second App puts as limit on
`stop()` and the close of the store after it are not modelled.

### StorageMaintenance, ReplyDelivery

`StorageMaintenance` is the loop of `StorageMaintainer` and the thread in which
a pass runs. A path is `<<kind, owner>>`; `disk` is what exists, `protected`
the subtrees that were protected, `leases` who holds an activity lease. `loop`
is where the coroutine is (`unwind`: a cancelled run that still waits for its
thread), `worker`, `inventory` and `doomed` the thread: the scan, the
candidates left, and the one that has passed its last `is_protected`. The gate
is its rule (an activity enters unless maintenance waits or holds); its queues
are `StorageGate`'s. Which files have expired or exceed their area's share is a
choice, and what a scan skips counts as a deletion that fails.

`ReplyDelivery` adds the jobs: the outbox is made and protected before the job
is launched, the run takes its lease, the session's directory is made, and the
reply task inspects, asks for a repair, sends and cleans up while the thread
deletes. `launch`, `run`, `reply`, `repair` are where these four stand for a
job; `answer` is what the Agent named, `made` what lies in the outbox, `staged`
and `missing` what the first inspection found.

| Code | Action |
|---|---|
| `StorageMaintainer.run`, `_run_sync`, `delete_candidate` | `EnterGate`, `Scan`, `Choose`, `Unlink`, `PassEnds`, `WorkDone` |
| `_maintenance_loop`, `request_pressure_check` | `TimerFires`, `Woken`; `RequestPressure` (in every cleanup) |
| `reload_config`, `stop` | `ReloadStorage`, `StopMaintenance` |
| `_configure_outgoing_resources`, `_schedule_reply` | `MakeOutbox`, `Protect`, `Launch`, `Abandon` |
| `_agent_runner`, `_prepare_agent_memory_session` | `EnterRun`, `RunEnds` |
| `inspect_outgoing_resources`, `resolve_artifacts` | `Inspect` |
| `_repair_outgoing_artifacts` and its task | `StartRepair`, `EnterRepair`, `RepairEnds`, `RepairTimeout`, `LateRepairEnds` |
| `_reply_when_done_inner` | `SendResource`, `ResourcesDone`, `SendChunk`, `ReplyDelivered`, `TextFails`, `NoReply` |
| `App.run`'s `finally` | `Shutdown`, `ReplyCancelled`, `DrainRepairs`, `StopStorage`, `CloseMemory` |

Simplifications: what the Agent answers and which of its files pass the checks
is a choice; an answer that starts with `[timeout]` goes through the same
discovery of a lone file as any other, as in the code; a job that was made and
never launched (`Abandon`) keeps its paths protected, as in the code; messages
that start jobs during shutdown are not modelled. Nothing but the thread
interleaves with `_configure_outgoing_resources`, which has no `await`: the
coroutines are disabled while a job is `Making`.

### ProactiveSpeaker, ConfigReload

One group chat. `batch` is what `observe` collected, `timer` the flush task that
`_timers` knows, `task` all flush tasks (an old one may live on), `work` the
`_ProactiveWork` objects, `inflight` and `resumable` those that the two
dictionaries hold. `generation` unites the runtime generation and the identity
of the speaker: a task whose generation is not the current one may have no side
effect (`MaySideEffect`). A cancellation may be swallowed by the Agent or by a
send, as a test of the repository has it (`tests/test_proactive.py`, about line
1340), and the drain of a stop gives up after a second and leaves such a task
behind. A send counts when it begins.

`ConfigReload` composes this with `/reload`: a configuration is the override
that commands set and the rest of the file. `app`, `scheduler`, `memory` and
`speakerCfg` are what each part runs under, `reload` is where the reload stands
and what it has read.

| Code | Action |
|---|---|
| `observe`, `reset_chat` | `Observe`, `Reset` |
| `_flush` between its waits | `FlushStep`: `FlushBatch`, `FlushSilent`, `Resume`, `AgentAnswers`, `AgentFails`, `SendReturns`, `SendNext`, `Cancelled` |
| `_reload_config_locked` | `BeginReload`, `SchedulerMoved`, `SchedulerFails`, `Drained`, `CommitReload` |
| its failure | `MemoryFails`, `RollbackReload`, `Restored` |
| `/permission`, `/mode`, `/profile`; an editor | `SetOverride`; `EditFile` |

Simplifications: the gates on rate, cooldown and number of messages are one
choice (`FlushSilent`), so what a reload forgets of them (`proactive.py`, about
line 585) and the seen ids it drops do not matter; the delay between replies is
above zero; `remembered` and `rate_recorded` are set in one step; an answer is
the number of its replies; whether the scheduler runs is `ScheduleRuns`';
`decide_mention` and the stop of the speaker at shutdown are not modelled.

### AgentTrace, AgentRun

`AgentTrace` is operators on a trace: what `record` writes, drops or replaces
by the truncation marker, in units of an event. `AgentRun` is one
`CursorAdapter.run`: `leader` and `helper` are the process and something it
started that holds the pipe open, `code` what its exit and output will be
classified as, `events` what it has said, `pending` the assistant message whose
fate is open until the next event, `shown` what became progress, `delta` what
became output, `directives` the resources retained from messages. `left` is the
time to the deadline.

A run with a progress callback (`streaming`) reads line by line: its answer is
the output or the pending message, and then every declared resource once
(`Retain`, `seen_outgoing_directives`). A run without one returns what
`communicate` read, less the progress lines (`Plain`): a resource declared twice
is there twice, where it was said, and the trace is written only at the end
(`Recorded`).

| Code | Action |
|---|---|
| `run` up to the launch; `create_subprocess_exec` | `Refuse`, `Launch`, `LaunchFails` |
| `_communicate_streaming`, `_stream_event_from_line` | `Listen`, `Says`, `Odd`, `Blank`, `FinishOddly` |
| the end of the stream: answer, fallback model, retry | `Finish`, `DelayOver` |
| `wait_for`, cancellation, `_kill_process_group` | `TimesOut`, `Cancel` (both with `Killed`) |
| the Agent's process and what it starts (external) | `StartHelper`, `HelperExits`, `Exits`, `Tick` |

`Odd` is a message with a lone surrogate, `Blank` an empty line. Standard error
only counts where the output is classified, and as the one record of its raw
text in the trace, without those of its lines. One event declares a resource at
most once, several may declare the same. The `await` of
`create_subprocess_exec` is a part of `Launch`. The cut at `max_output_chars`,
partial deltas of one message, the sandbox's command line, and the limits and
heartbeats of `ProgressReporter` are not modelled.

### MemoryItems, MemoryCuration, MemoryWriters

The items of one private chat about one subject. `MemoryItems` is the store as
operators on a database: each operation of a transaction maps it to the set of
databases it may leave, and `ok = FALSE` is the exception that rolls back. A
fact is a content with its category; contents that differ only in sensitivity
are one fact. `MemoryCuration` is the validator: it decides a whole batch
before the store applies it, on the database and on what it stages.
`MemoryWriters` are the actors.

| Code | Action |
|---|---|
| `MemoryReviewCoordinator.review_scope`: validate, `commit_review` | `Review` |
| `MemoryCommandService`: remember, correct, confirm, forget | `Command`: `Remember`, `Correct`, `Confirm`, `Forget` |
| clear in two messages, its expiry, on and off | `AskClear`, `Clear`, `ClearExpires`, `SetEnabled` |
| `AgentMemoryManager.prepare`, `commit`, `cleanup` | `Prepare`, `Deliver`, `Discard` |
| `apply_decay` | `Maintain` |

Each handler is synchronous from its validation to its commit; only a job works
between its snapshot and its commit. Simplifications: scores, expiry dates and
the exemption from decay are a choice in `Decayed`; whether the cited messages
support a proposal, consent and subject are choices of the proposals, except
that a direct assertion is demanded of one that can activate an item; the limit
of a snapshot is not reached; a commit of the same job is not replayed; a
curator may call an addition sensitive, of an existing row only what the
classifier calls so as well (`_target_metadata_mismatch` refuses the rest), and
may put a row to sleep by a revision; short
ids and list positions are the ids, which are never used again; status
`rejected`, which nothing produces, is left out; which of several equal rows is
the duplicate, the newest in the code, is a choice, also where an Agent's new
note meets one (`AgentNote`).

### SetInduction

Induction on the naturals and on intervals, and recursion on an interval, stated
for sets and functions instead of operators so that the provers can use them
([proofs](#6-proofs)).

## 4. Runs and bounds

These runs pass (`items_evidence` finds its violation) in at most a few minutes
each; every property of a passing run has a mutant in PROJECT.json, a plausible
bug in a mapped definition that makes TLC find it violated.

| Run | Instance | Properties |
|---|---|---|
| `gate` | 3 tasks, nesting 2 | `LeaseIsOwn`, `MaintenanceNotStarved`, `ActivityResumes`, `ImplementsLease` |
| `schedule` | 1 schedule due at 1 and 3, grace 1, 2 slots, failure limit 2, history 1, clock to 3, 3 runs, 1 manual run, 1 crash, 1 reload or shutdown | `RunningRowIsLive`, `RunsExclusive`, `CountersAddUp` |
| `schedule_pair` | schedules due at {1, 3} and {1}, 1 slot, 1 crash | `ImplementsLedger`, `DueIsSettled` |
| `jobs` | one chat job, one `/code` job, one scheduled job, limit 1, 1 reload, 1 finished job kept | `RunningWithinLimit`, `ListedWhileLive`, `ActiveIsOwned`, `StoppedTaskStays` |
| `jobs_live` | three jobs for one slot, no reload | `ReplyFollows` |
| `actions` | the restart notice, a progress message and its repetition with the same echo, 1 connection, stop | `WaiterIsRegistered`, `ImplementsReceipts`, `StopFinishes` |
| `memory` | 1 scope, 2 messages, threshold 2, minimum 1, 1 attempt, 1 explicit review, 1 interruption, 2 changes of configuration | `InputIsOwn`, `SourcesRemain`, `CancelledNeverCommits`, `BacklogIsReviewed`, `StopFinishes` |
| `storage` | 1 job with 1 file and a lone-file discovery, 2 chunks, room for 1 path, 1 reload, shutdown | `CommittedIsDelivered`, `SuccessIsComplete`, `ThreadRunsAlone`, `LiveWorkSurvives`, `PressureHandled`, `ReplyEnds` |
| `proactive` | 3 messages, batches of 2, 2 replies, 3 tasks, 1 reload, 1 edit, override or reset | `AnsweredOnce`, `Accounted`, `PartsAgree`, `Settles` |
| `agent` | 2 models, 2 events of 7 forms per process, 1 resource, 4 units of time, a trace of 5 | `SaidOnce`, `RetriesAreSilent`, `NoneLeft`, `TraceFits`, `RunEnds` |
| `items` | 3 facts (a project, a sensitive one, a preference), 3 rows, 2 jobs, a review of 2 proposals, 2 commands | `SensitivityAgrees`, `NoLostNote`, `ReviewsKeep` |
| `items_evidence` | 2 facts, 2 rows, 2 reviews of 1 proposal | `ActiveHasEvidence` is violated, see section 7 |

The other configurations are for running by hand (`tlc -config X.cfg M`): larger
or different instances, and the violations that section 7 describes.

| Configuration, module | Shows |
|---|---|
| `actions_pair`, `MCOneBotActions` | the safety properties with 2 connections, two calls of one echo |
| `actions_live`, `MCOneBotActions` | every call ends with 2 connections, `EveryCallEnds` |
| `delivery`, `MCReplyDelivery` | two files, a repair that brings one, `SuccessIsComplete` |
| `actions_notice`, `schedule_pause`, `jobs_stop`, `memory_retry`, `outbox_race`, `override_lost`, `agent_trace`, `agent_blank`, `items_batch` | violated, one bullet each in section 7 |

Why the bounds are enough for the cases that matter. Gate: one task that holds
a lease, its child or a second holder, and one that waits for maintenance give
every pairwise interaction, two levels of nesting distinguish the re-entrant
branch. Schedule: two occurrences with grace 1 give a timely, a late and a
missed dispatch and an end of the rule; three runs cover one that is
interrupted, one manual and one after recovery; one crash or reload can fall
between any two steps. A second slot lets a second run of the same schedule
start if the check for running rows were missing; a single slot in
`schedule_pair` makes two schedules compete. Jobs: with one slot and three jobs
there is one that runs, one that holds a granted slot and one behind it; a
limit of one finished job prunes as soon as there are two; the reload replaces
the semaphore, and the theorem has every limit. Actions: a call and its
repetition show every collision of a late answer or a late cleanup with a newer
call; calls with other echoes share only the connection with them, which the
notice does; for several connections there are the theorem and `actions_pair`.
Memory: one background and one explicit review meet at the lock, the gate and
the file in every order; with a threshold of two and a minimum of one a scope
may be due for the threshold, for the periodic pass only, or deferred after its
one attempt; two changes disable memory and enable it again while an Agent
works. Storage: the three paths of one job are more than fit, so each cleanup
asks for a pass and every path of the job is wanted by the thread; jobs share
nothing but the gate and the thread, and the theorems have any number of them.
Proactive: three messages give a batch that is full, one that overflows and one
in flight beside one that collects, and a step that would need one task or
one work more than there are is not taken; one reload meets a flush at each of its
waits, and a task that swallowed its cancellation lives on beside the next two.
Agent: two events show a message followed by each form, or by the end, and a
resource declared twice, by messages or by output, with progress or without; the
delays of the retries (1 and 2) fit once, twice or not at all into four units; a
trace of five takes the events of one process and not those of a second. Items:
a review, a command and a job on the same rows in any order, with a sensitive
and an insensitive fact of one category; a batch of two has a proposal decided
on what another staged; the theorems have batches of any length. Runs set `CHECK_DEADLOCK FALSE` where the system may
rest when the bounded inputs are used up, which is everywhere but in the gate.

What some properties leave out, on purpose and visibly: `RunsExclusive` excludes
manual runs accepted while no dispatch loop ran (`offLoop`), since a reload in
progress takes commands, `stop()` forgets the runs they start, and the next
`start()` closes their rows while they execute. `RunningWithinLimit` and
`ListedWhileLive` exclude jobs started after they had been stopped (`revived`).
`ActiveIsOwned` excludes jobs whose launch failed or that were cancelled before
their first step (`orphaned`): such a job stays `queued` and blocks later
changes of the limit until it is stopped. `WaiterIsRegistered` excludes calls
whose entry was withdrawn by the cleanup of an earlier call with their echo
(`evicted`): `_send_action` pops what is registered under the echo, not what it
registered, and between an answer and the cleanup the echo is free.
`BacklogIsReviewed` excludes a scheduler task that has ended (`sched = "off"`);
`RetriedLater` is the same promise without the exception, and fails.
`SuccessIsComplete` lets a lone file stand for a single wrong name, as
`discover_unique` does. `NoneLeft` excludes a process that had exited by itself:
`_kill_process_group` returns when the leader's return code is set, and a helper
that it started then lives on.

The type invariants of the modules with proofs are theorems and are left out of
the runs, as are invariants that only serve a proof.

## 5. Fairness

The event loop runs every ready task, so task steps are weakly fair. An Agent
run ends: it is cut off after `max_runtime_seconds`; a send is answered or times
out after a fixed time. In `StorageGate` leaving the outermost block is strongly
fair because a body opens and closes finitely many nested blocks, each of which
disables the step for a while. In `ScheduleRuns` run tasks are strongly fair:
they are disabled during each tick, and the loop takes its turns between them.
In `OneBotActions` timers, readers and resumed callers are weakly fair, and so is
the end of a suspended write, because the keepalive of the WebSocket closes a
connection whose peer does not read. In `MemoryReview` the scheduler, the reviews
(an Agent is cut off by `timeout_seconds`), a maintenance pass that waits for the
gate, the retry and interval deadlines and the steps of `stop()` are weakly
fair; nothing makes messages arrive, a scope stay idle, or rows expire.
In `ReplyDelivery` the thread, the reply of each job, a running Agent and a
repair are weakly fair. Entering a run is strongly fair, since the gate is free
again and again for a waiting run (`StorageGate` proves and checks that it is
let in); so is the wake-up of the maintenance loop by its event: `wait_for` on
an event that is set returns at once, so the timer can win its race only when
both are ready. In `ConfigReload` each flush task and the reload are weakly
fair: an evaluation is bounded by the Agent's time limit and a drain by a
second. In `AgentRun` the adapter and time are weakly fair; the Agent's process
is not, and may say nothing and never exit.
Nothing makes a user, the operator, the gateway or the clock act, and nothing
makes a process stay up: `DueIsSettled` assumes that the loop eventually stays
up and connected, `ActivityResumes` that maintenance is eventually no longer
asked for.

## 6. Proofs

Each proof module holds theorems about one module for every value of its
constants that satisfies the assumptions named there. The argument is always
the same: an inductive invariant `IInv` with one lemma per action, a lemma that
every step preserves it, and theorems that read the properties off it.

`StorageProofs` holds, first, theorems about `StorageGate` (its specification is
`GateSpec`, and so on, since `ReplyDelivery` has its own) for every finite set of
tasks and every nesting bound, from the three assumptions the module names.
The inductive invariant `IInv` is `TypeOK`, `LeaseIsOwn`, `CountersAgree`,
`MaintenanceExclusive`, `NoLostWakeup` and `ForeignInheritance`. The last is the
strengthening: the context a task was created with never names the task itself,
so that a reset of the ContextVars at the end of a block cannot restore a lease
of its own. `CountersAgree` is needed for exclusion (the guard reads
the counters, the property speaks of tasks), and `NoLostWakeup` for its own
preservation across sleeps. The counting steps rest on lemmas about the
cardinality of a set that gains or loses one task. From `IInv` follow the five
invariants and, step by step, the refinement of `Lease`.

`OneBotActionsProofs` holds the same for `OneBotActions`, for any calls, echoes
and connections, from the assumptions of the module: that `None` is neither a
call nor a connection, that constants have their types, and that a call which
takes its echo from the clock shares it with no other (`ClockEchoes`). The
inductive invariant adds to the four invariants of the run what they rest on:
a call that has not begun left no trace (`NewIsBlank`), the phases of a call and
its future agree (`Phases`), an answer that completed a call was given and is no
longer in a buffer (`AnswersAreReal`), it completed no other call
(`AnswersAreOwn`), and a result comes from an answer (`ResultsAreAnswers`).
`AnswersAreOwn` and `AnsweredOverItsConnection` are what the refinement of
`ActionReceipts` needs: the step in which a call ends "ok" finds the receipt.

`MemoryProofs` holds, first, theorems about `MemoryReview` (`ReviewSpec`) for any
scopes, sources, explicit reviews and limits, from the assumptions of the module.
`ReviewIInv` adds two parts to the type, the file and the buffer: at most one
review is past the lock (`Alone`), which makes the file its own, and a
cancelled review past the lock has seen its epoch change (`Fenced`), which is
why `CuratorReturns` cannot commit for it. `SourcesRemain` rests on `Alone`
against other reviews and on the gate against expiry.

Its second part is about the items, for any facts, ids, jobs, and lengths of a
batch. What holds of the database between any two operations is `Good`: the
support, the schedule's notes and the targets of candidates refer to rows there
are (`Refers`), the index is that of the rows (`IndexFits`), and sensitivity
agrees (`Sound`). The last needs `Note`: an Agent's note is never a candidate
and never contradicted, for otherwise confirming or reviving it would bring its
unclassified content among the items that count. What an operation may do to a
good database is `Evolves` (ids are not used again, versions grow, and a note
of the same version is the same note) and, for the curator, `Preserves`. One
lemma for each operation of the store shows both (`PutKeeps` for a row that is
written, `WithoutKeeps` for rows deleted, up to `ApplyKeeps`), under a
hypothesis, `Ready`, on the proposal. That what the validator accepts is `Ready`
when its turn comes is the other half: it decides on the database and on what it
has staged, the store applies to what the proposals before have really left.
`Mirror` relates the two (a row still open in the staged copy is open in the
database), `Passed` is what an accepted proposal satisfies, and `ReadyLater`
carries it over the proposals applied before, by `Evolves` and `Preserves`.
`BatchKeeps` puts the halves together by induction on the batch. The invariant
`IInv` is then `Good(db)`, the types, and `SnapshotsFit`: a row in a job's
snapshot was inserted, and what is there under its id grew out of it. So a note
with the version of the snapshot is the note of the snapshot, which is
`NoLostNote`; versions alone would not do if ids came back.

`JobLifecycleProofs` has any jobs, limits and number of reloads. `IInv` is the
type, `Phases`, `SlotsAddUp` and `HomeIsCurrent`. `Phases` says of each job what
it can have left behind so far: nothing before it is submitted; neither task nor
reply while it waits for approval or for the message before its launch; then
the state that its task allows; and it is in the table while it is active.
`SlotsAddUp` is the account of each semaphore that ever was: free slots,
granted waiters and holders are the limit it was made with. A task keeps the
semaphore it entered; `HomeIsCurrent` says that only stopped or revived jobs are
under an old one. The limit follows by counting. `Only`, which takes the pruned
jobs out of the table, is a recursive function, and its laws are proved by
induction.

`AgentRunProofs` has any models, scripts of events and limits. `IInv` adds to
the types that a process exists only where the run is waiting for one
(`Processes`), that the launches of the model in use are the last ones, one per
attempt, all silent before the present one (`Tries`), and that the trace fits
(`Fit`), also after the events of one line have been recorded one by one, again
by induction. `EverythingSaidOnce` adds `Heard`, which is about the words of a
run with progress: what has been shown, what is pending and what will be the
answer are together what the events said, each part once (`Kept`), and
`directives` holds every resource that a message declared once (`Retained`).
Without progress there is only the answer, and `PlainHasAll` counts it: a text
once, a resource as often as it was declared. It rests on `TimesOfAll`, that
the occurrences in a flattened sequence are those in its parts, by induction.

`SetInduction` supplies that induction. The library's theorems on induction
and recursion take an operator, which the provers cannot instantiate. Here the
same facts are stated of sets and functions, and derived from the existence of a
minimal element in a well-founded set: `SetInduction`, `IntervalInduction`,
and that a recursive definition on an interval has a solution
(`RecursionExists`, from `Iterates`).

`StorageProofs`, second, is about `ReplyDelivery` with any number of jobs, where
TLC has one, and so shows
what jobs, the gate and the thread do to each other. It rests on the
assumptions that there are finitely many jobs and that two share no path. `IInv`
is the type, `PassIsHeld` (a thread works only under the maintenance lease, and
nobody holds an activity lease then) and `Fine(j)` for each job: the phases of
its run, reply and repair fit together (`Phase`), its live paths exist and are
protected (`Kept`), what was staged is what the answer named and was found
(`Packed`), and a success was sent whole (`Told`). `Kept` is the heart: a path
is deleted in two steps, a last look at the protection and the removal, and the
invariant is that no path between the two is one that a job relies on.

`ScheduleRunsProofs` has any number of schedules, due times, slots and limits,
and any number of crashes and reloads. `IInv` is the type and three parts.
`Store` is what the database alone keeps, across crashes too: run numbers are
used once and in order, at most one run of a schedule is in progress and it is
the last one, the next due time is ahead of every settled one, and an
occurrence is dispatched once. `BatchFits` says that what a tick still has to
dispatch is due and fits the free slots it counted. `Owners` ties rows to tasks:
while the loop runs, a row in progress has a live task that the loop tracks, and
a task that outlives its loop is one that the stop waits for before anything
recovers its row. Each action is shown to be
one of a few steps of the database (a schedule is created, changes status or has
occurrences written off; a run is inserted, finished or recovered), and each
such step to keep `Store`. The earliest and the latest of a set of due times
exist by `SetInduction`. For the refinement of `OccurrenceLedger`, a claim is
`Dispatch`, a catch-up is `WriteOff` up to its horizon, and every other step is
a tick of the clock or a stutter. The counters are a second invariant over the
first (`Tallies`): runs, successes and failures are those of the rows, pruned
ones included (`RunTally`); occurrences missed are those written off, up to the
cut-off of one count (`MissTally`). `_count_misfires` stops at a limit, so
`CountersAreExact` assumes that no schedule has more occurrences than that, and
`CountersNeverOverstate` says what is left without the assumption.

`ConfigReloadProofs` has any messages, configurations, tasks and limits. `IInv`
is the type, `Accounted` and four parts. `Phases`: the parts follow the
configuration in force except for the scheduler during a reload, and a handoff
is under way exactly between its beginning and its commit or rollback.
`Tasking`: a task that nobody stopped is the timer, whoever holds the batch in
flight is the timer, no two current tasks have the same batch, and a handoff
outdates every task; what waits has a timer. The generations are what
keeps a task that swallowed its cancellation out of this. `Staged`: where a task
stands tells how many replies of its batch are decided. `Books`: a message is in
the collected batch or in one active work (`Mine`), was answered only as part of
the work that is still going out, and there before the next reply (`Posted`), and
what is remembered is over (`Remembered`). `AnsweredOnce` and `PartsAgree` follow
from `Books` and `Phases`.

Every invariant, every action property and every refinement that a passing run
checks is a theorem. Only model-checked are the liveness properties
(`MaintenanceNotStarved`, `ActivityResumes`, `DueIsSettled`, `ReplyFollows`,
`StopFinishes`, `BacklogIsReviewed`, `PressureHandled`, `ReplyEnds`, `Settles`,
`RunEnds`): fairness and ENABLED are beyond the prover.

## 7. Disagreements with the repository

Each bullet but the last names the configuration that shows it. `items_evidence`
is among the runs; the others are run by hand.

* `jobs_stop`. README.md says of `/stop <job>`: "cancel a job". A job stopped
  while it waits for approval keeps its nonce and a later `/approve` runs it
  (`policy.py`, `approve` looks at the nonce only); a job stopped while its
  handler sends the message before `start_job_task` has no task to cancel, is
  marked cancelled, and is then started. In the second case `cleanup` may have
  forgotten the job, which then runs where `/status` and `/stop` cannot see it.
* `schedule_pause`. `tests/test_scheduler.py` expects consecutive failures to
  pause a schedule. `finish_run` does so; `recover_interrupted` raises the same
  count without it, so a schedule whose runs crash the bridge is dispatched
  again after each restart.
* `actions_notice`. The guide to the gateway (`skills/.../onebot-qq.md`) says
  "Match action responses by `echo`", and the tests expect a send to end once
  its answer is there. The restart notice is awaited by `_serve` before it reads
  from the connection, so with one connection its answer cannot be matched: the
  notice is delivered, times out after five seconds and is logged as failed, and
  messages that arrive meanwhile wait. The run assumes a gateway that answers
  well within the limit (`GatewayIsPrompt`). The time limit is also what saves
  `stop()` from waiting for ever here (`StopFinishes`).
* `memory_retry`. The design of long-term memory (lines 355-358) says that "an
  uncommitted background review may be cancelled. Its buffer rows remain pending
  and retry later." A review cancelled between its creation and its first step
  never enters the `try` that turns `CancelledError` into an outcome. The
  exception passes through `_run_background` and `run_due` and ends
  `_scheduler_loop`; `running` stays true, and nothing is reviewed in the
  background until a restart. Two things the model also shows have no run of
  their own: after `stop()` has begun, a scheduler whose cancellation was turned
  into an outcome first reviews the scopes left in its list (the design, line
  679, excludes only an unbounded final review); and a scope armed again while
  another one is reviewed is still reviewed from the old list, before it has
  been idle for `idle_seconds`.
* `items_evidence`. The design (`2026-07-19-long-term-memory-design.md`, lines
  422-423) wants the cited source of a proposal that activates an item to be
  essentially the proposed assertion. A curator's `add` that equals an existing
  item becomes a `reinforce` (`memory_curation.py`, 855-863), and a `reinforce`
  activates whatever its confidence and wording (1512-1521). The store then
  turns the candidate or dormant item active (`long_term_memory.py`, 1183). So a
  candidate, held back because its evidence was too weak, becomes active by
  being inferred a second time.
* `items_batch`. The same design (lines 417-419) says that invalid operations
  "reject only that operation. Other valid operations in the batch may commit."
  The validator accepts an `add` of X together with a revision of another item
  into X, since it compares with the database and not with all it has staged;
  the store raises at the second and rolls back the whole batch.
* `outbox_race`. The design of storage maintenance (line 221) preserves current
  jobs. `_configure_outgoing_resources` makes the outbox (`main.py`, before
  2341) and protects it twelve lines later, without an activity lease. A pass
  whose thread lists the directory and looks at the protection in between
  deletes it. The window is short, since there is no `await` in it, but the
  thread does not wait for one.
* `override_lost`. Group owners change overrides with `/permission` (README.md,
  lines 360-362). A reload reads the file, then waits for other parts;
  `_update_permission_override` meanwhile writes the file and the running
  configuration; the reload installs what it read before. The override is gone
  from the running bridge while the file has it, until the next reload.
* `agent_trace`. The design of traces (`2026-07-16-agent-trace-design.md`, line
  56) says that trace-write failures never fail the job. A JSON event with a
  lone surrogate raises `UnicodeEncodeError` in `_fits` (`agent_trace.py`, 254),
  outside the `try` around the write. The run fails at `cursor_adapter.py`,
  1046, and its process is not killed.
* `agent_blank`. An assistant message is pending until the next event tells
  whether it was progress or the answer. A blank line counts as an event of
  output (`cursor_adapter.py`, 1163-1166) and flushes the message before it as
  progress (1119-1120). When it follows the last message the answer was shown
  as progress, and the result is "[no output]".
* Without a configuration of their own, since they are read off the code while
  modelling it. The trace records a timeout before it kills the process, where
  the design (line 64) has it after the attempt; an event may still be recorded
  after one was dropped. Progress lines are sent before the message that was
  pending ahead of them. `_kill_process_group` returns when the leader's return
  code is set, whatever else is in the group. `contradict` records the
  replacement's content in the revisions of the row it contradicts
  (`long_term_memory.py`, 1324-1332), which stays there when the replacement is
  forgotten, where the design (lines 470-472) deletes content-bearing revision
  data. Confirming a candidate, or an Agent's revision, whose content equals an
  active item leaves two active rows (design, lines 443-444). A `ValueError` of
  `commit_review` on a user's command reaches no handler. A job that was made
  and never launched keeps its paths protected until the process ends.


## 8. What is not modelled

Text is outside: the parsers of commands and schedules, prompts, help,
self-knowledge and the runtime skill, redaction, the splitting of a reply into
chunks. So are the sandbox of the Agent's process, media workers, HTTP, and how
files are scanned and measured; the models take their results as inputs. For
each component left out PROJECT.json has the reason. In particular:

* Recurrence: `next_due_after`, `COUNT`, and local times in a DST gap. The code
  only calls `dateutil` and `zoneinfo`, so a model would be one of these
  libraries and of zone rules. `ScheduleRuns` takes the set of due times.
* Short-term memory and the caches: bounded buffers that one coroutine reads and
  writes between two awaits.
* `Policy.seen`: a redelivered message whose id was pruned is executed again.
  No property says it should not be, since the code keeps a bounded number of
  ids on purpose.
* The limits and heartbeats of `ProgressReporter`, and capability evaluation.
* `decide_mention`, the stop of the proactive speaker at shutdown, jobs created
  during shutdown, and the replay of a memory commit under the id of its job.
* Failures of SQLite, except where the code handles one.
