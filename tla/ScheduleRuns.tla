---------------------------- MODULE ScheduleRuns ----------------------------
(***************************************************************************)
(* The durable scheduler: Scheduler (scheduler.py) over ScheduleStore      *)
(* (schedule_store.py), driven by App (main.py) through /schedule          *)
(* commands, /reload, shutdown, crashes and restarts.                      *)
(*                                                                         *)
(* Code between two awaits of the event loop is one step.  tick() has no   *)
(* await, but each of its database transactions is a step of its own here, *)
(* because the process can die between two of them; while a tick is under  *)
(* way nothing but a crash interleaves.  Recurrence rules are abstracted   *)
(* to the set of due times they produce.                                   *)
(***************************************************************************)
EXTENDS Naturals, FiniteSets

CONSTANTS
    Schedules,       \* schedule ids; one per source message
    Occurrences,     \* [Schedules -> set of due times]
    None,            \* Python's None, SQL's NULL
    Grace,           \* misfire_grace_seconds
    CountLimit,      \* max_occurrences, the cap on one missed count
    MaxConcurrent,   \* max_concurrent_runs
    MaxFailures,     \* max_consecutive_failures (0: never pause)
    MaxHistory,      \* max_run_history_per_schedule
    MaxPerChat,      \* max_schedules_per_chat
    MaxTime,         \* bound: the clock
    MaxRuns,         \* bound: rows of schedule_runs
    MaxManual,       \* bound: accepted /schedule run commands
    MaxCrashes,      \* bound: process deaths
    MaxReloads       \* bound: reloads and shutdowns

RunIds == 1..MaxRuns

ASSUME SchedulesFinite == IsFiniteSet(Schedules) /\ None \notin Schedules
ASSUME OccurrencesType ==
    Occurrences \in [Schedules -> SUBSET (1..MaxTime)]
ASSUME NoneNoTime == None \notin Nat
ASSUME ParametersType ==
    /\ {Grace, MaxFailures, MaxTime, MaxRuns} \subseteq Nat
    /\ {MaxManual, MaxCrashes, MaxReloads} \subseteq Nat
    /\ {CountLimit, MaxConcurrent, MaxHistory, MaxPerChat} \subseteq Nat \ {0}

VARIABLES
    sched,        \* table schedules
    run,          \* table schedule_runs; deleted rows are in pruned
    pruned,       \* ids of rows the history limit deleted
    lastRun,      \* AUTOINCREMENT of schedule_runs
    clock,        \* int(time.time())
    up,           \* the process is alive
    connected,    \* ready(): a gateway is connected
    loop,         \* the dispatch loop
    batch,        \* schedules list_due returned and tick has yet to handle
    wake,         \* the event self._wake
    alarm,        \* when the loop's timed wait ends; None: no due time
    task,         \* the asyncio task of each run
    tracked,      \* self._run_tasks
    cancelling,   \* run tasks with a cancellation under way
    appEnabled,   \* App.cfg.scheduler.enabled
    schedEnabled, \* Scheduler.cfg.enabled
    restartRequired,
    reload,       \* the reload or shutdown in progress
    offLoop,      \* history: live runs accepted while no loop was running
    crashes, reloads

database == <<sched, run, pruned, lastRun>>
dispatcher == <<loop, batch, wake, alarm>>
tasks == <<task, tracked, cancelling, offLoop>>
configuration == <<appEnabled, schedEnabled, restartRequired, reload>>
bounds == <<crashes, reloads>>
vars == <<database, clock, up, connected, dispatcher, tasks, configuration,
          bounds>>
-----------------------------------------------------------------------------
Statuses == {"absent", "active", "paused", "finishing", "completed",
             "cancelled"}
Open == {"active", "paused", "finishing"}
Failing == {"failed", "interrupted"}
RunStates == {"none", "running", "succeeded", "cancelled"} \union Failing
Times == Nat \union {None}
Live == {"created", "executing"}

ScheduleRow == [status : Statuses, next : Times, runCount : Nat,
                success : Nat, failure : Nat, missed : Nat, consecutive : Nat]
RunRow == [schedule : Schedules \union {None}, due : Times, manual : BOOLEAN,
           state : RunStates]
Idle == [phase |-> "none", target |-> None, wasRunning |-> FALSE,
         awaiting |-> {}]

TypeOK ==
    /\ sched \in [Schedules -> ScheduleRow]
    /\ run \in [RunIds -> RunRow]
    /\ pruned \subseteq RunIds
    /\ lastRun \in 0..MaxRuns
    /\ clock \in Nat
    /\ up \in BOOLEAN /\ connected \in BOOLEAN
    /\ loop \in {"off", "ready", "ticking", "waiting"}
    /\ batch \subseteq Schedules
    /\ wake \in BOOLEAN
    /\ alarm \in Times
    /\ task \in [RunIds -> {"none", "created", "executing", "done"}]
    /\ tracked \subseteq RunIds
    /\ cancelling \subseteq RunIds
    /\ offLoop \subseteq RunIds
    /\ appEnabled \in BOOLEAN /\ schedEnabled \in BOOLEAN
    /\ restartRequired \in BOOLEAN
    /\ reload \in [phase : {"none", "stopping", "settled", "restoring"},
                   target : {None, "on", "off", "moved", "exit"},
                   wasRunning : BOOLEAN,
                   awaiting : SUBSET RunIds]
    /\ crashes \in Nat /\ reloads \in Nat

Init ==
    /\ sched = [s \in Schedules |->
                   [status |-> "absent", next |-> None, runCount |-> 0,
                    success |-> 0, failure |-> 0, missed |-> 0,
                    consecutive |-> 0]]
    /\ run = [r \in RunIds |-> [schedule |-> None, due |-> None,
                                manual |-> FALSE, state |-> "none"]]
    /\ pruned = {} /\ lastRun = 0
    /\ clock = 0
    /\ up = FALSE /\ connected = FALSE
    /\ loop = "off" /\ batch = {} /\ wake = FALSE /\ alarm = None
    /\ task = [r \in RunIds |-> "none"]
    /\ tracked = {} /\ cancelling = {} /\ offLoop = {}
    /\ appEnabled = FALSE /\ schedEnabled = FALSE
    /\ restartRequired = FALSE /\ reload = Idle
    /\ crashes = 0 /\ reloads = 0
-----------------------------------------------------------------------------
(* Time and the recurrence rules.                                          *)

Earliest(S) == CHOOSE o \in S : \A p \in S : o <= p
Latest(S) == CHOOSE o \in S : \A p \in S : o >= p
EarliestOrNone(S) == IF S = {} THEN None ELSE Earliest(S)

\* next_due_after: the next occurrence, None after the last.
NextAfter(s, t) == EarliestOrNone({o \in Occurrences[s] : o > t})

\* The occurrences from the persisted due time up to now.
Overdue(s, due) == {o \in Occurrences[s] : due <= o /\ o <= clock}

AtMost(limit, n) == IF n > limit THEN limit ELSE n
AtLeastOne(n) == IF n = 0 THEN 1 ELSE n

\* _recurring_misfire_plan: the latest overdue occurrence is kept when it is
\* within the grace period, otherwise the schedule skips to the future.
Replayed(s, due) ==
    /\ Overdue(s, due) # {}
    /\ clock - Latest(Overdue(s, due)) <= Grace
\* Mutant: every overdue occurrence is skipped, the latest one too.
SkipsAll(s, due) == NextAfter(s, clock)
MisfireTarget(s, due) ==
    IF Replayed(s, due) THEN Latest(Overdue(s, due)) ELSE NextAfter(s, clock)
MisfireCount(s, due) ==
    LET overdue == AtMost(CountLimit, Cardinality(Overdue(s, due))) IN
    AtLeastOne(IF Replayed(s, due) THEN overdue - 1 ELSE overdue)
-----------------------------------------------------------------------------
(* The store.                                                              *)

RowsOf(s) == {r \in 1..lastRun \ pruned : run[r].schedule = s}
Running(s) == {r \in RowsOf(s) : run[r].state = "running"}

\* Mutant: the query forgets NOT EXISTS (a running row of the schedule).
DueThoughRunning(s) ==
    /\ sched[s].status = "active"
    /\ sched[s].next # None

Due(s) ==
    /\ sched[s].status = "active"
    /\ sched[s].next # None
    /\ Running(s) = {}

InsertRun(s, due, manual) ==
    /\ lastRun < MaxRuns
    /\ lastRun' = lastRun + 1
    /\ run' = [run EXCEPT ![lastRun + 1] =
                  [schedule |-> s, due |-> due, manual |-> manual,
                   state |-> "running"]]
    /\ UNCHANGED pruned

\* Mutant: any schedule without a further due time completes, also one that
\* was cancelled while its last run executed.
SettledReviving(row, state) ==
    [row EXCEPT
        !.success = IF state = "succeeded" THEN @ + 1 ELSE @,
        !.failure = IF state \in Failing THEN @ + 1 ELSE @,
        !.status = IF row.next = None THEN "completed" ELSE @]

\* finish_run's UPDATE of the schedules row, and the pause after it.
Settled(row, state) ==
    LET consecutive == IF state = "succeeded" THEN 0
                       ELSE IF state \in Failing THEN row.consecutive + 1
                       ELSE row.consecutive
        status == IF row.status = "finishing" THEN "completed" ELSE row.status
        tooMany == MaxFailures > 0 /\ consecutive >= MaxFailures
    IN [row EXCEPT
           !.success = IF state = "succeeded" THEN @ + 1 ELSE @,
           !.failure = IF state \in Failing THEN @ + 1 ELSE @,
           !.consecutive = consecutive,
           !.status = IF status = "active" /\ tooMany THEN "paused"
                      ELSE status]

\* A row that recovery already closed is left alone.  Mutant: it is not.
AlwaysClosable(r) == TRUE
Closable(r) == run[r].state = "running"

FinishRun(r, state) ==
    LET s == run[r].schedule
        newest == {q \in RowsOf(s) :
                      Cardinality({p \in RowsOf(s) : p > q}) < MaxHistory}
    IN IF ~Closable(r) THEN UNCHANGED database
       ELSE /\ run' = [run EXCEPT ![r].state = state]
            /\ sched' = [sched EXCEPT ![s] = Settled(@, state)]
            /\ pruned' = pruned \union (RowsOf(s) \ newest)
            /\ UNCHANGED lastRun

\* Mutant: the run's new state is written to the schedule.
InterruptedStatus(row, count) ==
    [row EXCEPT !.failure = @ + count,
                !.consecutive = @ + count,
                !.status = IF count > 0 THEN "interrupted" ELSE @]

\* recover_interrupted
Interrupted(row, count) ==
    [row EXCEPT !.failure = @ + count,
                !.consecutive = @ + count,
                !.status = IF count > 0 /\ @ = "finishing" THEN "completed"
                           ELSE @]
Recover ==
    /\ run' = [r \in RunIds |->
                  IF run[r].state = "running"
                  THEN [run[r] EXCEPT !.state = "interrupted"] ELSE run[r]]
    /\ sched' = [s \in Schedules |->
                    Interrupted(sched[s], Cardinality(Running(s)))]
    /\ UNCHANGED <<pruned, lastRun>>
-----------------------------------------------------------------------------
(* /schedule commands.  App refuses them while scheduling is disabled and  *)
(* after the database path has changed.                                    *)

Busy == loop = "ticking"
CommandsOpen == up /\ ~Busy /\ appEnabled /\ ~restartRequired

\* A redelivered source message returns the existing schedule; the parsers
\* reject a first due time that is not in the future.
Create(s) ==
    LET open == {x \in Schedules : sched[x].status \in Open} IN
    /\ CommandsOpen
    /\ sched[s].status = "absent"
    /\ Cardinality(open) < MaxPerChat
    /\ Occurrences[s] # {}
    /\ Earliest(Occurrences[s]) > clock
    /\ sched' = [sched EXCEPT ![s].status = "active",
                              ![s].next = Earliest(Occurrences[s])]
    /\ wake' = TRUE
    /\ UNCHANGED <<run, pruned, lastRun, clock, up, connected, loop, batch,
                   alarm, tasks, configuration, bounds>>

SetStatus(s, from, to) ==
    /\ CommandsOpen
    /\ sched[s].status \in from
    /\ sched' = [sched EXCEPT ![s].status = to]
    /\ wake' = TRUE
    /\ UNCHANGED <<run, pruned, lastRun, clock, up, connected, loop, batch,
                   alarm, tasks, configuration, bounds>>

Pause(s) == SetStatus(s, {"active"}, "paused")
Resume(s) == SetStatus(s, {"paused"}, "active")
Cancel(s) == SetStatus(s, {"active", "paused", "finishing"}, "cancelled")

StartTask(r) ==
    /\ task' = [task EXCEPT ![r] = "created"]
    /\ tracked' = tracked \union {r}
    /\ UNCHANGED cancelling

\* run_now.  UNIQUE(schedule_id, due_at, manual) refuses a second manual run
\* within one second.
RunNow(s) ==
    /\ CommandsOpen
    /\ Cardinality({r \in RunIds : run[r].manual}) < MaxManual
    /\ Cardinality(tracked) < MaxConcurrent
    /\ sched[s].status \in {"active", "paused"}
    /\ Running(s) = {}
    /\ ~ \E r \in RowsOf(s) : run[r].manual /\ run[r].due = clock
    /\ InsertRun(s, clock, TRUE)
    /\ sched' = [sched EXCEPT ![s].runCount = @ + 1]
    /\ StartTask(lastRun + 1)
    /\ offLoop' = IF loop = "off" THEN offLoop \union {lastRun + 1} ELSE offLoop
    /\ UNCHANGED <<clock, up, connected, dispatcher, configuration, bounds>>
-----------------------------------------------------------------------------
(* The dispatch loop.                                                      *)

Capacity == IF Cardinality(tracked) >= MaxConcurrent THEN 0
            ELSE MaxConcurrent - Cardinality(tracked)

\* list_due: the earliest due schedules, as many as there is capacity for.
Batches ==
    LET due == {s \in Schedules : Due(s) /\ sched[s].next <= clock} IN
    {B \in SUBSET due :
        /\ Cardinality(B) = AtMost(Capacity, Cardinality(due))
        /\ \A s \in B, x \in due \ B : sched[s].next <= sched[x].next}

\* One turn of _run_loop up to the query of tick.
Turn ==
    /\ \/ loop = "ready"
       \/ loop = "waiting" /\ (wake \/ (alarm # None /\ alarm <= clock))
    /\ loop' = "ticking"
    /\ wake' = FALSE
    /\ alarm' = None
    /\ IF schedEnabled /\ connected THEN batch' \in Batches ELSE batch' = {}
    /\ UNCHANGED <<database, clock, up, connected, tasks, configuration, bounds>>

\* The boundary between a late dispatch and a misfire.
Misfired(due) == clock - due > Grace

\* _normalize_misfire wrote occurrences off.  The schedule stays in the batch
\* when an occurrence within the grace period is left.
WriteOff(s) ==
    LET due == sched[s].next
        target == MisfireTarget(s, due)
    IN
    /\ Busy /\ s \in batch
    /\ Misfired(due)
    /\ sched' = [sched EXCEPT
                    ![s].next = target,
                    ![s].missed = @ + MisfireCount(s, due),
                    ![s].status = IF target = None THEN "completed" ELSE @]
    /\ batch' = IF target # None /\ target <= clock THEN batch
                ELSE batch \ {s}
    /\ UNCHANGED <<run, pruned, lastRun, clock, up, connected, loop, wake,
                   alarm, tasks, configuration, bounds>>

\* claim and the task that executes the run.
Claim(s) ==
    LET due == sched[s].next
        next == NextAfter(s, due)
    IN
    /\ Busy /\ s \in batch
    /\ Due(s)
    /\ ~Misfired(due)
    /\ sched' = [sched EXCEPT
                    ![s].next = next,
                    ![s].runCount = @ + 1,
                    ![s].status = IF next = None THEN "finishing" ELSE "active"]
    /\ InsertRun(s, due, FALSE)
    /\ StartTask(lastRun + 1)
    /\ batch' = batch \ {s}
    /\ UNCHANGED <<clock, up, connected, loop, wake, alarm, offLoop,
                   configuration, bounds>>

\* The rest of the turn: next_due_at and the timed wait.  An unconnected
\* gateway is polled.  The hourly poll without a due time is left out, so
\* that nothing can rest on it.
Rest ==
    /\ Busy /\ batch = {}
    /\ loop' = "waiting"
    /\ alarm' = IF ~connected THEN clock
                ELSE EarliestOrNone({sched[s].next :
                                        s \in {x \in Schedules : Due(x)}})
    /\ UNCHANGED <<database, clock, up, connected, batch, wake, tasks,
                   configuration, bounds>>
-----------------------------------------------------------------------------
(* The run tasks.                                                          *)

TaskStep == up /\ ~Busy

Begin(r) ==
    /\ TaskStep
    /\ task[r] = "created" /\ r \notin cancelling
    /\ task' = [task EXCEPT ![r] = "executing"]
    /\ UNCHANGED <<database, clock, up, connected, dispatcher, tracked,
                   cancelling, offLoop, configuration, bounds>>

\* A task cancelled before its first step never enters _execute: its row
\* stays running.
Abandon(r) ==
    /\ TaskStep
    /\ task[r] = "created" /\ r \in cancelling
    /\ task' = [task EXCEPT ![r] = "done"]
    /\ UNCHANGED <<database, clock, up, connected, dispatcher, tracked,
                   cancelling, offLoop, configuration, bounds>>

\* A run that ends wakes the loop, a schedule may have become due again; one
\* that is interrupted re-raises first.  Mutant: nothing wakes the loop.
NeverWakes(state) == FALSE
WakesLoop(state) == state # "interrupted"

\* The executor returned or raised; a cancelled one is interrupted, or
\* reports the cancellation of the job it was waiting for.
Finish(r, state) ==
    /\ TaskStep
    /\ task[r] = "executing"
    /\ state \in IF r \in cancelling THEN {"interrupted", "cancelled"}
                 ELSE {"succeeded", "failed", "cancelled"}
    /\ FinishRun(r, state)
    /\ task' = [task EXCEPT ![r] = "done"]
    /\ wake' = (wake \/ WakesLoop(state))
    /\ offLoop' = offLoop \ {r}
    /\ UNCHANGED <<clock, up, connected, loop, batch, alarm, tracked,
                   cancelling, configuration, bounds>>

\* The done callback.
Discard(r) ==
    /\ TaskStep
    /\ task[r] = "done"
    /\ task' = [task EXCEPT ![r] = "none"]
    /\ tracked' = tracked \ {r}
    /\ cancelling' = cancelling \ {r}
    /\ offLoop' = offLoop \ {r}
    /\ UNCHANGED <<database, clock, up, connected, dispatcher, configuration,
                   bounds>>
-----------------------------------------------------------------------------
(* Reload, shutdown, crash, restart.                                       *)

\* start(): recovery, then a new loop task, unless disabled or running.
Starts == schedEnabled' /\ loop = "off"
StartUnrecovered ==  \* mutant: recovery is skipped
    UNCHANGED database /\ loop' = IF Starts THEN "ready" ELSE loop
StartLoop ==
    IF Starts THEN Recover /\ loop' = "ready"
    ELSE UNCHANGED database /\ UNCHANGED loop

\* stop() up to its wait for the runs: the loop ends, tracked runs are
\* cancelled.
StopLoop ==
    /\ loop' = "off"
    /\ batch' = {} /\ alarm' = None
    /\ cancelling' = cancelling \union {r \in tracked : task[r] \in Live}

\* _reload_config_locked up to the end of its transition.  "moved" stands for
\* a changed database_path, "exit" for the shutdown of App.run.
BeginReload(target) ==
    LET request == [phase |-> "settled", target |-> target,
                    wasRunning |-> loop # "off", awaiting |-> {}]
    IN
    /\ up /\ ~Busy /\ reload.phase = "none"
    /\ reloads < MaxReloads
    /\ reloads' = reloads + 1
    /\ schedEnabled' = IF target = "exit" THEN schedEnabled
                       ELSE target # "off"
    /\ wake' = (wake \/ target # "exit")
    /\ IF target = "on"
       THEN /\ StartLoop
            /\ reload' = request
            /\ UNCHANGED <<batch, alarm, cancelling>>
       ELSE /\ StopLoop
            /\ reload' = [request EXCEPT
                             !.phase = IF tracked = {} THEN @ ELSE "stopping",
                             !.awaiting = tracked]
            /\ UNCHANGED database
    /\ UNCHANGED <<clock, up, connected, task, tracked, offLoop, appEnabled,
                   restartRequired, crashes>>

\* Mutant: stop() cancels the runs and does not wait for them.
NotAwaited == TRUE
Awaited == \A r \in reload.awaiting : task[r] \notin Live

\* stop() returns; _run_tasks.clear() forgets the tasks added meanwhile.
StopEnds ==
    /\ up /\ ~Busy /\ reload.phase = "stopping"
    /\ Awaited
    /\ tracked' = {}
    /\ reload' = [reload EXCEPT !.phase = "settled", !.awaiting = {}]
    /\ UNCHANGED <<database, clock, up, connected, dispatcher, task,
                   cancelling, offLoop, appEnabled, schedEnabled,
                   restartRequired, bounds>>

Commit ==
    /\ up /\ ~Busy /\ reload.phase = "settled" /\ reload.target # "exit"
    /\ appEnabled' = schedEnabled
    /\ restartRequired' = (reload.target = "moved")
    /\ reload' = Idle
    /\ UNCHANGED <<database, clock, up, connected, dispatcher, tasks,
                   schedEnabled, bounds>>

\* A later part of the reload failed: the old configuration is restored, the
\* scheduler is stopped, and started again when it was running before.
StartAgain ==
    IF reload.wasRunning /\ schedEnabled' THEN Recover /\ loop' = "ready"
    ELSE UNCHANGED database /\ loop' = "off"

Rollback ==
    /\ up /\ ~Busy /\ reload.phase = "settled" /\ reload.target # "exit"
    /\ schedEnabled' = appEnabled
    /\ wake' = TRUE
    /\ IF tracked = {}
       THEN /\ StartAgain
            /\ alarm' = None
            /\ reload' = Idle
            /\ UNCHANGED <<batch, cancelling>>
       ELSE /\ StopLoop
            /\ reload' = [reload EXCEPT !.phase = "restoring",
                                        !.awaiting = tracked]
            /\ UNCHANGED database
    /\ UNCHANGED <<clock, up, connected, task, tracked, offLoop, appEnabled,
                   restartRequired, bounds>>

Restored ==
    /\ up /\ ~Busy /\ reload.phase = "restoring"
    /\ Awaited
    /\ tracked' = {}
    /\ UNCHANGED schedEnabled
    /\ StartAgain
    /\ reload' = Idle
    /\ UNCHANGED <<clock, up, connected, batch, wake, alarm, task, cancelling,
                   offLoop, appEnabled, restartRequired, bounds>>

\* The process dies, at any point between two transactions.
Crash ==
    /\ up
    /\ crashes < MaxCrashes
    /\ crashes' = crashes + 1
    /\ up' = FALSE /\ connected' = FALSE
    /\ loop' = "off" /\ batch' = {} /\ wake' = FALSE /\ alarm' = None
    /\ task' = [r \in RunIds |-> "none"]
    /\ tracked' = {} /\ cancelling' = {} /\ offLoop' = {}
    /\ reload' = Idle
    /\ UNCHANGED <<database, clock, appEnabled, schedEnabled, restartRequired,
                   reloads>>

\* App.run with the configuration found on disk, at the same database path.
Boot(enabled) ==
    /\ ~up
    /\ up' = TRUE
    /\ appEnabled' = enabled /\ schedEnabled' = enabled
    /\ restartRequired' = FALSE
    /\ StartLoop
    /\ UNCHANGED <<clock, connected, batch, wake, alarm, tasks, reload, bounds>>

SetConnected(c) ==
    /\ up /\ ~Busy
    /\ connected # c
    /\ connected' = c
    /\ UNCHANGED <<database, clock, up, dispatcher, tasks, configuration,
                   bounds>>

Tick ==
    /\ ~Busy
    /\ clock < MaxTime
    /\ clock' = clock + 1
    /\ UNCHANGED <<database, up, connected, dispatcher, tasks, configuration,
                   bounds>>
-----------------------------------------------------------------------------
RunStep(r) ==
    \/ Begin(r) \/ Abandon(r) \/ Discard(r)
    \/ \E state \in RunStates : Finish(r, state)

Next ==
    \/ \E s \in Schedules :
          \/ Create(s) \/ Pause(s) \/ Resume(s) \/ Cancel(s)
          \/ RunNow(s) \/ WriteOff(s) \/ Claim(s)
    \/ Turn \/ Rest
    \/ \E r \in RunIds : RunStep(r)
    \/ \E target \in {"on", "off", "moved", "exit"} : BeginReload(target)
    \/ StopEnds \/ Commit \/ Rollback \/ Restored
    \/ Crash \/ \E enabled \in BOOLEAN : Boot(enabled)
    \/ \E c \in BOOLEAN : SetConnected(c)
    \/ Tick

\* The event loop runs every ready task, timers fire, and a run ends (a job
\* is cut off at its maximum runtime).  A tick is one turn of the event loop:
\* the ready run tasks take their turn between two ticks, hence strong
\* fairness.  Nothing makes a user, the gateway, the operator or the clock
\* act.
Fairness ==
    /\ WF_vars(Turn) /\ WF_vars(Rest)
    /\ \A s \in Schedules : WF_vars(WriteOff(s)) /\ WF_vars(Claim(s))
    /\ \A r \in RunIds : SF_vars(RunStep(r))

Spec == Init /\ [][Next]_vars /\ Fairness
-----------------------------------------------------------------------------
(* Safety.                                                                 *)

\* The store never holds two running rows of one schedule, deletes a running
\* row, or dispatches one occurrence twice; and a schedule that waits for its
\* last run has one, so that it cannot occupy the chat's quota for ever.
OneRunPerSchedule ==
    /\ \A s \in Schedules :
          /\ Cardinality(Running(s)) <= 1
          /\ sched[s].status = "finishing" => Running(s) # {}
    /\ \A r \in pruned : run[r].state # "running"
    /\ \A q, r \in 1..lastRun :
          q # r /\ ~run[q].manual /\ ~run[r].manual
             => <<run[q].schedule, run[q].due>> # <<run[r].schedule, run[r].due>>

\* While the loop runs, a running row has a live task that will close it:
\* list_due skips a schedule with a running row, so a row that nobody owns
\* would block its schedule until the next restart.
RunningRowIsLive ==
    loop # "off" =>
        \A r \in RunIds :
            run[r].state = "running" => task[r] \in Live /\ r \in tracked

LiveRuns == {r \in RunIds : task[r] \in Live}

\* Runs of one schedule never overlap and no more than max_concurrent_runs
\* execute, except for manual runs accepted while no dispatch loop ran: a
\* reload in progress still takes commands, stop() forgets the runs they
\* start, and the next start() closes their rows while they execute.
RunsExclusive ==
    /\ \A q, r \in LiveRuns \ offLoop :
          run[q].schedule = run[r].schedule => q = r
    /\ Cardinality(LiveRuns \ offLoop) <= MaxConcurrent

CountOf(s, states) ==
    Cardinality({r \in RunIds : run[r].schedule = s /\ run[r].state \in states})

Claimed(s) ==
    {run[r].due : r \in {q \in RunIds : run[q].schedule = s /\ ~run[q].manual}}

Fate(s, o) ==
    IF o \in Claimed(s) THEN "dispatched"
    ELSE IF sched[s].status = "absent" THEN "pending"
    ELSE IF sched[s].next # None /\ o >= sched[s].next THEN "pending"
    ELSE "missed"

\* The statistics a user sees agree with what happened, across late finishes
\* of recovered runs, restarts and history pruning.
CountersAddUp ==
    \A s \in Schedules :
        /\ sched[s].runCount = CountOf(s, RunStates)
        /\ sched[s].success = CountOf(s, {"succeeded"})
        /\ sched[s].failure = CountOf(s, Failing)
        /\ sched[s].missed =
              Cardinality({o \in Occurrences[s] : Fate(s, o) = "missed"})

\* A completed or cancelled schedule is never revived, by a run that ends
\* late or by recovery, and a closed run keeps its outcome.
SettledStays ==
    [][/\ \A s \in Schedules :
             sched[s].status \in {"completed", "cancelled"} =>
                /\ sched'[s].status = sched[s].status
                /\ sched'[s].next = sched[s].next
       /\ \A r \in RunIds :
             run[r].state \notin {"none", "running"} => run'[r] = run[r]
      ]_vars

\* tests/test_scheduler.py: consecutive failures pause a schedule.  A failure
\* that brings the count to the limit leaves no active schedule.
FailuresPause ==
    [][\A s \in Schedules :
          /\ MaxFailures > 0
          /\ sched'[s].consecutive > sched[s].consecutive
          /\ sched'[s].consecutive >= MaxFailures
          => sched'[s].status # "active"
      ]_vars
-----------------------------------------------------------------------------
(* Refinement and liveness.                                                *)

Ledger == INSTANCE OccurrenceLedger
            WITH fate <- [s \in Schedules |->
                             [o \in Occurrences[s] |-> Fate(s, o)]]

\* The scheduler keeps the ledger's promises about every occurrence.
ImplementsLedger == Ledger!Spec

\* Once the dispatch loop stays up and connected, every due occurrence of an
\* active schedule is dispatched or written off: no wake-up is lost between
\* the capacity limit, the busy schedules and the timed wait.
DueIsSettled ==
    <>[](loop # "off" /\ connected) =>
        \A s \in Schedules : \A o \in Occurrences[s] :
            (/\ sched[s].status = "active"
             /\ sched[s].next = o
             /\ clock >= o)
            ~> ~(sched[s].status = "active" /\ sched[s].next = o)
=============================================================================
