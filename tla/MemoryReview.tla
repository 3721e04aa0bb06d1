---------------------------- MODULE MemoryReview ----------------------------
(***************************************************************************)
(* MemoryReviewCoordinator of memory_review.py over the review buffer of   *)
(* long_term_memory.py.  Collected messages (sources) wait in the buffer   *)
(* until a review hands those of one scope to the curator, an Agent, and   *)
(* commits what it accepts.  A scheduler task runs background reviews one  *)
(* after another, each in a task of its own; explicit reviews run in the   *)
(* tasks that deliver their answer; a lock serializes all of them.         *)
(*                                                                         *)
(* Steps run from one suspension to the next.  SQLite is synchronous, so a *)
(* commit is never interrupted and _commit_started is never seen true.     *)
(* Time is what a comparison with the clock tells: a deadline is ahead or  *)
(* has passed.                                                             *)
(***************************************************************************)
EXTENDS Naturals, FiniteSets

CONSTANTS Scopes,       \* group and private scopes
          Sources,      \* messages that may be collected
          ScopeOf,      \* the scope of each source
          Requests,     \* tasks of explicit reviews, each used once
          Background,   \* the task of a background review
          Unset,
          Threshold,    \* review.message_threshold
          Minimum,      \* review.minimum_messages
          MaxAttempts,  \* review.max_attempts
          MaxInterrupts, MaxToggles  \* bounds on the environment

ASSUME ScopesGiven == ScopeOf \in [Sources -> Scopes]
ASSUME NoneIsNoReview == Unset \notin Requests \union {Background}
ASSUME BackgroundIsApart == Background \notin Requests
ASSUME AttemptsPositive == MaxAttempts \in Nat \ {0}

Reviews == Requests \union {Background}

VARIABLES
    buffer, attempts,      \* review_buffer: the rows; attempt_count per source
    retryLater,            \* sources whose next_attempt_at is ahead
    late,                  \* those it passed for since run_due read the clock
    enabled, scopeOn,      \* cfg.enabled, memory_scopes
    dirty,                 \* _dirty: deadline per scope
    periodicDue,           \* _next_periodic has passed
    sched, queue,          \* the scheduler task; scopes left in its for loop
    schedCancelled,
    pc, scope, sources,    \* the review tasks
    outcome,               \* error of the background review that is done
    cancelled,             \* tasks that were cancelled; delivery comes later
    outdated,              \* tasks that saw an epoch which has changed since
    input,                 \* whose data curator-input/review-data.json holds
    maint,                 \* the maintenance task
    coordinator, awaited,  \* progress of stop() and the tasks it gathers
    interrupts, toggles    \* counters for the bounds

bufferVars == <<buffer, attempts, retryLater, late>>
configVars == <<enabled, scopeOn, toggles>>
timerVars == <<dirty, periodicDue>>
schedVars == <<sched, queue, schedCancelled>>
taskVars == <<pc, scope, sources, outcome, input>>
cancelVars == <<cancelled, outdated, interrupts>>
restVars == <<maint, coordinator, awaited>>
reviewVars == <<bufferVars, configVars, timerVars, schedVars, taskVars, cancelVars,
          restVars>>

UnderWay == {r \in Reviews : pc[r] \notin {"off", "done"}}
Running == coordinator = "up"

ReviewTypeOK ==
    /\ buffer \subseteq Sources
    /\ attempts \in [Sources -> 0..MaxAttempts]
    /\ retryLater \subseteq buffer
    /\ late \subseteq buffer \ retryLater
    /\ enabled \in BOOLEAN
    /\ scopeOn \in [Scopes -> BOOLEAN]
    /\ dirty \in [Scopes -> {"clean", "idle", "due"}]
    /\ periodicDue \in BOOLEAN
    /\ sched \in {"off", "wait", "threshold", "periodic"}
    /\ queue \subseteq Scopes
    /\ schedCancelled \in BOOLEAN
    /\ pc \in [Reviews -> {"off", "created", "lock", "gate", "curator", "done"}]
    /\ scope \in [Reviews -> Scopes \union {Unset}]
    /\ sources \in [Reviews -> SUBSET Sources]
    /\ outcome \in {"none", "cancelled", "raised"}
    /\ cancelled \subseteq Reviews
    /\ outdated \subseteq Reviews
    /\ input \in Reviews \union {Unset}
    /\ maint \in {"off", "wait", "gate"}
    /\ coordinator \in {"up", "stopLoops", "stopReviews", "stopped"}
    /\ awaited \subseteq Reviews
    /\ interrupts \in Nat /\ toggles \in Nat
-----------------------------------------------------------------------------
(* The queries of the store.  "stale" are the sources whose deadline passed *)
(* after the caller read the clock.                                         *)

Of(sc) == {s \in buffer : ScopeOf[s] = sc}
Due(sc, stale) == {s \in Of(sc) : s \notin retryLater \union stale}

\* due_source_count against the threshold.
Enough(sc, stale) ==
    Cardinality({s \in Due(sc, stale) : attempts[s] < MaxAttempts}) >= Threshold

\* pending_scopes and retry_deferred_scopes.
HotOnly == {sc \in Scopes : Enough(sc, {})}  \* mutant: deferred ones forgotten
PeriodicScopes ==
    {sc \in Scopes : \/ Cardinality(Due(sc, {})) >= Minimum
                     \/ \E s \in Due(sc, {}) : attempts[s] >= MaxAttempts}

\* pending_sources as each trigger calls it.
Readable(r, sc) ==
    IF r # Background THEN Of(sc)
    ELSE {s \in Due(sc, late) :
             sched = "threshold" => attempts[s] < MaxAttempts}
-----------------------------------------------------------------------------
(* start() has run on the database an earlier process left.                *)

ReviewInit ==
    /\ buffer \in SUBSET Sources
    /\ attempts \in {a \in [Sources -> 0..MaxAttempts] :
                        \A s \in Sources \ buffer : a[s] = 0}
    /\ retryLater \in SUBSET {s \in Sources : attempts[s] > 0}
    /\ late = {}
    /\ enabled = TRUE
    /\ scopeOn = [sc \in Scopes |-> TRUE]
    /\ dirty = [sc \in Scopes |->
                   IF Cardinality(Due(sc, {})) >= Threshold THEN "idle"
                   ELSE "clean"]
    /\ periodicDue = FALSE
    /\ sched = "wait" /\ queue = {} /\ schedCancelled = FALSE
    /\ pc = [r \in Reviews |-> "off"]
    /\ scope = [r \in Reviews |-> Unset]
    /\ sources = [r \in Reviews |-> {}]
    /\ outcome = "none"
    /\ cancelled = {} /\ outdated = {}
    /\ input = Unset
    /\ maint = "wait"
    /\ coordinator = "up" /\ awaited = {}
    /\ interrupts = 0 /\ toggles = 0
-----------------------------------------------------------------------------
(* Cancellation.                                                           *)

\* The reviews that hold the lock have captured the epochs.
HoldsLock(r) == pc[r] \in {"gate", "curator"}

\* _background_epoch += 1, _all_review_epoch += 1
BumpNothing(rs) == outdated' = outdated            \* mutant: no fence
Bump(rs) == outdated' = outdated \union {r \in rs : HoldsLock(r)}

Interrupt(rs) ==
    /\ cancelled' = cancelled \union rs
    /\ Bump(rs)

\* cancel_background_for_interactive, _cancel_all_reviews
CancelBackground == Interrupt(UnderWay \intersect {Background})
CancelAll == Interrupt(UnderWay)

\* A job or a memory command arrives.
Interactive ==
    /\ coordinator # "stopped"
    /\ Background \in UnderWay
    /\ interrupts < MaxInterrupts
    /\ interrupts' = interrupts + 1
    /\ CancelBackground
    /\ UNCHANGED <<bufferVars, configVars, timerVars, schedVars, taskVars,
                   restVars>>
-----------------------------------------------------------------------------
(* The storage gate: reviews and jobs share it, expiry excludes them.      *)

InCurator == {r \in Reviews : pc[r] = "curator"}
ActivityMayEnter == maint # "gate"
RunsAtOnce == TRUE                   \* mutant: maintenance() is not entered
GateIdle == InCurator = {}

\* Mutant: an emptied buffer leaves its deadlines behind.
DeleteRows(rows) ==
    /\ buffer' = buffer \ rows
    /\ UNCHANGED <<attempts, retryLater, late>>

\* Rows are deleted with their attempt_count and next_attempt_at.
Delete(rows) ==
    /\ buffer' = buffer \ rows
    /\ attempts' = [s \in Sources |-> IF s \in rows THEN 0 ELSE attempts[s]]
    /\ retryLater' = retryLater \ rows
    /\ late' = late \ rows

\* expire_raw inside run_maintenance; which rows are that old is left open.
ExpireRaw == \E old \in SUBSET buffer : Delete(old)

MaintenanceTurn ==
    /\ maint = "wait"
    /\ \/ GateIdle /\ ExpireRaw /\ UNCHANGED maint
       \/ ~GateIdle /\ maint' = "gate" /\ UNCHANGED bufferVars
    /\ UNCHANGED <<coordinator, awaited, configVars, timerVars, schedVars,
                   taskVars, cancelVars>>

MaintenanceEnters ==
    /\ maint = "gate"
    /\ GateIdle
    /\ ExpireRaw
    /\ maint' = "wait"
    /\ UNCHANGED <<coordinator, awaited, configVars, timerVars, schedVars,
                   taskVars, cancelVars>>
-----------------------------------------------------------------------------
(* _review_scope                                                           *)

LockIgnored == TRUE                  \* mutant: the lock is not taken
LockFree == \A r \in Reviews : ~HoldsLock(r)
LockAtOnce == LockFree /\ \A r \in Reviews : pc[r] = "lock" => r \in cancelled

Done(r, error) ==
    /\ pc' = [pc EXCEPT ![r] = "done"]
    /\ sources' = [sources EXCEPT ![r] = {}]
    /\ outcome' = IF r = Background THEN error ELSE outcome
    /\ input' = IF pc[r] = "curator" THEN Unset ELSE input
    /\ scope' = IF r = Background THEN scope ELSE [scope EXCEPT ![r] = Unset]

\* pending_sources, then the curator writes its input and calls the Agent.
CallCurator(r, sc) ==
    IF Readable(r, sc) = {} THEN Done(r, "none")
    ELSE /\ sources' = [sources EXCEPT ![r] = Readable(r, sc)]
         /\ pc' = [pc EXCEPT ![r] = "curator"]
         /\ input' = r
         /\ scope' = [scope EXCEPT ![r] = sc]
         /\ UNCHANGED outcome

WaitAt(r, sc, place) ==
    /\ pc' = [pc EXCEPT ![r] = place]
    /\ scope' = [scope EXCEPT ![r] = sc]
    /\ UNCHANGED <<sources, outcome, input>>

\* With the lock just taken.
HoldLock(r, sc) ==
    IF ~(enabled /\ scopeOn[sc]) THEN Done(r, "none")
    ELSE IF ActivityMayEnter THEN CallCurator(r, sc)
    ELSE WaitAt(r, sc, "gate")

Enter(r, sc) == IF LockAtOnce THEN HoldLock(r, sc) ELSE WaitAt(r, sc, "lock")

\* A task that is cancelled before its first step never enters the try.
BackgroundBegins ==
    /\ pc[Background] = "created"
    /\ \/ Background \in cancelled /\ Done(Background, "raised")
       \/ Background \notin cancelled /\ Enter(Background, scope[Background])
    /\ UNCHANGED <<bufferVars, configVars, timerVars, schedVars,
                   cancelVars, restVars>>

\* review_now gets the background review out of the way first.
ReviewNow(r, sc) ==
    /\ coordinator # "stopped"
    /\ pc[r] = "off"
    /\ CancelBackground
    /\ Enter(r, sc)
    /\ UNCHANGED <<interrupts, bufferVars, configVars, timerVars, schedVars,
                   restVars>>

LockGranted(r) ==
    /\ pc[r] = "lock" /\ r \notin cancelled
    /\ LockFree
    /\ HoldLock(r, scope[r])
    /\ UNCHANGED <<bufferVars, configVars, timerVars, schedVars,
                   cancelVars, restVars>>

GateGranted(r) ==
    /\ pc[r] = "gate" /\ r \notin cancelled
    /\ ActivityMayEnter
    /\ CallCurator(r, scope[r])
    /\ UNCHANGED <<bufferVars, configVars, timerVars, schedVars,
                   cancelVars, restVars>>

\* CancelledError is turned into an outcome, so the awaiting task goes on.
Swallow(r) ==
    /\ r \in cancelled
    /\ pc[r] \in {"lock", "gate", "curator"}
    /\ Done(r, "cancelled")
    /\ UNCHANGED <<bufferVars, configVars, timerVars, schedVars,
                   cancelVars, restVars>>

\* curator.review returns: the Agent may have finished first, or may have
\* suppressed the cancellation.
Superseded(r) ==
    /\ r \in outdated
    /\ Done(r, "cancelled")
    /\ UNCHANGED bufferVars

\* _record_failure.  Back-off counts from the time the review was called, so
\* it may be over already.
RecordFailure(r) ==
    /\ r \notin outdated
    /\ Done(r, "none")
    /\ sources[r] \subseteq buffer
    /\ attempts' = [s \in Sources |->
                       IF s \in sources[r] /\ attempts[s] < MaxAttempts
                       THEN attempts[s] + 1 ELSE attempts[s]]
    /\ retryLater' \in {retryLater \union sources[r], retryLater \ sources[r]}
    /\ late' = late \ sources[r]
    /\ UNCHANGED buffer

\* commit_review: the sources accepted proposals cite leave the buffer.
CommitReview(r) ==
    /\ r \notin outdated
    /\ enabled /\ scopeOn[scope[r]]
    /\ sources[r] \subseteq buffer
    /\ Done(r, "none")
    /\ \E cited \in SUBSET sources[r] : Delete(cited)

\* "disabled" and "store_error": a transaction that rolled back.
CommitNothing(r) ==
    /\ r \notin outdated
    /\ Done(r, "none")
    /\ UNCHANGED bufferVars

CuratorReturns(r) ==
    /\ pc[r] = "curator"
    /\ \/ Superseded(r)
       \/ RecordFailure(r)
       \/ CommitReview(r)
       \/ CommitNothing(r)
    /\ UNCHANGED <<configVars, timerVars, schedVars, cancelVars, restVars>>
-----------------------------------------------------------------------------
(* _scheduler_loop, run_due, run_periodic                                  *)

Clean(d, scs) == [sc \in Scopes |-> IF sc \in scs THEN "clean" ELSE d[sc]]

\* _run_background up to its await.
Launch(kind, sc) ==
    /\ sched' = kind
    /\ pc' = [pc EXCEPT ![Background] = "created"]
    /\ scope' = [scope EXCEPT ![Background] = sc]
    /\ outcome' = "none"
    /\ cancelled' = cancelled \ {Background}
    /\ outdated' = outdated \ {Background}

NoLaunch ==
    /\ pc' = [pc EXCEPT ![Background] = "off"]
    /\ scope' = [scope EXCEPT ![Background] = Unset]
    /\ outcome' = "none"
    /\ cancelled' = cancelled \ {Background}
    /\ outdated' = outdated \ {Background}

NeverChecked == TRUE                 \* mutant: the loop does not test _running
GoesOn == Running

\* The head of the loop: the flag, then the wait.  The event is cleared after
\* the deadlines are read, with no suspension between, so any deadline, even
\* one set while the loop was busy, ends the wait.
Rest ==
    /\ sched' = IF GoesOn THEN "wait" ELSE "off"
    /\ queue' = {} /\ late' = {}
    /\ NoLaunch

RunPeriodic(scs, stale) ==
    \/ \E sc \in scs, skipped \in SUBSET {x \in scs : ~scopeOn[x]} :
          /\ scopeOn[sc]
          /\ Launch("periodic", sc)
          /\ queue' = scs \ (skipped \union {sc})
          /\ late' = stale
          /\ UNCHANGED periodicDue
    \/ /\ \A sc \in scs : ~scopeOn[sc]
       /\ Rest
       /\ periodicDue' = FALSE

AfterDue ==
    IF periodicDue THEN RunPeriodic(IF enabled THEN PeriodicScopes ELSE {}, {})
    ELSE Rest /\ UNCHANGED periodicDue

\* The list of due scopes is from the start of the loop; a scope with too few
\* sources is dropped without a suspension.
RunDue(scs, stale, d) ==
    \/ \E sc \in scs, skipped \in SUBSET {x \in scs : ~Enough(x, stale)} :
          /\ Enough(sc, stale)
          /\ Launch("threshold", sc)
          /\ queue' = scs \ (skipped \union {sc})
          /\ dirty' = Clean(d, skipped \union {sc})
          /\ late' = stale
          /\ UNCHANGED periodicDue
    \/ /\ \A sc \in scs : ~Enough(sc, stale)
       /\ dirty' = Clean(d, scs)
       /\ AfterDue

SchedulerTurn ==
    /\ sched = "wait" /\ ~schedCancelled
    /\ periodicDue \/ \E sc \in Scopes : dirty[sc] = "due"
    /\ RunDue({sc \in Scopes : enabled /\ dirty[sc] = "due"}, {}, dirty)
    /\ UNCHANGED <<buffer, attempts, retryLater, configVars, schedCancelled,
                   sources, input, interrupts, restVars>>

\* What the awaited review returned: a cancelled one is armed again.
Rearmed ==
    IF sched = "threshold" /\ outcome = "cancelled"
    THEN [dirty EXCEPT ![scope[Background]] = "idle"] ELSE dirty

SchedulerResumes ==
    /\ sched \in {"threshold", "periodic"} /\ ~schedCancelled
    /\ pc[Background] = "done" /\ outcome # "raised"
    /\ \/ sched = "threshold" /\ RunDue(queue, late, Rearmed)
       \/ sched = "periodic" /\ RunPeriodic(queue, late) /\ UNCHANGED dirty
    /\ UNCHANGED <<buffer, attempts, retryLater, configVars, schedCancelled,
                   sources, input, interrupts, restVars>>

\* CancelledError leaves the loop: the task's own cancellation, or the one of
\* a background review that had not begun.
SchedulerDies ==
    /\ sched # "off"
    /\ \/ schedCancelled
       \/ /\ sched \in {"threshold", "periodic"}
          /\ pc[Background] = "done" /\ outcome = "raised"
    /\ sched' = "off" /\ queue' = {} /\ schedCancelled' = FALSE
    /\ NoLaunch
    /\ UNCHANGED <<bufferVars, configVars, timerVars, sources, input,
                   interrupts, restVars>>
-----------------------------------------------------------------------------
(* Messages, configuration and time.                                       *)

\* _collect_long_term_memory: the row, then notify.
Collect(s) ==
    /\ Running /\ enabled /\ scopeOn[ScopeOf[s]]
    /\ s \notin buffer
    /\ buffer' = buffer \union {s}
    /\ dirty' = [dirty EXCEPT ![ScopeOf[s]] = "idle"]
    /\ UNCHANGED <<attempts, retryLater, late, periodicDue, configVars,
                   schedVars, taskVars, cancelVars, restVars>>

SetScopeEnabled(sc) ==
    /\ Running /\ toggles < MaxToggles
    /\ toggles' = toggles + 1
    /\ scopeOn' = [scopeOn EXCEPT ![sc] = ~@]
    /\ UNCHANGED <<enabled, bufferVars, timerVars, schedVars, taskVars,
                   cancelVars, restVars>>

\* reload(), called with an activity lease.
Reload(on) ==
    /\ Running /\ ActivityMayEnter /\ toggles < MaxToggles
    /\ toggles' = toggles + 1
    /\ enabled' = on
    /\ IF on THEN UNCHANGED <<cancelled, outdated>> ELSE CancelAll
    /\ periodicDue' = FALSE
    /\ UNCHANGED <<scopeOn, dirty, interrupts, bufferVars, schedVars, taskVars,
                   restVars>>

\* Only the scheduler compares these deadlines with the clock.
IdlePasses(sc) ==
    /\ sched # "off" /\ dirty[sc] = "idle"
    /\ dirty' = [dirty EXCEPT ![sc] = "due"]
    /\ UNCHANGED <<periodicDue, bufferVars, configVars, schedVars,
                   taskVars, cancelVars, restVars>>

IntervalPasses ==
    /\ sched # "off" /\ ~periodicDue
    /\ periodicDue' = TRUE
    /\ UNCHANGED <<dirty, bufferVars, configVars, schedVars, taskVars,
                   cancelVars, restVars>>

RetryPasses(s) ==
    /\ sched # "off" /\ s \in retryLater
    /\ retryLater' = retryLater \ {s}
    /\ late' = IF sched \in {"threshold", "periodic"} THEN late \union {s}
               ELSE late
    /\ UNCHANGED <<buffer, attempts, configVars, timerVars, schedVars,
                   taskVars, cancelVars, restVars>>
-----------------------------------------------------------------------------
(* stop()                                                                  *)

\* Cancelling the scheduler while it awaits a review cancels the review.
BeginStop ==
    /\ Running
    /\ coordinator' = "stopLoops"
    /\ CancelAll
    /\ awaited' = UnderWay
    /\ schedCancelled' = (sched # "off" /\ Background \notin UnderWay)
    /\ maint' = "off"
    /\ UNCHANGED <<dirty, periodicDue, sched, queue, interrupts, bufferVars, configVars, taskVars>>

LoopsEnded ==
    /\ coordinator = "stopLoops"
    /\ sched = "off"
    /\ coordinator' = "stopReviews"
    /\ UNCHANGED <<maint, awaited, bufferVars, configVars, timerVars,
                   schedVars, taskVars, cancelVars>>

ReviewsEnded ==
    /\ coordinator = "stopReviews"
    /\ awaited \intersect UnderWay = {}
    /\ coordinator' = "stopped"
    /\ UNCHANGED <<maint, awaited, bufferVars, configVars, timerVars,
                   schedVars, taskVars, cancelVars>>
-----------------------------------------------------------------------------
ReviewStep(r) ==
    LockGranted(r) \/ GateGranted(r) \/ Swallow(r) \/ CuratorReturns(r)

Scheduler == SchedulerTurn \/ SchedulerResumes \/ SchedulerDies
Maintenance == MaintenanceTurn \/ MaintenanceEnters

ReviewNext ==
    \/ Interactive
    \/ Maintenance
    \/ BackgroundBegins
    \/ \E r \in Reviews : ReviewStep(r)
    \/ \E r \in Requests, sc \in Scopes : ReviewNow(r, sc)
    \/ Scheduler
    \/ \E s \in Sources : Collect(s) \/ RetryPasses(s)
    \/ \E sc \in Scopes : SetScopeEnabled(sc) \/ IdlePasses(sc)
    \/ \E on \in BOOLEAN : Reload(on)
    \/ IntervalPasses
    \/ BeginStop \/ LoopsEnded \/ ReviewsEnded

\* The event loop runs what is ready, clocks advance, a curator call is cut
\* off by its timeout.
ReviewFairness ==
    /\ WF_reviewVars(Scheduler)
    /\ WF_reviewVars(BackgroundBegins)
    /\ \A r \in Reviews : WF_reviewVars(ReviewStep(r))
    /\ WF_reviewVars(MaintenanceEnters)
    /\ WF_reviewVars(IntervalPasses)
    /\ \A s \in Sources : WF_reviewVars(RetryPasses(s))
    /\ WF_reviewVars(LoopsEnded) /\ WF_reviewVars(ReviewsEnded)

ReviewSpec == ReviewInit /\ [][ReviewNext]_reviewVars /\ ReviewFairness
-----------------------------------------------------------------------------
(* Properties.                                                             *)

\* The file the Agent of a review reads is the one written for that review:
\* all reviews use one path, and only _review_lock keeps them apart.
InputIsOwn == \A r \in Reviews : pc[r] = "curator" => input = r

\* While the Agent works on sources they stay in the buffer, whatever
\* explicit reviews and expiry do, so _require_scoped_sources finds them all.
SourcesRemain ==
    \A r \in Reviews : pc[r] = "curator" => sources[r] \subseteq buffer

\* A review that was told to give way (interactive work for a background one,
\* a global disable or stop for any) applies nothing, even if its Agent
\* suppresses the cancellation or memory is enabled again before it returns.
CancelledNeverCommits ==
    [][\A r \in cancelled : \A s \in sources[r] :
          pc[r] = "curator" /\ pc'[r] = "done" => s \in buffer']_reviewVars

Backlog(sc) ==
    /\ Running /\ enabled /\ scopeOn[sc]
    /\ \/ Cardinality(Of(sc)) >= Minimum
       \/ \E s \in Of(sc) : attempts[s] >= MaxAttempts

UnderReview(sc) == \E r \in Reviews : pc[r] = "curator" /\ scope[r] = sc

\* As long as the scheduler task lives, a backlog is reviewed (again), or is
\* dissolved by expiry, by consumption, by a disable or by stop, no matter how
\* earlier reviews ended.
BacklogIsReviewed ==
    \A sc \in Scopes :
        Backlog(sc) ~> (UnderReview(sc) \/ ~Backlog(sc) \/ sched = "off")

\* stop() returns, although a review turns its cancellation into an outcome
\* and the scheduler then goes on with its loop.
StopFinishes == coordinator = "stopLoops" ~> coordinator = "stopped"

\* The design says the rows of a cancelled background review "remain pending
\* and retry later".
RetriedLater ==
    \A sc \in Scopes : Backlog(sc) ~> (UnderReview(sc) \/ ~Backlog(sc))
=============================================================================
