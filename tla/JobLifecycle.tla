---------------------------- MODULE JobLifecycle ----------------------------
(***************************************************************************)
(* A job from its command to its reply: Policy (policy.py) driven by the   *)
(* handlers of App (main.py).                                              *)
(*                                                                         *)
(* The handlers are coroutines of one event loop.  Each suspends while it  *)
(* sends a message to the gateway, and the other handlers, /stop and       *)
(* /reload among them, run in between: a handler that waits for a send and *)
(* changes more than the list of jobs after it is a member of pending.     *)
(* Every name of a job is resolved to the job.                             *)
(***************************************************************************)
EXTENDS Naturals, Sequences, SequencesExt, FiniteSets

CONSTANTS
    Jobs,         \* job ids
    Kind,         \* [Jobs -> Kinds], who starts the job and how
    FirstLimit,   \* agent.max_concurrent_jobs at start
    Limits,       \* values of it that a reload finds
    MaxFinished,  \* max_finished_jobs
    MaxReloads    \* bound: reloads

\* "direct": /ask, /plan, /search, /task; "code": a command that needs the
\* owner's approval; "parse": a schedule in natural language; "schedule": an
\* agent run of the scheduler.
Kinds == {"direct", "code", "parse", "schedule"}

ASSUME JobsFinite == IsFiniteSet(Jobs)
ASSUME KindType == Kind \in [Jobs -> Kinds]
ASSUME LimitsType == Limits \subseteq Nat \ {0} /\ FirstLimit \in Limits
ASSUME BoundsType == MaxFinished \in Nat /\ MaxReloads \in Nat

VARIABLES
    state,       \* Job.state
    nonce,       \* jobs with a confirm_nonce
    listed,      \* the keys of Policy.jobs in insertion order
    task,        \* Job.task
    cancelling,  \* jobs whose task was cancelled
    semaphores,  \* Policy._semaphore, after the ones it replaced
    home,        \* index of the semaphore that a job's task entered
    pending,     \* <<job, message>>: handlers that wait for a send
    reply,       \* the reply task
    reloads,
    approved,    \* history: jobs the owner approved
    replies,     \* history: reply tasks per job
    orphaned,    \* history: jobs whose launch or task ended half-way
    revived      \* history: jobs started after they were stopped

history == <<approved, replies, orphaned, revived>>
vars == <<state, nonce, listed, task, cancelling, semaphores, home, pending,
          reply, reloads, history>>
-----------------------------------------------------------------------------
States == {"none", "queued", "running", "waiting_approval", "done",
           "cancelled"}
Active == {"queued", "running", "waiting_approval"}
LiveTask == {"created", "waiting", "running"}
Messages == {"approved", "announce", "progress"}

\* asyncio.Semaphore: waiters in FIFO order, some already granted a slot.
NewSemaphore(limit) ==
    [limit |-> limit, free |-> limit, waiting |-> <<>>, granted |-> {}]
Semaphore == [limit : Limits, free : Nat, waiting : Seq(Jobs),
              granted : SUBSET Jobs]

TypeOK ==
    /\ state \in [Jobs -> States]
    /\ nonce \subseteq Jobs
    /\ listed \in Seq(Jobs)
    /\ task \in [Jobs -> {"none", "done"} \union LiveTask]
    /\ cancelling \subseteq Jobs
    /\ semaphores \in Seq(Semaphore) /\ semaphores # <<>>
    /\ home \in [Jobs -> 0..Len(semaphores)]
    /\ pending \subseteq (Jobs \X Messages)
    /\ reply \in [Jobs -> {"none", "waiting", "delivering", "ended"}]
    /\ reloads \in Nat
    /\ approved \subseteq Jobs
    /\ replies \in [Jobs -> Nat]
    /\ orphaned \subseteq Jobs
    /\ revived \subseteq Jobs

Init ==
    /\ state = [j \in Jobs |-> "none"]
    /\ nonce = {} /\ listed = <<>>
    /\ task = [j \in Jobs |-> "none"]
    /\ cancelling = {}
    /\ semaphores = <<NewSemaphore(FirstLimit)>>
    /\ home = [j \in Jobs |-> 0]
    /\ pending = {}
    /\ reply = [j \in Jobs |-> "none"]
    /\ reloads = 0
    /\ approved = {} /\ orphaned = {} /\ revived = {}
    /\ replies = [j \in Jobs |-> 0]
-----------------------------------------------------------------------------
\* The elements of s that are in S, in their order.  SelectSeq, as a recursive
\* function that proofs can expand.
Only(s, S) ==
    LET kept[i \in 0..Len(s)] ==
            IF i = 0 THEN <<>>
            ELSE IF s[i] \in S THEN Append(kept[i - 1], s[i]) ELSE kept[i - 1]
    IN kept[Len(s)]
-----------------------------------------------------------------------------
(* Policy.cleanup.                                                         *)

Finished(j) == task'[j] \notin LiveTask

\* Mutant: a cancelled job counts as finished while its task unwinds.
PrunableUnwinding(j) == state'[j] \in {"waiting_approval", "done", "cancelled"}
Prunable(j) ==
    \/ state'[j] = "waiting_approval"
    \/ state'[j] \in {"done", "cancelled"} /\ Finished(j)

\* The oldest prunable jobs beyond the limit are forgotten.
Pruned(jobs) ==
    LET prunable == Only(jobs, {j \in Jobs : Prunable(j)})
        dropped == ToSet(SubSeq(prunable, 1, Len(prunable) - MaxFinished))
    IN IF Len(prunable) > MaxFinished THEN Only(jobs, Jobs \ dropped) ELSE jobs

CleanUp == listed' = Pruned(listed)
-----------------------------------------------------------------------------
(* Launching a job.                                                        *)

\* start_job_task: a job has one task.
StartTask(j) ==
    IF task[j] # "none" THEN UNCHANGED <<state, task, revived>>
    ELSE /\ state' = [state EXCEPT ![j] = "queued"]
         /\ task' = [task EXCEPT ![j] = "created"]
         /\ revived' = IF state[j] = "cancelled" THEN revived \union {j}
                       ELSE revived

ScheduleReply(j) ==
    /\ reply' = [reply EXCEPT ![j] = "waiting"]
    /\ replies' = [replies EXCEPT ![j] = @ + 1]

\* start_job; a direct job is started at once, and some announce progress
\* before the reply task is created.
Submit(j) ==
    /\ state[j] = "none"
    /\ listed' = Append(listed, j)
    /\ \/ /\ Kind[j] = "direct"
          /\ StartTask(j)
          /\ \/ pending' = pending \union {<<j, "progress">>}
                /\ UNCHANGED <<reply, replies>>
             \/ ScheduleReply(j) /\ UNCHANGED pending
          /\ UNCHANGED nonce
       \/ /\ Kind[j] \in {"parse", "schedule"}
          /\ state' = [state EXCEPT ![j] = "queued"]
          /\ pending' = pending \union {<<j, "announce">>}
          /\ UNCHANGED <<nonce, task, reply, replies, revived>>
       \/ /\ Kind[j] = "code"
          /\ state' = [state EXCEPT ![j] = "waiting_approval"]
          /\ nonce' = nonce \union {j}
          /\ UNCHANGED <<pending, task, reply, replies, revived>>
    /\ UNCHANGED <<cancelling, semaphores, home, reloads, approved, orphaned>>

\* Mutant: the nonce stays valid.
NonceKept(j) == nonce
WithoutNonce(j) == nonce \ {j}

\* The owner's /approve with the right nonce.  The state is not looked at.
Approve(j) ==
    /\ j \in ToSet(listed) /\ j \in nonce
    /\ nonce' = WithoutNonce(j)
    /\ state' = [state EXCEPT ![j] = "queued"]
    /\ pending' = pending \union {<<j, "approved">>}
    /\ approved' = approved \union {j}
    /\ UNCHANGED <<listed, task, cancelling, semaphores, home, reply, reloads,
                   replies, orphaned, revived>>

\* The handler goes on after its message was sent.
Sent(j, message) ==
    /\ <<j, message>> \in pending
    /\ pending' = pending \ {<<j, message>>}
    /\ \/ /\ message = "progress"
          /\ ScheduleReply(j)
          /\ UNCHANGED <<state, listed, task, revived>>
       \/ /\ message = "announce"
          /\ StartTask(j) /\ ScheduleReply(j)
          /\ IF Kind[j] = "parse" THEN CleanUp ELSE UNCHANGED listed
       \/ /\ message = "approved"
          /\ IF j \in ToSet(listed) THEN StartTask(j) /\ ScheduleReply(j)
             ELSE UNCHANGED <<state, task, reply, replies, revived>>
          /\ CleanUp
    /\ UNCHANGED <<nonce, cancelling, semaphores, home, reloads, approved,
                   orphaned>>

\* The gateway refused, or did not answer in time: the handler is abandoned.
SendFails(j, message) ==
    /\ <<j, message>> \in pending
    /\ pending' = pending \ {<<j, message>>}
    /\ orphaned' = orphaned \union {j}
    /\ UNCHANGED <<state, nonce, listed, task, cancelling, semaphores, home,
                   reply, reloads, approved, replies, revived>>
-----------------------------------------------------------------------------
(* Stopping, cleaning up, reloading.                                       *)

\* /stop, by the owner: cancel_by_ref finds active jobs only.
Stop(j) ==
    /\ j \in ToSet(listed) /\ state[j] \in Active
    /\ state' = [state EXCEPT ![j] = "cancelled"]
    /\ cancelling' = IF task[j] \in LiveTask THEN cancelling \union {j}
                     ELSE cancelling
    /\ UNCHANGED <<nonce, listed, task, semaphores, home, pending, reply,
                   reloads, history>>

\* The scheduler cancels the run that waits for the job: the wait passes the
\* cancellation on, to the announcement, the task or the reply.
Interrupt(j) ==
    /\ Kind[j] = "schedule" /\ j \notin cancelling
    /\ \/ /\ <<j, "announce">> \in pending
          /\ pending' = pending \ {<<j, "announce">>}
          /\ orphaned' = orphaned \union {j}
          /\ UNCHANGED <<state, task, listed, cancelling, reply>>
       \/ /\ task[j] \in LiveTask
          /\ cancelling' = cancelling \union {j}
          /\ UNCHANGED <<state, task, listed, pending, reply, orphaned>>
       \/ /\ task[j] = "done" /\ reply[j] \in {"waiting", "delivering"}
          /\ reply' = [reply EXCEPT ![j] = "ended"]
          /\ UNCHANGED <<state, task, cancelling, pending, orphaned>>
          /\ CleanUp
    /\ UNCHANGED <<nonce, semaphores, home, reloads, approved, replies,
                   revived>>

\* The end of a handler that has only the cleanup left after its message:
\* /stop, a confirmation request, and every other command.
OtherCommand ==
    /\ UNCHANGED <<state, task>>
    /\ CleanUp
    /\ UNCHANGED <<nonce, cancelling, semaphores, home, pending, reply,
                   reloads, history>>

\* Mutant: reload does not look.
NeverActive == FALSE
AnyActive == \E j \in ToSet(listed) : state[j] \in {"queued", "running"}

\* reload_config: the semaphore is replaced only when nothing uses it.
Reload(limit) ==
    /\ reloads < MaxReloads
    /\ reloads' = reloads + 1
    /\ semaphores' = IF AnyActive THEN semaphores
                     ELSE Append(semaphores, NewSemaphore(limit))
    /\ UNCHANGED <<state, nonce, listed, task, cancelling, home, pending,
                   reply, history>>
-----------------------------------------------------------------------------
(* The job's task: _run.                                                   *)

\* Slots go to the waiters in order, except cancelled ones.
Wake(s) ==
    LET waiters == Only(s.waiting, Jobs \ (s.granted \union cancelling))
        n == IF s.free < Len(waiters) THEN s.free ELSE Len(waiters)
    IN IF s.free = 0 \/ s.waiting = <<>> THEN s
       ELSE [s EXCEPT !.free = @ - n,
                      !.granted = @ \union ToSet(SubSeq(waiters, 1, n))]

Release(s) == Wake([s EXCEPT !.free = @ + 1])

Leave(s, j) == [s EXCEPT !.waiting = Only(@, Jobs \ {j}), !.granted = @ \ {j}]

\* A waiter that was cancelled after it had been granted a slot passes it on.
GiveUp(s, j) ==
    IF j \in s.granted THEN Release(Leave(s, j)) ELSE Leave(s, j)

TaskStep(j) == UNCHANGED <<nonce, listed, cancelling, pending, reply, reloads,
                           approved, replies, revived>>

\* A task that was cancelled before its first step ends without entering
\* _run; otherwise it enters the current semaphore.
Enter(j) ==
    LET current == Len(semaphores)
        s == semaphores[current]
        open == s.free > 0 /\ ToSet(s.waiting) \subseteq cancelling
    IN
    /\ task[j] = "created"
    /\ IF j \in cancelling
       THEN /\ task' = [task EXCEPT ![j] = "done"]
            /\ orphaned' = IF state[j] = "queued" THEN orphaned \union {j}
                           ELSE orphaned
            /\ UNCHANGED <<state, home, semaphores>>
       ELSE /\ home' = [home EXCEPT ![j] = current]
            /\ IF open
               THEN /\ task' = [task EXCEPT ![j] = "running"]
                    /\ state' = [state EXCEPT ![j] = "running"]
                    /\ semaphores' = [semaphores EXCEPT ![current].free = @ - 1]
               ELSE /\ task' = [task EXCEPT ![j] = "waiting"]
                    /\ semaphores' = [semaphores EXCEPT
                                        ![current].waiting = Append(@, j)]
                    /\ UNCHANGED state
            /\ UNCHANGED orphaned
    /\ TaskStep(j)

Acquire(j) ==
    /\ task[j] = "waiting" /\ j \notin cancelling
    /\ j \in semaphores[home[j]].granted
    /\ task' = [task EXCEPT ![j] = "running"]
    /\ state' = [state EXCEPT ![j] = "running"]
    /\ semaphores' = [semaphores EXCEPT ![home[j]] = Wake(Leave(@, j))]
    /\ UNCHANGED <<home, orphaned>>
    /\ TaskStep(j)

CancelWait(j) ==
    /\ task[j] = "waiting" /\ j \in cancelling
    /\ task' = [task EXCEPT ![j] = "done"]
    /\ state' = [state EXCEPT ![j] = "cancelled"]
    /\ semaphores' = [semaphores EXCEPT ![home[j]] = GiveUp(@, j)]
    /\ UNCHANGED <<home, orphaned>>
    /\ TaskStep(j)

\* Mutants: a state nothing else knows; a cancellation is taken for a failure;
\* an outcome is not recorded.
Failed(j) == IF j \in cancelling THEN "cancelled" ELSE "failed"
AlwaysDone(j) == "done"
Unrecorded(j) == IF j \in cancelling THEN "cancelled" ELSE "running"
Outcome(j) == IF j \in cancelling THEN "cancelled" ELSE "done"

\* The end of "async with": every way out of the runner frees the slot.
\* Mutant: only a return does.
ExitLeaking(s, j) == IF j \in cancelling THEN s ELSE Release(s)
Exit(s, j) == Release(s)

\* The runner returned, raised, timed out, or was unwound by a cancellation.
EndRun(j) ==
    /\ task[j] = "running"
    /\ task' = [task EXCEPT ![j] = "done"]
    /\ state' = [state EXCEPT ![j] = Outcome(j)]
    /\ semaphores' = [semaphores EXCEPT ![home[j]] = Exit(@, j)]
    /\ UNCHANGED <<home, orphaned>>
    /\ TaskStep(j)

\* _reply_when_done: a cancelled job has no reply.
Collect(j) ==
    /\ reply[j] = "waiting" /\ task[j] = "done"
    /\ UNCHANGED <<state, task>>
    /\ IF j \in cancelling
       THEN reply' = [reply EXCEPT ![j] = "ended"] /\ CleanUp
       ELSE reply' = [reply EXCEPT ![j] = "delivering"] /\ UNCHANGED listed
    /\ UNCHANGED <<nonce, cancelling, semaphores, home, pending, reloads,
                   history>>

\* The reply was sent, or failed to be; its cleanup always happens.
Deliver(j) ==
    /\ reply[j] = "delivering"
    /\ reply' = [reply EXCEPT ![j] = "ended"]
    /\ UNCHANGED <<state, task>>
    /\ CleanUp
    /\ UNCHANGED <<nonce, cancelling, semaphores, home, pending, reloads,
                   history>>
-----------------------------------------------------------------------------
Handlers ==
    \/ \E j \in Jobs : Submit(j) \/ Approve(j) \/ Stop(j) \/ Interrupt(j)
    \/ \E j \in Jobs, message \in Messages :
          Sent(j, message) \/ SendFails(j, message)
    \/ OtherCommand
    \/ \E limit \in Limits : Reload(limit)

Next ==
    \/ Handlers
    \/ \E j \in Jobs :
          \/ Enter(j) \/ Acquire(j) \/ CancelWait(j) \/ EndRun(j)
          \/ Collect(j) \/ Deliver(j)

\* Ready tasks run; a runner is cut off after its maximum runtime; a send is
\* answered or times out.
Fairness ==
    \A j \in Jobs :
        /\ WF_vars(Enter(j)) /\ WF_vars(Acquire(j)) /\ WF_vars(CancelWait(j))
        /\ WF_vars(EndRun(j)) /\ WF_vars(Collect(j)) /\ WF_vars(Deliver(j))
        /\ \A message \in Messages :
              WF_vars(Sent(j, message) \/ SendFails(j, message))

Spec == Init /\ [][Next]_vars /\ Fairness
-----------------------------------------------------------------------------
(* Safety.                                                                 *)

\* Never more jobs execute than the semaphore in force allows, across reloads
\* that change the limit; a cancelled job that still unwinds may hold a slot
\* of the replaced semaphore, and so may a job started after it had been
\* stopped, which the list of jobs can have forgotten.
RunningWithinLimit ==
    Cardinality({j \in Jobs \ revived : state[j] = "running"})
        <= Last(semaphores).limit

\* A job is answered by one reply task, and code runs only after the owner
\* approved it.
StartedOnce ==
    \A j \in Jobs :
        /\ replies[j] <= 1
        /\ Kind[j] = "code" /\ task[j] # "none" => j \in approved

\* A job whose task lives can be found by /status and /stop, unless it was
\* started after it had been stopped.
ListedWhileLive ==
    \A j \in Jobs \ revived :
        task[j] \in LiveTask => j \in ToSet(listed)

\* A job that counts as active has somebody who will finish it, unless its
\* launch failed half-way or it was cancelled before its first step: such a
\* job blocks every later change of the limit.
ActiveIsOwned ==
    \A j \in Jobs \ orphaned :
        state[j] \in {"queued", "running"} =>
            \/ task[j] \in LiveTask
            \/ <<j, "announce">> \in pending
            \/ <<j, "approved">> \in pending

\* A job stopped after its task was created stays cancelled, whether it was
\* queued, granted a slot, executing, or ends while the handler still sends.
StoppedTaskStays ==
    [][\A j \in Jobs :
          state[j] = "cancelled" /\ task[j] # "none"
             => state'[j] = "cancelled"]_vars

\* README.md, /stop <job>: "cancel a job".  A stopped job never comes back.
StopIsFinal ==
    [][\A j \in Jobs : state[j] = "cancelled" => state'[j] = "cancelled"]_vars
-----------------------------------------------------------------------------
(* Liveness.                                                               *)

\* A job with a reply task leaves the queue, ends, and is replied to: no slot
\* is lost to a cancellation, a reload or a failure.
ReplyFollows ==
    \A j \in Jobs :
        reply[j] = "waiting" ~> (reply[j] = "ended" /\ task[j] = "done")
=============================================================================
