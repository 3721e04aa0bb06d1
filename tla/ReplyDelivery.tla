---------------------------- MODULE ReplyDelivery ----------------------------
(***************************************************************************)
(* A job's reply, from its output directory to its cleanup, beside storage *)
(* maintenance: the reply tasks of App (main.py), inspect_outgoing_resources*)
(* (outgoing_resources.py), resolve_artifacts (artifact_delivery.py) and    *)
(* the sessions of AgentMemoryManager (agent_memory.py).                   *)
(*                                                                         *)
(* A /task or /code job may send files: the agent writes them to the job's *)
(* outbox and names them in directives; the reply copies them to "sending",*)
(* asks for one repair when a directive cannot be resolved, sends them and *)
(* then the text, and commits the job's memory proposals last.  The copies *)
(* and directories are candidates of maintenance unless they are protected.*)
(***************************************************************************)
EXTENDS StorageMaintenance

CONSTANTS
    Jobs,       \* jobs that may send files; a job's paths are its own
    Artifacts,  \* names of files in an outbox, with the kind they are sent as
    MaxItems,   \* resources.max_items
    MaxChunks   \* bound: messages of a text

ASSUME JobsType == IsFiniteSet(Jobs) /\ IsFiniteSet(Artifacts)
ASSUME ItemsType == MaxItems \in Nat \ {0} /\ MaxChunks \in Nat \ {0}

VARIABLES
    launch,    \* "none", "making", "ready", "launched", "abandoned"
    run,       \* the agent run: "none", "queued", "running" or its result
    session,   \* jobs with an agent memory session
    answer,    \* the directives of the agent's answer
    made,      \* the files in the outbox
    reply,     \* the reply task
    repair,    \* its repair task
    staged,    \* what the first inspection resolved
    missing,   \* the named expectations it did not
    bad,       \* replies with an unresolved directive that names no file
    verified,  \* ArtifactResolution.verified
    outgoing,  \* resources still to be sent
    sent, unsent,
    chunks,    \* messages of text delivered
    tainted,   \* delivery_failed
    outcome,   \* Job.artifact_delivery_outcome
    committed, \* jobs whose memory proposals were committed
    closing    \* App.run's shutdown sequence

agent == <<launch, run, session, answer, made>>
resolution == <<staged, missing, bad, verified>>
delivery == <<outgoing, sent, unsent, chunks, tainted, outcome, committed>>
vars == <<maintenance, agent, reply, repair, resolution, delivery, closing>>

\* Directives with a usable token and path, by name, and those refused before
\* a file was looked for.
Directives == [named : SUBSET Artifacts, refused : 0..1]
Nothing == [named |-> {}, refused |-> 0]

Outbox(j) == <<"outgoing", j>>
Sending(j) == <<"sending", j>>
SessionRoot(j) == <<"agent-memory", j>>
JobPaths(j) == {Outbox(j), Sending(j), SessionRoot(j)}

ASSUME JobPathsType == \A j \in Jobs : JobPaths(j) \subseteq Paths

Results == {"ok", "error", "cancelled"}
Replies == {"none", "await", "repair", "send", "text", "ended"}
Repairs == {"none", "queued", "running", "late", "done"}

TypeOK ==
    /\ MaintenanceTypeOK
    /\ launch \in [Jobs -> {"none", "making", "ready", "launched",
                            "abandoned"}]
    /\ run \in [Jobs -> {"none", "queued", "running"} \union Results]
    /\ session \subseteq Jobs
    /\ answer \in [Jobs -> Directives] /\ made \in [Jobs -> SUBSET Artifacts]
    /\ reply \in [Jobs -> Replies] /\ repair \in [Jobs -> Repairs]
    /\ staged \in [Jobs -> SUBSET Artifacts]
    /\ missing \in [Jobs -> SUBSET Artifacts]
    /\ bad \subseteq Jobs /\ verified \subseteq Jobs
    /\ outgoing \in [Jobs -> SUBSET Artifacts]
    /\ sent \in [Jobs -> SUBSET Artifacts]
    /\ unsent \in [Jobs -> SUBSET Artifacts]
    /\ chunks \in [Jobs -> 0..MaxChunks]
    /\ tainted \subseteq Jobs /\ committed \subseteq Jobs
    /\ outcome \in [Jobs -> {"none", "failed", "succeeded"}]
    /\ closing \in {"no", "replies", "repairs", "maintenance", "closed"}

Empty == [j \in Jobs |-> {}]
Init ==
    /\ MaintenanceInit({p \in Paths : p[2] \notin Jobs})
    /\ launch = [j \in Jobs |-> "none"] /\ run = [j \in Jobs |-> "none"]
    /\ session = {} /\ answer = [j \in Jobs |-> Nothing] /\ made = Empty
    /\ reply = [j \in Jobs |-> "none"] /\ repair = [j \in Jobs |-> "none"]
    /\ staged = Empty /\ missing = Empty /\ bad = {} /\ verified = {}
    /\ outgoing = Empty /\ sent = Empty /\ unsent = Empty
    /\ chunks = [j \in Jobs |-> 0] /\ tainted = {}
    /\ outcome = [j \in Jobs |-> "none"] /\ committed = {}
    /\ closing = "no"
-----------------------------------------------------------------------------
(* The command handler.  _configure_outgoing_resources is not interrupted  *)
(* by another coroutine, but the thread runs on between its calls.         *)

Making == \E j \in Jobs : launch[j] = "making"

\* outbox.mkdir.
MakeOutbox(j) ==
    /\ launch[j] = "none" /\ Serving /\ closing = "no"
    /\ launch' = [launch EXCEPT ![j] = "making"]
    /\ disk' = disk \union {Outbox(j)}
    /\ UNCHANGED <<protected, leases, control, setting, thread, run, session,
                   answer, made, reply, repair, resolution, delivery, closing>>

\* Mutant: only the outbox is protected.
ProtectedAtStart(j) == {Outbox(j)}
ProtectedForJob(j) == {Outbox(j), Sending(j)}

Protect(j) ==
    /\ launch[j] = "making"
    /\ launch' = [launch EXCEPT ![j] = "ready"]
    /\ protected' = protected \union ProtectedForJob(j)
    /\ UNCHANGED <<disk, leases, control, setting, thread, run, session,
                   answer, made, reply, repair, resolution, delivery, closing>>

\* start_job_task and _schedule_reply.
Launch(j) ==
    /\ launch[j] = "ready" /\ closing = "no"
    /\ launch' = [launch EXCEPT ![j] = "launched"]
    /\ run' = [run EXCEPT ![j] = "queued"]
    /\ reply' = [reply EXCEPT ![j] = "await"]
    /\ UNCHANGED <<maintenance, session, answer, made, repair, resolution,
                   delivery, closing>>

\* The handler's message failed, or the job was stopped or forgotten before it
\* was approved: no reply task cleans up, and the paths stay protected.
Abandon(j) ==
    /\ launch[j] = "ready"
    /\ launch' = [launch EXCEPT ![j] = "abandoned"]
    /\ UNCHANGED <<maintenance, run, session, answer, made, reply, repair,
                   resolution, delivery, closing>>
-----------------------------------------------------------------------------
(* The agent run: _agent_runner.                                           *)

\* The activity lease, then the session: its directory is made and protected
\* inside the lease.  prepare may refuse or fail.
EnterRun(j) ==
    /\ run[j] = "queued" /\ JobMayEnter
    /\ run' = [run EXCEPT ![j] = "running"]
    /\ leases' = leases \union {<<"run", j>>}
    /\ \/ UNCHANGED <<session, files>>
       \/ /\ session' = session \union {j}
          /\ disk' = disk \union {SessionRoot(j)}
          /\ protected' = protected \union {SessionRoot(j)}
    /\ UNCHANGED <<control, setting, thread, launch, answer, made, reply,
                   repair, resolution, delivery, closing>>

\* The agent answers, fails, runs out of time ("error": a text that starts
\* with [error], or [timeout]) or is stopped.  It may leave files either way.
RunEnds(j) ==
    /\ run[j] \in {"queued", "running"}
    /\ leases' = leases \ {<<"run", j>>}
    /\ \E r \in Results :
          /\ run[j] = "queued" => r = "cancelled"
          /\ run' = [run EXCEPT ![j] = r]
          /\ IF run[j] = "running" /\ Outbox(j) \in disk
             THEN \E left \in SUBSET Artifacts : made' = [made EXCEPT ![j] = left]
             ELSE UNCHANGED made
          /\ IF r = "ok"
             THEN \E d \in Directives : answer' = [answer EXCEPT ![j] = d]
             ELSE UNCHANGED answer
    /\ UNCHANGED <<files, control, setting, thread, launch, session, reply,
                   repair, resolution, delivery, closing>>
-----------------------------------------------------------------------------
(* inspect_outgoing_resources and resolve_artifacts.                       *)

Attempted(d) == Cardinality(d.named) + d.refused
Resolved(i) == i.missing = {} /\ ~i.bad

\* What an inspection may find, given the directives and the files.  A file
\* that exists may still be refused (size, links, a change while it is copied),
\* and no more than max_items are taken.
Staging(d, present) ==
    {[staged |-> s, missing |-> d.named \ s, bad |-> d.refused > 0] :
        s \in {s \in SUBSET (d.named \intersect present) :
                  Cardinality(s) <= MaxItems}}

\* discover_unique: with no directive, or a single one whose file is missing,
\* the only file of the outbox is taken instead.
Alone(d, present) ==
    /\ Cardinality(present) = 1 /\ d.refused = 0
    /\ Cardinality(d.named) <= 1 /\ d.named \intersect present = {}

Discovery(d, present) ==
    IF Alone(d, present)
    THEN {[staged |-> present, missing |-> {}, bad |-> FALSE],
          [staged |-> {}, missing |-> d.named \union present, bad |-> FALSE]}
    ELSE Staging(d, present)

\* _validate_outbox: every directive is refused when the outbox is gone.
Inspections(j, d, present) ==
    IF Outbox(j) \in disk THEN Discovery(d, present)
    ELSE {[staged |-> {}, missing |-> {}, bad |-> Attempted(d) > 0]}

\* _copy_for_sending makes the job's sending directory.
Copies(j, resources) ==
    disk' = IF resources = {} THEN disk ELSE disk \union {Sending(j)}

\* The reply goes on with what was resolved; without a verified resolution no
\* resource is sent.
Resolve(j, resources, ok) ==
    /\ verified' = IF ok THEN verified \union {j} ELSE verified
    /\ tainted' = IF ok /\ run[j] = "ok" THEN tainted ELSE tainted \union {j}
    /\ outcome' = [outcome EXCEPT ![j] = IF ok /\ resources = {} THEN "none"
                                         ELSE "failed"]
    /\ outgoing' = [outgoing EXCEPT ![j] = IF ok THEN resources ELSE {}]
    /\ reply' = [reply EXCEPT ![j] = "send"]
    /\ UNCHANGED <<sent, unsent, chunks, committed>>

\* _reply_when_done_inner after job.task, unless the run was cancelled.
Inspect(j) ==
    /\ reply[j] = "await" /\ run[j] \in {"ok", "error"}
    /\ \E i \in Inspections(j, answer[j], made[j]) :
          /\ staged' = [staged EXCEPT ![j] = i.staged]
          /\ missing' = [missing EXCEPT ![j] = i.missing]
          /\ bad' = IF i.bad THEN bad \union {j} ELSE bad
          /\ Copies(j, i.staged)
          /\ IF Attempted(answer[j]) = 0 \/ Resolved(i)
             THEN Resolve(j, i.staged, Resolved(i))
             ELSE /\ reply' = [reply EXCEPT ![j] = "repair"]
                  /\ outcome' = [outcome EXCEPT ![j] = "failed"]
                  /\ UNCHANGED <<verified, tainted, outgoing, sent, unsent,
                                 chunks, committed>>
    /\ UNCHANGED <<protected, leases, control, setting, thread, agent, repair,
                   closing>>

\* Mutant: a repair that resolves its own directives is good enough.
AnyRepair(j, i) == Resolved(i)
\* _merge_resources, _repair_matches_expectations: the repair adds exactly the
\* files that were missing.
Matches(j, i) ==
    /\ Resolved(i) /\ j \notin bad
    /\ i.staged \ staged[j] = missing[j]
    /\ Cardinality(staged[j] \union i.staged) <= MaxItems

\* The second inspection, over what the repair said.
InspectRepair(j, d, present) ==
    \E i \in Inspections(j, d, present) :
        /\ Copies(j, i.staged)
        /\ Resolve(j, staged[j] \union i.staged, Matches(j, i))
        /\ UNCHANGED <<staged, missing, bad>>
-----------------------------------------------------------------------------
(* _repair_outgoing_artifacts.                                             *)

StartRepair(j) ==
    /\ reply[j] = "repair" /\ repair[j] = "none" /\ closing = "no"
    /\ repair' = [repair EXCEPT ![j] = "queued"]
    /\ UNCHANGED <<maintenance, agent, reply, resolution, delivery, closing>>

\* gated_agent takes an activity lease.
EnterRepair(j) ==
    /\ repair[j] = "queued" /\ JobMayEnter
    /\ repair' = [repair EXCEPT ![j] = "running"]
    /\ leases' = leases \union {<<"repair", j>>}
    /\ UNCHANGED <<files, control, setting, thread, agent, reply, resolution,
                   delivery, closing>>

\* The repair agent answers or fails (no directives), and may add files.
RepairEnds(j) ==
    /\ reply[j] = "repair" /\ repair[j] = "running"
    /\ repair' = [repair EXCEPT ![j] = "done"]
    /\ leases' = leases \ {<<"repair", j>>}
    /\ \E d \in Directives, extra \in SUBSET Artifacts :
          /\ made' = [made EXCEPT ![j] = @ \union extra]
          /\ InspectRepair(j, d, made[j] \union extra)
    /\ UNCHANGED <<protected, control, setting, thread, launch, run, session,
                   answer, closing>>

CancelRepair(j) ==
    repair' = [repair EXCEPT ![j] = CASE @ = "running" -> "late"
                                      [] @ = "queued" -> "done"
                                      [] OTHER -> @]

\* Nothing is left of the job's time, or the wait of at most 90 seconds is
\* over: the reply goes on with an empty answer while the task is cancelled.
RepairTimeout(j) ==
    /\ reply[j] = "repair" /\ repair[j] \in {"none", "queued", "running"}
    /\ CancelRepair(j)
    /\ InspectRepair(j, Nothing, made[j])
    /\ UNCHANGED <<protected, leases, control, setting, thread, agent, closing>>

\* The cancelled repair agent has ended: only now is its lease released.
LateRepairEnds(j) ==
    /\ repair[j] = "late"
    /\ repair' = [repair EXCEPT ![j] = "done"]
    /\ leases' = leases \ {<<"repair", j>>}
    /\ UNCHANGED <<files, control, setting, thread, agent, reply, resolution,
                   delivery, closing>>
-----------------------------------------------------------------------------
(* Delivery.                                                               *)

\* Mutant: a failed resource is only counted.
CountOnly(j) == UNCHANGED tainted
Taint(j) == tainted' = tainted \union {j}

SendResource(j) ==
    /\ reply[j] = "send"
    /\ \E a \in outgoing[j] :
          /\ outgoing' = [outgoing EXCEPT ![j] = @ \ {a}]
          /\ \/ /\ sent' = [sent EXCEPT ![j] = @ \union {a}]
                /\ UNCHANGED <<unsent, tainted>>
             \/ /\ unsent' = [unsent EXCEPT ![j] = @ \union {a}]
                /\ Taint(j)
                /\ UNCHANGED sent
    /\ UNCHANGED <<maintenance, agent, reply, repair, resolution, chunks,
                   outcome, committed, closing>>

ResourcesDone(j) ==
    /\ reply[j] = "send" /\ outgoing[j] = {}
    /\ reply' = [reply EXCEPT ![j] = "text"]
    /\ outcome' = [outcome EXCEPT ![j] =
                     IF sent[j] # {} /\ unsent[j] = {} THEN "succeeded" ELSE @]
    /\ UNCHANGED <<maintenance, agent, repair, resolution, outgoing, sent,
                   unsent, chunks, tainted, committed, closing>>

\* Mutant: one message too many.
OneMore(j) == chunks[j] <= MaxChunks
MoreText(j) == chunks[j] < MaxChunks

SendChunk(j) ==
    /\ reply[j] = "text" /\ MoreText(j)
    /\ chunks' = [chunks EXCEPT ![j] = @ + 1]
    /\ UNCHANGED <<maintenance, agent, reply, repair, resolution, outgoing,
                   sent, unsent, tainted, outcome, committed, closing>>

Delivered(j) == sent[j] # {} \/ chunks[j] > 0

\* Mutant: the session's directory is forgotten.
ReleasedFirst(j) == ProtectedForJob(j)
Released(j) == JobPaths(j)

\* _cleanup_reply_job: the session's directory is removed, unless that fails,
\* the paths are unprotected, and maintenance is asked to look at the space.
Finish(j) ==
    /\ reply' = [reply EXCEPT ![j] = "ended"]
    /\ session' = session \ {j}
    /\ disk' \in {disk, disk \ {SessionRoot(j)}}
    /\ disk' = disk => SessionRoot(j) \notin disk \/ j \in session
    /\ protected' = protected \ Released(j)
    /\ RequestPressure
    /\ UNCHANGED <<leases, loop, trigger, setting, thread, launch, run, answer,
                   made, resolution, closing>>

\* _commit_agent_memory_after_delivery; a failing commit is logged.
CommitDelivered(j) ==
    IF Delivered(j) /\ j \notin tainted /\ j \in session
    THEN committed' \in {committed, committed \union {j}}
    ELSE UNCHANGED committed

\* The last message is out; a text may be empty only when nothing failed.
ReplyDelivered(j) ==
    /\ reply[j] = "text" /\ (chunks[j] = 0 => j \notin tainted)
    /\ CommitDelivered(j)
    /\ Finish(j)
    /\ UNCHANGED <<repair, outgoing, sent, unsent, chunks, tainted, outcome>>

\* A message failed: _reply_when_done logs it.
FailOutcome(j) ==
    outcome' = [outcome EXCEPT ![j] = IF @ = "none" THEN @ ELSE "failed"]
TextFails(j) ==
    /\ reply[j] = "text" /\ MoreText(j)
    /\ FailOutcome(j)
    /\ Finish(j)
    /\ UNCHANGED <<repair, outgoing, sent, unsent, chunks, tainted, committed>>

\* The reply of a job that sends no files ends: its cleanup does the same.
OtherReplyEnds ==
    /\ closing \in {"no", "replies"} /\ Serving
    /\ UNCHANGED files
    /\ RequestPressure
    /\ UNCHANGED <<leases, loop, trigger, setting, thread, agent, reply,
                   repair, resolution, delivery, closing>>

NoReply(j) ==
    /\ reply[j] = "await" /\ run[j] = "cancelled"
    /\ Finish(j)
    /\ UNCHANGED <<repair, delivery>>
-----------------------------------------------------------------------------
(* App.run's shutdown: replies, repairs, maintenance, then the memory       *)
(* database, whose close takes an activity lease.                          *)

Shutdown ==
    /\ closing = "no"
    /\ closing' = "replies"
    /\ UNCHANGED <<maintenance, agent, reply, repair, resolution, delivery>>

\* A cancelled reply; one that awaits its run or its repair has cancelled it,
\* and only the run is awaited.
ReplyCancelled(j) ==
    /\ closing = "replies" /\ reply[j] \notin {"none", "ended"}
    /\ run[j] \in Results
    /\ CancelRepair(j)
    /\ Finish(j)
    /\ UNCHANGED delivery

\* The cancelled repairs are awaited, for a bounded time.
DrainRepairs ==
    /\ closing = "replies" /\ \A j \in Jobs : reply[j] \in {"none", "ended"}
    /\ closing' = "repairs"
    /\ UNCHANGED <<maintenance, agent, reply, repair, resolution, delivery>>

StopStorage ==
    /\ closing = "repairs"
    /\ closing' = "maintenance"
    /\ StopMaintenance
    /\ UNCHANGED <<agent, reply, repair, resolution, delivery>>

CloseMemory ==
    /\ closing = "maintenance" /\ loop = "off"
    /\ closing' = "closed"
    /\ leases' = leases \union {<<"memory", "app">>}
    /\ UNCHANGED <<files, control, setting, thread, agent, reply, repair,
                   resolution, delivery>>
-----------------------------------------------------------------------------
Reply(j) ==
    \/ NoReply(j) \/ Inspect(j)
    \/ StartRepair(j) \/ RepairTimeout(j)
    \/ SendResource(j) \/ ResourcesDone(j)
    \/ SendChunk(j) \/ ReplyDelivered(j) \/ TextFails(j)
    \/ ReplyCancelled(j)

EventLoop ==
    \/ MaintenanceStep /\ UNCHANGED <<agent, reply, repair, resolution,
                                      delivery, closing>>
    \/ \E j \in Jobs :
          \/ MakeOutbox(j) \/ Launch(j) \/ Abandon(j)
          \/ EnterRun(j) \/ RunEnds(j)
          \/ EnterRepair(j) \/ RepairEnds(j) \/ LateRepairEnds(j)
          \/ Reply(j)
    \/ OtherReplyEnds
    \/ Shutdown \/ DrainRepairs \/ StopStorage \/ CloseMemory

Thread == ThreadStep /\ UNCHANGED <<agent, reply, repair, resolution, delivery,
                                    closing>>

Next ==
    \/ Thread
    \/ ~Making /\ EventLoop
    \/ \E j \in Jobs : Protect(j)

\* Threads and coroutines make progress, sends and agents end.  A queued run
\* finds the gate free again and again: StorageGate shows it is let in.  A wait
\* on an event that is set returns at once, so the timer, which may only win a
\* race with it, does not win for ever.
Fairness ==
    /\ WF_vars(Thread)
    /\ WF_vars(EnterGate /\ UNCHANGED <<agent, reply, repair, resolution,
                                        delivery, closing>>)
    /\ WF_vars(WorkDone /\ UNCHANGED <<agent, reply, repair, resolution,
                                       delivery, closing>>)
    /\ SF_vars(Woken /\ UNCHANGED <<agent, reply, repair, resolution,
                                    delivery, closing>>)
    /\ \A j \in Jobs :
          /\ WF_vars(Protect(j)) /\ WF_vars(Reply(j))
          /\ SF_vars(EnterRun(j)) /\ WF_vars(run[j] = "running" /\ RunEnds(j))
          /\ WF_vars(RepairEnds(j)) /\ WF_vars(LateRepairEnds(j))

Spec == Init /\ [][Next]_vars /\ Fairness
-----------------------------------------------------------------------------
(* Properties.                                                             *)

\* Maintenance never deletes what a live job still needs: the copies its reply
\* is sending, and the memory session until the reply is over.
LiveWorkSurvives ==
    \A j \in Jobs :
        /\ outgoing[j] # {} /\ reply[j] = "send" => Sending(j) \in disk
        /\ j \in session => SessionRoot(j) \in disk

\* Memory proposals are committed only for an answer that was delivered whole:
\* the run ended well, every resource and at least one message arrived, and
\* every file the agent named was found.
CommittedIsDelivered ==
    \A j \in committed :
        /\ run[j] = "ok" /\ j \in verified
        /\ unsent[j] = {} /\ outgoing[j] = {} /\ Delivered(j)

\* A delivery that counts as a success sent each file the agent named, one
\* lone file in place of a single wrong name excepted, and no part failed.
SuccessIsComplete ==
    \A j \in Jobs : outcome[j] = "succeeded" =>
        /\ unsent[j] = {} /\ sent[j] # {} /\ answer[j].refused = 0
        /\ \/ answer[j].named \subseteq sent[j]
           \/ Cardinality(answer[j].named) = 1 /\ Cardinality(sent[j]) = 1

\* The outbox is there for as long as its job may write or read it.
OutboxSurvives ==
    \A j \in Jobs : launch[j] = "launched" /\ reply[j] # "ended"
        => Outbox(j) \in disk

\* Every launched job's reply ends, and leaves nothing of it protected.
ReplyEnds ==
    \A j \in Jobs : launch[j] = "launched" ~>
        reply[j] = "ended" /\ protected \intersect JobPaths(j) = {}
=============================================================================
