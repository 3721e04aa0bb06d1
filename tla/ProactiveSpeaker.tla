-------------------------- MODULE ProactiveSpeaker --------------------------
(* proactive.py for one group chat: ProactiveSpeaker collects the messages *)
(* nobody addressed to the bot, lets an Agent decide after a while whether *)
(* to say something about them, and sends what it answers.  A reload hands *)
(* what is not said yet to the speaker that replaces this one.             *)
(*                                                                         *)
(* Timers are tasks.  A task that is told to stop may take long to do so,  *)
(* and an Agent or a send that swallows the cancellation may even return a *)
(* result: the drain of a stop gives up after a second and leaves such a   *)
(* task behind.  A send is counted when it begins: OneBot may deliver it   *)
(* whatever becomes of the call.                                           *)
EXTENDS Integers, Sequences, FiniteSets, SequencesExt

CONSTANTS
    MaxMessages,    \* bound on the messages of the group
    MaxBatch,       \* proactive.max_batch_messages
    MaxReplies,     \* proactive.max_reply_messages
    Tasks,          \* flush tasks that may exist at a time
    Works,          \* batches being worked on at a time
    None,
    Eligible        \* configurations under which the bot may speak to the group

ASSUME SpeakerAssumption ==
    /\ MaxMessages \in Nat /\ MaxBatch \in Nat \ {0}
    /\ MaxReplies \in Nat \ {0}
    /\ None \notin Tasks \cup Works

Messages == 1 .. MaxMessages

VARIABLES
    speakerCfg,   \* the configuration of the current speaker
    generation,   \* its _runtime_generation
    handoff,      \* _active_handoff
    collected,    \* messages observe took in
    batch,        \* _batches
    resumable,    \* _resumable
    inflight,     \* _inflight
    timer,        \* _timers
    task,         \* the flush tasks, those no longer in _timers included
    work,         \* the _ProactiveWork objects
    posts,        \* the sends begun: the batch answered and the reply's index
    remembered,   \* the batches given to the conversation memory
    settled       \* messages the speaker is done with

speakerVars == <<speakerCfg, generation, handoff, collected, batch, resumable,
                 inflight, timer, task, work, posts, remembered, settled>>

NoTask == [pc |-> "none", generation |-> 0, work |-> None, told |-> FALSE]
NoWork == [batch |-> <<>>, replies |-> 0, next |-> 0]

SpeakerInit ==
    /\ speakerCfg \in Eligible
    /\ generation = 0 /\ handoff = FALSE
    /\ collected = {} /\ batch = <<>>
    /\ resumable = None /\ inflight = None /\ timer = None
    /\ task = [t \in Tasks |-> NoTask]
    /\ work = [w \in Works |-> NoWork]
    /\ posts = <<>> /\ remembered = <<>> /\ settled = {}

-----------------------------------------------------------------------------
(* Timers, their tasks and their batches.                                  *)

\* Names no task and no batch in use has.  Tasks and Works bound how many there
\* are: a step that needs one more is not taken.
IdleTasks == {t \in Tasks : task[t] = NoTask}
IdleWorks ==
    {w \in Works : w \notin {resumable, inflight} \cup {task[t].work : t \in Tasks}}
FreshTask == CHOOSE t \in IdleTasks : TRUE
FreshWork == CHOOSE w \in IdleWorks : TRUE

\* _schedule_flush: a task that sleeps for batch_seconds and then flushes.
ScheduleFlush(g) ==
    /\ IdleTasks # {}
    /\ timer' = FreshTask
    /\ task' = [task EXCEPT ![FreshTask] =
                   [NoTask EXCEPT !.pc = "sleep", !.generation = g]]

\* task.cancel() of the timer, if there is one.
Told == IF timer = None THEN task ELSE [task EXCEPT ![timer].told = TRUE]

\* Mutant of EndTask: what came in while a batch was worked on has no timer.
EndTaskOnly(t, pending) ==
    /\ task' = [task EXCEPT ![t] = NoTask]
    /\ timer' = IF timer = t THEN None ELSE timer

\* The end of task t and its callback, _discard_completed_timer: what came in
\* meanwhile gets a timer, unless a handoff is to take it.
EndTask(t, pending) ==
    IF timer = t /\ pending /\ ~handoff /\ speakerCfg \in Eligible
    THEN /\ task' = [task EXCEPT ![t] = [NoTask EXCEPT !.pc = "sleep",
                                                       !.generation = generation]]
         /\ UNCHANGED timer
    ELSE /\ task' = [task EXCEPT ![t] = NoTask]
         /\ timer' = IF timer = t THEN None ELSE timer
Pending == batch # <<>> \/ resumable # None

\* Mutant of MaySideEffect: a task of an earlier generation may speak.
AnyGeneration(t) == ~handoff /\ speakerCfg \in Eligible

\* _work_may_side_effect, for task t.
MaySideEffect(t) ==
    ~handoff /\ task[t].generation = generation /\ speakerCfg \in Eligible

\* Mutant of Bounded: the batch grows as long as messages come in.
Unbounded(s) == s

\* What max_batch_messages leaves of a batch: its newest messages.
Bounded(s) == IF Len(s) > MaxBatch THEN SubSeq(s, Len(s) - MaxBatch + 1, Len(s)) ELSE s

Overflow(s) == ToSet(s) \ ToSet(Bounded(s))

-----------------------------------------------------------------------------
(* Intake.                                                                 *)

\* observe: a message _should_collect accepts.  They are numbered as they come.
Observe(m) ==
    /\ m = Cardinality(collected) + 1 /\ speakerCfg \in Eligible
    /\ collected' = collected \cup {m}
    /\ batch' = Bounded(Append(batch, m))
    /\ settled' = settled \cup Overflow(Append(batch, m))
    /\ IF ~handoff /\ timer = None THEN ScheduleFlush(generation)
       ELSE UNCHANGED <<timer, task>>
    /\ UNCHANGED <<speakerCfg, generation, handoff, resumable, inflight, work,
                   posts, remembered>>

\* reset_chat, after /reset or a new profile of the group.
Held == ToSet(batch)
        \cup UNION {ToSet(work[w].batch) : w \in {resumable, inflight} \ {None}}
ResetChat ==
    /\ settled' = settled \cup Held
    /\ batch' = <<>> /\ resumable' = None /\ inflight' = None
    /\ task' = Told
    /\ timer' = None
    /\ UNCHANGED <<speakerCfg, generation, handoff, collected, work, posts, remembered>>

-----------------------------------------------------------------------------
(* _flush.                                                                 *)

\* _discard_work, which leaves _inflight to whoever has it now.
Discard(w) ==
    IF inflight = w
    THEN inflight' = None /\ settled' = settled \cup ToSet(work[w].batch)
    ELSE UNCHANGED <<inflight, settled>>

\* A reply is claimed before it is sent: an interrupted send is lost, never
\* repeated.
Claim(t, w, replies) ==
    /\ posts' = Append(posts, <<work[w].batch, work[w].next>>)
    /\ work' = [work EXCEPT ![w].replies = replies, ![w].next = @ + 1]
    /\ task' = [task EXCEPT ![t].pc = "send", ![t].told = FALSE]
    /\ UNCHANGED timer

\* All replies are claimed: the exchange is remembered and counted.
Complete(t, w) ==
    /\ IF MaySideEffect(t)
       THEN remembered' = Append(remembered, work[w].batch) /\ Discard(w)
       ELSE UNCHANGED <<remembered, inflight, settled>>
    /\ EndTask(t, Pending)

\* The timer has run out on a batch the Agent is asked about.
FlushBatch(t) ==
    /\ task[t].pc = "sleep" /\ ~task[t].told /\ resumable = None
    /\ batch' = <<>>
    /\ IdleWorks # {}
    /\ inflight' = FreshWork
    /\ work' = [work EXCEPT ![FreshWork] = [NoWork EXCEPT !.batch = batch]]
    /\ IF MaySideEffect(t)
       THEN /\ task' = [task EXCEPT ![t].pc = "agent", ![t].work = FreshWork]
            /\ UNCHANGED timer
       ELSE EndTask(t, FALSE)
    /\ UNCHANGED <<speakerCfg, generation, handoff, collected, resumable, posts,
                   remembered, settled>>

\* Too few messages without a question, or a rate limit forbids to speak.
FlushSilent(t) ==
    /\ task[t].pc = "sleep" /\ ~task[t].told /\ resumable = None
    /\ MaySideEffect(t)
    /\ batch' = <<>> /\ inflight' = None
    /\ settled' = settled \cup ToSet(batch)
    /\ EndTask(t, FALSE)
    /\ UNCHANGED <<speakerCfg, generation, handoff, collected, resumable, work,
                   posts, remembered>>

\* Replies that were decided before a handoff: the rest is sent.
Resume(t) ==
    LET w == resumable IN
    /\ task[t].pc = "sleep" /\ ~task[t].told /\ w # None
    /\ resumable' = None
    /\ IF work[w].next < work[w].replies
       THEN /\ inflight' = w
            /\ task' = [task EXCEPT ![t].pc = "pause", ![t].work = w]
            /\ UNCHANGED <<timer, remembered, settled>>
       ELSE /\ inflight' = None
            /\ remembered' = Append(remembered, work[w].batch)
            /\ settled' = settled \cup ToSet(work[w].batch)
            /\ EndTask(t, batch # <<>>)
    /\ UNCHANGED <<speakerCfg, generation, handoff, collected, batch, work, posts>>

\* A task that was told to stop gets the cancellation where it waits.
Cancelled(t) ==
    /\ task[t].told
    /\ EndTask(t, Pending)
    /\ UNCHANGED <<speakerCfg, generation, handoff, collected, batch, resumable,
                   inflight, work, posts, remembered, settled>>

\* The Agent decides on n replies, even if it was told to stop.  The first
\* one is sent at once.
AgentAnswers(t, n) ==
    LET w == task[t].work IN
    /\ task[t].pc = "agent"
    /\ IF ~MaySideEffect(t)
       THEN EndTask(t, Pending) /\ UNCHANGED <<work, posts, inflight, settled>>
       ELSE IF n = 0
       THEN Discard(w) /\ EndTask(t, Pending) /\ UNCHANGED <<work, posts>>
       ELSE Claim(t, w, n) /\ UNCHANGED <<inflight, settled>>
    /\ UNCHANGED <<speakerCfg, generation, handoff, collected, batch, resumable,
                   remembered>>

AgentFails(t) ==
    /\ task[t].pc = "agent"
    /\ Discard(task[t].work)
    /\ EndTask(t, Pending)
    /\ UNCHANGED <<speakerCfg, generation, handoff, collected, batch, resumable,
                   work, posts, remembered>>

\* The send is acknowledged or fails, even if it was told to stop: the loop
\* goes on, after a pause if there are more replies.
SendReturns(t) ==
    LET w == task[t].work IN
    /\ task[t].pc = "send"
    /\ IF work[w].next < work[w].replies
       THEN /\ task' = [task EXCEPT ![t].pc = "pause", ![t].told = FALSE]
            /\ UNCHANGED <<timer, inflight, remembered, settled>>
       ELSE Complete(t, w)
    /\ UNCHANGED <<speakerCfg, generation, handoff, collected, batch, resumable,
                   work, posts>>

SendNext(t) ==
    /\ task[t].pc = "pause" /\ ~task[t].told
    /\ IF MaySideEffect(t) THEN Claim(t, task[t].work, work[task[t].work].replies)
       ELSE EndTask(t, Pending) /\ UNCHANGED <<posts, work>>
    /\ UNCHANGED <<speakerCfg, generation, handoff, collected, batch, resumable,
                   inflight, remembered, settled>>

FlushStep(t) ==
    \/ FlushBatch(t) \/ FlushSilent(t) \/ Resume(t) \/ Cancelled(t)
    \/ \E n \in 0 .. MaxReplies : AgentAnswers(t, n)
    \/ AgentFails(t) \/ SendReturns(t) \/ SendNext(t)

-----------------------------------------------------------------------------
(* The handoff.                                                            *)

\* begin_handoff.
BeginHandoff ==
    /\ handoff' = TRUE
    /\ generation' = generation + 1
    /\ task' = Told

\* The batch of a work without a decision.
Source(w) == IF w # None /\ work[w].replies = 0 THEN work[w].batch ELSE <<>>

\* Mutant of TakenPending: the batch an Agent was asked about is forgotten.
PendingBatches == Source(resumable) \o batch

\* _take_uncommitted_work: batches without a decision are pending again,
\* before what came in later.
TakenPending == Source(inflight) \o Source(resumable) \o batch

TakenResumable ==
    LET decided == {w \in {resumable, inflight} \ {None} : work[w].replies # 0}
    IN IF inflight \in decided THEN inflight
       ELSE IF resumable \in decided THEN resumable ELSE None

\* _accept_handoff by a speaker with this configuration and generation.
Accept(cfg, g) ==
    /\ inflight' = None
    /\ IF cfg \in Eligible
       THEN /\ batch' = Bounded(TakenPending)
            /\ settled' = settled \cup Overflow(TakenPending)
            /\ IF TakenResumable = None THEN resumable' = None /\ UNCHANGED work
               ELSE /\ IdleWorks # {}
                    /\ resumable' = FreshWork
                    /\ work' = [work EXCEPT ![FreshWork] = work[TakenResumable]]
            /\ IF TakenPending # <<>> \/ TakenResumable # None
               THEN ScheduleFlush(g)
               ELSE timer' = None /\ UNCHANGED task
       ELSE /\ batch' = <<>> /\ resumable' = None /\ timer' = None
            /\ settled' = settled \cup Held
            /\ UNCHANGED <<task, work>>

\* commit_handoff to the replacement, and rollback_handoff.
CommitHandoff(cfg) ==
    /\ Accept(cfg, generation + 1)
    /\ handoff' = FALSE
    /\ generation' = generation + 1
    /\ speakerCfg' = cfg
RollbackHandoff ==
    /\ Accept(speakerCfg, generation)
    /\ handoff' = FALSE
    /\ UNCHANGED <<generation, speakerCfg>>
=============================================================================
