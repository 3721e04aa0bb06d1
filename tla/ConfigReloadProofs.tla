------------------------- MODULE ConfigReloadProofs -------------------------
(* Safety of reloads and of the proactive speaker they replace, for any    *)
(* messages, configurations, tasks and limits.                             *)
EXTENDS ConfigReload, FiniteSetTheorems, SequenceTheorems, TLAPS

-----------------------------------------------------------------------------
(* The inductive invariant.                                                *)

Working == {"agent", "pause", "send"}

\* A task that may still speak for the batch it was given.
Current(t) == task[t].pc \in Working /\ task[t].generation = generation

\* A batch somebody may still speak about.
Active(w) ==
    /\ w \in Works
    /\ \/ w \in {resumable, inflight}
       \/ \E t \in Tasks : Current(t) /\ task[t].work = w
Said(w) == ToSet(work[w].batch)

\* The parts follow App.cfg, but for the scheduler while a reload is under way.
Phases ==
    /\ handoff <=> reload.pc \in {"scheduler", "drain", "memory", "rollback"}
    /\ speakerCfg = app.rest /\ memory = app.rest
    /\ reload.pc \in {"scheduler", "drain", "memory"} => scheduler = reload.cfg.rest
    /\ reload.pc \in {"idle", "restore"} => scheduler = app.rest

\* A task that nobody stopped before it began is the timer, and a task that
\* holds the batch in the works is the timer.  A handoff outdates every task.
Sleeps(t) == task[t].pc = "sleep" /\ ~task[t].told
TaskFine(t) ==
    /\ task[t].pc \in Working <=> task[t].work # None
    /\ task[t].generation =< generation
    /\ handoff /\ task[t].pc # "none" => task[t].generation < generation
    /\ Sleeps(t) => timer = t /\ ~handoff
    /\ ~handoff /\ task[t].work # None /\ task[t].work \in {inflight, resumable} =>
           timer = t
OwnWork(t, u) ==
    Current(t) /\ Current(u) /\ task[t].work = task[u].work => t = u

\* What waits has a timer, and a timer has something to do.
TimerFine ==
    /\ resumable = None \/ inflight = None
    /\ ~handoff /\ timer = None => inflight = None /\ resumable = None
    /\ ~handoff /\ timer # None =>
           /\ task[timer].pc # "none" /\ ~task[timer].told
           /\ task[timer].generation = generation
           /\ speakerCfg \in Eligible
           /\ task[timer].pc = "sleep" =>
                  inflight = None /\ (batch # <<>> \/ resumable # None)
           /\ task[timer].pc # "sleep" =>
                  task[timer].work = inflight /\ resumable = None
Tasking ==
    /\ \A t \in Tasks : TaskFine(t)
    /\ \A t, u \in Tasks : OwnWork(t, u)
    /\ TimerFine

\* Where a task stands tells how many replies of its batch are decided.
Stage(t) ==
    /\ task[t].pc = "agent" => work[task[t].work].replies = 0
    /\ task[t].pc = "pause" => work[task[t].work].next < work[task[t].work].replies
    /\ task[t].pc = "send" => work[task[t].work].replies # 0
Staged ==
    /\ resumable # None => work[resumable].replies # 0
    /\ \A t \in Tasks : Current(t) => Stage(t)

\* A message is in the batch or in one active work at most.
WorkFine(w) ==
    /\ work[w].next =< work[w].replies /\ work[w].batch # <<>>
    /\ Said(w) \subseteq collected /\ Said(w) \cap ToSet(batch) = {}
Apart(v, w) == Active(v) /\ Active(w) /\ v # w => Said(v) \cap Said(w) = {}
Mine ==
    /\ \E n \in Nat : collected = 1 .. n
    /\ ToSet(batch) \subseteq collected
    /\ \A w \in Works : Active(w) => WorkFine(w)
    /\ \A v, w \in Works : Apart(v, w)

\* What was answered is in no batch but the one whose replies are going out,
\* and of that one the replies before the next.
Post(i) == ToSet(posts[i][1])
PostFine(i) == Post(i) \subseteq collected /\ Post(i) \cap ToSet(batch) = {}
PostOf(i, w) ==
    Active(w) /\ Post(i) \cap Said(w) # {} =>
        posts[i][1] = work[w].batch /\ posts[i][2] < work[w].next
PostsDiffer(i, j) ==
    /\ posts[i] # posts[j]
    /\ Post(i) \cap Post(j) # {} => posts[i][1] = posts[j][1]
Posted ==
    /\ \A i \in DOMAIN posts : PostFine(i)
    /\ \A i \in DOMAIN posts, w \in Works : PostOf(i, w)
    /\ \A i, j \in DOMAIN posts : i < j => PostsDiffer(i, j)

\* What is remembered is over.
Memory(i) == ToSet(remembered[i])
MemoryFine(i) == Memory(i) \subseteq collected /\ Memory(i) \cap ToSet(batch) = {}
MemoryOf(i, w) == Active(w) => Memory(i) \cap Said(w) = {}
Remembered ==
    /\ \A i \in DOMAIN remembered : MemoryFine(i)
    /\ \A i \in DOMAIN remembered, w \in Works : MemoryOf(i, w)
    /\ \A i, j \in DOMAIN remembered : i < j => Memory(i) \cap Memory(j) = {}
Books == Mine /\ Posted /\ Remembered

IInv == TypeOK /\ Phases /\ Tasking /\ Staged /\ Books /\ Accounted

-----------------------------------------------------------------------------
(* Sequences of messages.                                                  *)

LEMMA OfMessages ==
    ASSUME NEW A, NEW s \in Seq(A)
    PROVE  /\ ToSet(s) \subseteq A
           /\ s # <<>> => ToSet(s) # {}
           /\ s = <<>> => ToSet(s) = {}
           /\ Len(s) \in Nat
<1>1. DOMAIN s = 1 .. Len(s) /\ Len(s) \in Nat /\ \A i \in 1 .. Len(s) : s[i] \in A
  OBVIOUS
<1>2. ASSUME s # <<>> PROVE s[1] \in ToSet(s)
  <2>1. Len(s) # 0
    BY <1>2, EmptySeq
  <2> QED
    BY <1>1, <2>1 DEF ToSet
<1>3. ASSUME s = <<>> PROVE ToSet(s) = {}
  <2>1. DOMAIN s = {}
    BY <1>1, <1>3
  <2> QED
    BY <2>1 DEF ToSet
<1> QED
  BY <1>1, <1>2, <1>3 DEF ToSet

\* A sequence with one element more at its end.
LEMMA AppendAdds ==
    ASSUME NEW A, NEW s \in Seq(A), NEW a \in A
    PROVE  /\ Append(s, a) \in Seq(A)
           /\ Len(Append(s, a)) = Len(s) + 1
           /\ DOMAIN Append(s, a) = DOMAIN s \cup {Len(s) + 1}
           /\ Len(s) + 1 \notin DOMAIN s
           /\ \A i \in DOMAIN s : Append(s, a)[i] = s[i] /\ i < Len(s) + 1
           /\ Append(s, a)[Len(s) + 1] = a
           /\ ToSet(Append(s, a)) = ToSet(s) \cup {a}
<1>1. /\ Append(s, a) \in Seq(A)
      /\ Len(Append(s, a)) = Len(s) + 1
      /\ DOMAIN s = 1..Len(s) /\ Len(s) \in Nat
      /\ DOMAIN Append(s, a) = 1..(Len(s) + 1)
      /\ \A i \in 1..Len(s) : Append(s, a)[i] = s[i]
      /\ Append(s, a)[Len(s) + 1] = a
  OBVIOUS
<1>2. ToSet(Append(s, a)) = ToSet(s) \cup {a}
  BY <1>1 DEF ToSet
<1> QED
  BY <1>1, <1>2

LEMMA ConcatUnites ==
    ASSUME NEW A, NEW s \in Seq(A), NEW r \in Seq(A)
    PROVE  s \o r \in Seq(A) /\ ToSet(s \o r) = ToSet(s) \cup ToSet(r)
<1>1. /\ s \o r \in Seq(A)
      /\ Len(s) \in Nat /\ Len(r) \in Nat
      /\ DOMAIN s = 1 .. Len(s) /\ DOMAIN r = 1 .. Len(r)
      /\ DOMAIN (s \o r) = 1 .. Len(s) + Len(r)
      /\ \A i \in 1 .. Len(s) + Len(r) :
             (s \o r)[i] = IF i =< Len(s) THEN s[i] ELSE r[i - Len(s)]
  OBVIOUS
<1>2. ASSUME NEW x \in ToSet(s \o r) PROVE x \in ToSet(s) \cup ToSet(r)
  <2>1. PICK i \in 1 .. Len(s) + Len(r) : x = (s \o r)[i]
    BY <1>1 DEF ToSet
  <2>2. CASE i =< Len(s)
    BY <1>1, <2>1, <2>2 DEF ToSet
  <2>3. CASE ~(i =< Len(s))
    <3>1. i - Len(s) \in 1 .. Len(r) /\ x = r[i - Len(s)]
      BY <1>1, <2>1, <2>3
    <3> QED
      BY <1>1, <3>1 DEF ToSet
  <2> QED
    BY <2>2, <2>3
<1>3. ASSUME NEW x \in ToSet(s) PROVE x \in ToSet(s \o r)
  <2>1. PICK i \in 1 .. Len(s) : x = s[i]
    BY <1>1 DEF ToSet
  <2>2. i \in 1 .. Len(s) + Len(r) /\ (s \o r)[i] = x
    BY <1>1, <2>1
  <2> QED
    BY <1>1, <2>2 DEF ToSet
<1>4. ASSUME NEW x \in ToSet(r) PROVE x \in ToSet(s \o r)
  <2>1. PICK i \in 1 .. Len(r) : x = r[i]
    BY <1>1 DEF ToSet
  <2>2. i + Len(s) \in 1 .. Len(s) + Len(r) /\ (s \o r)[i + Len(s)] = x
    BY <1>1, <2>1
  <2> QED
    BY <1>1, <2>2 DEF ToSet
<1> QED
  BY <1>1, <1>2, <1>3, <1>4

\* max_batch_messages keeps some messages, and the others overflow.
LEMMA BoundedKeeps ==
    ASSUME NEW A, NEW s \in Seq(A)
    PROVE  /\ Bounded(s) \in Seq(A) /\ Len(Bounded(s)) =< MaxBatch
           /\ ToSet(s) = ToSet(Bounded(s)) \cup Overflow(s)
           /\ ToSet(Bounded(s)) \cap Overflow(s) = {}
           /\ s # <<>> => Bounded(s) # <<>>
           /\ s = <<>> => Bounded(s) = <<>>
<1>0. MaxBatch \in Nat \ {0}
  BY SpeakerAssumption
<1>1. Len(s) \in Nat /\ DOMAIN s = 1 .. Len(s) /\ \A i \in 1 .. Len(s) : s[i] \in A
  OBVIOUS
<1>2. CASE Len(s) > MaxBatch
  <2> DEFINE m == Len(s) - MaxBatch + 1
  <2> DEFINE kept == SubSeq(s, m, Len(s))
  <2>1. m \in Int /\ Len(s) \in Int /\ 1 =< m /\ m =< Len(s) /\ Len(s) - m + 1 = MaxBatch
    BY <1>0, <1>1, <1>2
  <2>2. \A i \in m .. Len(s) : s[i] \in A
    BY <1>1, <2>1
  <2>3. /\ kept \in Seq(A) /\ Len(kept) = MaxBatch
        /\ \A i \in 1 .. MaxBatch : kept[i] = s[m + i - 1]
    <3> HIDE DEF m
    <3> QED
      BY <2>1, <2>2, SubSeqProperties
  <2>4. Bounded(s) = kept
    BY <1>2 DEF Bounded
  <2> HIDE DEF kept, m
  <2>5. DOMAIN kept = 1 .. MaxBatch
    BY <2>3
  <2>6. \A i \in 1 .. MaxBatch : m + i - 1 \in 1 .. Len(s)
    BY <1>0, <1>1, <2>1
  <2>7. ToSet(kept) \subseteq ToSet(s)
    BY <1>1, <2>3, <2>5, <2>6 DEF ToSet
  <2>8. kept # <<>>
    BY <1>0, <2>5
  <2>9. s # <<>>
    BY <1>0, <1>1, <1>2
  <2> QED
    BY <1>0, <2>3, <2>4, <2>7, <2>8, <2>9 DEF Overflow
<1>3. CASE ~(Len(s) > MaxBatch)
  <2>1. Bounded(s) = s /\ Len(s) =< MaxBatch
    BY <1>0, <1>1, <1>3 DEF Bounded
  <2> QED
    BY <2>1 DEF Overflow
<1> QED
  BY <1>2, <1>3
-----------------------------------------------------------------------------
(* Tasks and timers.                                                       *)

LEMMA FreshIsIdle ==
    ASSUME TypeOK
    PROVE  /\ IdleTasks # {} => FreshTask \in Tasks /\ task[FreshTask] = NoTask
           /\ IdleWorks # {} =>
                  /\ FreshWork \in Works /\ FreshWork # None
                  /\ FreshWork # resumable /\ FreshWork # inflight
                  /\ \A u \in Tasks : task[u].work # FreshWork
<1>1. IdleTasks # {} => FreshTask \in IdleTasks
  BY DEF FreshTask
<1>2. IdleWorks # {} => FreshWork \in IdleWorks
  BY DEF FreshWork
<1>3. None \notin Works
  BY SpeakerAssumption
<1> QED
  BY <1>1, <1>2, <1>3 DEF IdleTasks, IdleWorks

\* What the types say of one task and of one work.
LEMMA TypesOf ==
    ASSUME TypeOK
    PROVE  /\ None \notin Tasks /\ None \notin Works
           /\ task \in [Tasks -> TaskType] /\ work \in [Works -> WorkType]
           /\ generation \in Nat /\ handoff \in BOOLEAN
           /\ timer \in Tasks \cup {None}
           /\ resumable \in Works \cup {None} /\ inflight \in Works \cup {None}
           /\ \A u \in Tasks :
                  /\ task[u] \in TaskType
                  /\ task[u].generation \in Nat /\ task[u].told \in BOOLEAN
                  /\ task[u].work \in Works \cup {None}
           /\ \A w \in Works :
                  /\ work[w] \in WorkType
                  /\ work[w].batch \in Seq(Messages) /\ Said(w) \subseteq Messages
                  /\ work[w].replies \in 0 .. MaxReplies /\ work[w].next \in 0 .. MaxReplies
           /\ NoTask \in TaskType /\ NoWork \in WorkType
           /\ batch \in Seq(Messages) /\ ToSet(batch) \subseteq Messages
<1>1. /\ None \notin Tasks /\ None \notin Works /\ MaxReplies \in Nat
  BY SpeakerAssumption
<1>2. /\ task \in [Tasks -> TaskType] /\ work \in [Works -> WorkType]
      /\ generation \in Nat /\ handoff \in BOOLEAN
      /\ timer \in Tasks \cup {None}
      /\ resumable \in Works \cup {None} /\ inflight \in Works \cup {None}
      /\ batch \in Seq(Messages)
  BY DEF TypeOK
<1>3. ASSUME NEW u \in Tasks
      PROVE  /\ task[u] \in TaskType
             /\ task[u].generation \in Nat /\ task[u].told \in BOOLEAN
             /\ task[u].work \in Works \cup {None}
  BY <1>2 DEF TaskType
<1>4. ASSUME NEW w \in Works
      PROVE  /\ work[w] \in WorkType
             /\ work[w].batch \in Seq(Messages)
             /\ work[w].replies \in 0 .. MaxReplies /\ work[w].next \in 0 .. MaxReplies
  BY <1>2 DEF WorkType
<1>5. \A w \in Works : Said(w) \subseteq Messages
  BY <1>4, OfMessages DEF Said
<1>6. NoTask \in TaskType
  BY DEF NoTask, TaskType
<1>7. NoWork \in WorkType
  BY <1>1 DEF NoWork, WorkType
<1>8. ToSet(batch) \subseteq Messages
  BY <1>2, OfMessages
<1> QED
  BY <1>1, <1>2, <1>3, <1>4, <1>5, <1>6, <1>7, <1>8

\* A task about to flush is the timer of the current speaker, which has
\* something to flush and may speak: _flush never finds it may not.
LEMMA SleeperMay ==
    ASSUME TypeOK, Tasking, NEW t \in Tasks, Sleeps(t)
    PROVE  /\ timer = t /\ ~handoff /\ task[t].generation = generation
           /\ speakerCfg \in Eligible /\ MaySideEffect(t)
           /\ inflight = None /\ (batch # <<>> \/ resumable # None)
           /\ task[t].work = None /\ t # None
           /\ \A u \in Tasks : task[u].work # None => task[u].work # resumable
<1>1. TaskFine(t) /\ TimerFine
  BY DEF Tasking
<1>2. t # None
  BY TypesOf
<1>3. timer = t /\ ~handoff /\ task[t].work = None /\ task[t].pc = "sleep"
  BY <1>1, TypesOf DEF TaskFine, Sleeps, Working
<1>4. /\ task[t].generation = generation /\ speakerCfg \in Eligible
      /\ inflight = None /\ (batch # <<>> \/ resumable # None)
  BY <1>1, <1>2, <1>3 DEF TimerFine
<1>5. ASSUME NEW u \in Tasks, task[u].work # None PROVE task[u].work # resumable
  <2>1. TaskFine(u)
    BY DEF Tasking
  <2> QED
    BY <1>3, <1>5, <2>1 DEF TaskFine
<1> QED
  BY <1>2, <1>3, <1>4, <1>5 DEF MaySideEffect

\* A task that may have a side effect, and works, is current.
LEMMA WorkerIsCurrent ==
    ASSUME TypeOK, Tasking, NEW t \in Tasks, task[t].pc \in Working
    PROVE  /\ MaySideEffect(t) => Current(t) /\ ~handoff /\ speakerCfg \in Eligible
           /\ task[t].work \in Works /\ task[t].work # None
           /\ Current(t) => Active(task[t].work)
           /\ timer = t /\ ~handoff => MaySideEffect(t) /\ task[t].work = inflight
                                       /\ resumable = None
           /\ task[t].work = inflight /\ ~handoff => timer = t
           /\ Current(t) => ~handoff /\ task[t].work # resumable
<1>1. TaskFine(t) /\ TimerFine /\ t # None /\ None \notin Works
  BY TypesOf DEF Tasking
<1>2. task[t].work # None /\ task[t].work \in Works
  BY <1>1, TypesOf DEF TaskFine
<1>3. Current(t) => ~handoff
  BY <1>1, TypesOf DEF TaskFine, Current, Working
<1>4. /\ task[t].work = inflight /\ ~handoff => timer = t
      /\ task[t].work = resumable /\ ~handoff => timer = t
  BY <1>1, <1>2 DEF TaskFine
<1>5. timer = t /\ ~handoff => /\ MaySideEffect(t) /\ task[t].work = inflight
                               /\ resumable = None
  BY <1>1 DEF TimerFine, MaySideEffect, Working
<1>6. MaySideEffect(t) => Current(t) /\ ~handoff /\ speakerCfg \in Eligible
  BY DEF MaySideEffect, Current
<1>7. Current(t) => Active(task[t].work)
  BY <1>2 DEF Active
<1> QED
  BY <1>2, <1>3, <1>4, <1>5, <1>6, <1>7

\* The end of a task.
LEMMA EndTasking ==
    ASSUME TypeOK, Tasking, NEW t \in Tasks, NEW pending \in BOOLEAN,
           EndTask(t, pending), handoff' = handoff, generation' = generation, speakerCfg' = speakerCfg,
           inflight' \in {inflight, None}, resumable' \in {resumable, None},
           timer = t /\ ~handoff =>
               /\ inflight' = None
               /\ pending => batch' # <<>> \/ resumable' # None
               /\ ~pending => resumable' = None,
           timer # t /\ ~handoff =>
               inflight' = inflight /\ resumable' = resumable
               /\ (batch # <<>> => batch' # <<>>)
    PROVE  /\ Tasking'
           /\ task' \in [Tasks -> TaskType] /\ timer' \in Tasks \cup {None}
           /\ \A u \in Tasks : Current(u)' => u # t /\ Current(u) /\ task'[u] = task[u]
<1>0. /\ t # None /\ TaskFine(t) /\ TimerFine
      /\ \A u \in Tasks : TaskFine(u)
      /\ \A u, v \in Tasks : OwnWork(u, v)
  BY TypesOf DEF Tasking
<1> DEFINE again == timer = t /\ pending /\ ~handoff /\ speakerCfg \in Eligible
<1> DEFINE new == IF again THEN [NoTask EXCEPT !.pc = "sleep", !.generation = generation]
                  ELSE NoTask
<1>1. /\ task' = [task EXCEPT ![t] = new]
      /\ timer' = IF timer = t /\ ~again THEN None ELSE timer
  BY DEF EndTask
<1>2. /\ new.pc = (IF again THEN "sleep" ELSE "none") /\ new.work = None
      /\ new.generation = (IF again THEN generation ELSE 0)
      /\ new.told = FALSE /\ new \in TaskType
  <2>1. generation \in Nat
    BY TypesOf
  <2> QED
    BY <2>1 DEF NoTask, TaskType
<1> HIDE DEF new
<1>3. /\ task'[t] = new
      /\ \A u \in Tasks : u # t => task'[u] = task[u]
      /\ task' \in [Tasks -> TaskType] /\ timer' \in Tasks \cup {None}
  BY <1>1, <1>2, TypesOf
<1>4. ASSUME NEW u \in Tasks, Current(u)'
      PROVE  u # t /\ Current(u) /\ task'[u] = task[u]
  BY <1>2, <1>3, <1>4 DEF Current, Working
<1>5. ASSUME NEW u \in Tasks PROVE TaskFine(u)'
  <2>1. CASE u = t
    BY <1>0, <1>1, <1>2, <1>3, <2>1, TypesOf DEF TaskFine, Sleeps, Working
  <2>2. CASE u # t
    <3>1. TaskFine(u) /\ task'[u] = task[u]
      BY <1>0, <1>3, <2>2
    <3> QED
      BY <1>1, <2>2, <3>1, TypesOf DEF TaskFine, Sleeps
  <2> QED
    BY <2>1, <2>2
<1>6. ASSUME NEW u \in Tasks, NEW v \in Tasks PROVE OwnWork(u, v)'
  BY <1>0, <1>4 DEF OwnWork
<1>7. TimerFine'
  <2>1. CASE handoff
    BY <1>0, <2>1 DEF TimerFine
  <2>2. CASE ~handoff /\ timer = t
    <3>1. speakerCfg \in Eligible
      BY <1>0, <2>2 DEF TimerFine
    <3>2. CASE again
      BY <1>0, <1>1, <1>2, <1>3, <2>2, <3>1, <3>2 DEF TimerFine
    <3>3. CASE ~again
      BY <1>1, <2>2, <3>1, <3>3 DEF TimerFine
    <3> QED
      BY <3>2, <3>3
  <2>3. CASE ~handoff /\ timer # t
    <3>1. timer' = timer /\ (timer # None => task'[timer] = task[timer])
      BY <1>1, <1>3, <2>3, TypesOf
    <3> QED
      BY <1>0, <2>3, <3>1 DEF TimerFine
  <2> QED
    BY <2>1, <2>2, <2>3
<1> QED
  BY <1>3, <1>4, <1>5, <1>6, <1>7 DEF Tasking

\* A task at work goes on with it.
GoesOn(t, pc) == task' = [task EXCEPT ![t].pc = pc, ![t].told = FALSE]
LEMMA MoveTasking ==
    ASSUME TypeOK, Tasking, NEW t \in Tasks, task[t].pc \in Working,
           NEW pc \in Working,
           GoesOn(t, pc),
           timer' = timer, handoff' = handoff, generation' = generation,
           speakerCfg' = speakerCfg, inflight' = inflight,
           resumable' = resumable, batch' = batch
    PROVE  /\ Tasking' /\ task' \in [Tasks -> TaskType]
           /\ \A u \in Tasks :
                  /\ Current(u)' <=> Current(u)
                  /\ task'[u].work = task[u].work
                  /\ u # t => task'[u] = task[u]
           /\ task'[t].pc = pc
<1>0. /\ t # None /\ TimerFine /\ None \notin Tasks
      /\ \A u \in Tasks : TaskFine(u)
      /\ \A u, v \in Tasks : OwnWork(u, v)
  BY TypesOf DEF Tasking
<1> DEFINE new == [task[t] EXCEPT !.pc = pc, !.told = FALSE]
<1>1. task' = [task EXCEPT ![t] = new]
  BY DEF GoesOn
<1>2. /\ new.pc = pc /\ new.told = FALSE /\ new.work = task[t].work
      /\ new.generation = task[t].generation /\ new \in TaskType
  BY TypesOf DEF TaskType, Working
<1> HIDE DEF new
<1>3. /\ task'[t] = new
      /\ \A u \in Tasks : u # t => task'[u] = task[u]
      /\ task' \in [Tasks -> TaskType]
  BY <1>1, <1>2, TypesOf
<1>4. ASSUME NEW u \in Tasks
      PROVE  /\ Current(u)' <=> Current(u)
             /\ task'[u].work = task[u].work
             /\ TaskFine(u)'
  <2>1. CASE u = t
    BY <1>0, <1>2, <1>3, <2>1, TypesOf DEF TaskFine, Sleeps, Working, Current
  <2>2. CASE u # t
    <3>1. TaskFine(u) /\ task'[u] = task[u]
      BY <1>0, <1>3, <2>2
    <3> QED
      BY <3>1 DEF TaskFine, Sleeps, Current
  <2> QED
    BY <2>1, <2>2
<1>5. ASSUME NEW u \in Tasks, NEW v \in Tasks PROVE OwnWork(u, v)'
  <2>1. OwnWork(u, v) /\ (Current(u)' <=> Current(u)) /\ (Current(v)' <=> Current(v))
    BY <1>0, <1>4
  <2>2. task'[u].work = task[u].work /\ task'[v].work = task[v].work
    BY <1>4
  <2> QED
    BY <2>1, <2>2 DEF OwnWork
<1>6. TimerFine'
  <2>1. CASE timer = t
    BY <1>0, <1>2, <1>3, <2>1 DEF TimerFine, Working
  <2>2. CASE timer # t
    <3>1. timer # None => task'[timer] = task[timer]
      BY <1>3, <2>2, TypesOf
    <3>2. /\ timer' = timer /\ handoff' = handoff /\ generation' = generation
          /\ speakerCfg' = speakerCfg /\ inflight' = inflight
          /\ resumable' = resumable /\ batch' = batch
      OBVIOUS
    <3>3. CASE timer = None
      BY <1>0, <3>2, <3>3 DEF TimerFine
    <3>4. CASE timer # None
      <4>1. task'[timer'] = task[timer]
        BY <3>1, <3>2, <3>4
      <4>2. CASE handoff
        BY <1>0, <3>2, <4>2 DEF TimerFine
      <4>3. CASE ~handoff
        <5>1. /\ resumable = None \/ inflight = None
              /\ task[timer].pc # "none" /\ ~task[timer].told
              /\ task[timer].generation = generation
              /\ speakerCfg \in Eligible
              /\ task[timer].pc = "sleep" =>
                     inflight = None /\ (batch # <<>> \/ resumable # None)
              /\ task[timer].pc # "sleep" =>
                     task[timer].work = inflight /\ resumable = None
          BY <1>0, <3>4, <4>3 DEF TimerFine
        <5>2. timer' # None
          BY <3>4
        <5> QED
          BY <3>2, <4>1, <5>1, <5>2 DEF TimerFine
      <4> QED
        BY <4>2, <4>3
    <3> QED
      BY <3>3, <3>4
  <2> QED
    BY <2>1, <2>2
<1> QED
  BY <1>2, <1>3, <1>4, <1>5, <1>6 DEF Tasking

\* A sleeping task begins to work for w.
Begins(t, pc, w) == task' = [task EXCEPT ![t].pc = pc, ![t].work = w]
LEMMA StartTasking ==
    ASSUME TypeOK, Tasking, NEW t \in Tasks, Sleeps(t),
           NEW pc \in Working, NEW w \in Works,
           \A u \in Tasks : task[u].work # w,
           Begins(t, pc, w),
           timer' = timer, handoff' = handoff, generation' = generation,
           speakerCfg' = speakerCfg, inflight' = w, resumable' = None
    PROVE  /\ Tasking' /\ task' \in [Tasks -> TaskType]
           /\ \A u \in Tasks : Current(u)' => u = t \/ (Current(u) /\ task'[u] = task[u])
           /\ Current(t)' /\ task'[t].pc = pc /\ task'[t].work = w
<1>0. /\ t # None /\ TimerFine /\ w # None
      /\ \A u \in Tasks : TaskFine(u)
      /\ \A u, v \in Tasks : OwnWork(u, v)
      /\ timer = t /\ ~handoff /\ task[t].generation = generation
      /\ speakerCfg \in Eligible /\ task[t].told = FALSE
  BY TypesOf, SleeperMay DEF Tasking, Sleeps
<1> DEFINE new == [task[t] EXCEPT !.pc = pc, !.work = w]
<1>1. task' = [task EXCEPT ![t] = new] /\ task \in [Tasks -> TaskType]
  BY TypesOf DEF Begins
<1>2. /\ new.pc = pc /\ new.told = FALSE /\ new.work = w
      /\ new.generation = task[t].generation /\ new \in TaskType
  BY <1>0, TypesOf DEF TaskType, Working
<1> HIDE DEF new
<1>3. /\ task'[t] = new
      /\ \A u \in Tasks : u # t => task'[u] = task[u]
      /\ task' \in [Tasks -> TaskType]
  BY <1>1, <1>2
<1>4. ASSUME NEW u \in Tasks
      PROVE  /\ Current(u)' => u = t \/ (Current(u) /\ task'[u] = task[u])
             /\ TaskFine(u)'
  <2>1. CASE u = t
    BY <1>0, <1>2, <1>3, <2>1, TypesOf DEF TaskFine, Sleeps, Working, Current
  <2>2. CASE u # t
    <3>1. TaskFine(u) /\ task'[u] = task[u] /\ task[u].work # w
      BY <1>0, <1>3, <2>2
    <3> QED
      BY <1>0, <2>2, <3>1 DEF TaskFine, Sleeps, Current
  <2> QED
    BY <2>1, <2>2
<1>5. Current(t)'
  BY <1>0, <1>2, <1>3 DEF Current
<1>6. ASSUME NEW u \in Tasks, NEW v \in Tasks PROVE OwnWork(u, v)'
  <2>1. CASE u = t /\ v = t
    BY <2>1 DEF OwnWork
  <2>2. CASE u = t /\ v # t
    BY <1>0, <1>2, <1>3, <2>2 DEF OwnWork
  <2>3. CASE u # t /\ v = t
    BY <1>0, <1>2, <1>3, <2>3 DEF OwnWork
  <2>4. CASE u # t /\ v # t
    BY <1>0, <1>3, <2>4 DEF OwnWork, Current
  <2> QED
    BY <2>1, <2>2, <2>3, <2>4
<1>7. TimerFine'
  BY <1>0, <1>2, <1>3 DEF TimerFine, Working
<1> QED
  BY <1>2, <1>3, <1>4, <1>5, <1>6, <1>7 DEF Tasking

\* What a cancellation of the timer leaves of the tasks.
LEMMA ToldTasks ==
    ASSUME TypeOK, task' = Told
    PROVE  /\ task' \in [Tasks -> TaskType]
           /\ \A u \in Tasks :
                  /\ task'[u].pc = task[u].pc /\ task'[u].work = task[u].work
                  /\ task'[u].generation = task[u].generation
                  /\ task'[u].told = (task[u].told \/ u = timer)
<1>0. timer \in Tasks \cup {None} /\ None \notin Tasks /\ task \in [Tasks -> TaskType]
  BY TypesOf
<1>1. CASE timer = None
  <2>1. task' = task
    BY <1>1 DEF Told
  <2> QED
    BY <1>0, <1>1, <2>1, TypesOf
<1>2. CASE timer # None
  <2> DEFINE new == [task[timer] EXCEPT !.told = TRUE]
  <2>1. task' = [task EXCEPT ![timer] = new] /\ timer \in Tasks
    BY <1>0, <1>2 DEF Told
  <2>2. /\ new.pc = task[timer].pc /\ new.work = task[timer].work
        /\ new.generation = task[timer].generation /\ new.told = TRUE
        /\ new \in TaskType
    BY <1>0, <2>1 DEF TaskType
  <2> HIDE DEF new
  <2> QED
    BY <1>0, <2>1, <2>2, TypesOf
<1> QED
  BY <1>1, <1>2

\* The timer is told to stop, and a handoff has begun or begins, or the
\* chat is reset, or the drain is over.
LEMMA StopTasking ==
    ASSUME TypeOK, Tasking, task' \in [Tasks -> TaskType],
           task' = Told \/ (task' = task /\ handoff),
           \/ /\ handoff' = TRUE /\ generation' = IF handoff THEN generation ELSE generation + 1
              /\ inflight' = inflight /\ resumable' = resumable
           \/ /\ handoff' = handoff /\ generation' = generation
              /\ inflight' = None /\ resumable' = None /\ timer' = None
    PROVE  /\ Tasking'
           /\ \A u \in Tasks : Current(u)' =>
                  /\ Current(u) /\ task'[u].work = task[u].work
                  /\ task'[u].pc = task[u].pc
<1>0. /\ TimerFine
      /\ \A u \in Tasks : TaskFine(u)
      /\ \A u, v \in Tasks : OwnWork(u, v)
  BY DEF Tasking
<1>1. ASSUME NEW u \in Tasks
      PROVE  /\ task'[u].pc = task[u].pc /\ task'[u].work = task[u].work
             /\ task'[u].generation = task[u].generation
             /\ task'[u].told = (task[u].told \/ u = timer)
                \/ (task'[u].told = task[u].told /\ handoff)
  BY ToldTasks
<1>2. generation \in Nat
  BY TypesOf
<1>3. ASSUME NEW u \in Tasks
      PROVE  /\ TaskFine(u)'
             /\ Current(u)' => /\ Current(u) /\ task'[u].work = task[u].work
                               /\ task'[u].pc = task[u].pc
  <2>1. TaskFine(u) /\ task[u].generation \in Nat
    BY <1>0, TypesOf
  <2>2. \/ generation' = generation /\ (handoff' => handoff)
        \/ generation' = generation + 1 /\ ~handoff /\ handoff'
    BY TypesOf
  <2>3. ~Sleeps(u)'
    BY <1>1, <2>1 DEF Sleeps, TaskFine
  <2>4. handoff' /\ task[u].pc # "none" => task[u].generation < generation'
    BY <1>2, <2>1, <2>2 DEF TaskFine
  <2>5. ~handoff' => inflight' = None /\ resumable' = None
    OBVIOUS
  <2>6. task[u].generation =< generation'
    BY <1>2, <2>1, <2>2 DEF TaskFine
  <2>7. TaskFine(u)'
    BY <1>1, <2>1, <2>3, <2>4, <2>5, <2>6 DEF TaskFine
  <2>8. ASSUME Current(u)' PROVE Current(u)
    BY <1>1, <1>2, <2>1, <2>2, <2>8 DEF Current, TaskFine
  <2> QED
    BY <1>1, <2>7, <2>8
<1>4. ASSUME NEW u \in Tasks, NEW v \in Tasks PROVE OwnWork(u, v)'
  BY <1>0, <1>3 DEF OwnWork
<1>5. TimerFine'
  <2>1. CASE handoff'
    BY <1>0, <2>1 DEF TimerFine
  <2>2. CASE ~handoff'
    BY <2>2 DEF TimerFine
  <2> QED
    BY <2>1, <2>2
<1> QED
  BY <1>3, <1>4, <1>5 DEF Tasking

\* A new timer, or none if nothing waits, once the handoff is over; and the
\* first message of a batch.
LEMMA NewTasking ==
    ASSUME TypeOK, Tasking,
           generation' \in Nat, generation' >= generation,
           handoff \/ (generation' = generation /\ timer = None),
           handoff' = FALSE, inflight' = None,
           resumable' = None \/ \A u \in Tasks : task[u].work # resumable',
           \/ /\ ScheduleFlush(generation') /\ speakerCfg' \in Eligible
              /\ batch' # <<>> \/ resumable' # None
           \/ /\ timer' = None /\ task' = task /\ resumable' = None
    PROVE  /\ Tasking' /\ task' \in [Tasks -> TaskType] /\ timer' \in Tasks \cup {None}
           /\ \A u \in Tasks : Current(u)' => Current(u) /\ task'[u] = task[u]
<1>0. /\ TimerFine /\ None \notin Tasks /\ task \in [Tasks -> TaskType]
      /\ \A u \in Tasks : TaskFine(u)
      /\ \A u, v \in Tasks : OwnWork(u, v)
  BY TypesOf DEF Tasking
<1>1. CASE timer' = None /\ task' = task /\ resumable' = None
  <2>1. ASSUME NEW u \in Tasks
        PROVE  TaskFine(u)' /\ (Current(u)' => Current(u) /\ task'[u] = task[u])
    <3>1. TaskFine(u) /\ task[u].generation \in Nat /\ generation \in Nat
      BY <1>0, TypesOf
    <3>2. ~Sleeps(u)'
      BY <1>0, <1>1, <3>1 DEF Sleeps, TaskFine
    <3>3. Current(u)' => Current(u)
      BY <1>1, <3>1 DEF Current, TaskFine, Working
    <3>4. TaskFine(u)'
      BY <1>1, <3>1, <3>2 DEF TaskFine
    <3> QED
      BY <1>1, <3>3, <3>4
  <2>2. ASSUME NEW u \in Tasks, NEW v \in Tasks PROVE OwnWork(u, v)'
    BY <1>0, <2>1 DEF OwnWork
  <2>3. TimerFine'
    BY <1>1 DEF TimerFine
  <2> QED
    BY <1>0, <1>1, <2>1, <2>2, <2>3 DEF Tasking
<1>2. CASE /\ ScheduleFlush(generation') /\ speakerCfg' \in Eligible
           /\ batch' # <<>> \/ resumable' # None
  <2> DEFINE new == [NoTask EXCEPT !.pc = "sleep", !.generation = generation']
  <2>1. /\ FreshTask \in Tasks /\ task[FreshTask] = NoTask
        /\ timer' = FreshTask /\ task' = [task EXCEPT ![FreshTask] = new]
    BY <1>2, FreshIsIdle DEF ScheduleFlush
  <2>2. /\ new.pc = "sleep" /\ new.generation = generation' /\ new.told = FALSE
        /\ new.work = None /\ new \in TaskType
    BY DEF NoTask, TaskType
  <2> HIDE DEF new
  <2>3. PICK f \in Tasks : f = FreshTask
    BY <2>1
  <2>4. /\ f # None /\ task[f] = NoTask /\ timer' = f /\ task'[f] = new
        /\ task' \in [Tasks -> TaskType]
        /\ \A u \in Tasks : u # f => task'[u] = task[u]
    BY <1>0, <2>1, <2>2, <2>3
  <2>5. ASSUME NEW u \in Tasks
        PROVE  TaskFine(u)' /\ (Current(u)' => Current(u) /\ task'[u] = task[u])
    <3>1. TaskFine(u) /\ task[u].generation \in Nat /\ generation \in Nat
      BY <1>0, TypesOf
    <3>2. CASE u = f
      BY <2>2, <2>4, <3>2 DEF TaskFine, Sleeps, Current, Working
    <3>3. CASE u # f
      <4>1. ~Sleeps(u)'
        BY <1>0, <2>4, <3>1, <3>3 DEF Sleeps, TaskFine
      <4>2. Current(u)' => Current(u)
        BY <2>4, <3>1, <3>3 DEF Current, TaskFine, Working
      <4>3. TaskFine(u)'
        BY <2>4, <3>1, <3>3, <4>1 DEF TaskFine
      <4> QED
        BY <2>4, <3>3, <4>2, <4>3
    <3> QED
      BY <3>2, <3>3
  <2>6. ASSUME NEW u \in Tasks, NEW v \in Tasks PROVE OwnWork(u, v)'
    BY <1>0, <2>5 DEF OwnWork
  <2>7. TimerFine'
    BY <1>2, <2>2, <2>4 DEF TimerFine
  <2> QED
    BY <2>4, <2>5, <2>6, <2>7 DEF Tasking
<1> QED
  BY <1>1, <1>2

-----------------------------------------------------------------------------
(* The books: who has which message.                                       *)

\* An active work is what one was before, or it takes over the batch.
Inherits(w) == \E v \in Works : Active(v) /\ work'[w] = work[v]
TakesOver(w) ==
    /\ work'[w].replies = 0 /\ work'[w].next = 0 /\ work'[w].batch # <<>>
    /\ ToSet(work'[w].batch) \subseteq ToSet(batch)

\* A message of the new batch was in the old one, is new, or comes back from a
\* work without a decision.
Pends(x) ==
    \/ x \in ToSet(batch) \/ x \notin collected
    \/ \E v \in Works : Active(v) /\ work[v].replies = 0 /\ x \in Said(v)

LEMMA BooksStep ==
    ASSUME TypeOK, Books, NEW n \in Nat, collected' = 1 .. n,
           collected \subseteq collected', posts' = posts, remembered' = remembered,
           ToSet(batch') \subseteq collected',
           \A x \in ToSet(batch') : Pends(x),
           \A w \in Works : Active(w)' =>
               /\ Inherits(w) \/ TakesOver(w)
               /\ ToSet(work'[w].batch) \cap ToSet(batch') = {},
           \A v, w \in Works : Apart(v, w)'
    PROVE  Books'
<1>0. /\ \A w \in Works : Active(w) => WorkFine(w)
      /\ \A i \in DOMAIN posts : PostFine(i)
      /\ \A i \in DOMAIN posts, w \in Works : PostOf(i, w)
      /\ \A i, j \in DOMAIN posts : i < j => PostsDiffer(i, j)
      /\ \A i \in DOMAIN remembered : MemoryFine(i)
      /\ \A i \in DOMAIN remembered, w \in Works : MemoryOf(i, w)
      /\ \A i, j \in DOMAIN remembered : i < j => Memory(i) \cap Memory(j) = {}
      /\ ToSet(batch) \subseteq collected
  BY DEF Books, Mine, Posted, Remembered
<1>1. ASSUME NEW w \in Works, Active(w)' PROVE WorkFine(w)'
  <2>1. ToSet(work'[w].batch) \cap ToSet(batch') = {}
    BY <1>1
  <2>2. CASE Inherits(w)
    <3>1. PICK v \in Works : Active(v) /\ work'[w] = work[v]
      BY <2>2 DEF Inherits
    <3>2. WorkFine(v)
      BY <1>0, <3>1
    <3> QED
      BY <2>1, <3>1, <3>2 DEF WorkFine, Said
  <2>3. CASE TakesOver(w)
    <3>1. /\ work'[w].next =< work'[w].replies /\ work'[w].batch # <<>>
          /\ ToSet(work'[w].batch) \subseteq ToSet(batch)
      BY <2>3 DEF TakesOver
    <3>2. ToSet(batch) \subseteq collected'
      BY <1>0
    <3> QED
      BY <2>1, <3>1, <3>2 DEF WorkFine, Said
  <2> QED
    BY <1>1, <2>2, <2>3
<1>2. Mine'
  BY <1>1 DEF Mine
<1>3. ASSUME NEW i \in DOMAIN posts, NEW v \in Works, Active(v), work[v].replies = 0
      PROVE  Post(i) \cap Said(v) = {}
  <2>1. PostOf(i, v) /\ WorkFine(v)
    BY <1>0, <1>3
  <2>2. posts[i][2] \in Nat
    BY SpeakerAssumption DEF TypeOK
  <2>3. work[v].next \in Nat /\ work[v].next =< 0
    BY <1>3, <2>1, TypesOf DEF WorkFine
  <2> QED
    BY <1>3, <2>1, <2>2, <2>3 DEF PostOf
<1>4. ASSUME NEW i \in DOMAIN posts PROVE PostFine(i)'
  <2>1. PostFine(i) /\ Post(i)' = Post(i)
    BY <1>0 DEF Post
  <2>2. ASSUME NEW x \in Post(i), x \in ToSet(batch') PROVE FALSE
    BY <1>3, <2>1, <2>2 DEF PostFine, Pends
  <2> QED
    BY <2>1, <2>2 DEF PostFine
<1>5. ASSUME NEW i \in DOMAIN posts, NEW w \in Works PROVE PostOf(i, w)'
  <2>1. SUFFICES ASSUME Active(w)' PROVE PostOf(i, w)'
    BY DEF PostOf
  <2>2. PostFine(i) /\ posts'[i] = posts[i] /\ Post(i)' = Post(i)
    BY <1>0 DEF Post
  <2>3. CASE Inherits(w)
    <3>1. PICK v \in Works : Active(v) /\ work'[w] = work[v]
      BY <2>3 DEF Inherits
    <3>2. PostOf(i, v) /\ Said(w)' = Said(v)
      BY <1>0, <3>1 DEF Said
    <3> QED
      BY <2>2, <3>1, <3>2 DEF PostOf
  <2>4. CASE TakesOver(w)
    <3>1. Post(i)' \cap Said(w)' = {}
      BY <2>2, <2>4 DEF TakesOver, Said, PostFine
    <3> QED
      BY <3>1 DEF PostOf
  <2> QED
    BY <2>1, <2>3, <2>4
<1>6. ASSUME NEW i \in DOMAIN posts, NEW j \in DOMAIN posts, i < j
      PROVE  PostsDiffer(i, j)'
  BY <1>0, <1>6 DEF PostsDiffer, Post
<1>7. Posted'
  BY <1>4, <1>5, <1>6 DEF Posted
<1>8. ASSUME NEW i \in DOMAIN remembered PROVE MemoryFine(i)'
  <2>1. MemoryFine(i) /\ Memory(i)' = Memory(i)
    BY <1>0 DEF Memory
  <2>2. ASSUME NEW x \in Memory(i), x \in ToSet(batch') PROVE FALSE
    <3>1. Pends(x) /\ x \in collected /\ x \notin ToSet(batch)
      BY <2>1, <2>2 DEF MemoryFine
    <3>2. \A v \in Works : Active(v) => x \notin Said(v)
      BY <1>0 DEF MemoryOf
    <3> QED
      BY <3>1, <3>2 DEF Pends
  <2> QED
    BY <2>1, <2>2 DEF MemoryFine
<1>9. ASSUME NEW i \in DOMAIN remembered, NEW w \in Works PROVE MemoryOf(i, w)'
  <2>1. SUFFICES ASSUME Active(w)' PROVE Memory(i)' \cap Said(w)' = {}
    BY DEF MemoryOf
  <2>2. MemoryFine(i) /\ Memory(i)' = Memory(i)
    BY <1>0 DEF Memory
  <2>3. CASE Inherits(w)
    <3>1. PICK v \in Works : Active(v) /\ work'[w] = work[v]
      BY <2>3 DEF Inherits
    <3>2. MemoryOf(i, v) /\ Said(w)' = Said(v)
      BY <1>0, <3>1 DEF Said
    <3> QED
      BY <2>2, <3>1, <3>2 DEF MemoryOf
  <2>4. CASE TakesOver(w)
    BY <2>2, <2>4 DEF TakesOver, Said, MemoryFine
  <2> QED
    BY <2>1, <2>3, <2>4
<1>10. \A i, j \in DOMAIN remembered' : i < j => Memory(i)' \cap Memory(j)' = {}
  BY <1>0 DEF Memory
<1>11. Remembered'
  BY <1>8, <1>9, <1>10 DEF Remembered
<1> QED
  BY <1>2, <1>7, <1>11 DEF Books

\* Nobody gets what he had not.
LEMMA BooksShrink ==
    ASSUME TypeOK, Books, collected' = collected, posts' = posts,
           remembered' = remembered, work' = work,
           ToSet(batch') \subseteq ToSet(batch),
           \A w \in Works : Active(w)' => Active(w)
    PROVE  Books'
<1>0. /\ \A w \in Works : Active(w) => WorkFine(w)
      /\ \A v, w \in Works : Apart(v, w)
      /\ ToSet(batch) \subseteq collected
  BY DEF Books, Mine
<1>1. PICK n \in Nat : collected = 1 .. n
  BY DEF Books, Mine
<1>2. collected' = 1 .. n
  BY <1>1
<1>3. \A x \in ToSet(batch') : Pends(x)
  BY DEF Pends
<1>4. ASSUME NEW w \in Works, Active(w)'
      PROVE  Inherits(w) /\ ToSet(work'[w].batch) \cap ToSet(batch') = {}
  <2>1. Active(w) /\ WorkFine(w) /\ work'[w] = work[w]
    BY <1>0, <1>4
  <2> QED
    BY <2>1 DEF Inherits, WorkFine, Said
<1>5. ASSUME NEW v \in Works, NEW w \in Works PROVE Apart(v, w)'
  <2>1. Apart(v, w) /\ (Active(v)' => Active(v)) /\ (Active(w)' => Active(w))
    BY <1>0
  <2>2. Said(v)' = Said(v) /\ Said(w)' = Said(w)
    BY DEF Said
  <2> QED
    BY <2>1, <2>2 DEF Apart
<1>6. collected \subseteq collected' /\ ToSet(batch') \subseteq collected'
  BY <1>0
<1> QED
  BY <1>2, <1>3, <1>4, <1>5, <1>6, BooksStep

\* The next reply of a work is claimed.
Claims(w, replies) ==
    /\ posts' = Append(posts, <<work[w].batch, work[w].next>>)
    /\ work' = [work EXCEPT ![w].replies = replies, ![w].next = @ + 1]
LEMMA ClaimWork ==
    ASSUME TypeOK, NEW w \in Works, NEW replies \in 0 .. MaxReplies,
           work[w].next < replies, Claims(w, replies)
    PROVE  /\ work' \in [Works -> WorkType]
           /\ work'[w].batch = work[w].batch /\ work'[w].replies = replies
           /\ work'[w].next = work[w].next + 1
           /\ \A v \in Works : v # w => work'[v] = work[v]
           /\ \A v \in Works : Said(v)' = Said(v)
           /\ <<work[w].batch, work[w].next>> \in Seq(Messages) \X (0 .. MaxReplies - 1)
<1>0. MaxReplies \in Nat /\ work \in [Works -> WorkType] /\ work[w].next \in Nat
  BY SpeakerAssumption, TypesOf
<1> DEFINE new == [work[w] EXCEPT !.replies = replies, !.next = @ + 1]
<1>1. work' = [work EXCEPT ![w] = new]
  BY DEF Claims
<1>2. /\ new.batch = work[w].batch /\ new.replies = replies
      /\ new.next = work[w].next + 1 /\ new \in WorkType
  <2>1. /\ work[w] \in WorkType /\ work[w].batch \in Seq(Messages)
        /\ work[w].next + 1 \in 0 .. MaxReplies
    BY <1>0, TypesOf
  <2> QED
    BY <2>1 DEF WorkType
<1> HIDE DEF new
<1>3. /\ work' \in [Works -> WorkType] /\ work'[w] = new
      /\ \A v \in Works : v # w => work'[v] = work[v]
  BY <1>0, <1>1, <1>2
<1>4. ASSUME NEW v \in Works PROVE Said(v)' = Said(v)
  <2>1. work'[v].batch = work[v].batch
    BY <1>2, <1>3
  <2> QED
    BY <2>1 DEF Said
<1>5. work[w].batch \in Seq(Messages) /\ work[w].next \in 0 .. MaxReplies - 1
  BY <1>0, TypesOf
<1> QED
  BY <1>2, <1>3, <1>4, <1>5

LEMMA ClaimBooks ==
    ASSUME TypeOK, Books, NEW w \in Works, Active(w),
           NEW replies \in 0 .. MaxReplies, work[w].next < replies,
           Claims(w, replies),
           collected' = collected, batch' = batch, remembered' = remembered,
           \A v \in Works : Active(v)' => Active(v)
    PROVE  Books' /\ posts' \in Seq(Seq(Messages) \X (0 .. MaxReplies - 1))
<1>0. /\ \A v \in Works : Active(v) => WorkFine(v)
      /\ \A u, v \in Works : Apart(u, v)
      /\ \A i \in DOMAIN posts : PostFine(i)
      /\ \A i \in DOMAIN posts, v \in Works : PostOf(i, v)
      /\ \A i, j \in DOMAIN posts : i < j => PostsDiffer(i, j)
      /\ \A i \in DOMAIN remembered : MemoryFine(i)
      /\ \A i \in DOMAIN remembered, v \in Works : MemoryOf(i, v)
      /\ \A i, j \in DOMAIN remembered : i < j => Memory(i) \cap Memory(j) = {}
      /\ \E n \in Nat : collected = 1 .. n
      /\ ToSet(batch) \subseteq collected
  BY DEF Books, Mine, Posted, Remembered
<1>1. /\ work'[w].batch = work[w].batch /\ work'[w].replies = replies
      /\ work'[w].next = work[w].next + 1
      /\ \A v \in Works : v # w => work'[v] = work[v]
      /\ \A v \in Works : Said(v)' = Said(v)
      /\ <<work[w].batch, work[w].next>> \in Seq(Messages) \X (0 .. MaxReplies - 1)
      /\ work[w].next \in Nat /\ work[w].batch \in Seq(Messages)
  BY ClaimWork, TypesOf
<1>2. ASSUME NEW v \in Works, Active(v)' PROVE WorkFine(v)'
  <2>1. WorkFine(v) /\ Said(v)' = Said(v)
    BY <1>0, <1>1, <1>2
  <2> QED
    BY <1>1, <2>1 DEF WorkFine
<1>3. ASSUME NEW u \in Works, NEW v \in Works PROVE Apart(u, v)'
  <2>1. /\ Apart(u, v) /\ (Active(u)' => Active(u)) /\ (Active(v)' => Active(v))
        /\ Said(u)' = Said(u) /\ Said(v)' = Said(v)
    BY <1>0, <1>1
  <2> QED
    BY <2>1 DEF Apart
<1>4. Mine'
  BY <1>0, <1>2, <1>3 DEF Mine
<1> DEFINE post == <<work[w].batch, work[w].next>>
<1> PICK last : last = Len(posts) + 1
  OBVIOUS
<1>5. /\ post[1] = work[w].batch /\ post[2] = work[w].next
      /\ posts \in Seq(Seq(Messages) \X (0 .. MaxReplies - 1))
      /\ post \in Seq(Messages) \X (0 .. MaxReplies - 1)
      /\ posts' = Append(posts, post)
  BY <1>1 DEF TypeOK, Claims
<1> HIDE DEF post
<1>6. /\ posts' \in Seq(Seq(Messages) \X (0 .. MaxReplies - 1))
      /\ DOMAIN posts' = DOMAIN posts \cup {last} /\ last \notin DOMAIN posts
      /\ \A i \in DOMAIN posts : posts'[i] = posts[i] /\ i < last
      /\ posts'[last] = post
  BY <1>5, AppendAdds
<1>7. /\ DOMAIN posts \subseteq Int /\ last \in Int
      /\ \A i \in DOMAIN posts : posts[i][2] \in Nat
  BY <1>5, SpeakerAssumption
<1>8. \A i \in DOMAIN posts : Post(i)' = Post(i)
  BY <1>6 DEF Post
<1>9. Post(last)' = Said(w)
  BY <1>5, <1>6 DEF Post, Said
<1>10. /\ WorkFine(w) /\ Said(w) # {} /\ (Said(w) \subseteq collected)
       /\ Said(w) \cap ToSet(batch) = {}
  <2>1. WorkFine(w)
    BY <1>0
  <2> QED
    BY <1>1, <2>1, OfMessages DEF WorkFine, Said
<1>11. ASSUME NEW i \in DOMAIN posts' PROVE PostFine(i)'
  <2>1. CASE i \in DOMAIN posts
    BY <1>0, <1>8, <2>1 DEF PostFine
  <2>2. CASE i = last
    BY <1>9, <1>10, <2>2 DEF PostFine
  <2> QED
    BY <1>6, <2>1, <2>2
<1>12. ASSUME NEW i \in DOMAIN posts', NEW v \in Works PROVE PostOf(i, v)'
  <2>1. SUFFICES ASSUME Active(v)', (Post(i) \cap Said(v) # {})'
                 PROVE  posts'[i][1] = work'[v].batch /\ posts'[i][2] < work'[v].next
    BY DEF PostOf
  <2>2. Active(v) /\ Said(v)' = Said(v)
    BY <1>1, <2>1
  <2>3. CASE i \in DOMAIN posts
    <3>1. posts[i][1] = work[v].batch /\ posts[i][2] < work[v].next
      BY <1>0, <1>8, <2>1, <2>2, <2>3 DEF PostOf
    <3>2. posts[i][2] \in Nat /\ work[v].next \in Nat /\ posts'[i] = posts[i]
      BY <1>6, <1>7, <2>3, TypesOf
    <3> QED
      BY <1>1, <3>1, <3>2
  <2>4. CASE i = last
    <3>1. v = w
      BY <1>0, <1>9, <2>1, <2>2, <2>4 DEF Apart
    <3> QED
      BY <1>1, <1>5, <1>6, <2>4, <3>1
  <2> QED
    BY <1>6, <2>3, <2>4
<1>13. ASSUME NEW i \in DOMAIN posts', NEW j \in DOMAIN posts', i < j
       PROVE  PostsDiffer(i, j)'
  <2>1. i \in DOMAIN posts
    BY <1>6, <1>7, <1>13
  <2>2. CASE j \in DOMAIN posts
    <3>1. PostsDiffer(i, j) /\ posts'[i] = posts[i] /\ posts'[j] = posts[j]
      BY <1>0, <1>6, <1>13, <2>1, <2>2
    <3> QED
      BY <1>8, <2>1, <2>2, <3>1 DEF PostsDiffer
  <2>3. CASE j = last
    <3>1. PostOf(i, w) /\ posts'[i] = posts[i] /\ posts'[j] = post
      BY <1>0, <1>6, <2>1, <2>3
    <3>2. Post(i)' = Post(i) /\ Post(j)' = Said(w)
      BY <1>8, <1>9, <2>1, <2>3
    <3>3. Post(i) \cap Said(w) # {} =>
              posts[i][1] = post[1] /\ posts[i][2] < post[2]
      BY <1>5, <3>1 DEF PostOf
    <3>4. posts[i] # post
      <4>1. SUFFICES ASSUME posts[i] = post PROVE FALSE
        OBVIOUS
      <4>2. Post(i) = Said(w)
        BY <1>5, <4>1 DEF Post, Said
      <4>3. posts[i][2] < posts[i][2]
        BY <1>10, <3>3, <4>1, <4>2
      <4> QED
        BY <1>7, <2>1, <4>3
    <3> QED
      BY <3>1, <3>2, <3>3, <3>4 DEF PostsDiffer
  <2> QED
    BY <1>6, <2>2, <2>3
<1>14. Posted'
  BY <1>11, <1>12, <1>13 DEF Posted
<1>15. ASSUME NEW i \in DOMAIN remembered PROVE MemoryFine(i)'
  BY <1>0 DEF MemoryFine, Memory
<1>16. ASSUME NEW i \in DOMAIN remembered, NEW v \in Works PROVE MemoryOf(i, v)'
  <2>1. MemoryOf(i, v) /\ (Active(v)' => Active(v)) /\ Said(v)' = Said(v)
    BY <1>0, <1>1
  <2> QED
    BY <2>1 DEF MemoryOf, Memory
<1>17. \A i, j \in DOMAIN remembered' : i < j => Memory(i)' \cap Memory(j)' = {}
  BY <1>0 DEF Memory
<1>18. Remembered'
  BY <1>15, <1>16, <1>17 DEF Remembered
<1> QED
  BY <1>4, <1>6, <1>14, <1>18 DEF Books

\* A work that is over is remembered.
LEMMA RememberBooks ==
    ASSUME TypeOK, Books, NEW w \in Works, Active(w), ~Active(w)',
           remembered' = Append(remembered, work[w].batch),
           collected' = collected, batch' = batch, posts' = posts, work' = work,
           \A v \in Works : Active(v)' => Active(v)
    PROVE  Books' /\ remembered' \in Seq(Seq(Messages))
<1>0. /\ \A v \in Works : Active(v) => WorkFine(v)
      /\ \A u, v \in Works : Apart(u, v)
      /\ \A i \in DOMAIN posts : PostFine(i)
      /\ \A i \in DOMAIN posts, v \in Works : PostOf(i, v)
      /\ \A i, j \in DOMAIN posts : i < j => PostsDiffer(i, j)
      /\ \A i \in DOMAIN remembered : MemoryFine(i)
      /\ \A i \in DOMAIN remembered, v \in Works : MemoryOf(i, v)
      /\ \A i, j \in DOMAIN remembered : i < j => Memory(i) \cap Memory(j) = {}
      /\ \E n \in Nat : collected = 1 .. n
      /\ ToSet(batch) \subseteq collected
  BY DEF Books, Mine, Posted, Remembered
<1>1. \A v \in Works : Said(v)' = Said(v)
  BY DEF Said
<1>2. ASSUME NEW v \in Works, Active(v)' PROVE WorkFine(v)'
  BY <1>0, <1>1, <1>2 DEF WorkFine
<1>3. ASSUME NEW u \in Works, NEW v \in Works PROVE Apart(u, v)'
  <2>1. /\ Apart(u, v) /\ (Active(u)' => Active(u)) /\ (Active(v)' => Active(v))
        /\ Said(u)' = Said(u) /\ Said(v)' = Said(v)
    BY <1>0, <1>1
  <2> QED
    BY <2>1 DEF Apart
<1>4. Mine'
  BY <1>0, <1>2, <1>3 DEF Mine
<1>5. \A i \in DOMAIN posts : PostFine(i)'
  BY <1>0 DEF PostFine, Post
<1>6. ASSUME NEW i \in DOMAIN posts, NEW v \in Works PROVE PostOf(i, v)'
  <2>1. PostOf(i, v) /\ (Active(v)' => Active(v)) /\ Said(v)' = Said(v)
    BY <1>0, <1>1
  <2> QED
    BY <2>1 DEF PostOf, Post
<1>7. \A i, j \in DOMAIN posts : i < j => PostsDiffer(i, j)'
  BY <1>0 DEF PostsDiffer, Post
<1>8. Posted'
  BY <1>5, <1>6, <1>7 DEF Posted
<1> PICK last : last = Len(remembered) + 1
  OBVIOUS
<1>9. /\ remembered' \in Seq(Seq(Messages))
      /\ DOMAIN remembered' = DOMAIN remembered \cup {last}
      /\ last \notin DOMAIN remembered
      /\ \A i \in DOMAIN remembered : remembered'[i] = remembered[i] /\ i < last
      /\ remembered'[last] = work[w].batch
  <2>1. remembered \in Seq(Seq(Messages)) /\ work[w].batch \in Seq(Messages)
    BY TypesOf DEF TypeOK
  <2> QED
    BY <2>1, AppendAdds
<1>10. DOMAIN remembered \subseteq Int /\ last \in Int
  BY DEF TypeOK
<1>11. /\ \A i \in DOMAIN remembered : Memory(i)' = Memory(i)
       /\ Memory(last)' = Said(w)
  BY <1>9 DEF Memory, Said
<1>12. WorkFine(w)
  BY <1>0
<1>13. ASSUME NEW i \in DOMAIN remembered' PROVE MemoryFine(i)'
  <2>1. CASE i \in DOMAIN remembered
    BY <1>0, <1>11, <2>1 DEF MemoryFine
  <2>2. CASE i = last
    BY <1>11, <1>12, <2>2 DEF MemoryFine, WorkFine
  <2> QED
    BY <1>9, <2>1, <2>2
<1>14. ASSUME NEW i \in DOMAIN remembered', NEW v \in Works PROVE MemoryOf(i, v)'
  <2>1. SUFFICES ASSUME Active(v)' PROVE Memory(i)' \cap Said(v)' = {}
    BY DEF MemoryOf
  <2>2. Active(v) /\ v # w /\ Said(v)' = Said(v)
    BY <1>1, <2>1
  <2>3. CASE i \in DOMAIN remembered
    BY <1>0, <1>11, <2>2, <2>3 DEF MemoryOf
  <2>4. CASE i = last
    BY <1>0, <1>11, <2>2, <2>4 DEF Apart
  <2> QED
    BY <1>9, <2>3, <2>4
<1>15. ASSUME NEW i \in DOMAIN remembered', NEW j \in DOMAIN remembered', i < j
       PROVE  Memory(i)' \cap Memory(j)' = {}
  <2>1. i \in DOMAIN remembered
    BY <1>9, <1>10, <1>15
  <2>2. CASE j \in DOMAIN remembered
    BY <1>0, <1>11, <1>15, <2>1, <2>2
  <2>3. CASE j = last
    BY <1>0, <1>11, <2>1, <2>3 DEF MemoryOf
  <2> QED
    BY <1>9, <2>2, <2>3
<1>16. Remembered'
  BY <1>13, <1>14, <1>15 DEF Remembered
<1> QED
  BY <1>4, <1>8, <1>9, <1>16 DEF Books

-----------------------------------------------------------------------------
(* What the steps of the speaker have in common.                           *)

\* Both sides of Accounted, as unions of messages.
Of(w) == IF w = None THEN {} ELSE Said(w)
LEMMA HeldIs ==
    /\ Held = ToSet(batch) \cup Of(resumable) \cup Of(inflight)
    /\ Held' = ToSet(batch') \cup Of(resumable)' \cup Of(inflight)'
  BY DEF Held, Of, Said

\* The steps of tasks keep the configuration, and with it the phase.
SpeakerFrame ==
    UNCHANGED <<reloadVars, speakerCfg, generation, handoff>>

LEMMA TypesStep ==
    ASSUME TypeOK, SpeakerFrame,
           collected' \subseteq Messages, settled' \subseteq collected',
           batch' \in Seq(Messages), Len(batch') =< MaxBatch,
           resumable' \in Works \cup {None}, inflight' \in Works \cup {None},
           timer' \in Tasks \cup {None}, task' \in [Tasks -> TaskType],
           work' \in [Works -> WorkType],
           posts' \in Seq(Seq(Messages) \X (0 .. MaxReplies - 1)),
           remembered' \in Seq(Seq(Messages))
    PROVE  TypeOK'
<1>1. /\ speakerCfg' \in Configs /\ generation' \in Nat /\ handoff' \in BOOLEAN
      /\ file' \in Config /\ app' \in Config
      /\ scheduler' \in Configs /\ memory' \in Configs
      /\ reload' \in [pc : {"idle", "scheduler", "drain", "memory", "rollback", "restore"},
                      cfg : Config]
      /\ <<reloads', changes'>> \in Nat \X Nat
  BY DEF TypeOK, SpeakerFrame, reloadVars, Config
<1>2. {resumable', inflight'} \subseteq Works \cup {None}
  OBVIOUS
<1> QED
  BY <1>1, <1>2 DEF TypeOK, Config, TaskType, WorkType

LEMMA PhasesStep ==
    ASSUME Phases, SpeakerFrame
    PROVE  Phases'
  BY DEF Phases, SpeakerFrame, reloadVars

\* Nobody begins to work.
LEMMA Fewer ==
    ASSUME TypeOK, inflight' \in {inflight, None}, resumable' \in {resumable, None},
           \A u \in Tasks : Current(u)' =>
               Current(u) /\ task'[u].work = task[u].work /\ task'[u].pc = task[u].pc
    PROVE  /\ \A w \in Works : Active(w)' => Active(w)
           /\ Staged /\ work' = work => Staged'
<1>0. None \notin Works
  BY TypesOf
<1>1. ASSUME NEW w \in Works, Active(w)' PROVE Active(w)
  <2>1. CASE w \in {resumable', inflight'}
    BY <1>0, <2>1 DEF Active
  <2>2. CASE \E u \in Tasks : Current(u)' /\ task'[u].work = w
    <3>1. PICK u \in Tasks : Current(u)' /\ task'[u].work = w
      BY <2>2
    <3>2. Current(u) /\ task[u].work = w
      BY <3>1
    <3> QED
      BY <3>2 DEF Active
  <2> QED
    BY <1>1, <2>1, <2>2 DEF Active
<1>2. ASSUME Staged, work' = work PROVE Staged'
  <2>1. ASSUME NEW u \in Tasks, Current(u)' PROVE Stage(u)'
    <3>1. Stage(u) /\ task'[u].work = task[u].work /\ task'[u].pc = task[u].pc
      BY <1>2, <2>1 DEF Staged
    <3> QED
      BY <1>2, <3>1 DEF Stage
  <2> QED
    BY <1>2, <2>1 DEF Staged
<1> QED
  BY <1>1, <1>2

\* A task ends without a change of what is decided.
LEMMA EndStep ==
    ASSUME TypeOK, Tasking, Staged, NEW t \in Tasks, NEW pending \in BOOLEAN,
           EndTask(t, pending), SpeakerFrame, work' = work,
           inflight' \in {inflight, None}, resumable' \in {resumable, None},
           timer = t /\ ~handoff =>
               /\ inflight' = None
               /\ pending => batch' # <<>> \/ resumable' # None
               /\ ~pending => resumable' = None,
           timer # t /\ ~handoff =>
               inflight' = inflight /\ resumable' = resumable
               /\ (batch # <<>> => batch' # <<>>)
    PROVE  /\ Tasking' /\ Staged'
           /\ task' \in [Tasks -> TaskType] /\ timer' \in Tasks \cup {None}
           /\ \A u \in Tasks : Current(u)' => u # t /\ Current(u) /\ task'[u] = task[u]
           /\ \A w \in Works : Active(w)' => Active(w)
<1>1. handoff' = handoff /\ generation' = generation /\ speakerCfg' = speakerCfg
  BY DEF SpeakerFrame
<1>2. /\ Tasking'
      /\ task' \in [Tasks -> TaskType] /\ timer' \in Tasks \cup {None}
      /\ \A u \in Tasks : Current(u)' => u # t /\ Current(u) /\ task'[u] = task[u]
  BY <1>1, EndTasking
<1>3. Staged' /\ \A w \in Works : Active(w)' => Active(w)
  BY <1>2, Fewer
<1> QED
  BY <1>2, <1>3

\* A batch that is discarded is settled.
LEMMA DiscardSettles ==
    ASSUME IInv, NEW w \in Works, Discard(w),
           collected' = collected, batch' = batch, resumable' = resumable, work' = work
    PROVE  /\ Accounted' /\ settled' \subseteq collected'
           /\ inflight' = IF inflight = w THEN None ELSE inflight
<1>0. /\ Active(w) => WorkFine(w)
      /\ TimerFine /\ None \notin Works
      /\ settled \subseteq collected
      /\ collected \ settled = Held
  BY TypesOf DEF IInv, Books, Mine, Tasking, Accounted, TypeOK
<1>1. CASE inflight = w
  <2>0. WorkFine(w)
    BY <1>0, <1>1 DEF Active
  <2>1. /\ inflight' = None /\ settled' = settled \cup Said(w) /\ resumable = None
        /\ w # None
    BY <1>0, <1>1 DEF Discard, TimerFine, Said
  <2>2. Held = ToSet(batch) \cup Said(w) /\ Held' = ToSet(batch)
    BY <1>1, <2>1, HeldIs DEF Of
  <2>3. collected' \ settled' = Held'
    BY <1>0, <2>0, <2>1, <2>2 DEF WorkFine
  <2> QED
    BY <1>0, <1>1, <2>0, <2>1, <2>3 DEF Accounted, WorkFine
<1>2. CASE inflight # w
  <2>1. inflight' = inflight /\ settled' = settled
    BY <1>2 DEF Discard
  <2>2. Held' = Held
    BY <2>1, HeldIs DEF Of, Said
  <2> QED
    BY <1>0, <1>2, <2>1, <2>2 DEF Accounted
<1> QED
  BY <1>1, <1>2

\* What nobody touched stays accounted for.
LEMMA AccountedStays ==
    ASSUME IInv, collected' = collected, batch' = batch, resumable' = resumable,
           inflight' = inflight, settled' = settled,
           \A w \in Works : Said(w)' = Said(w)
    PROVE  Accounted'
<1>1. Of(resumable)' = Of(resumable) /\ Of(inflight)' = Of(inflight)
  BY TypesOf DEF Of, IInv
<1>2. Held' = Held
  BY <1>1, HeldIs
<1> QED
  BY <1>2 DEF Accounted, IInv

-----------------------------------------------------------------------------
(* The steps of a flush.                                                   *)

\* What the invariant says of the work of a task that works.
LEMMA WorkOf ==
    ASSUME IInv, NEW t \in Tasks, task[t].pc \in Working
    PROVE  /\ task[t].work \in Works
           /\ Current(t) => /\ Active(task[t].work) /\ WorkFine(task[t].work)
                            /\ Stage(t)
           /\ settled \subseteq collected /\ collected \subseteq Messages
<1>1. /\ task[t].work \in Works
      /\ Current(t) => Active(task[t].work)
  BY WorkerIsCurrent DEF IInv
<1>2. Current(t) => WorkFine(task[t].work) /\ Stage(t)
  BY <1>1 DEF IInv, Books, Mine, Staged
<1> QED
  BY <1>1, <1>2 DEF IInv, TypeOK

\* A task ends that was told to, or that may not speak any more.
LEMMA EndsQuietly ==
    ASSUME IInv, SpeakerFrame, NEW t \in Tasks, EndTask(t, Pending),
           task[t].told \/ (task[t].pc \in Working /\ ~MaySideEffect(t)),
           UNCHANGED <<collected, batch, resumable, inflight, work, posts,
                       remembered, settled>>
    PROVE  IInv'
<1>1. timer # t \/ handoff
  <2>1. TimerFine /\ t # None
    BY TypesOf DEF IInv, Tasking
  <2>2. CASE task[t].told
    BY <2>1, <2>2 DEF TimerFine
  <2>3. CASE task[t].pc \in Working /\ ~MaySideEffect(t)
    BY <2>3, WorkerIsCurrent DEF IInv
  <2> QED
    BY <2>2, <2>3
<1>2. /\ Tasking' /\ Staged'
      /\ task' \in [Tasks -> TaskType] /\ timer' \in Tasks \cup {None}
      /\ \A w \in Works : Active(w)' => Active(w)
  <2>1. Pending \in BOOLEAN
    BY DEF Pending
  <2> QED
    BY <1>1, <2>1, EndStep DEF IInv
<1>3. TypeOK'
  BY <1>2, TypesStep DEF IInv, TypeOK
<1>4. Books'
  BY <1>2, BooksShrink DEF IInv
<1>5. Accounted'
  BY AccountedStays DEF Said
<1> QED
  BY <1>2, <1>3, <1>4, <1>5, PhasesStep DEF IInv

\* How a task that works ends when it discards what it worked on.
LEMMA DiscardStep ==
    ASSUME IInv, SpeakerFrame, NEW t \in Tasks, task[t].pc \in Working,
           Discard(task[t].work), EndTask(t, Pending),
           UNCHANGED <<collected, batch, resumable, work>>
    PROVE  /\ Tasking' /\ Staged' /\ Accounted' /\ settled' \subseteq collected'
           /\ inflight' \in Works \cup {None}
           /\ task' \in [Tasks -> TaskType] /\ timer' \in Tasks \cup {None}
           /\ \A u \in Tasks : Current(u)' => u # t /\ Current(u) /\ task'[u] = task[u]
           /\ \A w \in Works : Active(w)' => Active(w)
<1>1. PICK w \in Works : w = task[t].work
  BY WorkOf
<1>2. /\ Accounted' /\ settled' \subseteq collected'
      /\ inflight' = IF inflight = w THEN None ELSE inflight
  BY <1>1, DiscardSettles
<1>3. /\ timer = t /\ ~handoff => w = inflight /\ resumable = None
      /\ timer # t /\ ~handoff => w # inflight
  BY <1>1, WorkerIsCurrent DEF IInv
<1>4. Pending \in BOOLEAN /\ (Pending <=> batch # <<>> \/ resumable # None)
  BY DEF Pending
<1>5. /\ Tasking' /\ Staged'
      /\ task' \in [Tasks -> TaskType] /\ timer' \in Tasks \cup {None}
      /\ \A u \in Tasks : Current(u)' => u # t /\ Current(u) /\ task'[u] = task[u]
      /\ \A v \in Works : Active(v)' => Active(v)
  BY <1>2, <1>3, <1>4, EndStep DEF IInv
<1> QED
  BY <1>2, <1>5, TypesOf DEF IInv

LEMMA EndsDiscarding ==
    ASSUME IInv, SpeakerFrame, NEW t \in Tasks, task[t].pc \in Working,
           Discard(task[t].work), EndTask(t, Pending),
           UNCHANGED <<collected, batch, resumable, work, posts, remembered>>
    PROVE  IInv'
<1>1. /\ Tasking' /\ Staged' /\ Accounted' /\ settled' \subseteq collected'
      /\ inflight' \in Works \cup {None}
      /\ task' \in [Tasks -> TaskType] /\ timer' \in Tasks \cup {None}
      /\ \A w \in Works : Active(w)' => Active(w)
  BY DiscardStep
<1>2. TypeOK'
  BY <1>1, TypesStep DEF IInv, TypeOK
<1>3. Books'
  BY <1>1, BooksShrink DEF IInv
<1> QED
  BY <1>1, <1>2, <1>3, PhasesStep DEF IInv

\* All replies have been claimed by a task that may still speak.
LEMMA EndsRemembering ==
    ASSUME IInv, SpeakerFrame, NEW t \in Tasks, task[t].pc \in Working,
           MaySideEffect(t), remembered' = Append(remembered, work[task[t].work].batch),
           Discard(task[t].work), EndTask(t, Pending),
           UNCHANGED <<collected, batch, resumable, work, posts>>
    PROVE  IInv'
<1>1. /\ Tasking' /\ Staged' /\ Accounted' /\ settled' \subseteq collected'
      /\ inflight' \in Works \cup {None}
      /\ task' \in [Tasks -> TaskType] /\ timer' \in Tasks \cup {None}
      /\ \A u \in Tasks : Current(u)' => u # t /\ Current(u) /\ task'[u] = task[u]
      /\ \A w \in Works : Active(w)' => Active(w)
  BY DiscardStep
<1>2. PICK w \in Works : w = task[t].work
  BY WorkOf
<1>3. Active(w) /\ Current(t) /\ w # resumable /\ w # None
  BY <1>2, WorkerIsCurrent DEF IInv
<1>4. ~Active(w)'
  <2>1. w # inflight'
    BY <1>2, <1>3, DiscardSettles, TypesOf DEF IInv
  <2>2. ASSUME NEW u \in Tasks, Current(u)', task'[u].work = w PROVE FALSE
    <3>1. u # t /\ Current(u) /\ task[u].work = w
      BY <1>1, <2>2
    <3>2. OwnWork(t, u)
      BY DEF IInv, Tasking
    <3> QED
      BY <1>2, <1>3, <3>1, <3>2 DEF OwnWork
  <2> QED
    BY <1>3, <2>1, <2>2 DEF Active
<1>5. Books' /\ remembered' \in Seq(Seq(Messages))
  BY <1>1, <1>2, <1>3, <1>4, RememberBooks DEF IInv
<1>6. TypeOK'
  BY <1>1, <1>5, TypesStep DEF IInv, TypeOK
<1> QED
  BY <1>1, <1>5, <1>6, PhasesStep DEF IInv

\* The next reply is claimed by a task that may speak.
LEMMA Claiming ==
    ASSUME IInv, SpeakerFrame, NEW t \in Tasks, task[t].pc \in Working,
           MaySideEffect(t), NEW replies \in 0 .. MaxReplies,
           work[task[t].work].next < replies,
           Claim(t, task[t].work, replies),
           UNCHANGED <<collected, batch, resumable, inflight, remembered, settled>>
    PROVE  IInv'
<1>1. PICK w \in Works : w = task[t].work
  BY WorkOf
<1>2. Claims(w, replies) /\ GoesOn(t, "send") /\ timer' = timer
  BY <1>1 DEF Claim, Claims, GoesOn
<1>3. Active(w) /\ Current(t) /\ w # resumable
  BY <1>1, WorkerIsCurrent DEF IInv
<1>4. /\ work' \in [Works -> WorkType]
      /\ work'[w].replies = replies
      /\ \A v \in Works : v # w => work'[v] = work[v]
      /\ \A v \in Works : Said(v)' = Said(v)
  BY <1>1, <1>2, ClaimWork DEF IInv
<1>5. /\ Tasking' /\ task' \in [Tasks -> TaskType]
      /\ \A u \in Tasks :
             /\ Current(u)' <=> Current(u)
             /\ task'[u].work = task[u].work
             /\ u # t => task'[u] = task[u]
      /\ task'[t].pc = "send"
  BY <1>2, MoveTasking DEF IInv, SpeakerFrame, Working
<1>6. \A v \in Works : Active(v)' => Active(v)
  BY <1>5 DEF Active
<1>7. Books' /\ posts' \in Seq(Seq(Messages) \X (0 .. MaxReplies - 1))
  BY <1>1, <1>2, <1>3, <1>6, ClaimBooks DEF IInv
<1>8. Staged'
  <2>1. replies # 0
    BY <1>1, TypesOf DEF IInv
  <2>2. ASSUME NEW u \in Tasks, Current(u)' PROVE Stage(u)'
    <3>1. CASE u = t
      BY <1>1, <1>4, <1>5, <2>1, <3>1 DEF Stage
    <3>2. CASE u # t
      <4>1. OwnWork(t, u) /\ Current(u) /\ Stage(u) /\ task'[u] = task[u]
        BY <1>5, <2>2, <3>2 DEF IInv, Tasking, Staged
      <4>2. task[u].work # w /\ (task[u].pc \in Working => task[u].work \in Works)
        BY <1>1, <1>3, <3>2, <4>1, WorkOf DEF OwnWork
      <4>3. task[u].pc \in Working
        BY <4>1 DEF Current
      <4>4. work'[task[u].work] = work[task[u].work]
        BY <1>4, <4>2, <4>3
      <4> QED
        BY <4>1, <4>4 DEF Stage
    <3> QED
      BY <3>1, <3>2
  <2>3. resumable # None => work'[resumable].replies # 0
    BY <1>3, <1>4, TypesOf DEF IInv, Staged
  <2> QED
    BY <2>2, <2>3 DEF Staged
<1>9. TypeOK'
  BY <1>2, <1>4, <1>5, <1>7, TypesStep DEF IInv, TypeOK
<1>10. Accounted'
  BY <1>4, AccountedStays
<1> QED
  BY <1>5, <1>7, <1>8, <1>9, <1>10, PhasesStep DEF IInv

LEMMA CancelledKeeps ==
    ASSUME IInv, UNCHANGED reloadVars, NEW t \in Tasks, Cancelled(t)
    PROVE  IInv'
<1>1. SpeakerFrame
  BY DEF Cancelled, SpeakerFrame
<1> QED
  BY <1>1, EndsQuietly DEF Cancelled

LEMMA AgentAnswersKeeps ==
    ASSUME IInv, UNCHANGED reloadVars, NEW t \in Tasks,
           NEW n \in 0 .. MaxReplies, AgentAnswers(t, n)
    PROVE  IInv'
<1>1. SpeakerFrame /\ task[t].pc \in Working
  BY DEF AgentAnswers, SpeakerFrame, Working
<1>2. CASE ~MaySideEffect(t)
  <2>1. /\ EndTask(t, Pending)
        /\ UNCHANGED <<collected, batch, resumable, inflight, work, posts,
                       remembered, settled>>
    BY <1>2 DEF AgentAnswers
  <2> QED
    BY <1>1, <1>2, <2>1, EndsQuietly
<1>3. CASE MaySideEffect(t) /\ n = 0
  <2>1. /\ EndTask(t, Pending) /\ Discard(task[t].work)
        /\ UNCHANGED <<collected, batch, resumable, work, posts, remembered>>
    BY <1>3 DEF AgentAnswers
  <2> QED
    BY <1>1, <2>1, EndsDiscarding
<1>4. CASE MaySideEffect(t) /\ n # 0
  <2>1. /\ Claim(t, task[t].work, n)
        /\ UNCHANGED <<collected, batch, resumable, inflight, remembered, settled>>
    BY <1>4 DEF AgentAnswers
  <2>2. Current(t) /\ task[t].pc = "agent"
    BY <1>1, <1>4, WorkerIsCurrent DEF IInv, AgentAnswers
  <2>3. PICK w \in Works : w = task[t].work
    BY <1>1, WorkOf
  <2>4. work[w].replies = 0 /\ work[w].next =< work[w].replies
    BY <1>1, <2>2, <2>3, WorkOf DEF Stage, WorkFine
  <2>5. work[w].next < n
    BY <1>4, <2>4, TypesOf DEF IInv
  <2> QED
    BY <1>1, <1>4, <2>1, <2>3, <2>5, Claiming
<1> QED
  BY <1>2, <1>3, <1>4

LEMMA AgentFailsKeeps ==
    ASSUME IInv, UNCHANGED reloadVars, NEW t \in Tasks, AgentFails(t)
    PROVE  IInv'
<1>1. SpeakerFrame /\ task[t].pc \in Working
  BY DEF AgentFails, SpeakerFrame, Working
<1> QED
  BY <1>1, EndsDiscarding DEF AgentFails

LEMMA SendReturnsKeeps ==
    ASSUME IInv, UNCHANGED reloadVars, NEW t \in Tasks, SendReturns(t)
    PROVE  IInv'
<1>1. SpeakerFrame /\ task[t].pc \in Working
  BY DEF SendReturns, SpeakerFrame, Working
<1>2. PICK w \in Works : w = task[t].work
  BY <1>1, WorkOf
<1>3. CASE work[w].next < work[w].replies
  <2>1. /\ GoesOn(t, "pause")
        /\ UNCHANGED <<collected, batch, resumable, inflight, timer, work, posts,
                       remembered, settled>>
    BY <1>2, <1>3 DEF SendReturns, GoesOn
  <2>2. /\ Tasking' /\ task' \in [Tasks -> TaskType]
        /\ \A u \in Tasks :
               /\ Current(u)' <=> Current(u)
               /\ task'[u].work = task[u].work
               /\ u # t => task'[u] = task[u]
        /\ task'[t].pc = "pause"
    BY <1>1, <2>1, MoveTasking DEF IInv, SpeakerFrame, Working
  <2>3. \A v \in Works : Active(v)' => Active(v)
    BY <2>1, <2>2 DEF Active
  <2>4. Books'
    BY <2>1, <2>3, BooksShrink DEF IInv
  <2>5. ASSUME NEW u \in Tasks, Current(u)' PROVE Stage(u)'
    <3>1. CASE u = t
      BY <1>2, <1>3, <2>1, <2>2, <3>1 DEF Stage
    <3>2. CASE u # t
      <4>1. Stage(u) /\ task'[u] = task[u] /\ work' = work
        BY <2>1, <2>2, <2>5, <3>2 DEF IInv, Staged
      <4> QED
        BY <4>1 DEF Stage
    <3> QED
      BY <3>1, <3>2
  <2>6. Staged'
    BY <2>1, <2>5 DEF Staged, IInv
  <2>7. TypeOK'
    BY <1>1, <2>1, <2>2, TypesStep DEF IInv, TypeOK
  <2>8. Accounted'
    BY <2>1, AccountedStays DEF Said
  <2> QED
    BY <1>1, <2>2, <2>4, <2>6, <2>7, <2>8, PhasesStep DEF IInv
<1>4. CASE ~(work[w].next < work[w].replies) /\ MaySideEffect(t)
  <2>1. /\ remembered' = Append(remembered, work[task[t].work].batch)
        /\ Discard(task[t].work) /\ EndTask(t, Pending)
        /\ UNCHANGED <<collected, batch, resumable, work, posts>>
    BY <1>2, <1>4 DEF SendReturns, Complete
  <2> QED
    BY <1>1, <1>4, <2>1, EndsRemembering
<1>5. CASE ~(work[w].next < work[w].replies) /\ ~MaySideEffect(t)
  <2>1. /\ EndTask(t, Pending)
        /\ UNCHANGED <<collected, batch, resumable, inflight, work, posts,
                       remembered, settled>>
    BY <1>2, <1>5 DEF SendReturns, Complete
  <2> QED
    BY <1>1, <1>5, <2>1, EndsQuietly
<1> QED
  BY <1>3, <1>4, <1>5

LEMMA SendNextKeeps ==
    ASSUME IInv, UNCHANGED reloadVars, NEW t \in Tasks, SendNext(t)
    PROVE  IInv'
<1>1. SpeakerFrame /\ task[t].pc \in Working /\ task[t].pc = "pause"
  BY DEF SendNext, SpeakerFrame, Working
<1>2. CASE ~MaySideEffect(t)
  <2>1. /\ EndTask(t, Pending)
        /\ UNCHANGED <<collected, batch, resumable, inflight, work, posts,
                       remembered, settled>>
    BY <1>2 DEF SendNext
  <2> QED
    BY <1>1, <1>2, <2>1, EndsQuietly
<1>3. CASE MaySideEffect(t)
  <2>1. PICK w \in Works : w = task[t].work
    BY <1>1, WorkOf
  <2>2. /\ Claim(t, task[t].work, work[w].replies)
        /\ UNCHANGED <<collected, batch, resumable, inflight, remembered, settled>>
    BY <1>3, <2>1 DEF SendNext
  <2>3. Current(t)
    BY <1>1, <1>3, WorkerIsCurrent DEF IInv
  <2>4. work[w].next < work[w].replies /\ work[w].replies \in 0 .. MaxReplies
    BY <1>1, <2>1, <2>3, WorkOf, TypesOf DEF Stage, IInv
  <2> QED
    BY <1>1, <1>3, <2>1, <2>2, <2>4, Claiming
<1> QED
  BY <1>2, <1>3

\* The whole batch goes to an Agent.
LEMMA FlushBatchKeeps ==
    ASSUME IInv, UNCHANGED reloadVars, NEW t \in Tasks, FlushBatch(t)
    PROVE  IInv'
<1>1. SpeakerFrame /\ Sleeps(t) /\ resumable = None
  BY DEF FlushBatch, SpeakerFrame, Sleeps
<1>2. MaySideEffect(t) /\ inflight = None /\ batch # <<>>
  BY <1>1, SleeperMay DEF IInv
<1>3. PICK w \in Works : w = FreshWork
  BY FreshIsIdle DEF FlushBatch, IInv
<1>4. w # None /\ \A u \in Tasks : task[u].work # w
  BY <1>3, FreshIsIdle DEF FlushBatch, IInv
<1>5. /\ task' = [task EXCEPT ![t].pc = "agent", ![t].work = w]
      /\ work' = [work EXCEPT ![w] = [NoWork EXCEPT !.batch = batch]]
      /\ inflight' = w /\ batch' = <<>>
      /\ UNCHANGED <<collected, resumable, timer, posts, remembered, settled>>
  BY <1>2, <1>3 DEF FlushBatch
<1>6. /\ Tasking' /\ task' \in [Tasks -> TaskType]
      /\ \A u \in Tasks : Current(u)' => u = t \/ (Current(u) /\ task'[u] = task[u])
      /\ Current(t)' /\ task'[t].pc = "agent" /\ task'[t].work = w
  <2>1. "agent" \in Working
    BY DEF Working
  <2>2. /\ TypeOK /\ Tasking /\ timer' = timer /\ handoff' = handoff
        /\ generation' = generation /\ speakerCfg' = speakerCfg
        /\ inflight' = w /\ resumable' = None
    BY <1>1, <1>5 DEF IInv, SpeakerFrame
  <2>3. Begins(t, "agent", w)
    BY <1>5 DEF Begins
  <2> QED
    BY <1>1, <1>4, <2>1, <2>2, <2>3, StartTasking
<1>7. /\ work'[w].batch = batch /\ work'[w].replies = 0 /\ work'[w].next = 0
      /\ \A v \in Works : v # w => work'[v] = work[v]
      /\ work' \in [Works -> WorkType]
  <2> DEFINE new == [NoWork EXCEPT !.batch = batch]
  <2>1. /\ new.batch = batch /\ new.replies = 0 /\ new.next = 0 /\ new \in WorkType
    BY TypesOf, SpeakerAssumption DEF NoWork, WorkType, IInv
  <2> HIDE DEF new
  <2>2. work \in [Works -> WorkType] /\ work' = [work EXCEPT ![w] = new]
    BY <1>5, TypesOf DEF IInv, new
  <2> QED
    BY <2>1, <2>2
<1>8. ASSUME NEW v \in Works, Active(v)', v # w
      PROVE  Active(v) /\ work'[v] = work[v]
  <2>1. v \notin {resumable', inflight'}
    BY <1>1, <1>5, <1>8, TypesOf DEF IInv
  <2>2. PICK u \in Tasks : Current(u)' /\ task'[u].work = v
    BY <1>8, <2>1 DEF Active
  <2>3. Current(u) /\ task[u].work = v
    BY <1>6, <1>8, <2>2
  <2> QED
    BY <1>7, <1>8, <2>3 DEF Active
<1>9. /\ \A v \in Works : Active(v) => WorkFine(v)
      /\ \A u, v \in Works : Apart(u, v)
      /\ ToSet(batch) \subseteq collected /\ settled \subseteq collected
      /\ collected \subseteq Messages
  BY DEF IInv, Books, Mine, TypeOK
<1>10. ToSet(batch') = {}
  BY <1>5 DEF ToSet
<1>11. Books'
  <2>1. PICK n \in Nat : collected = 1 .. n
    BY DEF IInv, Books, Mine
  <2>2. ASSUME NEW v \in Works, Active(v)' PROVE Inherits(v) \/ TakesOver(v)
    <3>1. CASE v = w
      BY <1>2, <1>7, <3>1 DEF TakesOver
    <3>2. CASE v # w
      BY <1>8, <2>2, <3>2 DEF Inherits
    <3> QED
      BY <3>1, <3>2
  <2>3. ASSUME NEW u \in Works, NEW v \in Works PROVE Apart(u, v)'
    <3>1. SUFFICES ASSUME Active(u)', Active(v)', u # v
                   PROVE  Said(u)' \cap Said(v)' = {}
      BY DEF Apart
    <3>2. Said(w)' = ToSet(batch)
      BY <1>7 DEF Said
    <3>3. ASSUME NEW x \in Works, Active(x)', x # w
          PROVE  Said(x)' = Said(x) /\ Active(x) /\ Said(x) \cap ToSet(batch) = {}
      BY <1>8, <1>9, <3>3 DEF Said, WorkFine
    <3>4. CASE u = w
      BY <3>1, <3>2, <3>3, <3>4
    <3>5. CASE v = w
      BY <3>1, <3>2, <3>3, <3>5
    <3>6. CASE u # w /\ v # w
      BY <1>9, <3>1, <3>3, <3>6 DEF Apart
    <3> QED
      BY <3>4, <3>5, <3>6
  <2>4. /\ collected' = 1 .. n /\ collected \subseteq collected'
        /\ ToSet(batch') \subseteq collected' /\ \A x \in ToSet(batch') : Pends(x)
        /\ \A v \in Works : ToSet(work'[v].batch) \cap ToSet(batch') = {}
    BY <1>5, <1>10, <2>1
  <2> QED
    BY <1>5, <2>2, <2>3, <2>4, BooksStep DEF IInv
<1>12. Staged'
  <2>1. ASSUME NEW u \in Tasks, Current(u)' PROVE Stage(u)'
    <3>1. CASE u = t
      BY <1>6, <1>7, <3>1 DEF Stage
    <3>2. CASE u # t
      <4>1. Current(u) /\ Stage(u) /\ task'[u] = task[u]
        BY <1>6, <2>1, <3>2 DEF IInv, Staged
      <4>2. task[u].work \in Works /\ task[u].work # w
        BY <1>4, <4>1, WorkOf DEF Current
      <4>3. work'[task[u].work] = work[task[u].work]
        BY <1>7, <4>2
      <4> QED
        BY <4>1, <4>3 DEF Stage
    <3> QED
      BY <3>1, <3>2
  <2> QED
    BY <1>1, <1>5, <2>1 DEF Staged
<1>13. Accounted'
  <2>1. Held = ToSet(batch) /\ Held' = Said(w)'
    BY <1>1, <1>2, <1>4, <1>5, <1>10, HeldIs DEF Of
  <2>2. Said(w)' = ToSet(batch)
    BY <1>7 DEF Said
  <2> QED
    BY <1>5, <2>1, <2>2 DEF IInv, Accounted
<1>14. TypeOK'
  <2>1. batch' \in Seq(Messages) /\ Len(batch') =< MaxBatch
    BY <1>5, SpeakerAssumption
  <2> QED
    BY <1>1, <1>5, <1>6, <1>7, <1>9, <2>1, TypesStep, TypesOf DEF IInv, TypeOK
<1> QED
  BY <1>1, <1>6, <1>11, <1>12, <1>13, <1>14, PhasesStep DEF IInv

\* The whole batch is dropped.
LEMMA FlushSilentKeeps ==
    ASSUME IInv, UNCHANGED reloadVars, NEW t \in Tasks, FlushSilent(t)
    PROVE  IInv'
<1>1. SpeakerFrame /\ Sleeps(t) /\ resumable = None
  BY DEF FlushSilent, SpeakerFrame, Sleeps
<1>2. timer = t /\ ~handoff /\ inflight = None
  BY <1>1, SleeperMay DEF IInv
<1>3. /\ EndTask(t, FALSE) /\ batch' = <<>> /\ inflight' = None
      /\ settled' = settled \cup ToSet(batch)
      /\ UNCHANGED <<collected, resumable, work, posts, remembered>>
  BY DEF FlushSilent
<1>4. /\ Tasking' /\ Staged'
      /\ task' \in [Tasks -> TaskType] /\ timer' \in Tasks \cup {None}
      /\ \A w \in Works : Active(w)' => Active(w)
  BY <1>1, <1>2, <1>3, EndStep DEF IInv
<1>5. /\ ToSet(batch') = {} /\ ToSet(batch) \subseteq collected
      /\ settled \subseteq collected /\ collected \subseteq Messages
  BY <1>3 DEF ToSet, IInv, Books, Mine, TypeOK
<1>6. Books'
  BY <1>3, <1>4, <1>5, BooksShrink DEF IInv
<1>7. TypeOK'
  <2>1. batch' \in Seq(Messages) /\ Len(batch') =< MaxBatch
    BY <1>3, SpeakerAssumption
  <2> QED
    BY <1>1, <1>3, <1>4, <1>5, <2>1, TypesStep, TypesOf DEF IInv, TypeOK
<1>8. Accounted'
  <2>1. Held = ToSet(batch) /\ Held' = {}
    BY <1>1, <1>2, <1>3, <1>5, HeldIs DEF Of
  <2> QED
    BY <1>3, <1>5, <2>1 DEF IInv, Accounted
<1> QED
  BY <1>1, <1>4, <1>6, <1>7, <1>8, PhasesStep DEF IInv

\* What is left of a batch that was decided before a handoff.
LEMMA ResumeKeeps ==
    ASSUME IInv, UNCHANGED reloadVars, NEW t \in Tasks, Resume(t)
    PROVE  IInv'
<1>1. SpeakerFrame /\ Sleeps(t) /\ resumable # None
  BY DEF Resume, SpeakerFrame, Sleeps
<1>2. PICK w \in Works : w = resumable
  BY <1>1, TypesOf DEF IInv
<1>3. /\ timer = t /\ ~handoff /\ inflight = None /\ w # None
      /\ task[t].pc \notin Working
      /\ \A u \in Tasks : task[u].work # w
  <2>1. \A u \in Tasks : task[u].work # None => task[u].work # resumable
    BY <1>1, SleeperMay DEF IInv
  <2>2. w # None
    BY <1>1, <1>2
  <2> QED
    BY <1>1, <1>2, <2>1, <2>2, SleeperMay DEF IInv, Sleeps, Working
<1>4. /\ Active(w) /\ WorkFine(w) /\ settled \subseteq collected
      /\ collected \subseteq Messages /\ collected \ settled = Held
  BY <1>2 DEF Active, IInv, Books, Mine, TypeOK, Accounted
<1>5. /\ resumable' = None
      /\ UNCHANGED <<collected, batch, work, posts>>
  BY DEF Resume
<1>6. CASE work[w].next < work[w].replies
  <2>1. /\ Begins(t, "pause", w) /\ inflight' = w
        /\ UNCHANGED <<timer, remembered, settled>>
    BY <1>2, <1>6 DEF Resume, Begins
  <2>2. /\ Tasking' /\ task' \in [Tasks -> TaskType]
        /\ \A u \in Tasks : Current(u)' => u = t \/ (Current(u) /\ task'[u] = task[u])
        /\ task'[t].pc = "pause" /\ task'[t].work = w
    <3>1. "pause" \in Working
      BY DEF Working
    <3>2. /\ TypeOK /\ Tasking /\ timer' = timer /\ handoff' = handoff
          /\ generation' = generation /\ speakerCfg' = speakerCfg
          /\ inflight' = w /\ resumable' = None
      BY <1>1, <1>5, <2>1 DEF IInv, SpeakerFrame
    <3> QED
      BY <1>1, <1>3, <2>1, <3>1, <3>2, StartTasking
  <2>3. ASSUME NEW v \in Works, Active(v)' PROVE Active(v)
    <3>1. CASE v = w
      BY <1>4, <3>1
    <3>2. CASE v # w
      <4>1. v \notin {resumable', inflight'}
        BY <1>5, <2>1, <3>2, TypesOf DEF IInv
      <4>2. PICK u \in Tasks : Current(u)' /\ task'[u].work = v
        BY <2>3, <4>1 DEF Active
      <4>3. Current(u) /\ task[u].work = v
        BY <2>2, <3>2, <4>2
      <4> QED
        BY <4>3 DEF Active
    <3> QED
      BY <3>1, <3>2
  <2>4. Books'
    BY <1>5, <2>1, <2>3, BooksShrink DEF IInv
  <2>5. Staged'
    <3>1. ASSUME NEW u \in Tasks, Current(u)' PROVE Stage(u)'
      <4>1. CASE u = t
        BY <1>5, <1>6, <2>2, <4>1 DEF Stage
      <4>2. CASE u # t
        <5>1. Stage(u) /\ task'[u] = task[u] /\ work' = work
          BY <1>5, <2>2, <3>1, <4>2 DEF IInv, Staged
        <5> QED
          BY <5>1 DEF Stage
      <4> QED
        BY <4>1, <4>2
    <3> QED
      BY <1>5, <3>1 DEF Staged
  <2>6. Accounted'
    <3>1. Held = ToSet(batch) \cup Said(w) /\ Held' = ToSet(batch) \cup Said(w)
      BY <1>2, <1>3, <1>5, <2>1, HeldIs DEF Of, Said
    <3> QED
      BY <1>4, <1>5, <2>1, <3>1 DEF Accounted
  <2>7. TypeOK'
    BY <1>1, <1>4, <1>5, <2>1, <2>2, TypesStep DEF IInv, TypeOK
  <2> QED
    BY <1>1, <2>2, <2>4, <2>5, <2>6, <2>7, PhasesStep DEF IInv
<1>7. CASE ~(work[w].next < work[w].replies)
  <2>1. /\ inflight' = None /\ EndTask(t, batch # <<>>)
        /\ remembered' = Append(remembered, work[w].batch)
        /\ settled' = settled \cup Said(w)
    BY <1>2, <1>7 DEF Resume, Said
  <2>2. /\ Tasking' /\ Staged'
        /\ task' \in [Tasks -> TaskType] /\ timer' \in Tasks \cup {None}
        /\ \A u \in Tasks : Current(u)' => u # t /\ Current(u) /\ task'[u] = task[u]
        /\ \A v \in Works : Active(v)' => Active(v)
    <3>1. (batch # <<>>) \in BOOLEAN
      OBVIOUS
    <3> QED
      BY <1>1, <1>3, <1>5, <2>1, <3>1, EndStep DEF IInv
  <2>3. ~Active(w)'
    BY <1>3, <1>5, <2>1, <2>2 DEF Active
  <2>4. Books' /\ remembered' \in Seq(Seq(Messages))
    BY <1>4, <1>5, <2>1, <2>2, <2>3, RememberBooks DEF IInv
  <2>5. Accounted' /\ settled' \subseteq collected'
    <3>1. Held = ToSet(batch) \cup Said(w) /\ Held' = ToSet(batch)
      BY <1>2, <1>3, <1>5, <2>1, HeldIs DEF Of, Said
    <3> QED
      BY <1>4, <1>5, <2>1, <3>1 DEF Accounted, WorkFine
  <2>6. TypeOK'
    BY <1>1, <1>4, <1>5, <2>1, <2>2, <2>4, <2>5, TypesStep DEF IInv, TypeOK
  <2> QED
    BY <1>1, <2>2, <2>4, <2>5, <2>6, PhasesStep DEF IInv
<1> QED
  BY <1>6, <1>7

-----------------------------------------------------------------------------
(* Intake and /reset.                                                      *)

\* A message more, and perhaps one that max_batch_messages leaves out.
LEMMA ObserveKeeps ==
    ASSUME IInv, UNCHANGED reloadVars, NEW m \in Messages, Observe(m)
    PROVE  IInv'
<1>1. SpeakerFrame
  BY DEF Observe, SpeakerFrame
<1>2. PICK n \in Nat : collected = 1 .. n
  BY DEF IInv, Books, Mine
<1>3. m = n + 1
  <2>1. Cardinality(collected) = n
    BY <1>2, FS_Interval
  <2> QED
    BY <2>1 DEF Observe
<1>4. collected' = 1 .. n + 1 /\ collected' = collected \cup {m} /\ m \notin collected
  BY <1>2, <1>3 DEF Observe
<1> DEFINE more == Append(batch, m)
<1>5. /\ batch' = Bounded(more) /\ settled' = settled \cup Overflow(more)
      /\ UNCHANGED <<resumable, inflight, work, posts, remembered>>
  BY DEF Observe
<1>6. /\ more \in Seq(Messages) /\ ToSet(more) = ToSet(batch) \cup {m}
      /\ Len(more) = Len(batch) + 1 /\ Len(batch) \in Nat
  BY AppendAdds, TypesOf, OfMessages DEF IInv
<1> HIDE DEF more
<1>7. /\ batch' \in Seq(Messages) /\ Len(batch') =< MaxBatch
      /\ ToSet(more) = ToSet(batch') \cup Overflow(more)
      /\ ToSet(batch') \cap Overflow(more) = {}
      /\ batch' # <<>>
  <2>1. more # <<>>
    BY <1>6
  <2> QED
    BY <1>5, <1>6, <2>1, BoundedKeeps
<1>8. /\ settled \subseteq collected /\ collected \ settled = Held
      /\ collected' \subseteq Messages /\ ToSet(batch) \subseteq collected
      /\ \A w \in Works : Active(w) => WorkFine(w)
      /\ \A v, w \in Works : Apart(v, w)
      /\ TimerFine
  BY <1>4 DEF IInv, TypeOK, Accounted, Books, Mine, Tasking
<1>9. /\ Tasking' /\ task' \in [Tasks -> TaskType] /\ timer' \in Tasks \cup {None}
      /\ \A u \in Tasks : Current(u)' => Current(u) /\ task'[u] = task[u]
  <2>1. CASE ~handoff /\ timer = None
    <3>1. inflight = None /\ resumable = None
      BY <1>8, <2>1 DEF TimerFine
    <3>2. /\ generation' = generation /\ handoff' = FALSE /\ speakerCfg' \in Eligible
          /\ inflight' = None /\ resumable' = None /\ generation \in Nat
          /\ ScheduleFlush(generation')
      BY <1>1, <1>5, <2>1, <3>1, TypesOf DEF Observe, SpeakerFrame, IInv
    <3>3. generation' \in Nat /\ generation' >= generation /\ TypeOK /\ Tasking
      BY <3>2 DEF IInv
    <3>4. handoff \/ (generation' = generation /\ timer = None)
      BY <2>1, <3>2
    <3>5. /\ ScheduleFlush(generation') /\ speakerCfg' \in Eligible
          /\ batch' # <<>> \/ resumable' # None
      BY <1>7, <3>2
    <3> QED
      BY <3>2, <3>3, <3>4, <3>5, NewTasking
  <2>2. CASE handoff \/ timer # None
    <3>1. /\ task' = task /\ timer' = timer /\ inflight' = inflight
          /\ resumable' = resumable
          /\ handoff' = handoff /\ generation' = generation /\ speakerCfg' = speakerCfg
      BY <1>1, <1>5, <2>2 DEF Observe, SpeakerFrame
    <3>2. ASSUME NEW u \in Tasks
          PROVE  TaskFine(u)' /\ (Current(u)' => Current(u) /\ task'[u] = task[u])
      <4>1. TaskFine(u)
        BY DEF IInv, Tasking
      <4> QED
        BY <3>1, <4>1 DEF TaskFine, Sleeps, Current
    <3>3. ASSUME NEW u \in Tasks, NEW v \in Tasks PROVE OwnWork(u, v)'
      <4>1. OwnWork(u, v)
        BY DEF IInv, Tasking
      <4> QED
        BY <3>1, <4>1 DEF OwnWork, Current
    <3>4. TimerFine'
      BY <1>7, <1>8, <3>1 DEF TimerFine
    <3> QED
      BY <3>1, <3>2, <3>3, <3>4, TypesOf DEF IInv, Tasking
  <2> QED
    BY <2>1, <2>2
<1>10. Staged' /\ \A w \in Works : Active(w)' => Active(w)
  BY <1>5, <1>9, Fewer DEF IInv
<1>11. Books'
  <2>1. \A x \in ToSet(batch') : Pends(x)
    BY <1>4, <1>6, <1>7 DEF Pends
  <2>2. ASSUME NEW w \in Works, Active(w)'
        PROVE  Inherits(w) /\ ToSet(work'[w].batch) \cap ToSet(batch') = {}
    <3>1. Active(w) /\ WorkFine(w) /\ work'[w] = work[w]
      BY <1>5, <1>8, <1>10, <2>2
    <3> QED
      BY <1>4, <1>6, <1>7, <3>1 DEF Inherits, WorkFine, Said
  <2>3. ASSUME NEW v \in Works, NEW w \in Works PROVE Apart(v, w)'
    <3>1. /\ Apart(v, w) /\ (Active(v)' => Active(v)) /\ (Active(w)' => Active(w))
          /\ Said(v)' = Said(v) /\ Said(w)' = Said(w)
      BY <1>5, <1>8, <1>10 DEF Said
    <3> QED
      BY <3>1 DEF Apart
  <2>4. n + 1 \in Nat /\ collected' = 1 .. n + 1 /\ collected \subseteq collected'
    BY <1>4
  <2>5. ToSet(batch') \subseteq collected'
    BY <1>4, <1>6, <1>7, <1>8
  <2> QED
    BY <1>5, <2>1, <2>2, <2>3, <2>4, <2>5, BooksStep DEF IInv
<1>12. Accounted' /\ settled' \subseteq collected'
  <2> DEFINE works == Of(resumable) \cup Of(inflight)
  <2>1. /\ Of(resumable)' = Of(resumable) /\ Of(inflight)' = Of(inflight)
    BY <1>5 DEF Of, Said
  <2>2. works \cap ToSet(batch) = {} /\ works \subseteq collected
    <3>1. ASSUME NEW w \in {resumable, inflight}
          PROVE  Of(w) \cap ToSet(batch) = {} /\ Of(w) \subseteq collected
      <4>1. CASE w = None
        BY <4>1 DEF Of
      <4>2. CASE w # None
        <5>1. w \in Works /\ Active(w)
          BY <4>2, TypesOf DEF Active, IInv
        <5> QED
          BY <1>8, <4>2, <5>1 DEF WorkFine, Of
      <4> QED
        BY <4>1, <4>2
    <3> QED
      BY <3>1
  <2>3. PICK both : both = Of(resumable) \cup Of(inflight)
    OBVIOUS
  <2>4. /\ Held = ToSet(batch) \cup both /\ Held' = ToSet(batch') \cup both
        /\ both \cap ToSet(batch) = {} /\ both \subseteq collected
    BY <2>1, <2>2, <2>3, HeldIs
  <2>5. collected' \ settled' = Held'
    BY <1>4, <1>5, <1>6, <1>7, <1>8, <2>4
  <2>6. settled' \subseteq collected'
    BY <1>4, <1>5, <1>6, <1>7, <1>8
  <2> QED
    BY <2>5, <2>6 DEF Accounted
<1>13. TypeOK'
  BY <1>1, <1>5, <1>7, <1>8, <1>9, <1>12, TypesStep DEF IInv, TypeOK
<1> QED
  BY <1>1, <1>9, <1>10, <1>11, <1>12, <1>13, PhasesStep DEF IInv

LEMMA ResetKeeps ==
    ASSUME IInv, Reset
    PROVE  IInv'
<1>1. /\ settled' = settled \cup Held /\ batch' = <<>>
      /\ resumable' = None /\ inflight' = None /\ timer' = None /\ task' = Told
      /\ UNCHANGED <<speakerCfg, generation, handoff, collected, work, posts, remembered,
                     file, app, scheduler, memory, reload, reloads>>
      /\ changes' = changes + 1
  BY DEF Reset, ResetChat
<1>2. task' \in [Tasks -> TaskType]
  BY <1>1, ToldTasks DEF IInv
<1>3. /\ Tasking'
      /\ \A u \in Tasks : Current(u)' =>
             /\ Current(u) /\ task'[u].work = task[u].work
             /\ task'[u].pc = task[u].pc
  BY <1>1, <1>2, StopTasking DEF IInv
<1>4. Staged' /\ \A w \in Works : Active(w)' => Active(w)
  BY <1>1, <1>3, Fewer DEF IInv
<1>5. ToSet(batch') = {}
  BY <1>1 DEF ToSet
<1>6. Books'
  BY <1>1, <1>4, <1>5, BooksShrink DEF IInv
<1>7. Held' = {} /\ settled \subseteq collected /\ collected \ settled = Held
  BY <1>1, <1>5, HeldIs DEF Of, IInv, TypeOK, Accounted
<1>8. Accounted' /\ settled' \subseteq collected'
  BY <1>1, <1>7 DEF Accounted
<1>9. Phases'
  BY <1>1 DEF IInv, Phases
<1>10. TypeOK'
  <2>1. batch' \in Seq(Messages) /\ Len(batch') =< MaxBatch /\ changes' \in Nat
    BY <1>1, SpeakerAssumption DEF IInv, TypeOK
  <2> QED
    BY <1>1, <1>2, <1>8, <2>1 DEF IInv, TypeOK, Config, TaskType, WorkType
<1> QED
  BY <1>3, <1>4, <1>6, <1>8, <1>9, <1>10 DEF IInv

-----------------------------------------------------------------------------
(* The handoff.                                                            *)

\* During a handoff nobody is current, so only what the speaker itself has in
\* the works counts.
LEMMA NobodyCurrent ==
    ASSUME IInv, handoff
    PROVE  \A u \in Tasks : ~Current(u)
<1>1. ASSUME NEW u \in Tasks, Current(u) PROVE FALSE
  <2>1. TaskFine(u) /\ task[u].generation \in Nat /\ generation \in Nat
    BY TypesOf DEF IInv, Tasking
  <2> QED
    BY <1>1, <2>1 DEF TaskFine, Current, Working
<1> QED
  BY <1>1

\* _take_uncommitted_work takes every message that is held, once: as pending,
\* or with the replies that are left.
LEMMA TakenIsHeld ==
    ASSUME IInv
    PROVE  /\ TakenPending \in Seq(Messages)
           /\ ToSet(TakenPending) \cup Of(TakenResumable) = Held
           /\ ToSet(TakenPending) \cap Of(TakenResumable) = {}
           /\ TakenResumable # None =>
                  /\ TakenResumable \in Works /\ Active(TakenResumable)
                  /\ work[TakenResumable].replies # 0
           /\ \A x \in ToSet(TakenPending) : Pends(x)
<1>1. /\ resumable \in Works \cup {None} /\ inflight \in Works \cup {None}
      /\ None \notin Works /\ batch \in Seq(Messages)
  BY TypesOf DEF IInv
<1>2. /\ resumable = None \/ inflight = None
      /\ resumable # None => work[resumable].replies # 0
      /\ resumable # None => Active(resumable)
      /\ inflight # None => Active(inflight)
      /\ \A w \in Works : Active(w) => WorkFine(w)
  BY <1>1 DEF IInv, Tasking, TimerFine, Staged, Active, Books, Mine
<1>3. ASSUME NEW w \in {resumable, inflight}
      PROVE  /\ Source(w) \in Seq(Messages)
             /\ ToSet(Source(w)) =
                    IF w # None /\ work[w].replies = 0 THEN Said(w) ELSE {}
  <2>1. CASE w # None /\ work[w].replies = 0
    <3>1. w \in Works
      BY <1>1, <2>1
    <3> QED
      BY <2>1, <3>1, TypesOf DEF Source, Said, IInv
  <2>2. CASE ~(w # None /\ work[w].replies = 0)
    <3>1. Source(w) = <<>>
      BY <2>2 DEF Source
    <3>2. <<>> \in Seq(Messages) /\ ToSet(<<>>) = {}
      BY DEF ToSet
    <3> QED
      BY <2>2, <3>1, <3>2
  <2> QED
    BY <2>1, <2>2
<1>4. PICK s \in Seq(Messages) : s = Source(inflight) \o Source(resumable)
  BY <1>3, ConcatUnites
<1>5. ToSet(s) = ToSet(Source(inflight)) \cup ToSet(Source(resumable))
  BY <1>3, <1>4, ConcatUnites
<1>6. TakenPending = s \o batch
  BY <1>4 DEF TakenPending
<1>7. /\ TakenPending \in Seq(Messages)
      /\ ToSet(TakenPending) =
             ToSet(Source(inflight)) \cup ToSet(Source(resumable)) \cup ToSet(batch)
  BY <1>1, <1>5, <1>6, ConcatUnites
<1>8. CASE inflight = None /\ resumable = None
  <2>1. TakenResumable = None
    BY <1>8 DEF TakenResumable
  <2>2. ToSet(TakenPending) = ToSet(batch)
    BY <1>3, <1>7, <1>8
  <2> QED
    BY <1>7, <1>8, <2>1, <2>2, HeldIs DEF Of, Pends
<1>9. CASE resumable # None
  <2>1. inflight = None /\ work[resumable].replies # 0
    BY <1>2, <1>9
  <2>2. TakenResumable = resumable
    BY <1>9, <2>1 DEF TakenResumable
  <2>3. ToSet(TakenPending) = ToSet(batch)
    BY <1>3, <1>7, <2>1
  <2>4. Of(TakenResumable) = Said(resumable) /\ WorkFine(resumable)
    BY <1>1, <1>2, <1>9, <2>2 DEF Of
  <2> QED
    BY <1>1, <1>2, <1>7, <1>9, <2>1, <2>2, <2>3, <2>4, HeldIs DEF Of, Pends, WorkFine
<1>10. CASE inflight # None /\ work[inflight].replies # 0
  <2>1. resumable = None
    BY <1>2, <1>10
  <2>2. TakenResumable = inflight
    BY <1>10, <2>1 DEF TakenResumable
  <2>3. ToSet(TakenPending) = ToSet(batch)
    BY <1>3, <1>7, <1>10, <2>1
  <2>4. Of(TakenResumable) = Said(inflight) /\ WorkFine(inflight)
    BY <1>1, <1>2, <1>10, <2>2 DEF Of
  <2> QED
    BY <1>1, <1>2, <1>7, <1>10, <2>1, <2>2, <2>3, <2>4, HeldIs DEF Of, Pends, WorkFine
<1>11. CASE inflight # None /\ work[inflight].replies = 0
  <2>1. resumable = None
    BY <1>2, <1>11
  <2>2. TakenResumable = None
    BY <1>11, <2>1 DEF TakenResumable
  <2>3. ToSet(TakenPending) = ToSet(batch) \cup Said(inflight)
    BY <1>3, <1>7, <1>11, <2>1
  <2>4. Held = ToSet(batch) \cup Said(inflight)
    BY <1>11, <2>1, HeldIs DEF Of
  <2>5. inflight \in Works /\ Active(inflight)
    BY <1>1, <1>2, <1>11
  <2> QED
    BY <1>7, <1>11, <2>2, <2>3, <2>4, <2>5 DEF Of, Pends
<1> QED
  BY <1>8, <1>9, <1>10, <1>11

\* The next speaker, or the old one again, takes everything over.
LEMMA AcceptKeeps ==
    ASSUME IInv, handoff, NEW cfg, NEW g \in Nat, g >= generation, Accept(cfg, g),
           handoff' = FALSE, generation' = g, speakerCfg' = cfg,
           UNCHANGED <<collected, posts, remembered>>
    PROVE  /\ Tasking' /\ Staged' /\ Books' /\ Accounted' /\ settled' \subseteq collected'
           /\ batch' \in Seq(Messages) /\ Len(batch') =< MaxBatch
           /\ resumable' \in Works \cup {None} /\ inflight' = None
           /\ timer' \in Tasks \cup {None} /\ task' \in [Tasks -> TaskType]
           /\ work' \in [Works -> WorkType]
<1>1. /\ settled \subseteq collected /\ collected \ settled = Held
      /\ \A u \in Tasks : ~Current(u)
      /\ None \notin Works /\ inflight' = None
      /\ work \in [Works -> WorkType]
  BY NobodyCurrent, TypesOf DEF IInv, TypeOK, Accounted, Accept
<1>2. PICK n \in Nat : collected = 1 .. n
  BY DEF IInv, Books, Mine
<1>3. CASE cfg \notin Eligible
  <2>1. /\ batch' = <<>> /\ resumable' = None /\ timer' = None
        /\ settled' = settled \cup Held /\ task' = task /\ work' = work
    BY <1>3 DEF Accept
  <2>2. /\ Tasking' /\ task' \in [Tasks -> TaskType] /\ timer' \in Tasks \cup {None}
        /\ \A u \in Tasks : Current(u)' => Current(u) /\ task'[u] = task[u]
    <3>1. generation' \in Nat /\ generation' >= generation /\ TypeOK /\ Tasking
      BY DEF IInv
    <3> QED
      BY <1>1, <2>1, <3>1, NewTasking
  <2>3. Staged' /\ \A w \in Works : Active(w)' => Active(w)
    BY <1>1, <2>1, <2>2, Fewer DEF IInv
  <2>4. ToSet(batch') = {} /\ batch' \in Seq(Messages) /\ Len(batch') =< MaxBatch
    BY <2>1, SpeakerAssumption DEF ToSet
  <2>5. Books'
    BY <2>1, <2>3, <2>4, BooksShrink DEF IInv
  <2>6. Held' = {}
    BY <1>1, <2>1, <2>4, HeldIs DEF Of
  <2>7. Accounted' /\ settled' \subseteq collected'
    BY <1>1, <2>1, <2>6 DEF Accounted
  <2> QED
    BY <1>1, <2>1, <2>2, <2>3, <2>4, <2>5, <2>7
<1>4. CASE cfg \in Eligible
  <2>1. PICK p \in Seq(Messages) : p = TakenPending
    BY TakenIsHeld
  <2>2. PICK d : d = TakenResumable
    OBVIOUS
  <2>3. /\ ToSet(p) \cup Of(d) = Held /\ ToSet(p) \cap Of(d) = {}
        /\ d # None => d \in Works /\ Active(d) /\ work[d].replies # 0
        /\ \A x \in ToSet(p) : Pends(x)
    BY <2>1, <2>2, TakenIsHeld
  <2>4. /\ batch' = Bounded(p) /\ settled' = settled \cup Overflow(p)
        /\ d = None => resumable' = None /\ work' = work
        /\ d # None => /\ IdleWorks # {} /\ resumable' = FreshWork
                       /\ work' = [work EXCEPT ![FreshWork] = work[d]]
        /\ p # <<>> \/ d # None => ScheduleFlush(g)
        /\ ~(p # <<>> \/ d # None) => timer' = None /\ task' = task
    BY <1>4, <2>1, <2>2 DEF Accept
  <2>5. /\ batch' \in Seq(Messages) /\ Len(batch') =< MaxBatch
        /\ ToSet(p) = ToSet(batch') \cup Overflow(p)
        /\ ToSet(batch') \cap Overflow(p) = {}
        /\ p # <<>> => batch' # <<>>
    BY <2>4, BoundedKeeps
  <2>6. /\ d # None => /\ resumable' \in Works /\ resumable' # None
                       /\ work'[resumable'] = work[d]
                       /\ \A u \in Tasks : task[u].work # resumable'
        /\ work' \in [Works -> WorkType]
        /\ resumable' \in Works \cup {None}
    <3>1. CASE d = None
      BY <1>1, <2>4, <3>1
    <3>2. CASE d # None
      <4>1. /\ FreshWork \in Works /\ FreshWork # None
            /\ \A u \in Tasks : task[u].work # FreshWork
        BY <2>4, <3>2, FreshIsIdle DEF IInv
      <4> QED
        BY <1>1, <2>3, <2>4, <3>2, <4>1
    <3> QED
      BY <3>1, <3>2
  <2>7. /\ Tasking' /\ task' \in [Tasks -> TaskType] /\ timer' \in Tasks \cup {None}
        /\ \A u \in Tasks : Current(u)' => Current(u) /\ task'[u] = task[u]
    <3>1. generation' \in Nat /\ generation' >= generation /\ TypeOK /\ Tasking
      BY DEF IInv
    <3>2. resumable' = None \/ \A u \in Tasks : task[u].work # resumable'
      BY <2>4, <2>6
    <3>3. \/ /\ ScheduleFlush(generation') /\ speakerCfg' \in Eligible
             /\ batch' # <<>> \/ resumable' # None
          \/ /\ timer' = None /\ task' = task /\ resumable' = None
      BY <1>4, <2>4, <2>5, <2>6
    <3> QED
      BY <1>1, <3>1, <3>2, <3>3, NewTasking
  <2>8. \A u \in Tasks : ~Current(u)'
    BY <1>1, <2>7
  <2>9. Staged'
    BY <2>3, <2>4, <2>6, <2>8 DEF Staged
  <2>10. \A w \in Works : Active(w)' => d # None /\ w = resumable'
    BY <1>1, <2>4, <2>8 DEF Active
  <2>11. /\ ToSet(p) \subseteq collected
         /\ d # None => Of(d) = Said(d)
    BY <1>1, <2>3 DEF Of
  <2>12. Books'
    <3>1. ASSUME NEW w \in Works, Active(w)'
          PROVE  Inherits(w) /\ ToSet(work'[w].batch) \cap ToSet(batch') = {}
      <4>1. d # None /\ work'[w] = work[d] /\ d \in Works /\ Active(d)
        BY <2>3, <2>6, <2>10, <3>1
      <4>2. ToSet(work'[w].batch) = Said(d)
        BY <4>1 DEF Said
      <4> QED
        BY <2>3, <2>5, <2>11, <4>1, <4>2 DEF Inherits
    <3>2. \A v, w \in Works : Apart(v, w)'
      BY <2>10 DEF Apart
    <3>3. /\ \A x \in ToSet(batch') : Pends(x)
          /\ ToSet(batch') \subseteq collected'
          /\ collected' = 1 .. n /\ collected \subseteq collected'
      BY <1>2, <2>3, <2>5, <2>11
    <3> QED
      BY <3>1, <3>2, <3>3, BooksStep DEF IInv
  <2>13. Held' = ToSet(batch') \cup Of(d)
    <3>1. Of(inflight)' = {}
      BY <1>1 DEF Of
    <3>2. Of(resumable)' = Of(d)
      <4>1. CASE d = None
        BY <2>4, <4>1 DEF Of
      <4>2. CASE d # None
        BY <2>6, <4>2 DEF Of, Said
      <4> QED
        BY <4>1, <4>2
    <3> QED
      BY <3>1, <3>2, HeldIs
  <2>14. PICK rest : rest = Of(d)
    OBVIOUS
  <2>15. /\ collected \ settled = ToSet(p) \cup rest /\ ToSet(p) \cap rest = {}
         /\ Held' = ToSet(batch') \cup rest
    BY <1>1, <2>3, <2>13, <2>14
  <2>16. Accounted' /\ settled' \subseteq collected'
    <3>1. collected' \ settled' = Held'
      BY <1>1, <2>4, <2>5, <2>15
    <3>2. settled' \subseteq collected'
      BY <1>1, <2>4, <2>5, <2>11
    <3> QED
      BY <3>1, <3>2 DEF Accounted
  <2> QED
    BY <1>1, <2>5, <2>6, <2>7, <2>9, <2>12, <2>16
<1> QED
  BY <1>3, <1>4

-----------------------------------------------------------------------------
(* The steps of a reload, and of commands.                                 *)

\* What the speaker's part of the invariant needs when nothing of it changes.
LEMMA SpeakerSame ==
    ASSUME IInv, UNCHANGED speakerVars
    PROVE  Tasking' /\ Staged' /\ Books' /\ Accounted'
<1>1. UNCHANGED <<speakerCfg, generation, handoff, collected, batch, resumable,
                  inflight, timer, task, work, posts, remembered, settled>>
  BY DEF speakerVars
<1>2. ASSUME NEW u \in Tasks
      PROVE  /\ TaskFine(u)'
             /\ Current(u)' => /\ Current(u) /\ task'[u].work = task[u].work
                               /\ task'[u].pc = task[u].pc
  <2>1. TaskFine(u)
    BY DEF IInv, Tasking
  <2> QED
    BY <1>1, <2>1 DEF TaskFine, Sleeps, Current
<1>3. ASSUME NEW u \in Tasks, NEW v \in Tasks PROVE OwnWork(u, v)'
  <2>1. OwnWork(u, v)
    BY DEF IInv, Tasking
  <2> QED
    BY <1>1, <2>1 DEF OwnWork, Current
<1>4. TimerFine'
  BY <1>1 DEF IInv, Tasking, TimerFine
<1>5. Tasking'
  BY <1>2, <1>3, <1>4 DEF Tasking
<1>6. Staged' /\ \A w \in Works : Active(w)' => Active(w)
  BY <1>1, <1>2, Fewer DEF IInv
<1>7. Books'
  BY <1>1, <1>6, BooksShrink DEF IInv
<1>8. Accounted'
  BY <1>1, AccountedStays DEF Said
<1> QED
  BY <1>5, <1>6, <1>7, <1>8

\* And when the timer is only told to stop, in a handoff that has begun or
\* begins.
LEMMA SpeakerStops ==
    ASSUME IInv, task' = Told \/ (task' = task /\ handoff),
           handoff' = TRUE, generation' = IF handoff THEN generation ELSE generation + 1,
           timer' \in {timer, None},
           UNCHANGED <<speakerCfg, collected, batch, resumable, inflight, work, posts,
                       remembered, settled>>
    PROVE  /\ Tasking' /\ Staged' /\ Books' /\ Accounted'
           /\ task' \in [Tasks -> TaskType] /\ timer' \in Tasks \cup {None}
<1>1. task' \in [Tasks -> TaskType] /\ timer' \in Tasks \cup {None}
  BY ToldTasks, TypesOf DEF IInv
<1>2. /\ Tasking'
      /\ \A u \in Tasks : Current(u)' =>
             /\ Current(u) /\ task'[u].work = task[u].work
             /\ task'[u].pc = task[u].pc
  BY <1>1, StopTasking DEF IInv
<1>3. Staged' /\ \A w \in Works : Active(w)' => Active(w)
  BY <1>2, Fewer DEF IInv
<1>4. Books'
  BY <1>3, BooksShrink DEF IInv
<1>5. Accounted'
  BY AccountedStays DEF Said
<1> QED
  BY <1>1, <1>2, <1>3, <1>4, <1>5

\* The types of what is left when the speaker's variables are typed.
SpeakerType ==
    /\ speakerCfg \in Configs /\ generation \in Nat /\ handoff \in BOOLEAN
    /\ collected \subseteq Messages /\ settled \subseteq collected
    /\ batch \in Seq(Messages) /\ Len(batch) =< MaxBatch
    /\ {resumable, inflight} \subseteq Works \cup {None}
    /\ timer \in Tasks \cup {None}
    /\ task \in [Tasks -> TaskType] /\ work \in [Works -> WorkType]
    /\ posts \in Seq(Seq(Messages) \X (0 .. MaxReplies - 1))
    /\ remembered \in Seq(Seq(Messages))
ReloadType ==
    /\ file \in Config /\ app \in Config
    /\ scheduler \in Configs /\ memory \in Configs
    /\ reload.pc \in {"idle", "scheduler", "drain", "memory", "rollback", "restore"}
    /\ reload.cfg \in Config /\ reload = [pc |-> reload.pc, cfg |-> reload.cfg]
    /\ reloads \in Nat /\ changes \in Nat

LEMMA TypeParts ==
    /\ TypeOK <=> SpeakerType /\ ReloadType
    /\ TypeOK' <=> SpeakerType' /\ ReloadType'
<1> DEFINE P == {"idle", "scheduler", "drain", "memory", "rollback", "restore"}
<1>1. ASSUME NEW r
      PROVE  r \in [pc : P, cfg : Config] <=>
                 r.pc \in P /\ r.cfg \in Config /\ r = [pc |-> r.pc, cfg |-> r.cfg]
  OBVIOUS
<1>2. TypeOK <=> SpeakerType /\ ReloadType
  BY <1>1 DEF TypeOK, SpeakerType, ReloadType
<1>3. TypeOK' <=> SpeakerType' /\ ReloadType'
  BY <1>1 DEF TypeOK, SpeakerType, ReloadType, TaskType, WorkType, Config
<1> QED
  BY <1>2, <1>3

LEMMA EditFileKeeps ==
    ASSUME IInv, NEW c \in Configs, EditFile(c)
    PROVE  IInv'
<1>1. /\ file' = [file EXCEPT !.rest = c] /\ changes' = changes + 1
      /\ UNCHANGED <<app, scheduler, memory, reload, reloads>>
      /\ UNCHANGED speakerVars
  BY DEF EditFile
<1>2. SpeakerType /\ ReloadType
  BY TypeParts DEF IInv
<1>3. SpeakerType'
  BY <1>1, <1>2 DEF SpeakerType, speakerVars
<1>4. ReloadType'
  BY <1>1, <1>2 DEF ReloadType, Config
<1>5. Phases'
  BY <1>1 DEF IInv, Phases, speakerVars
<1> QED
  BY <1>1, <1>3, <1>4, <1>5, TypeParts, SpeakerSame DEF IInv

LEMMA SetOverrideKeeps ==
    ASSUME IInv, NEW o \in Overrides, SetOverride(o)
    PROVE  IInv'
<1>1. /\ app' = [app EXCEPT !.override = o] /\ file' = [file EXCEPT !.override = o]
      /\ changes' = changes + 1
      /\ UNCHANGED <<scheduler, memory, reload, reloads>>
      /\ UNCHANGED speakerVars
  BY DEF SetOverride
<1>2. SpeakerType /\ ReloadType
  BY TypeParts DEF IInv
<1>3. SpeakerType'
  BY <1>1, <1>2 DEF SpeakerType, speakerVars
<1>4. ReloadType' /\ app'.rest = app.rest
  BY <1>1, <1>2 DEF ReloadType, Config
<1>5. Phases'
  BY <1>1, <1>4 DEF IInv, Phases, speakerVars
<1> QED
  BY <1>1, <1>3, <1>4, <1>5, TypeParts, SpeakerSame DEF IInv

LEMMA BeginReloadKeeps ==
    ASSUME IInv, BeginReload
    PROVE  IInv'
<1>1. /\ reload.pc = "idle" /\ reload' = [pc |-> "scheduler", cfg |-> file]
      /\ scheduler' = file.rest /\ reloads' = reloads + 1
      /\ handoff' = TRUE /\ generation' = generation + 1 /\ task' = Told
      /\ UNCHANGED <<speakerCfg, collected, batch, resumable, inflight, timer, work,
                     posts, remembered, settled, file, app, memory, changes>>
  BY DEF BeginReload, BeginHandoff, At
<1>2. SpeakerType /\ ReloadType /\ Phases
  BY TypeParts DEF IInv
<1>3. ~handoff
  BY <1>1, <1>2 DEF Phases
<1>4. /\ Tasking' /\ Staged' /\ Books' /\ Accounted'
      /\ task' \in [Tasks -> TaskType] /\ timer' \in Tasks \cup {None}
  BY <1>1, <1>3, SpeakerStops
<1>5. SpeakerType'
  BY <1>1, <1>2, <1>4 DEF SpeakerType
<1>6. ReloadType' /\ reload'.pc = "scheduler" /\ reload'.cfg = file
  BY <1>1, <1>2 DEF ReloadType, Config
<1>7. Phases'
  BY <1>1, <1>2, <1>6 DEF Phases
<1> QED
  BY <1>4, <1>5, <1>6, <1>7, TypeParts DEF IInv

\* The phases of a reload that leave the speaker's work alone.
LEMMA StopsKeep ==
    ASSUME IInv, SchedulerMoved \/ SchedulerFails \/ Drained
    PROVE  IInv'
<1>1. /\ reload.pc \in {"scheduler", "drain"}
      /\ reload' = [reload EXCEPT !.pc = reload'.pc]
      /\ reload'.pc \in {"drain", "rollback", "memory"}
      /\ reload.pc = "drain" => reload'.pc = "memory"
      /\ task' = Told \/ task' = task
      /\ timer' \in {timer, None}
      /\ UNCHANGED <<speakerCfg, generation, handoff, collected, batch, resumable,
                     inflight, work, posts, remembered, settled,
                     file, app, scheduler, memory, reloads, changes>>
  <2>1. ReloadType
    BY TypeParts DEF IInv
  <2>2. CASE SchedulerMoved
    BY <2>1, <2>2 DEF SchedulerMoved, At, Goes, ReloadType
  <2>3. CASE SchedulerFails
    BY <2>1, <2>3 DEF SchedulerFails, At, Goes, ReloadType
  <2>4. CASE Drained
    BY <2>1, <2>4 DEF Drained, At, Goes, ReloadType
  <2> QED
    BY <2>2, <2>3, <2>4
<1>2. SpeakerType /\ ReloadType /\ Phases
  BY TypeParts DEF IInv
<1>3. handoff /\ handoff' = TRUE
  BY <1>1, <1>2 DEF Phases, SpeakerType
<1>4. /\ Tasking' /\ Staged' /\ Books' /\ Accounted'
      /\ task' \in [Tasks -> TaskType] /\ timer' \in Tasks \cup {None}
  BY <1>1, <1>3, SpeakerStops
<1>5. SpeakerType'
  BY <1>1, <1>2, <1>4 DEF SpeakerType
<1>6. ReloadType' /\ reload'.cfg = reload.cfg
  <2>1. PICK pc \in {"drain", "rollback", "memory"} : pc = reload'.pc
    BY <1>1
  <2>2. reload' = [reload EXCEPT !.pc = pc]
    BY <1>1, <2>1
  <2>3. reload' = [pc |-> pc, cfg |-> reload.cfg]
    BY <1>2, <2>2 DEF ReloadType
  <2> QED
    BY <1>1, <1>2, <2>1, <2>3 DEF ReloadType, Config
<1>7. Phases'
  BY <1>1, <1>2, <1>3, <1>6 DEF Phases
<1> QED
  BY <1>4, <1>5, <1>6, <1>7, TypeParts DEF IInv

LEMMA MemoryFailsKeeps ==
    ASSUME IInv, MemoryFails
    PROVE  IInv'
<1>1. /\ reload.pc = "memory" /\ memory' = app.rest
      /\ reload' = [reload EXCEPT !.pc = "rollback"]
      /\ UNCHANGED <<file, app, scheduler, reloads, changes>>
      /\ UNCHANGED speakerVars
  BY DEF MemoryFails, At, Goes
<1>2. SpeakerType /\ ReloadType /\ Phases
  BY TypeParts DEF IInv
<1>3. SpeakerType'
  BY <1>1, <1>2 DEF SpeakerType, speakerVars
<1>4. ReloadType' /\ reload'.pc = "rollback" /\ reload'.cfg = reload.cfg
  <2>1. reload' = [pc |-> "rollback", cfg |-> reload.cfg]
    BY <1>1, <1>2 DEF ReloadType
  <2> QED
    BY <1>1, <1>2, <2>1 DEF ReloadType, Config
<1>5. Phases'
  BY <1>1, <1>2, <1>4 DEF Phases, speakerVars
<1> QED
  BY <1>1, <1>3, <1>4, <1>5, TypeParts, SpeakerSame DEF IInv

LEMMA RestoredKeeps ==
    ASSUME IInv, Restored
    PROVE  IInv'
<1>1. /\ reload.pc = "restore" /\ reload' = [pc |-> "idle", cfg |-> app]
      /\ UNCHANGED <<file, app, scheduler, memory, reloads, changes>>
      /\ UNCHANGED speakerVars
  BY DEF Restored, At, Idle
<1>2. SpeakerType /\ ReloadType /\ Phases
  BY TypeParts DEF IInv
<1>3. SpeakerType'
  BY <1>1, <1>2 DEF SpeakerType, speakerVars
<1>4. ReloadType' /\ reload'.pc = "idle"
  BY <1>1, <1>2 DEF ReloadType, Config
<1>5. Phases'
  BY <1>1, <1>2, <1>4 DEF Phases, speakerVars
<1> QED
  BY <1>1, <1>3, <1>4, <1>5, TypeParts, SpeakerSame DEF IInv

LEMMA CommitReloadKeeps ==
    ASSUME IInv, CommitReload
    PROVE  IInv'
<1>1. /\ reload.pc = "memory" /\ memory' = reload.cfg.rest /\ app' = reload.cfg
      /\ reload' = [pc |-> "idle", cfg |-> reload.cfg]
      /\ UNCHANGED <<collected, posts, remembered, file, scheduler, reloads, changes>>
      /\ Accept(reload.cfg.rest, generation + 1)
      /\ handoff' = FALSE /\ generation' = generation + 1
      /\ speakerCfg' = reload.cfg.rest
  BY DEF CommitReload, At, Adopted, CommitHandoff
<1>2. SpeakerType /\ ReloadType /\ Phases
  BY TypeParts DEF IInv
<1>3. handoff /\ generation + 1 \in Nat /\ generation + 1 >= generation
  BY <1>1, <1>2 DEF Phases, SpeakerType
<1>4. /\ Tasking' /\ Staged' /\ Books' /\ Accounted' /\ settled' \subseteq collected'
      /\ batch' \in Seq(Messages) /\ Len(batch') =< MaxBatch
      /\ resumable' \in Works \cup {None} /\ inflight' = None
      /\ timer' \in Tasks \cup {None} /\ task' \in [Tasks -> TaskType]
      /\ work' \in [Works -> WorkType]
  BY <1>1, <1>3, AcceptKeeps
<1>5. ReloadType' /\ reload'.pc = "idle" /\ reload.cfg.rest \in Configs
  BY <1>1, <1>2 DEF ReloadType, Config
<1>6. SpeakerType'
  BY <1>1, <1>2, <1>3, <1>4, <1>5 DEF SpeakerType
<1>7. Phases'
  BY <1>1, <1>2, <1>5 DEF Phases
<1> QED
  BY <1>4, <1>5, <1>6, <1>7, TypeParts DEF IInv

LEMMA RollbackReloadKeeps ==
    ASSUME IInv, RollbackReload
    PROVE  IInv'
<1>1. /\ reload.pc = "rollback" /\ scheduler' = app.rest
      /\ reload' = [reload EXCEPT !.pc = "restore"]
      /\ UNCHANGED <<collected, posts, remembered, file, app, memory, reloads, changes>>
      /\ Accept(speakerCfg, generation)
      /\ handoff' = FALSE /\ generation' = generation
      /\ speakerCfg' = speakerCfg
  BY DEF RollbackReload, At, Goes, RollbackHandoff
<1>2. SpeakerType /\ ReloadType /\ Phases
  BY TypeParts DEF IInv
<1>3. handoff /\ generation \in Nat /\ generation >= generation
  BY <1>1, <1>2 DEF Phases, SpeakerType
<1>4. /\ Tasking' /\ Staged' /\ Books' /\ Accounted' /\ settled' \subseteq collected'
      /\ batch' \in Seq(Messages) /\ Len(batch') =< MaxBatch
      /\ resumable' \in Works \cup {None} /\ inflight' = None
      /\ timer' \in Tasks \cup {None} /\ task' \in [Tasks -> TaskType]
      /\ work' \in [Works -> WorkType]
  BY <1>1, <1>3, AcceptKeeps
<1>5. ReloadType' /\ reload'.pc = "restore"
  <2>1. reload' = [pc |-> "restore", cfg |-> reload.cfg]
    BY <1>1, <1>2 DEF ReloadType
  <2> QED
    BY <1>1, <1>2, <2>1 DEF ReloadType, Config
<1>6. SpeakerType'
  BY <1>1, <1>2, <1>3, <1>4 DEF SpeakerType
<1>7. Phases'
  BY <1>1, <1>2, <1>5 DEF Phases
<1> QED
  BY <1>4, <1>5, <1>6, <1>7, TypeParts DEF IInv

-----------------------------------------------------------------------------
(* The theorems.                                                           *)

LEMMA InitHolds == Init => IInv
<1> SUFFICES ASSUME Init PROVE IInv
  OBVIOUS
<1>0. /\ Eligible \subseteq Configs /\ MaxBatch \in Nat /\ MaxReplies \in Nat
      /\ None \notin Tasks \cup Works
  BY SpeakerAssumption, ReloadAssumption
<1>1. /\ speakerCfg \in Eligible /\ generation = 0 /\ handoff = FALSE
      /\ collected = {} /\ batch = <<>>
      /\ resumable = None /\ inflight = None /\ timer = None
      /\ task = [t \in Tasks |-> NoTask] /\ work = [w \in Works |-> NoWork]
      /\ posts = <<>> /\ remembered = <<>> /\ settled = {}
  BY DEF Init, SpeakerInit
<1>2. /\ app \in Config /\ app.rest = speakerCfg /\ file = app
      /\ scheduler = app.rest /\ memory = app.rest
      /\ reload = [pc |-> "idle", cfg |-> app] /\ reloads = 0 /\ changes = 0
  BY <1>0, <1>1 DEF Init, Config
<1>3. NoTask \in TaskType /\ NoWork \in WorkType
  BY <1>0 DEF NoTask, TaskType, NoWork, WorkType
<1>4. SpeakerType
  <2>1. task \in [Tasks -> TaskType] /\ work \in [Works -> WorkType]
    BY <1>1, <1>3
  <2>2. /\ batch \in Seq(Messages) /\ Len(batch) =< MaxBatch
        /\ posts \in Seq(Seq(Messages) \X (0 .. MaxReplies - 1))
        /\ remembered \in Seq(Seq(Messages))
    BY <1>0, <1>1
  <2> QED
    BY <1>0, <1>1, <2>1, <2>2 DEF SpeakerType
<1>5. ReloadType
  BY <1>0, <1>1, <1>2 DEF ReloadType, Config
<1>6. TypeOK
  BY <1>4, <1>5, TypeParts
<1>7. Phases
  BY <1>1, <1>2 DEF Phases
<1>8. ASSUME NEW t \in Tasks
      PROVE  task[t].pc = "none" /\ task[t].work = None /\ task[t].generation = 0
  BY <1>1 DEF NoTask
<1>9. \A t \in Tasks : ~Current(t) /\ TaskFine(t)
  BY <1>1, <1>8 DEF Current, Working, TaskFine, Sleeps
<1>10. Tasking
  BY <1>1, <1>9 DEF Tasking, OwnWork, TimerFine
<1>11. Staged
  BY <1>1, <1>9 DEF Staged
<1>12. \A w \in Works : ~Active(w)
  BY <1>0, <1>1, <1>9 DEF Active
<1>13. ToSet(batch) = {} /\ DOMAIN posts = {} /\ DOMAIN remembered = {}
  BY <1>1 DEF ToSet
<1>14. collected = 1 .. 0
  BY <1>1
<1>15. Books
  BY <1>12, <1>13, <1>14 DEF Books, Mine, Apart, Posted, Remembered
<1>16. Held = {}
  BY <1>1, <1>13, HeldIs DEF Of
<1>17. Accounted
  BY <1>1, <1>16 DEF Accounted
<1> QED
  BY <1>6, <1>7, <1>10, <1>11, <1>15, <1>17 DEF IInv

LEMMA NextKeeps == IInv /\ [Next]_vars => IInv'
<1> SUFFICES ASSUME IInv, [Next]_vars PROVE IInv'
  OBVIOUS
<1>1. ASSUME UNCHANGED reloadVars, NEW m \in Messages, Observe(m) PROVE IInv'
  BY <1>1, ObserveKeeps
<1>2. ASSUME UNCHANGED reloadVars, NEW t \in Tasks, FlushStep(t) PROVE IInv'
  <2>1. CASE FlushBatch(t)
    BY <1>2, <2>1, FlushBatchKeeps
  <2>2. CASE FlushSilent(t)
    BY <1>2, <2>2, FlushSilentKeeps
  <2>3. CASE Resume(t)
    BY <1>2, <2>3, ResumeKeeps
  <2>4. CASE Cancelled(t)
    BY <1>2, <2>4, CancelledKeeps
  <2>5. ASSUME NEW n \in 0 .. MaxReplies, AgentAnswers(t, n) PROVE IInv'
    BY <1>2, <2>5, AgentAnswersKeeps
  <2>6. CASE AgentFails(t)
    BY <1>2, <2>6, AgentFailsKeeps
  <2>7. CASE SendReturns(t)
    BY <1>2, <2>7, SendReturnsKeeps
  <2>8. CASE SendNext(t)
    BY <1>2, <2>8, SendNextKeeps
  <2> QED
    BY <1>2, <2>1, <2>2, <2>3, <2>4, <2>5, <2>6, <2>7, <2>8 DEF FlushStep
<1>3. CASE SpeakerStep
  BY <1>1, <1>2, <1>3 DEF SpeakerStep
<1>4. CASE ReloadStep
  BY <1>4, StopsKeep, CommitReloadKeeps, MemoryFailsKeeps, RollbackReloadKeeps,
     RestoredKeeps DEF ReloadStep
<1>5. CASE UNCHANGED vars
  <2>1. UNCHANGED speakerVars /\ UNCHANGED reloadVars
    BY <1>5 DEF vars
  <2>2. SpeakerType /\ ReloadType
    BY TypeParts DEF IInv
  <2>3. SpeakerType' /\ ReloadType'
    BY <2>1, <2>2 DEF SpeakerType, ReloadType, speakerVars, reloadVars
  <2>4. Phases'
    BY <2>1 DEF IInv, Phases, speakerVars, reloadVars
  <2> QED
    BY <2>1, <2>3, <2>4, TypeParts, SpeakerSame DEF IInv
<1> QED
  BY <1>3, <1>4, <1>5, EditFileKeeps, SetOverrideKeeps, ResetKeeps, BeginReloadKeeps
  DEF Next

\* The invariant holds in every state: the parts follow the configuration,
\* tasks and works are where the speaker takes them to be, and every message
\* is in one place.
THEOREM Invariant == Spec => []IInv
<1> QED
  BY InitHolds, NextKeeps, PTL DEF Spec

\* Every variable of the speaker and of a reload has its type, and a batch
\* never exceeds max_batch_messages.
THEOREM TypeCorrect == Spec => []TypeOK
<1>1. IInv => TypeOK
  BY DEF IInv
<1> QED
  BY <1>1, Invariant, PTL

\* Nobody in the group is answered twice about the same message, across
\* reloads, cancelled tasks and sends that outlive both.
THEOREM NobodyAnsweredTwice == Spec => []AnsweredOnce
<1>1. IInv => AnsweredOnce
  BY DEF IInv, Books, Posted, PostsDiffer, Post, Remembered, Memory, AnsweredOnce
<1> QED
  BY <1>1, Invariant, PTL

\* No message gets lost between two speakers: what was taken in and is not
\* settled is held by the one that is in charge.
THEOREM NoMessageLost == Spec => []Accounted
<1>1. IInv => Accounted
  BY DEF IInv
<1> QED
  BY <1>1, Invariant, PTL

\* A reload that is over, committed or rolled back, leaves every part with
\* the configuration App has.
THEOREM ReloadsAgree == Spec => []PartsAgree
<1>1. IInv => PartsAgree
  BY DEF IInv, Phases, PartsAgree, At
<1> QED
  BY <1>1, Invariant, PTL
=============================================================================
