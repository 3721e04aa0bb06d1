---------------------------- MODULE MemoryProofs ----------------------------
(***************************************************************************)
(* The memory, for any scopes, sources, facts, jobs and limits: first who  *)
(* reviews what and when (MemoryReview), then what the reviews, the        *)
(* commands and the jobs do to the items (MemoryWriters).  The second part *)
(* goes from one row that is written, over the operations of the store,    *)
(* a batch of them, and the validator that chooses the batch, to a step.   *)
(***************************************************************************)
EXTENDS MemoryReview, MemoryWriters, SetInduction, FiniteSetTheorems,
        SequenceTheorems, TLAPS

\* The lock has one holder.
Alone ==
    \A r, q \in Reviews : HoldsLock(r) /\ HoldsLock(q) => r = q

\* A task is cancelled after it began, and if it holds the lock by then, an
\* epoch differs from the one it saw.
Fenced ==
    \A r \in cancelled : pc[r] # "off" /\ (HoldsLock(r) => r \in outdated)

\* The inductive invariant.
ReviewIInv ==
    /\ ReviewTypeOK
    /\ Alone
    /\ InputIsOwn
    /\ SourcesRemain
    /\ Fenced
-----------------------------------------------------------------------------

LEMMA ReviewInitIInv == ReviewInit => ReviewIInv
<1> SUFFICES ASSUME ReviewInit PROVE ReviewIInv
  OBVIOUS
<1>1. buffer \subseteq Sources /\ attempts \in [Sources -> 0..MaxAttempts]
  BY DEF ReviewInit
<1>2. retryLater \subseteq buffer
  <2>1. \A s \in Sources \ buffer : attempts[s] = 0
    BY DEF ReviewInit
  <2>2. retryLater \subseteq {s \in Sources : attempts[s] > 0}
    BY DEF ReviewInit
  <2> QED
    BY <2>1, <2>2
<1>3. dirty \in [Scopes -> {"clean", "idle", "due"}]
  BY DEF ReviewInit
<1>4. ReviewTypeOK
  BY <1>1, <1>2, <1>3 DEF ReviewInit, ReviewTypeOK, Reviews
<1> QED
  BY <1>4 DEF ReviewInit, ReviewIInv, Alone, InputIsOwn, SourcesRemain, Fenced, HoldsLock,
     Reviews

USE DEF bufferVars, configVars, timerVars, schedVars, taskVars, cancelVars,
        restVars

LEMMA InteractiveStep == ReviewIInv /\ Interactive => ReviewIInv'
BY DEF ReviewIInv, ReviewTypeOK, Alone, InputIsOwn, SourcesRemain, Fenced, HoldsLock,
       Reviews, Interactive, CancelBackground, Interrupt, Bump, UnderWay

LEMMA MaintenanceStep == ReviewIInv /\ Maintenance => ReviewIInv'
BY AttemptsPositive
   DEF ReviewIInv, ReviewTypeOK, Alone, InputIsOwn, SourcesRemain, Fenced, HoldsLock,
       Reviews, Maintenance, MaintenanceTurn, MaintenanceEnters, GateIdle,
       InCurator, ExpireRaw, Delete

LEMMA CollectStep == ASSUME ReviewIInv, NEW s \in Sources, Collect(s) PROVE ReviewIInv'
BY ScopesGiven
   DEF ReviewIInv, ReviewTypeOK, Alone, InputIsOwn, SourcesRemain, Fenced, HoldsLock,
       Reviews, Collect, Running

LEMMA RetryStep == ASSUME ReviewIInv, NEW s \in Sources, RetryPasses(s) PROVE ReviewIInv'
BY DEF ReviewIInv, ReviewTypeOK, Alone, InputIsOwn, SourcesRemain, Fenced, HoldsLock,
       Reviews, RetryPasses

LEMMA ScopeStep ==
    ASSUME ReviewIInv, NEW sc \in Scopes, SetScopeEnabled(sc) \/ IdlePasses(sc)
    PROVE  ReviewIInv'
<1> USE DEF ReviewIInv, ReviewTypeOK, Alone, InputIsOwn, SourcesRemain, Fenced, HoldsLock,
            Reviews
<1>1. CASE SetScopeEnabled(sc)
  BY <1>1 DEF SetScopeEnabled
<1>2. CASE IdlePasses(sc)
  BY <1>2 DEF IdlePasses
<1> QED
  BY <1>1, <1>2

LEMMA IntervalStep == ReviewIInv /\ IntervalPasses => ReviewIInv'
BY DEF ReviewIInv, ReviewTypeOK, Alone, InputIsOwn, SourcesRemain, Fenced, HoldsLock,
       Reviews, IntervalPasses

LEMMA ReloadStep == ASSUME ReviewIInv, NEW on \in BOOLEAN, Reload(on) PROVE ReviewIInv'
<1> USE DEF ReviewIInv, ReviewTypeOK, Alone, InputIsOwn, SourcesRemain, Fenced, HoldsLock,
            Reviews, Reload
<1>1. enabled' \in BOOLEAN /\ periodicDue' \in BOOLEAN
  OBVIOUS
<1>2. CASE on
  BY <1>1, <1>2
<1>3. CASE ~on
  BY <1>1, <1>3 DEF CancelAll, Interrupt, Bump, UnderWay
<1> QED
  BY <1>2, <1>3

LEMMA StopStep == ReviewIInv /\ (BeginStop \/ LoopsEnded \/ ReviewsEnded) => ReviewIInv'
BY DEF ReviewIInv, ReviewTypeOK, Alone, InputIsOwn, SourcesRemain, Fenced, HoldsLock,
       Reviews, BeginStop, LoopsEnded, ReviewsEnded, CancelAll, Interrupt, Bump,
       UnderWay
-----------------------------------------------------------------------------
(* Steps of a review.                                                      *)

\* What a review reads is in the buffer.
LEMMA ReadableInBuffer ==
    ASSUME ReviewTypeOK, NEW r, NEW sc PROVE Readable(r, sc) \subseteq buffer
BY DEF Readable, Of, Due

\* One review ends while the buffer keeps what the others work on.
LEMMA DoneStep ==
    ASSUME ReviewIInv, NEW r \in Reviews, pc[r] # "off",
           NEW error \in {"none", "cancelled", "raised"}, Done(r, error),
           \A q \in Reviews \ {r} :
               pc[q] = "curator" => sources[q] \subseteq buffer',
           buffer' \subseteq Sources, attempts' \in [Sources -> 0..MaxAttempts],
           retryLater' \subseteq buffer', late' \subseteq buffer' \ retryLater',
           UNCHANGED <<configVars, timerVars, schedVars, cancelVars, restVars>>
    PROVE  ReviewIInv'
BY NoneIsNoReview
   DEF ReviewIInv, ReviewTypeOK, Alone, InputIsOwn, SourcesRemain, Fenced, HoldsLock,
       Reviews, Done

\* A review takes the lock while nobody holds it, and no cancellation waits.
LEMMA HoldLockStep ==
    ASSUME ReviewIInv, NEW r \in Reviews, NEW sc \in Scopes \union {Unset},
           r \notin cancelled', pc[r] # "curator",
           \A q \in Reviews \ {r} : ~HoldsLock(q),
           \/ HoldLock(r, sc) \/ CallCurator(r, sc),
           \A q \in cancelled' : pc[q] # "off",
           cancelled' \subseteq Reviews, outdated' \subseteq Reviews,
           UNCHANGED <<interrupts, bufferVars, configVars, timerVars, schedVars,
                       restVars>>
    PROVE  ReviewIInv'
BY ReadableInBuffer, NoneIsNoReview
   DEF ReviewIInv, ReviewTypeOK, Alone, InputIsOwn, SourcesRemain, Fenced, HoldsLock,
       Reviews, Done, HoldLock, CallCurator, WaitAt

LEMMA ReviewStepStep ==
    ASSUME ReviewIInv, NEW r \in Reviews, ReviewStep(r) PROVE ReviewIInv'
<1> USE DEF ReviewIInv
<1>1. scope[r] \in Scopes \union {Unset} /\ cancelled \subseteq Reviews
  BY DEF ReviewTypeOK
<1>2. CASE LockGranted(r)
  <2>1. r \notin cancelled /\ pc[r] = "lock" /\ \A q \in Reviews : ~HoldsLock(q)
    BY <1>2 DEF LockGranted, LockFree
  <2> QED
    BY <1>1, <1>2, <2>1, HoldLockStep
       DEF LockGranted, Fenced, ReviewTypeOK, cancelVars
<1>3. CASE GateGranted(r)
  <2>1. /\ r \notin cancelled /\ pc[r] = "gate"
        /\ \A q \in Reviews \ {r} : ~HoldsLock(q)
    BY <1>3 DEF GateGranted, HoldsLock, Alone
  <2> QED
    BY <1>1, <1>3, <2>1, HoldLockStep
       DEF GateGranted, Fenced, ReviewTypeOK, cancelVars
<1>4. CASE Swallow(r)
  BY <1>4, DoneStep DEF Swallow, SourcesRemain, ReviewTypeOK
<1>5. CASE CuratorReturns(r)
  <2>1. \A q \in Reviews \ {r} : pc[q] # "curator"
    BY <1>5 DEF CuratorReturns, HoldsLock, Alone
  <2>2. sources[r] \subseteq Sources
    BY DEF ReviewTypeOK
  <2>3. CASE Superseded(r) \/ CommitNothing(r)
    BY <1>5, <2>1, <2>3, DoneStep
       DEF CuratorReturns, Superseded, CommitNothing, ReviewTypeOK
  <2>4. CASE RecordFailure(r)
    <3>1. attempts' \in [Sources -> 0..MaxAttempts]
      BY <2>4, AttemptsPositive DEF RecordFailure, ReviewTypeOK
    <3>2. retryLater' \subseteq buffer' /\ late' \subseteq buffer' \ retryLater'
      BY <2>4 DEF RecordFailure, ReviewTypeOK
    <3> QED
      BY <1>5, <2>1, <2>4, <3>1, <3>2, DoneStep
         DEF CuratorReturns, RecordFailure, ReviewTypeOK
  <2>5. CASE CommitReview(r)
    <3>1. PICK cited \in SUBSET sources[r] : Delete(cited)
      BY <2>5 DEF CommitReview
    <3>2. /\ buffer' \subseteq Sources
          /\ attempts' \in [Sources -> 0..MaxAttempts]
          /\ retryLater' \subseteq buffer'
          /\ late' \subseteq buffer' \ retryLater'
      BY <3>1, AttemptsPositive DEF Delete, ReviewTypeOK
    <3> QED
      BY <1>5, <2>1, <2>5, <3>2, DoneStep DEF CuratorReturns, CommitReview
  <2> QED
    BY <1>5, <2>3, <2>4, <2>5 DEF CuratorReturns
<1> QED
  BY <1>2, <1>3, <1>4, <1>5 DEF ReviewStep

LEMMA EnterStep ==
    ASSUME ReviewIInv, NEW r \in Reviews, NEW sc \in Scopes \union {Unset},
           r \notin cancelled', pc[r] \in {"off", "created"}, Enter(r, sc),
           \/ UNCHANGED cancelled /\ UNCHANGED outdated
           \/ CancelBackground,
           UNCHANGED <<interrupts, bufferVars, configVars, timerVars, schedVars,
                       restVars>>
    PROVE  ReviewIInv'
<1>1. /\ cancelled' \subseteq Reviews /\ outdated' \subseteq Reviews
      /\ \A q \in cancelled' : pc[q] # "off"
      /\ \A q \in cancelled' : HoldsLock(q) => q \in outdated'
  BY DEF ReviewIInv, ReviewTypeOK, Fenced, CancelBackground, Interrupt, Bump, UnderWay, Reviews
<1>2. CASE LockAtOnce
  <2>1. \A q \in Reviews : ~HoldsLock(q)
    BY <1>2 DEF LockAtOnce, LockFree
  <2> QED
    <3>1. HoldLock(r, sc) /\ pc[r] # "curator"
      BY <1>2 DEF Enter
    <3> QED
      BY <1>1, <2>1, <3>1, HoldLockStep
<1>3. CASE ~LockAtOnce
  <2>1. WaitAt(r, sc, "lock")
    BY <1>3 DEF Enter
  <2> QED
    <3>1. /\ pc' = [pc EXCEPT ![r] = "lock"]
          /\ scope' = [scope EXCEPT ![r] = sc]
          /\ UNCHANGED <<sources, outcome, input>>
      BY <2>1 DEF WaitAt
    <3>2. ReviewTypeOK'
      BY <1>1, <3>1 DEF ReviewIInv, ReviewTypeOK
    <3> QED
      BY <1>1, <3>1, <3>2
         DEF ReviewIInv, ReviewTypeOK, Alone, InputIsOwn, SourcesRemain, Fenced, HoldsLock
<1> QED
  BY <1>2, <1>3

LEMMA BackgroundBeginsStep == ReviewIInv /\ BackgroundBegins => ReviewIInv'
<1> SUFFICES ASSUME ReviewIInv, BackgroundBegins PROVE ReviewIInv'
  OBVIOUS
<1>1. Background \in Reviews /\ scope[Background] \in Scopes \union {Unset}
  BY DEF Reviews, ReviewIInv, ReviewTypeOK
<1>2. CASE Background \in cancelled /\ Done(Background, "raised")
  BY <1>1, <1>2, DoneStep DEF BackgroundBegins, ReviewIInv, SourcesRemain, ReviewTypeOK
<1>3. CASE Background \notin cancelled /\ Enter(Background, scope[Background])
  BY <1>1, <1>3, EnterStep DEF BackgroundBegins
<1> QED
  BY <1>2, <1>3 DEF BackgroundBegins

LEMMA ReviewNowStep ==
    ASSUME ReviewIInv, NEW r \in Requests, NEW sc \in Scopes, ReviewNow(r, sc)
    PROVE  ReviewIInv'
<1>1. r \in Reviews /\ r # Background /\ sc \in Scopes \union {Unset}
  BY BackgroundIsApart DEF Reviews
<1>2. r \notin cancelled
  BY DEF ReviewNow, ReviewIInv, Fenced
<1>3. r \notin cancelled'
  BY <1>1, <1>2 DEF ReviewNow, CancelBackground, Interrupt
<1> QED
  BY <1>1, <1>3, EnterStep DEF ReviewNow
-----------------------------------------------------------------------------
(* Steps of the scheduler.                                                 *)

\* What the scheduler changes when it goes on, whatever it does next.
LEMMA SchedulerStep ==
    ASSUME ReviewIInv,
           \/ \E kind \in {"threshold", "periodic"}, sc \in Scopes :
                 Launch(kind, sc)
           \/ NoLaunch /\ sched' \in {"off", "wait"},
           queue' \subseteq Scopes, late' \in {late, {}},
           dirty' \in [Scopes -> {"clean", "idle", "due"}],
           periodicDue' \in BOOLEAN, schedCancelled' \in BOOLEAN,
           UNCHANGED <<buffer, attempts, retryLater, configVars, sources, input,
                       interrupts, restVars>>
    PROVE  ReviewIInv'
<1>1. /\ pc' \in [Reviews -> {"off", "created", "lock", "gate", "curator",
                               "done"}]
      /\ scope' \in [Reviews -> Scopes \union {Unset}]
      /\ sched' \in {"off", "wait", "threshold", "periodic"}
      /\ outcome' = "none"
      /\ cancelled' = cancelled \ {Background}
      /\ outdated' = outdated \ {Background}
      /\ \A r \in Reviews : r # Background => pc'[r] = pc[r]
      /\ pc'[Background] \in {"off", "created"}
  BY DEF Launch, NoLaunch, ReviewIInv, ReviewTypeOK, Reviews
<1>2. ReviewTypeOK'
  BY <1>1 DEF ReviewIInv, ReviewTypeOK
<1> QED
  BY <1>1, <1>2
     DEF ReviewIInv, Alone, InputIsOwn, SourcesRemain, Fenced, HoldsLock, ReviewTypeOK

LEMMA RunPeriodicStep ==
    ASSUME ReviewIInv, NEW scs \in SUBSET Scopes, NEW stale \in {late, {}},
           RunPeriodic(scs, stale),
           dirty' \in [Scopes -> {"clean", "idle", "due"}],
           UNCHANGED <<buffer, attempts, retryLater, configVars, schedCancelled,
                       sources, input, interrupts, restVars>>
    PROVE  ReviewIInv'
<1>1. periodicDue \in BOOLEAN /\ schedCancelled \in BOOLEAN
  BY DEF ReviewIInv, ReviewTypeOK
<1>2. /\ \/ \E sc \in Scopes : Launch("periodic", sc)
         \/ NoLaunch /\ sched' \in {"off", "wait"}
      /\ queue' \subseteq Scopes /\ late' \in {late, {}}
      /\ periodicDue' \in BOOLEAN
  BY <1>1 DEF RunPeriodic, Rest
<1> QED
  BY <1>1, <1>2, SchedulerStep

LEMMA RunDueStep ==
    ASSUME ReviewIInv, NEW scs \in SUBSET Scopes, NEW stale \in {late, {}},
           NEW d \in [Scopes -> {"clean", "idle", "due"}],
           RunDue(scs, stale, d),
           UNCHANGED <<buffer, attempts, retryLater, configVars, schedCancelled,
                       sources, input, interrupts, restVars>>
    PROVE  ReviewIInv'
<1>1. periodicDue \in BOOLEAN /\ schedCancelled \in BOOLEAN
  BY DEF ReviewIInv, ReviewTypeOK
<1>2. \A done : Clean(d, done) \in [Scopes -> {"clean", "idle", "due"}]
  BY DEF Clean
<1>3. CASE \E sc \in scs, skipped \in SUBSET {x \in scs : ~Enough(x, stale)} :
              /\ Launch("threshold", sc)
              /\ queue' = scs \ (skipped \union {sc})
              /\ dirty' = Clean(d, skipped \union {sc})
              /\ late' = stale
              /\ UNCHANGED periodicDue
  BY <1>1, <1>2, <1>3, SchedulerStep
<1>4. CASE dirty' = Clean(d, scs) /\ AfterDue
  <2>1. CASE periodicDue
    <3>1. PeriodicScopes \subseteq Scopes
      BY DEF PeriodicScopes
    <3> DEFINE listed == IF enabled THEN PeriodicScopes ELSE {}
    <3>2. RunPeriodic(listed, {}) /\ listed \in SUBSET Scopes
      BY <1>4, <2>1, <3>1 DEF AfterDue
    <3> QED
      BY <1>2, <1>4, <3>2, RunPeriodicStep
  <2>2. CASE ~periodicDue
    <3>1. /\ NoLaunch /\ sched' \in {"off", "wait"}
          /\ queue' = {} /\ late' = {} /\ periodicDue' = periodicDue
      BY <1>4, <2>2 DEF AfterDue, Rest
    <3> QED
      BY <1>1, <1>2, <1>4, <3>1, SchedulerStep
  <2> QED
    BY <2>1, <2>2
<1> QED
  BY <1>3, <1>4 DEF RunDue

LEMMA LoopStep == ReviewIInv /\ Scheduler => ReviewIInv'
<1> SUFFICES ASSUME ReviewIInv, Scheduler PROVE ReviewIInv'
  OBVIOUS
<1>1. /\ dirty \in [Scopes -> {"clean", "idle", "due"}]
      /\ queue \in SUBSET Scopes /\ periodicDue \in BOOLEAN
  BY DEF ReviewIInv, ReviewTypeOK
<1>2. CASE SchedulerTurn
  BY <1>1, <1>2, RunDueStep DEF SchedulerTurn
<1>3. CASE SchedulerResumes
  <2>1. Rearmed \in [Scopes -> {"clean", "idle", "due"}]
    BY <1>1 DEF Rearmed
  <2>2. CASE RunDue(queue, late, Rearmed)
    BY <1>1, <1>3, <2>1, <2>2, RunDueStep DEF SchedulerResumes
  <2>3. CASE RunPeriodic(queue, late) /\ UNCHANGED dirty
    BY <1>1, <1>3, <2>3, RunPeriodicStep DEF SchedulerResumes
  <2> QED
    BY <1>3, <2>2, <2>3 DEF SchedulerResumes
<1>4. CASE SchedulerDies
  BY <1>1, <1>4, SchedulerStep DEF SchedulerDies
<1> QED
  BY <1>2, <1>3, <1>4 DEF Scheduler
-----------------------------------------------------------------------------
(* The theorems.                                                           *)

\* Every step of the coordinator keeps the invariant.
THEOREM ReviewInvariant == ReviewSpec => []ReviewIInv
<1>1. ReviewIInv /\ [ReviewNext]_reviewVars => ReviewIInv'
  <2> SUFFICES ASSUME ReviewIInv, [ReviewNext]_reviewVars PROVE ReviewIInv'
    OBVIOUS
  <2>1. CASE UNCHANGED reviewVars
    BY <2>1 DEF reviewVars, ReviewIInv, ReviewTypeOK, Alone, InputIsOwn, SourcesRemain, Fenced,
       HoldsLock
  <2>2. CASE ReviewNext
    BY <2>2, InteractiveStep, MaintenanceStep, BackgroundBeginsStep,
       ReviewStepStep, ReviewNowStep, LoopStep, CollectStep, RetryStep,
       ScopeStep, ReloadStep, IntervalStep, StopStep DEF ReviewNext
  <2> QED
    BY <2>1, <2>2
<1> QED
  BY <1>1, ReviewInitIInv, PTL DEF ReviewSpec

\* Every variable keeps its type, and deadlines belong to rows of the buffer.
THEOREM ReviewTypeCorrect == ReviewSpec => []ReviewTypeOK
<1>1. ReviewIInv => ReviewTypeOK
  BY DEF ReviewIInv
<1> QED
  BY <1>1, ReviewInvariant, PTL

\* The Agent of a review reads the data of that review.
THEOREM ReadsItsOwn == ReviewSpec => []InputIsOwn
<1>1. ReviewIInv => InputIsOwn
  BY DEF ReviewIInv
<1> QED
  BY <1>1, ReviewInvariant, PTL

\* What a review works on stays in the buffer until the review ends.
THEOREM WorksOnTheBuffer == ReviewSpec => []SourcesRemain
<1>1. ReviewIInv => SourcesRemain
  BY DEF ReviewIInv
<1> QED
  BY <1>1, ReviewInvariant, PTL

\* No step but a commit and expiry takes a row from the buffer.
LEMMA OnlyCommitsAndExpiry ==
    ASSUME ReviewNext, ~Maintenance, \A q \in Reviews : ~CuratorReturns(q)
    PROVE  buffer \subseteq buffer'
BY DEF ReviewNext, Interactive, BackgroundBegins, ReviewStep, LockGranted,
       GateGranted, Swallow, ReviewNow, Scheduler, SchedulerTurn,
       SchedulerResumes, SchedulerDies, Collect, RetryPasses, SetScopeEnabled,
       IdlePasses, Reload, IntervalPasses, BeginStop, LoopsEnded, ReviewsEnded

\* A review that was cancelled applies nothing: whatever its Agent returned,
\* its sources are all in the buffer when it is done.
THEOREM GivesWay == ReviewSpec => CancelledNeverCommits
<1>1. ReviewIInv /\ [ReviewNext]_reviewVars =>
        [\A r \in cancelled : \A s \in sources[r] :
            pc[r] = "curator" /\ pc'[r] = "done" => s \in buffer']_reviewVars
  <2> SUFFICES ASSUME ReviewIInv, ReviewNext, NEW r \in cancelled, NEW s \in sources[r],
                      pc[r] = "curator", pc'[r] = "done"
               PROVE  s \in buffer'
    OBVIOUS
  <2>1. r \in Reviews /\ s \in buffer /\ r \in outdated
    BY DEF ReviewIInv, ReviewTypeOK, SourcesRemain, Fenced, HoldsLock
  <2>2. ~Maintenance
    BY DEF Maintenance, MaintenanceTurn, MaintenanceEnters
  <2>3. CASE \E q \in Reviews : CuratorReturns(q)
    <3>1. PICK q \in Reviews : CuratorReturns(q)
      BY <2>3
    <3>2. q = r
      BY <2>1, <3>1 DEF CuratorReturns, ReviewIInv, Alone, HoldsLock
    <3>3. Superseded(r)
      BY <2>1, <3>1, <3>2
         DEF CuratorReturns, RecordFailure, CommitReview, CommitNothing
    <3> QED
      BY <2>1, <3>3 DEF Superseded
  <2>4. CASE \A q \in Reviews : ~CuratorReturns(q)
    BY <2>1, <2>2, <2>4, OnlyCommitsAndExpiry
  <2> QED
    BY <2>3, <2>4
<1> QED
  BY <1>1, ReviewInvariant, PTL DEF ReviewSpec, CancelledNeverCommits

-----------------------------------------------------------------------------
(* The items.  What holds of the database between any two operations: it   *)
(* refers to rows it has, the index is that of the rows, the notes of the  *)
(* Agents are in force or asleep, and sensitivity agrees.                  *)

Refers(d) ==
    /\ d.next \in 1..(MaxItems + 1)
    /\ d.backed \subseteq Present(d) /\ d.scheduled \subseteq Present(d)
    /\ \A i \in Present(d) :
          i < d.next /\ d.items[i].target \in Present(d) \union {None}

IndexFits(d) ==
    \A i \in Ids : d.index[i] = IF i \in Present(d) /\ d.items[i].status \in Indexed
                                THEN d.items[i].fact ELSE None

Note(row) == row.kind = "work" => row.status \in Indexed /\ row.target = None

\* A row that counts, and what it may be, alone and beside another.
Counts(row) == row.status \in Live /\ row.kind # "work"
Classified(row) == Counts(row) => (row.fact \in Private => row.sensitive)
Agree(row, other) ==
    Counts(row) /\ Counts(other) /\ other.fact = row.fact =>
        other.sensitive = row.sensitive

Sound(d) ==
    /\ \A i \in Present(d) : Note(d.items[i]) /\ Classified(d.items[i])
    /\ \A i, k \in Present(d) : Agree(d.items[i], d.items[k])

Good(d) == d \in Databases /\ d.ok = TRUE /\ Refers(d) /\ IndexFits(d) /\ Sound(d)

\* How a database may evolve: ids are not used again, versions grow, and a
\* note of the same version is the same note.
Grows(row, later) ==
    /\ row.version =< later.version
    /\ later.kind = "work" => row.kind = "work"
    /\ row.kind = "work" /\ row.version = later.version => later = row

Evolves(d, e) ==
    /\ d.next =< e.next
    /\ \A i \in Present(e) : i < d.next => i \in Present(d)
    /\ \A i \in Present(d) \intersect Present(e) : Grows(d.items[i], e.items[i])

\* What an operation of the curator about one item leaves alone.
Preserves(d, e, item) ==
    \A i \in Present(d) :
       /\ i \in Present(e)
       /\ d.history[i] \subseteq e.history[i]
       /\ d.items[i].sensitive => e.items[i].sensitive
       /\ d.items[i].status = "contradicted" /\ i # item => e.items[i] = d.items[i]
-----------------------------------------------------------------------------
(* One row is written.                                                     *)

\* What a row's index entry is.
Entry(row) == IF row.status \in Indexed THEN row.fact ELSE None

Put(d, e, i, row) ==
    /\ e \in Databases /\ e.ok = d.ok
    /\ e.items = [d.items EXCEPT ![i] = row]
    /\ e.index = [d.index EXCEPT ![i] = Entry(row)]
    /\ e.scheduled = d.scheduled
    /\ e.backed \subseteq d.backed \union {i}
    /\ \A k \in Ids : d.history[k] \subseteq e.history[k]

LEMMA PresentIds == ASSUME NEW d PROVE Present(d) \subseteq Ids
BY DEF Present

\* A present row is a row.
LEMMA RowType ==
    ASSUME NEW d, d \in Databases, NEW i \in Present(d)
    PROVE  d.items[i] \in Item
BY DEF Databases, Present

\* After an INSERT or UPDATE the row is there and the others are as before.
LEMMA PutRows ==
    ASSUME NEW d, d \in Databases, NEW e, NEW i \in Ids, NEW row \in Item,
           Put(d, e, i, row)
    PROVE  /\ e.items[i] = row
           /\ \A k \in Ids : k # i => e.items[k] = d.items[k]
BY DEF Put, Databases

LEMMA PutPresent ==
    ASSUME NEW d, d \in Databases, NEW e, NEW i \in Ids, NEW row \in Item,
           Put(d, e, i, row)
    PROVE  Present(e) = Present(d) \union {i}
<1>1. e.items[i] = row /\ \A k \in Ids : k # i => e.items[k] = d.items[k]
  BY DEF Put, Databases
<1>2. row # None
  BY NoneIsNoRow
<1> QED
  BY <1>1, <1>2 DEF Present

\* When the row that is written is in order, so is the database.
LEMMA PutKeeps ==
    ASSUME NEW d, Good(d), NEW e, NEW i \in Ids, NEW row \in Item, Put(d, e, i, row),
           \/ i \in Present(d) /\ e.next = d.next /\ Grows(d.items[i], row)
                               /\ d.items[i].version < row.version
           \/ i = d.next /\ e.next = d.next + 1,
           row.target \in Present(d) \union {None},
           Note(row), Classified(row),
           \A k \in Present(d) \ {i} : Agree(row, d.items[k])
    PROVE  Good(e) /\ Evolves(d, e)
<1>1. /\ e.items[i] = row
      /\ \A k \in Ids : k # i => e.items[k] = d.items[k]
      /\ Present(e) = Present(d) \union {i}
  BY PutRows, PutPresent DEF Good
<1>2. Present(d) \subseteq Ids /\ Ids \subseteq Nat
  BY PresentIds DEF Ids
<1>3. d \in Databases /\ d.next \in Nat /\ d.next \in 1..(MaxItems + 1)
  BY ItemsBounded DEF Good, Refers
<1>4. \A k \in Present(d) : k < d.next /\ d.items[k].target \in Present(d) \union {None}
  BY DEF Good, Refers
<1>5. i \in Present(d) \/ i = d.next
  OBVIOUS
<1>6. e \in Databases /\ e.ok = TRUE
  BY DEF Put, Good
<1>7. e.next \in 1..(MaxItems + 1) /\ d.next =< e.next /\ i < e.next
  BY <1>3, <1>4, ItemsBounded DEF Ids
<1>8. Refers(e)
  <2>1. e.backed \subseteq Present(e) /\ e.scheduled \subseteq Present(e)
    BY <1>1 DEF Good, Refers, Put
  <2>2. ASSUME NEW k \in Present(e)
        PROVE  k < e.next /\ e.items[k].target \in Present(e) \union {None}
    <3>1. CASE k = i
      BY <3>1, <1>1, <1>7
    <3>2. CASE k # i
      <4>1. k \in Present(d) /\ e.items[k] = d.items[k]
        BY <3>2, <1>1, <1>2
      <4>2. k \in Nat
        BY <4>1, <1>2
      <4>3. k < d.next
        BY <4>1, <1>4
      <4>4. e.next \in Nat
        BY <1>7, ItemsBounded
      <4>5. k < e.next
        BY <4>2, <4>3, <4>4, <1>3, <1>7
      <4> QED
        BY <4>1, <4>5, <1>4, <1>1
    <3> QED
      BY <3>1, <3>2
  <2> QED
    BY <2>1, <2>2, <1>7 DEF Refers
<1>9. IndexFits(e)
  <2>1. d.index \in [Ids -> Facts \union {None}]
    BY <1>3 DEF Databases
  <2> SUFFICES ASSUME NEW k \in Ids
               PROVE  e.index[k] = IF k \in Present(e) /\ e.items[k].status \in Indexed
                                   THEN e.items[k].fact ELSE None
    BY DEF IndexFits
  <2>2. CASE k = i
    BY <2>1, <2>2, <1>1 DEF Put, Entry
  <2>3. CASE k # i
    <3>1. e.index[k] = d.index[k] /\ e.items[k] = d.items[k]
      BY <2>1, <2>3, <1>1 DEF Put
    <3>2. k \in Present(e) <=> k \in Present(d)
      BY <2>3, <1>1
    <3> QED
      BY <3>1, <3>2 DEF Good, IndexFits
  <2> QED
    BY <2>2, <2>3
<1>10. Sound(e)
  <2>1. \A k \in Present(e) : k # i => k \in Present(d) /\ e.items[k] = d.items[k]
    BY <1>1, <1>2
  <2>2. ASSUME NEW k \in Present(e) PROVE Note(e.items[k]) /\ Classified(e.items[k])
    BY <2>1, <1>1 DEF Good, Sound
  <2>3. ASSUME NEW k \in Present(e), NEW m \in Present(e)
        PROVE  Agree(e.items[k], e.items[m])
    <3>1. CASE k # i /\ m # i
      BY <3>1, <2>1 DEF Good, Sound
    <3>2. CASE k = i /\ m # i
      BY <3>2, <2>1, <1>1
    <3>3. CASE k # i /\ m = i
      <4>1. Agree(row, e.items[k])
        BY <3>3, <2>1
      <4> QED
        BY <4>1, <3>3, <1>1 DEF Agree
    <3>4. CASE k = i /\ m = i
      BY <3>4 DEF Agree
    <3> QED
      BY <3>1, <3>2, <3>3, <3>4
  <2> QED
    BY <2>2, <2>3 DEF Sound
<1>11. Evolves(d, e)
  <2>1. ASSUME NEW k \in Present(e), k < d.next PROVE k \in Present(d)
    BY <2>1, <1>1, <1>3, <1>5
  <2>2. ASSUME NEW k \in Present(d), k \in Present(e) PROVE Grows(d.items[k], e.items[k])
    <3>1. CASE k = i
      <4>1. i # d.next
        BY <3>1, <1>4, <1>3
      <4> QED
        BY <4>1, <3>1, <1>1
    <3>2. CASE k # i
      <4>1. e.items[k] = d.items[k] /\ d.items[k] \in Item
        BY <3>2, <1>1, <1>2, <1>3, RowType
      <4> QED
        BY <4>1 DEF Grows, Item
    <3> QED
      BY <3>1, <3>2
  <2> QED
    BY <2>1, <2>2, <1>7 DEF Evolves
<1> QED
  BY <1>6, <1>8, <1>9, <1>10, <1>11 DEF Good

LEMMA EvolvesSame == ASSUME NEW d, Good(d) PROVE Evolves(d, d)
<1>1. d.next \in Nat
  BY ItemsBounded DEF Good, Refers
<1>2. \A i \in Present(d) : d.items[i] \in Item
  BY RowType DEF Good
<1> QED
  BY <1>1, <1>2 DEF Evolves, Grows, Item

LEMMA EvolvesOn ==
    ASSUME NEW d, NEW e, NEW f, Good(d), Good(e), Good(f), Evolves(d, e), Evolves(e, f)
    PROVE  Evolves(d, f)
<1>1. d.next \in Nat /\ e.next \in Nat /\ f.next \in Nat
  BY ItemsBounded DEF Good, Refers
<1>2. \A i \in Present(f) : i \in Nat
  BY PresentIds DEF Ids
<1>3. d.next =< e.next /\ e.next =< f.next
  BY DEF Evolves
<1>4. \A i \in Present(f) : i < d.next => i \in Present(e)
  BY <1>1, <1>2, <1>3 DEF Evolves
<1>5. ASSUME NEW i \in Present(d), i \in Present(f) PROVE Grows(d.items[i], f.items[i])
  <2>1. i \in Present(e)
    BY <1>4, <1>5 DEF Good, Refers
  <2>2. Grows(d.items[i], e.items[i]) /\ Grows(e.items[i], f.items[i])
    BY <2>1, <1>5 DEF Evolves
  <2>3. /\ d.items[i].version \in Nat /\ e.items[i].version \in Nat
        /\ f.items[i].version \in Nat
    BY <2>1, <1>5, RowType DEF Good, Item
  <2>4. d.items[i].version =< f.items[i].version
    BY <2>2, <2>3 DEF Grows
  <2>5. f.items[i].kind = "work" => d.items[i].kind = "work"
    BY <2>2 DEF Grows
  <2>6. ASSUME d.items[i].kind = "work", d.items[i].version = f.items[i].version
        PROVE  f.items[i] = d.items[i]
    <3>1. d.items[i].version = e.items[i].version
      BY <2>6, <2>2, <2>3 DEF Grows
    <3>2. e.items[i] = d.items[i]
      BY <3>1, <2>6, <2>2 DEF Grows
    <3> QED
      BY <3>2, <2>6, <2>2 DEF Grows
  <2> QED
    BY <2>4, <2>5, <2>6 DEF Grows
<1>6. d.next =< f.next
  BY <1>1, <1>3
<1>7. \A i \in Present(f) : i < d.next => i \in Present(d)
  BY <1>4 DEF Evolves
<1> QED
  BY <1>5, <1>6, <1>7 DEF Evolves

\* What it takes that a row may be written by the curator.
LEMMA PutPreserves ==
    ASSUME NEW d, Good(d), NEW e, NEW i \in Ids, NEW row \in Item, NEW item,
           Put(d, e, i, row),
           i \in Present(d) =>
               /\ d.items[i].sensitive => row.sensitive
               /\ d.items[i].status = "contradicted" => i = item
    PROVE  Preserves(d, e, item)
<1>1. /\ e.items[i] = row
      /\ \A k \in Ids : k # i => e.items[k] = d.items[k]
      /\ Present(e) = Present(d) \union {i}
  BY PutRows, PutPresent DEF Good
<1> SUFFICES ASSUME NEW k \in Present(d)
             PROVE  /\ k \in Present(e)
                    /\ d.history[k] \subseteq e.history[k]
                    /\ d.items[k].sensitive => e.items[k].sensitive
                    /\ d.items[k].status = "contradicted" /\ k # item =>
                           e.items[k] = d.items[k]
  BY DEF Preserves
<1>2. k \in Ids
  BY PresentIds
<1>3. k \in Present(e) /\ d.history[k] \subseteq e.history[k]
  BY <1>1, <1>2 DEF Put
<1>4. CASE k = i
  BY <1>4, <1>3, <1>1
<1>5. CASE k # i
  BY <1>5, <1>3, <1>1, <1>2
<1> QED
  BY <1>4, <1>5

LEMMA PreservesSame == ASSUME NEW d, NEW item PROVE Preserves(d, d, item)
BY DEF Preserves
-----------------------------------------------------------------------------
(* Save and Without.                                                       *)

\* b differs from d in what is counted and in the support of row i.
Beside(d, b, i) ==
    /\ b \in Databases
    /\ b.items = d.items /\ b.index = d.index /\ b.history = d.history
    /\ b.scheduled = d.scheduled /\ b.ok = d.ok
    /\ b.backed \subseteq d.backed \union {i}

LEMMA SavePuts ==
    ASSUME NEW d, d \in Databases, NEW b, NEW i \in Ids, Beside(d, b, i),
           NEW it \in Item, NEW texts \in SUBSET Facts
    PROVE  /\ Put(d, Save(b, i, it, texts), i, [it EXCEPT !.version = @ + 1])
           /\ [it EXCEPT !.version = @ + 1] \in Item
           /\ Save(b, i, it, texts).next = b.next
<1> DEFINE row == [it EXCEPT !.version = @ + 1]
           e == Save(b, i, it, texts)
<1>1. row \in Item /\ row.status = it.status /\ row.fact = it.fact
  BY DEF Item
<1>2. Indexing(it, b.index[i]) = Entry(row)
  BY <1>1 DEF Indexing, Entry
<1>3. Entry(row) \in Facts \union {None}
  BY <1>1 DEF Entry, Item
<1>4. /\ b.items \in [Ids -> Item \union {None}] /\ b.index \in [Ids -> Facts \union {None}]
      /\ b.history \in [Ids -> SUBSET Facts]
  BY DEF Beside, Databases
<1>5. e = [b EXCEPT !.items = [b.items EXCEPT ![i] = row],
                    !.index = [b.index EXCEPT ![i] = Entry(row)],
                    !.history = [b.history EXCEPT ![i] = b.history[i] \union texts]]
  BY <1>2 DEF Save
<1> HIDE DEF row, e
<1>6. [b.items EXCEPT ![i] = row] \in [Ids -> Item \union {None}]
  BY <1>1, <1>4
<1>7. [b.index EXCEPT ![i] = Entry(row)] \in [Ids -> Facts \union {None}]
  BY <1>3, <1>4
<1>8. [b.history EXCEPT ![i] = b.history[i] \union texts] \in [Ids -> SUBSET Facts]
  BY <1>4
<1>9. e \in Databases
  BY <1>5, <1>6, <1>7, <1>8 DEF Beside, Databases
<1>10. /\ e.items = [b.items EXCEPT ![i] = row]
       /\ e.index = [b.index EXCEPT ![i] = Entry(row)]
       /\ e.history = [b.history EXCEPT ![i] = b.history[i] \union texts]
       /\ e.backed = b.backed /\ e.scheduled = b.scheduled /\ e.ok = b.ok /\ e.next = b.next
  BY <1>5 DEF Beside, Databases
<1>11. \A k \in Ids : d.history[k] \subseteq e.history[k]
  BY <1>10, <1>4 DEF Beside
<1>12. Put(d, e, i, row)
  BY <1>9, <1>10, <1>11 DEF Put, Beside
<1> QED
  BY <1>1, <1>10, <1>12 DEF row, e

\* What a row becomes when others are deleted.
Severed(row, gone) == IF row.target \in gone THEN [row EXCEPT !.target = None] ELSE row

LEMMA SeveredRow ==
    ASSUME NEW row \in Item, NEW gone
    PROVE  LET left == Severed(row, gone) IN
           /\ left \in Item
           /\ left.target \in {row.target, None} /\ left.target \notin gone \ {None}
           /\ left.fact = row.fact /\ left.sensitive = row.sensitive
           /\ left.status = row.status /\ left.kind = row.kind
           /\ left.version = row.version
BY DEF Severed, Item

LEMMA WithoutParts ==
    ASSUME NEW d, d \in Databases, NEW gone
    PROVE  LET e == Without(d, gone) IN
           /\ e \in Databases
           /\ Present(e) = Present(d) \ gone
           /\ \A i \in Present(e) :
                 /\ e.items[i] = Severed(d.items[i], gone)
                 /\ e.index[i] = d.index[i]
           /\ \A i \in Ids : i \notin Present(e) => e.index[i] \in {None, d.index[i]}
           /\ \A i \in gone \intersect Ids : e.index[i] = None
           /\ e.backed = d.backed \ gone /\ e.scheduled = d.scheduled \ gone
           /\ e.next = d.next /\ e.ok = d.ok
<1> DEFINE e == Without(d, gone)
           left == [i \in Ids |-> IF i \in gone \/ d.items[i] = None THEN None
                                  ELSE Severed(d.items[i], gone)]
           entries == [i \in Ids |-> IF i \in gone THEN None ELSE d.index[i]]
           texts == [i \in Ids |-> IF i \in gone THEN {} ELSE d.history[i]]
<1>1. e = [d EXCEPT !.items = left, !.index = entries, !.history = texts,
                    !.backed = d.backed \ gone, !.scheduled = d.scheduled \ gone]
  BY DEF Without, Severed
<1>2. left \in [Ids -> Item \union {None}]
  <2>1. \A i \in Ids : d.items[i] # None => d.items[i] \in Item
    BY DEF Databases
  <2> QED
    BY <2>1, SeveredRow
<1>3. entries \in [Ids -> Facts \union {None}] /\ texts \in [Ids -> SUBSET Facts]
  BY DEF Databases
<1>4. /\ \A i \in Ids : left[i] = IF i \in gone \/ d.items[i] = None THEN None
                                  ELSE Severed(d.items[i], gone)
      /\ \A i \in Ids : entries[i] = IF i \in gone THEN None ELSE d.index[i]
  OBVIOUS
<1> HIDE DEF e, left, entries, texts
<1>5. e \in Databases
  BY <1>1, <1>2, <1>3 DEF Databases
<1>6. /\ e.items = left /\ e.index = entries /\ e.backed = d.backed \ gone
      /\ e.scheduled = d.scheduled \ gone /\ e.next = d.next /\ e.ok = d.ok
  BY <1>1 DEF Databases
<1>7. ASSUME NEW i \in Ids PROVE left[i] # None <=> i \notin gone /\ d.items[i] # None
  <2>1. d.items[i] # None => Severed(d.items[i], gone) \in Item
    BY SeveredRow DEF Databases
  <2> QED
    BY <2>1, <1>4, NoneIsNoRow
<1>8. Present(e) = Present(d) \ gone
  BY <1>6, <1>7 DEF Present
<1>9. \A i \in Present(e) :
         e.items[i] = Severed(d.items[i], gone) /\ e.index[i] = d.index[i]
  BY <1>4, <1>6, <1>8, PresentIds DEF Present
<1> QED
  BY <1>4, <1>5, <1>6, <1>8, <1>9 DEF e

LEMMA WithoutKeeps ==
    ASSUME NEW d, Good(d), NEW gone
    PROVE  Good(Without(d, gone)) /\ Evolves(d, Without(d, gone))
<1> DEFINE e == Without(d, gone)
<1>1. /\ e \in Databases
      /\ Present(e) = Present(d) \ gone
      /\ \A i \in Present(e) :
            e.items[i] = Severed(d.items[i], gone) /\ e.index[i] = d.index[i]
      /\ \A i \in Ids : i \notin Present(e) => e.index[i] \in {None, d.index[i]}
      /\ \A i \in gone \intersect Ids : e.index[i] = None
      /\ e.backed = d.backed \ gone /\ e.scheduled = d.scheduled \ gone
      /\ e.next = d.next /\ e.ok = d.ok
  BY WithoutParts DEF Good
<1> HIDE DEF e
<1>2. ASSUME NEW i \in Present(e)
      PROVE  LET left == e.items[i]
                 row == d.items[i] IN
             /\ i \in Present(d) /\ i \in Ids /\ row \in Item /\ left \in Item
             /\ left = Severed(row, gone)
             /\ left.target \in {row.target, None} /\ left.target \notin gone \ {None}
             /\ left.fact = row.fact /\ left.sensitive = row.sensitive
             /\ left.status = row.status /\ left.kind = row.kind
             /\ left.version = row.version
  <2>1. i \in Present(d) /\ d.items[i] \in Item /\ i \in Ids
    BY <1>1, RowType, PresentIds DEF Good
  <2> QED
    BY <2>1, <1>1, SeveredRow
<1>3. Refers(e)
  BY <1>1, <1>2 DEF Good, Refers
<1>4. IndexFits(e)
  <2> SUFFICES ASSUME NEW i \in Ids
               PROVE  e.index[i] = IF i \in Present(e) /\ e.items[i].status \in Indexed
                                   THEN e.items[i].fact ELSE None
    BY DEF IndexFits
  <2>1. CASE i \in Present(e)
    BY <2>1, <1>1, <1>2 DEF Good, IndexFits
  <2>2. CASE i \notin Present(e)
    BY <2>2, <1>1 DEF Good, IndexFits
  <2> QED
    BY <2>1, <2>2
<1>5. Sound(e)
  <2>1. ASSUME NEW i \in Present(e) PROVE Note(e.items[i]) /\ Classified(e.items[i])
    BY <1>2 DEF Good, Sound, Note, Classified, Counts
  <2>2. ASSUME NEW i \in Present(e), NEW k \in Present(e)
        PROVE  Agree(e.items[i], e.items[k])
    <3>1. Agree(d.items[i], d.items[k])
      BY <1>2 DEF Good, Sound
    <3> QED
      BY <3>1, <1>2 DEF Agree, Counts
  <2> QED
    BY <2>1, <2>2 DEF Sound
<1>6. Evolves(d, e)
  <2>1. ASSUME NEW i \in Present(e) PROVE Grows(d.items[i], e.items[i])
    <3>1. d.items[i].kind = "work" => d.items[i].target = None
      BY <1>2 DEF Good, Sound, Note
    <3>2. d.items[i].kind = "work" => e.items[i] = d.items[i]
      <4>1. ASSUME NEW row \in Item, row.target = None
            PROVE  [row EXCEPT !.target = None] = row
        BY <4>1 DEF Item
      <4> QED
        BY <3>1, <4>1, <1>2 DEF Severed
    <3>3. d.items[i].version \in Nat
      BY <1>2 DEF Item
    <3> QED
      BY <3>2, <3>3, <1>2 DEF Grows
  <2>2. d.next \in Nat
    BY ItemsBounded DEF Good, Refers
  <2> QED
    BY <2>1, <2>2, <1>1 DEF Evolves
<1> QED
  BY <1>1, <1>3, <1>4, <1>5, <1>6 DEF Good, e

-----------------------------------------------------------------------------
(* Support for a row, and insertion.                                       *)

LEMMA BackedBeside ==
    ASSUME NEW d, d \in Databases, NEW i \in Ids, NEW p
    PROVE  /\ Beside(d, Backed(d, i, p), i) /\ Backed(d, i, p).next = d.next
           /\ Beside(d, [Backed(d, i, p) EXCEPT !.next = @ + 1], i)
           /\ [Backed(d, i, p) EXCEPT !.next = @ + 1].next = d.next + 1
<1> DEFINE support == IF p.direct THEN d.backed \union {i} ELSE d.backed
<1>1. support \in SUBSET Ids /\ support \subseteq d.backed \union {i}
  BY DEF Databases
<1>2. Backed(d, i, p) = [d EXCEPT !.backed = support]
  BY DEF Backed
<1> HIDE DEF support
<1>3. d.next + 1 \in Nat
  BY DEF Databases
<1> QED
  BY <1>1, <1>2, <1>3 DEF Beside, Databases

\* Row i may hold fact, sensitive or not, beside the other rows.
Fits(d, i, fact, sensitive) ==
    /\ fact \in Private => sensitive
    /\ \A k \in Present(d) \ {i} :
          Counts(d.items[k]) /\ d.items[k].fact = fact => d.items[k].sensitive = sensitive

LEMMA NoCollision ==
    ASSUME NEW d, NEW f, NEW sensitive, NEW i, ~Collides(d, f, sensitive, i),
           f \in Private => sensitive
    PROVE  /\ Fits(d, i, f, sensitive)
           /\ \A k \in Twins(d, f, i) :
                 d.items[k].fact = f /\ d.items[k].sensitive = sensitive
BY DEF Collides, Twins, Alive, Fits, Counts

LEMMA FitsAgree ==
    ASSUME NEW d, NEW i, NEW row, Fits(d, i, row.fact, row.sensitive)
    PROVE  Classified(row) /\ \A k \in Present(d) \ {i} : Agree(row, d.items[k])
BY DEF Fits, Classified, Agree, Counts

LEMMA AwakeIs ==
    ASSUME NEW status \in Statuses
    PROVE  /\ Awake(status) \in Statuses
           /\ Awake(status) \in Live <=> status \in Live
           /\ status \in Indexed => Awake(status) \in Indexed
BY DEF Awake, Statuses, Live, Indexed

LEMMA ReinforcedKeeps ==
    ASSUME NEW d, Good(d), NEW i \in Present(d), NEW p, NEW promote,
           p.kind \in {"ordinary", "work"},
           p.kind = "work" => d.items[i].kind = "work",
           \/ d.items[i].kind # "work" \/ p.kind = "work"
           \/ Fits(d, i, d.items[i].fact, d.items[i].sensitive)
    PROVE  LET e == Reinforced(d, i, p, promote) IN
           /\ Good(e) /\ Evolves(d, e) /\ Present(e) = Present(d)
           /\ \A k \in Present(d) : e.items[k].fact = d.items[k].fact
           /\ \A k \in Present(d) : k # i => e.items[k] = d.items[k]
           /\ \A item : (d.items[i].status = "contradicted" => i = item) =>
                  Preserves(d, e, item)
<1> DEFINE it == d.items[i]
           status == IF promote THEN Awake(it.status) ELSE it.status
           new == [it EXCEPT !.status = status, !.kind = p.kind]
           row == [new EXCEPT !.version = @ + 1]
           e == Reinforced(d, i, p, promote)
<1>1. d \in Databases /\ i \in Ids /\ it \in Item
  BY PresentIds, RowType DEF Good
<1>2. /\ status \in Statuses /\ (status \in Live <=> it.status \in Live)
      /\ it.status \in Indexed => status \in Indexed
  BY <1>1, AwakeIs DEF Item
<1>3. new \in Item
  BY <1>1, <1>2 DEF Item
<1>4. e = Save(Backed(d, i, p), i, new, {it.fact})
  BY DEF Reinforced
<1>5. /\ row \in Item /\ row.fact = it.fact /\ row.sensitive = it.sensitive
      /\ row.status = status /\ row.target = it.target /\ row.kind = p.kind
      /\ row.version = it.version + 1 /\ it.version \in Nat
  <2>1. /\ new.fact = it.fact /\ new.sensitive = it.sensitive /\ new.status = status
        /\ new.target = it.target /\ new.kind = p.kind /\ new.version = it.version
        /\ it.version \in Nat
    BY <1>1 DEF Item
  <2> HIDE DEF new
  <2> QED
    BY <2>1, <1>3 DEF Item
<1>6. it.fact \in Facts /\ {it.fact} \in SUBSET Facts
  BY <1>1 DEF Item
<1> HIDE DEF status, new, e
<1>7. Put(d, e, i, row) /\ e.next = d.next
  <2>1. Beside(d, Backed(d, i, p), i) /\ Backed(d, i, p).next = d.next
    BY <1>1, BackedBeside
  <2> QED
    BY <2>1, <1>1, <1>3, <1>4, <1>6, SavePuts
<1> HIDE DEF row
<1>8. Note(row)
  BY <1>2, <1>5 DEF Good, Sound, Note
<1>9. Grows(it, row) /\ it.version < row.version
  BY <1>5 DEF Grows
<1>10. row.target \in Present(d) \union {None}
  BY <1>5 DEF Good, Refers
<1>11. Classified(row) /\ \A k \in Present(d) \ {i} : Agree(row, d.items[k])
  <2>1. CASE p.kind = "work"
    BY <2>1, <1>5 DEF Classified, Agree, Counts
  <2>2. CASE Fits(d, i, it.fact, it.sensitive)
    BY <2>2, <1>5, FitsAgree
  <2>3. CASE it.kind # "work"
    <3>1. Classified(it) /\ \A k \in Present(d) : Agree(it, d.items[k])
      BY DEF Good, Sound
    <3>2. Counts(row) => Counts(it)
      BY <2>3, <1>2, <1>5 DEF Counts
    <3> QED
      BY <3>1, <3>2, <1>5 DEF Classified, Agree
  <2> QED
    BY <2>1, <2>2, <2>3
<1>12. Good(e) /\ Evolves(d, e)
  BY <1>1, <1>5, <1>7, <1>8, <1>9, <1>10, <1>11, PutKeeps
<1>13. /\ e.items[i] = row
       /\ \A k \in Ids : k # i => e.items[k] = d.items[k]
       /\ Present(e) = Present(d)
  <2>1. Present(e) = Present(d) \union {i}
    BY <1>1, <1>5, <1>7, PutPresent
  <2> QED
    BY <2>1, <1>1, <1>5, <1>7, PutRows
<1>14. ASSUME NEW item, it.status = "contradicted" => i = item PROVE Preserves(d, e, item)
  BY <1>14, <1>1, <1>5, <1>7, PutPreserves
<1> QED
  BY <1>5, <1>12, <1>13, <1>14, PresentIds DEF e

LEMMA SupportKeeps ==
    ASSUME NEW d, Good(d), NEW i \in Present(d), NEW p, NEW promote,
           p.kind = "ordinary",
           d.items[i].kind # "work" \/ Fits(d, i, d.items[i].fact, d.items[i].sensitive)
    PROVE  Good(Reinforced(d, i, p, promote)) /\ Evolves(d, Reinforced(d, i, p, promote))
<1> p.kind # "work"
  OBVIOUS
<1> QED
  BY ReinforcedKeeps

LEMMA NoteKeeps ==
    ASSUME NEW d, Good(d), NEW i \in Present(d), NEW p, NEW promote,
           p.kind = "work", d.items[i].kind = "work"
    PROVE  LET e == Reinforced(d, i, p, promote) IN
           /\ Good(e) /\ Evolves(d, e) /\ Present(e) = Present(d)
           /\ \A k \in Present(d) : e.items[k].fact = d.items[k].fact
           /\ \A k \in Present(d) : k # i => e.items[k] = d.items[k]
<1> p.kind \in {"ordinary", "work"}
  OBVIOUS
<1> QED
  BY ReinforcedKeeps

LEMMA SupportPreserves ==
    ASSUME NEW d, Good(d), NEW i \in Present(d), NEW p, NEW promote,
           p.kind = "ordinary",
           d.items[i].kind # "work" \/ Fits(d, i, d.items[i].fact, d.items[i].sensitive)
    PROVE  Preserves(d, Reinforced(d, i, p, promote), i)
<1>1. p.kind # "work"
  OBVIOUS
<1>2. \A item : (d.items[i].status = "contradicted" => i = item) =>
                  Preserves(d, Reinforced(d, i, p, promote), item)
  BY <1>1, ReinforcedKeeps
<1> QED
  BY <1>2

\* Nothing comes of a step that raised.
LEMMA RaisedFails ==
    ASSUME NEW d, d \in Databases, NEW e \in Raised(d) PROVE e.ok = FALSE
BY DEF Raised, Databases

\* The effect of an insertion, or of one of its duplicates, on the others.
Spares(d, e) ==
    /\ Good(e) /\ Evolves(d, e) /\ Present(d) \subseteq Present(e)
    /\ \A item : Preserves(d, e, item)

LEMMA AddedKeeps ==
    ASSUME NEW d, Good(d), NEW b, NEW new \in Item, NEW texts \in SUBSET Facts,
           d.next \in Ids, Beside(d, b, d.next), b.next = d.next + 1,
           new.target \in Present(d) \union {None}, Note(new), Classified(new),
           \A k \in Present(d) : Agree(new, d.items[k])
    PROVE  LET e == Save(b, d.next, new, texts) IN
           Spares(d, e) /\ \A k \in Present(d) : e.items[k] = d.items[k]
<1> DEFINE i == d.next
           e == Save(b, d.next, new, texts)
           row == [new EXCEPT !.version = @ + 1]
<1>1. d \in Databases /\ i \in Ids
  BY DEF Good
<1>2. Put(d, e, i, row) /\ row \in Item /\ e.next = d.next + 1
  BY <1>1, SavePuts
<1>3. /\ row.fact = new.fact /\ row.sensitive = new.sensitive /\ row.status = new.status
      /\ row.target = new.target /\ row.kind = new.kind
  BY DEF Item
<1> HIDE DEF e, row
<1>4. Present(d) \subseteq Ids /\ Ids \subseteq Nat
  BY PresentIds DEF Ids
<1>5. i \notin Present(d)
  BY <1>4, ItemsBounded DEF Good, Refers
<1>6. /\ Note(row) /\ Classified(row) /\ row.target \in Present(d) \union {None}
      /\ \A k \in Present(d) \ {i} : Agree(row, d.items[k])
  BY <1>3 DEF Note, Classified, Agree, Counts
<1>7. Good(e) /\ Evolves(d, e)
  BY <1>1, <1>2, <1>6, PutKeeps
<1>8. /\ \A k \in Ids : k # i => e.items[k] = d.items[k]
      /\ Present(e) = Present(d) \union {i}
  BY <1>1, <1>2, PutRows, PutPresent
<1>9. ASSUME NEW item PROVE Preserves(d, e, item)
  BY <1>1, <1>2, <1>5, PutPreserves
<1>10. \A k \in Present(d) : k \in Present(e) /\ e.items[k] = d.items[k]
  BY <1>4, <1>5, <1>8
<1> QED
  BY <1>7, <1>9, <1>10 DEF Spares, e

LEMMA InsertedKeeps ==
    ASSUME NEW d, Good(d), NEW p, NEW goal \in Present(d) \union {None},
           p.fact \in Facts, p.sensitive \in BOOLEAN, p.kind \in {"ordinary", "work"},
           NewStatus(p) \in Live,
           p.kind = "ordinary" => (p.fact \in Private => p.sensitive),
           p.kind = "work" =>
               /\ NewStatus(p) = "active" /\ goal = None
               /\ \A i \in Duplicates(d, p.fact, None, None) : d.items[i].kind = "work",
           NEW e \in Inserted(d, p, goal), e.ok
    PROVE  /\ Spares(d, e)
           /\ \A k \in Present(d) : e.items[k].fact = d.items[k].fact
           /\ p.kind = "work" =>
                  \A k \in Present(d) : d.items[k].kind # "work" => e.items[k] = d.items[k]
<1> DEFINE sensitive == p.sensitive \/ (goal # None /\ d.items[goal].sensitive)
           duplicates == Duplicates(d, p.fact, goal, None)
           new == [fact |-> p.fact, sensitive |-> sensitive, status |-> NewStatus(p),
                   target |-> goal, kind |-> p.kind, version |-> 0]
<1>1. d \in Databases /\ d.ok = TRUE
  BY DEF Good
<1>2. sensitive \in BOOLEAN
  <2>1. goal # None => d.items[goal] \in Item
    BY <1>1, RowType
  <2> QED
    BY <2>1 DEF Item
<1>3. Present(d) \subseteq Ids /\ Ids \subseteq Nat /\ None \notin Present(d)
  BY PresentIds, NoneIsNothing DEF Ids
<1>4. e \in IF Collides(d, p.fact, sensitive, None) THEN Raised(d)
            ELSE IF duplicates # {}
            THEN {Reinforced(d, i, p, NewStatus(p) = "active") : i \in duplicates}
            ELSE {Save([Backed(d, i, p) EXCEPT !.next = @ + 1], i, new, {p.fact}) :
                     i \in {d.next} \intersect Ids}
  BY DEF Inserted
<1> HIDE DEF sensitive
<1>5. ~Collides(d, p.fact, sensitive, None)
  BY <1>1, <1>4, RaisedFails
<1>6. CASE duplicates # {}
  <2>1. PICK i \in duplicates : e = Reinforced(d, i, p, NewStatus(p) = "active")
    BY <1>4, <1>5, <1>6
  <2>2. i \in Twins(d, p.fact, None) /\ d.items[i].target = goal
    BY <2>1 DEF Duplicates
  <2>3. i \in Present(d) /\ d.items[i].status \in Live /\ d.items[i].fact = p.fact
    BY <2>2 DEF Twins, Alive
  <2>4. p.kind = "work" => d.items[i].kind = "work"
    BY <2>1
  <2>5. d.items[i].kind # "work" \/ p.kind = "work"
            \/ Fits(d, i, d.items[i].fact, d.items[i].sensitive)
    <3>1. CASE p.kind = "ordinary"
      <4>1. p.fact \in Private => sensitive
        BY <3>1 DEF sensitive
      <4>2. Fits(d, None, p.fact, sensitive) /\ d.items[i].sensitive = sensitive
        BY <4>1, <1>5, <2>2, NoCollision
      <4>3. Fits(d, i, p.fact, sensitive)
        BY <4>2, <1>3 DEF Fits
      <4> QED
        BY <4>2, <4>3, <2>3
    <3> QED
      BY <3>1
  <2>6. d.items[i].status # "contradicted"
    BY <2>3 DEF Live
  <2>7. /\ Good(e) /\ Evolves(d, e) /\ Present(e) = Present(d)
        /\ \A k \in Present(d) : e.items[k].fact = d.items[k].fact
        /\ \A k \in Present(d) : k # i => e.items[k] = d.items[k]
        /\ \A item : Preserves(d, e, item)
    BY <2>1, <2>3, <2>4, <2>5, <2>6, ReinforcedKeeps
  <2> QED
    BY <2>7, <2>4 DEF Spares
<1>7. CASE duplicates = {}
  <2> DEFINE i == d.next
             b == [Backed(d, i, p) EXCEPT !.next = @ + 1]
  <2>1. i \in Ids /\ e = Save(b, i, new, {p.fact})
    BY <1>4, <1>5, <1>7
  <2>2. new \in Item
    BY <1>2, <1>3 DEF Item, Statuses, Live
  <2>3. /\ new.fact = p.fact /\ new.sensitive = sensitive /\ new.status = NewStatus(p)
        /\ new.target = goal /\ new.kind = p.kind
    OBVIOUS
  <2> HIDE DEF new
  <2>4. Beside(d, b, i) /\ b.next = d.next + 1
    BY <1>1, <2>1, BackedBeside
  <2>5. {p.fact} \in SUBSET Facts
    OBVIOUS
  <2> HIDE DEF b
  <2>6. Note(new)
    BY <2>3 DEF Note, Indexed
  <2>7. Classified(new) /\ \A k \in Present(d) : Agree(new, d.items[k])
    <3>1. CASE p.kind = "work"
      BY <3>1, <2>3 DEF Classified, Agree, Counts
    <3>2. CASE p.kind = "ordinary"
      <4>1. p.fact \in Private => sensitive
        BY <3>2 DEF sensitive
      <4>2. Fits(d, None, new.fact, new.sensitive)
        BY <4>1, <1>5, <2>3, NoCollision
      <4> QED
        BY <4>2, <1>3, FitsAgree
    <3> QED
      BY <3>1, <3>2
  <2>8. Good(d) /\ new \in Item /\ d.next \in Ids /\ new.target \in Present(d) \union {None}
        /\ Beside(d, b, d.next) /\ b.next = d.next + 1
    BY <2>1, <2>2, <2>3, <2>4
  <2>9. /\ Spares(d, Save(b, d.next, new, {p.fact}))
        /\ \A k \in Present(d) : Save(b, d.next, new, {p.fact}).items[k] = d.items[k]
    BY <2>5, <2>6, <2>7, <2>8, AddedKeeps
  <2>10. Spares(d, e) /\ \A k \in Present(d) : e.items[k] = d.items[k]
    BY <2>1, <2>9
  <2> QED
    BY <2>10
<1> QED
  BY <1>6, <1>7

-----------------------------------------------------------------------------
(* Applying a proposal.                                                    *)

Proposals ==
    [op : ContentOps \union {"reinforce", "merge", "forget"}, item : Ids \union {None},
     related : SUBSET Ids, fact : Facts \union {None}, sensitive : BOOLEAN,
     sure : BOOLEAN, asked : {None} \union Live, target : Ids \union {None},
     kind : {"ordinary"}, user : BOOLEAN, direct : BOOLEAN]

\* p is a proposal that d can take, as the validator leaves them.
Content(p) == p.fact \in Facts /\ (p.fact \in Private => p.sensitive)
Ready(d, p) ==
    /\ p \in Proposals
    /\ p.item = None <=> p.op \in {"add", "mark_candidate"}
    /\ p.op \in {"reinforce", "merge", "contradict"} /\ p.item \in Present(d) =>
           d.items[p.item].kind # "work"
    /\ p.target \in Present(d) \union {None}
    /\ p.op \in ContentOps => Content(p)
    /\ p.sure \/ p.op \notin ContentOps \/ p.op = "mark_candidate"

\* What a proposal may do.
Takes(d, e, p) ==
    /\ Good(e) /\ Evolves(d, e)
    /\ ~p.user => Preserves(d, e, p.item)

LEMMA NewStatusIs ==
    ASSUME NEW p \in Proposals PROVE NewStatus(p) \in Live
BY DEF Proposals, NewStatus, Live

LEMMA TwinPresent ==
    ASSUME NEW d, NEW f, NEW goal, NEW item, NEW i \in Duplicates(d, f, goal, item)
    PROVE  /\ i \in Present(d) /\ i \in Twins(d, f, item) /\ i # item
           /\ d.items[i].status \in Live /\ d.items[i].fact = f /\ d.items[i].target = goal
BY DEF Duplicates, Twins, Alive

LEMMA InsertKeeps ==
    ASSUME NEW d, Good(d), NEW p \in Proposals, Content(p),
           p.target \in Present(d) \union {None},
           NEW e \in Insert(d, p), e.ok
    PROVE  Spares(d, e)
<1>1. \E goal \in Present(d) \union {None} : e \in Inserted(d, p, goal)
  <2> DEFINE matches == Duplicates(d, p.fact, None, None)
             Target(i) == IF d.items[i].status = "candidate" THEN None ELSE i
  <2>1. e \in IF NewStatus(p) # "candidate" \/ p.target # None THEN Inserted(d, p, p.target)
              ELSE IF Collides(d, p.fact, p.sensitive, None) THEN Raised(d)
              ELSE IF matches = {} THEN Inserted(d, p, None)
              ELSE UNION {Inserted(d, p, Target(i)) : i \in matches}
    BY DEF Insert
  <2>2. e \notin Raised(d)
    BY RaisedFails DEF Good
  <2>3. \A i \in matches : Target(i) \in Present(d) \union {None}
    BY TwinPresent
  <2> HIDE DEF matches, Target
  <2> QED
    BY <2>1, <2>2, <2>3
<1>2. PICK goal \in Present(d) \union {None} : e \in Inserted(d, p, goal)
  BY <1>1
<1>3. p.fact \in Facts /\ p.sensitive \in BOOLEAN /\ p.kind = "ordinary"
  BY DEF Content, Proposals
<1>4. p.fact \in Private => p.sensitive
  BY DEF Content
<1>5. NewStatus(p) \in Live
  BY NewStatusIs
<1>6. "ordinary" # "work"
  OBVIOUS
<1> QED
  BY <1>2, <1>3, <1>4, <1>5, <1>6, InsertedKeeps

LEMMA MergedKeeps ==
    ASSUME NEW d, Good(d), NEW i \in Present(d), NEW related, NEW p \in Proposals,
           \/ d.items[i].kind # "work"
           \/ /\ d.items[i].fact \in Private => d.items[i].sensitive
              /\ \A k \in Present(d) \ (related \union {i}) :
                    Counts(d.items[k]) /\ d.items[k].fact = d.items[i].fact =>
                        d.items[k].sensitive = d.items[i].sensitive,
           NEW e \in Merged(d, i, related, p), e.ok
    PROVE  Takes(d, e, p)
<1> DEFINE gone == related \ {i}
           w == Without(d, gone)
<1>1. d \in Databases
  BY DEF Good
<1>2. p.user /\ e = Reinforced(w, i, p, TRUE)
  BY <1>1, RaisedFails DEF Merged, MayDelete
<1>3. Good(w) /\ Evolves(d, w)
  BY WithoutKeeps
<1>4. /\ Present(w) = Present(d) \ gone
      /\ \A k \in Present(w) : w.items[k] = Severed(d.items[k], gone)
  BY <1>1, WithoutParts
<1> HIDE DEF w
<1>5. i \in Present(w)
  BY <1>4
<1>6. \A k \in Present(w) :
         /\ k \in Present(d) /\ k \notin related \ {i}
         /\ w.items[k].fact = d.items[k].fact /\ w.items[k].sensitive = d.items[k].sensitive
         /\ w.items[k].status = d.items[k].status /\ w.items[k].kind = d.items[k].kind
  BY <1>1, <1>4, RowType, SeveredRow
<1>7. w.items[i].kind # "work" \/ Fits(w, i, w.items[i].fact, w.items[i].sensitive)
  BY <1>5, <1>6 DEF Fits, Counts
<1>8. p.kind = "ordinary"
  BY DEF Proposals
<1>9. Good(e) /\ Evolves(w, e)
  <2>1. Good(w)
    BY <1>3
  <2>2. Good(Reinforced(w, i, p, TRUE)) /\ Evolves(w, Reinforced(w, i, p, TRUE))
    BY <1>5, <1>7, <1>8, <2>1, SupportKeeps
  <2> QED
    BY <1>2, <2>2
<1> QED
  BY <1>2, <1>3, <1>9, EvolvesOn DEF Takes

LEMMA RevisedKeeps ==
    ASSUME NEW d, Good(d), NEW p \in Proposals, Content(p), p.item \in Present(d),
           NEW e \in Revised(d, p), e.ok
    PROVE  Takes(d, e, p)
<1> DEFINE it == d.items[p.item]
           duplicates == Duplicates(d, p.fact, None, p.item)
           new == [it EXCEPT !.fact = p.fact, !.sensitive = p.sensitive, !.kind = p.kind,
                             !.status = IF p.asked = None THEN @ ELSE p.asked]
<1>1. /\ d \in Databases /\ p.item \in Ids /\ it \in Item
      /\ p.fact \in Facts /\ p.sensitive \in BOOLEAN /\ p.kind = "ordinary"
      /\ p.asked \in {None} \union Live
  BY PresentIds, RowType DEF Good, Content, Proposals
<1>2. e \in IF (it.sensitive /\ ~p.sensitive) \/ Collides(d, p.fact, p.sensitive, p.item)
            THEN Raised(d)
            ELSE IF duplicates # {}
            THEN UNION {Merged(d, i, {p.item}, p) : i \in duplicates}
            ELSE IF p.fact = it.fact /\ p.sensitive = it.sensitive
            THEN {Reinforced(d, p.item, p, TRUE)}
            ELSE {Save(Backed(d, p.item, p), p.item, new, {it.fact, p.fact})}
  BY DEF Revised
<1>3. e \notin Raised(d)
  BY <1>1, RaisedFails
<1>4. (it.sensitive => p.sensitive) /\ ~Collides(d, p.fact, p.sensitive, p.item)
  BY <1>2, <1>3
<1>5. /\ Fits(d, p.item, p.fact, p.sensitive)
      /\ \A k \in Twins(d, p.fact, p.item) :
            d.items[k].fact = p.fact /\ d.items[k].sensitive = p.sensitive
  BY <1>4, NoCollision DEF Content
<1>6. CASE duplicates # {}
  <2>1. PICK i \in duplicates : e \in Merged(d, i, {p.item}, p)
    BY <1>2, <1>3, <1>6
  <2>2. i \in Present(d) /\ i \in Twins(d, p.fact, p.item)
    BY <2>1, TwinPresent
  <2>3. d.items[i].fact = p.fact /\ d.items[i].sensitive = p.sensitive
    BY <1>5, <2>2
  <2>4. d.items[i].fact \in Private => d.items[i].sensitive
    BY <2>3 DEF Content
  <2>5. \A k \in Present(d) \ ({p.item} \union {i}) :
           Counts(d.items[k]) /\ d.items[k].fact = d.items[i].fact =>
               d.items[k].sensitive = d.items[i].sensitive
    BY <1>5, <2>3 DEF Fits
  <2> QED
    BY <2>1, <2>2, <2>4, <2>5, MergedKeeps
<1>7. CASE duplicates = {} /\ p.fact = it.fact /\ p.sensitive = it.sensitive
  <2>1. e = Reinforced(d, p.item, p, TRUE)
    BY <1>2, <1>3, <1>7
  <2>2. Fits(d, p.item, it.fact, it.sensitive)
    BY <1>5, <1>7
  <2>3. Good(e) /\ Evolves(d, e)
    BY <1>1, <2>1, <2>2, SupportKeeps
  <2>4. Preserves(d, e, p.item)
    BY <1>1, <2>1, <2>2, SupportPreserves
  <2> QED
    BY <2>3, <2>4 DEF Takes
<1>8. CASE duplicates = {} /\ ~(p.fact = it.fact /\ p.sensitive = it.sensitive)
  <2> DEFINE row == [new EXCEPT !.version = @ + 1]
             b == Backed(d, p.item, p)
  <2>1. e = Save(b, p.item, new, {it.fact, p.fact})
    BY <1>2, <1>3, <1>8
  <2>2. new \in Item
    BY <1>1 DEF Item, Statuses, Live
  <2>3. /\ new.fact = p.fact /\ new.sensitive = p.sensitive /\ new.target = it.target
        /\ new.kind = "ordinary" /\ new.version = it.version
    BY <1>1 DEF Item
  <2> HIDE DEF new
  <2>4. Beside(d, b, p.item) /\ b.next = d.next
    BY <1>1, BackedBeside
  <2>5. {it.fact, p.fact} \in SUBSET Facts
    BY <1>1 DEF Item
  <2> HIDE DEF b
  <2>6. Put(d, e, p.item, row) /\ row \in Item /\ e.next = d.next
    BY <1>1, <2>1, <2>2, <2>4, <2>5, SavePuts
  <2>7. /\ row.fact = p.fact /\ row.sensitive = p.sensitive /\ row.target = it.target
        /\ row.kind = "ordinary" /\ row.version = it.version + 1 /\ it.version \in Nat
    BY <1>1, <2>2, <2>3 DEF Item
  <2> HIDE DEF row
  <2>8. Note(row) /\ Grows(it, row) /\ it.version < row.version
    BY <2>7 DEF Note, Grows
  <2>9. row.target \in Present(d) \union {None}
    BY <2>7 DEF Good, Refers
  <2>10. Classified(row) /\ \A k \in Present(d) \ {p.item} : Agree(row, d.items[k])
    BY <1>5, <2>7, FitsAgree
  <2>11. Good(e) /\ Evolves(d, e)
    BY <1>1, <2>6, <2>8, <2>9, <2>10, PutKeeps
  <2>12. Preserves(d, e, p.item)
    BY <1>1, <1>4, <2>6, <2>7, PutPreserves
  <2> QED
    BY <2>11, <2>12 DEF Takes
<1> QED
  BY <1>6, <1>7, <1>8

LEMMA PreservesOn ==
    ASSUME NEW d, NEW e, NEW f, NEW item, Preserves(d, e, item), Preserves(e, f, item)
    PROVE  Preserves(d, f, item)
<1> SUFFICES ASSUME NEW i \in Present(d)
             PROVE  /\ i \in Present(f)
                    /\ d.history[i] \subseteq f.history[i]
                    /\ d.items[i].sensitive => f.items[i].sensitive
                    /\ d.items[i].status = "contradicted" /\ i # item =>
                           f.items[i] = d.items[i]
  BY DEF Preserves
<1>1. /\ i \in Present(e)
      /\ d.history[i] \subseteq e.history[i]
      /\ d.items[i].sensitive => e.items[i].sensitive
      /\ d.items[i].status = "contradicted" /\ i # item => e.items[i] = d.items[i]
  BY DEF Preserves
<1>2. /\ i \in Present(f)
      /\ e.history[i] \subseteq f.history[i]
      /\ e.items[i].sensitive => f.items[i].sensitive
      /\ e.items[i].status = "contradicted" /\ i # item => f.items[i] = e.items[i]
  BY <1>1 DEF Preserves
<1> QED
  BY <1>1, <1>2

LEMMA ContradictedKeeps ==
    ASSUME NEW d, Good(d), NEW p \in Proposals, Content(p), p.item \in Present(d),
           d.items[p.item].kind # "work", p.target \in Present(d) \union {None},
           NEW e \in Contradicted(d, p), e.ok
    PROVE  Takes(d, e, p)
<1> DEFINE it == d.items[p.item]
           new == [it EXCEPT !.status = "contradicted"]
           row == [new EXCEPT !.version = @ + 1]
           s == Save(d, p.item, new, {it.fact, p.fact})
           q == [p EXCEPT !.op = "add", !.sensitive = @ \/ it.sensitive]
<1>1. /\ d \in Databases /\ p.item \in Ids /\ it \in Item
      /\ p.fact \in Facts /\ p.sensitive \in BOOLEAN
  BY PresentIds, RowType DEF Good, Content, Proposals
<1>2. new \in Item
  BY <1>1 DEF Item, Statuses
<1>3. /\ new.fact = it.fact /\ new.sensitive = it.sensitive /\ new.target = it.target
      /\ new.kind = it.kind /\ new.version = it.version /\ new.status = "contradicted"
  BY <1>1 DEF Item
<1>4. {it.fact, p.fact} \in SUBSET Facts
  BY <1>1 DEF Item
<1>5. Beside(d, d, p.item)
  BY <1>1 DEF Beside
<1>6. e \in Insert(s, q)
  BY DEF Contradicted
<1> HIDE DEF new, s
<1>7. Put(d, s, p.item, row) /\ row \in Item /\ s.next = d.next
  BY <1>1, <1>2, <1>4, <1>5, SavePuts DEF s
<1>8. /\ row.fact = it.fact /\ row.sensitive = it.sensitive /\ row.target = it.target
      /\ row.kind = it.kind /\ row.version = it.version + 1 /\ it.version \in Nat
      /\ row.status = "contradicted"
  BY <1>1, <1>2, <1>3 DEF Item
<1> HIDE DEF row
<1>9. Note(row) /\ Grows(it, row) /\ it.version < row.version /\ ~Counts(row)
  BY <1>8 DEF Note, Grows, Counts, Live
<1>10. row.target \in Present(d) \union {None}
  BY <1>8 DEF Good, Refers
<1>11. Classified(row) /\ \A k \in Present(d) \ {p.item} : Agree(row, d.items[k])
  BY <1>9 DEF Classified, Agree
<1>12. Good(s) /\ Evolves(d, s)
  BY <1>1, <1>7, <1>9, <1>10, <1>11, PutKeeps
<1>13. Preserves(d, s, p.item)
  BY <1>1, <1>7, <1>8, PutPreserves
<1>14. Present(s) = Present(d) \union {p.item}
  BY <1>1, <1>7, PutPresent
<1>15. it.sensitive \in BOOLEAN
  BY <1>1 DEF Item
<1>16. q \in Proposals /\ q.target = p.target /\ q.fact = p.fact
  BY <1>15 DEF Proposals, ContentOps
<1>17. p.sensitive => q.sensitive
  BY DEF Proposals
<1> HIDE DEF q
<1>18. Content(q)
  BY <1>16, <1>17 DEF Content
<1>19. Spares(s, e)
  BY <1>6, <1>12, <1>14, <1>16, <1>18, InsertKeeps
<1>20. Good(e) /\ Evolves(d, e)
  BY <1>12, <1>19, EvolvesOn DEF Spares
<1>21. Preserves(d, e, p.item)
  BY <1>13, <1>19, PreservesOn DEF Spares
<1> QED
  BY <1>20, <1>21 DEF Takes

LEMMA IsolatedReady ==
    ASSUME NEW d, NEW p, Ready(d, p)
    PROVE  Isolated(d, p) = p
<1>1. CASE p.sure \/ p.op \notin ContentOps
  BY <1>1 DEF Isolated, ContentOps
<1>2. CASE p.op = "mark_candidate"
  <2>1. p.item = None
    BY <1>2 DEF Ready
  <2>2. [p EXCEPT !.op = "mark_candidate"] = p
    BY <1>2 DEF Ready, Proposals
  <2> QED
    BY <2>1, <2>2 DEF Isolated
<1> QED
  BY <1>1, <1>2 DEF Ready

\* A proposal that is ready does no harm, whatever it is.
LEMMA ApplyKeeps ==
    ASSUME NEW d, Good(d), NEW p, Ready(d, p), NEW e \in Apply(d, p), e.ok
    PROVE  Takes(d, e, p)
<1>1. d \in Databases /\ p \in Proposals
  BY DEF Good, Ready
<1>2. e \notin Raised(d)
  BY <1>1, RaisedFails
<1>3. p.item \in Present(d) \union {None}
  BY <1>2 DEF Apply
<1>4. Isolated(d, p) = p
  BY IsolatedReady
<1>5. CASE p.op \in {"add", "mark_candidate"}
  <2>1. e \in Insert(d, p)
    BY <1>3, <1>4, <1>5 DEF Apply
  <2>2. Content(p) /\ p.target \in Present(d) \union {None}
    BY <1>5 DEF Ready, ContentOps
  <2>3. Spares(d, e)
    BY <1>1, <2>1, <2>2, InsertKeeps
  <2> QED
    BY <2>3 DEF Spares, Takes
<1>6. ASSUME p.op \notin {"add", "mark_candidate"} PROVE p.item \in Present(d)
  BY <1>3, <1>6 DEF Ready
<1>7. CASE p.op = "forget"
  <2>1. p.user /\ e = Without(d, {p.item})
    BY <1>2, <1>3, <1>4, <1>7 DEF Apply, MayDelete
  <2> QED
    BY <2>1, WithoutKeeps DEF Takes
<1>8. CASE p.op = "merge"
  <2>1. e \in Merged(d, p.item, p.related \intersect Present(d), p)
    BY <1>3, <1>4, <1>8 DEF Apply
  <2>2. p.item \in Present(d) /\ d.items[p.item].kind # "work"
    BY <1>6, <1>8 DEF Ready
  <2> QED
    BY <1>1, <2>1, <2>2, MergedKeeps
<1>9. CASE p.op = "reinforce"
  <2>1. e = Reinforced(d, p.item, p, TRUE)
    BY <1>3, <1>4, <1>9 DEF Apply
  <2>2. p.item \in Present(d) /\ d.items[p.item].kind # "work"
    BY <1>6, <1>9 DEF Ready
  <2>3. p.kind = "ordinary"
    BY <1>1 DEF Proposals
  <2>4. Good(e) /\ Evolves(d, e) /\ Preserves(d, e, p.item)
    BY <2>1, <2>2, <2>3, SupportKeeps, SupportPreserves
  <2> QED
    BY <2>4 DEF Takes
<1>10. CASE p.op = "revise"
  <2>1. e \in Revised(d, p)
    BY <1>3, <1>4, <1>10 DEF Apply
  <2>2. p.item \in Present(d) /\ Content(p)
    BY <1>6, <1>10 DEF Ready, ContentOps
  <2> QED
    BY <1>1, <2>1, <2>2, RevisedKeeps
<1>11. CASE p.op = "contradict"
  <2>1. e \in Contradicted(d, p)
    BY <1>3, <1>4, <1>11 DEF Apply
  <2>2. p.item \in Present(d) /\ Content(p) /\ d.items[p.item].kind # "work"
    BY <1>6, <1>11 DEF Ready, ContentOps
  <2>3. p.target \in Present(d) \union {None}
    BY DEF Ready
  <2> QED
    BY <1>1, <2>1, <2>2, <2>3, ContradictedKeeps
<1> QED
  BY <1>1, <1>5, <1>7, <1>8, <1>9, <1>10, <1>11 DEF Proposals, ContentOps

-----------------------------------------------------------------------------
(* A transaction.                                                          *)

\* p is ready, about a row of d that may still change; only the curator names
\* an item that a candidate is about.
Vetted(d, p) ==
    /\ Ready(d, p)
    /\ p.item # None => p.item \in Alive(d)
    /\ p.user => p.target = None

\* What a batch of the curator, or of the user, may do.
Leads(d, e, user) ==
    /\ Good(e) /\ Evolves(d, e)
    /\ ~user => Preserves(d, e, None)

LEMMA ReadyLater ==
    ASSUME NEW d, Good(d), NEW e, NEW p, Vetted(d, p), Leads(d, e, p.user)
    PROVE  Ready(e, p)
<1>1. p.op \in {"reinforce", "merge", "contradict"} /\ p.item \in Present(e) =>
          e.items[p.item].kind # "work"
  <2> SUFFICES ASSUME p.op \in {"reinforce", "merge", "contradict"}, p.item \in Present(e)
               PROVE  e.items[p.item].kind # "work"
    OBVIOUS
  <2>1. p.item # None
    BY PresentIds, NoneIsNothing DEF Ids
  <2>2. p.item \in Present(d)
    BY <2>1 DEF Vetted, Alive
  <2>3. d.items[p.item].kind # "work"
    BY <2>2 DEF Vetted, Ready
  <2> QED
    BY <2>2, <2>3 DEF Leads, Evolves, Grows
<1>2. p.target \in Present(e) \union {None}
  <2>1. CASE p.user
    BY <2>1 DEF Vetted
  <2>2. CASE ~p.user
    BY <2>2 DEF Vetted, Ready, Leads, Preserves
  <2> QED
    BY <2>1, <2>2
<1> QED
  BY <1>1, <1>2 DEF Vetted, Ready

LEMMA LeadsOn ==
    ASSUME NEW d, Good(d), NEW e, NEW p, Vetted(d, p), Leads(d, e, p.user),
           NEW f \in Apply(e, p), f.ok
    PROVE  Leads(d, f, p.user)
<1>1. Good(e) /\ Evolves(d, e)
  BY DEF Leads
<1>2. Takes(e, f, p)
  BY <1>1, ReadyLater, ApplyKeeps
<1>3. Good(f) /\ Evolves(d, f)
  BY <1>1, <1>2, EvolvesOn DEF Takes
<1>4. ASSUME ~p.user PROVE Preserves(d, f, None)
  <2> SUFFICES ASSUME NEW i \in Present(d)
               PROVE  /\ i \in Present(f)
                      /\ d.history[i] \subseteq f.history[i]
                      /\ d.items[i].sensitive => f.items[i].sensitive
                      /\ d.items[i].status = "contradicted" => f.items[i] = d.items[i]
    BY DEF Preserves
  <2>1. i # None
    BY PresentIds, NoneIsNothing DEF Ids
  <2>2. /\ i \in Present(e)
        /\ d.history[i] \subseteq e.history[i]
        /\ d.items[i].sensitive => e.items[i].sensitive
        /\ d.items[i].status = "contradicted" => e.items[i] = d.items[i]
    BY <1>4, <2>1 DEF Leads, Preserves
  <2>3. /\ i \in Present(f)
        /\ e.history[i] \subseteq f.history[i]
        /\ e.items[i].sensitive => f.items[i].sensitive
        /\ e.items[i].status = "contradicted" /\ i # p.item => f.items[i] = e.items[i]
    BY <1>2, <1>4, <2>2 DEF Takes, Preserves
  <2>4. d.items[i].status = "contradicted" => i # p.item
    BY <2>1 DEF Vetted, Alive, Live
  <2> QED
    BY <2>2, <2>3, <2>4
<1> QED
  BY <1>3, <1>4 DEF Leads

\* The batches of the store, one proposal after another.
LEMMA ReviewSteps ==
    ASSUME NEW d, NEW ps, Len(ps) \in Nat
    PROVE  \E after :
              /\ after[0] = {d}
              /\ \A n \in 1..Len(ps) : after[n] = Applied(after[n - 1], ps[n])
              /\ ReviewTransaction(d, ps) = after[Len(ps)]
<1> DEFINE N == Len(ps)
           Is(f, k) == f = [n \in 0..k |-> IF n = 0 THEN {d}
                                           ELSE Applied(f[n - 1], ps[n])]
           S == {k \in 0..N : \E f : Is(f, k)}
           after == CHOOSE f : Is(f, N)
<1>1. 0 \in S
  <2> DEFINE f == [n \in 0..0 |-> {d}]
  <2>1. Is(f, 0)
    OBVIOUS
  <2>2. 0 \in 0..N
    OBVIOUS
  <2> HIDE DEF f
  <2>3. \E h : Is(h, 0)
    BY <2>1
  <2> QED
    BY <2>2, <2>3
<1>2. ASSUME NEW k \in 0..N, k \in S, k < N PROVE k + 1 \in S
  <2>1. PICK f : Is(f, k)
    BY <1>2
  <2> DEFINE g == [n \in 0..(k + 1) |-> IF n =< k THEN f[n]
                                        ELSE Applied(f[k], ps[k + 1])]
  <2>2. ASSUME NEW n \in 0..(k + 1)
        PROVE  g[n] = IF n = 0 THEN {d} ELSE Applied(g[n - 1], ps[n])
    <3>1. CASE n = 0
      <4>1. g[0] = f[0]
        OBVIOUS
      <4>2. f[0] = {d}
        BY <2>1
      <4> QED
        BY <3>1, <4>1, <4>2
    <3>2. CASE n # 0 /\ n =< k
      <4>1. g[n] = f[n] /\ g[n - 1] = f[n - 1]
        BY <3>2
      <4>2. n \in 0..k
        BY <3>2
      <4>3. f[n] = Applied(f[n - 1], ps[n])
        BY <2>1, <3>2, <4>2
      <4> QED
        BY <3>2, <4>1, <4>3
    <3>3. CASE n = k + 1
      <4>1. g[n] = Applied(f[k], ps[k + 1]) /\ g[k] = f[k] /\ n - 1 = k
        BY <3>3
      <4> QED
        BY <3>3, <4>1
    <3> QED
      BY <3>1, <3>2, <3>3
  <2>3. Is(g, k + 1)
    <3> DEFINE h == [n \in 0..(k + 1) |-> IF n = 0 THEN {d}
                                          ELSE Applied(g[n - 1], ps[n])]
    <3>1. \A n \in 0..(k + 1) : g[n] = h[n]
      BY <2>2
    <3>2. DOMAIN g = 0..(k + 1) /\ DOMAIN h = 0..(k + 1)
      OBVIOUS
    <3>3. g = [n \in 0..(k + 1) |-> g[n]] /\ h = [n \in 0..(k + 1) |-> h[n]]
      OBVIOUS
    <3> HIDE DEF g
    <3>4. g = h
      BY <3>1, <3>2, <3>3
    <3> QED
      BY <3>4
  <2>4. k + 1 \in 0..N
    BY <1>2
  <2> QED
    BY <2>3, <2>4
<1>3. N \in S
  <2> HIDE DEF S
  <2>1. N \in Nat
    OBVIOUS
  <2> HIDE DEF N
  <2>2. 0..N \subseteq S
    BY <1>1, <1>2, <2>1, IntervalInduction
  <2> QED
    BY <2>1, <2>2
<1>4. Is(after, N)
  BY <1>3 DEF S
<1>5. ReviewTransaction(d, ps) = after[N]
  BY DEF ReviewTransaction
<1> HIDE DEF after
<1>6. after[0] = {d}
  BY <1>4
<1>7. ASSUME NEW n \in 1..N PROVE after[n] = Applied(after[n - 1], ps[n])
  <2>1. n \in 0..N /\ n # 0
    OBVIOUS
  <2> QED
    BY <1>4, <2>1
<1> QED
  BY <1>5, <1>6, <1>7


\* The batches of a job, one proposal after another.
LEMMA JobSteps ==
    ASSUME NEW d, NEW ps, Len(ps) \in Nat
    PROVE  \E after :
              /\ after[0] = {d}
              /\ \A n \in 1..Len(ps) : after[n] = AgentSteps(after[n - 1], ps[n])
              /\ AgentTransaction(d, ps) = after[Len(ps)]
<1> DEFINE N == Len(ps)
           Is(f, k) == f = [n \in 0..k |-> IF n = 0 THEN {d}
                                           ELSE AgentSteps(f[n - 1], ps[n])]
           S == {k \in 0..N : \E f : Is(f, k)}
           after == CHOOSE f : Is(f, N)
<1>1. 0 \in S
  <2> DEFINE f == [n \in 0..0 |-> {d}]
  <2>1. Is(f, 0)
    OBVIOUS
  <2>2. 0 \in 0..N
    OBVIOUS
  <2> HIDE DEF f
  <2>3. \E h : Is(h, 0)
    BY <2>1
  <2> QED
    BY <2>2, <2>3
<1>2. ASSUME NEW k \in 0..N, k \in S, k < N PROVE k + 1 \in S
  <2>1. PICK f : Is(f, k)
    BY <1>2
  <2> DEFINE g == [n \in 0..(k + 1) |-> IF n =< k THEN f[n]
                                        ELSE AgentSteps(f[k], ps[k + 1])]
  <2>2. ASSUME NEW n \in 0..(k + 1)
        PROVE  g[n] = IF n = 0 THEN {d} ELSE AgentSteps(g[n - 1], ps[n])
    <3>1. CASE n = 0
      <4>1. g[0] = f[0]
        OBVIOUS
      <4>2. f[0] = {d}
        BY <2>1
      <4> QED
        BY <3>1, <4>1, <4>2
    <3>2. CASE n # 0 /\ n =< k
      <4>1. g[n] = f[n] /\ g[n - 1] = f[n - 1]
        BY <3>2
      <4>2. n \in 0..k
        BY <3>2
      <4>3. f[n] = AgentSteps(f[n - 1], ps[n])
        BY <2>1, <3>2, <4>2
      <4> QED
        BY <3>2, <4>1, <4>3
    <3>3. CASE n = k + 1
      <4>1. g[n] = AgentSteps(f[k], ps[k + 1]) /\ g[k] = f[k] /\ n - 1 = k
        BY <3>3
      <4> QED
        BY <3>3, <4>1
    <3> QED
      BY <3>1, <3>2, <3>3
  <2>3. Is(g, k + 1)
    <3> DEFINE h == [n \in 0..(k + 1) |-> IF n = 0 THEN {d}
                                          ELSE AgentSteps(g[n - 1], ps[n])]
    <3>1. \A n \in 0..(k + 1) : g[n] = h[n]
      BY <2>2
    <3>2. DOMAIN g = 0..(k + 1) /\ DOMAIN h = 0..(k + 1)
      OBVIOUS
    <3>3. g = [n \in 0..(k + 1) |-> g[n]] /\ h = [n \in 0..(k + 1) |-> h[n]]
      OBVIOUS
    <3> HIDE DEF g
    <3>4. g = h
      BY <3>1, <3>2, <3>3
    <3> QED
      BY <3>4
  <2>4. k + 1 \in 0..N
    BY <1>2
  <2> QED
    BY <2>3, <2>4
<1>3. N \in S
  <2> HIDE DEF S
  <2>1. N \in Nat
    OBVIOUS
  <2> HIDE DEF N
  <2>2. 0..N \subseteq S
    BY <1>1, <1>2, <2>1, IntervalInduction
  <2> QED
    BY <2>1, <2>2
<1>4. Is(after, N)
  BY <1>3 DEF S
<1>5. AgentTransaction(d, ps) = after[N]
  BY DEF AgentTransaction
<1> HIDE DEF after
<1>6. after[0] = {d}
  BY <1>4
<1>7. ASSUME NEW n \in 1..N PROVE after[n] = AgentSteps(after[n - 1], ps[n])
  <2>1. n \in 0..N /\ n # 0
    OBVIOUS
  <2> QED
    BY <1>4, <2>1
<1> QED
  BY <1>5, <1>6, <1>7


\* The batches of the validator, one proposal after another.
LEMMA ValidatorSteps ==
    ASSUME NEW d, NEW ps, Len(ps) \in Nat
    PROVE  \E after :
              /\ after[0] = {[st |-> Staged(d), accepted |-> <<>>]}
              /\ \A n \in 1..Len(ps) : after[n] = Decided(after[n - 1], ps[n])
              /\ Accepted(d, ps) = {v.accepted : v \in after[Len(ps)]}
<1> DEFINE N == Len(ps)
           Is(f, k) == f = [n \in 0..k |-> IF n = 0 THEN {[st |-> Staged(d), accepted |-> <<>>]}
                                           ELSE Decided(f[n - 1], ps[n])]
           S == {k \in 0..N : \E f : Is(f, k)}
           after == CHOOSE f : Is(f, N)
<1>1. 0 \in S
  <2> DEFINE f == [n \in 0..0 |-> {[st |-> Staged(d), accepted |-> <<>>]}]
  <2>1. Is(f, 0)
    OBVIOUS
  <2>2. 0 \in 0..N
    OBVIOUS
  <2> HIDE DEF f
  <2>3. \E h : Is(h, 0)
    BY <2>1
  <2> QED
    BY <2>2, <2>3
<1>2. ASSUME NEW k \in 0..N, k \in S, k < N PROVE k + 1 \in S
  <2>1. PICK f : Is(f, k)
    BY <1>2
  <2> DEFINE g == [n \in 0..(k + 1) |-> IF n =< k THEN f[n]
                                        ELSE Decided(f[k], ps[k + 1])]
  <2>2. ASSUME NEW n \in 0..(k + 1)
        PROVE  g[n] = IF n = 0 THEN {[st |-> Staged(d), accepted |-> <<>>]} ELSE Decided(g[n - 1], ps[n])
    <3>1. CASE n = 0
      <4>1. g[0] = f[0]
        OBVIOUS
      <4>2. f[0] = {[st |-> Staged(d), accepted |-> <<>>]}
        BY <2>1
      <4> QED
        BY <3>1, <4>1, <4>2
    <3>2. CASE n # 0 /\ n =< k
      <4>1. g[n] = f[n] /\ g[n - 1] = f[n - 1]
        BY <3>2
      <4>2. n \in 0..k
        BY <3>2
      <4>3. f[n] = Decided(f[n - 1], ps[n])
        BY <2>1, <3>2, <4>2
      <4> QED
        BY <3>2, <4>1, <4>3
    <3>3. CASE n = k + 1
      <4>1. g[n] = Decided(f[k], ps[k + 1]) /\ g[k] = f[k] /\ n - 1 = k
        BY <3>3
      <4> QED
        BY <3>3, <4>1
    <3> QED
      BY <3>1, <3>2, <3>3
  <2>3. Is(g, k + 1)
    <3> DEFINE h == [n \in 0..(k + 1) |-> IF n = 0 THEN {[st |-> Staged(d), accepted |-> <<>>]}
                                          ELSE Decided(g[n - 1], ps[n])]
    <3>1. \A n \in 0..(k + 1) : g[n] = h[n]
      BY <2>2
    <3>2. DOMAIN g = 0..(k + 1) /\ DOMAIN h = 0..(k + 1)
      OBVIOUS
    <3>3. g = [n \in 0..(k + 1) |-> g[n]] /\ h = [n \in 0..(k + 1) |-> h[n]]
      OBVIOUS
    <3> HIDE DEF g
    <3>4. g = h
      BY <3>1, <3>2, <3>3
    <3> QED
      BY <3>4
  <2>4. k + 1 \in 0..N
    BY <1>2
  <2> QED
    BY <2>3, <2>4
<1>3. N \in S
  <2> HIDE DEF S
  <2>1. N \in Nat
    OBVIOUS
  <2> HIDE DEF N
  <2>2. 0..N \subseteq S
    BY <1>1, <1>2, <2>1, IntervalInduction
  <2> QED
    BY <2>1, <2>2
<1>4. Is(after, N)
  BY <1>3 DEF S
<1>5. Accepted(d, ps) = {v.accepted : v \in after[N]}
  BY DEF Accepted
<1> HIDE DEF after
<1>6. after[0] = {[st |-> Staged(d), accepted |-> <<>>]}
  BY <1>4
<1>7. ASSUME NEW n \in 1..N PROVE after[n] = Decided(after[n - 1], ps[n])
  <2>1. n \in 0..N /\ n # 0
    OBVIOUS
  <2> QED
    BY <1>4, <2>1
<1> QED
  BY <1>5, <1>6, <1>7

LEMMA TransactionKeeps ==
    ASSUME NEW d, Good(d), NEW ps, Len(ps) \in Nat, NEW user,
           \A n \in 1..Len(ps) : Vetted(d, ps[n]) /\ ps[n].user = user,
           NEW e \in ReviewTransaction(d, ps), e.ok
    PROVE  Leads(d, e, user)
<1> DEFINE N == Len(ps)
<1>1. PICK after : /\ after[0] = {d}
                   /\ \A n \in 1..N : after[n] = Applied(after[n - 1], ps[n])
                   /\ ReviewTransaction(d, ps) = after[N]
  BY ReviewSteps
<1> HIDE DEF N
<1>2. N \in Nat
  BY DEF N
<1> DEFINE S == {n \in 0..N : \A f \in after[n] : f.ok => Leads(d, f, user)}
<1>3. 0 \in S
  <2>1. Leads(d, d, user)
    BY EvolvesSame, PreservesSame DEF Leads
  <2> QED
    BY <1>1, <1>2, <2>1
<1>4. ASSUME NEW k \in 0..N, k \in S, k < N PROVE k + 1 \in S
  <2>1. k + 1 \in 1..N /\ k + 1 \in 0..N
    BY <1>2, <1>4
  <2>2. after[k + 1] = Applied(after[k], ps[k + 1])
    <3>1. (k + 1) - 1 = k
      BY <1>2
    <3> QED
      BY <1>1, <2>1, <3>1
  <2>3. Vetted(d, ps[k + 1]) /\ ps[k + 1].user = user
    BY <2>1 DEF N
  <2>4. ASSUME NEW f \in after[k + 1], f.ok PROVE Leads(d, f, user)
    <3>1. PICK g \in after[k] : f \in IF g.ok THEN Apply(g, ps[k + 1]) ELSE {g}
      BY <2>2, <2>4 DEF Applied
    <3>2. g.ok /\ f \in Apply(g, ps[k + 1])
      BY <3>1, <2>4
    <3>3. Leads(d, g, user)
      BY <3>1, <3>2, <1>4
    <3>4. Leads(d, g, ps[k + 1].user)
      BY <3>3, <2>3
    <3>5. Leads(d, f, ps[k + 1].user)
      BY <2>3, <2>4, <3>2, <3>4, LeadsOn
    <3> QED
      BY <3>5, <2>3
  <2> QED
    BY <2>1, <2>4
<1>5. N \in S
  <2> HIDE DEF S
  <2>1. 0..N \subseteq S
    BY <1>2, <1>3, <1>4, IntervalInduction
  <2> QED
    BY <1>2, <2>1
<1> QED
  BY <1>1, <1>5
-----------------------------------------------------------------------------
(* What an Agent proposes about its notes.                                 *)

\* A job's batch leaves every other row alone, and rewrites a note only if a
\* proposal has at least its version.
Rewritten(d, i, p) ==
    p.op = "revise" /\ p.item = i /\ d.items[i].version =< p.version

LeavesOthers(d, e) ==
    /\ Good(e) /\ Evolves(d, e) /\ Present(d) \subseteq Present(e)
    /\ \A i \in Present(d) : d.items[i].kind # "work" => e.items[i] = d.items[i]

AgentProposals ==
    [op : {"add", "revise"}, fact : Facts, item : Ids \union {None}, version : Nat]

LEMMA AgentStepKeeps ==
    ASSUME NEW d, Good(d), NEW p \in AgentProposals, NEW e \in AgentStep(d, p), e.ok
    PROVE  /\ LeavesOthers(d, e)
           /\ \A i \in Present(d) : e.items[i].fact # d.items[i].fact =>
                  p.op = "revise" /\ p.item = i /\ d.items[i].version = p.version
<1>1. d \in Databases /\ p.op \in {"add", "revise"} /\ p.fact \in Facts
  BY DEF Good, AgentProposals
<1>2. e \notin Raised(d)
  BY <1>1, RaisedFails
<1>3. CASE p.op = "add"
  <2> DEFINE note == WorkNote(p)
             same == Duplicates(d, p.fact, None, None)
  <2>1. \/ same = {} /\ e \in Inserted(d, note, None)
        \/ \E i \in same : d.items[i].kind = "work" /\ e = Reinforced(d, i, note, TRUE)
    BY <1>2, <1>3 DEF AgentStep, AgentNote
  <2>2. /\ note.fact = p.fact /\ note.sensitive = FALSE /\ note.kind = "work"
        /\ NewStatus(note) = "active"
    BY DEF WorkNote, NewStatus
  <2> HIDE DEF note
  <2>3. CASE same = {} /\ e \in Inserted(d, note, None)
    <3>1. /\ note.fact \in Facts /\ note.sensitive \in BOOLEAN
          /\ note.kind \in {"ordinary", "work"} /\ note.kind # "ordinary"
          /\ NewStatus(note) \in Live
          /\ None \in Present(d) \union {None}
          /\ \A i \in Duplicates(d, note.fact, None, None) : d.items[i].kind = "work"
      BY <1>1, <2>2, <2>3 DEF Live
    <3>2. /\ Spares(d, e)
          /\ \A k \in Present(d) : e.items[k].fact = d.items[k].fact
          /\ \A k \in Present(d) : d.items[k].kind # "work" => e.items[k] = d.items[k]
      BY <2>2, <2>3, <3>1, InsertedKeeps
    <3> QED
      BY <3>2 DEF Spares, LeavesOthers
  <2>4. CASE \E i \in same : d.items[i].kind = "work" /\ e = Reinforced(d, i, note, TRUE)
    <3>1. PICK i \in same : d.items[i].kind = "work" /\ e = Reinforced(d, i, note, TRUE)
      BY <2>4
    <3>2. i \in Present(d) /\ note.kind = "work" /\ d.items[i].kind = "work"
      BY <2>2, <3>1, TwinPresent
    <3>3. /\ Good(e) /\ Evolves(d, e) /\ Present(e) = Present(d)
          /\ \A k \in Present(d) : e.items[k].fact = d.items[k].fact
          /\ \A k \in Present(d) : k # i => e.items[k] = d.items[k]
      <4>1. PICK promote : promote = TRUE
        OBVIOUS
      <4>2. e = Reinforced(d, i, note, promote)
        BY <3>1, <4>1
      <4> QED
        BY <3>2, <4>2, NoteKeeps
    <3> QED
      BY <3>1, <3>3 DEF LeavesOthers
  <2> QED
    BY <2>1, <2>3, <2>4
<1>4. CASE p.op = "revise"
  <2> DEFINE it == d.items[p.item]
             new == [it EXCEPT !.fact = p.fact]
             row == [new EXCEPT !.version = @ + 1]
  <2>1. /\ p.item \in Present(d) /\ it.kind = "work" /\ it.version = p.version
        /\ e = Save(d, p.item, new, {it.fact, p.fact})
    BY <1>2, <1>4 DEF AgentStep, Fresh
  <2>2. p.item \in Ids /\ it \in Item
    BY <1>1, <2>1, PresentIds, RowType
  <2>3. new \in Item /\ {it.fact, p.fact} \in SUBSET Facts
    BY <1>1, <2>2 DEF Item
  <2>4. /\ new.fact = p.fact /\ new.status = it.status /\ new.target = it.target
        /\ new.kind = it.kind /\ new.version = it.version
    BY <2>2 DEF Item
  <2>5. Beside(d, d, p.item)
    BY <1>1 DEF Beside
  <2> HIDE DEF new
  <2>6. Put(d, e, p.item, row) /\ row \in Item /\ e.next = d.next
    BY <1>1, <2>1, <2>2, <2>3, <2>5, SavePuts
  <2>7. /\ row.status = it.status /\ row.target = it.target /\ row.kind = "work"
        /\ row.version = it.version + 1 /\ it.version \in Nat
    BY <2>1, <2>2, <2>3, <2>4 DEF Item
  <2> HIDE DEF row
  <2>8. Note(it) /\ it.target \in Present(d) \union {None}
    BY <2>1 DEF Good, Sound, Refers
  <2>9. /\ Note(row) /\ Grows(it, row) /\ it.version < row.version /\ ~Counts(row)
        /\ row.target \in Present(d) \union {None}
    BY <2>1, <2>7, <2>8 DEF Note, Grows, Counts
  <2>10. Classified(row) /\ \A k \in Present(d) \ {p.item} : Agree(row, d.items[k])
    BY <2>9 DEF Classified, Agree
  <2>11. Good(e) /\ Evolves(d, e)
    BY <2>1, <2>2, <2>6, <2>9, <2>10, PutKeeps
  <2>12. Present(e) = Present(d) \union {p.item}
    BY <1>1, <2>2, <2>6, PutPresent
  <2>13. \A k \in Ids : k # p.item => e.items[k] = d.items[k]
    BY <1>1, <2>2, <2>6, PutRows
  <2>14. \A k \in Present(d) : k # p.item => e.items[k] = d.items[k]
    BY <2>13, PresentIds
  <2> QED
    BY <1>4, <2>1, <2>11, <2>12, <2>14 DEF LeavesOthers
<1> QED
  BY <1>1, <1>3, <1>4

LEMMA JobKeeps ==
    ASSUME NEW d, Good(d), NEW ps, Len(ps) \in Nat,
           \A n \in 1..Len(ps) : ps[n] \in AgentProposals,
           NEW e \in AgentTransaction(d, ps), e.ok
    PROVE  /\ LeavesOthers(d, e)
           /\ \A i \in Present(d) : e.items[i].fact # d.items[i].fact =>
                  \E m \in 1..Len(ps) : Rewritten(d, i, ps[m])
<1> DEFINE N == Len(ps)
           Fine(f) == /\ LeavesOthers(d, f)
                      /\ \A i \in Present(d) : f.items[i].fact # d.items[i].fact =>
                             \E m \in 1..N : Rewritten(d, i, ps[m])
<1>1. PICK after : /\ after[0] = {d}
                   /\ \A n \in 1..N : after[n] = AgentSteps(after[n - 1], ps[n])
                   /\ AgentTransaction(d, ps) = after[N]
  BY JobSteps
<1> HIDE DEF N
<1>2. N \in Nat
  BY DEF N
<1> DEFINE S == {n \in 0..N : \A f \in after[n] : f.ok => Fine(f)}
<1>3. 0 \in S
  <2>1. Fine(d)
    BY EvolvesSame DEF LeavesOthers
  <2> QED
    BY <1>1, <1>2, <2>1
<1>4. ASSUME NEW k \in 0..N, k \in S, k < N PROVE k + 1 \in S
  <2>1. k + 1 \in 1..N /\ k + 1 \in 0..N
    BY <1>2, <1>4
  <2>2. after[k + 1] = AgentSteps(after[k], ps[k + 1])
    <3>1. (k + 1) - 1 = k
      BY <1>2
    <3> QED
      BY <1>1, <2>1, <3>1
  <2>3. ps[k + 1] \in AgentProposals
    BY <2>1 DEF N
  <2>4. ASSUME NEW f \in after[k + 1], f.ok PROVE Fine(f)
    <3>1. PICK g \in after[k] : f \in IF g.ok THEN AgentStep(g, ps[k + 1]) ELSE {g}
      BY <2>2, <2>4 DEF AgentSteps
    <3>2. g.ok /\ f \in AgentStep(g, ps[k + 1])
      BY <3>1, <2>4
    <3>3. Fine(g)
      BY <3>1, <3>2, <1>4
    <3>4. /\ LeavesOthers(g, f)
          /\ \A i \in Present(g) : f.items[i].fact # g.items[i].fact =>
                 /\ ps[k + 1].op = "revise" /\ ps[k + 1].item = i
                 /\ g.items[i].version = ps[k + 1].version
      BY <2>3, <2>4, <3>2, <3>3, AgentStepKeeps DEF LeavesOthers
    <3>5. Good(f) /\ Evolves(d, f)
      BY <3>3, <3>4, EvolvesOn DEF LeavesOthers
    <3>6. LeavesOthers(d, f)
      BY <3>3, <3>4, <3>5 DEF LeavesOthers
    <3>7. ASSUME NEW i \in Present(d), f.items[i].fact # d.items[i].fact
          PROVE  \E m \in 1..N : Rewritten(d, i, ps[m])
      <4>1. CASE g.items[i].fact # d.items[i].fact
        BY <4>1, <3>3
      <4>2. CASE g.items[i].fact = d.items[i].fact
        <5>1. i \in Present(g)
          BY <3>3 DEF LeavesOthers
        <5>2. /\ ps[k + 1].op = "revise" /\ ps[k + 1].item = i
              /\ g.items[i].version = ps[k + 1].version
          BY <3>4, <3>7, <4>2, <5>1
        <5>3. d.items[i].version =< g.items[i].version
          BY <3>3, <5>1 DEF LeavesOthers, Evolves, Grows
        <5> QED
          BY <2>1, <5>2, <5>3 DEF Rewritten
      <4> QED
        BY <4>1, <4>2
    <3> QED
      BY <3>6, <3>7
  <2> HIDE DEF Fine
  <2> QED
    BY <2>1, <2>4
<1>5. N \in S
  <2> HIDE DEF S
  <2>1. 0..N \subseteq S
    BY <1>2, <1>3, <1>4, IntervalInduction
  <2> QED
    BY <1>2, <2>1
<1>6. Fine(e)
  BY <1>1, <1>5
<1> QED
  BY <1>6 DEF N
-----------------------------------------------------------------------------
(* Maintenance.                                                            *)

LEMMA AgedRow ==
    ASSUME NEW row \in Item, row.status = "active", NEW sleeps
    PROVE  LET left == Aged(row, sleeps) IN
           /\ left \in Item
           /\ left.target = row.target /\ left.fact = row.fact /\ left.kind = row.kind
           /\ left.sensitive = row.sensitive /\ left.status \in Indexed
           /\ left.version = row.version + 1 /\ row.version \in Nat
<1> DEFINE status == IF sleeps THEN "dormant" ELSE row.status
<1>1. status \in Statuses /\ status \in Indexed
  BY DEF Statuses, Live, Indexed
<1>2. Aged(row, sleeps) = [row EXCEPT !.version = row.version + 1, !.status = status]
  BY DEF Aged
<1> HIDE DEF status
<1>3. row.version + 1 \in Nat
  BY DEF Item
<1> QED
  BY <1>1, <1>2, <1>3 DEF Item

LEMMA DecayedKeeps ==
    ASSUME NEW d, Good(d), NEW fading \in SUBSET Present(d), NEW sleeping,
           \A i \in fading : d.items[i].status = "active"
    PROVE  Good(Decayed(d, fading, sleeping)) /\ Evolves(d, Decayed(d, fading, sleeping))
<1> DEFINE e == Decayed(d, fading, sleeping)
           rows == [i \in Ids |-> IF i \in fading THEN Aged(d.items[i], i \in sleeping)
                                  ELSE d.items[i]]
<1>1. d \in Databases /\ Present(d) \subseteq Ids
  BY PresentIds DEF Good
<1>2. e = [d EXCEPT !.items = rows]
  BY DEF Decayed
<1>3. rows \in [Ids -> Item \union {None}]
  <2>1. \A i \in fading : Aged(d.items[i], i \in sleeping) \in Item
    BY <1>1, RowType, AgedRow
  <2> QED
    BY <1>1, <2>1 DEF Databases
<1>4. \A i \in Ids : rows[i] = IF i \in fading THEN Aged(d.items[i], i \in sleeping)
                               ELSE d.items[i]
  OBVIOUS
<1> HIDE DEF e, rows
<1>5. /\ e \in Databases /\ e.items = rows /\ e.index = d.index /\ e.ok = d.ok
      /\ e.backed = d.backed /\ e.scheduled = d.scheduled /\ e.next = d.next
  BY <1>1, <1>2, <1>3 DEF Databases
<1>6. ASSUME NEW i \in fading
      PROVE  LET left == e.items[i]
                 row == d.items[i] IN
             /\ i \in Present(d) /\ row \in Item /\ row.status = "active" /\ left \in Item
             /\ left.target = row.target /\ left.fact = row.fact /\ left.kind = row.kind
             /\ left.sensitive = row.sensitive /\ left.status \in Indexed
             /\ left.version = row.version + 1 /\ row.version \in Nat
  <2>1. i \in Present(d) /\ d.items[i] \in Item /\ i \in Ids
    BY <1>1, RowType
  <2>2. e.items[i] = Aged(d.items[i], i \in sleeping)
    BY <1>4, <1>5, <2>1
  <2> QED
    BY <2>1, <2>2, AgedRow
<1>7. \A i \in Ids : i \notin fading => e.items[i] = d.items[i]
  BY <1>4, <1>5
<1>8. Present(e) = Present(d)
  <2>1. \A i \in Ids : i \in Present(e) <=> i \in Present(d)
    BY <1>6, <1>7, NoneIsNoRow DEF Present
  <2> QED
    BY <2>1, PresentIds
<1>9. Refers(e)
  BY <1>1, <1>5, <1>6, <1>7, <1>8 DEF Good, Refers
<1>10. IndexFits(e)
  <2> SUFFICES ASSUME NEW i \in Ids
               PROVE  e.index[i] = IF i \in Present(e) /\ e.items[i].status \in Indexed
                                   THEN e.items[i].fact ELSE None
    BY DEF IndexFits
  <2>1. d.index[i] = IF i \in Present(d) /\ d.items[i].status \in Indexed
                     THEN d.items[i].fact ELSE None
    BY DEF Good, IndexFits
  <2>2. CASE i \in fading
    BY <2>1, <2>2, <1>5, <1>6, <1>8 DEF Indexed
  <2>3. CASE i \notin fading
    BY <2>1, <2>3, <1>5, <1>7, <1>8
  <2> QED
    BY <2>2, <2>3
<1>11. Sound(e)
  <2>1. ASSUME NEW i \in Present(e)
        PROVE  /\ i \in Present(d) /\ Note(e.items[i])
               /\ Counts(e.items[i]) => Counts(d.items[i])
               /\ e.items[i].fact = d.items[i].fact
               /\ e.items[i].sensitive = d.items[i].sensitive
    <3>1. i \in Present(d) /\ i \in Ids /\ Note(d.items[i])
      BY <1>1, <1>8 DEF Good, Sound
    <3>2. CASE i \in fading
      BY <3>1, <3>2, <1>6 DEF Note, Counts, Live
    <3>3. CASE i \notin fading
      BY <3>1, <3>3, <1>7
    <3> QED
      BY <3>1, <3>2, <3>3
  <2>2. ASSUME NEW i \in Present(e) PROVE Classified(e.items[i])
    BY <2>1 DEF Good, Sound, Classified
  <2>3. ASSUME NEW i \in Present(e), NEW k \in Present(e)
        PROVE  Agree(e.items[i], e.items[k])
    <3>1. Agree(d.items[i], d.items[k])
      BY <2>1 DEF Good, Sound
    <3> QED
      BY <3>1, <2>1 DEF Agree
  <2> QED
    BY <2>1, <2>2, <2>3 DEF Sound
<1>12. Evolves(d, e)
  <2>1. ASSUME NEW i \in Present(d) PROVE Grows(d.items[i], e.items[i])
    <3>1. CASE i \in fading
      BY <3>1, <1>6 DEF Grows
    <3>2. CASE i \notin fading
      <4>1. e.items[i] = d.items[i] /\ d.items[i] \in Item
        BY <3>2, <1>1, <1>7, RowType
      <4> QED
        BY <4>1 DEF Grows, Item
    <3> QED
      BY <3>1, <3>2
  <2>2. d.next \in Nat
    BY <1>1 DEF Databases
  <2> QED
    BY <2>1, <2>2, <1>5, <1>8 DEF Evolves
<1> QED
  BY <1>5, <1>9, <1>10, <1>11, <1>12 DEF Good, e

-----------------------------------------------------------------------------
(* The validator.                                                          *)

\* A proposal as a curator or a command hands it in, about rows of d.
Given(d, p) ==
    /\ p \in Proposals /\ p.op # "merge" /\ p.target = None
    /\ p.item = None <=> p.op \in {"add", "mark_candidate"}
    /\ p.item \in Present(d) \union {None}
    /\ p.op \in {"reinforce", "contradict"} => d.items[p.item].kind # "work"
    /\ p.op \in ContentOps => p.fact \in Facts
    /\ p.user => p.sure /\ p.op # "mark_candidate"

\* The staged rows are rows of d, and none that is open was closed in d.
Mirror(d, rows) ==
    /\ rows \in Databases
    /\ \A i \in Present(rows) :
          /\ i \in Present(d)
          /\ rows.items[i].kind = d.items[i].kind
          /\ rows.items[i].status \in Live => d.items[i].status \in Live

\* p is vetted, and its row is still open when it is staged.
Passed(d, rows, p) ==
    /\ Vetted(d, p)
    /\ p.item # None => p.item \in Alive(rows)
    /\ p.user => p.op # "mark_candidate"

LEMMA MirrorAlive ==
    ASSUME NEW d, NEW rows, Mirror(d, rows), NEW i \in Alive(rows)
    PROVE  i \in Alive(d) /\ i \in Present(d) /\ i \in Ids /\ rows.items[i] \in Item
<1>1. i \in Present(rows) /\ rows.items[i].status \in Live
  BY DEF Alive
<1>2. i \in Ids /\ rows.items[i] # None
  BY <1>1 DEF Present
<1> QED
  BY <1>1, <1>2 DEF Mirror, Alive, Databases

LEMMA AmbiguousPasses ==
    ASSUME NEW d, NEW st, Mirror(d, st.rows), NEW p, Given(d, p), Open(st, p),
           NEW q, q = [p EXCEPT !.sensitive = Sensitivity(st, p)]
    PROVE  Passed(d, st.rows, Ambiguous(q)) /\ Ambiguous(q).user = p.user
<1>1. p \in Proposals /\ None \notin Ids
  BY NoneIsNothing DEF Given, Ids
<1>2. p.item # None => p.item \in Alive(st.rows) /\ p.item \in Alive(d) /\ p.item \in Ids
  BY MirrorAlive DEF Open, Alive
<1>3. Sensitivity(st, p) \in BOOLEAN
  BY DEF Sensitivity
<1>4. /\ q \in Proposals /\ q.op = p.op /\ q.item = p.item /\ q.fact = p.fact
      /\ q.sensitive = Sensitivity(st, p) /\ q.sure = p.sure /\ q.target = None
      /\ q.user = p.user
  BY <1>1, <1>3 DEF Proposals, Given
<1>5. q.fact \in Private => q.sensitive
  BY <1>4 DEF Sensitivity
<1> HIDE DEF Sensitivity
<1>6. CASE q.sure \/ q.op \notin ContentOps
  <2>1. Ambiguous(q) = q
    BY <1>6 DEF Ambiguous
  <2>2. Ready(d, q)
    BY <1>4, <1>5, <1>6 DEF Ready, Given, Content
  <2>3. Vetted(d, q)
    BY <1>2, <1>4, <2>2 DEF Vetted
  <2> QED
    BY <1>2, <1>4, <2>1, <2>3 DEF Passed, Given
<1>7. CASE ~q.sure /\ q.op \in ContentOps
  <2> DEFINE goal == IF q.item = None THEN q.target ELSE q.item
             a == [q EXCEPT !.op = "mark_candidate", !.item = None, !.target = goal]
  <2>1. Ambiguous(q) = a
    BY <1>7 DEF Ambiguous
  <2>2. goal \in Present(d) \union {None} /\ goal \in Ids \union {None}
    BY <1>2, <1>4 DEF Alive
  <2> HIDE DEF goal
  <2>3. /\ a \in Proposals /\ a.op = "mark_candidate" /\ a.item = None /\ a.fact = q.fact
        /\ a.sensitive = q.sensitive /\ a.target = goal /\ a.user = q.user
    <3>1. "mark_candidate" \in ContentOps
      BY DEF ContentOps
    <3>2. q \in Proposals
      BY <1>4
    <3>3. "mark_candidate" \in ContentOps \union {"reinforce", "merge", "forget"}
      BY <3>1
    <3>4. None \in Ids \union {None}
      OBVIOUS
    <3>5. a \in Proposals
      BY <2>2, <3>2, <3>3, <3>4 DEF Proposals
    <3> QED
      BY <3>2, <3>5 DEF Proposals
  <2> HIDE DEF a
  <2>4. ~a.user
    BY <1>4, <1>7, <2>3 DEF Given
  <2>5. Content(a)
    BY <1>4, <1>5, <1>7, <2>3 DEF Content, Given
  <2>6. Ready(d, a)
    BY <2>2, <2>3, <2>5 DEF Ready
  <2>7. Vetted(d, a)
    BY <2>3, <2>4, <2>6 DEF Vetted
  <2> QED
    BY <1>4, <2>1, <2>3, <2>4, <2>7 DEF Passed
<1> QED
  BY <1>6, <1>7

LEMMA OntoPasses ==
    ASSUME NEW d, NEW st, Mirror(d, st.rows), NEW a, Passed(d, st.rows, a),
           a.op \in ContentOps, NEW i \in Matching(st, a), Onto(st, a, i) # Rejected
    PROVE  Passed(d, st.rows, Onto(st, a, i)) /\ Onto(st, a, i).user = a.user
<1>1. i \in Alive(st.rows) /\ st.rows.items[i].kind # "work"
  BY DEF Matching, Known, Twins
<1>2. /\ i \in Alive(d) /\ i \in Present(d) /\ i \in Ids /\ i # None
      /\ d.items[i].kind # "work"
  <2>1. i \in Alive(d) /\ i \in Present(d) /\ i \in Ids
    BY <1>1, MirrorAlive
  <2> QED
    BY <1>1, <2>1, NoneIsNothing DEF Mirror, Alive, Ids
<1>3. a \in Proposals /\ Vetted(d, a) /\ Ready(d, a)
  BY DEF Passed, Vetted, Ready
<1>4. CASE a.op = "mark_candidate"
  <2> DEFINE q == [a EXCEPT !.target = i]
  <2>1. Onto(st, a, i) \in {a, q}
    BY <1>4 DEF Onto
  <2>2. /\ q \in Proposals /\ q.op = a.op /\ q.item = a.item /\ q.fact = a.fact
        /\ q.sensitive = a.sensitive /\ q.sure = a.sure /\ q.target = i /\ q.user = a.user
    BY <1>2, <1>3 DEF Proposals
  <2> HIDE DEF q
  <2>3. ~a.user
    BY <1>4 DEF Passed
  <2>4. Passed(d, st.rows, q)
    BY <1>2, <1>3, <2>2, <2>3 DEF Passed, Vetted, Ready, Content
  <2> QED
    BY <2>1, <2>2, <2>4
<1>5. CASE a.op = "add"
  <2> DEFINE q == [a EXCEPT !.op = "reinforce", !.item = i, !.fact = None]
  <2>1. Onto(st, a, i) = q
    BY <1>5 DEF Onto
  <2>2. /\ q \in Proposals /\ q.op = "reinforce" /\ q.item = i /\ q.target = a.target
        /\ q.user = a.user
    BY <1>2, <1>3 DEF Proposals
  <2> HIDE DEF q
  <2>3. Passed(d, st.rows, q)
    BY <1>1, <1>2, <1>3, <2>2 DEF Passed, Vetted, Ready, ContentOps
  <2> QED
    BY <2>1, <2>2, <2>3
<1>6. CASE a.op = "revise"
  <2>1. a.item # None /\ a.item \in Alive(st.rows) /\ a.item \in Alive(d) /\ a.item \in Ids
    BY <1>3, <1>6, MirrorAlive DEF Passed, Ready
  <2>2. CASE i = a.item
    <3> DEFINE q == [a EXCEPT !.op = "reinforce", !.fact = None]
    <3>1. Onto(st, a, i) = q
      BY <1>6, <2>2 DEF Onto
    <3>2. /\ q \in Proposals /\ q.op = "reinforce" /\ q.item = i /\ q.target = a.target
          /\ q.user = a.user
      BY <1>3, <2>2 DEF Proposals
    <3> HIDE DEF q
    <3>3. Passed(d, st.rows, q)
      BY <1>1, <1>2, <1>3, <3>2 DEF Passed, Vetted, Ready, ContentOps
    <3> QED
      BY <3>1, <3>2, <3>3
  <2>3. CASE i # a.item
    <3> DEFINE q == [a EXCEPT !.op = "merge", !.item = i, !.related = {a.item},
                              !.fact = None]
    <3>1. Onto(st, a, i) = q
      BY <1>6, <2>3 DEF Onto
    <3>2. /\ q \in Proposals /\ q.op = "merge" /\ q.item = i /\ q.target = a.target
          /\ q.user = a.user
      BY <1>2, <1>3, <2>1 DEF Proposals
    <3> HIDE DEF q
    <3>3. Passed(d, st.rows, q)
      BY <1>1, <1>2, <1>3, <3>2 DEF Passed, Vetted, Ready, ContentOps
    <3> QED
      BY <3>1, <3>2, <3>3
  <2> QED
    BY <2>2, <2>3
<1>7. CASE a.op = "contradict"
  BY <1>7 DEF Onto
<1> QED
  BY <1>4, <1>5, <1>6, <1>7 DEF ContentOps

LEMMA ValidatedPasses ==
    ASSUME NEW d, NEW st, Mirror(d, st.rows), NEW given, Given(d, given),
           NEW p \in Validated(st, given), p # Rejected
    PROVE  Passed(d, st.rows, p) /\ p.user = given.user
<1> DEFINE q == [given EXCEPT !.sensitive = Sensitivity(st, given)]
           a == Ambiguous(q)
<1>1. Open(st, given)
  BY DEF Validated
<1>2. Passed(d, st.rows, a) /\ a.user = given.user
  BY <1>1, AmbiguousPasses
<1>3. p = a \/ (a.op \in ContentOps /\ \E i \in Matching(st, a) : p = Onto(st, a, i))
  BY DEF Validated
<1> HIDE DEF a
<1>4. CASE p = a
  BY <1>2, <1>4
<1>5. CASE a.op \in ContentOps /\ \E i \in Matching(st, a) : p = Onto(st, a, i)
  <2>1. PICK i \in Matching(st, a) : p = Onto(st, a, i)
    BY <1>5
  <2>2. Passed(d, st.rows, Onto(st, a, i)) /\ Onto(st, a, i).user = a.user
    BY <1>2, <1>5, <2>1, OntoPasses
  <2> QED
    BY <1>2, <2>1, <2>2
<1> QED
  BY <1>3, <1>4, <1>5

LEMMA StageMirrors ==
    ASSUME NEW d, NEW st, Mirror(d, st.rows), NEW p, Passed(d, st.rows, p)
    PROVE  Mirror(d, Stage(st, p).rows)
<1> DEFINE rows == st.rows
           left == [i \in Ids |-> IF i = p.item THEN StagedRow(rows.items[i], p)
                                  ELSE IF p.op = "merge" /\ i \in p.related THEN None
                                  ELSE rows.items[i]]
<1>1. p \in Proposals /\ Ready(d, p)
  BY DEF Passed, Vetted, Ready
<1>2. CASE p.item = None
  BY <1>2 DEF Stage
<1>3. CASE p.item # None
  <2>1. /\ p.item \in Alive(rows) /\ p.item \in Present(rows) /\ p.item \in Present(d)
        /\ p.item \in Ids /\ rows.items[p.item] \in Item /\ p.item \in Alive(d)
    BY <1>3, MirrorAlive DEF Passed, Alive
  <2>2. /\ StagedRow(rows.items[p.item], p) \in Item \union {None}
        /\ StagedRow(rows.items[p.item], p) # None =>
               StagedRow(rows.items[p.item], p).kind = rows.items[p.item].kind
    <3> DEFINE row == rows.items[p.item]
    <3>1. p.op \in {"forget", "merge", "reinforce", "contradict", "revise"}
      BY <1>1, <1>3 DEF Ready, Proposals, ContentOps
    <3>2. row \in Item
      BY <2>1
    <3> HIDE DEF row
    <3>3. CASE p.op = "forget"
      BY <3>3 DEF StagedRow
    <3>4. CASE p.op \in {"merge", "reinforce"}
      <4>1. Awake(row.status) \in Statuses
        BY <3>2, AwakeIs DEF Item
      <4>2. StagedRow(row, p) = [row EXCEPT !.status = Awake(row.status)]
        BY <3>4 DEF StagedRow
      <4>3. [row EXCEPT !.status = Awake(row.status)] \in Item
        BY <3>2, <4>1 DEF Item
      <4>4. [row EXCEPT !.status = Awake(row.status)].kind = row.kind
        BY <3>2 DEF Item
      <4> QED
        BY <4>2, <4>3, <4>4 DEF row
    <3>5. CASE p.op = "contradict"
      <4>1. StagedRow(row, p) = [row EXCEPT !.status = "contradicted"]
        BY <3>5 DEF StagedRow
      <4>2. /\ [row EXCEPT !.status = "contradicted"] \in Item
            /\ [row EXCEPT !.status = "contradicted"].kind = row.kind
        BY <3>2 DEF Item, Statuses
      <4> QED
        BY <4>1, <4>2 DEF row
    <3>6. CASE p.op = "revise"
      <4> DEFINE status == IF p.asked = None THEN row.status ELSE p.asked
      <4>1. status \in Statuses /\ p.fact \in Facts /\ p.sensitive \in BOOLEAN
        BY <1>1, <3>2, <3>6 DEF Proposals, Item, Statuses, Live, Ready, Content, ContentOps
      <4>2. StagedRow(row, p) =
                [row EXCEPT !.fact = p.fact, !.sensitive = p.sensitive, !.status = status]
        BY <3>6 DEF StagedRow
      <4> HIDE DEF status
      <4>3. StagedRow(row, p) \in Item /\ StagedRow(row, p).kind = row.kind
        BY <3>2, <4>1, <4>2 DEF Item
      <4> QED
        BY <4>3 DEF row
    <3> QED
      BY <3>1, <3>3, <3>4, <3>5, <3>6
  <2>3. Stage(st, p).rows = [rows EXCEPT !.items = left]
    BY <1>3 DEF Stage
  <2>4. \A i \in Ids : left[i] = IF i = p.item THEN StagedRow(rows.items[i], p)
                                 ELSE IF p.op = "merge" /\ i \in p.related THEN None
                                 ELSE rows.items[i]
    OBVIOUS
  <2>5. left \in [Ids -> Item \union {None}]
    BY <2>2 DEF Mirror, Databases
  <2> HIDE DEF left
  <2> DEFINE staged == Stage(st, p).rows
  <2>6. staged.items = left /\ staged \in Databases
    BY <2>3, <2>5 DEF Mirror, Databases
  <2> HIDE DEF staged
  <2>7. ASSUME NEW i \in Present(staged)
        PROVE  /\ i \in Present(d)
               /\ staged.items[i].kind = d.items[i].kind
               /\ staged.items[i].status \in Live => d.items[i].status \in Live
    <3>1. i \in Ids /\ left[i] # None
      BY <2>6 DEF Present
    <3>2. CASE i = p.item
      BY <2>1, <2>2, <2>4, <2>6, <3>1, <3>2 DEF Mirror, Alive
    <3>3. CASE i # p.item
      <4>1. left[i] = rows.items[i]
        BY <2>4, <3>1, <3>3
      <4>2. i \in Present(rows)
        BY <3>1, <4>1 DEF Present
      <4> QED
        BY <2>6, <4>1, <4>2 DEF Mirror
    <3> QED
      BY <3>2, <3>3
  <2> QED
    BY <2>5, <2>6, <2>7 DEF Mirror, staged
<1> QED
  BY <1>2, <1>3

\* All that a batch gets accepted is vetted.
LEMMA AcceptedVetted ==
    ASSUME NEW d, Good(d), NEW ps, Len(ps) \in Nat, NEW user,
           \A n \in 1..Len(ps) : Given(d, ps[n]) /\ ps[n].user = user,
           NEW accepted \in Accepted(d, ps)
    PROVE  /\ Len(accepted) \in Nat
           /\ \A n \in 1..Len(accepted) :
                 Vetted(d, accepted[n]) /\ accepted[n].user = user
<1> DEFINE N == Len(ps)
           V == {p \in Proposals : Vetted(d, p) /\ p.user = user}
           Fine(v) == Mirror(d, v.st.rows) /\ v.accepted \in Seq(V)
<1>1. PICK after : /\ after[0] = {[st |-> Staged(d), accepted |-> <<>>]}
                   /\ \A n \in 1..N : after[n] = Decided(after[n - 1], ps[n])
                   /\ Accepted(d, ps) = {v.accepted : v \in after[N]}
  BY ValidatorSteps
<1> HIDE DEF N
<1>2. N \in Nat
  BY DEF N
<1> DEFINE S == {n \in 0..N : \A v \in after[n] : Fine(v)}
<1>3. 0 \in S
  <2>1. Mirror(d, d)
    BY DEF Mirror, Good
  <2>2. <<>> \in Seq(V)
    OBVIOUS
  <2>3. Fine([st |-> Staged(d), accepted |-> <<>>])
    BY <2>1, <2>2 DEF Staged
  <2> HIDE DEF Fine
  <2> QED
    BY <1>1, <1>2, <2>3
<1>4. ASSUME NEW k \in 0..N, k \in S, k < N PROVE k + 1 \in S
  <2>1. k + 1 \in 1..N /\ k + 1 \in 0..N
    BY <1>2, <1>4
  <2>2. after[k + 1] = Decided(after[k], ps[k + 1])
    <3>1. (k + 1) - 1 = k
      BY <1>2
    <3> QED
      BY <1>1, <2>1, <3>1
  <2> DEFINE given == ps[k + 1]
  <2>3. Given(d, given) /\ given.user = user
    BY <2>1 DEF N
  <2>4. ASSUME NEW w \in after[k + 1] PROVE Fine(w)
    <3> HIDE DEF given
    <3>1. PICK v \in after[k] : w \in Decide(v, given)
      BY <2>2 DEF Decided, given
    <3>2. PICK p \in Validated(v.st, given) :
              w = IF p = Rejected THEN v
                  ELSE [st |-> Stage(v.st, p), accepted |-> Append(v.accepted, p)]
      BY <3>1 DEF Decide
    <3>3. Fine(v)
      BY <3>1, <1>4
    <3>4. CASE p = Rejected
      BY <3>2, <3>3, <3>4
    <3>5. CASE p # Rejected
      <4>1. w.st = Stage(v.st, p) /\ w.accepted = Append(v.accepted, p)
        BY <3>2, <3>5
      <4>2. Passed(d, v.st.rows, p) /\ p.user = user
        BY <2>3, <3>2, <3>3, <3>5, ValidatedPasses
      <4>3. Mirror(d, Stage(v.st, p).rows)
        BY <3>3, <4>2, StageMirrors
      <4>4. p \in V
        BY <4>2 DEF Passed, Vetted, Ready
      <4> HIDE DEF V
      <4>5. Append(v.accepted, p) \in Seq(V)
        BY <3>3, <4>4
      <4> QED
        BY <4>1, <4>3, <4>5
    <3> QED
      BY <3>4, <3>5
  <2> HIDE DEF Fine
  <2> QED
    BY <2>1, <2>4
<1>5. N \in S
  <2> HIDE DEF S
  <2>1. 0..N \subseteq S
    BY <1>2, <1>3, <1>4, IntervalInduction
  <2> QED
    BY <1>2, <2>1
<1>6. accepted \in Seq(V)
  BY <1>1, <1>5
<1>7. Len(accepted) \in Nat /\ \A n \in 1..Len(accepted) : accepted[n] \in V
  <2> HIDE DEF V
  <2> QED
    BY <1>6
<1> QED
  BY <1>7

\* MemoryValidator.validate, then commit_review: whatever a batch proposes about
\* the rows of a good database, what the validator accepts of it leaves a good
\* database if the store does not refuse it.  Ids are not used again, versions
\* grow, and a batch of the curator deletes nothing, keeps every text and
\* leaves alone what was contradicted.
THEOREM BatchKeeps ==
    ASSUME NEW d, Good(d), NEW ps, Len(ps) \in Nat, NEW user,
           \A n \in 1..Len(ps) : Given(d, ps[n]) /\ ps[n].user = user,
           NEW accepted \in Accepted(d, ps),
           NEW e \in ReviewTransaction(d, accepted), e.ok
    PROVE  Leads(d, e, user)
BY AcceptedVetted, TransactionKeeps

-----------------------------------------------------------------------------
(* The writers.                                                            *)

\* A row in a job's snapshot was inserted once, and what is there now grew
\* out of it: an id is not given to another row while the job runs.
SnapshotsFit ==
    \A j \in Jobs, i \in Ids : seen[j][i] # None =>
        /\ i < db.next
        /\ i \in Present(db) => Grows(seen[j][i], db.items[i])

\* The other variables.
Limits ==
    /\ scopeEnabled \in BOOLEAN /\ clearing \in BOOLEAN
    /\ job \in [Jobs -> {"new", "open", "over"}]
    /\ seen \in [Jobs -> [Ids -> Item \union {None}]]
    /\ reviews \in 0..MaxReviews /\ commands \in 0..MaxCommands

\* The inductive invariant.
IInv == Good(db) /\ Limits /\ SnapshotsFit

LEMMA GrowsOn ==
    ASSUME NEW row \in Item, NEW later \in Item, NEW last \in Item,
           Grows(row, later), Grows(later, last)
    PROVE  Grows(row, last)
<1>1. row.version \in Nat /\ later.version \in Nat /\ last.version \in Nat
  BY DEF Item
<1> QED
  BY <1>1 DEF Grows

\* The database evolves, and snapshots are at most thrown away.
LEMMA MovesOn ==
    ASSUME IInv, Good(db'), Evolves(db, db'), Limits',
           \A j \in Jobs, i \in Ids : seen'[j][i] \in {None, seen[j][i]}
    PROVE  IInv'
<1> SUFFICES ASSUME NEW j \in Jobs, NEW i \in Ids, seen'[j][i] # None
             PROVE  /\ i < db'.next
                    /\ i \in Present(db') => Grows(seen'[j][i], db'.items[i])
  BY DEF IInv, SnapshotsFit
<1>1. seen'[j][i] = seen[j][i] /\ seen[j][i] # None
  OBVIOUS
<1>2. seen[j][i] \in Item
  BY <1>1 DEF IInv, Limits
<1>3. i < db.next /\ (i \in Present(db) => Grows(seen[j][i], db.items[i]))
  BY <1>1 DEF IInv, SnapshotsFit
<1>4. db.next \in Nat /\ db'.next \in Nat /\ db.next =< db'.next
  BY DEF IInv, Good, Databases, Evolves
<1>5. i < db'.next
  BY <1>3, <1>4 DEF Ids
<1>6. ASSUME i \in Present(db') PROVE Grows(seen[j][i], db'.items[i])
  <2>1. i \in Present(db)
    BY <1>3, <1>6 DEF Evolves
  <2>2. Grows(db.items[i], db'.items[i])
    BY <1>6, <2>1 DEF Evolves
  <2>3. db.items[i] \in Item /\ db'.items[i] \in Item
    BY <1>6, <2>1, RowType DEF IInv, Good
  <2> QED
    BY <1>2, <1>3, <2>1, <2>2, <2>3, GrowsOn
<1> QED
  BY <1>1, <1>5, <1>6

LEMMA InitIInv == Init => IInv
<1> SUFFICES ASSUME Init PROVE IInv
  OBVIOUS
<1>1. Present(db) = {}
  BY DEF Init, Empty, Present
<1>2. db \in Databases /\ db.ok = TRUE
  BY DEF Init, Empty, Databases
<1>3. Refers(db)
  <2>1. db.next = 1 /\ db.backed = {} /\ db.scheduled = {}
    BY DEF Init, Empty
  <2>2. 1 \in 1..(MaxItems + 1)
    BY ItemsBounded
  <2> QED
    BY <1>1, <2>1, <2>2 DEF Refers
<1>4. IndexFits(db)
  BY <1>1 DEF Init, Empty, IndexFits
<1>5. Sound(db)
  BY <1>1 DEF Sound
<1>6. Limits
  <2>1. 0 \in 0..MaxReviews /\ 0 \in 0..MaxCommands
    BY StepsBounded
  <2>2. job \in [Jobs -> {"new", "open", "over"}]
    BY DEF Init
  <2>3. seen \in [Jobs -> [Ids -> Item \union {None}]]
    BY DEF Init
  <2> QED
    BY <2>1, <2>2, <2>3 DEF Init, Limits
<1>7. SnapshotsFit
  BY DEF Init, SnapshotsFit
<1> QED
  BY <1>2, <1>3, <1>4, <1>5, <1>6, <1>7 DEF IInv, Good

\* A batch is a sequence of proposals.
LEMMA BatchLength ==
    ASSUME NEW S, NEW batch \in Batches(S)
    PROVE  Len(batch) \in Nat /\ \A n \in 1..Len(batch) : batch[n] \in S
<1>1. PICK n \in 1..MaxBatch : batch \in [1..n -> S]
  BY DEF Batches
<1>2. n \in Nat
  BY <1>1, StepsBounded
<1>3. batch \in Seq(S)
  BY <1>1, <1>2, SeqDef
<1> QED
  BY <1>3

LEMMA ProposalGiven ==
    ASSUME NEW op \in ContentOps \union {"reinforce", "forget"},
           NEW item \in Present(db) \union {None}, NEW fact \in Facts \union {None},
           NEW sure \in BOOLEAN, NEW asked \in {None} \union Live,
           NEW user \in BOOLEAN,
           item = None <=> op \in {"add", "mark_candidate"},
           op \in {"reinforce", "contradict"} => db.items[item].kind # "work",
           op \in ContentOps => fact \in Facts,
           user => sure /\ op # "mark_candidate"
    PROVE  /\ Given(db, Proposal(op, item, fact, sure, asked, user))
           /\ Proposal(op, item, fact, sure, asked, user).user = user
<1>0. PICK p : p = Proposal(op, item, fact, sure, asked, user)
  OBVIOUS
<1> DEFINE q == [op |-> op, item |-> item, related |-> {}, fact |-> fact, sensitive |-> FALSE,
                 sure |-> sure, asked |-> asked, target |-> None, kind |-> "ordinary",
                 user |-> user, direct |-> FALSE]
<1>1. PICK backing \in BOOLEAN : backing = (user \/ CanActivate(q))
  BY DEF CanActivate
<1>2. p = [q EXCEPT !.direct = backing]
  BY <1>0, <1>1 DEF Proposal
<1>3. item \in Ids \union {None}
  BY PresentIds
<1>4. /\ p \in Proposals /\ p.op = op /\ p.item = item /\ p.fact = fact
      /\ p.sure = sure /\ p.target = None /\ p.user = user
  BY <1>2, <1>3 DEF Proposals
<1>5. op # "merge"
  BY DEF ContentOps
<1> HIDE DEF q
<1> QED
  BY <1>0, <1>4, <1>5 DEF Given

\* A curator may call sensitive what it proposes.
LEMMA SensitivelyGiven ==
    ASSUME NEW p, Given(db, p), p.user = FALSE
    PROVE  Given(db, Sensitively(p)) /\ Sensitively(p).user = FALSE
BY DEF Given, Proposals, Sensitively

LEMMA AdditionGiven ==
    ASSUME NEW f \in Facts, NEW p \in Additions(f)
    PROVE  Given(db, p) /\ p.user = FALSE
<1>1. ASSUME NEW asked \in {None} \union Live
      PROVE  /\ Given(db, Proposal("add", None, f, TRUE, asked, FALSE))
             /\ Proposal("add", None, f, TRUE, asked, FALSE).user = FALSE
  BY ProposalGiven DEF ContentOps
<1>2. /\ Given(db, Proposal("mark_candidate", None, f, FALSE, None, FALSE))
      /\ Proposal("mark_candidate", None, f, FALSE, None, FALSE).user = FALSE
  BY ProposalGiven DEF ContentOps
<1>3. ASSUME NEW q \in NormalAdditions(f) PROVE Given(db, q) /\ q.user = FALSE
  BY <1>1, <1>2 DEF NormalAdditions, Live
<1>4. p \in NormalAdditions(f) \/ \E q \in NormalAdditions(f) : p = Sensitively(q)
  BY DEF Additions
<1> QED
  BY <1>3, <1>4, SensitivelyGiven

LEMMA ChangeGiven ==
    ASSUME NEW i \in Present(db), db.items[i].kind # "work", NEW f \in Facts,
           NEW p \in Changes(i, f)
    PROVE  Given(db, p) /\ p.user = FALSE
<1>1. i # None
  BY PresentIds, NoneIsNothing DEF Ids
<1>2. ASSUME NEW op \in {"revise", "contradict"}, NEW asked \in {None} \union Live
      PROVE  /\ Given(db, Proposal(op, i, f, TRUE, asked, FALSE))
             /\ Proposal(op, i, f, TRUE, asked, FALSE).user = FALSE
  BY <1>1, ProposalGiven DEF ContentOps
<1>3. ASSUME NEW op \in {"revise", "contradict"}
      PROVE  /\ Given(db, Proposal(op, i, f, FALSE, None, FALSE))
             /\ Proposal(op, i, f, FALSE, None, FALSE).user = FALSE
  BY <1>1, ProposalGiven DEF ContentOps
<1> QED
  BY <1>2, <1>3 DEF Changes, Live

LEMMA SupportGiven ==
    ASSUME NEW i \in Present(db), db.items[i].kind # "work", NEW user \in BOOLEAN
    PROVE  /\ Given(db, Proposal("reinforce", i, None, TRUE, None, user))
           /\ Proposal("reinforce", i, None, TRUE, None, user).user = user
<1>1. i # None
  BY PresentIds, NoneIsNothing DEF Ids
<1> QED
  BY <1>1, ProposalGiven DEF ContentOps

LEMMA CuratorGiven ==
    ASSUME NEW p \in CuratorProposals
    PROVE  Given(db, p) /\ p.user = FALSE
<1>1. \A i \in Shown : i \in Present(db) /\ db.items[i].kind # "work" /\ FactsFor(i) \subseteq Facts
  BY DEF Shown, FactsFor
<1>2. CASE \E f \in Facts : p \in Additions(f)
  BY <1>2, AdditionGiven
<1>3. CASE \E i \in Shown : p = Proposal("reinforce", i, None, TRUE, None, FALSE)
  BY <1>1, <1>3, SupportGiven
<1>4. CASE \E i \in Shown : \E f \in FactsFor(i) : p \in Changes(i, f)
  BY <1>1, <1>4, ChangeGiven
<1>5. \/ p \in UNION {Additions(f) : f \in Facts}
      \/ p \in {Proposal("reinforce", i, None, TRUE, None, FALSE) : i \in Shown}
      \/ p \in UNION {UNION {Changes(i, f) : f \in FactsFor(i)} : i \in Shown}
  BY Zenon DEF CuratorProposals
<1>6. CASE p \in UNION {UNION {Changes(i, f) : f \in FactsFor(i)} : i \in Shown}
  <2>1. PICK i \in Shown : p \in UNION {Changes(i, f) : f \in FactsFor(i)}
    BY <1>6
  <2>2. PICK f \in FactsFor(i) : p \in Changes(i, f)
    BY <2>1
  <2> QED
    BY <1>4, <2>2
<1> QED
  BY <1>2, <1>3, <1>5, <1>6

LEMMA CommittedLeads ==
    ASSUME Good(db), NEW batch, Len(batch) \in Nat, NEW user,
           \A n \in 1..Len(batch) : Given(db, batch[n]) /\ batch[n].user = user,
           NEW accepted \in Accepted(db, batch), NEW e \in Committed(accepted)
    PROVE  Leads(db, e, user)
<1>1. e \in ReviewTransaction(db, accepted) /\ e.ok
  BY DEF Committed
<1> QED
  BY <1>1, BatchKeeps

LEMMA ReviewLeads ==
    ASSUME IInv, Review
    PROVE  Leads(db, db', FALSE)
<1>1. PICK batch \in Batches(CuratorProposals) :
          \E accepted \in Accepted(db, batch) : db' \in Committed(accepted)
  BY DEF Review
<1>2. PICK accepted \in Accepted(db, batch) : db' \in Committed(accepted)
  BY <1>1
<1>3. Len(batch) \in Nat /\ \A n \in 1..Len(batch) : batch[n] \in CuratorProposals
  BY BatchLength
<1>4. \A n \in 1..Len(batch) : Given(db, batch[n]) /\ batch[n].user = FALSE
  BY <1>3, CuratorGiven
<1> QED
  BY <1>2, <1>3, <1>4, CommittedLeads DEF IInv

LEMMA ReviewMoves == IInv /\ Review => IInv'
<1> SUFFICES ASSUME IInv, Review PROVE IInv'
  OBVIOUS
<1>1. Good(db') /\ Evolves(db, db')
  BY ReviewLeads DEF Leads
<1>2. Limits'
  <2>1. reviews' \in 0..MaxReviews
    BY StepsBounded DEF IInv, Limits, Review
  <2> QED
    BY <2>1 DEF IInv, Limits, Review
<1>3. \A j \in Jobs, i \in Ids : seen'[j][i] \in {None, seen[j][i]}
  BY DEF Review
<1> QED
  BY <1>1, <1>2, <1>3, MovesOn

\* A command counts, and leaves the jobs alone.
LEMMA CommandMoves ==
    ASSUME IInv, Command, Good(db'), Evolves(db, db'),
           scopeEnabled' \in BOOLEAN, clearing' \in BOOLEAN
    PROVE  IInv'
<1>1. Limits'
  <2>1. commands' \in 0..MaxCommands
    BY StepsBounded DEF IInv, Limits, Command
  <2> QED
    BY <2>1 DEF IInv, Limits, Command
<1>2. \A j \in Jobs, i \in Ids : seen'[j][i] \in {None, seen[j][i]}
  BY DEF Command
<1> QED
  BY <1>1, <1>2, MovesOn

\* One proposal of the user.
LEMMA CommandedStep ==
    ASSUME IInv, NEW p, Given(db, p), p.user = TRUE, Commanded(<<p>>)
    PROVE  IInv'
<1>1. PICK accepted \in Accepted(db, <<p>>) : db' \in Committed(accepted)
  BY DEF Commanded
<1>2. Len(<<p>>) = 1 /\ \A n \in 1..1 : <<p>>[n] = p
  OBVIOUS
<1>3. Len(<<p>>) \in Nat
  BY <1>2
<1>4. \A n \in 1..Len(<<p>>) : Given(db, <<p>>[n]) /\ <<p>>[n].user = TRUE
  BY <1>2
<1>5. Good(db)
  BY DEF IInv
<1>6. Leads(db, db', TRUE)
  BY <1>1, <1>3, <1>4, <1>5, CommittedLeads
<1>7. Command /\ scopeEnabled' \in BOOLEAN /\ clearing' \in BOOLEAN
  BY DEF Commanded, IInv, Limits
<1> QED
  BY <1>6, <1>7, CommandMoves DEF Leads

LEMMA RememberStep == ASSUME IInv, NEW f \in Facts, Remember(f) PROVE IInv'
<1> DEFINE p == Proposal("add", None, f, TRUE, "active", TRUE)
<1>1. Given(db, p) /\ p.user = TRUE
  BY ProposalGiven DEF ContentOps, Live
<1>2. Commanded(<<p>>)
  BY DEF Remember
<1> HIDE DEF p
<1> QED
  BY <1>1, <1>2, CommandedStep

LEMMA CorrectStep ==
    ASSUME IInv, NEW i \in Present(db), NEW f \in Facts, Correct(i, f)
    PROVE  IInv'
<1> DEFINE p == Proposal("revise", i, f, TRUE, None, TRUE)
<1>1. i # None
  BY PresentIds, NoneIsNothing DEF Ids
<1>2. Given(db, p) /\ p.user = TRUE
  BY <1>1, ProposalGiven DEF ContentOps
<1>3. Commanded(<<p>>)
  BY DEF Correct
<1> HIDE DEF p
<1> QED
  BY <1>2, <1>3, CommandedStep

LEMMA ConfirmStep == ASSUME IInv, NEW i \in Present(db), Confirm(i) PROVE IInv'
<1> DEFINE p == Proposal("reinforce", i, None, TRUE, None, TRUE)
<1>1. db.items[i].kind # "work"
  BY DEF Confirm, IInv, Good, Sound, Note, Indexed
<1>2. Given(db, p) /\ p.user = TRUE
  BY <1>1, SupportGiven
<1>3. Commanded(<<p>>)
  BY DEF Confirm
<1> HIDE DEF p
<1> QED
  BY <1>2, <1>3, CommandedStep

\* The sequence of a finite set has the members of the set.
LEMMA SequenceOf ==
    ASSUME NEW S, IsFiniteSet(S)
    PROVE  Len(SetToSeq(S)) \in Nat /\ \A n \in 1..Len(SetToSeq(S)) : SetToSeq(S)[n] \in S
<1>1. Cardinality(S) \in Nat /\ ExistsBijection(1..Cardinality(S), S)
  BY FS_CardinalityType
<1>2. \E f \in [1..Cardinality(S) -> S] : IsInjective(f)
  BY <1>1 DEF ExistsBijection, Bijection, Injection
<1>3. SetToSeq(S) \in [1..Cardinality(S) -> S]
  BY <1>2 DEF SetToSeq
<1>4. SetToSeq(S) \in Seq(S)
  BY <1>1, <1>3, SeqDef
<1> QED
  BY <1>4

LEMMA ForgettingFinite ==
    ASSUME NEW S \in SUBSET Ids
    PROVE  IsFiniteSet({Proposal("forget", i, None, TRUE, None, TRUE) : i \in S})
<1> DEFINE Forgetting(i) == Proposal("forget", i, None, TRUE, None, TRUE)
           T == {Forgetting(i) : i \in S}
           f == [i \in S |-> Forgetting(i)]
<1>1. IsFiniteSet(S)
  <2>1. IsFiniteSet(Ids)
    BY ItemsBounded, FS_Interval DEF Ids
  <2> QED
    BY <2>1, FS_Subset
<1>2. f \in Surjection(S, T)
  <2> HIDE DEF Forgetting
  <2> QED
    BY DEF Surjection
<1> HIDE DEF f, T
<1>3. IsFiniteSet(T)
  BY <1>1, <1>2, FS_Surjection
<1> QED
  BY <1>3 DEF T

LEMMA ForgetStep ==
    ASSUME IInv, NEW S \in SUBSET Present(db), Forget(S)
    PROVE  IInv'
<1> DEFINE work == {i \in S : db.items[i].kind = "work"}
           P == {Proposal("forget", i, None, TRUE, None, TRUE) : i \in S \ work}
           batch == SetToSeq(P)
<1>1. PICK accepted \in Accepted(db, batch) :
          \E e \in Committed(accepted) : db' = Without(e, work)
  BY DEF Forget
<1>2. PICK e \in Committed(accepted) : db' = Without(e, work)
  BY <1>1
<1>3. \A p \in P : Given(db, p) /\ p.user = TRUE
  <2> SUFFICES ASSUME NEW i \in Present(db)
               PROVE  /\ Given(db, Proposal("forget", i, None, TRUE, None, TRUE))
                      /\ Proposal("forget", i, None, TRUE, None, TRUE).user = TRUE
    OBVIOUS
  <2>1. i # None
    BY PresentIds, NoneIsNothing DEF Ids
  <2> QED
    BY <2>1, ProposalGiven DEF ContentOps
<1>4. IsFiniteSet(P)
  <2>1. S \ work \in SUBSET Ids
    BY PresentIds
  <2> HIDE DEF work
  <2> QED
    BY <2>1, ForgettingFinite
<1> HIDE DEF P, work
<1>5. Len(batch) \in Nat /\ \A n \in 1..Len(batch) : batch[n] \in P
  BY <1>4, SequenceOf
<1>6. \A n \in 1..Len(batch) : Given(db, batch[n]) /\ batch[n].user = TRUE
  BY <1>3, <1>5
<1>7. Good(db)
  BY DEF IInv
<1> HIDE DEF batch
<1>8. Leads(db, e, TRUE)
  BY <1>2, <1>5, <1>6, <1>7, CommittedLeads
<1>9. Good(db') /\ Evolves(e, db')
  BY <1>2, <1>8, WithoutKeeps DEF Leads
<1>10. Evolves(db, db')
  BY <1>7, <1>8, <1>9, EvolvesOn DEF Leads
<1>11. Command /\ scopeEnabled' \in BOOLEAN /\ clearing' \in BOOLEAN
  BY DEF Forget, IInv, Limits
<1> QED
  BY <1>9, <1>10, <1>11, CommandMoves

LEMMA OtherCommandsStep == IInv /\ (AskClear \/ SetEnabled) => IInv'
<1> SUFFICES ASSUME IInv, AskClear \/ SetEnabled PROVE IInv'
  OBVIOUS
<1>1. Command /\ db' = db /\ scopeEnabled' \in BOOLEAN /\ clearing' \in BOOLEAN
  BY DEF AskClear, SetEnabled, IInv, Limits
<1>2. Good(db') /\ Evolves(db, db')
  BY <1>1, EvolvesSame DEF IInv
<1> QED
  BY <1>1, <1>2, CommandMoves

LEMMA ClearStep == IInv /\ (ClearExpires \/ Clear) => IInv'
<1> SUFFICES ASSUME IInv, ClearExpires \/ Clear PROVE IInv'
  OBVIOUS
<1>1. Good(db') /\ Evolves(db, db')
  <2>1. db' = db \/ db' = Without(db, Present(db))
    BY DEF ClearExpires, Clear
  <2> QED
    BY <2>1, EvolvesSame, WithoutKeeps DEF IInv
<1>2. Limits' /\ UNCHANGED seen
  BY DEF ClearExpires, Clear, IInv, Limits
<1> QED
  BY <1>1, <1>2, MovesOn

LEMMA MaintainStep == IInv /\ Maintain => IInv'
<1> SUFFICES ASSUME IInv, Maintain PROVE IInv'
  OBVIOUS
<1>1. PICK fading \in SUBSET {i \in Present(db) : db.items[i].status = "active"} :
          \E sleeping \in SUBSET fading : db' = Decayed(db, fading, sleeping)
  BY DEF Maintain
<1>2. PICK sleeping \in SUBSET fading : db' = Decayed(db, fading, sleeping)
  BY <1>1
<1>3. fading \in SUBSET Present(db) /\ \A i \in fading : db.items[i].status = "active"
  OBVIOUS
<1>4. Good(db') /\ Evolves(db, db')
  BY <1>2, <1>3, DecayedKeeps DEF IInv
<1>5. Command /\ scopeEnabled' \in BOOLEAN /\ clearing' \in BOOLEAN
  BY DEF Maintain, IInv, Limits
<1> QED
  BY <1>4, <1>5, CommandMoves

-----------------------------------------------------------------------------
(* The writers: the jobs.                                                  *)

\* What is noted as written by a job of the schedule is there.
LEMMA NotedKeeps ==
    ASSUME NEW d, NEW e, LeavesOthers(d, e), NEW f,
           f = [e EXCEPT !.scheduled = @ \union Written(d, e)]
    PROVE  LeavesOthers(d, f) /\ f.items = e.items
<1>1. Good(e) /\ Written(d, e) \subseteq Present(e) /\ Present(e) \subseteq Ids
  BY PresentIds DEF LeavesOthers, Written
<1>2. e \in Databases
  BY <1>1 DEF Good
<1>3. /\ f \in Databases /\ f.items = e.items /\ f.index = e.index /\ f.ok = e.ok
      /\ f.backed = e.backed /\ f.next = e.next
      /\ f.scheduled = e.scheduled \union Written(d, e)
  BY <1>1, <1>2 DEF Databases
<1>4. Present(f) = Present(e)
  BY <1>3 DEF Present
<1>5. Refers(f)
  BY <1>1, <1>3, <1>4 DEF Good, Refers
<1>6. IndexFits(f) /\ Sound(f)
  BY <1>1, <1>3, <1>4 DEF Good, IndexFits, Sound
<1>7. Good(f)
  BY <1>1, <1>3, <1>5, <1>6 DEF Good
<1> QED
  BY <1>3, <1>4, <1>7 DEF LeavesOthers, Evolves

LEMMA JobGiven ==
    ASSUME IInv, NEW j \in Jobs, NEW p \in JobProposals(j)
    PROVE  /\ p \in AgentProposals
           /\ p.op = "revise" => /\ p.item \in Ids /\ seen[j][p.item] \in Item
                                 /\ seen[j][p.item].kind = "work"
                                 /\ p.version = seen[j][p.item].version
<1>1. Projects \subseteq Facts
  BY FactsGiven
<1>2. \A i \in Ids : seen[j][i] \in Item \union {None}
  BY DEF IInv, Limits
<1>3. CASE \E f \in Projects : p = [op |-> "add", fact |-> f, item |-> None, version |-> 0]
  BY <1>1, <1>3 DEF AgentProposals
<1>4. CASE \E f \in Projects, i \in Ids :
              /\ seen[j][i] # None /\ seen[j][i].kind = "work"
              /\ p = [op |-> "revise", fact |-> f, item |-> i, version |-> seen[j][i].version]
  <2>1. PICK f \in Projects, i \in Ids :
              /\ seen[j][i] # None /\ seen[j][i].kind = "work"
              /\ p = [op |-> "revise", fact |-> f, item |-> i, version |-> seen[j][i].version]
    BY <1>4
  <2>2. seen[j][i] \in Item /\ seen[j][i].version \in Nat
    BY <1>2, <2>1 DEF Item
  <2> QED
    BY <1>1, <2>1, <2>2 DEF AgentProposals
<1> QED
  BY <1>3, <1>4 DEF JobProposals

\* What the commit of a job does with the database.
LEMMA DeliverLeaves ==
    ASSUME IInv, NEW j \in Jobs, Deliver(j)
    PROVE  /\ LeavesOthers(db, db')
           /\ \A i \in Present(db) : db'.items[i].fact # db.items[i].fact =>
                  db.items[i] = seen[j][i]
<1>1. PICK batch \in Batches(JobProposals(j)) : \E e \in AgentTransaction(db, batch) :
          /\ e.ok
          /\ db' = IF j \in Scheduled
                   THEN [e EXCEPT !.scheduled = @ \union Written(db, e)] ELSE e
  BY DEF Deliver
<1>2. PICK e \in AgentTransaction(db, batch) :
          /\ e.ok
          /\ db' = IF j \in Scheduled
                   THEN [e EXCEPT !.scheduled = @ \union Written(db, e)] ELSE e
  BY <1>1
<1>3. Len(batch) \in Nat /\ \A n \in 1..Len(batch) : batch[n] \in JobProposals(j)
  BY BatchLength
<1>4. \A n \in 1..Len(batch) :
          /\ batch[n] \in AgentProposals
          /\ batch[n].op = "revise" =>
                /\ batch[n].item \in Ids /\ seen[j][batch[n].item] \in Item
                /\ seen[j][batch[n].item].kind = "work"
                /\ batch[n].version = seen[j][batch[n].item].version
  BY <1>3, JobGiven
<1>5. /\ LeavesOthers(db, e)
      /\ \A i \in Present(db) : e.items[i].fact # db.items[i].fact =>
             \E m \in 1..Len(batch) : Rewritten(db, i, batch[m])
  BY <1>2, <1>3, <1>4, JobKeeps DEF IInv
<1>6. LeavesOthers(db, db') /\ db'.items = e.items
  BY <1>2, <1>5, NotedKeeps
<1>7. ASSUME NEW i \in Present(db), db'.items[i].fact # db.items[i].fact
      PROVE  db.items[i] = seen[j][i]
  <2>1. PICK m \in 1..Len(batch) : Rewritten(db, i, batch[m])
    BY <1>5, <1>6, <1>7
  <2>2. /\ seen[j][i] \in Item /\ seen[j][i].kind = "work"
        /\ db.items[i].version =< seen[j][i].version
    BY <1>4, <2>1 DEF Rewritten
  <2>3. seen[j][i] # None /\ i \in Ids
    BY <2>2, NoneIsNoRow, PresentIds
  <2>4. Grows(seen[j][i], db.items[i])
    BY <2>3 DEF IInv, SnapshotsFit
  <2>5. db.items[i] \in Item
    BY RowType DEF IInv, Good
  <2>6. db.items[i].version \in Nat /\ seen[j][i].version \in Nat
    BY <2>2, <2>5 DEF Item
  <2> QED
    BY <2>2, <2>4, <2>6 DEF Grows
<1> QED
  BY <1>6, <1>7

LEMMA ClosedStep ==
    ASSUME IInv, NEW j \in Jobs, Close(j), Good(db'), Evolves(db, db'),
           UNCHANGED <<scopeEnabled, clearing, reviews, commands>>
    PROVE  IInv'
<1>1. Limits'
  BY DEF IInv, Limits, Close
<1>2. \A k \in Jobs, i \in Ids : seen'[k][i] \in {None, seen[k][i]}
  BY DEF IInv, Limits, Close
<1> QED
  BY <1>1, <1>2, MovesOn

LEMMA DeliverStep == ASSUME IInv, NEW j \in Jobs, Deliver(j) PROVE IInv'
<1>1. Good(db') /\ Evolves(db, db')
  BY DeliverLeaves DEF LeavesOthers
<1> QED
  BY <1>1, ClosedStep DEF Deliver

LEMMA DiscardStep == ASSUME IInv, NEW j \in Jobs, Discard(j) PROVE IInv'
<1>1. Good(db') /\ Evolves(db, db')
  BY EvolvesSame DEF Discard, IInv
<1> QED
  BY <1>1, ClosedStep DEF Discard

LEMMA PrepareStep == ASSUME IInv, NEW j \in Jobs, Prepare(j) PROVE IInv'
<1> DEFINE shown == [i \in Ids |-> IF i \in Exported(db, j \in Scheduled) THEN db.items[i]
                                   ELSE None]
<1>2. \A i \in Ids : shown[i] \in {None, db.items[i]} /\
                     (shown[i] # None => i \in Present(db))
  BY DEF Present
<1>3. \A i \in Present(db) : db.items[i] \in Item /\ i < db.next
  BY RowType DEF IInv, Good, Refers
<1>4. shown \in [Ids -> Item \union {None}]
  BY <1>2, <1>3
<1>5. job' = [job EXCEPT ![j] = "open"] /\ seen' = [seen EXCEPT ![j] = shown]
  BY DEF Prepare
<1>6. UNCHANGED <<db, scopeEnabled, clearing, reviews, commands>>
  BY DEF Prepare
<1> HIDE DEF shown
<1>7. Limits'
  BY <1>4, <1>5, <1>6 DEF IInv, Limits
<1>8. ASSUME NEW k \in Jobs, NEW i \in Ids, seen'[k][i] # None
      PROVE  /\ i < db.next
             /\ i \in Present(db) => Grows(seen'[k][i], db.items[i])
  <2>1. CASE k = j
    <3>1. seen'[k][i] = shown[i]
      BY <2>1, <1>5 DEF IInv, Limits
    <3>2. i \in Present(db) /\ shown[i] = db.items[i]
      BY <3>1, <1>2, <1>8
    <3>3. Grows(db.items[i], db.items[i])
      BY <1>3, <3>2 DEF Grows, Item
    <3> QED
      BY <1>3, <3>1, <3>2, <3>3
  <2>2. CASE k # j
    <3>1. seen'[k][i] = seen[k][i]
      BY <2>2, <1>5 DEF IInv, Limits
    <3> QED
      BY <3>1, <1>8 DEF IInv, SnapshotsFit
  <2> QED
    BY <2>1, <2>2
<1>9. SnapshotsFit'
  BY <1>6, <1>8 DEF SnapshotsFit
<1> QED
  BY <1>6, <1>7, <1>9 DEF IInv

-----------------------------------------------------------------------------

LEMMA NextIInv == IInv /\ Next => IInv'
<1> SUFFICES ASSUME IInv, Next PROVE IInv'
  OBVIOUS
<1>1. CASE Review
  BY <1>1, ReviewMoves
<1>2. CASE \E f \in Facts : Remember(f)
  BY <1>2, RememberStep
<1>3. CASE \E i \in Present(db), f \in Facts : Correct(i, f)
  BY <1>3, CorrectStep
<1>4. CASE \E i \in Present(db) : Confirm(i)
  BY <1>4, ConfirmStep
<1>5. CASE \E S \in SUBSET Present(db) : S # {} /\ Forget(S)
  BY <1>5, ForgetStep
<1>6. CASE AskClear \/ SetEnabled
  BY <1>6, OtherCommandsStep
<1>7. CASE ClearExpires \/ Clear
  BY <1>7, ClearStep
<1>8. CASE \E j \in Jobs : Prepare(j)
  BY <1>8, PrepareStep
<1>9. CASE \E j \in Jobs : Deliver(j)
  BY <1>9, DeliverStep
<1>10. CASE \E j \in Jobs : Discard(j)
  BY <1>10, DiscardStep
<1>11. CASE Maintain
  BY <1>11, MaintainStep
<1> QED
  BY <1>1, <1>2, <1>3, <1>4, <1>5, <1>6, <1>7, <1>8, <1>9, <1>10, <1>11 DEF Next

\* The invariant of the items, whoever writes them and in whatever order.
THEOREM Invariant == Spec => []IInv
<1>1. IInv /\ [Next]_vars => IInv'
  <2>1. IInv /\ UNCHANGED vars => IInv'
    BY DEF vars, IInv, Limits, SnapshotsFit, Good, Databases, Refers, IndexFits, Sound,
           Present
  <2> QED
    BY <2>1, NextIInv
<1> QED
  BY <1>1, InitIInv, PTL DEF Spec

\* The state has its type: the support, the schedule's notes and the targets
\* of candidates name rows there are, and nothing that failed is left behind.
THEOREM TypeCorrect == Spec => []TypeOK
<1>1. IInv => TypeOK
  BY DEF IInv, Good, Refers, Limits, TypeOK
<1> QED
  BY <1>1, Invariant, PTL

\* _sync_fts and _hard_delete_row: the full-text index finds the active and
\* dormant items by the content they have, and nothing else.
THEOREM IndexIsOfTheRows == Spec => []IndexAgrees
<1>1. IInv => IndexAgrees
  BY DEF IInv, Good, IndexFits, IndexAgrees
<1> QED
  BY <1>1, Invariant, PTL

\* However content comes to an item (revision, contradiction, merge, or a
\* candidate that is confirmed), what the classifier calls sensitive is never
\* held as normal, and equal items agree.
THEOREM SensitivityHolds == Spec => []SensitivityAgrees
<1>1. IInv => SensitivityAgrees
  <2> SUFFICES ASSUME IInv, NEW i \in Alive(db), db.items[i].kind # "work"
               PROVE  /\ db.items[i].fact \in Private => db.items[i].sensitive
                      /\ \A k \in Alive(db) :
                            db.items[k].kind # "work" /\ db.items[k].fact = db.items[i].fact =>
                                db.items[k].sensitive = db.items[i].sensitive
    BY DEF SensitivityAgrees
  <2>1. i \in Present(db) /\ Counts(db.items[i])
    BY DEF Alive, Counts
  <2>2. db.items[i].fact \in Private => db.items[i].sensitive
    BY <2>1 DEF IInv, Good, Sound, Classified
  <2>3. ASSUME NEW k \in Alive(db), db.items[k].kind # "work",
               db.items[k].fact = db.items[i].fact
        PROVE  db.items[k].sensitive = db.items[i].sensitive
    <3>1. k \in Present(db) /\ Counts(db.items[k])
      BY <2>3 DEF Alive, Counts
    <3>2. Agree(db.items[i], db.items[k])
      BY <2>1, <3>1 DEF IInv, Good, Sound
    <3> QED
      BY <2>1, <2>3, <3>1, <3>2 DEF Agree
  <2> QED
    BY <2>2, <2>3
<1> QED
  BY <1>1, Invariant, PTL

\* WHERE version = ? of commit_agent_memories: what a command or a review did
\* to a note while its job's Agent worked is not overwritten.
THEOREM NotesAreKept == Spec => NoLostNote
<1>1. IInv /\ [Next]_vars =>
        [\A j \in Jobs : job[j] = "open" /\ job'[j] = "over" =>
            \A i \in Present(db) :
               /\ i \in Present(db')
               /\ db'.items[i] # db.items[i] => db.items[i].kind = "work"
               /\ db'.items[i].fact # db.items[i].fact => db.items[i] = seen[j][i]]_vars
  <2> SUFFICES ASSUME IInv, Next, NEW j \in Jobs, job[j] = "open", job'[j] = "over",
                      NEW i \in Present(db)
               PROVE  /\ i \in Present(db')
                      /\ db'.items[i] # db.items[i] => db.items[i].kind = "work"
                      /\ db'.items[i].fact # db.items[i].fact => db.items[i] = seen[j][i]
    OBVIOUS
  <2>1. PICK k \in Jobs : Deliver(k) \/ Discard(k)
    <3>1. ASSUME NEW k \in Jobs, Prepare(k) PROVE job'[j] # "over"
      BY <3>1 DEF Prepare, IInv, Limits
    <3>2. \/ UNCHANGED job
          \/ \E k \in Jobs : Prepare(k) \/ Deliver(k) \/ Discard(k)
      BY DEF Next, Review, Remember, Correct, Confirm, Forget, Commanded, Command, AskClear,
             ClearExpires, Clear, SetEnabled, Maintain
    <3> QED
      BY <3>1, <3>2
  <2>2. k = j
    BY <2>1 DEF Deliver, Discard, Close, IInv, Limits
  <2>3. CASE Deliver(j)
    BY <2>3, DeliverLeaves DEF LeavesOthers
  <2>4. CASE Discard(j)
    BY <2>4 DEF Discard
  <2> QED
    BY <2>1, <2>2, <2>3, <2>4
<1> QED
  BY <1>1, Invariant, PTL DEF Spec, NoLostNote

\* commit_review applied to what MemoryValidator accepted: the curator can
\* only add to what is remembered, and every text it changes is in a revision.
THEOREM CuratorKeeps == Spec => ReviewsKeep
<1>1. IInv /\ [Next]_vars =>
        [reviews' # reviews =>
            \A i \in Present(db) :
               /\ i \in Present(db')
               /\ db.items[i].status = "contradicted" => db'.items[i] = db.items[i]
               /\ db.history[i] \subseteq db'.history[i]
               /\ db.items[i].sensitive => db'.items[i].sensitive]_vars
  <2> SUFFICES ASSUME IInv, Next, reviews' # reviews, NEW i \in Present(db)
               PROVE  /\ i \in Present(db')
                      /\ db.items[i].status = "contradicted" => db'.items[i] = db.items[i]
                      /\ db.history[i] \subseteq db'.history[i]
                      /\ db.items[i].sensitive => db'.items[i].sensitive
    OBVIOUS
  <2>1. Review
    BY DEF Next, Remember, Correct, Confirm, Forget, Commanded, Command, AskClear,
           ClearExpires, Clear, SetEnabled, Maintain, Prepare, Deliver, Discard
  <2>2. Preserves(db, db', None)
    BY <2>1, ReviewLeads DEF Leads
  <2>3. i # None
    BY PresentIds, NoneIsNothing DEF Ids
  <2> QED
    BY <2>2, <2>3 DEF Preserves
<1> QED
  BY <1>1, Invariant, PTL DEF Spec, ReviewsKeep
=============================================================================
