------------------------- MODULE ScheduleRunsProofs -------------------------
(* Safety of the scheduler, and that it keeps the ledger of occurrences, for *)
(* any schedules, due times, limits, crashes and reloads.                    *)
EXTENDS ScheduleRuns, SetInduction, FiniteSetTheorems

-----------------------------------------------------------------------------
(* Due times.                                                              *)

\* A set of due times has an earliest one.
LEMMA EarliestExists ==
    ASSUME NEW S \in SUBSET Nat, S # {}
    PROVE  Earliest(S) \in S /\ \A p \in S : Earliest(S) =< p
<1> DEFINE Least == {n \in Nat : \A p \in S : n =< p}
<1>1. SUFFICES \E o \in S : \A p \in S : o =< p
  BY DEF Earliest
<1>2. SUFFICES ASSUME ~ \E o \in S : \A p \in S : o =< p
               PROVE  FALSE
  OBVIOUS
<1>3. 0 \in Least
  OBVIOUS
<1>4. \A n \in Nat : n \in Least => n + 1 \in Least
  <2> SUFFICES ASSUME NEW n \in Nat, n \in Least, NEW p \in S
               PROVE  n + 1 =< p
    OBVIOUS
  <2>1. n =< p /\ p \in Nat /\ n \notin S
    BY <1>2
  <2> QED
    BY <2>1
<1> HIDE DEF Least
<1>5. Nat \subseteq Least
  BY <1>3, <1>4, SetInduction
<1>6. PICK p \in S : TRUE
  OBVIOUS
<1>7. p \in Nat /\ p + 1 \in Least
  BY <1>5
<1> QED
  BY <1>6, <1>7 DEF Least

\* A bounded one has a latest one.
LEMMA LatestExists ==
    ASSUME NEW S \in SUBSET Nat, S # {}, NEW n \in Nat, \A p \in S : p =< n
    PROVE  Latest(S) \in S /\ \A p \in S : Latest(S) >= p
<1> DEFINE T == {n - p : p \in S}
<1>1. T \in SUBSET Nat /\ T # {}
  <2>1. \A p \in S : n - p \in Nat
    OBVIOUS
  <2> QED
    BY <2>1
<1>2. Earliest(T) \in T /\ \A q \in T : Earliest(T) =< q
  BY <1>1, EarliestExists
<1>3. PICK o \in S : Earliest(T) = n - o
  BY <1>2
<1>4. \A p \in S : n - o =< n - p
  BY <1>2, <1>3
<1>5. \A p \in S : o >= p
  BY <1>4
<1> QED
  BY <1>5 DEF Latest

\* The times of a schedule.
LEMMA OccurrencesFinite ==
    ASSUME NEW s \in Schedules
    PROVE  /\ Occurrences[s] \subseteq Nat \ {0} /\ IsFiniteSet(Occurrences[s])
           /\ \A o \in Occurrences[s] : o =< MaxTime
           /\ None \notin Occurrences[s]
<1>1. Occurrences[s] \subseteq 1..MaxTime /\ MaxTime \in Nat
  BY OccurrencesType, ParametersType
<1>2. IsFiniteSet(1..MaxTime)
  BY <1>1, FS_Interval
<1>3. IsFiniteSet(Occurrences[s])
  BY <1>1, <1>2, FS_Subset
<1> QED
  BY <1>1, <1>3, NoneNoTime

\* The next occurrence after a time: there is none in between.
LEMMA NextAfterIs ==
    ASSUME NEW s \in Schedules, NEW t \in Nat
    PROVE  /\ NextAfter(s, t) \in Occurrences[s] \union {None}
           /\ NextAfter(s, t) # None =>
                  /\ NextAfter(s, t) > t
                  /\ \A o \in Occurrences[s] : o > t => o >= NextAfter(s, t)
           /\ NextAfter(s, t) = None => \A o \in Occurrences[s] : o =< t
<1> DEFINE S == {o \in Occurrences[s] : o > t}
<1>1. S \in SUBSET Nat /\ S \subseteq Occurrences[s] /\ None \notin S
  BY OccurrencesFinite
<1>2. NextAfter(s, t) = IF S = {} THEN None ELSE Earliest(S)
  BY DEF NextAfter, EarliestOrNone
<1>3. CASE S = {}
  BY <1>2, <1>3, OccurrencesFinite
<1>4. CASE S # {}
  <2>1. Earliest(S) \in S /\ \A p \in S : Earliest(S) =< p
    BY <1>1, <1>4, EarliestExists
  <2> QED
    BY <1>1, <1>2, <1>4, <2>1, OccurrencesFinite
<1> QED
  BY <1>3, <1>4

\* What is lost is counted, up to the limit of one count.
CountedLost(count, s, due, h) ==
    LET lost == Cardinality({o \in Occurrences[s] : due =< o /\ o =< h}) IN
    /\ lost \in Nat /\ count =< lost
    /\ Cardinality(Occurrences[s]) =< CountLimit => count = lost

\* Writing off: what is lost is everything up to a horizon, older than the
\* grace period unless a newer due occurrence is kept.
LEMMA MisfireIs ==
    ASSUME NEW s \in Schedules, NEW due \in Occurrences[s], clock \in Nat, Misfired(due)
    PROVE  LET target == MisfireTarget(s, due) IN
           /\ target \in Occurrences[s] \union {None}
           /\ target # None => target > due
           /\ due + Grace < clock
           /\ MisfireCount(s, due) \in Nat
           /\ \E h \in Occurrences[s] :
                  /\ due =< h /\ h =< clock
                  /\ \A o \in Occurrences[s] :
                         due =< o => (o =< h <=> ~ (target # None /\ o >= target))
                  /\ \/ target # None /\ target =< clock
                     \/ \A o \in Occurrences[s] : o =< h => o + Grace < clock
                  /\ CountedLost(MisfireCount(s, due), s, due, h)
<1> DEFINE O == {o \in Occurrences[s] : due =< o /\ o =< clock}
           target == MisfireTarget(s, due)
<1>1. /\ due \in Nat /\ Grace \in Nat /\ due + Grace < clock /\ due =< clock
      /\ CountLimit \in Nat \ {0}
  BY OccurrencesFinite, ParametersType DEF Misfired
<1>2. O \in SUBSET Nat /\ O # {} /\ due \in O /\ \A p \in O : p =< clock
  BY <1>1, OccurrencesFinite
<1>3. Latest(O) \in O /\ \A p \in O : Latest(O) >= p
  BY <1>2, LatestExists
<1>4. /\ Overdue(s, due) = O
      /\ Replayed(s, due) <=> clock - Latest(O) =< Grace
  BY <1>2 DEF Overdue, Replayed
<1> DEFINE size == Cardinality(O)
           all == Cardinality(Occurrences[s])
<1>5. /\ IsFiniteSet(O) /\ size \in Nat \ {0} /\ all \in Nat /\ size =< all
      /\ MisfireCount(s, due) \in Nat
      /\ Replayed(s, due) /\ size > 1 => /\ MisfireCount(s, due) =< size - 1
                                         /\ all =< CountLimit => MisfireCount(s, due) = size - 1
      /\ ~ Replayed(s, due) => /\ MisfireCount(s, due) =< size
                               /\ all =< CountLimit => MisfireCount(s, due) = size
  <2> DEFINE n == AtMost(CountLimit, size)
  <2>1. IsFiniteSet(O) /\ size \in Nat \ {0} /\ all \in Nat /\ size =< all
    <3>1. IsFiniteSet(O) /\ IsFiniteSet(Occurrences[s]) /\ O \subseteq Occurrences[s]
      BY OccurrencesFinite, FS_Subset
    <3>2. Cardinality(O) \in Nat /\ Cardinality(Occurrences[s]) \in Nat /\ Cardinality(O) # 0
      BY <3>1, <1>2, FS_EmptySet, FS_CardinalityType
    <3>3. Cardinality(O) =< Cardinality(Occurrences[s])
      BY <3>1, FS_Subset
    <3> QED
      BY <3>1, <3>2, <3>3
  <2>3. MisfireCount(s, due) = AtLeastOne(IF Replayed(s, due) THEN n - 1 ELSE n)
    BY <1>4 DEF MisfireCount
  <2> HIDE DEF size, all
  <2>2. n \in Nat /\ n - 1 \in Nat /\ n =< size /\ (all =< CountLimit => n = size)
    BY <1>1, <2>1 DEF AtMost
  <2> HIDE DEF n
  <2>4. ASSUME Replayed(s, due)
        PROVE  /\ MisfireCount(s, due) \in Nat
               /\ size > 1 => /\ MisfireCount(s, due) =< size - 1
                              /\ all =< CountLimit => MisfireCount(s, due) = size - 1
    BY <2>1, <2>2, <2>3, <2>4 DEF AtLeastOne
  <2>5. ASSUME ~ Replayed(s, due)
        PROVE  /\ MisfireCount(s, due) \in Nat
               /\ MisfireCount(s, due) =< size
               /\ all =< CountLimit => MisfireCount(s, due) = size
    BY <2>1, <2>2, <2>3, <2>5 DEF AtLeastOne
  <2> QED
    BY <2>1, <2>4, <2>5
<1> DEFINE Horizon(h) ==
       /\ due =< h /\ h =< clock
       /\ \A o \in Occurrences[s] :
              due =< o => (o =< h <=> ~ (target # None /\ o >= target))
       /\ \/ target # None /\ target =< clock
          \/ \A o \in Occurrences[s] : o =< h => o + Grace < clock
       /\ CountedLost(MisfireCount(s, due), s, due, h)
<1>6. CASE Replayed(s, due)
  <2>1. target = Latest(O) /\ target \in Nat /\ target # None /\ target =< clock
    BY <1>2, <1>3, <1>4, <1>6, NoneNoTime DEF MisfireTarget
  <2>2. due \in O \ {target}
    BY <1>1, <1>2, <1>4, <1>6, <2>1
  <2> DEFINE h == Latest(O \ {target})
  <2>3. h \in O \ {target} /\ \A p \in O \ {target} : h >= p
    <3>1. O \ {target} \in SUBSET Nat
      BY <1>2
    <3> QED
      BY <1>2, <2>2, <3>1, LatestExists
  <2>4. target > due
    BY <1>2, <1>3, <2>1, <2>2
  <2>5. target \in Occurrences[s]
    BY <1>3, <2>1
  <2> HIDE DEF h
  <2>6. h < target
    <3>1. h \in Nat /\ h =< target /\ h # target
      BY <1>2, <1>3, <2>1, <2>3
    <3> HIDE DEF target
    <3> QED
      BY <2>1, <3>1
  <2>7. \A o \in Occurrences[s] : due =< o => (o =< h <=> ~ (o >= target))
    <3> SUFFICES ASSUME NEW o \in Occurrences[s], due =< o
                 PROVE  o =< h <=> ~ (o >= target)
      OBVIOUS
    <3>1. o \in Nat /\ h \in Nat
      BY <1>2, <2>3, OccurrencesFinite
    <3>2. o < target => o \in O \ {target}
      BY <3>1, <2>1, <1>1
    <3> QED
      BY <2>1, <2>3, <2>6, <3>1, <3>2
  <2>10. CountedLost(MisfireCount(s, due), s, due, h)
    <3>1. {o \in Occurrences[s] : due =< o /\ o =< h} = O \ {target}
      BY <1>1, <1>2, <2>1, <2>3, <2>7, OccurrencesFinite
    <3>2. Cardinality(O \ {target}) = size - 1
      <4>1. target \in O /\ IsFiniteSet(O)
        BY <1>3, <1>5, <2>1
      <4> HIDE DEF O, target
      <4> QED
        BY <4>1, FS_RemoveElement
    <3>3. size - 1 # 0
      <4>1. IsFiniteSet(O \ {target})
        BY <1>5, FS_Subset
      <4> QED
        BY <2>2, <3>2, <4>1, FS_EmptySet
    <3> HIDE DEF O, size, all, target
    <3>4. size > 1 /\ size - 1 \in Nat
      BY <1>5, <3>3
    <3>5. /\ Cardinality({o \in Occurrences[s] : due =< o /\ o =< h}) = size - 1
          /\ MisfireCount(s, due) =< size - 1
          /\ all =< CountLimit => MisfireCount(s, due) = size - 1
      <4>1. Cardinality({o \in Occurrences[s] : due =< o /\ o =< h})
              = Cardinality(O \ {target})
        BY <3>1, Zenon
      <4>2. /\ MisfireCount(s, due) =< size - 1
            /\ all =< CountLimit => MisfireCount(s, due) = size - 1
        BY <1>5, <1>6, <3>4
      <4> QED
        BY <4>1, <4>2, <3>2, Zenon
    <3> QED
      BY <3>4, <3>5 DEF CountedLost, all
  <2>8. Horizon(h) /\ h \in Occurrences[s]
    BY <2>1, <2>3, <2>7, <2>10
  <2> HIDE DEF Horizon, O, target
  <2>9. \E x \in Occurrences[s] : Horizon(x)
    BY <2>8
  <2> QED
    BY <1>1, <1>5, <2>4, <2>5, <2>9 DEF Horizon, target
<1>7. CASE ~ Replayed(s, due)
  <2>1. target = NextAfter(s, clock) /\ clock - Latest(O) > Grace
    BY <1>1, <1>2, <1>3, <1>4, <1>7 DEF MisfireTarget
  <2>2. /\ target \in Occurrences[s] \union {None}
        /\ target # None =>
               /\ target > clock
               /\ \A o \in Occurrences[s] : o > clock => o >= target
        /\ target = None => \A o \in Occurrences[s] : o =< clock
    BY <2>1, NextAfterIs
  <2> DEFINE h == Latest(O)
  <2>3. h \in Occurrences[s] /\ h \in Nat /\ due =< h /\ h =< clock /\ h + Grace < clock
    BY <1>1, <1>2, <1>3, <2>1
  <2>4. \A o \in Occurrences[s] : due =< o => (o =< h <=> o =< clock)
    BY <1>2, <1>3, <2>3, OccurrencesFinite
  <2> HIDE DEF h, O, target
  <2>5. \A o \in Occurrences[s] : o \in Nat
    BY OccurrencesFinite
  <2>6. target # None => target \in Nat /\ target > due
    BY <2>2, <2>5, <1>1
  <2>10. CountedLost(MisfireCount(s, due), s, due, h)
    <3>1. {o \in Occurrences[s] : due =< o /\ o =< h} = O
      BY <1>1, <2>3, <2>4 DEF O
    <3> QED
      BY <1>5, <1>7, <3>1 DEF CountedLost
  <2>7. Horizon(h)
    BY <1>1, <2>2, <2>3, <2>4, <2>5, <2>6, <2>10
  <2> HIDE DEF Horizon
  <2>9. \E x \in Occurrences[s] : Horizon(x)
    BY <2>3, <2>7
  <2> QED
    BY <1>1, <1>5, <2>2, <2>6, <2>9 DEF Horizon, target
<1> QED
  BY <1>6, <1>7

-----------------------------------------------------------------------------
(* The invariant of the store.                                             *)

StoreType ==
    /\ sched \in [Schedules -> ScheduleRow]
    /\ run \in [RunIds -> RunRow]
    /\ pruned \subseteq RunIds
    /\ lastRun \in 0..MaxRuns

\* The rows are those up to lastRun, each of a schedule that was created.
Numbered ==
    \A r \in RunIds :
        IF r =< lastRun
        THEN /\ run[r].schedule \in Schedules /\ run[r].state # "none"
             /\ sched[run[r].schedule].status # "absent"
        ELSE run[r].schedule = None /\ run[r].state = "none" /\ r \notin pruned

InProgress(r) == run[r].state = "running"
NoneRunningPruned == \A r \in pruned : ~ InProgress(r)
OneInProgress ==
    \A q, r \in RunIds :
        InProgress(q) /\ InProgress(r) /\ run[q].schedule = run[r].schedule => q = r

\* A schedule that waits for its last run has it.
LastIsRunning ==
    \A s \in Schedules :
        sched[s].status = "finishing" =>
            \E r \in RunIds : InProgress(r) /\ run[r].schedule = s

\* What was dispatched lies before what comes next, and was dispatched once.
NextIsAhead ==
    \A s \in Schedules :
        /\ sched[s].next \in Occurrences[s] \union {None}
        /\ sched[s].status = "absent" => sched[s].next = None
        /\ \A r \in RunIds :
               run[r].schedule = s /\ ~ run[r].manual =>
                   /\ run[r].due \in Nat
                   /\ sched[s].next # None => run[r].due < sched[s].next
SameDispatch(q, r) ==
    /\ run[q].schedule \in Schedules /\ run[q].schedule = run[r].schedule
    /\ ~ run[q].manual /\ ~ run[r].manual /\ run[q].due = run[r].due
DispatchedOnce == \A q, r \in RunIds : SameDispatch(q, r) => q = r

Store ==
    /\ StoreType /\ Numbered /\ NoneRunningPruned /\ OneInProgress
    /\ LastIsRunning /\ NextIsAhead /\ DispatchedOnce

\* What was written off.
IsMissed(s, o) == Fate(s, o) = "missed"
SameMissed == \A s \in Schedules : \A o \in Occurrences[s] : IsMissed(s, o)' <=> IsMissed(s, o)

\* What is not settled: everything of a schedule that is to be created, then
\* everything from the next occurrence on.
Unsettled(s, o) ==
    sched[s].status = "absent" \/ (sched[s].next # None /\ o >= sched[s].next)
SameDispatches ==
    \A s \in Schedules : Claimed(s)' = Claimed(s)
SameFate ==
    \A s \in Schedules : \A o \in Occurrences[s] : Fate(s, o)' = Fate(s, o)

LEMMA FateIs ==
    ASSUME NEW s \in Schedules, NEW o \in Occurrences[s]
    PROVE  Fate(s, o) = IF o \in Claimed(s) THEN "dispatched"
                        ELSE IF Unsettled(s, o) THEN "pending" ELSE "missed"
BY DEF Fate, Unsettled

\* Without new runs, the fate of an occurrence depends on the next one only.
LEMMA FateStays ==
    ASSUME SameDispatches,
           \A s \in Schedules : \A o \in Occurrences[s] :
               Unsettled(s, o)' <=> Unsettled(s, o)
    PROVE  SameFate
BY DEF SameFate, SameDispatches, Fate, Unsettled

\* Rows that keep their schedule, due time and kind keep the dispatches.
LEMMA DispatchesStay ==
    ASSUME \A r \in RunIds :
               \/ /\ run'[r].schedule = run[r].schedule /\ run'[r].due = run[r].due
                  /\ run'[r].manual = run[r].manual
               \/ /\ run'[r].manual
                  /\ run[r].schedule = None
    PROVE  SameDispatches
<1> SUFFICES ASSUME NEW s \in Schedules
             PROVE  Claimed(s)' = Claimed(s)
  BY DEF SameDispatches
<1>1. s # None
  BY SchedulesFinite
<1>2. Claimed(s) = {run[r].due : r \in {q \in RunIds : run[q].schedule = s /\ ~run[q].manual}}
  BY DEF Claimed
<1>3. Claimed(s)' = {run'[r].due : r \in {q \in RunIds : run'[q].schedule = s /\ ~run'[q].manual}}
  BY DEF Claimed
<1>4. {q \in RunIds : run'[q].schedule = s /\ ~run'[q].manual} =
      {q \in RunIds : run[q].schedule = s /\ ~run[q].manual}
  BY <1>1
<1> QED
  BY <1>1, <1>2, <1>3, <1>4

\* Only the schedules change: none disappears or begins to wait for its last
\* run, and the next occurrence only moves ahead.
LEMMA SchedulesStep ==
    ASSUME Store, UNCHANGED <<run, pruned, lastRun>>,
           sched' \in [Schedules -> ScheduleRow],
           \A s \in Schedules :
               /\ sched'[s].status = "absent" => sched[s].status = "absent"
               /\ sched'[s].status = "finishing" => sched[s].status = "finishing"
               /\ \/ sched'[s].next = sched[s].next
                  \/ /\ sched'[s].status # "absent"
                     /\ sched'[s].next \in Occurrences[s] \union {None}
                     /\ \/ sched[s].status = "absent"
                        \/ /\ sched[s].next # None
                           /\ sched'[s].next # None => sched'[s].next > sched[s].next
    PROVE  Store' /\ SameDispatches
<1> USE DEF Store
<1>1. /\ run' = run /\ pruned' = pruned /\ lastRun' = lastRun
      /\ \A r \in RunIds : InProgress(r)' <=> InProgress(r)
  BY DEF InProgress
<1>2. StoreType'
  BY <1>1 DEF StoreType
<1>3. Numbered'
  BY <1>1 DEF Numbered
<1>4. NoneRunningPruned'
  BY <1>1 DEF NoneRunningPruned, InProgress
<1>5. OneInProgress'
  BY <1>1 DEF OneInProgress
<1>6. LastIsRunning'
  BY <1>1 DEF LastIsRunning
<1>7. NextIsAhead'
  <2> SUFFICES ASSUME NEW s \in Schedules
               PROVE  /\ sched'[s].next \in Occurrences[s] \union {None}
                      /\ sched'[s].status = "absent" => sched'[s].next = None
                      /\ \A r \in RunIds :
                             run[r].schedule = s /\ ~ run[r].manual =>
                                 /\ run[r].due \in Nat
                                 /\ sched'[s].next # None => run[r].due < sched'[s].next
    BY <1>1 DEF NextIsAhead
  <2>1. /\ sched[s].next \in Occurrences[s] \union {None}
        /\ sched[s].status = "absent" => sched[s].next = None
        /\ \A r \in RunIds :
               run[r].schedule = s /\ ~ run[r].manual =>
                   /\ run[r].due \in Nat
                   /\ sched[s].next # None => run[r].due < sched[s].next
    BY DEF NextIsAhead
  <2>2. sched[s].status = "absent" => \A r \in RunIds : run[r].schedule # s
    BY SchedulesFinite DEF Numbered
  <2>3. \A o \in Occurrences[s] : o \in Nat
    BY OccurrencesFinite
  <2>4. sched'[s].next = sched[s].next \/ sched'[s].next # sched[s].next
    OBVIOUS
  <2> QED
    BY <2>1, <2>2, <2>3
<1>8. DispatchedOnce'
  BY <1>1 DEF DispatchedOnce, SameDispatch
<1>9. SameDispatches
  BY <1>1, DispatchesStay
<1> QED
  BY <1>2, <1>3, <1>4, <1>5, <1>6, <1>7, <1>8, <1>9

\* A new row, and the schedule it is a run of.
LEMMA InsertStep ==
    ASSUME Store, NEW s \in Schedules, NEW manual \in BOOLEAN, NEW due \in Nat,
           InsertRun(s, due, manual), Running(s) = {},
           sched[s].status \in {"active", "paused"},
           sched' \in [Schedules -> ScheduleRow],
           \A x \in Schedules \ {s} : sched'[x] = sched[x],
           sched'[s].status \in {"active", "paused", "finishing"},
           manual => sched'[s].next = sched[s].next,
           ~ manual => due = sched[s].next /\ sched'[s].next = NextAfter(s, due)
    PROVE  /\ Store'
           /\ manual => SameDispatches
           /\ ~ manual => /\ Claimed(s)' = Claimed(s) \union {due}
                          /\ \A x \in Schedules \ {s} : Claimed(x)' = Claimed(x)
<1> DEFINE n == lastRun + 1
           row == [schedule |-> s, due |-> due, manual |-> manual, state |-> "running"]
<1> USE DEF Store
<1>1. /\ n \in RunIds /\ lastRun' = n /\ pruned' = pruned /\ lastRun \in Nat
      /\ run' = [run EXCEPT ![n] = row]
      /\ run \in [RunIds -> RunRow] /\ MaxRuns \in Nat
  BY ParametersType DEF InsertRun, StoreType, RunIds
<1>2. run'[n] = row /\ \A r \in RunIds \ {n} : run'[r] = run[r]
  BY <1>1
<1>3. run[n].schedule = None /\ run[n].state = "none" /\ n \notin pruned /\ s # None
  BY <1>1, SchedulesFinite DEF Numbered
<1>4. \A r \in RunIds : run[r].schedule = s => ~ InProgress(r)
  <2> SUFFICES ASSUME NEW r \in RunIds, run[r].schedule = s, InProgress(r)
               PROVE  FALSE
    OBVIOUS
  <2>1. r =< lastRun /\ r \in 1..lastRun
    BY <1>1, <1>3 DEF Numbered, RunIds
  <2>2. r \notin pruned
    BY DEF NoneRunningPruned
  <2> QED
    BY <2>1, <2>2 DEF Running, RowsOf, InProgress
<1>5. /\ row.schedule = s /\ row.due = due /\ row.manual = manual /\ row.state = "running"
      /\ row \in RunRow
  BY DEF RunRow, Times, RunStates
<1> HIDE DEF n, row
<1>6. \A r \in RunIds \ {n} : InProgress(r)' <=> InProgress(r)
  BY <1>2 DEF InProgress
<1>7. run'[n].state = "running"
  BY <1>2, <1>5
<1>8. StoreType'
  BY <1>1, <1>5 DEF StoreType, RunIds
<1>9. Numbered'
  <2> SUFFICES ASSUME NEW r \in RunIds
               PROVE  IF r =< n
                      THEN /\ run'[r].schedule \in Schedules /\ run'[r].state # "none"
                           /\ sched'[run'[r].schedule].status # "absent"
                      ELSE run'[r].schedule = None /\ run'[r].state = "none" /\ r \notin pruned
    BY <1>1 DEF Numbered
  <2>1. CASE r = n
    BY <1>2, <1>5, <2>1, <1>1 DEF RunIds
  <2>2. CASE r # n
    <3>1. r =< n <=> r =< lastRun
      BY <1>1, <2>2 DEF n, RunIds
    <3> QED
      BY <1>2, <2>2, <3>1 DEF Numbered
  <2> QED
    BY <2>1, <2>2
<1>10. NoneRunningPruned'
  BY <1>1, <1>3, <1>6 DEF NoneRunningPruned, StoreType
<1>11. OneInProgress'
  BY <1>2, <1>4, <1>5, <1>6, <1>7 DEF OneInProgress
<1>12. LastIsRunning'
  <2> SUFFICES ASSUME NEW x \in Schedules, sched'[x].status = "finishing"
               PROVE  \E r \in RunIds : InProgress(r)' /\ run'[r].schedule = x
    BY DEF LastIsRunning
  <2>1. CASE x = s
    BY <1>1, <1>2, <1>5, <1>7, <2>1 DEF InProgress
  <2>2. CASE x # s
    <3>1. PICK r \in RunIds : InProgress(r) /\ run[r].schedule = x
      BY <2>2 DEF LastIsRunning
    <3>2. r # n
      BY <1>3, <3>1 DEF InProgress
    <3> QED
      BY <1>2, <1>6, <3>1, <3>2
  <2> QED
    BY <2>1, <2>2
<1>13. ~ manual => /\ due \in Occurrences[s]
                   /\ sched'[s].next \in Occurrences[s] \union {None}
                   /\ sched'[s].next # None => sched'[s].next > due
  BY NoneNoTime, NextAfterIs DEF NextIsAhead
<1>14. NextIsAhead'
  <2> SUFFICES ASSUME NEW x \in Schedules
               PROVE  /\ sched'[x].next \in Occurrences[x] \union {None}
                      /\ sched'[x].status = "absent" => sched'[x].next = None
                      /\ \A r \in RunIds :
                             run'[r].schedule = x /\ ~ run'[r].manual =>
                                 /\ run'[r].due \in Nat
                                 /\ sched'[x].next # None => run'[r].due < sched'[x].next
    BY DEF NextIsAhead
  <2>1. CASE x = s
    <3>1. /\ sched'[x].next \in Occurrences[x] \union {None}
          /\ sched'[x].status # "absent"
      BY <1>13, <2>1 DEF NextIsAhead
    <3>2. ASSUME NEW r \in RunIds, run'[r].schedule = s, ~ run'[r].manual
          PROVE  /\ run'[r].due \in Nat
                 /\ sched'[s].next # None => run'[r].due < sched'[s].next
      <4>1. CASE r = n
        BY <1>2, <1>5, <1>13, <3>2, <4>1, OccurrencesFinite
      <4>2. CASE r # n
        <5>1. /\ run[r].due \in Nat
              /\ sched[s].next # None => run[r].due < sched[s].next
          BY <1>2, <3>2, <4>2 DEF NextIsAhead
        <5>2. CASE manual
          BY <1>2, <4>2, <5>1, <5>2
        <5>3. CASE ~ manual
          <6>1. run[r].due < due
            BY <5>1, <5>3, NoneNoTime
          <6>2. sched'[s].next # None => sched'[s].next \in Nat /\ due < sched'[s].next
            BY <1>13, <5>3, OccurrencesFinite
          <6> QED
            BY <1>2, <4>2, <5>1, <6>1, <6>2
        <5> QED
          BY <5>2, <5>3
      <4> QED
        BY <4>1, <4>2
    <3> QED
      BY <2>1, <3>1, <3>2
  <2>2. CASE x # s
    BY <1>2, <1>5, <2>2 DEF NextIsAhead
  <2> QED
    BY <2>1, <2>2
<1>15. DispatchedOnce'
  <2> SUFFICES ASSUME NEW q \in RunIds, NEW r \in RunIds, SameDispatch(q, r)'
               PROVE  q = r
    BY DEF DispatchedOnce
  <2>1. CASE q # n /\ r # n
    BY <1>2, <2>1 DEF DispatchedOnce, SameDispatch
  <2>2. ASSUME NEW x \in RunIds, x # n, run[x].schedule = s, ~ run[x].manual, ~ manual
        PROVE  run[x].due # due
    <3>1. run[x].due \in Nat /\ run[x].due < sched[s].next
      BY <2>2, NoneNoTime DEF NextIsAhead
    <3> QED
      BY <2>2, <3>1
  <2> QED
    BY <1>2, <1>5, <2>1, <2>2 DEF SameDispatch
<1>16. manual => SameDispatches
  BY <1>2, <1>3, <1>5, DispatchesStay
<1>17. ~ manual => /\ Claimed(s)' = Claimed(s) \union {due}
                   /\ \A x \in Schedules \ {s} : Claimed(x)' = Claimed(x)
  <2> SUFFICES ASSUME ~ manual, NEW x \in Schedules
               PROVE  Claimed(x)' = Claimed(x) \union (IF x = s THEN {due} ELSE {})
    OBVIOUS
  <2> DEFINE Q == {q \in RunIds : run[q].schedule = x /\ ~run[q].manual}
             P == {q \in RunIds : run'[q].schedule = x /\ ~run'[q].manual}
  <2>1. Claimed(x) = {run[r].due : r \in Q} /\ Claimed(x)' = {run'[r].due : r \in P}
    BY DEF Claimed
  <2>2. x # None
    BY SchedulesFinite
  <2>3. P = Q \union (IF x = s THEN {n} ELSE {}) /\ n \notin Q
    BY <1>1, <1>2, <1>3, <1>5, <2>2
  <2>4. Q \subseteq RunIds
    OBVIOUS
  <2> HIDE DEF P, Q
  <2>5. \A r \in Q : run'[r].due = run[r].due
    BY <1>2, <2>3, <2>4
  <2> QED
    BY <1>2, <1>5, <2>1, <2>3, <2>5
<1> QED
  BY <1>8, <1>9, <1>10, <1>11, <1>12, <1>14, <1>15, <1>16, <1>17

LEMMA SettledIs ==
    ASSUME NEW row \in ScheduleRow, NEW state \in RunStates
    PROVE  LET settled == Settled(row, state) IN
           /\ settled \in ScheduleRow /\ settled.next = row.next
           /\ settled.status # "finishing"
           /\ settled.status = "absent" <=> row.status = "absent"
           /\ row.status \in {"completed", "cancelled"} => settled.status = row.status
<1> DEFINE consecutive == IF state = "succeeded" THEN 0
                          ELSE IF state \in Failing THEN row.consecutive + 1
                          ELSE row.consecutive
           status == IF row.status = "finishing" THEN "completed" ELSE row.status
           tooMany == MaxFailures > 0 /\ consecutive >= MaxFailures
           success == IF state = "succeeded" THEN row.success + 1 ELSE row.success
           failure == IF state \in Failing THEN row.failure + 1 ELSE row.failure
           final == IF status = "active" /\ tooMany THEN "paused" ELSE status
<1>1. /\ row.success \in Nat /\ row.failure \in Nat /\ row.consecutive \in Nat
      /\ row.status \in Statuses
  BY DEF ScheduleRow
<1>2. consecutive \in Nat /\ success \in Nat /\ failure \in Nat /\ final \in Statuses
  BY <1>1 DEF Statuses
<1>3. /\ final # "finishing"
      /\ final = "absent" <=> row.status = "absent"
      /\ row.status \in {"completed", "cancelled"} => final = row.status
  OBVIOUS
<1>4. Settled(row, state) = [row EXCEPT !.success = success, !.failure = failure,
                                        !.consecutive = consecutive, !.status = final]
  BY DEF Settled
<1> HIDE DEF consecutive, status, tooMany, success, failure, final
<1>5. Settled(row, state) \in ScheduleRow
  BY <1>2, <1>4 DEF ScheduleRow
<1>6. Settled(row, state).next = row.next /\ Settled(row, state).status = final
  BY <1>4 DEF ScheduleRow
<1> QED
  BY <1>3, <1>5, <1>6

\* A run ends, and the history of its schedule is pruned.
LEMMA FinishStore ==
    ASSUME Store, NEW r \in RunIds, NEW state \in RunStates \ {"none", "running"},
           FinishRun(r, state), Closable(r)
    PROVE  /\ Store' /\ SameFate
           /\ run[r].schedule \in Schedules
           /\ run' = [run EXCEPT ![r].state = state]
           /\ \A s \in Schedules :
                  sched[s].status \in {"completed", "cancelled"} =>
                      sched'[s].status = sched[s].status /\ sched'[s].next = sched[s].next
<1> DEFINE s == run[r].schedule
<1> USE DEF Store
<1>1. run[r].state = "running" /\ InProgress(r) /\ r =< lastRun /\ s \in Schedules
  BY DEF Closable, InProgress, Numbered
<1>2. /\ run' = [run EXCEPT ![r].state = state]
      /\ sched' = [sched EXCEPT ![s] = Settled(sched[s], state)]
      /\ lastRun' = lastRun
      /\ pruned \subseteq pruned' /\ pruned' \subseteq pruned \union RowsOf(s)
  BY DEF FinishRun
<1> HIDE DEF s
<1>3. /\ run \in [RunIds -> RunRow] /\ sched \in [Schedules -> ScheduleRow]
      /\ lastRun \in 0..MaxRuns /\ pruned \subseteq RunIds
  BY DEF StoreType
<1>4. /\ \A q \in RunIds : /\ run'[q].schedule = run[q].schedule
                           /\ run'[q].due = run[q].due /\ run'[q].manual = run[q].manual
      /\ run'[r].state = state
      /\ \A q \in RunIds \ {r} : run'[q] = run[q]
      /\ run' \in [RunIds -> RunRow]
  BY <1>2, <1>3 DEF RunRow
<1>5. \A q \in RunIds : InProgress(q)' => InProgress(q) /\ q # r
  BY <1>4 DEF InProgress
<1>6. /\ sched' \in [Schedules -> ScheduleRow]
      /\ \A x \in Schedules \ {s} : sched'[x] = sched[x]
      /\ \A x \in Schedules :
             /\ sched'[x].next = sched[x].next
             /\ sched'[x].status = "absent" <=> sched[x].status = "absent"
             /\ sched[x].status \in {"completed", "cancelled"} =>
                    sched'[x].status = sched[x].status
      /\ sched'[s].status # "finishing"
  BY <1>1, <1>2, <1>3, SettledIs
<1>7. StoreType'
  <2>1. RowsOf(s) \subseteq RunIds
    BY <1>3, ParametersType DEF RowsOf, RunIds
  <2> QED
    BY <1>2, <1>3, <1>4, <1>6, <2>1 DEF StoreType
<1>8. Numbered'
  <2> SUFFICES ASSUME NEW q \in RunIds
               PROVE  IF q =< lastRun
                      THEN /\ run[q].schedule \in Schedules /\ run'[q].state # "none"
                           /\ sched'[run[q].schedule].status # "absent"
                      ELSE run[q].schedule = None /\ run'[q].state = "none" /\ q \notin pruned'
    BY <1>2, <1>4 DEF Numbered
  <2>1. q = r => state # "none" /\ q =< lastRun
    BY <1>1
  <2>2. ~ (q =< lastRun) => q \notin RowsOf(s)
    BY <1>3 DEF RowsOf, RunIds
  <2> QED
    BY <1>2, <1>4, <1>6, <2>1, <2>2 DEF Numbered
<1>9. NoneRunningPruned'
  <2> SUFFICES ASSUME NEW q \in pruned', InProgress(q)'
               PROVE  FALSE
    BY DEF NoneRunningPruned
  <2>1. q \in RunIds
    BY <1>7 DEF StoreType
  <2>2. InProgress(q) /\ q # r
    BY <1>5, <2>1
  <2>3. q \notin pruned
    BY <2>2 DEF NoneRunningPruned
  <2>4. run[q].schedule = s
    BY <1>2, <2>3 DEF RowsOf
  <2> QED
    BY <1>1, <2>1, <2>2, <2>4 DEF OneInProgress, s
<1>10. OneInProgress'
  BY <1>4, <1>5 DEF OneInProgress
<1>11. LastIsRunning'
  <2> SUFFICES ASSUME NEW x \in Schedules, sched'[x].status = "finishing"
               PROVE  \E q \in RunIds : InProgress(q)' /\ run'[q].schedule = x
    BY DEF LastIsRunning
  <2>1. x # s /\ sched[x].status = "finishing"
    BY <1>6
  <2>2. PICK q \in RunIds : InProgress(q) /\ run[q].schedule = x
    BY <2>1 DEF LastIsRunning
  <2>3. q # r
    BY <2>1, <2>2 DEF s
  <2> QED
    BY <1>4, <2>2, <2>3 DEF InProgress
<1>12. NextIsAhead'
  BY <1>4, <1>6 DEF NextIsAhead
<1>13. DispatchedOnce'
  BY <1>4 DEF DispatchedOnce, SameDispatch
<1>14. SameFate
  <2>1. SameDispatches
    BY <1>4, DispatchesStay
  <2>2. \A x \in Schedules : \A o \in Occurrences[x] : Unsettled(x, o)' <=> Unsettled(x, o)
    BY <1>6 DEF Unsettled
  <2> QED
    BY <2>1, <2>2, FateStays
<1> QED
  BY <1>1, <1>2, <1>6, <1>7, <1>8, <1>9, <1>10, <1>11, <1>12, <1>13, <1>14 DEF s

\* Recovery closes every row.
LEMMA RecoverStore ==
    ASSUME Store, Recover
    PROVE  /\ Store' /\ SameFate
           /\ \A r \in RunIds : ~ InProgress(r)'
           /\ \A r \in RunIds : ~ InProgress(r) => run'[r] = run[r]
           /\ \A s \in Schedules :
                  sched[s].status \in {"completed", "cancelled"} =>
                      sched'[s].status = sched[s].status /\ sched'[s].next = sched[s].next
<1> USE DEF Store
<1>1. /\ run \in [RunIds -> RunRow] /\ sched \in [Schedules -> ScheduleRow]
      /\ lastRun \in 0..MaxRuns /\ pruned \subseteq RunIds
      /\ lastRun' = lastRun /\ pruned' = pruned /\ IsFiniteSet(1..lastRun)
  <2>1. lastRun \in 0..MaxRuns /\ MaxRuns \in Nat
    BY ParametersType DEF StoreType
  <2> QED
    BY <2>1, FS_Interval DEF StoreType, Recover
<1>2. /\ run' \in [RunIds -> RunRow]
      /\ \A r \in RunIds : /\ run'[r].schedule = run[r].schedule
                           /\ run'[r].due = run[r].due /\ run'[r].manual = run[r].manual
                           /\ run'[r].state # "running"
                           /\ run'[r].state = "none" <=> run[r].state = "none"
                           /\ run[r].state # "running" => run'[r] = run[r]
  <2> SUFFICES ASSUME NEW r \in RunIds
               PROVE  /\ run'[r] \in RunRow
                      /\ run'[r].schedule = run[r].schedule
                      /\ run'[r].due = run[r].due /\ run'[r].manual = run[r].manual
                      /\ run'[r].state # "running"
                      /\ run'[r].state = "none" <=> run[r].state = "none"
                      /\ run[r].state # "running" => run'[r] = run[r]
    BY DEF Recover
  <2>1. run'[r] = IF run[r].state = "running"
                  THEN [run[r] EXCEPT !.state = "interrupted"] ELSE run[r]
    BY DEF Recover
  <2>2. run[r] \in RunRow /\ "interrupted" \in RunStates
    BY <1>1 DEF RunStates, Failing
  <2> QED
    BY <2>1, <2>2 DEF RunRow
<1>3. \A s \in Schedules :
          /\ sched'[s] \in ScheduleRow /\ sched'[s].next = sched[s].next
          /\ sched'[s].status = "absent" <=> sched[s].status = "absent"
          /\ sched'[s].status # "finishing"
          /\ sched[s].status \in {"completed", "cancelled"} =>
                 sched'[s].status = sched[s].status
  <2> SUFFICES ASSUME NEW s \in Schedules
               PROVE  /\ sched'[s] \in ScheduleRow /\ sched'[s].next = sched[s].next
                      /\ sched'[s].status = "absent" <=> sched[s].status = "absent"
                      /\ sched'[s].status # "finishing"
                      /\ sched[s].status \in {"completed", "cancelled"} =>
                             sched'[s].status = sched[s].status
    OBVIOUS
  <2> DEFINE count == Cardinality(Running(s))
             row == sched[s]
  <2>1. sched'[s] = Interrupted(row, count)
    BY DEF Recover
  <2>2. IsFiniteSet(Running(s)) /\ count \in Nat
    <3>1. Running(s) \subseteq 1..lastRun
      BY DEF Running, RowsOf
    <3> QED
      BY <1>1, <3>1, FS_Subset, FS_CardinalityType
  <2>3. row.status = "finishing" => count > 0
    <3> SUFFICES ASSUME row.status = "finishing"
                 PROVE  Running(s) # {}
      BY <2>2, FS_EmptySet
    <3>1. PICK r \in RunIds : InProgress(r) /\ run[r].schedule = s
      BY DEF LastIsRunning
    <3>2. r =< lastRun /\ r \notin pruned
      BY <3>1 DEF InProgress, Numbered, NoneRunningPruned
    <3> QED
      BY <1>1, <3>1, <3>2 DEF Running, RowsOf, InProgress, RunIds
  <2>4. row \in ScheduleRow
    BY <1>1
  <2> HIDE DEF count, row
  <2>5. /\ sched'[s] \in ScheduleRow /\ sched'[s].next = row.next
        /\ sched'[s].status = IF count > 0 /\ row.status = "finishing"
                              THEN "completed" ELSE row.status
    <3> DEFINE final == IF count > 0 /\ row.status = "finishing" THEN "completed" ELSE row.status
               failure == row.failure + count
               consecutive == row.consecutive + count
    <3>1. final \in Statuses /\ failure \in Nat /\ consecutive \in Nat
      BY <2>2, <2>4 DEF ScheduleRow, Statuses
    <3>2. sched'[s] = [row EXCEPT !.failure = failure, !.consecutive = consecutive,
                                  !.status = final]
      BY <2>1 DEF Interrupted
    <3> HIDE DEF final, failure, consecutive
    <3>3. sched'[s] \in ScheduleRow
      BY <2>4, <3>1, <3>2 DEF ScheduleRow
    <3>4. sched'[s].next = row.next /\ sched'[s].status = final
      BY <2>4, <3>2 DEF ScheduleRow
    <3> QED
      BY <3>3, <3>4 DEF final
  <2> QED
    BY <2>3, <2>5 DEF row
<1>4. StoreType'
  <2>1. sched' \in [Schedules -> ScheduleRow]
    BY <1>3 DEF Recover
  <2> QED
    BY <1>1, <1>2, <2>1 DEF StoreType
<1>5. Numbered'
  <2> SUFFICES ASSUME NEW q \in RunIds
               PROVE  IF q =< lastRun
                      THEN /\ run[q].schedule \in Schedules /\ run'[q].state # "none"
                           /\ sched'[run[q].schedule].status # "absent"
                      ELSE run[q].schedule = None /\ run'[q].state = "none" /\ q \notin pruned
    BY <1>1, <1>2 DEF Numbered
  <2> QED
    BY <1>2, <1>3 DEF Numbered
<1>6. \A r \in RunIds : ~ InProgress(r)'
  BY <1>2 DEF InProgress
<1>7. NoneRunningPruned' /\ OneInProgress'
  BY <1>1, <1>6 DEF NoneRunningPruned, OneInProgress
<1>8. LastIsRunning'
  BY <1>3 DEF LastIsRunning
<1>9. NextIsAhead'
  BY <1>2, <1>3 DEF NextIsAhead
<1>10. DispatchedOnce'
  BY <1>2 DEF DispatchedOnce, SameDispatch
<1>11. SameFate
  <2>1. SameDispatches
    BY <1>2, DispatchesStay
  <2>2. \A x \in Schedules : \A o \in Occurrences[x] : Unsettled(x, o)' <=> Unsettled(x, o)
    BY <1>3 DEF Unsettled
  <2> QED
    BY <2>1, <2>2, FateStays
<1>12. \A r \in RunIds : ~ InProgress(r) => run'[r] = run[r]
  BY <1>2 DEF InProgress
<1> QED
  BY <1>3, <1>4, <1>5, <1>6, <1>7, <1>8, <1>9, <1>10, <1>11, <1>12

-----------------------------------------------------------------------------
(* The steps of the store, and what they are to the ledger.                *)

\* What the dispatch loop is about to handle is active and due.
BatchIsDue ==
    /\ clock \in Nat
    /\ \A s \in batch : /\ s \in Schedules /\ sched[s].status = "active"
                        /\ sched[s].next # None /\ sched[s].next =< clock

\* What has ended stays as it is.
FinalStep ==
    /\ \A s \in Schedules :
           sched[s].status \in {"completed", "cancelled"} =>
              /\ sched'[s].status = sched[s].status
              /\ sched'[s].next = sched[s].next
    /\ \A r \in RunIds :
           run[r].state \notin {"none", "running"} => run'[r] = run[r]

LedgerStep == [Ledger!Next]_(Ledger!ledgerVars)
StoreStep == Store' /\ FinalStep /\ LedgerStep

LEMMA SameFateStutters ==
    ASSUME SameFate, UNCHANGED clock
    PROVE  LedgerStep
BY DEF SameFate, LedgerStep, Ledger!ledgerVars

LEMMA QuietStore ==
    ASSUME Store, UNCHANGED database
    PROVE  Store' /\ FinalStep /\ SameFate
<1>1. sched' = sched /\ run' = run /\ pruned' = pruned /\ lastRun' = lastRun
  BY DEF database
<1>2. Store'
  BY <1>1 DEF Store, StoreType, Numbered, NoneRunningPruned, OneInProgress, LastIsRunning,
              NextIsAhead, DispatchedOnce, SameDispatch, InProgress
<1>3. SameFate
  BY <1>1 DEF SameFate, Fate, Claimed
<1> QED
  BY <1>1, <1>2, <1>3 DEF FinalStep

LEMMA CreateStore ==
    ASSUME Store, NEW s \in Schedules, Create(s)
    PROVE  StoreStep /\ SameFate
<1> DEFINE first == Earliest(Occurrences[s])
<1>1. /\ sched \in [Schedules -> ScheduleRow] /\ sched[s].status = "absent"
      /\ sched' = [sched EXCEPT ![s].status = "active", ![s].next = first]
      /\ UNCHANGED <<run, pruned, lastRun>> /\ clock' = clock
  BY DEF Create, Store, StoreType
<1>2. first \in Occurrences[s] /\ first \in Nat /\ first # None
      /\ \A o \in Occurrences[s] : first =< o
  BY OccurrencesFinite, EarliestExists DEF Create
<1> HIDE DEF first
<1>3. /\ sched' \in [Schedules -> ScheduleRow]
      /\ sched'[s].status = "active" /\ sched'[s].next = first
      /\ \A x \in Schedules \ {s} : sched'[x] = sched[x]
  BY <1>1, <1>2 DEF ScheduleRow, Statuses, Times
<1>4. Store' /\ SameDispatches
  BY <1>1, <1>2, <1>3, SchedulesStep
<1>5. SameFate
  <2>1. \A x \in Schedules : \A o \in Occurrences[x] : Unsettled(x, o)' <=> Unsettled(x, o)
    <3> SUFFICES ASSUME NEW x \in Schedules, NEW o \in Occurrences[x]
                 PROVE  Unsettled(x, o)' <=> Unsettled(x, o)
      OBVIOUS
    <3>1. o \in Nat
      BY OccurrencesFinite
    <3> QED
      BY <1>1, <1>2, <1>3, <3>1 DEF Unsettled
  <2> QED
    BY <1>4, <2>1, FateStays
<1>6. FinalStep
  <2>1. \A x \in Schedules : sched[x].status \in {"completed", "cancelled"} => x # s
    BY <1>1
  <2>2. run' = run
    BY <1>1
  <2> QED
    BY <1>3, <2>1, <2>2 DEF FinalStep
<1> QED
  BY <1>1, <1>4, <1>5, <1>6, SameFateStutters DEF StoreStep

LEMMA SetStatusStore ==
    ASSUME Store, NEW s \in Schedules, NEW to \in {"active", "paused", "cancelled"},
           NEW from \in SUBSET {"active", "paused", "finishing"}, SetStatus(s, from, to)
    PROVE  StoreStep /\ SameFate
<1>1. /\ sched \in [Schedules -> ScheduleRow]
      /\ sched[s].status \in {"active", "paused", "finishing"}
      /\ sched' = [sched EXCEPT ![s].status = to]
      /\ UNCHANGED <<run, pruned, lastRun>> /\ clock' = clock
  BY DEF SetStatus, Store, StoreType
<1>2. /\ sched' \in [Schedules -> ScheduleRow]
      /\ sched'[s].status = to /\ sched'[s].next = sched[s].next
      /\ \A x \in Schedules \ {s} : sched'[x] = sched[x]
  BY <1>1 DEF ScheduleRow, Statuses
<1>3. Store' /\ SameDispatches
  BY <1>1, <1>2, SchedulesStep
<1>4. SameFate
  <2>1. \A x \in Schedules : \A o \in Occurrences[x] : Unsettled(x, o)' <=> Unsettled(x, o)
    BY <1>1, <1>2 DEF Unsettled
  <2> QED
    BY <1>3, <2>1, FateStays
<1>5. FinalStep
  <2>1. \A x \in Schedules : sched[x].status \in {"completed", "cancelled"} => x # s
    BY <1>1
  <2>2. run' = run
    BY <1>1
  <2> QED
    BY <1>2, <2>1, <2>2 DEF FinalStep
<1> QED
  BY <1>1, <1>3, <1>4, <1>5, SameFateStutters DEF StoreStep

LEMMA RunNowStore ==
    ASSUME Store, clock \in Nat, NEW s \in Schedules, RunNow(s)
    PROVE  StoreStep /\ SameFate /\ \A r \in RunIds \ {lastRun + 1} : run'[r] = run[r]
<1>1. /\ sched \in [Schedules -> ScheduleRow] /\ run \in [RunIds -> RunRow]
      /\ sched[s].status \in {"active", "paused"} /\ Running(s) = {}
      /\ sched' = [sched EXCEPT ![s].runCount = @ + 1]
      /\ InsertRun(s, clock, TRUE) /\ clock' = clock
  BY DEF RunNow, Store, StoreType
<1>2. /\ sched' \in [Schedules -> ScheduleRow]
      /\ sched'[s].status = sched[s].status /\ sched'[s].next = sched[s].next
      /\ \A x \in Schedules \ {s} : sched'[x] = sched[x]
  <2>1. sched[s].runCount + 1 \in Nat
    BY <1>1 DEF ScheduleRow
  <2> QED
    BY <1>1, <2>1 DEF ScheduleRow
<1>3. Store' /\ SameDispatches
  BY <1>1, <1>2, InsertStep
<1>4. SameFate
  <2>1. \A x \in Schedules : \A o \in Occurrences[x] : Unsettled(x, o)' <=> Unsettled(x, o)
    BY <1>1, <1>2 DEF Unsettled
  <2> QED
    BY <1>3, <2>1, FateStays
<1>5. \A r \in RunIds \ {lastRun + 1} : run'[r] = run[r]
  BY <1>1 DEF InsertRun
<1>6. FinalStep
  <2>1. \A x \in Schedules : sched[x].status \in {"completed", "cancelled"} => x # s
    BY <1>1
  <2>2. \A r \in RunIds : r = lastRun + 1 => run[r].state = "none"
    BY ParametersType DEF Store, StoreType, Numbered
  <2> QED
    BY <1>2, <1>5, <2>1, <2>2 DEF FinalStep
<1> QED
  BY <1>1, <1>3, <1>4, <1>5, <1>6, SameFateStutters DEF StoreStep

\* The ledger's two steps, in terms of Fate.
LEMMA LedgerDispatches ==
    ASSUME NEW s \in Schedules, NEW due \in Occurrences[s], Fate(s, due) = "pending",
           \A p \in Occurrences[s] : Fate(s, p) = "pending" => due =< p,
           due =< clock, clock =< due + Grace, UNCHANGED clock,
           \A x \in Schedules : \A o \in Occurrences[x] :
               Fate(x, o)' = IF x = s /\ o = due THEN "dispatched" ELSE Fate(x, o)
    PROVE  LedgerStep
<1> DEFINE fates == [x \in Schedules |-> [o \in Occurrences[x] |-> Fate(x, o)]]
<1>1. /\ due \in Ledger!Pending(s)
      /\ \A p \in Ledger!Pending(s) : due =< p
  BY DEF Ledger!Pending
<1>2. fates' = [fates EXCEPT ![s][due] = "dispatched"]
  <2>1. [fates EXCEPT ![s][due] = "dispatched"] =
        [fates EXCEPT ![s] = [fates[s] EXCEPT ![due] = "dispatched"]]
    OBVIOUS
  <2>2. \A x \in Schedules :
           [o \in Occurrences[x] |-> Fate(x, o)'] =
           IF x = s THEN [fates[s] EXCEPT ![due] = "dispatched"] ELSE fates[x]
    OBVIOUS
  <2>3. fates' = [x \in Schedules |-> [o \in Occurrences[x] |-> Fate(x, o)']]
    OBVIOUS
  <2>4. fates' = [x \in Schedules |->
                     IF x = s THEN [fates[s] EXCEPT ![due] = "dispatched"] ELSE fates[x]]
    BY <2>2, <2>3
  <2> QED
    BY <2>1, <2>4
<1>3. Ledger!Dispatch(s, due)
  BY <1>1, <1>2 DEF Ledger!Dispatch
<1> QED
  BY <1>3 DEF LedgerStep, Ledger!Next

LEMMA LedgerWritesOff ==
    ASSUME NEW s \in Schedules, NEW h \in Occurrences[s], h =< clock,
           \E o \in Occurrences[s] : Fate(s, o) = "pending" /\ o =< h /\ o + Grace < clock,
           \/ \A o \in Occurrences[s] : o =< h => o + Grace < clock
           \/ \E k \in Occurrences[s] : Fate(s, k) = "pending" /\ ~ (k =< h) /\ k =< clock,
           UNCHANGED clock,
           \A x \in Schedules : \A o \in Occurrences[x] :
               Fate(x, o)' = IF x = s /\ Fate(s, o) = "pending" /\ o =< h
                             THEN "missed" ELSE Fate(x, o)
    PROVE  LedgerStep
<1> DEFINE fates == [x \in Schedules |-> [o \in Occurrences[x] |-> Fate(x, o)]]
           lost == {o \in Ledger!Pending(s) : o =< h}
           kept == {o \in Ledger!Pending(s) \ lost : o =< clock}
<1>1. Ledger!Pending(s) = {o \in Occurrences[s] : Fate(s, o) = "pending"}
  BY DEF Ledger!Pending
<1>2. \E o \in lost : o + Grace < clock
  BY <1>1
<1>3. \A o \in lost : o + Grace < clock \/ kept # {}
  <2>1. CASE \A o \in Occurrences[s] : o =< h => o + Grace < clock
    BY <1>1, <2>1
  <2>2. CASE \E k \in Occurrences[s] : Fate(s, k) = "pending" /\ ~ (k =< h) /\ k =< clock
    BY <1>1, <2>2
  <2> QED
    BY <2>1, <2>2
<1>4. fates' = [fates EXCEPT ![s] = [o \in Occurrences[s] |->
                                       IF o \in lost THEN "missed" ELSE @[o]]]
  <2> DEFINE new == [o \in Occurrences[s] |-> IF o \in lost THEN "missed" ELSE fates[s][o]]
  <2>1. \A o \in Occurrences[s] : o \in lost <=> Fate(s, o) = "pending" /\ o =< h
    BY <1>1
  <2> HIDE DEF lost
  <2>2. \A x \in Schedules :
           [o \in Occurrences[x] |-> Fate(x, o)'] = IF x = s THEN new ELSE fates[x]
    BY <2>1
  <2>3. fates' = [x \in Schedules |-> [o \in Occurrences[x] |-> Fate(x, o)']]
    OBVIOUS
  <2>4. fates' = [x \in Schedules |-> IF x = s THEN new ELSE fates[x]]
    BY <2>2, <2>3
  <2> QED
    BY <2>4
<1>5. Ledger!WriteOff(s, h)
  BY <1>2, <1>3, <1>4 DEF Ledger!WriteOff
<1> QED
  BY <1>5 DEF LedgerStep, Ledger!Next

\* Before a dispatch or a misfire everything from the next occurrence on is
\* pending.
LEMMA PendingFromNext ==
    ASSUME Store, NEW s \in Schedules, sched[s].status = "active", sched[s].next # None
    PROVE  /\ sched[s].next \in Occurrences[s] /\ sched[s].next \in Nat
           /\ \A o \in Occurrences[s] :
                  /\ o \in Nat
                  /\ o >= sched[s].next => o \notin Claimed(s)
                  /\ Fate(s, o) = "pending" <=> o >= sched[s].next
<1>1. sched[s].next \in Occurrences[s] /\ sched[s].next \in Nat
  BY OccurrencesFinite DEF Store, NextIsAhead
<1> SUFFICES ASSUME NEW o \in Occurrences[s]
             PROVE  /\ o \in Nat
                    /\ o >= sched[s].next => o \notin Claimed(s)
                    /\ Fate(s, o) = "pending" <=> o >= sched[s].next
  BY <1>1
<1>2. o \in Nat
  BY OccurrencesFinite
<1>3. o \in Claimed(s) => o < sched[s].next
  BY DEF Claimed, Store, NextIsAhead
<1> QED
  BY <1>1, <1>2, <1>3, FateIs DEF Unsettled

LEMMA ClaimStore ==
    ASSUME Store, BatchIsDue, NEW s \in Schedules, Claim(s)
    PROVE  /\ StoreStep /\ \A r \in RunIds \ {lastRun + 1} : run'[r] = run[r]
           /\ SameMissed
<1> DEFINE due == sched[s].next
           next == NextAfter(s, due)
           status == IF next = None THEN "finishing" ELSE "active"
<1>1. /\ sched \in [Schedules -> ScheduleRow] /\ run \in [RunIds -> RunRow]
      /\ sched[s].status = "active" /\ due # None /\ Running(s) = {}
      /\ sched' = [sched EXCEPT ![s].next = next, ![s].runCount = @ + 1,
                                ![s].status = status]
      /\ InsertRun(s, due, FALSE) /\ clock' = clock
  BY DEF Claim, Due, Store, StoreType
<1>2. /\ due \in Occurrences[s] /\ due \in Nat /\ clock \in Nat /\ Grace \in Nat
      /\ due =< clock /\ clock =< due + Grace
  <2>1. due \in Occurrences[s] /\ due \in Nat
    BY <1>1, PendingFromNext
  <2>2. ~ Misfired(due) /\ s \in batch
    BY DEF Claim
  <2> QED
    BY <2>1, <2>2, ParametersType DEF BatchIsDue, Misfired
<1>3. /\ next \in Occurrences[s] \union {None}
      /\ next # None => /\ next \in Nat /\ next > due
                        /\ \A o \in Occurrences[s] : o > due => o >= next
      /\ next = None => \A o \in Occurrences[s] : o =< due
  BY <1>2, NextAfterIs, OccurrencesFinite
<1>4. /\ sched' \in [Schedules -> ScheduleRow]
      /\ sched'[s].status = status /\ sched'[s].next = next
      /\ \A x \in Schedules \ {s} : sched'[x] = sched[x]
  <2>1. next \in Times /\ status \in Statuses
    BY <1>3 DEF Times, Statuses
  <2> HIDE DEF next, status
  <2>2. sched[s].runCount + 1 \in Nat
    BY <1>1 DEF ScheduleRow
  <2> QED
    BY <1>1, <2>1, <2>2 DEF ScheduleRow
<1>5. /\ Store' /\ Claimed(s)' = Claimed(s) \union {due}
      /\ \A x \in Schedules \ {s} : Claimed(x)' = Claimed(x)
  BY <1>1, <1>2, <1>4, InsertStep
<1>6. \A x \in Schedules : \A o \in Occurrences[x] :
          Fate(x, o)' = IF x = s /\ o = due THEN "dispatched" ELSE Fate(x, o)
  <2> SUFFICES ASSUME NEW x \in Schedules, NEW o \in Occurrences[x]
               PROVE  Fate(x, o)' = IF x = s /\ o = due THEN "dispatched" ELSE Fate(x, o)
    OBVIOUS
  <2>1. /\ Fate(x, o) = IF o \in Claimed(x) THEN "dispatched"
                        ELSE IF Unsettled(x, o) THEN "pending" ELSE "missed"
        /\ Fate(x, o)' = IF o \in Claimed(x)' THEN "dispatched"
                         ELSE IF Unsettled(x, o)' THEN "pending" ELSE "missed"
    BY DEF Fate, Unsettled
  <2>2. CASE x # s
    BY <1>4, <1>5, <2>1, <2>2 DEF Unsettled
  <2>3. CASE x = s
    <3>1. o \in Nat /\ (Unsettled(x, o) <=> o >= due)
      BY <1>1, <2>3, OccurrencesFinite DEF Unsettled
    <3>2. Unsettled(x, o)' <=> o > due
      BY <1>2, <1>3, <1>4, <2>3, <3>1 DEF Unsettled
    <3>3. o # due => (Unsettled(x, o)' <=> Unsettled(x, o))
      BY <1>2, <3>1, <3>2
    <3> HIDE DEF due
    <3> QED
      BY <1>5, <2>1, <2>3, <3>3
  <2> QED
    BY <2>2, <2>3
<1>7. /\ Fate(s, due) = "pending"
      /\ \A p \in Occurrences[s] : Fate(s, p) = "pending" => due =< p
  BY <1>1, <1>2, PendingFromNext
<1>8. LedgerStep
  <2> HIDE DEF due
  <2> QED
    BY <1>1, <1>2, <1>6, <1>7, LedgerDispatches
<1>9. \A r \in RunIds \ {lastRun + 1} : run'[r] = run[r]
  BY <1>1 DEF InsertRun
<1>10. FinalStep
  <2>1. \A x \in Schedules : sched[x].status \in {"completed", "cancelled"} => x # s
    BY <1>1
  <2>2. \A r \in RunIds : r = lastRun + 1 => run[r].state = "none"
    BY ParametersType DEF Store, StoreType, Numbered
  <2> QED
    BY <1>4, <1>9, <2>1, <2>2 DEF FinalStep
<1>11. SameMissed
  <2> HIDE DEF due
  <2> QED
    BY <1>6, <1>7 DEF SameMissed, IsMissed
<1> QED
  BY <1>5, <1>8, <1>9, <1>10, <1>11 DEF StoreStep

\* The row that a write-off leaves.
Written(row, next, count, status) ==
    [row EXCEPT !.next = next, !.missed = @ + count, !.status = status]
LEMMA RowWritten ==
    ASSUME NEW row \in ScheduleRow, NEW next \in Times, NEW count \in Nat,
           NEW status \in Statuses
    PROVE  /\ Written(row, next, count, status) \in ScheduleRow
           /\ Written(row, next, count, status).status = status
           /\ Written(row, next, count, status).next = next
<1>1. row.missed + count \in Nat
  BY DEF ScheduleRow
<1> QED
  BY <1>1 DEF ScheduleRow, Written

LEMMA WriteOffStore ==
    ASSUME Store, BatchIsDue, NEW s \in Schedules, WriteOff(s)
    PROVE  /\ StoreStep /\ run' = run
           /\ \A x \in Schedules \ {s} : sched'[x] = sched[x]
           /\ s \in batch' => /\ sched'[s].status = "active"
                              /\ sched'[s].next # None /\ sched'[s].next =< clock
           /\ \A x \in Schedules \ {s} : \A o \in Occurrences[x] :
                  IsMissed(x, o)' <=> IsMissed(x, o)
           /\ \E h \in Occurrences[s] :
                  /\ CountedLost(MisfireCount(s, sched[s].next), s, sched[s].next, h)
                  /\ \A o \in Occurrences[s] :
                         /\ IsMissed(s, o) => ~ (sched[s].next =< o)
                         /\ IsMissed(s, o)' <=>
                                IsMissed(s, o) \/ (sched[s].next =< o /\ o =< h)
<1> DEFINE due == sched[s].next
           target == MisfireTarget(s, due)
           count == MisfireCount(s, due)
           status == IF target = None THEN "completed" ELSE sched[s].status
<1>1. /\ sched \in [Schedules -> ScheduleRow] /\ clock \in Nat
      /\ sched[s].status = "active" /\ due # None /\ Misfired(due)
      /\ sched' = [sched EXCEPT ![s].next = target, ![s].missed = @ + count,
                                ![s].status = IF target = None THEN "completed" ELSE @]
      /\ UNCHANGED <<run, pruned, lastRun>> /\ clock' = clock
      /\ batch' = IF target # None /\ target =< clock THEN batch ELSE batch \ {s}
  BY DEF WriteOff, BatchIsDue, Store, StoreType
<1>2. due \in Occurrences[s] /\ due \in Nat
  BY <1>1, PendingFromNext
<1>3. /\ target \in Occurrences[s] \union {None} /\ count \in Nat
      /\ target # None => target > due /\ target \in Nat
      /\ due + Grace < clock
      /\ \E h \in Occurrences[s] :
             /\ due =< h /\ h =< clock
             /\ \A o \in Occurrences[s] :
                    due =< o => (o =< h <=> ~ (target # None /\ o >= target))
             /\ \/ target # None /\ target =< clock
                \/ \A o \in Occurrences[s] : o =< h => o + Grace < clock
             /\ CountedLost(count, s, due, h)
  BY <1>1, <1>2, MisfireIs, OccurrencesFinite
<1>4. /\ sched' \in [Schedules -> ScheduleRow]
      /\ sched'[s].status = status /\ sched'[s].next = target
      /\ \A x \in Schedules \ {s} : sched'[x] = sched[x]
  <2>1. /\ target \in Times /\ status \in Statuses /\ sched[s].missed + count \in Nat
        /\ sched' = [sched EXCEPT ![s].next = target, ![s].missed = @ + count,
                                  ![s].status = status]
    BY <1>1, <1>3, OccurrencesFinite DEF Times, Statuses, ScheduleRow
  <2> HIDE DEF target, count, status
  <2>2. sched' = [sched EXCEPT ![s] = Written(sched[s], target, count, status)]
    BY <2>1 DEF Written
  <2>3. /\ Written(sched[s], target, count, status) \in ScheduleRow
        /\ Written(sched[s], target, count, status).status = status
        /\ Written(sched[s], target, count, status).next = target
    BY <1>1, <1>3, <2>1, RowWritten
  <2> QED
    BY <1>1, <2>2, <2>3
<1> HIDE DEF target, count
<1>5. Store' /\ SameDispatches
  BY <1>1, <1>2, <1>3, <1>4, SchedulesStep
<1>6. PICK h \in Occurrences[s] :
          /\ due =< h /\ h =< clock
          /\ \A o \in Occurrences[s] :
                 due =< o => (o =< h <=> ~ (target # None /\ o >= target))
          /\ \/ target # None /\ target =< clock
             \/ \A o \in Occurrences[s] : o =< h => o + Grace < clock
          /\ CountedLost(count, s, due, h)
  BY <1>3
<1>7. \A x \in Schedules : \A o \in Occurrences[x] :
          Fate(x, o)' = IF x = s /\ Fate(s, o) = "pending" /\ o =< h
                        THEN "missed" ELSE Fate(x, o)
  <2> SUFFICES ASSUME NEW x \in Schedules, NEW o \in Occurrences[x]
               PROVE  Fate(x, o)' = IF x = s /\ Fate(s, o) = "pending" /\ o =< h
                                    THEN "missed" ELSE Fate(x, o)
    OBVIOUS
  <2>1. /\ Fate(x, o) = IF o \in Claimed(x) THEN "dispatched"
                        ELSE IF Unsettled(x, o) THEN "pending" ELSE "missed"
        /\ Fate(x, o)' = IF o \in Claimed(x)' THEN "dispatched"
                         ELSE IF Unsettled(x, o)' THEN "pending" ELSE "missed"
        /\ Claimed(x)' = Claimed(x)
    BY <1>5 DEF Fate, Unsettled, SameDispatches
  <2>2. CASE x # s
    BY <1>4, <2>1, <2>2 DEF Unsettled
  <2>3. CASE x = s
    <3>1. o \in Nat /\ (Unsettled(x, o) <=> o >= due)
      BY <1>1, <2>3, OccurrencesFinite DEF Unsettled
    <3>2. Unsettled(x, o)' <=> target # None /\ o >= target
      BY <1>1, <1>4, <2>3 DEF Unsettled
    <3>3. Unsettled(x, o)' <=> Unsettled(x, o) /\ ~ (o =< h)
      BY <1>2, <1>3, <1>6, <2>3, <3>1, <3>2
    <3>4. o \in Claimed(x) => ~ Unsettled(x, o)
      BY <1>1, <2>3, <3>1, PendingFromNext
    <3> QED
      BY <2>1, <2>3, <3>3, <3>4
  <2> QED
    BY <2>2, <2>3
<1>8. LedgerStep
  <2>1. \E o \in Occurrences[s] : Fate(s, o) = "pending" /\ o =< h /\ o + Grace < clock
    BY <1>1, <1>2, <1>3, <1>6, PendingFromNext
  <2>2. \/ \A o \in Occurrences[s] : o =< h => o + Grace < clock
        \/ \E k \in Occurrences[s] : Fate(s, k) = "pending" /\ ~ (k =< h) /\ k =< clock
    <3>1. CASE target # None /\ target =< clock
      <4>1. target \in Occurrences[s] /\ target > due /\ target \in Nat
        BY <1>3, <3>1
      <4>2. Fate(s, target) = "pending"
        BY <1>1, <1>2, <4>1, PendingFromNext
      <4>3. ~ (target =< h)
        BY <1>2, <1>6, <3>1, <4>1
      <4> QED
        BY <3>1, <4>1, <4>2, <4>3
    <3> QED
      BY <1>6, <3>1
  <2> QED
    BY <1>1, <1>6, <1>7, <2>1, <2>2, LedgerWritesOff
<1>9. FinalStep
  <2>1. \A x \in Schedules : sched[x].status \in {"completed", "cancelled"} => x # s
    BY <1>1
  <2>2. run' = run
    BY <1>1
  <2> QED
    BY <1>4, <2>1, <2>2 DEF FinalStep
<1>10. s \in batch' => /\ sched'[s].status = "active"
                       /\ sched'[s].next # None /\ sched'[s].next =< clock
  BY <1>1, <1>4
<1>11. \A x \in Schedules \ {s} : \A o \in Occurrences[x] :
           IsMissed(x, o)' <=> IsMissed(x, o)
  BY <1>7 DEF IsMissed
<1>12. \A o \in Occurrences[s] :
           /\ IsMissed(s, o) => ~ (due =< o)
           /\ IsMissed(s, o)' <=> IsMissed(s, o) \/ (due =< o /\ o =< h)
  <2> SUFFICES ASSUME NEW o \in Occurrences[s]
               PROVE  /\ IsMissed(s, o) => ~ (due =< o)
                      /\ IsMissed(s, o)' <=> IsMissed(s, o) \/ (due =< o /\ o =< h)
    OBVIOUS
  <2>1. Fate(s, o) = "pending" <=> due =< o
    BY <1>1, <1>2, PendingFromNext
  <2>2. Fate(s, o)' = IF Fate(s, o) = "pending" /\ o =< h THEN "missed" ELSE Fate(s, o)
    BY <1>7
  <2> HIDE DEF due
  <2> QED
    BY <2>1, <2>2 DEF IsMissed
<1>13. \E x \in Occurrences[s] :
           /\ CountedLost(MisfireCount(s, sched[s].next), s, sched[s].next, x)
           /\ \A o \in Occurrences[s] :
                  /\ IsMissed(s, o) => ~ (sched[s].next =< o)
                  /\ IsMissed(s, o)' <=>
                         IsMissed(s, o) \/ (sched[s].next =< o /\ o =< x)
  BY <1>6, <1>12 DEF count
<1> QED
  BY <1>1, <1>4, <1>5, <1>8, <1>9, <1>10, <1>11, <1>13 DEF StoreStep

-----------------------------------------------------------------------------
(* The invariant.                                                          *)

\* Only a tick has a batch, and there is room for all of it.
BatchFits ==
    /\ BatchIsDue
    /\ loop # "ticking" => batch = {}
    /\ Cardinality(tracked) + Cardinality(batch) =< MaxConcurrent

\* A run that does not exist has no task.
TasksNumbered ==
    \A r \in RunIds : r > lastRun => task[r] = "none" /\ r \notin tracked \union cancelling

\* While the loop runs, a running row has a task that will close it.
RowsAreOwned ==
    loop # "off" =>
        \A r \in RunIds :
            InProgress(r) => task[r] \in Live /\ r \in tracked /\ r \notin cancelling

\* A task that was started under a dispatch loop still owns its row, and a
\* stop waits for it before anything recovers the rows.
TasksOwnRows ==
    \A r \in RunIds :
        task[r] \in Live /\ r \notin offLoop =>
            /\ InProgress(r) /\ r \in tracked
            /\ loop = "off" => /\ reload.phase \in {"stopping", "restoring"}
                               /\ r \in reload.awaiting
StopIsOff == reload.phase \in {"stopping", "restoring"} => loop = "off"

Owners == TasksNumbered /\ RowsAreOwned /\ TasksOwnRows /\ StopIsOff
IInv == TypeOK /\ Store /\ BatchFits /\ Owners

\* A process that is down is in no reload and has no loop.
DownIsIdle == ~ up => reload.phase = "none" /\ loop = "off"

\* Cardinalities of what the invariant counts.
LEMMA CountedFinite ==
    ASSUME TypeOK
    PROVE  /\ IsFiniteSet(RunIds) /\ IsFiniteSet(tracked) /\ IsFiniteSet(batch)
           /\ Cardinality(tracked) \in Nat /\ Cardinality(batch) \in Nat
           /\ MaxConcurrent \in Nat \ {0} /\ lastRun \in Nat /\ RunIds \subseteq Nat
<1>1. IsFiniteSet(RunIds) /\ RunIds \subseteq Nat /\ MaxConcurrent \in Nat \ {0}
  <2>1. MaxRuns \in Nat /\ MaxConcurrent \in Nat \ {0}
    BY ParametersType
  <2>2. IsFiniteSet(1..MaxRuns)
    BY <2>1, FS_Interval
  <2> QED
    BY <2>1, <2>2 DEF RunIds
<1>2. IsFiniteSet(tracked) /\ IsFiniteSet(batch) /\ lastRun \in Nat
  <2>1. tracked \in SUBSET RunIds /\ batch \in SUBSET Schedules /\ lastRun \in 0..MaxRuns
    BY DEF TypeOK
  <2> QED
    <3>1. IsFiniteSet(tracked)
      BY <1>1, <2>1, FS_Subset
    <3>2. IsFiniteSet(batch)
      BY <2>1, SchedulesFinite, FS_Subset
    <3>3. lastRun \in Nat
      BY <2>1, ParametersType
    <3> QED
      BY <3>1, <3>2, <3>3
<1> QED
  BY <1>1, <1>2, FS_CardinalityType

\* Steps that start or end no task.
LEMMA OwnersStay ==
    ASSUME Owners, UNCHANGED tasks,
           \A r \in RunIds : InProgress(r)' <=> InProgress(r),
           lastRun' = lastRun,
           loop' = "off" <=> loop = "off",
           \/ reload' = reload
           \/ reload.phase \notin {"stopping", "restoring"}
              /\ reload'.phase \notin {"stopping", "restoring"}
    PROVE  Owners'
<1>1. task' = task /\ tracked' = tracked /\ cancelling' = cancelling /\ offLoop' = offLoop
  BY DEF tasks
<1>2. TasksNumbered'
  BY <1>1 DEF Owners, TasksNumbered
<1>3. RowsAreOwned'
  BY <1>1 DEF Owners, RowsAreOwned
<1>4. TasksOwnRows'
  BY <1>1 DEF Owners, TasksOwnRows
<1>5. StopIsOff'
  BY DEF Owners, StopIsOff
<1> QED
  BY <1>2, <1>3, <1>4, <1>5 DEF Owners

LEMMA CommandStep ==
    ASSUME IInv, NEW s \in Schedules,
           \/ Create(s) \/ Pause(s) \/ Resume(s) \/ Cancel(s)
    PROVE  IInv' /\ StoreStep
<1>1. StoreStep
  <2>1. ASSUME Create(s)
        PROVE  StoreStep
    BY <2>1, CreateStore DEF IInv
  <2>2. ASSUME Pause(s)
        PROVE  StoreStep
    <3>1. SetStatus(s, {"active"}, "paused")
      BY <2>2 DEF Pause
    <3> QED
      BY <3>1, SetStatusStore DEF IInv
  <2>3. ASSUME Resume(s)
        PROVE  StoreStep
    <3>1. SetStatus(s, {"paused"}, "active")
      BY <2>3 DEF Resume
    <3> QED
      BY <3>1, SetStatusStore DEF IInv
  <2>4. ASSUME Cancel(s)
        PROVE  StoreStep
    <3>1. SetStatus(s, {"active", "paused", "finishing"}, "cancelled")
      BY <2>4 DEF Cancel
    <3> QED
      BY <3>1, SetStatusStore DEF IInv
  <2> QED
    BY <2>1, <2>2, <2>3, <2>4
<1>2. /\ wake' \in BOOLEAN /\ loop # "ticking"
      /\ UNCHANGED <<run, pruned, lastRun, clock, up, connected, loop, batch, alarm,
                     tasks, configuration, bounds>>
  BY DEF Create, Pause, Resume, Cancel, SetStatus, CommandsOpen, Busy
<1>3. TypeOK'
  BY <1>1, <1>2 DEF IInv, TypeOK, StoreStep, Store, StoreType, tasks, configuration, bounds
<1>4. BatchFits'
  BY <1>2 DEF IInv, BatchFits, BatchIsDue, tasks
<1>5. Owners'
  <2>1. \A r \in RunIds : InProgress(r)' <=> InProgress(r)
    BY <1>2 DEF InProgress
  <2> QED
    BY <1>2, <2>1, OwnersStay DEF IInv, configuration
<1> QED
  BY <1>1, <1>3, <1>4, <1>5 DEF IInv, StoreStep

\* A new row with a task that owns it.
LEMMA StartOwners ==
    ASSUME IInv, StartTask(lastRun + 1), lastRun + 1 \in RunIds, lastRun' = lastRun + 1,
           \A r \in RunIds \ {lastRun + 1} : run'[r] = run[r],
           run'[lastRun + 1].state = "running",
           loop' = loop, reload' = reload,
           offLoop' = offLoop
              \/ (loop = "off" /\ offLoop' = offLoop \union {lastRun + 1}),
           loop # "off" \/ lastRun + 1 \in offLoop'
    PROVE  /\ Owners' /\ tracked' = tracked \union {lastRun + 1}
           /\ lastRun + 1 \notin tracked
           /\ task' \in [RunIds -> {"none", "created", "executing", "done"}]
           /\ cancelling' = cancelling
<1> PICK n \in RunIds : n = lastRun + 1
  OBVIOUS
<1>1. /\ task \in [RunIds -> {"none", "created", "executing", "done"}]
      /\ lastRun \in Nat /\ RunIds \subseteq Nat
      /\ task' = [task EXCEPT ![n] = "created"]
      /\ tracked' = tracked \union {n} /\ cancelling' = cancelling
      /\ TasksNumbered /\ RowsAreOwned /\ TasksOwnRows /\ StopIsOff
  BY CountedFinite DEF IInv, TypeOK, StartTask, Owners
<1>2. /\ task' \in [RunIds -> {"none", "created", "executing", "done"}]
      /\ task'[n] = "created" /\ \A r \in RunIds \ {n} : task'[r] = task[r]
      /\ n \notin tracked /\ n \notin cancelling
  BY <1>1 DEF TasksNumbered
<1>3. \A r \in RunIds \ {n} : InProgress(r)' <=> InProgress(r)
  BY DEF InProgress
<1>4. TasksNumbered'
  <2>1. \A r \in RunIds : r > n => r > lastRun /\ r # n
    BY <1>1
  <2> QED
    BY <1>1, <1>2, <2>1 DEF TasksNumbered
<1>5. RowsAreOwned'
  <2> SUFFICES ASSUME loop # "off", NEW r \in RunIds, InProgress(r)'
               PROVE  task'[r] \in Live /\ r \in tracked' /\ r \notin cancelling'
    BY DEF RowsAreOwned
  <2>1. CASE r = n
    BY <1>1, <1>2, <2>1 DEF Live
  <2>2. CASE r # n
    BY <1>1, <1>2, <1>3, <2>2 DEF RowsAreOwned
  <2> QED
    BY <2>1, <2>2
<1>6. TasksOwnRows'
  <2> SUFFICES ASSUME NEW r \in RunIds, task'[r] \in Live, r \notin offLoop'
               PROVE  /\ InProgress(r)' /\ r \in tracked'
                      /\ loop = "off" => /\ reload.phase \in {"stopping", "restoring"}
                                         /\ r \in reload.awaiting
    BY DEF TasksOwnRows
  <2>1. CASE r = n
    BY <1>1, <2>1 DEF InProgress
  <2>2. CASE r # n
    BY <1>1, <1>2, <1>3, <2>2 DEF TasksOwnRows
  <2> QED
    BY <2>1, <2>2
<1>7. StopIsOff'
  BY <1>1 DEF StopIsOff
<1> QED
  BY <1>1, <1>2, <1>4, <1>5, <1>6, <1>7 DEF Owners

LEMMA RunNowStep ==
    ASSUME IInv, NEW s \in Schedules, RunNow(s)
    PROVE  IInv' /\ StoreStep
<1>1. StoreStep /\ \A r \in RunIds \ {lastRun + 1} : run'[r] = run[r]
  BY RunNowStore DEF IInv, TypeOK
<1>2. /\ lastRun + 1 \in RunIds /\ lastRun' = lastRun + 1
      /\ run'[lastRun + 1].state = "running"
  BY CountedFinite, ParametersType DEF RunNow, InsertRun, IInv, TypeOK, RunIds
<1>3. /\ StartTask(lastRun + 1) /\ loop # "ticking" /\ Cardinality(tracked) < MaxConcurrent
      /\ offLoop' = IF loop = "off" THEN offLoop \union {lastRun + 1} ELSE offLoop
      /\ UNCHANGED <<clock, up, connected, dispatcher, configuration, bounds>>
  BY DEF RunNow, CommandsOpen, Busy
<1>4. /\ Owners' /\ tracked' = tracked \union {lastRun + 1} /\ lastRun + 1 \notin tracked
      /\ task' \in [RunIds -> {"none", "created", "executing", "done"}]
      /\ cancelling' = cancelling
  <2>1. loop' = loop /\ reload' = reload
    BY <1>3 DEF dispatcher, configuration
  <2> QED
    BY <1>1, <1>2, <1>3, <2>1, StartOwners
<1>5. TypeOK'
  BY <1>1, <1>2, <1>3, <1>4
  DEF IInv, TypeOK, StoreStep, Store, StoreType, dispatcher, configuration, bounds
<1>6. BatchFits'
  <2>1. batch = {} /\ batch' = {} /\ loop' = loop /\ clock' = clock
    BY <1>3 DEF IInv, BatchFits, dispatcher
  <2>2. Cardinality(batch') = 0
    BY <2>1, FS_EmptySet
  <2>3. Cardinality(tracked') = Cardinality(tracked) + 1
    BY <1>4, CountedFinite, FS_AddElement DEF IInv
  <2> QED
    BY <1>3, <2>1, <2>2, <2>3, CountedFinite DEF IInv, BatchFits, BatchIsDue
<1> QED
  BY <1>1, <1>4, <1>5, <1>6 DEF IInv, StoreStep

LEMMA ClaimStep ==
    ASSUME IInv, NEW s \in Schedules, Claim(s)
    PROVE  IInv' /\ StoreStep
<1>1. StoreStep /\ \A r \in RunIds \ {lastRun + 1} : run'[r] = run[r]
  BY ClaimStore DEF IInv, BatchFits
<1>2. /\ lastRun + 1 \in RunIds /\ lastRun' = lastRun + 1
      /\ run'[lastRun + 1].state = "running"
  BY CountedFinite, ParametersType DEF Claim, InsertRun, IInv, TypeOK, RunIds
<1>3. /\ StartTask(lastRun + 1) /\ loop = "ticking" /\ s \in batch
      /\ batch' = batch \ {s}
      /\ UNCHANGED <<clock, up, connected, loop, wake, alarm, offLoop, configuration, bounds>>
  BY DEF Claim, Busy
<1>4. /\ Owners' /\ tracked' = tracked \union {lastRun + 1} /\ lastRun + 1 \notin tracked
      /\ task' \in [RunIds -> {"none", "created", "executing", "done"}]
      /\ cancelling' = cancelling
  <2>1. reload' = reload
    BY <1>3 DEF configuration
  <2> QED
    BY <1>1, <1>2, <1>3, <2>1, StartOwners
<1>5. TypeOK'
  BY <1>1, <1>2, <1>3, <1>4
  DEF IInv, TypeOK, StoreStep, Store, StoreType, configuration, bounds
<1>6. BatchFits'
  <2>1. Cardinality(batch') = Cardinality(batch) - 1
    BY <1>3, CountedFinite, FS_RemoveElement DEF IInv
  <2>2. Cardinality(tracked') = Cardinality(tracked) + 1
    BY <1>4, CountedFinite, FS_AddElement DEF IInv
  <2>3. \A x \in Schedules \ {s} : sched'[x] = sched[x]
    BY DEF Claim, IInv, TypeOK
  <2>4. BatchIsDue'
    BY <1>3, <2>3 DEF IInv, BatchFits, BatchIsDue
  <2> QED
    BY <1>3, <2>1, <2>2, <2>4, CountedFinite DEF IInv, BatchFits
<1> QED
  BY <1>1, <1>4, <1>5, <1>6 DEF IInv, StoreStep

LEMMA WriteOffStep ==
    ASSUME IInv, NEW s \in Schedules, WriteOff(s)
    PROVE  IInv' /\ StoreStep
<1>1. /\ StoreStep /\ run' = run
      /\ \A x \in Schedules \ {s} : sched'[x] = sched[x]
      /\ s \in batch' => /\ sched'[s].status = "active"
                         /\ sched'[s].next # None /\ sched'[s].next =< clock
  BY WriteOffStore DEF IInv, BatchFits
<1>2. /\ batch' \subseteq batch /\ loop = "ticking"
      /\ UNCHANGED <<run, pruned, lastRun, clock, up, connected, loop, wake, alarm,
                     tasks, configuration, bounds>>
  BY DEF WriteOff, Busy
<1>3. TypeOK'
  BY <1>1, <1>2 DEF IInv, TypeOK, StoreStep, Store, StoreType, tasks, configuration, bounds
<1>4. BatchFits'
  <2>1. Cardinality(batch') =< Cardinality(batch) /\ Cardinality(batch') \in Nat
    BY <1>2, CountedFinite, FS_Subset, FS_CardinalityType DEF IInv
  <2>2. BatchIsDue'
    BY <1>1, <1>2 DEF IInv, BatchFits, BatchIsDue
  <2>3. tracked' = tracked
    BY <1>2 DEF tasks
  <2> QED
    BY <1>2, <2>1, <2>2, <2>3, CountedFinite DEF IInv, BatchFits
<1>5. Owners'
  <2>1. \A r \in RunIds : InProgress(r)' <=> InProgress(r)
    BY <1>1 DEF InProgress
  <2> QED
    BY <1>2, <2>1, OwnersStay DEF IInv, configuration
<1> QED
  BY <1>1, <1>3, <1>4, <1>5 DEF IInv, StoreStep

\* Steps that leave the store alone.
LEMMA StoreStays ==
    ASSUME IInv, UNCHANGED database, UNCHANGED clock
    PROVE  /\ StoreStep
           /\ sched' = sched /\ run' = run /\ pruned' = pruned /\ lastRun' = lastRun
           /\ \A r \in RunIds : InProgress(r)' <=> InProgress(r)
<1>1. StoreStep
  BY QuietStore, SameFateStutters DEF IInv, StoreStep
<1> QED
  BY <1>1 DEF database, InProgress

LEMMA TurnStep ==
    ASSUME IInv, Turn
    PROVE  IInv' /\ StoreStep
<1>1. /\ loop # "off" /\ loop' = "ticking" /\ wake' = FALSE /\ alarm' = None
      /\ loop # "ticking"
      /\ UNCHANGED <<database, clock, up, connected, tasks, configuration, bounds>>
      /\ batch' \in Batches \/ batch' = {}
  BY DEF Turn
<1>2. /\ StoreStep /\ sched' = sched /\ run' = run /\ pruned' = pruned /\ lastRun' = lastRun
      /\ \A r \in RunIds : InProgress(r)' <=> InProgress(r)
  BY <1>1, StoreStays
<1>3. /\ batch' \subseteq Schedules
      /\ \A s \in batch' : /\ sched[s].status = "active" /\ sched[s].next # None
                           /\ sched[s].next =< clock
      /\ Cardinality(tracked) + Cardinality(batch') =< MaxConcurrent
  <2>1. Cardinality(tracked) \in Nat /\ MaxConcurrent \in Nat
        /\ Cardinality(tracked) =< MaxConcurrent
    <3>1. batch = {} /\ Cardinality(batch) = 0
      BY <1>1, FS_EmptySet DEF IInv, BatchFits
    <3> QED
      BY <3>1, CountedFinite DEF IInv, BatchFits
  <2>2. CASE batch' = {}
    BY <2>1, <2>2, FS_EmptySet
  <2>3. CASE batch' \in Batches
    <3> DEFINE due == {s \in Schedules : Due(s) /\ sched[s].next =< clock}
    <3>1. batch' \in SUBSET due /\ Cardinality(batch') = AtMost(Capacity, Cardinality(due))
      BY <2>3 DEF Batches
    <3>2. Cardinality(due) \in Nat
      BY SchedulesFinite, FS_Subset, FS_CardinalityType
    <3>3. /\ Capacity = MaxConcurrent - Cardinality(tracked) /\ Capacity \in Nat
          /\ AtMost(Capacity, Cardinality(due)) =< Capacity
      BY <2>1, <3>2 DEF Capacity, AtMost
    <3>4. \A s \in due : /\ s \in Schedules /\ sched[s].status = "active"
                         /\ sched[s].next # None /\ sched[s].next =< clock
      BY DEF Due
    <3> HIDE DEF due
    <3>5. Cardinality(tracked) + Cardinality(batch') =< MaxConcurrent
      BY <2>1, <3>1, <3>2, <3>3 DEF AtMost
    <3> QED
      BY <3>1, <3>4, <3>5
  <2> QED
    BY <1>1, <2>2, <2>3
<1>4. TypeOK'
  BY <1>1, <1>2, <1>3 DEF IInv, TypeOK, Times, tasks, configuration, bounds
<1>5. BatchFits'
  BY <1>1, <1>2, <1>3 DEF IInv, BatchFits, BatchIsDue, tasks
<1>6. Owners'
  BY <1>1, <1>2, OwnersStay DEF IInv, configuration
<1> QED
  BY <1>2, <1>4, <1>5, <1>6 DEF IInv, StoreStep

LEMMA RestStep ==
    ASSUME IInv, Rest
    PROVE  IInv' /\ StoreStep
<1>1. /\ loop = "ticking" /\ batch = {} /\ loop' = "waiting"
      /\ alarm' = IF ~connected THEN clock
                  ELSE EarliestOrNone({sched[s].next : s \in {x \in Schedules : Due(x)}})
      /\ UNCHANGED <<database, clock, up, connected, batch, wake, tasks, configuration, bounds>>
  BY DEF Rest, Busy
<1>2. /\ StoreStep /\ sched' = sched /\ run' = run /\ pruned' = pruned /\ lastRun' = lastRun
      /\ \A r \in RunIds : InProgress(r)' <=> InProgress(r)
  BY <1>1, StoreStays
<1>3. alarm' \in Times
  <2> DEFINE S == {sched[s].next : s \in {x \in Schedules : Due(x)}}
  <2>1. S \in SUBSET Nat
    BY DEF Due, IInv, TypeOK, ScheduleRow, Times
  <2>2. EarliestOrNone(S) \in Times
    <3> HIDE DEF S
    <3> QED
      BY <2>1, EarliestExists DEF EarliestOrNone, Times
  <2> QED
    BY <1>1, <2>2 DEF Times, IInv, TypeOK
<1>4. TypeOK'
  BY <1>1, <1>2, <1>3 DEF IInv, TypeOK, tasks, configuration, bounds
<1>5. BatchFits'
  BY <1>1, <1>2 DEF IInv, BatchFits, BatchIsDue, tasks
<1>6. Owners'
  BY <1>1, <1>2, OwnersStay DEF IInv, configuration
<1> QED
  BY <1>2, <1>4, <1>5, <1>6 DEF IInv, StoreStep

LEMMA TickStep ==
    ASSUME IInv, Tick
    PROVE  IInv' /\ StoreStep
<1>1. /\ loop # "ticking" /\ clock' = clock + 1 /\ clock \in Nat
      /\ UNCHANGED <<database, up, connected, dispatcher, tasks, configuration, bounds>>
  BY DEF Tick, Busy, IInv, TypeOK
<1>2. Store' /\ FinalStep /\ SameFate
  BY <1>1, QuietStore DEF IInv
<1>3. LedgerStep
  BY <1>1, <1>2 DEF SameFate, LedgerStep, Ledger!Next, Ledger!Tick
<1>4. TypeOK'
  BY <1>1 DEF IInv, TypeOK, database, dispatcher, tasks, configuration, bounds
<1>5. BatchFits'
  BY <1>1 DEF IInv, BatchFits, BatchIsDue, tasks, dispatcher
<1>6. Owners'
  <2>1. lastRun' = lastRun /\ \A r \in RunIds : InProgress(r)' <=> InProgress(r)
    BY <1>1 DEF database, InProgress
  <2> QED
    BY <1>1, <2>1, OwnersStay DEF IInv, configuration, dispatcher
<1> QED
  BY <1>2, <1>3, <1>4, <1>5, <1>6 DEF IInv, StoreStep

LEMMA SetConnectedStep ==
    ASSUME IInv, NEW c \in BOOLEAN, SetConnected(c)
    PROVE  IInv' /\ StoreStep
<1>1. /\ connected' = c
      /\ UNCHANGED <<database, clock, up, dispatcher, tasks, configuration, bounds>>
  BY DEF SetConnected
<1>2. /\ StoreStep /\ sched' = sched /\ run' = run /\ pruned' = pruned /\ lastRun' = lastRun
      /\ \A r \in RunIds : InProgress(r)' <=> InProgress(r)
  BY <1>1, StoreStays
<1>3. TypeOK'
  BY <1>1, <1>2 DEF IInv, TypeOK, dispatcher, tasks, configuration, bounds
<1>4. BatchFits'
  BY <1>1, <1>2 DEF IInv, BatchFits, BatchIsDue, tasks, dispatcher
<1>5. Owners'
  BY <1>1, <1>2, OwnersStay DEF IInv, configuration, dispatcher
<1> QED
  BY <1>2, <1>3, <1>4, <1>5 DEF IInv, StoreStep

LEMMA CommitStep ==
    ASSUME IInv, Commit
    PROVE  IInv' /\ StoreStep
<1>1. /\ reload.phase = "settled" /\ reload' = Idle
      /\ appEnabled' = schedEnabled /\ restartRequired' = (reload.target = "moved")
      /\ UNCHANGED <<database, clock, up, connected, dispatcher, tasks, schedEnabled, bounds>>
  BY DEF Commit
<1>2. /\ StoreStep /\ sched' = sched /\ run' = run /\ pruned' = pruned /\ lastRun' = lastRun
      /\ \A r \in RunIds : InProgress(r)' <=> InProgress(r)
  BY <1>1, StoreStays
<1>3. TypeOK'
  <2>1. appEnabled' \in BOOLEAN /\ schedEnabled' \in BOOLEAN /\ restartRequired' \in BOOLEAN
    BY <1>1 DEF IInv, TypeOK
  <2>2. reload' \in [phase : {"none", "stopping", "settled", "restoring"},
                     target : {None, "on", "off", "moved", "exit"},
                     wasRunning : BOOLEAN, awaiting : SUBSET RunIds]
    BY <1>1 DEF Idle
  <2> QED
    BY <1>1, <1>2, <2>1, <2>2 DEF IInv, TypeOK, dispatcher, tasks, bounds
<1>4. BatchFits'
  BY <1>1, <1>2 DEF IInv, BatchFits, BatchIsDue, tasks, dispatcher
<1>5. Owners'
  <2>1. reload'.phase = "none"
    BY <1>1 DEF Idle
  <2> QED
    BY <1>1, <1>2, <2>1, OwnersStay DEF IInv, dispatcher
<1> QED
  BY <1>2, <1>3, <1>4, <1>5 DEF IInv, StoreStep

\* The run tasks.
LEMMA BeginStep ==
    ASSUME IInv, NEW r \in RunIds, Begin(r)
    PROVE  IInv' /\ StoreStep
<1>1. /\ task[r] = "created" /\ task' = [task EXCEPT ![r] = "executing"]
      /\ UNCHANGED <<database, clock, up, connected, dispatcher, tracked,
                     cancelling, offLoop, configuration, bounds>>
  BY DEF Begin
<1>2. /\ StoreStep /\ sched' = sched /\ run' = run /\ pruned' = pruned /\ lastRun' = lastRun
      /\ \A q \in RunIds : InProgress(q)' <=> InProgress(q)
  BY <1>1, StoreStays
<1>3. /\ task' \in [RunIds -> {"none", "created", "executing", "done"}]
      /\ \A q \in RunIds : /\ task'[q] \in Live <=> task[q] \in Live
                           /\ task'[q] = "none" <=> task[q] = "none"
  BY <1>1 DEF IInv, TypeOK, Live
<1>4. TypeOK'
  BY <1>1, <1>2, <1>3 DEF IInv, TypeOK, dispatcher, configuration, bounds
<1>5. BatchFits'
  BY <1>1, <1>2 DEF IInv, BatchFits, BatchIsDue, dispatcher
<1>6. Owners'
  BY <1>1, <1>2, <1>3 DEF IInv, Owners, TasksNumbered, RowsAreOwned, TasksOwnRows,
                          StopIsOff, dispatcher, configuration
<1> QED
  BY <1>2, <1>4, <1>5, <1>6 DEF IInv, StoreStep

LEMMA AbandonStep ==
    ASSUME IInv, NEW r \in RunIds, Abandon(r)
    PROVE  IInv' /\ StoreStep
<1>1. /\ task[r] = "created" /\ r \in cancelling /\ task' = [task EXCEPT ![r] = "done"]
      /\ UNCHANGED <<database, clock, up, connected, dispatcher, tracked,
                     cancelling, offLoop, configuration, bounds>>
  BY DEF Abandon
<1>2. /\ StoreStep /\ sched' = sched /\ run' = run /\ pruned' = pruned /\ lastRun' = lastRun
      /\ \A q \in RunIds : InProgress(q)' <=> InProgress(q)
  BY <1>1, StoreStays
<1>3. /\ task' \in [RunIds -> {"none", "created", "executing", "done"}]
      /\ \A q \in RunIds : /\ task'[q] \in Live <=> task[q] \in Live /\ q # r
                           /\ task'[q] = "none" <=> task[q] = "none"
  BY <1>1 DEF IInv, TypeOK, Live
<1>4. TypeOK'
  BY <1>1, <1>2, <1>3 DEF IInv, TypeOK, dispatcher, configuration, bounds
<1>5. BatchFits'
  BY <1>1, <1>2 DEF IInv, BatchFits, BatchIsDue, dispatcher
<1>6. Owners'
  BY <1>1, <1>2, <1>3 DEF IInv, Owners, TasksNumbered, RowsAreOwned, TasksOwnRows,
                          StopIsOff, dispatcher, configuration
<1> QED
  BY <1>2, <1>4, <1>5, <1>6 DEF IInv, StoreStep

LEMMA FinishStep ==
    ASSUME IInv, NEW r \in RunIds, NEW state \in RunStates, Finish(r, state)
    PROVE  IInv' /\ StoreStep
<1>1. /\ task[r] = "executing" /\ task' = [task EXCEPT ![r] = "done"]
      /\ state \in RunStates \ {"none", "running"}
      /\ wake' \in BOOLEAN /\ offLoop' = offLoop \ {r} /\ FinishRun(r, state)
      /\ loop # "ticking"
      /\ UNCHANGED <<clock, up, connected, loop, batch, alarm, tracked, cancelling,
                     configuration, bounds>>
  BY DEF Finish, TaskStep, Busy, RunStates, Failing
<1>2. /\ StoreStep /\ lastRun' = lastRun
      /\ \A q \in RunIds : InProgress(q)' => InProgress(q)
      /\ \A q \in RunIds \ {r} : InProgress(q)' <=> InProgress(q)
      /\ ~ InProgress(r)'
  <2>1. CASE Closable(r)
    <3>1. /\ Store' /\ SameFate /\ run' = [run EXCEPT ![r].state = state] /\ lastRun' = lastRun
          /\ \A s \in Schedules :
                 sched[s].status \in {"completed", "cancelled"} =>
                     sched'[s].status = sched[s].status /\ sched'[s].next = sched[s].next
      BY <1>1, <2>1, FinishStore DEF IInv, FinishRun
    <3>2. /\ run'[r].state = state /\ \A q \in RunIds \ {r} : run'[q] = run[q]
          /\ run[r].state = "running"
      BY <2>1, <3>1 DEF IInv, TypeOK, RunRow, Closable
    <3>3. FinalStep
      BY <3>1, <3>2 DEF FinalStep
    <3>4. LedgerStep
      BY <1>1, <3>1, SameFateStutters
    <3> QED
      BY <1>1, <3>1, <3>2, <3>3, <3>4 DEF StoreStep, InProgress
  <2>2. CASE ~ Closable(r)
    <3>1. UNCHANGED database
      BY <1>1, <2>2 DEF FinishRun
    <3> QED
      BY <1>1, <2>2, <3>1, StoreStays DEF Closable, InProgress
  <2> QED
    BY <2>1, <2>2
<1>3. /\ task' \in [RunIds -> {"none", "created", "executing", "done"}]
      /\ \A q \in RunIds : /\ task'[q] \in Live <=> task[q] \in Live /\ q # r
                           /\ task'[q] = "none" <=> task[q] = "none"
  BY <1>1 DEF IInv, TypeOK, Live
<1>4. TypeOK'
  BY <1>1, <1>2, <1>3 DEF IInv, TypeOK, StoreStep, Store, StoreType, configuration, bounds
<1>5. BatchFits'
  BY <1>1 DEF IInv, BatchFits, BatchIsDue
<1>6. Owners'
  <2>1. TasksNumbered'
    BY <1>1, <1>2, <1>3 DEF IInv, Owners, TasksNumbered
  <2>2. RowsAreOwned'
    BY <1>1, <1>2, <1>3 DEF IInv, Owners, RowsAreOwned
  <2>3. TasksOwnRows'
    BY <1>1, <1>2, <1>3 DEF IInv, Owners, TasksOwnRows, configuration
  <2>4. StopIsOff'
    BY <1>1 DEF IInv, Owners, StopIsOff, configuration
  <2> QED
    BY <2>1, <2>2, <2>3, <2>4 DEF Owners
<1> QED
  BY <1>2, <1>4, <1>5, <1>6 DEF IInv, StoreStep

LEMMA DiscardStep ==
    ASSUME IInv, NEW r \in RunIds, Discard(r)
    PROVE  IInv' /\ StoreStep
<1>1. /\ task[r] = "done" /\ task' = [task EXCEPT ![r] = "none"]
      /\ tracked' = tracked \ {r} /\ cancelling' = cancelling \ {r}
      /\ offLoop' = offLoop \ {r}
      /\ UNCHANGED <<database, clock, up, connected, dispatcher, configuration, bounds>>
  BY DEF Discard
<1>2. /\ StoreStep /\ sched' = sched /\ run' = run /\ pruned' = pruned /\ lastRun' = lastRun
      /\ \A q \in RunIds : InProgress(q)' <=> InProgress(q)
  BY <1>1, StoreStays
<1>3. /\ task' \in [RunIds -> {"none", "created", "executing", "done"}]
      /\ \A q \in RunIds : /\ task'[q] \in Live <=> task[q] \in Live /\ q # r
                           /\ task[q] = "none" => task'[q] = "none"
      /\ task[r] \notin Live
  BY <1>1 DEF IInv, TypeOK, Live
<1>4. TypeOK'
  BY <1>1, <1>2, <1>3 DEF IInv, TypeOK, dispatcher, configuration, bounds
<1>5. BatchFits'
  <2>1. Cardinality(tracked') =< Cardinality(tracked) /\ Cardinality(tracked') \in Nat
    BY <1>1, CountedFinite, FS_Subset, FS_CardinalityType DEF IInv
  <2>2. /\ BatchIsDue' /\ batch' = batch /\ loop' = loop
    BY <1>1, <1>2 DEF IInv, BatchFits, BatchIsDue, dispatcher
  <2> QED
    BY <2>1, <2>2, CountedFinite DEF IInv, BatchFits
<1>6. Owners'
  <2>1. TasksNumbered'
    BY <1>1, <1>2, <1>3 DEF IInv, Owners, TasksNumbered
  <2>2. RowsAreOwned'
    BY <1>1, <1>2, <1>3 DEF IInv, Owners, RowsAreOwned, dispatcher
  <2>3. TasksOwnRows'
    BY <1>1, <1>2, <1>3 DEF IInv, Owners, TasksOwnRows, configuration, dispatcher
  <2>4. StopIsOff'
    BY <1>1 DEF IInv, Owners, StopIsOff, configuration, dispatcher
  <2> QED
    BY <2>1, <2>2, <2>3, <2>4 DEF Owners
<1> QED
  BY <1>2, <1>4, <1>5, <1>6 DEF IInv, StoreStep

\* Reload, shutdown, crash, restart.
Reloads == [phase : {"none", "stopping", "settled", "restoring"},
            target : {None, "on", "off", "moved", "exit"},
            wasRunning : BOOLEAN, awaiting : SUBSET RunIds]

\* Recovery while no task owns a row.
LEMMA RecoverStep ==
    ASSUME IInv, Recover, UNCHANGED clock,
           UNCHANGED <<task, cancelling, offLoop>>, tracked' \subseteq tracked,
           \A r \in RunIds : task[r] \in Live => r \in offLoop,
           reload'.phase \notin {"stopping", "restoring"}
    PROVE  StoreStep /\ Owners' /\ lastRun' = lastRun
<1>1. /\ Store' /\ SameFate /\ lastRun' = lastRun
      /\ \A r \in RunIds : ~ InProgress(r)'
      /\ \A r \in RunIds : ~ InProgress(r) => run'[r] = run[r]
      /\ \A s \in Schedules :
             sched[s].status \in {"completed", "cancelled"} =>
                 sched'[s].status = sched[s].status /\ sched'[s].next = sched[s].next
  BY RecoverStore DEF IInv, Recover
<1>2. StoreStep
  BY <1>1, SameFateStutters DEF StoreStep, FinalStep, InProgress
<1>3. TasksNumbered'
  BY <1>1 DEF IInv, Owners, TasksNumbered
<1>4. RowsAreOwned' /\ TasksOwnRows' /\ StopIsOff'
  BY <1>1 DEF RowsAreOwned, TasksOwnRows, StopIsOff
<1> QED
  BY <1>1, <1>2, <1>3, <1>4 DEF Owners

\* A stop: the tracked runs are awaited.
LEMMA StopStep ==
    ASSUME IInv, UNCHANGED database, UNCHANGED clock, UNCHANGED <<task, tracked, offLoop>>,
           StopLoop, reload' \in Reloads,
           \/ tracked = {} /\ reload'.phase \notin {"stopping", "restoring"}
           \/ reload'.phase \in {"stopping", "restoring"} /\ reload'.awaiting = tracked,
           loop # "off" \/ reload.phase \notin {"stopping", "restoring"}
    PROVE  StoreStep /\ Owners' /\ BatchFits'
<1>1. /\ StoreStep /\ sched' = sched /\ run' = run /\ pruned' = pruned /\ lastRun' = lastRun
      /\ \A r \in RunIds : InProgress(r)' <=> InProgress(r)
  BY StoreStays
<1>2. /\ loop' = "off" /\ batch' = {} /\ cancelling' \subseteq cancelling \union tracked
  BY DEF StopLoop
<1>3. BatchFits'
  <2>1. Cardinality(batch') = 0
    BY <1>2, FS_EmptySet
  <2>2. Cardinality(tracked) =< MaxConcurrent
    BY CountedFinite DEF IInv, BatchFits
  <2> QED
    BY <1>1, <1>2, <2>1, <2>2, CountedFinite DEF IInv, BatchFits, BatchIsDue
<1>4. TasksNumbered'
  BY <1>1, <1>2 DEF IInv, Owners, TasksNumbered
<1>5. TasksOwnRows'
  BY <1>1 DEF IInv, Owners, TasksOwnRows
<1>6. RowsAreOwned' /\ StopIsOff'
  BY <1>2 DEF RowsAreOwned, StopIsOff
<1> QED
  BY <1>1, <1>3, <1>4, <1>5, <1>6 DEF Owners

LEMMA BeginReloadStep ==
    ASSUME IInv, NEW target \in {"on", "off", "moved", "exit"}, BeginReload(target)
    PROVE  IInv' /\ StoreStep
<1> DEFINE request == [phase |-> "settled", target |-> target,
                       wasRunning |-> loop # "off", awaiting |-> {}]
<1>1. /\ loop # "ticking" /\ reload.phase = "none" /\ reloads' = reloads + 1
      /\ schedEnabled' \in BOOLEAN /\ wake' \in BOOLEAN
      /\ UNCHANGED <<clock, up, connected, task, tracked, offLoop, appEnabled,
                     restartRequired, crashes>>
  <2>1. schedEnabled \in BOOLEAN /\ wake \in BOOLEAN
    BY DEF IInv, TypeOK
  <2> QED
    BY <2>1 DEF BeginReload, Busy
<1>2. request \in Reloads /\ request.phase = "settled"
  BY DEF Reloads
<1>3. batch = {} /\ tracked \subseteq RunIds /\ reloads + 1 \in Nat
  BY <1>1 DEF IInv, TypeOK, BatchFits
<1> DEFINE Good == StoreStep /\ Owners' /\ BatchFits' /\ loop' \in {"off", "ready", "waiting"}
                   /\ batch' \subseteq Schedules /\ alarm' \in Times
                   /\ cancelling' \subseteq RunIds /\ reload' \in Reloads
<1>4. ASSUME target = "on"
      PROVE  Good
  <2>1. StartLoop /\ reload' = request /\ UNCHANGED <<batch, alarm, cancelling>>
    BY <1>4 DEF BeginReload
  <2>2. BatchFits'
    <3>1. loop' = "ready" \/ loop' = loop
      BY <2>1 DEF StartLoop
    <3> QED
      BY <1>1, <1>3, <2>1, <3>1 DEF IInv, BatchFits, BatchIsDue
  <2>3. CASE Starts
    <3>1. Recover /\ loop' = "ready" /\ loop = "off"
      BY <2>1, <2>3 DEF StartLoop, Starts
    <3>2. \A r \in RunIds : task[r] \in Live => r \in offLoop
      BY <1>1, <3>1 DEF IInv, Owners, TasksOwnRows
    <3>3. StoreStep /\ Owners'
      BY <1>1, <1>2, <2>1, <3>1, <3>2, RecoverStep
    <3> QED
      BY <1>2, <2>1, <2>2, <3>1, <3>3 DEF IInv, TypeOK
  <2>4. CASE ~ Starts
    <3>1. UNCHANGED database /\ loop' = loop
      BY <2>1, <2>4 DEF StartLoop
    <3>2. /\ StoreStep /\ lastRun' = lastRun
          /\ \A r \in RunIds : InProgress(r)' <=> InProgress(r)
      BY <1>1, <3>1, StoreStays
    <3>3. Owners'
      BY <1>1, <1>2, <2>1, <3>1, <3>2, OwnersStay DEF IInv, tasks
    <3> QED
      BY <1>1, <1>2, <2>1, <2>2, <3>1, <3>2, <3>3 DEF IInv, TypeOK
  <2> QED
    BY <2>3, <2>4
<1>5. ASSUME target # "on"
      PROVE  Good
  <2>1. /\ StopLoop /\ UNCHANGED database
        /\ reload' = [request EXCEPT !.phase = IF tracked = {} THEN @ ELSE "stopping",
                                     !.awaiting = tracked]
    BY <1>5 DEF BeginReload
  <2>2. /\ reload' \in Reloads /\ reload'.awaiting = tracked
        /\ reload'.phase = IF tracked = {} THEN "settled" ELSE "stopping"
    BY <1>3, <2>1 DEF Reloads
  <2>3. StoreStep /\ Owners' /\ BatchFits'
    BY <1>1, <2>1, <2>2, StopStep
  <2>4. /\ loop' = "off" /\ batch' = {} /\ alarm' = None
        /\ cancelling' \subseteq cancelling \union tracked
    BY <2>1 DEF StopLoop
  <2> QED
    BY <2>2, <2>3, <2>4 DEF IInv, TypeOK, Times
<1>6. Good
  BY <1>4, <1>5
<1>7. TypeOK'
  BY <1>1, <1>3, <1>6 DEF IInv, TypeOK, StoreStep, Store, StoreType, Reloads
<1> QED
  BY <1>6, <1>7 DEF IInv, StoreStep

LEMMA StopEndsStep ==
    ASSUME IInv, StopEnds
    PROVE  IInv' /\ StoreStep
<1>1. /\ reload.phase = "stopping" /\ Awaited /\ tracked' = {}
      /\ reload' = [reload EXCEPT !.phase = "settled", !.awaiting = {}]
      /\ UNCHANGED <<database, clock, up, connected, dispatcher, task, cancelling, offLoop,
                     appEnabled, schedEnabled, restartRequired, bounds>>
  BY DEF StopEnds
<1>2. /\ StoreStep /\ sched' = sched /\ run' = run /\ pruned' = pruned /\ lastRun' = lastRun
      /\ \A r \in RunIds : InProgress(r)' <=> InProgress(r)
  BY <1>1, StoreStays
<1>3. reload' \in Reloads /\ reload'.phase = "settled"
  BY <1>1 DEF IInv, TypeOK, Reloads
<1>4. TypeOK'
  BY <1>1, <1>2, <1>3 DEF IInv, TypeOK, Reloads, dispatcher, bounds
<1>5. loop = "off" /\ loop' = "off" /\ batch = {} /\ batch' = {}
  BY <1>1 DEF IInv, Owners, StopIsOff, BatchFits, dispatcher
<1>6. BatchFits'
  <2>1. Cardinality(tracked') = 0 /\ Cardinality(batch') = 0
    BY <1>1, <1>5, FS_EmptySet
  <2> QED
    BY <1>1, <1>5, <2>1, CountedFinite DEF IInv, BatchFits, BatchIsDue
<1>7. \A r \in RunIds : task[r] \in Live => r \in offLoop
  BY <1>1, <1>5 DEF IInv, Owners, TasksOwnRows, Awaited
<1>8. Owners'
  <2>1. TasksNumbered'
    BY <1>1, <1>2 DEF IInv, Owners, TasksNumbered
  <2>2. RowsAreOwned' /\ TasksOwnRows' /\ StopIsOff'
    BY <1>1, <1>5, <1>7 DEF RowsAreOwned, TasksOwnRows, StopIsOff
  <2> QED
    BY <2>1, <2>2 DEF Owners
<1> QED
  BY <1>2, <1>4, <1>6, <1>8 DEF IInv, StoreStep

\* The scheduler is started again, or stays off.
LEMMA StartAgainStep ==
    ASSUME IInv, StartAgain, UNCHANGED <<clock, task, cancelling, offLoop>>, batch' = {},
           tracked' = {}, \A r \in RunIds : task[r] \in Live => r \in offLoop,
           reload' = Idle
    PROVE  /\ StoreStep /\ Owners' /\ BatchFits' /\ lastRun' = lastRun
           /\ loop' \in {"ready", "off"} /\ reload' \in Reloads
<1>1. reload' \in Reloads /\ reload'.phase = "none"
  BY DEF Idle, Reloads
<1>2. StoreStep /\ Owners' /\ lastRun' = lastRun /\ loop' \in {"ready", "off"}
  <2>1. CASE Recover /\ loop' = "ready"
    BY <1>1, <2>1, RecoverStep
  <2>2. CASE UNCHANGED database /\ loop' = "off"
    <3>1. /\ StoreStep /\ run' = run /\ lastRun' = lastRun
          /\ \A r \in RunIds : InProgress(r)' <=> InProgress(r)
      BY <2>2, StoreStays
    <3>2. TasksNumbered'
      BY <3>1 DEF IInv, Owners, TasksNumbered
    <3>3. RowsAreOwned' /\ TasksOwnRows' /\ StopIsOff'
      BY <1>1, <2>2 DEF RowsAreOwned, TasksOwnRows, StopIsOff
    <3> QED
      BY <2>2, <3>1, <3>2, <3>3 DEF Owners
  <2> QED
    BY <2>1, <2>2 DEF StartAgain
<1>3. BatchFits'
  <2>1. Cardinality(tracked') = 0 /\ Cardinality(batch') = 0
    BY FS_EmptySet
  <2> QED
    BY <2>1, CountedFinite DEF IInv, BatchFits, BatchIsDue
<1> QED
  BY <1>1, <1>2, <1>3

LEMMA RollbackStep ==
    ASSUME IInv, Rollback
    PROVE  IInv' /\ StoreStep
<1>1. /\ loop # "ticking" /\ reload.phase = "settled" /\ schedEnabled' = appEnabled
      /\ wake' = TRUE
      /\ UNCHANGED <<clock, up, connected, task, tracked, offLoop, appEnabled,
                     restartRequired, bounds>>
  BY DEF Rollback, Busy
<1>2. batch = {} /\ tracked \subseteq RunIds /\ reload \in Reloads
  BY <1>1 DEF IInv, TypeOK, BatchFits, Reloads
<1> DEFINE Good == StoreStep /\ Owners' /\ BatchFits' /\ loop' \in {"off", "ready"}
                   /\ batch' \subseteq Schedules /\ alarm' = None
                   /\ cancelling' \subseteq RunIds /\ reload' \in Reloads
<1>3. ASSUME tracked = {}
      PROVE  Good
  <2>1. StartAgain /\ alarm' = None /\ reload' = Idle /\ UNCHANGED <<batch, cancelling>>
    BY <1>3 DEF Rollback
  <2>2. \A r \in RunIds : task[r] \in Live => r \in offLoop
    BY <1>3 DEF IInv, Owners, TasksOwnRows
  <2>3. StoreStep /\ Owners' /\ BatchFits' /\ loop' \in {"ready", "off"} /\ reload' \in Reloads
    BY <1>1, <1>2, <1>3, <2>1, <2>2, StartAgainStep
  <2> QED
    BY <2>1, <2>3 DEF IInv, TypeOK
<1>4. ASSUME tracked # {}
      PROVE  Good
  <2>1. /\ StopLoop /\ UNCHANGED database
        /\ reload' = [reload EXCEPT !.phase = "restoring", !.awaiting = tracked]
    BY <1>4 DEF Rollback
  <2>2. reload' \in Reloads /\ reload'.phase = "restoring" /\ reload'.awaiting = tracked
    BY <1>2, <2>1 DEF Reloads
  <2>3. StoreStep /\ Owners' /\ BatchFits'
    BY <1>1, <2>1, <2>2, StopStep
  <2>4. /\ loop' = "off" /\ batch' = {} /\ alarm' = None
        /\ cancelling' \subseteq cancelling \union tracked
    BY <2>1 DEF StopLoop
  <2> QED
    BY <2>2, <2>3, <2>4 DEF IInv, TypeOK
<1>5. Good
  BY <1>3, <1>4
<1>6. TypeOK'
  BY <1>1, <1>5 DEF IInv, TypeOK, StoreStep, Store, StoreType, Reloads, Times, bounds
<1> QED
  BY <1>5, <1>6 DEF IInv, StoreStep

LEMMA RestoredStep ==
    ASSUME IInv, Restored
    PROVE  IInv' /\ StoreStep
<1>1. /\ loop # "ticking" /\ reload.phase = "restoring" /\ Awaited /\ tracked' = {}
      /\ StartAgain /\ reload' = Idle /\ schedEnabled' = schedEnabled
      /\ UNCHANGED <<clock, up, connected, batch, wake, alarm, task, cancelling, offLoop,
                     appEnabled, restartRequired, bounds>>
  BY DEF Restored, Busy
<1>2. batch = {} /\ \A r \in RunIds : task[r] \in Live => r \in offLoop
  BY <1>1 DEF IInv, Owners, StopIsOff, TasksOwnRows, Awaited, BatchFits
<1>3. /\ StoreStep /\ Owners' /\ BatchFits' /\ loop' \in {"ready", "off"}
      /\ reload' \in Reloads
  BY <1>1, <1>2, StartAgainStep
<1>4. TypeOK'
  BY <1>1, <1>3 DEF IInv, TypeOK, StoreStep, Store, StoreType, Reloads, bounds
<1> QED
  BY <1>3, <1>4 DEF IInv, StoreStep

LEMMA CrashStep ==
    ASSUME IInv, Crash
    PROVE  IInv' /\ StoreStep
<1>1. /\ crashes' = crashes + 1 /\ up' = FALSE /\ connected' = FALSE
      /\ loop' = "off" /\ batch' = {} /\ wake' = FALSE /\ alarm' = None
      /\ task' = [r \in RunIds |-> "none"]
      /\ tracked' = {} /\ cancelling' = {} /\ offLoop' = {} /\ reload' = Idle
      /\ UNCHANGED <<database, clock, appEnabled, schedEnabled, restartRequired, reloads>>
  BY DEF Crash
<1>2. /\ StoreStep /\ sched' = sched /\ run' = run /\ pruned' = pruned /\ lastRun' = lastRun
  BY <1>1, StoreStays
<1>3. reload' \in Reloads /\ reload'.phase = "none"
  BY <1>1 DEF Idle, Reloads
<1>4. TypeOK'
  <2>1. crashes' \in Nat
    BY <1>1 DEF IInv, TypeOK
  <2> QED
    BY <1>1, <1>2, <1>3, <2>1 DEF IInv, TypeOK, Reloads, Times
<1>5. BatchFits'
  <2>1. Cardinality(tracked') = 0 /\ Cardinality(batch') = 0
    BY <1>1, FS_EmptySet
  <2> QED
    BY <1>1, <2>1, CountedFinite DEF IInv, BatchFits, BatchIsDue
<1>6. Owners'
  <2>1. \A r \in RunIds : task'[r] = "none" /\ "none" \notin Live
    BY <1>1 DEF Live
  <2> QED
    BY <1>1, <1>3, <2>1 DEF Owners, TasksNumbered, RowsAreOwned, TasksOwnRows, StopIsOff
<1> QED
  BY <1>2, <1>4, <1>5, <1>6 DEF IInv, StoreStep

LEMMA BootStep ==
    ASSUME IInv, DownIsIdle, NEW enabled \in BOOLEAN, Boot(enabled)
    PROVE  IInv' /\ StoreStep
<1>1. /\ up' = TRUE /\ appEnabled' = enabled /\ schedEnabled' = enabled
      /\ restartRequired' = FALSE /\ StartLoop
      /\ UNCHANGED <<clock, connected, batch, wake, alarm, tasks, reload, bounds>>
      /\ reload.phase = "none"
  BY DEF Boot, DownIsIdle
<1>2. /\ task' = task /\ tracked' = tracked /\ cancelling' = cancelling /\ offLoop' = offLoop
  BY <1>1 DEF tasks
<1>3. StoreStep /\ Owners'
  <2>1. CASE Starts
    <3>1. Recover /\ loop = "off"
      BY <1>1, <2>1 DEF StartLoop, Starts
    <3>2. \A r \in RunIds : task[r] \in Live => r \in offLoop
      BY <1>1, <3>1 DEF IInv, Owners, TasksOwnRows
    <3> QED
      BY <1>1, <1>2, <3>1, <3>2, RecoverStep
  <2>2. CASE ~ Starts
    <3>1. UNCHANGED database /\ loop' = loop
      BY <1>1, <2>2 DEF StartLoop
    <3>2. /\ StoreStep /\ lastRun' = lastRun
          /\ \A r \in RunIds : InProgress(r)' <=> InProgress(r)
      BY <1>1, <3>1, StoreStays
    <3> QED
      BY <1>1, <3>1, <3>2, OwnersStay DEF IInv
  <2> QED
    BY <2>1, <2>2
<1>4. loop' = loop \/ (loop = "off" /\ loop' = "ready")
  BY <1>1 DEF StartLoop, Starts
<1>5. TypeOK'
  BY <1>1, <1>2, <1>3, <1>4 DEF IInv, TypeOK, StoreStep, Store, StoreType, bounds
<1>6. BatchFits'
  <2>1. batch = {} /\ batch' = {} /\ clock' = clock
    BY <1>1 DEF Boot, DownIsIdle, IInv, BatchFits
  <2> QED
    BY <1>1, <1>2, <1>4, <2>1 DEF IInv, BatchFits, BatchIsDue
<1> QED
  BY <1>3, <1>5, <1>6 DEF IInv, StoreStep

LEMMA DownStep == IInv /\ DownIsIdle /\ [Next]_vars => DownIsIdle'
<1> SUFFICES ASSUME DownIsIdle, [Next]_vars
             PROVE  DownIsIdle'
  OBVIOUS
<1>1. ASSUME UNCHANGED vars
      PROVE  DownIsIdle'
  BY <1>1 DEF DownIsIdle, vars, dispatcher, configuration
<1>2. ASSUME NEW s \in Schedules,
             \/ Create(s) \/ Pause(s) \/ Resume(s) \/ Cancel(s)
             \/ RunNow(s) \/ WriteOff(s) \/ Claim(s)
      PROVE  DownIsIdle'
  BY <1>2 DEF DownIsIdle, Create, Pause, Resume, Cancel, SetStatus, RunNow, WriteOff, Claim,
              dispatcher, configuration, CommandsOpen
<1>3. ASSUME Turn \/ Rest
      PROVE  DownIsIdle'
  BY <1>3 DEF DownIsIdle, Turn, Rest, Busy, configuration
<1>4. ASSUME NEW r \in RunIds, RunStep(r)
      PROVE  DownIsIdle'
  BY <1>4 DEF DownIsIdle, RunStep, Begin, Abandon, Discard, Finish, TaskStep,
              dispatcher, configuration
<1>5. ASSUME \/ \E target \in {"on", "off", "moved", "exit"} : BeginReload(target)
             \/ StopEnds \/ Commit \/ Rollback \/ Restored
      PROVE  DownIsIdle'
  <2>1. up /\ up' = up
    BY <1>5 DEF BeginReload, StopEnds, Commit, Rollback, Restored
  <2> QED
    BY <2>1 DEF DownIsIdle
<1>6. ASSUME Crash \/ \E enabled \in BOOLEAN : Boot(enabled)
      PROVE  DownIsIdle'
  BY <1>6 DEF DownIsIdle, Crash, Boot, Idle
<1>7. ASSUME Tick \/ \E c \in BOOLEAN : SetConnected(c)
      PROVE  DownIsIdle'
  BY <1>7 DEF DownIsIdle, Tick, SetConnected, dispatcher, configuration
<1> QED
  BY <1>1, <1>2, <1>3, <1>4, <1>5, <1>6, <1>7 DEF Next

LEMMA NextInv == IInv /\ DownIsIdle /\ [Next]_vars => IInv' /\ DownIsIdle' /\ StoreStep
<1> SUFFICES ASSUME IInv, DownIsIdle, [Next]_vars
             PROVE  IInv' /\ StoreStep
  BY DownStep
<1>1. ASSUME UNCHANGED vars
      PROVE  IInv' /\ StoreStep
  <2>1. UNCHANGED database /\ UNCHANGED clock
    BY <1>1 DEF vars
  <2>2. /\ StoreStep /\ sched' = sched /\ run' = run /\ pruned' = pruned /\ lastRun' = lastRun
        /\ \A r \in RunIds : InProgress(r)' <=> InProgress(r)
    BY <2>1, StoreStays
  <2>3. TypeOK'
    BY <1>1, <2>2 DEF IInv, TypeOK, vars, dispatcher, tasks, configuration, bounds
  <2>4. BatchFits'
    BY <1>1, <2>2 DEF IInv, BatchFits, BatchIsDue, vars, dispatcher, tasks
  <2>5. Owners'
    BY <1>1, <2>2, OwnersStay DEF IInv, vars, dispatcher, configuration
  <2> QED
    BY <2>2, <2>3, <2>4, <2>5 DEF IInv, StoreStep
<1>2. ASSUME NEW s \in Schedules,
             \/ Create(s) \/ Pause(s) \/ Resume(s) \/ Cancel(s)
             \/ RunNow(s) \/ WriteOff(s) \/ Claim(s)
      PROVE  IInv' /\ StoreStep
  BY <1>2, CommandStep, RunNowStep, WriteOffStep, ClaimStep
<1>3. ASSUME Turn \/ Rest
      PROVE  IInv' /\ StoreStep
  BY <1>3, TurnStep, RestStep
<1>4. ASSUME NEW r \in RunIds, RunStep(r)
      PROVE  IInv' /\ StoreStep
  BY <1>4, BeginStep, AbandonStep, DiscardStep, FinishStep DEF RunStep
<1>5. ASSUME \E target \in {"on", "off", "moved", "exit"} : BeginReload(target)
      PROVE  IInv' /\ StoreStep
  BY <1>5, BeginReloadStep
<1>6. ASSUME StopEnds \/ Commit \/ Rollback \/ Restored \/ Crash
      PROVE  IInv' /\ StoreStep
  BY <1>6, StopEndsStep, CommitStep, RollbackStep, RestoredStep, CrashStep
<1>7. ASSUME \E enabled \in BOOLEAN : Boot(enabled)
      PROVE  IInv' /\ StoreStep
  BY <1>7, BootStep
<1>8. ASSUME Tick \/ \E c \in BOOLEAN : SetConnected(c)
      PROVE  IInv' /\ StoreStep
  BY <1>8, TickStep, SetConnectedStep
<1> QED
  BY <1>1, <1>2, <1>3, <1>4, <1>5, <1>6, <1>7, <1>8 DEF Next

LEMMA InitInv == Init => IInv /\ DownIsIdle
<1> SUFFICES ASSUME Init
             PROVE  IInv /\ DownIsIdle
  OBVIOUS
<1>1. /\ sched \in [Schedules -> ScheduleRow]
      /\ \A s \in Schedules : sched[s].status = "absent" /\ sched[s].next = None
  BY DEF Init, ScheduleRow, Statuses, Times
<1>2. /\ run \in [RunIds -> RunRow]
      /\ \A r \in RunIds : /\ run[r].schedule = None /\ run[r].state = "none"
  BY DEF Init, RunRow, RunStates, Times
<1>3. pruned = {} /\ lastRun = 0 /\ lastRun \in 0..MaxRuns
  BY ParametersType DEF Init
<1>4. Store
  <2>1. \A r \in RunIds : ~ (r =< lastRun)
    BY <1>3, ParametersType DEF RunIds
  <2> QED
    BY <1>1, <1>2, <1>3, <2>1, SchedulesFinite
    DEF Store, StoreType, Numbered, NoneRunningPruned, OneInProgress, InProgress,
        LastIsRunning, NextIsAhead, DispatchedOnce, SameDispatch
<1>5. TypeOK
  <2>1. reload \in Reloads
    BY DEF Init, Idle, Reloads
  <2> QED
    BY <1>1, <1>2, <1>3, <2>1 DEF TypeOK, Init, Times, Reloads
<1>6. BatchFits
  <2>1. Cardinality(tracked) = 0 /\ Cardinality(batch) = 0
    BY FS_EmptySet DEF Init
  <2> QED
    BY <2>1, <1>5, CountedFinite DEF BatchFits, BatchIsDue, Init
<1>7. Owners
  <2>1. reload.phase = "none"
    BY DEF Init, Idle
  <2> QED
    BY <2>1 DEF Init, Owners, TasksNumbered, RowsAreOwned, TasksOwnRows, StopIsOff, Live
<1>8. DownIsIdle
  BY DEF Init, Idle, DownIsIdle
<1> QED
  BY <1>4, <1>5, <1>6, <1>7, <1>8 DEF IInv

LEMMA Invariant == Spec => [](IInv /\ DownIsIdle)
<1>1. IInv /\ DownIsIdle /\ [Next]_vars => (IInv /\ DownIsIdle)'
  BY NextInv
<1> QED
  BY <1>1, InitInv, PTL DEF Spec

-----------------------------------------------------------------------------
(* The statistics.                                                         *)

Misses(s) == Cardinality({o \in Occurrences[s] : IsMissed(s, o)})
RunTally(s) ==
    /\ sched[s].runCount = CountOf(s, RunStates)
    /\ sched[s].success = CountOf(s, {"succeeded"})
    /\ sched[s].failure = CountOf(s, Failing)

\* One count of missed occurrences is cut off at CountLimit: the sum never
\* overstates, and is exact for a schedule that has no more occurrences.
MissTally(s) ==
    /\ Misses(s) \in Nat /\ sched[s].missed =< Misses(s)
    /\ Cardinality(Occurrences[s]) =< CountLimit => sched[s].missed = Misses(s)
Tallies == \A s \in Schedules : RunTally(s) /\ MissTally(s)

\* The rows that count.
Counts(s, states, r) == run[r].schedule = s /\ run[r].state \in states
LEMMA CountIs ==
    ASSUME NEW s, NEW states, MaxRuns \in Nat
    PROVE  /\ CountOf(s, states) = Cardinality({r \in RunIds : Counts(s, states, r)})
           /\ IsFiniteSet({r \in RunIds : Counts(s, states, r)})
           /\ CountOf(s, states) \in Nat
<1> DEFINE R == {r \in RunIds : Counts(s, states, r)}
<1>1. CountOf(s, states) = Cardinality(R)
  BY DEF CountOf, Counts
<1>2. IsFiniteSet(RunIds) /\ R \subseteq RunIds
  BY FS_Interval DEF RunIds
<1>3. IsFiniteSet(R) /\ Cardinality(R) \in Nat
  BY <1>2, FS_Subset, FS_CardinalityType
<1> QED
  BY <1>1, <1>3

LEMMA CountStays ==
    ASSUME NEW s, NEW states,
           \A r \in RunIds : Counts(s, states, r)' <=> Counts(s, states, r)
    PROVE  CountOf(s, states)' = CountOf(s, states)
<1>1. {r \in RunIds : Counts(s, states, r)'} = {r \in RunIds : Counts(s, states, r)}
  OBVIOUS
<1>2. /\ CountOf(s, states) = Cardinality({r \in RunIds : Counts(s, states, r)})
      /\ CountOf(s, states)' = Cardinality({r \in RunIds : Counts(s, states, r)'})
  BY DEF CountOf, Counts
<1> QED
  BY <1>1, <1>2

LEMMA CountGains ==
    ASSUME NEW s, NEW states, MaxRuns \in Nat, NEW n \in RunIds,
           ~ Counts(s, states, n), Counts(s, states, n)',
           \A r \in RunIds \ {n} : Counts(s, states, r)' <=> Counts(s, states, r)
    PROVE  CountOf(s, states)' = CountOf(s, states) + 1
<1> DEFINE R == {r \in RunIds : Counts(s, states, r)}
           P == {r \in RunIds : Counts(s, states, r)'}
<1>1. /\ CountOf(s, states) = Cardinality(R)
      /\ CountOf(s, states)' = Cardinality(P)
  BY DEF CountOf, Counts
<1>2. P = R \union {n} /\ n \notin R
  OBVIOUS
<1>3. IsFiniteSet(R)
  BY CountIs
<1> HIDE DEF R, P
<1> QED
  BY <1>1, <1>2, <1>3, FS_AddElement

\* The rows that recovery closes are added.
LEMMA CountRecovers ==
    ASSUME NEW s, MaxRuns \in Nat,
           \A r \in RunIds : Counts(s, Failing, r)' <=>
                                 Counts(s, Failing, r) \/ Counts(s, {"running"}, r)
    PROVE  CountOf(s, Failing)' = CountOf(s, Failing) + CountOf(s, {"running"})
<1> DEFINE R == {r \in RunIds : Counts(s, Failing, r)}
           Q == {r \in RunIds : Counts(s, {"running"}, r)}
           P == {r \in RunIds : Counts(s, Failing, r)'}
<1>1. /\ CountOf(s, Failing) = Cardinality(R)
      /\ CountOf(s, {"running"}) = Cardinality(Q)
      /\ CountOf(s, Failing)' = Cardinality(P)
  BY DEF CountOf, Counts
<1>2. P = R \union Q /\ R \intersect Q = {}
  BY DEF Counts, Failing
<1>3. IsFiniteSet(R) /\ IsFiniteSet(Q) /\ Cardinality(R) \in Nat /\ Cardinality(Q) \in Nat
  BY <1>1, CountIs
<1> HIDE DEF R, P, Q
<1>4. Cardinality(R \union Q) = Cardinality(R) + Cardinality(Q) - Cardinality(R \intersect Q)
  BY <1>3, FS_Union
<1>5. Cardinality(R \intersect Q) = 0
  BY <1>2, FS_EmptySet
<1> QED
  BY <1>1, <1>2, <1>3, <1>4, <1>5

LEMMA MissesStay ==
    ASSUME NEW s \in Schedules, MissTally(s), sched'[s].missed = sched[s].missed,
           \A o \in Occurrences[s] : IsMissed(s, o)' <=> IsMissed(s, o)
    PROVE  MissTally(s)'
<1>1. {o \in Occurrences[s] : IsMissed(s, o)'} = {o \in Occurrences[s] : IsMissed(s, o)}
  OBVIOUS
<1>2. Misses(s)' = Cardinality({o \in Occurrences[s] : IsMissed(s, o)'})
  BY DEF Misses
<1>3. Misses(s)' = Misses(s)
  BY <1>1, <1>2 DEF Misses
<1> QED
  BY <1>3 DEF MissTally

SameNumbers(s) ==
    /\ sched'[s].runCount = sched[s].runCount
    /\ sched'[s].success = sched[s].success
    /\ sched'[s].failure = sched[s].failure
    /\ sched'[s].missed = sched[s].missed

LEMMA SameFateMisses ==
    ASSUME SameFate
    PROVE  SameMissed
BY DEF SameFate, SameMissed, IsMissed

\* A schedule whose numbers and rows stay keeps its run tally.
LEMMA RunTallyStays ==
    ASSUME NEW s \in Schedules, RunTally(s), SameNumbers(s),
           \A r \in RunIds : \/ run'[r] = run[r]
                             \/ run[r].schedule # s /\ run'[r].schedule # s
    PROVE  RunTally(s)'
<1>1. ASSUME NEW states
      PROVE  CountOf(s, states)' = CountOf(s, states)
  <2>1. \A r \in RunIds : Counts(s, states, r)' <=> Counts(s, states, r)
    BY DEF Counts
  <2> QED
    BY <2>1, CountStays
<1>2. /\ CountOf(s, RunStates)' = CountOf(s, RunStates)
      /\ CountOf(s, {"succeeded"})' = CountOf(s, {"succeeded"})
      /\ CountOf(s, Failing)' = CountOf(s, Failing)
  BY <1>1
<1> QED
  BY <1>2 DEF RunTally, SameNumbers

LEMMA TalliesStay ==
    ASSUME Tallies, SameMissed, run' = run, \A s \in Schedules : SameNumbers(s)
    PROVE  Tallies'
<1> SUFFICES ASSUME NEW s \in Schedules
             PROVE  RunTally(s)' /\ MissTally(s)'
  BY DEF Tallies
<1>1. RunTally(s)'
  BY RunTallyStays DEF Tallies
<1>2. MissTally(s)'
  BY MissesStay DEF Tallies, SameMissed, SameNumbers
<1> QED
  BY <1>1, <1>2

LEMMA QuietTally ==
    ASSUME Tallies, Store, UNCHANGED database
    PROVE  Tallies'
<1>1. run' = run /\ \A s \in Schedules : SameNumbers(s)
  BY DEF database, SameNumbers
<1>2. SameMissed
  BY QuietStore, SameFateMisses
<1> QED
  BY <1>1, <1>2, TalliesStay

\* A new row is a run more, and nothing else.
LEMMA InsertTally ==
    ASSUME Tallies, Store, SameMissed, NEW s \in Schedules, NEW due, NEW manual,
           InsertRun(s, due, manual),
           sched'[s].runCount = sched[s].runCount + 1,
           sched'[s].success = sched[s].success, sched'[s].failure = sched[s].failure,
           \A x \in Schedules : sched'[x].missed = sched[x].missed,
           \A x \in Schedules \ {s} : SameNumbers(x)
    PROVE  Tallies'
<1> DEFINE row == [schedule |-> s, due |-> due, manual |-> manual, state |-> "running"]
<1>0. PICK n : n = lastRun + 1
  OBVIOUS
<1>1. /\ n \in RunIds /\ MaxRuns \in Nat /\ run \in [RunIds -> RunRow]
      /\ run' = [run EXCEPT ![n] = row] /\ run[n].schedule = None /\ None \notin Schedules
  BY <1>0, ParametersType, SchedulesFinite
  DEF InsertRun, Store, StoreType, Numbered, RunIds
<1>2. row.schedule = s /\ row.state = "running"
  OBVIOUS
<1> HIDE DEF row
<1>3. run'[n] = row /\ \A r \in RunIds \ {n} : run'[r] = run[r]
  BY <1>1
<1>4. ASSUME NEW x \in Schedules
      PROVE  MissTally(x)'
  BY <1>4, MissesStay DEF Tallies, SameMissed
<1>5. ASSUME NEW x \in Schedules \ {s}
      PROVE  RunTally(x)'
  <2>1. \A r \in RunIds : \/ run'[r] = run[r]
                          \/ run[r].schedule # x /\ run'[r].schedule # x
    BY <1>1, <1>2, <1>3
  <2> QED
    BY <2>1, RunTallyStays DEF Tallies
<1>6. RunTally(s)'
  <2>1. CountOf(s, RunStates)' = CountOf(s, RunStates) + 1
    <3>1. ~ Counts(s, RunStates, n) /\ Counts(s, RunStates, n)'
      BY <1>1, <1>2, <1>3 DEF Counts, RunStates
    <3>2. \A r \in RunIds \ {n} : Counts(s, RunStates, r)' <=> Counts(s, RunStates, r)
      BY <1>3 DEF Counts
    <3> QED
      BY <1>1, <3>1, <3>2, CountGains
  <2>2. ASSUME NEW states, "running" \notin states
        PROVE  CountOf(s, states)' = CountOf(s, states)
    <3>1. ~ Counts(s, states, n) /\ ~ Counts(s, states, n)'
      BY <1>1, <1>2, <1>3, <2>2 DEF Counts
    <3>2. \A r \in RunIds \ {n} : Counts(s, states, r)' <=> Counts(s, states, r)
      BY <1>3 DEF Counts
    <3>3. \A r \in RunIds : Counts(s, states, r)' <=> Counts(s, states, r)
      BY <3>1, <3>2
    <3> QED
      BY <3>3, CountStays
  <2>3. /\ CountOf(s, {"succeeded"})' = CountOf(s, {"succeeded"})
        /\ CountOf(s, Failing)' = CountOf(s, Failing)
    <3>1. "running" \notin {"succeeded"} /\ "running" \notin Failing
      BY DEF Failing
    <3> QED
      BY <2>2, <3>1
  <2> QED
    BY <2>1, <2>3 DEF Tallies, RunTally
<1> QED
  BY <1>4, <1>5, <1>6 DEF Tallies

LEMMA SettledNumbers ==
    ASSUME NEW row \in ScheduleRow, NEW state
    PROVE  LET settled == Settled(row, state) IN
           /\ settled.runCount = row.runCount /\ settled.missed = row.missed
           /\ settled.success = IF state = "succeeded" THEN row.success + 1 ELSE row.success
           /\ settled.failure = IF state \in Failing THEN row.failure + 1 ELSE row.failure
<1> DEFINE success == IF state = "succeeded" THEN row.success + 1 ELSE row.success
           failure == IF state \in Failing THEN row.failure + 1 ELSE row.failure
           consecutive == IF state = "succeeded" THEN 0
                          ELSE IF state \in Failing THEN row.consecutive + 1
                          ELSE row.consecutive
           status == IF row.status = "finishing" THEN "completed" ELSE row.status
           tooMany == MaxFailures > 0 /\ consecutive >= MaxFailures
           final == IF status = "active" /\ tooMany THEN "paused" ELSE status
<1>1. Settled(row, state) = [row EXCEPT !.success = success, !.failure = failure,
                                        !.consecutive = consecutive, !.status = final]
  BY DEF Settled
<1> HIDE DEF success, failure, consecutive, status, tooMany, final
<1>2. /\ Settled(row, state).runCount = row.runCount
      /\ Settled(row, state).missed = row.missed
      /\ Settled(row, state).success = success
      /\ Settled(row, state).failure = failure
  BY <1>1 DEF ScheduleRow
<1> QED
  BY <1>2 DEF success, failure

\* The end of a run is counted once, under what it ended with.
LEMMA FinishTally ==
    ASSUME Tallies, Store, NEW r \in RunIds, NEW state \in RunStates \ {"none", "running"},
           FinishRun(r, state)
    PROVE  Tallies'
<1>1. CASE ~ Closable(r)
  BY <1>1, QuietTally DEF FinishRun
<1>2. CASE Closable(r)
  <2>0. PICK s : s = run[r].schedule
    OBVIOUS
  <2>1. /\ s \in Schedules /\ run[r].state = "running" /\ SameFate
        /\ run' = [run EXCEPT ![r].state = state]
        /\ sched' = [sched EXCEPT ![s] = Settled(sched[s], state)]
        /\ run \in [RunIds -> RunRow] /\ sched \in [Schedules -> ScheduleRow]
        /\ MaxRuns \in Nat
    BY <1>2, <2>0, FinishStore, ParametersType DEF FinishRun, Closable, Store, StoreType
  <2>2. /\ run'[r].schedule = s /\ run'[r].state = state
        /\ \A q \in RunIds \ {r} : run'[q] = run[q]
    BY <2>0, <2>1 DEF RunRow
  <2>3. run[r].schedule = s
    BY <2>0
  <2>4. SameMissed
    BY <2>1, SameFateMisses
  <2>5. \A x \in Schedules \ {s} : sched'[x] = sched[x]
    BY <2>1
  <2>6. /\ sched'[s].runCount = sched[s].runCount /\ sched'[s].missed = sched[s].missed
        /\ sched'[s].success = IF state = "succeeded" THEN sched[s].success + 1
                               ELSE sched[s].success
        /\ sched'[s].failure = IF state \in Failing THEN sched[s].failure + 1
                               ELSE sched[s].failure
    BY <2>1, SettledNumbers
  <2>7. ASSUME NEW x \in Schedules
        PROVE  MissTally(x)'
    BY <2>4, <2>5, <2>6, <2>7, MissesStay DEF Tallies, SameMissed
  <2>8. ASSUME NEW x \in Schedules \ {s}
        PROVE  RunTally(x)'
    <3>1. SameNumbers(x)
      BY <2>5 DEF SameNumbers
    <3>2. \A q \in RunIds : \/ run'[q] = run[q]
                            \/ run[q].schedule # x /\ run'[q].schedule # x
      BY <2>2, <2>3
    <3> QED
      BY <3>1, <3>2, RunTallyStays DEF Tallies
  <2>9. RunTally(s)'
    <3>1. ASSUME NEW states
          PROVE  /\ Counts(s, states, r)' <=> state \in states
                 /\ Counts(s, states, r) <=> "running" \in states
                 /\ \A q \in RunIds \ {r} : Counts(s, states, q)' <=> Counts(s, states, q)
      BY <2>1, <2>2, <2>3 DEF Counts
    <3>2. ASSUME NEW states, state \in states <=> "running" \in states
          PROVE  CountOf(s, states)' = CountOf(s, states)
      <4>1. \A q \in RunIds : Counts(s, states, q)' <=> Counts(s, states, q)
        BY <3>1, <3>2
      <4> QED
        BY <4>1, CountStays
    <3>3. ASSUME NEW states, state \in states, "running" \notin states
          PROVE  CountOf(s, states)' = CountOf(s, states) + 1
      BY <2>1, <3>1, <3>3, CountGains
    <3>4. "running" \in RunStates /\ state \in RunStates /\ "running" \notin Failing
      BY DEF RunStates, Failing
    <3>5. CountOf(s, RunStates)' = CountOf(s, RunStates)
      BY <3>2, <3>4
    <3>6. CountOf(s, {"succeeded"})' = IF state = "succeeded" THEN CountOf(s, {"succeeded"}) + 1
                                       ELSE CountOf(s, {"succeeded"})
      <4>1. CASE state = "succeeded"
        BY <3>3, <4>1
      <4>2. CASE state # "succeeded"
        BY <3>2, <4>2
      <4> QED
        BY <4>1, <4>2
    <3>7. CountOf(s, Failing)' = IF state \in Failing THEN CountOf(s, Failing) + 1
                                 ELSE CountOf(s, Failing)
      <4>1. CASE state \in Failing
        BY <3>3, <3>4, <4>1
      <4>2. CASE state \notin Failing
        BY <3>2, <3>4, <4>2
      <4> QED
        BY <4>1, <4>2
    <3> QED
      BY <2>1, <2>6, <3>5, <3>6, <3>7 DEF Tallies, RunTally
  <2> QED
    BY <2>7, <2>8, <2>9 DEF Tallies
<1> QED
  BY <1>1, <1>2

\* Recovery counts every row it closes as a failure.
LEMMA RecoverTally ==
    ASSUME Tallies, Store, Recover
    PROVE  Tallies'
<1>1. /\ run \in [RunIds -> RunRow] /\ sched \in [Schedules -> ScheduleRow]
      /\ MaxRuns \in Nat /\ lastRun \in 0..MaxRuns
  BY ParametersType DEF Store, StoreType
<1>2. SameMissed
  BY RecoverStore, SameFateMisses
<1>3. \A r \in RunIds : /\ run'[r].schedule = run[r].schedule
                        /\ run'[r].state = IF run[r].state = "running" THEN "interrupted"
                                           ELSE run[r].state
  BY <1>1 DEF Recover, RunRow
<1> SUFFICES ASSUME NEW s \in Schedules
             PROVE  RunTally(s)' /\ MissTally(s)'
  BY DEF Tallies
<1> DEFINE count == Cardinality(Running(s))
           row == sched[s]
<1>4. /\ sched'[s].runCount = sched[s].runCount /\ sched'[s].missed = sched[s].missed
      /\ sched'[s].success = sched[s].success
      /\ sched'[s].failure = sched[s].failure + count
  <2>1. sched'[s] = Interrupted(row, count) /\ row \in ScheduleRow
    BY <1>1 DEF Recover
  <2> HIDE DEF row, count
  <2> DEFINE failure == row.failure + count
             consecutive == row.consecutive + count
             status == IF count > 0 /\ row.status = "finishing" THEN "completed"
                       ELSE row.status
  <2>2. sched'[s] = [row EXCEPT !.failure = failure, !.consecutive = consecutive,
                                !.status = status]
    BY <2>1 DEF Interrupted
  <2> HIDE DEF failure, consecutive, status
  <2>3. /\ sched'[s].runCount = row.runCount /\ sched'[s].missed = row.missed
        /\ sched'[s].success = row.success /\ sched'[s].failure = failure
    BY <2>1, <2>2 DEF ScheduleRow
  <2> QED
    BY <2>3 DEF row, failure
<1>5. count = CountOf(s, {"running"})
  <2>1. \A r \in RunIds : Counts(s, {"running"}, r) => r =< lastRun /\ r \notin pruned
    BY SchedulesFinite DEF Counts, Store, Numbered, NoneRunningPruned, InProgress
  <2>2. Running(s) = {r \in RunIds : Counts(s, {"running"}, r)}
    BY <1>1, <2>1 DEF Running, RowsOf, Counts, RunIds
  <2> QED
    BY <1>1, <2>2, CountIs
<1> HIDE DEF count, row
<1>6. CountOf(s, RunStates)' = CountOf(s, RunStates)
  <2>1. \A r \in RunIds : Counts(s, RunStates, r)' <=> Counts(s, RunStates, r)
    BY <1>3 DEF Counts, RunStates, Failing
  <2> QED
    BY <2>1, CountStays
<1>7. CountOf(s, {"succeeded"})' = CountOf(s, {"succeeded"})
  <2>1. \A r \in RunIds : Counts(s, {"succeeded"}, r)' <=> Counts(s, {"succeeded"}, r)
    BY <1>3 DEF Counts
  <2> QED
    BY <2>1, CountStays
<1>8. CountOf(s, Failing)' = CountOf(s, Failing) + count
  <2>1. \A r \in RunIds : Counts(s, Failing, r)' <=>
                              Counts(s, Failing, r) \/ Counts(s, {"running"}, r)
    BY <1>3 DEF Counts, Failing
  <2> QED
    BY <1>1, <1>5, <2>1, CountRecovers
<1>9. RunTally(s)'
  BY <1>4, <1>6, <1>7, <1>8 DEF Tallies, RunTally
<1>10. MissTally(s)'
  BY <1>2, <1>4, MissesStay DEF Tallies, SameMissed
<1> QED
  BY <1>9, <1>10

\* What is written off is counted, and was not counted before.
LEMMA WriteOffTally ==
    ASSUME Tallies, Store, BatchIsDue, NEW s \in Schedules, WriteOff(s)
    PROVE  Tallies'
<1> DEFINE due == sched[s].next
           target == MisfireTarget(s, due)
           count == MisfireCount(s, due)
           status == IF target = None THEN "completed" ELSE sched[s].status
<1>1. /\ run' = run /\ \A x \in Schedules \ {s} : sched'[x] = sched[x]
      /\ \A x \in Schedules \ {s} : \A o \in Occurrences[x] :
             IsMissed(x, o)' <=> IsMissed(x, o)
  BY WriteOffStore
<1>2. PICK h \in Occurrences[s] :
          /\ CountedLost(count, s, due, h)
          /\ \A o \in Occurrences[s] :
                 /\ IsMissed(s, o) => ~ (due =< o)
                 /\ IsMissed(s, o)' <=> IsMissed(s, o) \/ (due =< o /\ o =< h)
  BY WriteOffStore
<1>3. /\ sched'[s].runCount = sched[s].runCount
      /\ sched'[s].success = sched[s].success /\ sched'[s].failure = sched[s].failure
      /\ sched'[s].missed = sched[s].missed + count
      /\ sched[s].missed \in Nat /\ count \in Nat
  <2>1. /\ sched \in [Schedules -> ScheduleRow]
        /\ sched' = [sched EXCEPT ![s].next = target, ![s].missed = @ + count,
                                  ![s].status = status]
        /\ clock \in Nat /\ Misfired(due) /\ due \in Occurrences[s]
    BY PendingFromNext DEF WriteOff, BatchIsDue, Store, StoreType
  <2>2. count \in Nat
    BY <2>1, MisfireIs
  <2> HIDE DEF target, count, status
  <2>3. sched'[s] = Written(sched[s], target, count, status)
    BY <2>1 DEF Written
  <2>4. sched[s] \in ScheduleRow
    BY <2>1
  <2> QED
    BY <2>2, <2>3, <2>4 DEF Written, ScheduleRow
<1> HIDE DEF due, count, target, status
<1>4. ASSUME NEW x \in Schedules \ {s}
      PROVE  RunTally(x)' /\ MissTally(x)'
  <2>1. SameNumbers(x) /\ \A r \in RunIds : run'[r] = run[r]
    BY <1>1 DEF SameNumbers
  <2>2. RunTally(x)'
    BY <2>1, RunTallyStays DEF Tallies
  <2>3. MissTally(x)'
    BY <1>1, <2>1, MissesStay DEF Tallies, SameNumbers
  <2> QED
    BY <2>2, <2>3
<1>5. RunTally(s)'
  <2>1. ASSUME NEW states
        PROVE  CountOf(s, states)' = CountOf(s, states)
    <3>1. \A r \in RunIds : Counts(s, states, r)' <=> Counts(s, states, r)
      BY <1>1 DEF Counts
    <3> QED
      BY <3>1, CountStays
  <2>2. /\ CountOf(s, RunStates)' = CountOf(s, RunStates)
        /\ CountOf(s, {"succeeded"})' = CountOf(s, {"succeeded"})
        /\ CountOf(s, Failing)' = CountOf(s, Failing)
    BY <2>1
  <2> QED
    BY <1>3, <2>2 DEF Tallies, RunTally
<1>6. MissTally(s)'
  <2> DEFINE M == {o \in Occurrences[s] : IsMissed(s, o)}
             L == {o \in Occurrences[s] : due =< o /\ o =< h}
             P == {o \in Occurrences[s] : IsMissed(s, o)'}
             m == Cardinality(M)
             l == Cardinality(L)
             missed == sched[s].missed
  <2>1. Misses(s) = m /\ Misses(s)' = Cardinality(P)
    BY DEF Misses
  <2>2. P = M \union L /\ M \intersect L = {}
    BY <1>2
  <2>3. IsFiniteSet(M) /\ IsFiniteSet(L) /\ m \in Nat /\ l \in Nat
    <3>1. IsFiniteSet(Occurrences[s]) /\ M \subseteq Occurrences[s] /\ L \subseteq Occurrences[s]
      BY OccurrencesFinite
    <3>2. IsFiniteSet(M) /\ IsFiniteSet(L)
      BY <3>1, FS_Subset
    <3> QED
      BY <3>2, FS_CardinalityType
  <2>4. count =< l /\ (Cardinality(Occurrences[s]) =< CountLimit => count = l)
    BY <1>2 DEF CountedLost
  <2>5. missed =< m /\ (Cardinality(Occurrences[s]) =< CountLimit => missed = m)
    BY <2>1 DEF Tallies, MissTally
  <2>6. Cardinality(P) = m + l
    <3>1. Cardinality(M \intersect L) = 0
      BY <2>2, FS_EmptySet
    <3> HIDE DEF M, L, P
    <3>2. Cardinality(M \union L) = Cardinality(M) + Cardinality(L) - Cardinality(M \intersect L)
      BY <2>3, FS_Union
    <3> QED
      BY <2>2, <2>3, <3>1, <3>2
  <2>7. sched'[s].missed = missed + count /\ missed \in Nat /\ count \in Nat
    BY <1>3
  <2> HIDE DEF P, m, l, missed
  <2>8. Misses(s)' = m + l
    BY <2>1, <2>6
  <2> QED
    BY <2>3, <2>4, <2>5, <2>7, <2>8 DEF MissTally
<1> QED
  BY <1>4, <1>5, <1>6 DEF Tallies

LEMMA CommandTally ==
    ASSUME Tallies, Store, clock \in Nat, NEW s \in Schedules,
           Create(s) \/ Pause(s) \/ Resume(s) \/ Cancel(s) \/ RunNow(s)
    PROVE  Tallies'
<1>1. sched \in [Schedules -> ScheduleRow]
  BY DEF Store, StoreType
<1>2. ASSUME run' = run, SameFate,
             NEW row, sched' = [sched EXCEPT ![s] = row],
             row.runCount = sched[s].runCount, row.missed = sched[s].missed,
             row.success = sched[s].success, row.failure = sched[s].failure
      PROVE  Tallies'
  <2>1. \A x \in Schedules : SameNumbers(x)
    BY <1>1, <1>2 DEF SameNumbers
  <2> QED
    BY <1>2, <2>1, SameFateMisses, TalliesStay
<1>3. CASE Create(s)
  <2> DEFINE first == Earliest(Occurrences[s])
             row == [sched[s] EXCEPT !.status = "active", !.next = first]
  <2>1. run' = run /\ sched' = [sched EXCEPT ![s].status = "active", ![s].next = first]
    BY <1>3 DEF Create
  <2> HIDE DEF first
  <2>2. sched' = [sched EXCEPT ![s] = row]
    BY <1>1, <2>1
  <2>3. /\ row.runCount = sched[s].runCount /\ row.missed = sched[s].missed
        /\ row.success = sched[s].success /\ row.failure = sched[s].failure
    BY <1>1 DEF ScheduleRow
  <2>4. SameFate
    BY <1>3, CreateStore
  <2> HIDE DEF row
  <2> QED
    BY <1>2, <2>1, <2>2, <2>3, <2>4
<1>4. ASSUME NEW from \in SUBSET {"active", "paused", "finishing"},
             NEW to \in {"active", "paused", "cancelled"}, SetStatus(s, from, to)
      PROVE  Tallies'
  <2> DEFINE row == [sched[s] EXCEPT !.status = to]
  <2>1. run' = run /\ sched' = [sched EXCEPT ![s] = row]
    BY <1>1, <1>4 DEF SetStatus
  <2>2. /\ row.runCount = sched[s].runCount /\ row.missed = sched[s].missed
        /\ row.success = sched[s].success /\ row.failure = sched[s].failure
    BY <1>1 DEF ScheduleRow
  <2>3. SameFate
    BY <1>4, SetStatusStore
  <2> HIDE DEF row
  <2> QED
    BY <1>2, <2>1, <2>2, <2>3
<1>5. CASE RunNow(s)
  <2>1. /\ InsertRun(s, clock, TRUE)
        /\ sched' = [sched EXCEPT ![s].runCount = @ + 1]
    BY <1>5 DEF RunNow
  <2>2. /\ sched'[s].runCount = sched[s].runCount + 1
        /\ sched'[s].success = sched[s].success /\ sched'[s].failure = sched[s].failure
        /\ \A x \in Schedules : sched'[x].missed = sched[x].missed
        /\ \A x \in Schedules \ {s} : SameNumbers(x)
    BY <1>1, <2>1 DEF ScheduleRow, SameNumbers
  <2>3. SameMissed
    BY <1>5, RunNowStore, SameFateMisses
  <2> QED
    BY <2>1, <2>2, <2>3, InsertTally
<1>6. Pause(s) \/ Resume(s) \/ Cancel(s) => Tallies'
  BY <1>4 DEF Pause, Resume, Cancel
<1> QED
  BY <1>3, <1>5, <1>6

LEMMA ClaimTally ==
    ASSUME Tallies, Store, BatchIsDue, NEW s \in Schedules, Claim(s)
    PROVE  Tallies'
<1> DEFINE next == NextAfter(s, sched[s].next)
           status == IF next = None THEN "finishing" ELSE "active"
<1>1. /\ sched \in [Schedules -> ScheduleRow]
      /\ sched' = [sched EXCEPT ![s].next = next, ![s].runCount = @ + 1,
                                ![s].status = status]
      /\ InsertRun(s, sched[s].next, FALSE)
  BY DEF Claim, Store, StoreType
<1> HIDE DEF next, status
<1>2. /\ sched'[s].runCount = sched[s].runCount + 1
      /\ sched'[s].success = sched[s].success /\ sched'[s].failure = sched[s].failure
      /\ \A x \in Schedules : sched'[x].missed = sched[x].missed
      /\ \A x \in Schedules \ {s} : SameNumbers(x)
  BY <1>1 DEF ScheduleRow, SameNumbers
<1>3. SameMissed
  BY ClaimStore
<1> QED
  BY <1>1, <1>2, <1>3, InsertTally

LEMMA NextTally == IInv /\ Tallies /\ [Next]_vars => Tallies'
<1> SUFFICES ASSUME IInv, Tallies, [Next]_vars
             PROVE  Tallies'
  OBVIOUS
<1>1. Store /\ BatchIsDue /\ clock \in Nat
  BY DEF IInv, BatchFits, BatchIsDue
<1>2. ASSUME UNCHANGED database
      PROVE  Tallies'
  BY <1>1, <1>2, QuietTally
<1>3. ASSUME NEW s \in Schedules,
             \/ Create(s) \/ Pause(s) \/ Resume(s) \/ Cancel(s)
             \/ RunNow(s) \/ WriteOff(s) \/ Claim(s)
      PROVE  Tallies'
  BY <1>1, <1>3, CommandTally, WriteOffTally, ClaimTally
<1>4. ASSUME NEW r \in RunIds, RunStep(r)
      PROVE  Tallies'
  <2>1. Begin(r) \/ Abandon(r) \/ Discard(r) => UNCHANGED database
    BY DEF Begin, Abandon, Discard
  <2>2. ASSUME NEW state \in RunStates, Finish(r, state)
        PROVE  Tallies'
    <3>1. FinishRun(r, state) /\ state \in RunStates \ {"none", "running"}
      BY <2>2 DEF Finish
    <3> QED
      BY <1>1, <3>1, FinishTally
  <2> QED
    BY <1>2, <1>4, <2>1, <2>2 DEF RunStep
<1>5. ASSUME \E target \in {"on", "off", "moved", "exit"} : BeginReload(target)
      PROVE  Tallies'
  <2>1. Recover \/ UNCHANGED database
    BY <1>5 DEF BeginReload, StartLoop
  <2> QED
    BY <1>1, <1>2, <2>1, RecoverTally
<1>6. ASSUME Rollback \/ Restored \/ \E enabled \in BOOLEAN : Boot(enabled)
      PROVE  Tallies'
  <2>1. Recover \/ UNCHANGED database
    BY <1>6 DEF Rollback, Restored, Boot, StartAgain, StartLoop
  <2> QED
    BY <1>1, <1>2, <2>1, RecoverTally
<1>7. ASSUME \/ Turn \/ Rest \/ StopEnds \/ Commit \/ Crash \/ Tick
             \/ \E c \in BOOLEAN : SetConnected(c)
             \/ UNCHANGED vars
      PROVE  Tallies'
  <2>1. UNCHANGED database
    BY <1>7 DEF Turn, Rest, StopEnds, Commit, Crash, Tick, SetConnected, vars
  <2> QED
    BY <1>2, <2>1
<1> QED
  BY <1>3, <1>4, <1>5, <1>6, <1>7 DEF Next

LEMMA InitTally == Init => Tallies
<1> SUFFICES ASSUME Init, NEW s \in Schedules
             PROVE  RunTally(s) /\ MissTally(s)
  BY DEF Tallies
<1>1. /\ sched[s].runCount = 0 /\ sched[s].success = 0 /\ sched[s].failure = 0
      /\ sched[s].missed = 0 /\ sched[s].status = "absent"
      /\ \A r \in RunIds : run[r].schedule # s
  BY SchedulesFinite DEF Init
<1>2. ASSUME NEW states
      PROVE  CountOf(s, states) = 0
  <2>1. {r \in RunIds : run[r].schedule = s /\ run[r].state \in states} = {}
    BY <1>1
  <2> QED
    BY <2>1, FS_EmptySet DEF CountOf
<1>3. Misses(s) = 0
  <2>1. \A o \in Occurrences[s] : ~ IsMissed(s, o)
    BY <1>1 DEF IsMissed, Fate
  <2>2. {o \in Occurrences[s] : IsMissed(s, o)} = {}
    BY <2>1
  <2> QED
    BY <2>2, FS_EmptySet DEF Misses
<1> QED
  BY <1>1, <1>2, <1>3 DEF RunTally, MissTally

LEMMA Tallied == Spec => []Tallies
<1>1. IInv /\ Tallies /\ [Next]_vars => Tallies'
  BY NextTally
<1> QED
  BY <1>1, InitTally, Invariant, PTL DEF Spec

-----------------------------------------------------------------------------
(* The theorems.                                                           *)

\* The tables, the loop, the tasks and a reload keep their types.
THEOREM TypeCorrect == Spec => []TypeOK
<1>1. IInv => TypeOK
  BY DEF IInv
<1> QED
  BY <1>1, Invariant, PTL

\* The store has at most one running row per schedule, deletes none of them, and
\* dispatches no occurrence twice; what waits for its last run has it.
THEOREM RunsAreSingle == Spec => []OneRunPerSchedule
<1>1. IInv => OneRunPerSchedule
  <2> SUFFICES ASSUME IInv
               PROVE  OneRunPerSchedule
    OBVIOUS
  <2> USE DEF IInv, Store
  <2>1. ASSUME NEW s \in Schedules
        PROVE  /\ Cardinality(Running(s)) =< 1
               /\ sched[s].status = "finishing" => Running(s) # {}
    <3>1. /\ Running(s) \subseteq RunIds
          /\ \A q, r \in Running(s) : q = r
      <4>1. \A r \in Running(s) : r \in RunIds /\ InProgress(r) /\ run[r].schedule = s
        BY CountedFinite, ParametersType DEF Running, RowsOf, InProgress, RunIds, TypeOK
      <4> QED
        BY <4>1 DEF OneInProgress
    <3>2. Cardinality(Running(s)) =< 1
      <4>1. CASE Running(s) = {}
        BY <4>1, FS_EmptySet
      <4>2. CASE Running(s) # {}
        <5>1. PICK r \in Running(s) : TRUE
          BY <4>2
        <5>2. Running(s) = {r}
          BY <3>1, <5>1
        <5> QED
          BY <5>2, FS_Singleton
      <4> QED
        BY <4>1, <4>2
    <3>3. ASSUME sched[s].status = "finishing"
          PROVE  Running(s) # {}
      <4>1. PICK r \in RunIds : InProgress(r) /\ run[r].schedule = s
        BY <3>3 DEF LastIsRunning
      <4>2. r =< lastRun /\ r \notin pruned
        BY <4>1 DEF InProgress, Numbered, NoneRunningPruned
      <4> QED
        BY <4>1, <4>2, CountedFinite DEF Running, RowsOf, InProgress, RunIds
    <3> QED
      BY <3>2, <3>3
  <2>2. \A r \in pruned : run[r].state # "running"
    BY DEF NoneRunningPruned, InProgress
  <2>3. ASSUME NEW q \in 1..lastRun, NEW r \in 1..lastRun, q # r,
               ~ run[q].manual, ~ run[r].manual
        PROVE  <<run[q].schedule, run[q].due>> # <<run[r].schedule, run[r].due>>
    <3>1. q \in RunIds /\ r \in RunIds /\ run[q].schedule \in Schedules
      BY CountedFinite, ParametersType DEF RunIds, TypeOK, Numbered
    <3> QED
      BY <2>3, <3>1 DEF DispatchedOnce, SameDispatch
  <2> QED
    BY <2>1, <2>2, <2>3 DEF OneRunPerSchedule
<1> QED
  BY <1>1, Invariant, PTL

\* While the loop runs, a running row has a live task that will close it, so
\* that no schedule is blocked until the next restart.
THEOREM RowsAreLive == Spec => []RunningRowIsLive
<1>1. IInv => RunningRowIsLive
  BY DEF IInv, Owners, RowsAreOwned, RunningRowIsLive, InProgress
<1> QED
  BY <1>1, Invariant, PTL

\* Runs of one schedule never overlap and no more than the configured number
\* execute, manual runs accepted without a loop aside.
THEOREM RunsStayExclusive == Spec => []RunsExclusive
<1>1. IInv => RunsExclusive
  <2> SUFFICES ASSUME IInv
               PROVE  RunsExclusive
    OBVIOUS
  <2>1. \A r \in LiveRuns \ offLoop : r \in RunIds /\ InProgress(r) /\ r \in tracked
    BY DEF IInv, Owners, TasksOwnRows, LiveRuns
  <2>2. \A q, r \in LiveRuns \ offLoop : run[q].schedule = run[r].schedule => q = r
    BY <2>1 DEF IInv, Store, OneInProgress
  <2>3. LiveRuns \ offLoop \subseteq tracked
    BY <2>1
  <2>4. /\ Cardinality(LiveRuns \ offLoop) =< Cardinality(tracked)
        /\ Cardinality(LiveRuns \ offLoop) \in Nat
    BY <2>3, CountedFinite, FS_Subset, FS_CardinalityType DEF IInv
  <2>5. Cardinality(LiveRuns \ offLoop) =< MaxConcurrent
    BY <2>4, CountedFinite DEF IInv, BatchFits
  <2> QED
    BY <2>2, <2>5 DEF RunsExclusive
<1> QED
  BY <1>1, Invariant, PTL

\* A schedule that ended is never revived, by a run that ends late or by
\* recovery, and a closed run keeps its outcome.
THEOREM EndedStays == Spec => SettledStays
<1>1. IInv /\ DownIsIdle /\ [Next]_vars => FinalStep
  BY NextInv DEF StoreStep
<1>2. IInv /\ DownIsIdle /\ [Next]_vars => [FinalStep]_vars
  BY <1>1
<1> QED
  BY <1>2, Invariant, PTL DEF Spec, SettledStays, FinalStep

\* The scheduler keeps the ledger's promises about every occurrence, whatever
\* crashes, reloads, pauses and busy runs come in between.
THEOREM Refinement == Spec => ImplementsLedger
<1>1. Init => Ledger!Init
  <2> SUFFICES ASSUME Init
               PROVE  Ledger!Init
    OBVIOUS
  <2>1. \A s \in Schedules : \A o \in Occurrences[s] : Fate(s, o) = "pending"
    <3> SUFFICES ASSUME NEW s \in Schedules, NEW o \in Occurrences[s]
                 PROVE  Fate(s, o) = "pending"
      OBVIOUS
    <3>1. Claimed(s) = {} /\ sched[s].status = "absent"
      BY SchedulesFinite DEF Init, Claimed
    <3> QED
      BY <3>1 DEF Fate
  <2> QED
    BY <2>1 DEF Ledger!Init, Init
<1>2. IInv /\ DownIsIdle /\ [Next]_vars => [Ledger!Next]_(Ledger!ledgerVars)
  BY NextInv DEF StoreStep, LedgerStep
<1> QED
  BY <1>1, <1>2, Invariant, PTL DEF Spec, ImplementsLedger, Ledger!Spec

\* The counts of runs, successes and failures are exact, across late finishes
\* of recovered runs, restarts and history pruning; the count of missed
\* occurrences never overstates, and is exact for every schedule that has no
\* more occurrences than one count can hold.
THEOREM CountersNeverOverstate ==
    Spec => [](\A s \in Schedules : RunTally(s) /\ MissTally(s))
BY Tallied, PTL DEF Tallies

\* The statistics a user sees agree with what happened, provided that no
\* schedule has more occurrences than one count of missed ones can hold.
THEOREM CountersAreExact ==
    ASSUME \A s \in Schedules : Cardinality(Occurrences[s]) =< CountLimit
    PROVE  Spec => []CountersAddUp
<1>1. Tallies => CountersAddUp
  BY DEF Tallies, RunTally, MissTally, Misses, IsMissed, CountersAddUp
<1> QED
  BY <1>1, Tallied, PTL
=============================================================================
