--------------------------- MODULE StorageProofs ---------------------------
(* Safety of the storage gate for any finite set of tasks and any nesting,  *)
(* and of replies and the cleanup beside them, for any jobs, files, limits  *)
(* and reloads.                                                             *)
EXTENDS StorageGate, ReplyDelivery, FiniteSetTheorems, TLAPS

-----------------------------------------------------------------------------
(* The gate.                                                                *)

\* The saved context of a task never names the task: it was copied before
\* the task existed.
ForeignInheritance == \A t \in Tasks : inherited[t].owner # t

GateIInv ==
    /\ GateTypeOK
    /\ ForeignInheritance
    /\ LeaseIsOwn
    /\ CountersAgree
    /\ MaintenanceExclusive
    /\ NoLostWakeup
-----------------------------------------------------------------------------
\* The tasks at each place are finitely many, and their number is a natural.
LEMMA PlaceCount ==
    ASSUME NEW place
    PROVE  /\ IsFiniteSet(At(place))
           /\ Cardinality(At(place)) \in Nat
           /\ Cardinality(At(place)) = 0 <=> At(place) = {}
<1>1. At(place) \in SUBSET Tasks
  BY DEF At
<1>2. IsFiniteSet(At(place))
  BY <1>1, TasksFinite, FS_Subset
<1> QED
  BY <1>2, FS_CardinalityType, FS_EmptySet

\* One task that moves leaves every place but its new one.
LEMMA LeftSets ==
    ASSUME GateTypeOK, NEW t \in Tasks, NEW to \in PC,
           pc' = [pc EXCEPT ![t] = to]
    PROVE  \A place : place # to => At(place)' = At(place) \ {t}
BY DEF GateTypeOK, At

LEMMA JoinedSets ==
    ASSUME GateTypeOK, NEW t \in Tasks, NEW to \in PC,
           pc' = [pc EXCEPT ![t] = to]
    PROVE  \A place : place = to => At(place)' = At(place) \union {t}
BY DEF GateTypeOK, At

LEMMA UnmovedSets ==
    ASSUME GateTypeOK, NEW t \in Tasks, NEW to \in PC,
           pc' = [pc EXCEPT ![t] = to]
    PROVE  \A place : place \notin {to, pc[t]} => At(place)' = At(place)
BY DEF GateTypeOK, At

\* Its arrival and its departure change two counts by one.
LEMMA MovedCounts ==
    ASSUME GateTypeOK, NEW t \in Tasks, NEW to \in PC, pc[t] # to,
           pc' = [pc EXCEPT ![t] = to]
    PROVE  \A place :
               /\ place = to =>
                     Cardinality(At(place)') = Cardinality(At(place)) + 1
               /\ place = pc[t] =>
                     Cardinality(At(place)') = Cardinality(At(place)) - 1
<1>1. At(to)' = At(to) \union {t}
  BY JoinedSets
<1>2. ASSUME NEW place, place = pc[t]
      PROVE  Cardinality(At(place)') = Cardinality(At(place)) - 1
  <2>1. At(place)' = At(place) \ {t}
    BY <1>2, LeftSets
  <2>2. t \in At(place)
    BY <1>2 DEF At
  <2> QED
    BY <2>1, <2>2, PlaceCount, FS_RemoveElement
<1>3. t \notin At(to)
  BY DEF At
<1>4. Cardinality(At(to)') = Cardinality(At(to)) + 1
  BY <1>1, <1>3, PlaceCount, FS_AddElement
<1> QED
  BY <1>2, <1>4

\* A step that moves nobody changes no place.
LEMMA StillSets ==
    ASSUME pc' = pc
    PROVE  \A place : At(place)' = At(place)
BY DEF At
-----------------------------------------------------------------------------
LEMMA InitIInv == GateInit => GateIInv
<1> SUFFICES ASSUME GateInit PROVE GateIInv
  OBVIOUS
<1>1. \A place : place # "new" => At(place) = {}
  BY DEF GateInit, At
<1>2. GateTypeOK
  <2>1. 0 \in 0..MaxDepth
    BY DepthPositive
  <2>2. [owner |-> None, depth |-> 0] \in Contexts
    BY <2>1 DEF Contexts
  <2> QED
    BY <2>1, <2>2 DEF GateInit, GateTypeOK, PC
<1>3. CountersAgree
  BY <1>1, FS_EmptySet DEF GateInit, CountersAgree
<1>4. ForeignInheritance /\ LeaseIsOwn
  BY NoneIsNoTask DEF GateInit, ForeignInheritance, LeaseIsOwn, HoldsLease
<1>5. MaintenanceExclusive /\ NoLostWakeup
  BY <1>1 DEF MaintenanceExclusive, NoLostWakeup
<1> QED
  BY <1>2, <1>3, <1>4, <1>5 DEF GateIInv

\* Context switches of a task: a start and an end.
LEMMA StartPreserves ==
    ASSUME GateIInv, NEW t \in Tasks, NEW context0 \in Contexts,
           context0.owner # t, Start(t, context0)
    PROVE  GateIInv'
<1> USE DEF GateIInv
<1>1. \A place : place \notin {"new", "idle"} => At(place)' = At(place)
  <2>1. pc[t] = "new" /\ pc' = [pc EXCEPT ![t] = "idle"]
    BY DEF Start
  <2> QED
    BY <2>1, LeftSets DEF GateTypeOK, PC, At
<1>2. GateTypeOK'
  BY DEF Start, GateTypeOK, PC, Contexts, counters
<1>3. ForeignInheritance' /\ LeaseIsOwn'
  BY DEF Start, GateTypeOK, Contexts, ForeignInheritance, LeaseIsOwn, HoldsLease
<1>4. CountersAgree'
  BY <1>1 DEF Start, CountersAgree, counters
<1>5. MaintenanceExclusive' /\ NoLostWakeup'
  BY <1>1 DEF Start, MaintenanceExclusive, NoLostWakeup, counters,
              ActivityMayEnter, MaintenanceMayEnter
<1> QED
  BY <1>2, <1>3, <1>4, <1>5

LEMMA EndPreserves ==
    ASSUME GateIInv, NEW t \in Tasks, End(t)
    PROVE  GateIInv'
<1> USE DEF GateIInv
<1>1. \A place : place \notin {"new", "idle"} => At(place)' = At(place)
  BY LeftSets DEF End, GateTypeOK, PC, At
<1>2. GateTypeOK'
  <2>1. 0 \in 0..MaxDepth
    BY DepthPositive
  <2>2. [owner |-> None, depth |-> 0] \in Contexts
    BY <2>1 DEF Contexts
  <2> QED
    BY <2>1, <2>2 DEF End, GateTypeOK, PC, counters
<1>3. ForeignInheritance' /\ LeaseIsOwn'
  BY NoneIsNoTask DEF End, GateTypeOK, ForeignInheritance, LeaseIsOwn, HoldsLease
<1>4. CountersAgree'
  BY <1>1 DEF End, CountersAgree, counters
<1>5. MaintenanceExclusive' /\ NoLostWakeup'
  BY <1>1 DEF End, MaintenanceExclusive, NoLostWakeup, counters,
              ActivityMayEnter, MaintenanceMayEnter
<1> QED
  BY <1>2, <1>3, <1>4, <1>5

\* Taking the shared lease, at once or after a wait.
LEMMA TakeActivityPreserves ==
    ASSUME GateIInv, NEW t \in Tasks, pc[t] \in {"idle", "waitActivity"},
           ActivityMayEnter, TakeActivity(t),
           notified' \in {notified, notified \ {t}}
    PROVE  GateIInv'
<1> USE DEF GateIInv
<1>1. pc' = [pc EXCEPT ![t] = "activity"] /\ "activity" \in PC
  BY DEF TakeActivity, PC
<1>2. /\ At("activity")' = At("activity") \union {t}
      /\ At("waitActivity")' = At("waitActivity") \ {t}
      /\ At("maintenance")' = At("maintenance")
      /\ At("waitMaintenance")' = At("waitMaintenance")
  <2>1. At("activity")' = At("activity") \union {t}
    BY <1>1, JoinedSets
  <2>2. At("waitActivity")' = At("waitActivity") \ {t}
    BY <1>1, LeftSets
  <2> QED
    BY <1>1, <2>1, <2>2, UnmovedSets
<1>3. Cardinality(At("activity")') = Cardinality(At("activity")) + 1
  BY <1>1, MovedCounts
<1>4. GateTypeOK'
  <2>1. 1 \in 0..MaxDepth
    BY DepthPositive
  <2> QED
    BY <1>1, <2>1 DEF TakeActivity, GateTypeOK
<1>5. ForeignInheritance' /\ LeaseIsOwn'
  BY DEF TakeActivity, GateTypeOK, ForeignInheritance, LeaseIsOwn, HoldsLease
<1>6. CountersAgree'
  BY <1>2, <1>3 DEF TakeActivity, CountersAgree
<1>7. MaintenanceExclusive' /\ NoLostWakeup'
  <2>1. At("maintenance")' = {}
    BY <1>2 DEF ActivityMayEnter, CountersAgree
  <2>2. ~MaintenanceMayEnter'
    BY DEF TakeActivity, MaintenanceMayEnter, GateTypeOK
  <2>3. At("waitActivity")' \subseteq notified'
    BY <1>2 DEF NoLostWakeup
  <2> QED
    BY <2>1, <2>2, <2>3 DEF MaintenanceExclusive, NoLostWakeup
<1> QED
  BY <1>4, <1>5, <1>6, <1>7

LEMMA EnterActivityPreserves ==
    ASSUME GateIInv, NEW t \in Tasks, EnterActivity(t)
    PROVE  GateIInv'
<1> USE DEF GateIInv
<1>1. pc[t] = "idle"
  BY DEF EnterActivity, LeaseIsOwn
<1>2. CASE ActivityMayEnter /\ TakeActivity(t)
  BY <1>1, <1>2, TakeActivityPreserves DEF EnterActivity
<1>3. CASE /\ ~ActivityMayEnter
           /\ Sleep(t, "waitActivity")
           /\ UNCHANGED counters
  <2>1. pc' = [pc EXCEPT ![t] = "waitActivity"] /\ "waitActivity" \in PC
    BY <1>3 DEF Sleep, PC
  <2>2. \A place : place \notin {"idle", "waitActivity"} =>
                       At(place)' = At(place)
    BY <1>1, <2>1, LeftSets DEF At
  <2>3. GateTypeOK'
    BY <1>3, <2>1 DEF Sleep, EnterActivity, GateTypeOK, counters, context
  <2>4. ForeignInheritance' /\ LeaseIsOwn'
    BY <1>1, <1>3, <2>1
    DEF Sleep, context, GateTypeOK, ForeignInheritance, LeaseIsOwn, HoldsLease
  <2>5. CountersAgree' /\ MaintenanceExclusive'
    BY <1>3, <2>2 DEF CountersAgree, MaintenanceExclusive, counters
  <2>6. NoLostWakeup'
    BY <1>3, <2>2 DEF EnterActivity, NoLostWakeup, ActivityMayEnter,
                      MaintenanceMayEnter, counters
  <2> QED
    BY <2>3, <2>4, <2>5, <2>6
<1> QED
  BY <1>2, <1>3 DEF EnterActivity

LEMMA NestedPreserves ==
    ASSUME GateIInv, NEW t \in Tasks, EnterNested(t) \/ LeaveNested(t)
    PROVE  GateIInv'
<1> USE DEF GateIInv
<1>1. \A place : At(place)' = At(place)
  BY StillSets DEF EnterNested, LeaveNested
<1>2. GateTypeOK'
  BY DepthPositive DEF EnterNested, LeaveNested, GateTypeOK, counters
<1>3. ForeignInheritance' /\ LeaseIsOwn'
  BY DepthPositive
  DEF EnterNested, LeaveNested, GateTypeOK, ForeignInheritance, LeaseIsOwn,
      HoldsLease
<1>4. CountersAgree' /\ MaintenanceExclusive' /\ NoLostWakeup'
  BY <1>1
  DEF EnterNested, LeaveNested, CountersAgree, MaintenanceExclusive,
      NoLostWakeup, ActivityMayEnter, MaintenanceMayEnter, counters
<1> QED
  BY <1>2, <1>3, <1>4

\* notify_all leaves no sleeper behind, whoever moved away before it.
LEMMA NobodyLeftAsleep ==
    ASSUME GateIInv, NEW t \in Tasks, NEW to \in PC,
           to \notin {"waitActivity", "waitMaintenance"},
           pc' = [pc EXCEPT ![t] = to],
           Sleepers \ {t} \subseteq notified', notified' \subseteq Tasks
    PROVE  NoLostWakeup'
<1>1. /\ At("waitActivity")' = At("waitActivity") \ {t}
      /\ At("waitMaintenance")' = At("waitMaintenance") \ {t}
  BY LeftSets DEF GateIInv
<1> QED
  BY <1>1 DEF NoLostWakeup, Sleepers

LEMMA LeaveActivityPreserves ==
    ASSUME GateIInv, NEW t \in Tasks, LeaveActivity(t)
    PROVE  GateIInv'
<1> USE DEF GateIInv
<1>1. pc[t] = "activity" /\ pc' = [pc EXCEPT ![t] = "idle"] /\ "idle" \in PC
  BY DEF LeaveActivity, PC
<1>2. At("maintenance") = {}
  <2>1. t \in At("activity")
    BY <1>1 DEF At
  <2> QED
    BY <2>1 DEF MaintenanceExclusive
<1>3. At("maintenance")' = {}
  <2>1. At("maintenance")' = At("maintenance") \ {t}
    BY <1>1, LeftSets
  <2> QED
    BY <1>2, <2>1
<1>4. CountersAgree'
  <2>1. Cardinality(At("activity")') = Cardinality(At("activity")) - 1
    BY <1>1, MovedCounts
  <2>2. At("waitMaintenance")' = At("waitMaintenance")
    BY <1>1, UnmovedSets
  <2> QED
    BY <1>2, <1>3, <2>1, <2>2 DEF LeaveActivity, CountersAgree
<1>5. GateTypeOK'
  <2>1. activeCount - 1 \in Nat
    <3>1. t \in At("activity")
      BY <1>1 DEF At
    <3> QED
      BY <3>1, PlaceCount DEF CountersAgree
  <2>2. inherited[t] \in Contexts
    BY DEF GateTypeOK
  <2> QED
    BY <1>1, <2>1, <2>2 DEF LeaveActivity, NotifyAll, GateTypeOK, Contexts, Sleepers, At
<1>6. ForeignInheritance' /\ LeaseIsOwn'
  BY DEF LeaveActivity, NotifyAll, GateTypeOK, ForeignInheritance, LeaseIsOwn, HoldsLease
<1>7. NoLostWakeup'
  <2>1. Sleepers \subseteq Tasks
    BY DEF Sleepers, At
  <2> QED
    BY <1>1, <2>1, NobodyLeftAsleep DEF LeaveActivity, NotifyAll
<1>8. MaintenanceExclusive'
  BY <1>3 DEF MaintenanceExclusive
<1> QED
  BY <1>4, <1>5, <1>6, <1>7, <1>8

LEMMA WakeActivityPreserves ==
    ASSUME GateIInv, NEW t \in Tasks, WakeActivity(t)
    PROVE  GateIInv'
<1> USE DEF GateIInv
<1>1. CASE ActivityMayEnter /\ TakeActivity(t)
  BY <1>1, TakeActivityPreserves DEF WakeActivity
<1>2. CASE ~ActivityMayEnter /\ UNCHANGED <<pc, context, counters>>
  <2>1. \A place : At(place)' = At(place)
    BY <1>2, StillSets
  <2>2. t \notin At("waitMaintenance")
    BY DEF WakeActivity, At
  <2>3. NoLostWakeup'
    BY <1>2, <2>1, <2>2
    DEF WakeActivity, NoLostWakeup, ActivityMayEnter, MaintenanceMayEnter,
        counters
  <2> QED
    BY <1>2, <2>1, <2>3
    DEF WakeActivity, GateTypeOK, ForeignInheritance, LeaseIsOwn, HoldsLease,
        CountersAgree, MaintenanceExclusive, context, counters
<1> QED
  BY <1>1, <1>2 DEF WakeActivity

LEMMA CancelActivityWaitPreserves ==
    ASSUME GateIInv, NEW t \in Tasks, CancelActivityWait(t)
    PROVE  GateIInv'
<1> USE DEF GateIInv
<1>1. /\ pc[t] = "waitActivity"
      /\ pc' = [pc EXCEPT ![t] = "idle"]
      /\ "idle" \in PC
  BY DEF CancelActivityWait, PC
<1>2. /\ notified \ {t} \subseteq notified'
      /\ notified' \subseteq Tasks
      /\ UNCHANGED <<context, counters>>
  BY DEF CancelActivityWait, GateTypeOK, Sleepers, At
<1>3. /\ \A place : place \notin {"idle", "waitActivity"} =>
                        At(place)' = At(place)
      /\ At("waitActivity")' = At("waitActivity") \ {t}
  <2>1. At("waitActivity")' = At("waitActivity") \ {t}
    BY <1>1, LeftSets
  <2> QED
    BY <1>1, <2>1, UnmovedSets
<1>4. GateTypeOK'
  BY <1>1, <1>2 DEF GateTypeOK, context, counters
<1>5. ForeignInheritance' /\ LeaseIsOwn'
  BY <1>1, <1>2 DEF context, GateTypeOK, ForeignInheritance, LeaseIsOwn, HoldsLease
<1>6. CountersAgree' /\ MaintenanceExclusive'
  BY <1>2, <1>3 DEF CountersAgree, MaintenanceExclusive, counters
<1>7. NoLostWakeup'
  <2>1. t \notin At("waitMaintenance")
    BY <1>1 DEF At
  <2> QED
    BY <1>2, <1>3, <2>1
    DEF NoLostWakeup, ActivityMayEnter, MaintenanceMayEnter, counters
<1> QED
  BY <1>4, <1>5, <1>6, <1>7

LEMMA TakeMaintenancePreserves ==
    ASSUME GateIInv, NEW t \in Tasks,
           MaintenanceMayEnter, TakeMaintenance(t),
           \/ /\ pc[t] = "idle"
              /\ UNCHANGED maintenanceWaiters
           \/ /\ pc[t] = "waitMaintenance"
              /\ maintenanceWaiters' = maintenanceWaiters - 1,
           notified' \in {notified, notified \ {t}}
    PROVE  GateIInv'
<1> USE DEF GateIInv
<1>1. pc' = [pc EXCEPT ![t] = "maintenance"] /\ "maintenance" \in PC
  BY DEF TakeMaintenance, PC
<1>2. /\ At("maintenance") = {}
      /\ At("activity") = {}
  BY PlaceCount DEF CountersAgree, MaintenanceMayEnter
<1>3. /\ At("maintenance")' = {t}
      /\ At("activity")' = {}
  <2>1. At("maintenance")' = At("maintenance") \union {t}
    BY <1>1, JoinedSets
  <2>2. At("activity")' = At("activity")
    BY <1>1, UnmovedSets
  <2> QED
    BY <1>2, <2>1, <2>2
<1>4. /\ maintenanceWaiters' \in Nat
      /\ maintenanceWaiters' = Cardinality(At("waitMaintenance")')
  <2>1. CASE pc[t] = "idle"
    BY <1>1, <2>1, UnmovedSets DEF CountersAgree, GateTypeOK
  <2>2. CASE pc[t] = "waitMaintenance"
    <3>1. Cardinality(At("waitMaintenance")') =
              Cardinality(At("waitMaintenance")) - 1
      BY <1>1, <2>2, MovedCounts
    <3>2. IsFiniteSet(At("waitMaintenance")')
      BY TasksFinite, FS_Subset DEF At
    <3> QED
      BY <2>2, <3>1, <3>2, FS_CardinalityType DEF CountersAgree
  <2> QED
    BY <2>1, <2>2
<1>5. GateTypeOK'
  BY <1>1, <1>4 DEF TakeMaintenance, GateTypeOK, context
<1>6. ForeignInheritance' /\ LeaseIsOwn'
  BY <1>1
  DEF TakeMaintenance, context, GateTypeOK, ForeignInheritance, LeaseIsOwn,
      HoldsLease
<1>7. CountersAgree'
  BY <1>2, <1>3, <1>4 DEF TakeMaintenance, CountersAgree
<1>8. MaintenanceExclusive' /\ NoLostWakeup'
  BY <1>3
  DEF TakeMaintenance, MaintenanceExclusive, NoLostWakeup, ActivityMayEnter,
      MaintenanceMayEnter
<1> QED
  BY <1>5, <1>6, <1>7, <1>8

LEMMA EnterMaintenancePreserves ==
    ASSUME GateIInv, NEW t \in Tasks, EnterMaintenance(t)
    PROVE  GateIInv'
<1> USE DEF GateIInv
<1>1. pc[t] = "idle"
  BY DEF EnterMaintenance, LeaseIsOwn
<1>2. CASE MaintenanceMayEnter /\ TakeMaintenance(t)
           /\ UNCHANGED maintenanceWaiters
  BY <1>1, <1>2, TakeMaintenancePreserves DEF EnterMaintenance
<1>3. CASE /\ ~MaintenanceMayEnter
           /\ Sleep(t, "waitMaintenance")
           /\ maintenanceWaiters' = maintenanceWaiters + 1
           /\ UNCHANGED <<activeCount, maintenanceActive>>
  <2>1. pc' = [pc EXCEPT ![t] = "waitMaintenance"] /\ "waitMaintenance" \in PC
    BY <1>3 DEF Sleep, PC
  <2>2. \A place : place \notin {"idle", "waitMaintenance"} =>
                       At(place)' = At(place)
    BY <1>1, <2>1, UnmovedSets
  <2>3. GateTypeOK'
    BY <1>3, <2>1 DEF Sleep, EnterMaintenance, GateTypeOK, context
  <2>4. ForeignInheritance' /\ LeaseIsOwn'
    BY <1>1, <1>3, <2>1
    DEF Sleep, context, GateTypeOK, ForeignInheritance, LeaseIsOwn, HoldsLease
  <2>5. CountersAgree'
    <3>1. Cardinality(At("waitMaintenance")') =
              Cardinality(At("waitMaintenance")) + 1
      BY <1>1, <2>1, MovedCounts
    <3> QED
      BY <1>3, <2>2, <3>1 DEF CountersAgree
  <2>6. MaintenanceExclusive'
    BY <2>2 DEF MaintenanceExclusive
  <2>7. NoLostWakeup'
    <3>1. ~ActivityMayEnter' /\ ~MaintenanceMayEnter'
      BY <1>3 DEF ActivityMayEnter, MaintenanceMayEnter, GateTypeOK
    <3> QED
      BY <3>1 DEF NoLostWakeup
  <2> QED
    BY <2>3, <2>4, <2>5, <2>6, <2>7
<1> QED
  BY <1>2, <1>3 DEF EnterMaintenance

LEMMA WakeMaintenancePreserves ==
    ASSUME GateIInv, NEW t \in Tasks, WakeMaintenance(t)
    PROVE  GateIInv'
<1> USE DEF GateIInv
<1>1. CASE /\ MaintenanceMayEnter
           /\ TakeMaintenance(t)
           /\ maintenanceWaiters' = maintenanceWaiters - 1
  BY <1>1, TakeMaintenancePreserves DEF WakeMaintenance
<1>2. CASE ~MaintenanceMayEnter /\ UNCHANGED <<pc, context, counters>>
  <2>1. \A place : At(place)' = At(place)
    BY <1>2, StillSets
  <2>2. t \notin At("waitActivity")
    BY DEF WakeMaintenance, At
  <2>3. NoLostWakeup'
    BY <1>2, <2>1, <2>2
    DEF WakeMaintenance, NoLostWakeup, ActivityMayEnter, MaintenanceMayEnter,
        counters
  <2> QED
    BY <1>2, <2>1, <2>3
    DEF WakeMaintenance, GateTypeOK, ForeignInheritance, LeaseIsOwn, HoldsLease,
        CountersAgree, MaintenanceExclusive, context, counters
<1> QED
  BY <1>1, <1>2 DEF WakeMaintenance

LEMMA CancelMaintenanceWaitPreserves ==
    ASSUME GateIInv, NEW t \in Tasks, CancelMaintenanceWait(t)
    PROVE  GateIInv'
<1> USE DEF GateIInv
<1>1. /\ pc[t] = "waitMaintenance"
      /\ pc' = [pc EXCEPT ![t] = "idle"]
      /\ "idle" \in PC
  BY DEF CancelMaintenanceWait, PC
<1>2. \A place : place \notin {"idle", "waitMaintenance"} =>
                     At(place)' = At(place)
  BY <1>1, UnmovedSets
<1>3. Cardinality(At("waitMaintenance")') =
          Cardinality(At("waitMaintenance")) - 1
  BY <1>1, MovedCounts
<1>4. maintenanceWaiters - 1 \in Nat
  <2>1. t \in At("waitMaintenance")
    BY <1>1 DEF At
  <2> QED
    BY <2>1, PlaceCount DEF CountersAgree
<1>5. Sleepers \subseteq Tasks
  BY DEF Sleepers, At
<1>6. GateTypeOK'
  BY <1>1, <1>4, <1>5 DEF CancelMaintenanceWait, NotifyAll, GateTypeOK, context
<1>7. ForeignInheritance' /\ LeaseIsOwn'
  BY <1>1
  DEF CancelMaintenanceWait, context, GateTypeOK, ForeignInheritance, LeaseIsOwn,
      HoldsLease
<1>8. CountersAgree' /\ MaintenanceExclusive'
  BY <1>2, <1>3
  DEF CancelMaintenanceWait, CountersAgree, MaintenanceExclusive
<1>9. NoLostWakeup'
  BY <1>1, <1>5, NobodyLeftAsleep DEF CancelMaintenanceWait, NotifyAll
<1> QED
  BY <1>6, <1>7, <1>8, <1>9

LEMMA LeaveMaintenancePreserves ==
    ASSUME GateIInv, NEW t \in Tasks, LeaveMaintenance(t)
    PROVE  GateIInv'
<1> USE DEF GateIInv
<1>1. /\ pc[t] = "maintenance"
      /\ pc' = [pc EXCEPT ![t] = "idle"]
      /\ "idle" \in PC
  BY DEF LeaveMaintenance, PC
<1>2. \A place : place \notin {"idle", "maintenance"} =>
                     At(place)' = At(place)
  BY <1>1, UnmovedSets
<1>3. At("maintenance")' = {}
  <2>1. At("maintenance") = {t}
    BY <1>1 DEF MaintenanceExclusive, At
  <2>2. At("maintenance")' = At("maintenance") \ {t}
    BY <1>1, LeftSets
  <2> QED
    BY <2>1, <2>2
<1>4. Sleepers \subseteq Tasks
  BY DEF Sleepers, At
<1>5. GateTypeOK'
  BY <1>1, <1>4 DEF LeaveMaintenance, NotifyAll, GateTypeOK, context
<1>6. ForeignInheritance' /\ LeaseIsOwn'
  BY <1>1
  DEF LeaveMaintenance, context, GateTypeOK, ForeignInheritance, LeaseIsOwn,
      HoldsLease
<1>7. CountersAgree' /\ MaintenanceExclusive'
  BY <1>2, <1>3 DEF LeaveMaintenance, CountersAgree, MaintenanceExclusive
<1>8. NoLostWakeup'
  BY <1>1, <1>4, NobodyLeftAsleep DEF LeaveMaintenance, NotifyAll
<1> QED
  BY <1>5, <1>6, <1>7, <1>8
-----------------------------------------------------------------------------
LEMMA NextIInv == GateIInv /\ [GateNext]_gateVars => GateIInv'
<1> SUFFICES ASSUME GateIInv, [GateNext]_gateVars PROVE GateIInv'
  OBVIOUS
<1> USE DEF GateIInv
<1>1. CASE UNCHANGED gateVars
  <2>1. \A place : At(place)' = At(place)
    BY <1>1, StillSets DEF gateVars
  <2> QED
    BY <1>1, <2>1
    DEF gateVars, context, counters, GateTypeOK, ForeignInheritance, LeaseIsOwn,
        HoldsLease, CountersAgree, MaintenanceExclusive, NoLostWakeup,
        ActivityMayEnter, MaintenanceMayEnter
<1>2. ASSUME NEW t \in Tasks, SpawnRoot(t) PROVE GateIInv'
  <2>1. [owner |-> None, depth |-> 0] \in Contexts
    BY DepthPositive DEF Contexts
  <2> QED
    BY <1>2, <2>1, NoneIsNoTask, StartPreserves DEF SpawnRoot
<1>3. ASSUME NEW t \in Tasks, NEW u \in Tasks, Spawn(t, u) PROVE GateIInv'
  <2>1. [owner |-> owner[t], depth |-> depth[t]] \in Contexts
    BY DEF GateTypeOK, Contexts
  <2>2. owner[t] # u
    BY <1>3 DEF Spawn, Unreferenced
  <2> QED
    BY <1>3, <2>1, <2>2, StartPreserves DEF Spawn
<1>4. ASSUME NEW t \in Tasks, End(t) PROVE GateIInv'
  BY <1>4, EndPreserves
<1>5. ASSUME NEW t \in Tasks, EnterActivity(t) PROVE GateIInv'
  BY <1>5, EnterActivityPreserves
<1>6. ASSUME NEW t \in Tasks, EnterNested(t) \/ LeaveNested(t) PROVE GateIInv'
  BY <1>6, NestedPreserves
<1>7. ASSUME NEW t \in Tasks, LeaveActivity(t) PROVE GateIInv'
  BY <1>7, LeaveActivityPreserves
<1>8. ASSUME NEW t \in Tasks, WakeActivity(t) PROVE GateIInv'
  BY <1>8, WakeActivityPreserves
<1>9. ASSUME NEW t \in Tasks, CancelActivityWait(t) PROVE GateIInv'
  BY <1>9, CancelActivityWaitPreserves
<1>10. ASSUME NEW t \in Tasks, EnterMaintenance(t) PROVE GateIInv'
  BY <1>10, EnterMaintenancePreserves
<1>11. ASSUME NEW t \in Tasks, WakeMaintenance(t) PROVE GateIInv'
  BY <1>11, WakeMaintenancePreserves
<1>12. ASSUME NEW t \in Tasks, CancelMaintenanceWait(t) PROVE GateIInv'
  BY <1>12, CancelMaintenanceWaitPreserves
<1>13. ASSUME NEW t \in Tasks, LeaveMaintenance(t) PROVE GateIInv'
  BY <1>13, LeaveMaintenancePreserves
<1> QED
  BY <1>1, <1>2, <1>3, <1>4, <1>5, <1>6, <1>7, <1>8, <1>9, <1>10, <1>11,
     <1>12, <1>13 DEF GateNext

\* The inductive invariant holds of every behaviour.
THEOREM GateInvariant == GateSpec => []GateIInv
BY InitIInv, NextIInv, PTL DEF GateSpec

\* The counters, flags and context variables keep their types; in particular
\* no decrement ever takes a counter below zero.
THEOREM GateTypeCorrect == GateSpec => []GateTypeOK
<1>1. GateIInv => GateTypeOK
  BY DEF GateIInv
<1> QED
  BY <1>1, GateInvariant, PTL

\* Maintenance never runs beside activity or beside other maintenance.
THEOREM Exclusion == GateSpec => []MaintenanceExclusive
<1>1. GateIInv => MaintenanceExclusive
  BY DEF GateIInv
<1> QED
  BY <1>1, GateInvariant, PTL

\* active_count and the maintenance counters never drift from the tasks that
\* hold or await a lease.
THEOREM Accounting == GateSpec => []CountersAgree
<1>1. GateIInv => CountersAgree
  BY DEF GateIInv
<1> QED
  BY <1>1, GateInvariant, PTL

\* A task re-enters the gate exactly while it holds a lease of its own.
THEOREM OwnLease == GateSpec => []LeaseIsOwn
<1>1. GateIInv => LeaseIsOwn
  BY DEF GateIInv
<1> QED
  BY <1>1, GateInvariant, PTL

\* No sleeper is left behind by a change that opens the gate for it.
THEOREM Wakeups == GateSpec => []NoLostWakeup
<1>1. GateIInv => NoLostWakeup
  BY DEF GateIInv
<1> QED
  BY <1>1, GateInvariant, PTL
-----------------------------------------------------------------------------
LEMMA StepRefines ==
    ASSUME GateIInv, [GateNext]_gateVars
    PROVE  [Leases!Next]_(Leases!leaseVars)
<1> USE DEF GateIInv
<1> DEFINE A == At("activity")
           M == At("maintenance")
           W == At("waitMaintenance")
<1>a. ASSUME A' = A, M' = M, W' = W
      PROVE  [Leases!Next]_(Leases!leaseVars)
  BY <1>a DEF Leases!leaseVars
<1>1. CASE UNCHANGED gateVars
  BY <1>1, <1>a, StillSets DEF gateVars
<1>2. ASSUME NEW t \in Tasks, SpawnRoot(t) PROVE A' = A /\ M' = M /\ W' = W
  BY <1>2, UnmovedSets DEF SpawnRoot, Start, PC
<1>3. ASSUME NEW t \in Tasks, NEW u \in Tasks, Spawn(t, u)
      PROVE  A' = A /\ M' = M /\ W' = W
  BY <1>3, UnmovedSets DEF Spawn, Start, PC
<1>4. ASSUME NEW t \in Tasks, End(t) PROVE A' = A /\ M' = M /\ W' = W
  BY <1>4, UnmovedSets DEF End, PC
<1>5. ASSUME NEW t \in Tasks, EnterNested(t) \/ LeaveNested(t)
      PROVE  A' = A /\ M' = M /\ W' = W
  BY <1>5, StillSets DEF EnterNested, LeaveNested
<1>6. ASSUME NEW t \in Tasks, pc[t] \in {"idle", "waitActivity"},
             ActivityMayEnter, TakeActivity(t)
      PROVE  Leases!Share(t)
  <2>1. pc' = [pc EXCEPT ![t] = "activity"] /\ "activity" \in PC
    BY <1>6 DEF TakeActivity, PC
  <2>2. A' = A \union {t}
    BY <2>1, JoinedSets
  <2>3. M' = M /\ W' = W
    BY <1>6, <2>1, UnmovedSets
  <2>4. t \notin A
    BY <1>6 DEF At
  <2>5. M = {} /\ W = {}
    BY <1>6, PlaceCount DEF ActivityMayEnter, CountersAgree
  <2> QED
    BY <2>2, <2>3, <2>4, <2>5 DEF Leases!Share
<1>7. ASSUME NEW t \in Tasks, pc[t] \in {"idle", "waitMaintenance"},
             MaintenanceMayEnter, TakeMaintenance(t)
      PROVE  Leases!Exclude(t)
  <2>1. pc' = [pc EXCEPT ![t] = "maintenance"] /\ "maintenance" \in PC
    BY <1>7 DEF TakeMaintenance, PC
  <2>2. A = {} /\ M = {}
    BY <1>7, PlaceCount DEF MaintenanceMayEnter, CountersAgree
  <2>3. M' = M \union {t}
    BY <2>1, JoinedSets
  <2>4. W' = W \ {t}
    BY <2>1, LeftSets
  <2>5. A' = A
    BY <1>7, <2>1, UnmovedSets
  <2> QED
    BY <2>2, <2>3, <2>4, <2>5 DEF Leases!Exclude
<1>8. ASSUME NEW t \in Tasks, EnterActivity(t)
      PROVE  Leases!Share(t) \/ (A' = A /\ M' = M /\ W' = W)
  <2>1. pc[t] = "idle"
    BY <1>8 DEF EnterActivity, LeaseIsOwn
  <2>2. CASE Sleep(t, "waitActivity")
    BY <2>1, <2>2, UnmovedSets DEF Sleep, PC
  <2> QED
    BY <1>6, <1>8, <2>1, <2>2 DEF EnterActivity
<1>9. ASSUME NEW t \in Tasks, WakeActivity(t)
      PROVE  Leases!Share(t) \/ (A' = A /\ M' = M /\ W' = W)
  BY <1>6, <1>9, StillSets DEF WakeActivity
<1>10. ASSUME NEW t \in Tasks, CancelActivityWait(t)
       PROVE  A' = A /\ M' = M /\ W' = W
  BY <1>10, UnmovedSets DEF CancelActivityWait, PC
<1>11. ASSUME NEW t \in Tasks, EnterMaintenance(t)
       PROVE  Leases!Exclude(t) \/ Leases!Claim(t)
  <2>1. pc[t] = "idle"
    BY <1>11 DEF EnterMaintenance, LeaseIsOwn
  <2>2. CASE Sleep(t, "waitMaintenance")
    <3>1. A' = A /\ M' = M
      BY <2>1, <2>2, UnmovedSets DEF Sleep, PC
    <3>2. W' = W \union {t}
      BY <2>2, JoinedSets DEF Sleep, PC
    <3>3. t \notin A \union M \union W
      BY <2>1 DEF At
    <3> QED
      BY <3>1, <3>2, <3>3 DEF Leases!Claim
  <2> QED
    BY <1>7, <1>11, <2>1, <2>2 DEF EnterMaintenance
<1>12. ASSUME NEW t \in Tasks, WakeMaintenance(t)
       PROVE  Leases!Exclude(t) \/ (A' = A /\ M' = M /\ W' = W)
  BY <1>7, <1>12, StillSets DEF WakeMaintenance
<1>13. ASSUME NEW t \in Tasks, CancelMaintenanceWait(t)
       PROVE  Leases!GiveUp(t)
  <2>1. /\ pc[t] = "waitMaintenance"
        /\ pc' = [pc EXCEPT ![t] = "idle"]
        /\ "idle" \in PC
    BY <1>13 DEF CancelMaintenanceWait, PC
  <2>2. A' = A /\ M' = M
    BY <2>1, UnmovedSets
  <2>3. W' = W \ {t}
    BY <2>1, LeftSets
  <2>4. t \in W
    BY <2>1 DEF At
  <2> QED
    BY <2>2, <2>3, <2>4 DEF Leases!GiveUp
<1>14. ASSUME NEW t \in Tasks, LeaveActivity(t) \/ LeaveMaintenance(t)
       PROVE  Leases!Release(t)
  <2>1. /\ pc[t] \in {"activity", "maintenance"}
        /\ pc' = [pc EXCEPT ![t] = "idle"]
        /\ "idle" \in PC
    BY <1>14 DEF LeaveActivity, LeaveMaintenance, PC
  <2>2. A' = A \ {t} /\ M' = M \ {t}
    BY <2>1, LeftSets
  <2>3. W' = W
    BY <2>1, UnmovedSets
  <2>4. t \in A \union M
    BY <2>1 DEF At
  <2> QED
    BY <2>2, <2>3, <2>4 DEF Leases!Release
<1> HIDE DEF A, M, W
<1>15. ASSUME NEW t \in Tasks,
              \/ Leases!Share(t) \/ Leases!Exclude(t) \/ Leases!Claim(t)
              \/ Leases!GiveUp(t) \/ Leases!Release(t)
       PROVE  [Leases!Next]_(Leases!leaseVars)
  BY <1>15 DEF Leases!Next
<1> QED
  BY <1>a, <1>1, <1>2, <1>3, <1>4, <1>5, <1>8, <1>9, <1>10, <1>11, <1>12,
     <1>13, <1>14, <1>15 DEF GateNext

\* The gate implements the lease contract for every set of tasks.
THEOREM GateRefinesLease == GateSpec => ImplementsLease
<1>1. GateInit => Leases!Init
  BY DEF GateInit, Leases!Init, At
<1>2. GateIInv /\ [GateNext]_gateVars => [Leases!Next]_(Leases!leaseVars)
  BY StepRefines
<1> QED
  BY <1>1, <1>2, GateInvariant, PTL DEF GateSpec, ImplementsLease, Leases!Spec

-----------------------------------------------------------------------------
(* Paths and inspections.                                                  *)

\* Jobs share no path, and a job's paths differ.
LEMMA PathsDiffer ==
    ASSUME NEW i \in Jobs, NEW j \in Jobs
    PROVE  /\ i # j => JobPaths(i) \intersect JobPaths(j) = {}
           /\ Sending(i) \in JobPaths(i) /\ SessionRoot(i) \in JobPaths(i)
           /\ Outbox(i) \in JobPaths(i) /\ JobPaths(i) \subseteq Paths
           /\ Sending(i) # SessionRoot(j) /\ Sending(i) # Outbox(j)
           /\ SessionRoot(i) # Outbox(j)
BY JobPathsType DEF JobPaths, Sending, SessionRoot, Outbox

\* The resources are all that the directives name, or the lone file instead of
\* a single wrong name.
Whole(directives, resources) ==
    /\ directives.refused = 0
    /\ \/ directives.named \subseteq resources
       \/ Cardinality(directives.named) = 1 /\ Cardinality(resources) = 1

\* An inspection resolves all that is named, or tells what is missing.
LEMMA InspectionTells ==
    ASSUME NEW j \in Jobs, NEW d \in Directives, NEW present \in SUBSET Artifacts,
           NEW i \in Inspections(j, d, present)
    PROVE  /\ i.staged \subseteq Artifacts /\ i.missing \subseteq Artifacts /\ i.bad \in BOOLEAN
           /\ Resolved(i) => Whole(d, i.staged)
           /\ ~Resolved(i) /\ ~i.bad =>
                  d.refused = 0 /\ d.named \subseteq i.staged \union i.missing
<1>1. /\ d.named \subseteq Artifacts /\ d.refused \in 0..1 /\ IsFiniteSet(d.named)
      /\ Cardinality(d.named) \in Nat
      /\ Cardinality(d.named) = 0 <=> d.named = {}
  <2>1. d.named \subseteq Artifacts /\ d.refused \in 0..1
    BY DEF Directives
  <2>2. IsFiniteSet(d.named)
    BY <2>1, JobsType, FS_Subset
  <2> QED
    BY <2>1, <2>2, FS_CardinalityType, FS_EmptySet
<1>2. CASE Outbox(j) \notin disk
  <2> DEFINE some == Attempted(d) > 0
  <2>1. i = [staged |-> {}, missing |-> {}, bad |-> some]
    BY <1>2 DEF Inspections
  <2>2. /\ some \in BOOLEAN
        /\ ~some => d.named = {} /\ d.refused = 0
    BY <1>1 DEF Attempted
  <2> HIDE DEF some
  <2>3. i.staged = {} /\ i.missing = {} /\ i.bad = some
    BY <2>1
  <2> QED
    BY <2>2, <2>3 DEF Resolved, Whole
<1>3. CASE i \in Staging(d, present)
  <2> DEFINE some == d.refused > 0
  <2>1. PICK s \in SUBSET (d.named \intersect present) :
               i = [staged |-> s, missing |-> d.named \ s, bad |-> some]
    BY <1>3 DEF Staging
  <2>2. /\ some \in BOOLEAN
        /\ ~some => d.refused = 0
    BY <1>1
  <2> HIDE DEF some
  <2>3. i.staged = s /\ i.missing = d.named \ s /\ i.bad = some
    BY <2>1
  <2> QED
    BY <1>1, <2>2, <2>3 DEF Resolved, Whole
<1>4. CASE /\ Alone(d, present)
           /\ i \in {[staged |-> present, missing |-> {}, bad |-> FALSE],
                     [staged |-> {}, missing |-> d.named \union present, bad |-> FALSE]}
  <2>1. /\ d.refused = 0 /\ Cardinality(present) = 1
        /\ d.named = {} \/ Cardinality(d.named) = 1
    BY <1>1, <1>4, FS_EmptySet DEF Alone
  <2>2. CASE i = [staged |-> present, missing |-> {}, bad |-> FALSE]
    BY <1>1, <2>1, <2>2 DEF Resolved, Whole
  <2>3. CASE i = [staged |-> {}, missing |-> d.named \union present, bad |-> FALSE]
    <3>1. present # {}
      BY <2>1, FS_EmptySet
    <3> QED
      BY <1>1, <2>1, <2>3, <3>1 DEF Resolved, Whole
  <2> QED
    BY <1>4, <2>2, <2>3
<1> QED
  BY <1>2, <1>3, <1>4 DEF Inspections, Discovery

-----------------------------------------------------------------------------
(* The invariant.                                                          *)

\* The pass runs in its thread exactly while the loop waits for it, inside the
\* lease, and only a thread that deletes has chosen a candidate.
PassIsHeld ==
    /\ loop \in {"work", "unwind"} <=> worker # "off"
    /\ worker # "off" => leases = {}
    /\ loop = "unwind" => ~started
    /\ worker # "delete" => doomed = {}

\* The phases of a job.
Phase(j) ==
    /\ launch[j] = "launched" <=> reply[j] # "none"
    /\ reply[j] = "none" => run[j] = "none"
    /\ run[j] \in {"queued", "running"} => reply[j] = "await"
    /\ j \in session => reply[j] \notin {"none", "ended"}

\* What the reply still needs is there, protected and not about to go.
Kept(j) ==
    /\ Sending(j) \in disk => launch[j] = "launched"
    /\ Sending(j) \in doomed => Sending(j) \in disk
    /\ launch[j] \in {"ready", "launched", "abandoned"} /\ reply[j] # "ended"
           => Sending(j) \in protected \ doomed
    /\ j \in session => SessionRoot(j) \in (disk \intersect protected) \ doomed
    /\ reply[j] = "repair" /\ staged[j] # {} => Sending(j) \in disk
    /\ reply[j] = "send" /\ outgoing[j] # {} => Sending(j) \in disk

\* The resources of a reply: to be sent, sent, or failed.
Parcel(j) == outgoing[j] \union sent[j] \union unsent[j]

\* What was resolved is all the agent named, or nothing is sent.
Packed(j) ==
    /\ reply[j] \in {"none", "await"} => j \notin bad
    /\ reply[j] \in {"none", "await", "repair"} => Parcel(j) = {}
    /\ reply[j] = "repair" /\ j \notin bad =>
           answer[j].refused = 0 /\ answer[j].named \subseteq staged[j] \union missing[j]
    /\ Parcel(j) # {} => Whole(answer[j], Parcel(j))
    /\ reply[j] = "text" => outgoing[j] = {}

\* What a reply may claim.
Told(j) ==
    /\ reply[j] \in {"send", "text"} /\ j \notin tainted =>
           run[j] = "ok" /\ j \in verified /\ unsent[j] = {}
    /\ outcome[j] = "succeeded" =>
           /\ reply[j] \in {"text", "ended"}
           /\ outgoing[j] = {} /\ unsent[j] = {} /\ sent[j] # {}
    /\ j \in committed =>
           /\ reply[j] = "ended" /\ run[j] = "ok" /\ j \in verified
           /\ outgoing[j] = {} /\ unsent[j] = {} /\ Delivered(j)

Fine(j) == Phase(j) /\ Kept(j) /\ Packed(j) /\ Told(j)
IInv == TypeOK /\ PassIsHeld /\ \A j \in Jobs : Fine(j)

-----------------------------------------------------------------------------
(* What a step leaves alone.                                               *)

SameJob(i) ==
    /\ launch'[i] = launch[i] /\ run'[i] = run[i] /\ answer'[i] = answer[i]
    /\ reply'[i] = reply[i] /\ staged'[i] = staged[i] /\ missing'[i] = missing[i]
    /\ outgoing'[i] = outgoing[i] /\ sent'[i] = sent[i] /\ unsent'[i] = unsent[i]
    /\ chunks'[i] = chunks[i] /\ outcome'[i] = outcome[i]
    /\ i \in session' <=> i \in session
    /\ i \in bad' <=> i \in bad
    /\ i \in verified' <=> i \in verified
    /\ i \in tainted' <=> i \in tainted
    /\ i \in committed' <=> i \in committed

SamePaths(i) ==
    /\ Sending(i) \in disk' <=> Sending(i) \in disk
    /\ \A p \in {Sending(i), SessionRoot(i)} :
          /\ p \in doomed' => p \in doomed
          /\ p \in protected => p \in protected'
    /\ SessionRoot(i) \in disk => SessionRoot(i) \in disk'

LEMMA JobFrame ==
    ASSUME NEW i \in Jobs, Fine(i), SameJob(i)
    PROVE  /\ Phase(i)' /\ Packed(i)' /\ Told(i)'
           /\ SamePaths(i) => Fine(i)'
<1>1. Phase(i) /\ Kept(i) /\ Packed(i) /\ Told(i)
  BY DEF Fine
<1>2. Phase(i)'
  BY <1>1 DEF SameJob, Phase
<1>3. Packed(i)'
  BY <1>1 DEF SameJob, Packed, Parcel
<1>4. Told(i)'
  BY <1>1 DEF SameJob, Told, Delivered
<1>5. ASSUME SamePaths(i)
      PROVE  Kept(i)'
  <2>1. UNCHANGED <<Sending(i), SessionRoot(i)>>
    BY DEF Sending, SessionRoot
  <2> QED
    BY <1>1, <1>5, <2>1 DEF SameJob, SamePaths, Kept
<1> QED
  BY <1>2, <1>3, <1>4, <1>5 DEF Fine

\* A step of a job.
LEMMA JobStep ==
    ASSUME IInv, TypeOK', PassIsHeld', NEW j \in Jobs, Fine(j)',
           \A i \in Jobs \ {j} : SameJob(i) /\ SamePaths(i)
    PROVE  IInv'
BY JobFrame DEF IInv

\* A step that leaves the jobs alone.
LEMMA OtherStep ==
    ASSUME IInv, TypeOK', PassIsHeld', \A i \in Jobs : SameJob(i) /\ SamePaths(i)
    PROVE  IInv'
BY JobFrame DEF IInv

LEMMA NothingMoves ==
    ASSUME NEW i \in Jobs
    PROVE  /\ UNCHANGED <<agent, reply, resolution, delivery>> => SameJob(i)
           /\ UNCHANGED <<files, thread>> => SamePaths(i)
BY DEF SameJob, SamePaths, agent, resolution, delivery, files, thread, Sending, SessionRoot

-----------------------------------------------------------------------------
(* Steps of maintenance.                                                   *)

LEMMA ThreadKeeps ==
    ASSUME IInv, Thread
    PROVE  IInv'
<1>1. MaintenanceTypeOK /\ PassIsHeld /\ \A i \in Jobs : Fine(i)
  BY DEF IInv, TypeOK
<1>2. UNCHANGED <<agent, reply, repair, resolution, delivery, closing>> /\ ThreadStep
  BY DEF Thread
<1>3. /\ UNCHANGED <<protected, leases, loop, trigger, wake, pressure, enabled, started, reloads>>
      /\ worker # "off" /\ worker' # "off"
      /\ worker' \in {"delete", "done"} /\ (worker' # "delete" => doomed' = {})
      /\ inventory' \in {inventory, {}, Listed} \/ inventory' \subseteq inventory
      /\ doomed' \in {doomed, {}} \/ \E p \in Paths : doomed' = {p} \intersect Listed
      /\ disk' \in {disk, disk \ doomed}
      /\ disk' # disk => doomed' = {}
      /\ cancelled' = cancelled
  BY <1>1, <1>2 DEF ThreadStep, Scan, Choose, Unlink, PassEnds, files, control, setting, thread,
     PassIsHeld
<1>4. MaintenanceTypeOK'
  <2>1. Listed \subseteq Paths
    BY <1>1 DEF MaintenanceTypeOK, Listed
  <2>2. ASSUME NEW p \in Paths
        PROVE  Cardinality({p} \intersect Listed) =< 1
    <3>1. Cardinality({}) = 0 /\ Cardinality({p}) = 1
      BY FS_EmptySet, FS_Singleton
    <3>2. {p} \intersect Listed = {} \/ {p} \intersect Listed = {p}
      OBVIOUS
    <3>3. CASE {p} \intersect Listed = {}
      BY <3>1, <3>3
    <3>4. CASE {p} \intersect Listed = {p}
      BY <3>1, <3>4
    <3> QED
      BY <3>2, <3>3, <3>4
  <2>3. doomed' \subseteq Paths /\ Cardinality(doomed') =< 1
    BY <1>1, <1>3, <2>1, <2>2, FS_EmptySet DEF MaintenanceTypeOK
  <2> QED
    BY <1>1, <1>3, <2>1, <2>3 DEF MaintenanceTypeOK
<1>5. PassIsHeld'
  BY <1>1, <1>3 DEF PassIsHeld
<1>6. ASSUME NEW i \in Jobs
      PROVE  Fine(i)'
  <2>1. SameJob(i) /\ Fine(i) /\ Kept(i)
    BY <1>1, <1>2, NothingMoves DEF Fine
  <2>2. UNCHANGED <<Sending(i), SessionRoot(i)>>
    BY DEF Sending, SessionRoot
  <2>3. \A p \in doomed' : p \in doomed \/ p \in disk \ protected
    BY <1>3 DEF Listed, IsProtected
  <2>4. \A p \in {Sending(i), SessionRoot(i)} : p \in protected => (p \in doomed' => p \in doomed)
    BY <2>3
  <2>5. Kept(i)'
    <3>1. CASE disk' = disk
      BY <1>3, <2>1, <2>2, <2>3, <3>1 DEF Kept, SameJob
    <3>2. CASE disk' # disk
      BY <1>3, <2>1, <2>2, <3>2 DEF Kept, SameJob
    <3> QED
      BY <3>1, <3>2
  <2> QED
    BY <2>1, <2>5, JobFrame DEF Fine
<1>7. TypeOK'
  BY <1>2, <1>4 DEF IInv, TypeOK, agent, resolution, delivery
<1> QED
  BY <1>5, <1>6, <1>7 DEF IInv

\* The loop moves; the files and the thread's candidates stay.
LoopMoves ==
    /\ UNCHANGED <<disk, protected, leases, inventory, doomed>>
    /\ loop' \in {"off", "wait", "gate", "work", "unwind"}
    /\ trigger' \in {"none", "startup", "periodic", "pressure"}
    /\ wake' \in BOOLEAN /\ pressure' \in BOOLEAN /\ enabled' \in BOOLEAN
    /\ started' \in BOOLEAN /\ cancelled' \in BOOLEAN
    /\ worker' \in {"off", "scan", "delete", "done"}
    /\ reloads' \in 0..MaxReloads

LEMMA MaintenanceKeeps ==
    ASSUME IInv, UNCHANGED <<agent, reply, repair, resolution, delivery>>,
           closing' \in {"no", "replies", "repairs", "maintenance", "closed"},
           MaintenanceStep \/ StopMaintenance
    PROVE  IInv'
<1>1. MaintenanceTypeOK /\ PassIsHeld
  BY DEF IInv, TypeOK
<1>2. LoopMoves
  <2> USE DEF LoopMoves
  <2>1. CASE EnterGate
    BY <1>1, <2>1 DEF EnterGate, files, setting, MaintenanceTypeOK
  <2>2. CASE WorkDone
    BY <1>1, <2>2 DEF WorkDone, files, setting, MaintenanceTypeOK
  <2>3. CASE TimerFires
    BY <1>1, <2>3 DEF TimerFires, files, setting, thread, MaintenanceTypeOK
  <2>4. CASE Woken
    BY <1>1, <2>4 DEF Woken, ServeRequest, files, setting, thread, MaintenanceTypeOK
  <2>5. ASSUME NEW on \in BOOLEAN, ReloadStorage(on)
        PROVE  LoopMoves
    BY <1>1, <2>5, RoomType DEF ReloadStorage, files, thread, MaintenanceTypeOK
  <2>6. CASE StopMaintenance
    BY <1>1, <2>6 DEF StopMaintenance, AwaitThread, files, MaintenanceTypeOK
  <2> QED
    BY <2>1, <2>2, <2>3, <2>4, <2>5, <2>6 DEF MaintenanceStep
<1>3. PassIsHeld'
  <2> USE DEF LoopMoves
  <2>1. CASE EnterGate
    BY <1>1, <1>2, <2>1 DEF EnterGate, files, setting, PassIsHeld
  <2>2. CASE WorkDone
    BY <1>1, <1>2, <2>2 DEF WorkDone, files, setting, PassIsHeld
  <2>3. CASE TimerFires
    BY <1>1, <1>2, <2>3 DEF TimerFires, files, setting, thread, PassIsHeld
  <2>4. CASE Woken
    BY <1>1, <1>2, <2>4 DEF Woken, ServeRequest, files, setting, thread, PassIsHeld
  <2>5. ASSUME NEW on \in BOOLEAN, ReloadStorage(on)
        PROVE  PassIsHeld'
    BY <1>1, <1>2, <2>5 DEF ReloadStorage, files, thread, PassIsHeld
  <2>6. CASE StopMaintenance
    BY <1>1, <1>2, <2>6 DEF StopMaintenance, AwaitThread, files, PassIsHeld
  <2> QED
    BY <2>1, <2>2, <2>3, <2>4, <2>5, <2>6 DEF MaintenanceStep
<1>4. TypeOK'
  <2>1. MaintenanceTypeOK'
    BY <1>1, <1>2 DEF MaintenanceTypeOK, LoopMoves
  <2> QED
    BY <2>1 DEF IInv, TypeOK, agent, resolution, delivery
<1>5. ASSUME NEW i \in Jobs
      PROVE  SameJob(i) /\ SamePaths(i)
  BY <1>2, NothingMoves DEF LoopMoves, SamePaths, Sending, SessionRoot
<1> QED
  BY <1>3, <1>4, <1>5, OtherStep

-----------------------------------------------------------------------------
(* Steps of a job.                                                         *)

\* A path of one job is none of another's.
LEMMA OthersPath ==
    ASSUME NEW j \in Jobs, NEW i \in Jobs \ {j}, NEW p \in JobPaths(j)
    PROVE  p # Sending(i) /\ p # SessionRoot(i)
BY PathsDiffer

LEMMA MakeOutboxKeeps ==
    ASSUME IInv, NEW j \in Jobs, MakeOutbox(j)
    PROVE  IInv'
<1>1. TypeOK /\ PassIsHeld /\ Fine(j)
  BY DEF IInv
<1>2. /\ launch[j] = "none" /\ launch' = [launch EXCEPT ![j] = "making"]
      /\ disk' = disk \union {Outbox(j)}
      /\ UNCHANGED <<protected, leases, control, setting, thread, run, session,
                     answer, made, reply, repair, resolution, delivery, closing>>
  BY DEF MakeOutbox
<1>3. Outbox(j) \in Paths
  BY PathsDiffer
<1>4. TypeOK'
  BY <1>1, <1>2, <1>3 DEF TypeOK, MaintenanceTypeOK, control, setting, thread, resolution, delivery
<1>5. PassIsHeld'
  BY <1>1, <1>2 DEF PassIsHeld, control, setting, thread
<1>6. ASSUME NEW i \in Jobs \ {j}
      PROVE  SameJob(i) /\ SamePaths(i)
  BY <1>1, <1>2, PathsDiffer DEF TypeOK, SameJob, SamePaths, resolution, delivery, thread,
     Sending, SessionRoot, Outbox
<1>7. Fine(j)'
  <2>1. launch'[j] = "making"
    BY <1>1, <1>2 DEF TypeOK
  <2>2. Phase(j)'
    BY <1>1, <1>2, <2>1 DEF Fine, Phase
  <2>3. Kept(j)'
    BY <1>1, <1>2, <2>1, PathsDiffer DEF Fine, Kept, resolution, delivery, thread,
       Sending, SessionRoot, Outbox
  <2>4. Packed(j)'
    BY <1>1, <1>2 DEF Fine, Packed, Parcel, resolution, delivery
  <2>5. Told(j)'
    BY <1>1, <1>2 DEF Fine, Told, Delivered, resolution, delivery
  <2> QED
    BY <2>2, <2>3, <2>4, <2>5 DEF Fine
<1> QED
  BY <1>4, <1>5, <1>6, <1>7, JobStep

LEMMA ProtectKeeps ==
    ASSUME IInv, NEW j \in Jobs, Protect(j)
    PROVE  IInv'
<1>1. TypeOK /\ PassIsHeld /\ Fine(j)
  BY DEF IInv
<1>2. /\ launch[j] = "making" /\ launch' = [launch EXCEPT ![j] = "ready"]
      /\ protected' = protected \union {Outbox(j), Sending(j)}
      /\ UNCHANGED <<disk, leases, control, setting, thread, run, session,
                     answer, made, reply, repair, resolution, delivery, closing>>
  BY DEF Protect, ProtectedForJob
<1>3. Outbox(j) \in Paths /\ Sending(j) \in Paths
  BY PathsDiffer
<1>4. TypeOK'
  BY <1>1, <1>2, <1>3 DEF TypeOK, MaintenanceTypeOK, control, setting, thread, resolution, delivery
<1>5. PassIsHeld'
  BY <1>1, <1>2 DEF PassIsHeld, control, setting, thread
<1>6. ASSUME NEW i \in Jobs \ {j}
      PROVE  SameJob(i) /\ SamePaths(i)
  BY <1>1, <1>2 DEF TypeOK, SameJob, SamePaths, resolution, delivery, thread, Sending, SessionRoot
<1>7. Fine(j)'
  <2>1. launch'[j] = "ready"
    BY <1>1, <1>2 DEF TypeOK
  <2>2. Phase(j)'
    BY <1>1, <1>2, <2>1 DEF Fine, Phase
  <2>3. Kept(j)'
    BY <1>1, <1>2, <2>1 DEF Fine, Phase, Kept, resolution, delivery, thread, Sending, SessionRoot
  <2>4. Packed(j)'
    BY <1>1, <1>2 DEF Fine, Packed, Parcel, resolution, delivery
  <2>5. Told(j)'
    BY <1>1, <1>2 DEF Fine, Told, Delivered, resolution, delivery
  <2> QED
    BY <2>2, <2>3, <2>4, <2>5 DEF Fine
<1> QED
  BY <1>4, <1>5, <1>6, <1>7, JobStep

LEMMA LaunchKeeps ==
    ASSUME IInv, NEW j \in Jobs, Launch(j) \/ Abandon(j)
    PROVE  IInv'
<1>1. TypeOK /\ PassIsHeld /\ Fine(j)
  BY DEF IInv
<1>2. /\ launch[j] = "ready" /\ UNCHANGED <<maintenance, session, answer, made, repair, resolution,
                                            delivery, closing>>
      /\ \/ /\ launch' = [launch EXCEPT ![j] = "launched"]
            /\ run' = [run EXCEPT ![j] = "queued"] /\ reply' = [reply EXCEPT ![j] = "await"]
         \/ /\ launch' = [launch EXCEPT ![j] = "abandoned"] /\ run' = run /\ reply' = reply
  BY DEF Launch, Abandon
<1>3. reply[j] = "none" /\ run[j] = "none" /\ j \notin session
  BY <1>1, <1>2 DEF Fine, Phase, TypeOK
<1>4. TypeOK'
  BY <1>1, <1>2 DEF TypeOK, MaintenanceTypeOK, Replies, maintenance, files, control, setting, thread,
     resolution, delivery
<1>5. PassIsHeld'
  BY <1>1, <1>2 DEF PassIsHeld, maintenance, control, setting, thread
<1>6. ASSUME NEW i \in Jobs \ {j}
      PROVE  SameJob(i) /\ SamePaths(i)
  BY <1>1, <1>2 DEF TypeOK, SameJob, SamePaths, maintenance, files, resolution, delivery, thread,
     Sending, SessionRoot
<1>7. Fine(j)'
  <2>1. \/ launch'[j] = "launched" /\ run'[j] = "queued" /\ reply'[j] = "await"
        \/ launch'[j] = "abandoned" /\ run'[j] = "none" /\ reply'[j] = "none"
    BY <1>1, <1>2, <1>3 DEF TypeOK
  <2>2. Phase(j)'
    BY <1>2, <1>3, <2>1 DEF Phase
  <2>3. Kept(j)'
    BY <1>1, <1>2, <1>3, <2>1 DEF Fine, Kept, maintenance, files, thread, resolution, delivery,
       Sending, SessionRoot
  <2>4. Packed(j)'
    BY <1>1, <1>2, <1>3, <2>1 DEF Fine, Packed, Parcel, resolution, delivery
  <2>5. Told(j)'
    BY <1>1, <1>2, <1>3, <2>1 DEF Fine, Told, Delivered, resolution, delivery
  <2> QED
    BY <2>2, <2>3, <2>4, <2>5 DEF Fine
<1> QED
  BY <1>4, <1>5, <1>6, <1>7, JobStep

LEMMA EnterRunKeeps ==
    ASSUME IInv, NEW j \in Jobs, EnterRun(j)
    PROVE  IInv'
<1>1. TypeOK /\ PassIsHeld /\ Fine(j)
  BY DEF IInv
<1>2. /\ run[j] = "queued" /\ JobMayEnter /\ run' = [run EXCEPT ![j] = "running"]
      /\ \/ UNCHANGED <<session, files>>
         \/ /\ session' = session \union {j} /\ disk' = disk \union {SessionRoot(j)}
            /\ protected' = protected \union {SessionRoot(j)}
      /\ UNCHANGED <<control, setting, thread, launch, answer, made, reply, repair, resolution,
                     delivery, closing>>
  BY DEF EnterRun
<1>3. /\ worker = "off" /\ doomed = {}
      /\ reply[j] = "await" /\ launch[j] = "launched"
  BY <1>1, <1>2 DEF Fine, Phase, PassIsHeld, JobMayEnter
<1>4. TypeOK'
  <2>1. SessionRoot(j) \in Paths
    BY PathsDiffer
  <2> QED
    BY <1>1, <1>2, <2>1 DEF TypeOK, MaintenanceTypeOK, files, control, setting, thread, resolution,
       delivery
<1>5. PassIsHeld'
  BY <1>1, <1>2, <1>3 DEF PassIsHeld, control, setting, thread
<1>6. ASSUME NEW i \in Jobs \ {j}
      PROVE  SameJob(i) /\ SamePaths(i)
  BY <1>1, <1>2 DEF TypeOK, SameJob, SamePaths, files, resolution, delivery, thread, Sending,
     SessionRoot
<1>7. Fine(j)'
  <2>1. run'[j] = "running"
    BY <1>1, <1>2 DEF TypeOK
  <2>2. Phase(j)'
    BY <1>2, <1>3, <2>1 DEF Phase
  <2>3. Kept(j)'
    BY <1>1, <1>2, <1>3 DEF Fine, Kept, files, thread, resolution, delivery, Sending, SessionRoot
  <2>4. Packed(j)'
    BY <1>1, <1>2 DEF Fine, Packed, Parcel, resolution, delivery
  <2>5. Told(j)'
    BY <1>1, <1>2, <1>3 DEF Fine, Told, Delivered, resolution, delivery
  <2> QED
    BY <2>2, <2>3, <2>4, <2>5 DEF Fine
<1> QED
  BY <1>4, <1>5, <1>6, <1>7, JobStep

LEMMA RunEndsKeeps ==
    ASSUME IInv, NEW j \in Jobs, RunEnds(j)
    PROVE  IInv'
<1>1. TypeOK /\ PassIsHeld /\ Fine(j)
  BY DEF IInv
<1>2. /\ run[j] \in {"queued", "running"} /\ leases' \subseteq leases
      /\ \E r \in Results : run' = [run EXCEPT ![j] = r]
      /\ \E left \in SUBSET Artifacts : made' \in {made, [made EXCEPT ![j] = left]}
      /\ answer' = answer \/ \E d \in Directives : answer' = [answer EXCEPT ![j] = d]
      /\ UNCHANGED <<files, control, setting, thread, launch, session, reply, repair, resolution,
                     delivery, closing>>
  BY DEF RunEnds
<1>3. reply[j] = "await"
  BY <1>1, <1>2 DEF Fine, Phase
<1>4. TypeOK'
  BY <1>1, <1>2 DEF TypeOK, MaintenanceTypeOK, files, control, setting, thread, resolution, delivery
<1>5. PassIsHeld'
  BY <1>1, <1>2 DEF PassIsHeld, control, setting, thread
<1>6. ASSUME NEW i \in Jobs \ {j}
      PROVE  SameJob(i) /\ SamePaths(i)
  BY <1>1, <1>2 DEF TypeOK, SameJob, SamePaths, files, resolution, delivery, thread, Sending,
     SessionRoot
<1>7. Fine(j)'
  <2>1. run'[j] \in Results
    BY <1>1, <1>2 DEF TypeOK
  <2>2. Phase(j)'
    BY <1>1, <1>2, <1>3, <2>1 DEF Fine, Phase, Results
  <2>3. Kept(j)'
    BY <1>1, <1>2 DEF Fine, Kept, files, thread, resolution, delivery, Sending, SessionRoot
  <2>4. Packed(j)'
    BY <1>1, <1>2, <1>3 DEF Fine, Packed, Parcel, resolution, delivery
  <2>5. Told(j)'
    BY <1>1, <1>2, <1>3 DEF Fine, Told, Delivered, resolution, delivery
  <2> QED
    BY <2>2, <2>3, <2>4, <2>5 DEF Fine
<1> QED
  BY <1>4, <1>5, <1>6, <1>7, JobStep

\* A step of a repair task that only takes or gives back its lease.
LEMMA RepairMovesKeeps ==
    ASSUME IInv, NEW j \in Jobs, StartRepair(j) \/ EnterRepair(j) \/ LateRepairEnds(j)
    PROVE  IInv'
<1>1. TypeOK /\ PassIsHeld
  BY DEF IInv
<1>2. /\ repair' \in [Jobs -> Repairs]
      /\ leases' \subseteq leases \/ JobMayEnter
      /\ UNCHANGED <<files, control, setting, thread, agent, reply, resolution, delivery, closing>>
  BY <1>1 DEF StartRepair, EnterRepair, LateRepairEnds, TypeOK, Repairs, maintenance
<1>3. TypeOK'
  BY <1>1, <1>2 DEF TypeOK, MaintenanceTypeOK, files, control, setting, thread, agent, resolution,
     delivery
<1>4. PassIsHeld'
  BY <1>1, <1>2 DEF PassIsHeld, control, setting, thread, JobMayEnter
<1>5. \A i \in Jobs : SameJob(i) /\ SamePaths(i)
  BY <1>2, NothingMoves
<1> QED
  BY <1>3, <1>4, <1>5, OtherStep

\* A step of the shutdown, or another job's reply.
LEMMA AppMovesKeeps ==
    ASSUME IInv, Shutdown \/ DrainRepairs \/ CloseMemory \/ OtherReplyEnds
    PROVE  IInv'
<1>1. TypeOK /\ PassIsHeld
  BY DEF IInv
<1>2. /\ closing' \in {"no", "replies", "repairs", "maintenance", "closed"}
      /\ leases' = leases \/ loop = "off"
      /\ wake' \in BOOLEAN /\ pressure' \in BOOLEAN
      /\ UNCHANGED <<files, loop, trigger, setting, thread, agent, reply, repair, resolution,
                     delivery>>
  BY <1>1 DEF Shutdown, DrainRepairs, CloseMemory, OtherReplyEnds, RequestPressure, maintenance,
     control, TypeOK, MaintenanceTypeOK
<1>3. TypeOK'
  BY <1>1, <1>2 DEF TypeOK, MaintenanceTypeOK, files, setting, thread, agent, resolution, delivery
<1>4. PassIsHeld'
  BY <1>1, <1>2 DEF PassIsHeld, setting, thread
<1>5. \A i \in Jobs : SameJob(i) /\ SamePaths(i)
  BY <1>2, NothingMoves
<1> QED
  BY <1>3, <1>4, <1>5, OtherStep

-----------------------------------------------------------------------------
(* Inspections.                                                            *)

\* A reply goes on to send what was resolved.
Resolving(j, resources, ok) ==
    /\ reply[j] \in {"await", "repair"} /\ run[j] \notin {"queued", "running"}
    /\ Resolve(j, resources, ok)
    /\ ok => Whole(answer[j], resources)
    /\ resources # {} => Sending(j) \in disk'
    /\ disk' \in {disk, disk \union {Sending(j)}} /\ leases' \subseteq leases
    /\ repair' \in [Jobs -> Repairs] /\ made' \in [Jobs -> SUBSET Artifacts]
    /\ \E found \in SUBSET Artifacts : staged' = [staged EXCEPT ![j] = found]
    /\ \E lost \in SUBSET Artifacts : missing' = [missing EXCEPT ![j] = lost]
    /\ bad' \in {bad, bad \union {j}}
    /\ UNCHANGED <<protected, control, setting, thread, launch, run, session, answer, closing>>

LEMMA ResolveKeeps ==
    ASSUME IInv, NEW j \in Jobs, NEW resources \in SUBSET Artifacts, NEW ok \in BOOLEAN,
           Resolving(j, resources, ok)
    PROVE  IInv'
<1> USE DEF Resolving
<1>1. TypeOK /\ PassIsHeld /\ Fine(j)
  BY DEF IInv
<1>2. /\ verified' = IF ok THEN verified \union {j} ELSE verified
      /\ tainted' = IF ok /\ run[j] = "ok" THEN tainted ELSE tainted \union {j}
      /\ \E o \in {"none", "failed"} : outcome' = [outcome EXCEPT ![j] = o]
      /\ outgoing' = [outgoing EXCEPT ![j] = IF ok THEN resources ELSE {}]
      /\ reply' = [reply EXCEPT ![j] = "send"]
      /\ UNCHANGED <<sent, unsent, chunks, committed>>
  BY DEF Resolve
<1>3. Sending(j) \in Paths
  BY PathsDiffer
<1>4. launch[j] = "launched"
  BY <1>1 DEF Fine, Phase
<1>5. TypeOK'
  <2>1. MaintenanceTypeOK'
    BY <1>1, <1>3 DEF TypeOK, MaintenanceTypeOK, control, setting, thread
  <2>2. /\ verified' \subseteq Jobs /\ tainted' \subseteq Jobs /\ bad' \subseteq Jobs
        /\ outcome' \in [Jobs -> {"none", "failed", "succeeded"}]
        /\ outgoing' \in [Jobs -> SUBSET Artifacts] /\ reply' \in [Jobs -> Replies]
        /\ staged' \in [Jobs -> SUBSET Artifacts] /\ missing' \in [Jobs -> SUBSET Artifacts]
    BY <1>1, <1>2 DEF TypeOK, Replies
  <2> QED
    BY <1>1, <1>2, <2>1, <2>2 DEF TypeOK
<1>6. PassIsHeld'
  BY <1>1 DEF PassIsHeld, control, setting, thread
<1>7. ASSUME NEW i \in Jobs \ {j}
      PROVE  SameJob(i) /\ SamePaths(i)
  <2>1. SameJob(i)
    BY <1>1, <1>2 DEF TypeOK, SameJob
  <2>2. SamePaths(i)
    BY PathsDiffer DEF SamePaths, thread, Sending, SessionRoot
  <2> QED
    BY <2>1, <2>2
<1>8. Fine(j)'
  <2>1. /\ reply'[j] = "send" /\ outgoing'[j] = IF ok THEN resources ELSE {}
        /\ outcome'[j] # "succeeded"
    BY <1>1, <1>2 DEF TypeOK
  <2>2. Phase(j)'
    BY <1>1, <1>4, <2>1 DEF Fine, Phase
  <2>3. Kept(j)'
    BY <1>1, <1>4, <2>1, PathsDiffer DEF Fine, Kept, thread, Sending, SessionRoot
  <2>4. Packed(j)'
    <3>1. sent'[j] = {} /\ unsent'[j] = {} /\ answer'[j] = answer[j]
      BY <1>1, <1>2 DEF Fine, Packed, Parcel
    <3>2. Parcel(j)' = outgoing'[j]
      BY <3>1 DEF Parcel
    <3>3. outgoing'[j] # {} => Whole(answer[j], outgoing'[j])
      BY <2>1
    <3>4. Parcel(j)' # {} => Whole(answer'[j], Parcel(j)')
      BY <3>1, <3>2, <3>3
    <3> QED
      BY <2>1, <3>4 DEF Packed
  <2>5. Told(j)'
    BY <1>1, <1>2, <2>1 DEF Fine, Packed, Parcel, Told
  <2> QED
    BY <2>2, <2>3, <2>4, <2>5 DEF Fine
<1> QED
  BY <1>5, <1>6, <1>7, <1>8, JobStep

\* A directive is not resolved: the reply asks for a repair.
LEMMA AskKeeps ==
    ASSUME IInv, NEW j \in Jobs, reply[j] = "await", run[j] \in {"ok", "error"},
           NEW i \in Inspections(j, answer[j], made[j]), ~Resolved(i),
           staged' = [staged EXCEPT ![j] = i.staged],
           missing' = [missing EXCEPT ![j] = i.missing],
           bad' = (IF i.bad THEN bad \union {j} ELSE bad), Copies(j, i.staged),
           reply' = [reply EXCEPT ![j] = "repair"], outcome' = [outcome EXCEPT ![j] = "failed"],
           UNCHANGED <<verified, tainted, outgoing, sent, unsent, chunks, committed, protected,
                       leases, control, setting, thread, agent, repair, closing>>
    PROVE  IInv'
<1>1. TypeOK /\ PassIsHeld /\ Fine(j)
  BY DEF IInv
<1>2. /\ i.staged \subseteq Artifacts /\ i.missing \subseteq Artifacts
      /\ ~i.bad => answer[j].refused = 0
      /\ ~i.bad => answer[j].named \subseteq i.staged \union i.missing
  <2>1. answer[j] \in Directives /\ made[j] \in SUBSET Artifacts
    BY <1>1 DEF TypeOK
  <2>2. /\ i.staged \subseteq Artifacts /\ i.missing \subseteq Artifacts
        /\ ~i.bad => answer[j].refused = 0
        /\ ~i.bad => answer[j].named \subseteq i.staged \union i.missing
    BY <2>1, InspectionTells
  <2> QED
    BY <2>2
<1>3. /\ disk' \in {disk, disk \union {Sending(j)}}
      /\ i.staged # {} => Sending(j) \in disk'
      /\ Sending(j) \in Paths /\ launch[j] = "launched"
  BY <1>1, PathsDiffer DEF Copies, Fine, Phase
<1>4. TypeOK'
  <2>1. MaintenanceTypeOK'
    BY <1>1, <1>3 DEF TypeOK, MaintenanceTypeOK, control, setting, thread
  <2> QED
    BY <1>1, <1>2, <2>1 DEF TypeOK, Replies, agent
<1>5. PassIsHeld'
  BY <1>1 DEF PassIsHeld, control, setting, thread
<1>6. ASSUME NEW k \in Jobs \ {j}
      PROVE  SameJob(k) /\ SamePaths(k)
  <2>1. SameJob(k)
    BY <1>1 DEF TypeOK, SameJob, agent
  <2>2. SamePaths(k)
    BY <1>3, PathsDiffer DEF SamePaths, thread, Sending, SessionRoot
  <2> QED
    BY <2>1, <2>2
<1>7. Fine(j)'
  <2>1. /\ reply'[j] = "repair" /\ staged'[j] = i.staged /\ missing'[j] = i.missing
        /\ outcome'[j] = "failed" /\ i.bad => j \in bad'
    BY <1>1 DEF TypeOK
  <2>2. Phase(j)'
    BY <1>1, <1>3, <2>1 DEF Fine, Phase, agent
  <2>3. Kept(j)'
    BY <1>1, <1>3, <2>1, PathsDiffer DEF Fine, Kept, thread, agent, Sending, SessionRoot
  <2>4. Packed(j)'
    BY <1>1, <1>2, <2>1 DEF Fine, Packed, Parcel, agent
  <2>5. Told(j)'
    BY <1>1, <2>1 DEF Fine, Told
  <2> QED
    BY <2>2, <2>3, <2>4, <2>5 DEF Fine
<1> QED
  BY <1>4, <1>5, <1>6, <1>7, JobStep

LEMMA InspectKeeps ==
    ASSUME IInv, NEW j \in Jobs, Inspect(j)
    PROVE  IInv'
<1>1. TypeOK
  BY DEF IInv
<1>2. PICK i \in Inspections(j, answer[j], made[j]) :
          /\ staged' = [staged EXCEPT ![j] = i.staged]
          /\ missing' = [missing EXCEPT ![j] = i.missing]
          /\ bad' = IF i.bad THEN bad \union {j} ELSE bad
          /\ Copies(j, i.staged)
          /\ IF Attempted(answer[j]) = 0 \/ Resolved(i)
             THEN Resolve(j, i.staged, Resolved(i))
             ELSE /\ reply' = [reply EXCEPT ![j] = "repair"]
                  /\ outcome' = [outcome EXCEPT ![j] = "failed"]
                  /\ UNCHANGED <<verified, tainted, outgoing, sent, unsent, chunks, committed>>
  BY DEF Inspect
<1>3. /\ reply[j] = "await" /\ run[j] \in {"ok", "error"}
      /\ UNCHANGED <<protected, leases, control, setting, thread, agent, repair, closing>>
  BY DEF Inspect
<1>4. CASE Attempted(answer[j]) = 0 \/ Resolved(i)
  <2>1. /\ i.staged \subseteq Artifacts /\ i.missing \subseteq Artifacts
        /\ Resolved(i) \in BOOLEAN
        /\ Resolved(i) => Whole(answer[j], i.staged)
    <3>1. answer[j] \in Directives /\ made[j] \in SUBSET Artifacts
      BY <1>1 DEF TypeOK
    <3> QED
      BY <3>1, InspectionTells DEF Resolved
  <2>2. Resolve(j, i.staged, Resolved(i))
    BY <1>2, <1>4
  <2>3. /\ disk' \in {disk, disk \union {Sending(j)}}
        /\ i.staged # {} => Sending(j) \in disk'
    BY <1>2 DEF Copies
  <2>4. /\ repair' \in [Jobs -> Repairs] /\ made' \in [Jobs -> SUBSET Artifacts]
        /\ leases' \subseteq leases
        /\ UNCHANGED <<protected, control, setting, thread, launch, run, session, answer, closing>>
    BY <1>1, <1>3 DEF TypeOK, agent
  <2>5. /\ \E found \in SUBSET Artifacts : staged' = [staged EXCEPT ![j] = found]
        /\ \E lost \in SUBSET Artifacts : missing' = [missing EXCEPT ![j] = lost]
    BY <1>2, <2>1
  <2>6. bad' \in {bad, bad \union {j}}
    BY <1>2
  <2>7. reply[j] \in {"await", "repair"} /\ run[j] \notin {"queued", "running"}
    BY <1>3
  <2> DEFINE ok == Resolved(i)
  <2>8. ok \in BOOLEAN /\ (ok => Whole(answer[j], i.staged)) /\ Resolve(j, i.staged, ok)
    BY <2>1, <2>2
  <2> HIDE DEF ok
  <2> QED
    <3>1. Resolving(j, i.staged, ok)
      BY <2>3, <2>4, <2>5, <2>6, <2>7, <2>8 DEF Resolving
    <3> QED
      BY <2>1, <2>8, <3>1, ResolveKeeps
<1>5. CASE ~(Attempted(answer[j]) = 0 \/ Resolved(i))
  BY <1>2, <1>3, <1>5, AskKeeps
<1> QED
  BY <1>4, <1>5

\* The second inspection: the repair brings exactly what was missing.
LEMMA RepairKeeps ==
    ASSUME IInv, NEW j \in Jobs, NEW d \in Directives, NEW present \in SUBSET Artifacts,
           InspectRepair(j, d, present), reply[j] = "repair", leases' \subseteq leases,
           repair' \in [Jobs -> Repairs], made' \in [Jobs -> SUBSET Artifacts],
           UNCHANGED <<protected, control, setting, thread, launch, run, session, answer, closing>>
    PROVE  IInv'
<1>1. TypeOK /\ Fine(j)
  BY DEF IInv
<1>2. PICK i \in Inspections(j, d, present) :
          /\ Copies(j, i.staged)
          /\ Resolve(j, staged[j] \union i.staged, Matches(j, i))
          /\ UNCHANGED <<staged, missing, bad>>
  BY DEF InspectRepair
<1>3. i.staged \subseteq Artifacts
  BY InspectionTells
<1>4. run[j] \notin {"queued", "running"}
  BY <1>1 DEF Fine, Phase
<1>5. /\ disk' \in {disk, disk \union {Sending(j)}}
      /\ staged[j] \union i.staged # {} => Sending(j) \in disk'
  BY <1>1, <1>2 DEF Copies, Fine, Kept
<1>6. /\ Matches(j, i) \in BOOLEAN
      /\ Matches(j, i) => Whole(answer[j], staged[j] \union i.staged)
  BY <1>1 DEF Matches, Whole, Fine, Packed
<1>7. /\ \E found \in SUBSET Artifacts : staged' = [staged EXCEPT ![j] = found]
      /\ \E lost \in SUBSET Artifacts : missing' = [missing EXCEPT ![j] = lost]
      /\ staged[j] \union i.staged \in SUBSET Artifacts
  <2>1. staged[j] \in SUBSET Artifacts /\ missing[j] \in SUBSET Artifacts
    BY <1>1 DEF TypeOK
  <2>2. staged' = [staged EXCEPT ![j] = staged[j]] /\ missing' = [missing EXCEPT ![j] = missing[j]]
    BY <1>1, <1>2 DEF TypeOK
  <2> QED
    BY <1>3, <2>1, <2>2
<1> DEFINE ok == Matches(j, i)
<1>8. /\ ok \in BOOLEAN /\ Resolve(j, staged[j] \union i.staged, ok)
      /\ ok => Whole(answer[j], staged[j] \union i.staged)
  BY <1>2, <1>6
<1>9. bad' \in {bad, bad \union {j}} /\ reply[j] \in {"await", "repair"}
  BY <1>2
<1> HIDE DEF ok
<1> QED
  <2>1. Resolving(j, staged[j] \union i.staged, ok)
    BY <1>4, <1>5, <1>7, <1>8, <1>9 DEF Resolving
  <2> QED
    BY <1>7, <1>8, <2>1, ResolveKeeps

LEMMA RepairEndsKeeps ==
    ASSUME IInv, NEW j \in Jobs, RepairEnds(j) \/ RepairTimeout(j)
    PROVE  IInv'
<1>1. TypeOK
  BY DEF IInv
<1>2. CASE RepairEnds(j)
  <2>1. PICK d \in Directives, extra \in SUBSET Artifacts :
            /\ made' = [made EXCEPT ![j] = @ \union extra]
            /\ InspectRepair(j, d, made[j] \union extra)
    BY <1>2 DEF RepairEnds
  <2>2. made[j] \union extra \in SUBSET Artifacts /\ made' \in [Jobs -> SUBSET Artifacts]
    BY <1>1, <2>1 DEF TypeOK
  <2>3. /\ reply[j] = "repair" /\ leases' \subseteq leases /\ repair' \in [Jobs -> Repairs]
        /\ UNCHANGED <<protected, control, setting, thread, launch, run, session, answer, closing>>
    BY <1>1, <1>2 DEF RepairEnds, TypeOK, Repairs
  <2> QED
    BY <2>1, <2>2, <2>3, RepairKeeps
<1>3. CASE RepairTimeout(j)
  <2>1. Nothing \in Directives /\ made[j] \in SUBSET Artifacts
    BY <1>1 DEF Nothing, Directives, TypeOK
  <2>2. /\ InspectRepair(j, Nothing, made[j]) /\ reply[j] = "repair" /\ leases' \subseteq leases
        /\ made' \in [Jobs -> SUBSET Artifacts] /\ repair' \in [Jobs -> Repairs]
        /\ UNCHANGED <<protected, control, setting, thread, launch, run, session, answer, closing>>
    BY <1>1, <1>3 DEF RepairTimeout, CancelRepair, TypeOK, Repairs, agent
  <2> QED
    BY <2>1, <2>2, RepairKeeps
<1> QED
  BY <1>2, <1>3

-----------------------------------------------------------------------------
(* Delivery and cleanup.                                                   *)

LEMMA SendResourceKeeps ==
    ASSUME IInv, NEW j \in Jobs, SendResource(j)
    PROVE  IInv'
<1>1. TypeOK /\ PassIsHeld /\ Fine(j)
  BY DEF IInv
<1>2. PICK a \in outgoing[j] :
          /\ outgoing' = [outgoing EXCEPT ![j] = @ \ {a}]
          /\ \/ /\ sent' = [sent EXCEPT ![j] = @ \union {a}]
                /\ UNCHANGED <<unsent, tainted>>
             \/ /\ unsent' = [unsent EXCEPT ![j] = @ \union {a}]
                /\ tainted' = tainted \union {j}
                /\ UNCHANGED sent
  BY DEF SendResource, Taint
<1>3. /\ reply[j] = "send"
      /\ UNCHANGED <<maintenance, agent, reply, repair, resolution, chunks, outcome, committed, closing>>
  BY DEF SendResource
<1>4. a \in Artifacts
  BY <1>1 DEF TypeOK
<1>5. TypeOK'
  BY <1>1, <1>2, <1>3, <1>4 DEF TypeOK, MaintenanceTypeOK, maintenance, files, control, setting,
     thread, agent, resolution
<1>6. PassIsHeld'
  BY <1>1, <1>3 DEF PassIsHeld, maintenance, control, setting, thread
<1>7. ASSUME NEW i \in Jobs \ {j}
      PROVE  SameJob(i) /\ SamePaths(i)
  BY <1>1, <1>2, <1>3 DEF TypeOK, SameJob, SamePaths, maintenance, files, thread, agent, resolution,
     Sending, SessionRoot
<1>8. Fine(j)'
  <2>1. /\ outgoing'[j] = outgoing[j] \ {a}
        /\ \/ sent'[j] = sent[j] \union {a} /\ unsent'[j] = unsent[j] /\ tainted' = tainted
           \/ sent'[j] = sent[j] /\ unsent'[j] = unsent[j] \union {a} /\ j \in tainted'
    BY <1>1, <1>2 DEF TypeOK
  <2>2. Parcel(j)' = Parcel(j)
    BY <1>2, <2>1 DEF Parcel
  <2>3. Phase(j)'
    BY <1>1, <1>3 DEF Fine, Phase, agent
  <2>4. Kept(j)'
    BY <1>1, <1>3, <2>1 DEF Fine, Kept, maintenance, files, thread, agent, resolution, Sending,
       SessionRoot
  <2>5. Packed(j)'
    <3>1. Parcel(j)' # {} => Whole(answer'[j], Parcel(j)')
      BY <1>1, <1>3, <2>2 DEF Fine, Packed, agent
    <3> QED
      BY <1>3, <3>1 DEF Packed
  <2>6. Told(j)'
    BY <1>1, <1>3, <2>1 DEF Fine, Told, agent, resolution
  <2> QED
    BY <2>3, <2>4, <2>5, <2>6 DEF Fine
<1> QED
  BY <1>5, <1>6, <1>7, <1>8, JobStep

LEMMA ResourcesDoneKeeps ==
    ASSUME IInv, NEW j \in Jobs, ResourcesDone(j)
    PROVE  IInv'
<1>1. TypeOK /\ PassIsHeld /\ Fine(j)
  BY DEF IInv
<1>2. /\ reply[j] = "send" /\ outgoing[j] = {}
      /\ reply' = [reply EXCEPT ![j] = "text"]
      /\ outcome' = [outcome EXCEPT ![j] = IF sent[j] # {} /\ unsent[j] = {} THEN "succeeded" ELSE @]
      /\ UNCHANGED <<maintenance, agent, repair, resolution, outgoing, sent, unsent, chunks, tainted,
                     committed, closing>>
  BY DEF ResourcesDone
<1>3. TypeOK'
  <2>1. reply' \in [Jobs -> Replies] /\ outcome' \in [Jobs -> {"none", "failed", "succeeded"}]
    BY <1>1, <1>2 DEF TypeOK, Replies
  <2> QED
    BY <1>1, <1>2, <2>1 DEF TypeOK, MaintenanceTypeOK, maintenance, files, control, setting, thread,
       agent, resolution
<1>4. PassIsHeld'
  BY <1>1, <1>2 DEF PassIsHeld, maintenance, control, setting, thread
<1>5. ASSUME NEW i \in Jobs \ {j}
      PROVE  SameJob(i) /\ SamePaths(i)
  BY <1>1, <1>2 DEF TypeOK, SameJob, SamePaths, maintenance, files, thread, agent, resolution,
     Sending, SessionRoot
<1>6. Fine(j)'
  <2>1. reply'[j] = "text" /\ (outcome'[j] = "succeeded" => sent[j] # {} /\ unsent[j] = {})
    BY <1>1, <1>2 DEF TypeOK, Fine, Told
  <2>2. Phase(j)'
    BY <1>1, <1>2, <2>1 DEF Fine, Phase, agent
  <2>3. Kept(j)'
    BY <1>1, <1>2, <2>1 DEF Fine, Kept, maintenance, files, thread, agent, resolution, Sending,
       SessionRoot
  <2>4. Packed(j)'
    BY <1>1, <1>2, <2>1 DEF Fine, Packed, Parcel, agent, resolution
  <2>5. Told(j)'
    BY <1>1, <1>2, <2>1 DEF Fine, Told, Delivered, agent, resolution
  <2> QED
    BY <2>2, <2>3, <2>4, <2>5 DEF Fine
<1> QED
  BY <1>3, <1>4, <1>5, <1>6, JobStep

LEMMA SendChunkKeeps ==
    ASSUME IInv, NEW j \in Jobs, SendChunk(j)
    PROVE  IInv'
<1>1. TypeOK /\ PassIsHeld /\ Fine(j)
  BY DEF IInv
<1>2. /\ reply[j] = "text" /\ chunks[j] < MaxChunks
      /\ chunks' = [chunks EXCEPT ![j] = @ + 1]
      /\ UNCHANGED <<maintenance, agent, reply, repair, resolution, outgoing, sent, unsent, tainted,
                     outcome, committed, closing>>
  BY DEF SendChunk, MoreText
<1>3. TypeOK'
  <2>1. chunks' \in [Jobs -> 0..MaxChunks]
    <3>1. chunks[j] + 1 \in 0..MaxChunks
      BY <1>1, <1>2, ItemsType DEF TypeOK
    <3> QED
      BY <1>1, <1>2, <3>1 DEF TypeOK
  <2> QED
    BY <1>1, <1>2, <2>1 DEF TypeOK, MaintenanceTypeOK, maintenance, files, control, setting, thread,
       agent, resolution
<1>4. PassIsHeld'
  BY <1>1, <1>2 DEF PassIsHeld, maintenance, control, setting, thread
<1>5. ASSUME NEW i \in Jobs \ {j}
      PROVE  SameJob(i) /\ SamePaths(i)
  BY <1>1, <1>2 DEF TypeOK, SameJob, SamePaths, maintenance, files, thread, agent, resolution,
     Sending, SessionRoot
<1>6. Fine(j)'
  <2>1. Phase(j)'
    BY <1>1, <1>2 DEF Fine, Phase, agent
  <2>2. Kept(j)'
    BY <1>1, <1>2 DEF Fine, Kept, maintenance, files, thread, agent, resolution, Sending, SessionRoot
  <2>3. Packed(j)'
    BY <1>1, <1>2 DEF Fine, Packed, Parcel, agent, resolution
  <2>4. Told(j)'
    BY <1>1, <1>2 DEF Fine, Told, agent, resolution
  <2> QED
    BY <2>1, <2>2, <2>3, <2>4 DEF Fine
<1> QED
  BY <1>3, <1>4, <1>5, <1>6, JobStep

\* A reply ends with its cleanup; only one that delivered its text commits.
Ending(j) ==
    /\ Finish(j)
    /\ reply[j] \notin {"none", "ended"} /\ run[j] \notin {"queued", "running"}
    /\ repair' \in [Jobs -> Repairs]
    /\ outcome' = outcome \/ \E o \in {"none", "failed"} : outcome' = [outcome EXCEPT ![j] = o]
    /\ \/ committed' = committed
       \/ /\ reply[j] = "text" /\ Delivered(j) /\ j \notin tainted
          /\ committed' = committed \union {j}
    /\ UNCHANGED <<outgoing, sent, unsent, chunks, tainted>>

LEMMA FinishKeeps ==
    ASSUME IInv, NEW j \in Jobs, Ending(j)
    PROVE  IInv'
<1> USE DEF Ending
<1>1. TypeOK /\ PassIsHeld /\ Fine(j)
  BY DEF IInv
<1>2. /\ reply' = [reply EXCEPT ![j] = "ended"] /\ session' = session \ {j}
      /\ disk' \in {disk, disk \ {SessionRoot(j)}} /\ protected' = protected \ JobPaths(j)
      /\ wake' \in BOOLEAN /\ pressure' \in BOOLEAN
      /\ UNCHANGED <<leases, loop, trigger, setting, thread, launch, run, answer, made, resolution,
                     closing>>
  BY <1>1 DEF Finish, Released, RequestPressure, TypeOK, MaintenanceTypeOK
<1>3. TypeOK'
  <2>1. MaintenanceTypeOK'
    BY <1>1, <1>2 DEF TypeOK, MaintenanceTypeOK, setting, thread
  <2>2. reply' \in [Jobs -> Replies] /\ outcome' \in [Jobs -> {"none", "failed", "succeeded"}]
    BY <1>1, <1>2 DEF TypeOK, Replies
  <2> QED
    BY <1>1, <1>2, <2>1, <2>2 DEF TypeOK, resolution
<1>4. PassIsHeld'
  BY <1>1, <1>2 DEF PassIsHeld, setting, thread
<1>5. ASSUME NEW i \in Jobs \ {j}
      PROVE  SameJob(i) /\ SamePaths(i)
  <2>1. SameJob(i)
    BY <1>1, <1>2 DEF TypeOK, SameJob, resolution
  <2>2. SamePaths(i)
    <3>1. \A p \in {Sending(i), SessionRoot(i)} : p \notin JobPaths(j) /\ p # SessionRoot(j)
      BY PathsDiffer
    <3> QED
      BY <1>2, <3>1 DEF SamePaths, thread, Sending, SessionRoot
  <2> QED
    BY <2>1, <2>2
<1>6. Fine(j)'
  <2>1. reply'[j] = "ended" /\ launch[j] = "launched" /\ j \notin session'
    BY <1>1, <1>2 DEF TypeOK, Fine, Phase
  <2>2. Phase(j)'
    BY <1>1, <1>2, <2>1 DEF Fine, Phase
  <2>3. Kept(j)'
    BY <1>1, <1>2, <2>1, PathsDiffer DEF Fine, Kept, thread, Sending, SessionRoot
  <2>4. Packed(j)'
    BY <1>1, <1>2, <2>1 DEF Fine, Packed, Parcel
  <2>5. Told(j)'
    <3>1. outcome'[j] = "succeeded" => outcome[j] = "succeeded"
      BY <1>1 DEF TypeOK
    <3>2. j \in committed' =>
              /\ run[j] = "ok" /\ j \in verified
              /\ outgoing[j] = {} /\ unsent[j] = {} /\ Delivered(j)
      BY <1>1 DEF Fine, Packed, Told
    <3> QED
      BY <1>1, <1>2, <2>1, <3>1, <3>2 DEF Fine, Told, Delivered, resolution
  <2> QED
    BY <2>2, <2>3, <2>4, <2>5 DEF Fine
<1> QED
  BY <1>3, <1>4, <1>5, <1>6, JobStep

LEMMA EndingKeeps ==
    ASSUME IInv, NEW j \in Jobs,
           ReplyDelivered(j) \/ TextFails(j) \/ NoReply(j) \/ ReplyCancelled(j)
    PROVE  IInv'
<1>1. TypeOK /\ Fine(j)
  BY DEF IInv
<1>2. Ending(j)
  <2>1. CASE ReplyDelivered(j)
    BY <1>1, <2>1 DEF ReplyDelivered, CommitDelivered, Ending, TypeOK, Fine, Phase
  <2>2. CASE TextFails(j)
    BY <1>1, <2>2 DEF TextFails, FailOutcome, Ending, TypeOK, Fine, Phase
  <2>3. CASE NoReply(j)
    BY <1>1, <2>3 DEF NoReply, Ending, TypeOK, delivery
  <2>4. CASE ReplyCancelled(j)
    BY <1>1, <2>4 DEF ReplyCancelled, CancelRepair, Ending, TypeOK, Results, Repairs, delivery
  <2> QED
    BY <2>1, <2>2, <2>3, <2>4
<1> QED
  BY <1>2, FinishKeeps

-----------------------------------------------------------------------------
(* The specification.                                                      *)

LEMMA InitInv == Init => IInv
<1> SUFFICES ASSUME Init PROVE IInv
  OBVIOUS
<1>1. MaintenanceTypeOK /\ PassIsHeld
  <2>1. Cardinality({}) = 0
    BY FS_EmptySet
  <2>2. MaintenanceInit({p \in Paths : p[2] \notin Jobs})
    BY DEF Init
  <2>3. MaintenanceTypeOK
    <3>1. /\ disk \subseteq Paths /\ protected \subseteq Paths
          /\ inventory \subseteq Paths /\ doomed \subseteq Paths /\ Cardinality(doomed) =< 1
          /\ reloads \in 0..MaxReloads
      BY <2>1, <2>2, RoomType DEF MaintenanceInit
    <3>2. loop \in {"off", "wait", "gate", "work", "unwind"}
      BY <2>2 DEF MaintenanceInit
    <3>3. trigger \in {"none", "startup", "periodic", "pressure"}
      BY <2>2 DEF MaintenanceInit
    <3>4. /\ worker \in {"off", "scan", "delete", "done"}
          /\ wake \in BOOLEAN /\ pressure \in BOOLEAN /\ enabled \in BOOLEAN
          /\ started \in BOOLEAN /\ cancelled \in BOOLEAN
      BY <2>2 DEF MaintenanceInit
    <3> QED
      BY <3>1, <3>2, <3>3, <3>4 DEF MaintenanceTypeOK
  <2>4. PassIsHeld
    BY <2>2 DEF MaintenanceInit, PassIsHeld
  <2> QED
    BY <2>3, <2>4
<1>2. TypeOK
  BY <1>1, ItemsType DEF Init, TypeOK, Empty, Nothing, Directives, Replies, Repairs
<1>3. ASSUME NEW j \in Jobs
      PROVE  Fine(j)
  <2>1. Sending(j) \notin disk /\ doomed = {}
    BY DEF Init, MaintenanceInit, Sending
  <2>2. Phase(j) /\ Kept(j)
    BY <2>1 DEF Init, Phase, Kept, Empty
  <2>3. Packed(j)
    BY DEF Init, Packed, Parcel, Empty
  <2>4. Told(j)
    BY DEF Init, Told, Empty
  <2> QED
    BY <2>2, <2>3, <2>4 DEF Fine
<1> QED
  BY <1>1, <1>2, <1>3 DEF IInv

LEMMA NextInv == IInv /\ [Next]_vars => IInv'
<1> SUFFICES ASSUME IInv, [Next]_vars PROVE IInv'
  OBVIOUS
<1>1. CASE Thread
  BY <1>1, ThreadKeeps
<1>2. ASSUME NEW j \in Jobs, Protect(j) PROVE IInv'
  BY <1>2, ProtectKeeps
<1>3. CASE EventLoop
  <2>1. CASE MaintenanceStep /\ UNCHANGED <<agent, reply, repair, resolution, delivery, closing>>
    BY <2>1, MaintenanceKeeps DEF IInv, TypeOK
  <2>2. ASSUME NEW j \in Jobs,
               \/ MakeOutbox(j) \/ Launch(j) \/ Abandon(j) \/ EnterRun(j) \/ RunEnds(j)
               \/ EnterRepair(j) \/ RepairEnds(j) \/ LateRepairEnds(j) \/ Reply(j)
        PROVE  IInv'
    BY <2>2, MakeOutboxKeeps, LaunchKeeps, EnterRunKeeps, RunEndsKeeps, RepairMovesKeeps,
       RepairEndsKeeps, InspectKeeps, SendResourceKeeps, ResourcesDoneKeeps, SendChunkKeeps,
       EndingKeeps DEF Reply
  <2>3. CASE OtherReplyEnds \/ Shutdown \/ DrainRepairs \/ CloseMemory
    BY <2>3, AppMovesKeeps
  <2>4. CASE StopStorage
    BY <2>4, MaintenanceKeeps DEF StopStorage
  <2> QED
    BY <1>3, <2>1, <2>2, <2>3, <2>4 DEF EventLoop
<1>4. CASE UNCHANGED vars
  <2>1. UNCHANGED <<maintenance, agent, reply, repair, resolution, delivery, closing>>
    BY <1>4 DEF vars
  <2>2. TypeOK' /\ PassIsHeld'
    BY <2>1 DEF IInv, TypeOK, MaintenanceTypeOK, PassIsHeld, maintenance, files, control, setting,
       thread, agent, resolution, delivery
  <2>3. \A i \in Jobs : SameJob(i) /\ SamePaths(i)
    BY <2>1, NothingMoves DEF maintenance
  <2> QED
    BY <2>2, <2>3, OtherStep
<1> QED
  BY <1>1, <1>2, <1>3, <1>4 DEF Next

LEMMA Invariant == Spec => []IInv
<1> QED
  BY InitInv, NextInv, PTL DEF Spec

\* Every variable keeps its type, for any jobs, files and limits.
THEOREM TypeCorrect == Spec => []TypeOK
<1>1. IInv => TypeOK
  BY DEF IInv
<1> QED
  BY <1>1, Invariant, PTL

\* While the cleanup thread runs, through a cancelled run too, no activity
\* holds a lease, for any jobs and paths.
THEOREM ThreadAlone == Spec => []ThreadRunsAlone
<1>1. IInv => ThreadRunsAlone
  BY DEF IInv, PassIsHeld, ThreadRunsAlone
<1> QED
  BY <1>1, Invariant, PTL

\* Maintenance never deletes the copies a reply is sending, nor the memory
\* session of a job whose reply is not over, for any number of jobs.
THEOREM WorkSurvives == Spec => []LiveWorkSurvives
<1>1. IInv => LiveWorkSurvives
  BY DEF IInv, Fine, Kept, LiveWorkSurvives
<1> QED
  BY <1>1, Invariant, PTL

\* Memory is committed only for an answer that was delivered whole.
THEOREM CommitsAreDelivered == Spec => []CommittedIsDelivered
<1>1. IInv => CommittedIsDelivered
  BY DEF IInv, TypeOK, Fine, Told, CommittedIsDelivered
<1> QED
  BY <1>1, Invariant, PTL

\* A delivery that counts as a success sent all that the agent named.
THEOREM SuccessesAreComplete == Spec => []SuccessIsComplete
<1>1. ASSUME IInv, NEW j \in Jobs, outcome[j] = "succeeded"
      PROVE  /\ unsent[j] = {} /\ sent[j] # {}
             /\ Whole(answer[j], sent[j])
  <2>1. unsent[j] = {} /\ outgoing[j] = {} /\ sent[j] # {}
    BY <1>1 DEF IInv, Fine, Told
  <2>2. Parcel(j) = sent[j]
    BY <2>1 DEF Parcel
  <2> QED
    BY <1>1, <2>1, <2>2 DEF IInv, Fine, Packed
<1>2. IInv => SuccessIsComplete
  BY <1>1 DEF SuccessIsComplete, Whole
<1> QED
  BY <1>2, Invariant, PTL
=============================================================================
