---------------------------- MODULE StorageGate ----------------------------
(***************************************************************************)
(* StorageActivityGate of storage_gate.py: asyncio tasks take a shared     *)
(* activity lease (Agent calls, memory transactions) or the exclusive      *)
(* maintenance lease (storage cleanup, memory expiry).                     *)
(*                                                                         *)
(* The condition's lock is never held across a suspension, so an acquire,  *)
(* the predicate and the assignments after it are one step.  A task that   *)
(* finds its predicate false sleeps until notify_all; a notified task runs *)
(* at some later turn of the event loop and tests its predicate again.     *)
(* The owner and the depth are ContextVars: a child task starts with a     *)
(* copy of its parent's context.                                           *)
(***************************************************************************)
EXTENDS Naturals, FiniteSets

CONSTANTS Tasks,    \* asyncio tasks
          None,     \* Python's None
          MaxDepth  \* bound on nested activity() blocks of one task

ASSUME TasksFinite == IsFiniteSet(Tasks)
ASSUME NoneIsNoTask == None \notin Tasks
ASSUME DepthPositive == MaxDepth \in Nat \ {0}

VARIABLES pc,                  \* where each task is
          owner, depth,        \* the two ContextVars, per task
          inherited,           \* the context each task was created with
          activeCount,
          maintenanceActive,
          maintenanceWaiters,
          notified             \* sleepers whose condition future is done

counters == <<activeCount, maintenanceActive, maintenanceWaiters>>
context == <<owner, depth, inherited>>
gateVars == <<pc, context, counters, notified>>

PC == {"new", "idle", "waitActivity", "activity", "waitMaintenance",
       "maintenance"}
Contexts == [owner : Tasks \union {None}, depth : 0..MaxDepth]

GateTypeOK ==
    /\ pc \in [Tasks -> PC]
    /\ owner \in [Tasks -> Tasks \union {None}]
    /\ depth \in [Tasks -> 0..MaxDepth]
    /\ inherited \in [Tasks -> Contexts]
    /\ activeCount \in Nat
    /\ maintenanceActive \in BOOLEAN
    /\ maintenanceWaiters \in Nat
    /\ notified \subseteq Tasks

At(place) == {t \in Tasks : pc[t] = place}
Sleepers == At("waitActivity") \union At("waitMaintenance")

\* notify_all by task t, which is no sleeper any more.
NotifyNobody(t) == notified' = notified \ {t}  \* mutant: the call is forgotten
NotifyOne(t) ==                                \* mutant: notify() for it
    \/ Sleepers \ {t} = {} /\ notified' = {}
    \/ \E u \in Sleepers \ {t} : notified' = (notified \ {t}) \union {u}
NotifyAll(t) == notified' = Sleepers \ {t}

GateInit ==
    /\ pc = [t \in Tasks |-> "new"]
    /\ owner = [t \in Tasks |-> None]
    /\ depth = [t \in Tasks |-> 0]
    /\ inherited = [t \in Tasks |-> [owner |-> None, depth |-> 0]]
    /\ activeCount = 0
    /\ maintenanceActive = FALSE
    /\ maintenanceWaiters = 0
    /\ notified = {}
-----------------------------------------------------------------------------
(* Task creation and end.                                                  *)

Start(t, context0) ==
    /\ pc[t] = "new"
    /\ pc' = [pc EXCEPT ![t] = "idle"]
    /\ inherited' = [inherited EXCEPT ![t] = context0]
    /\ owner' = [owner EXCEPT ![t] = context0.owner]
    /\ depth' = [depth EXCEPT ![t] = context0.depth]
    /\ UNCHANGED <<counters, notified>>

Unreferenced(t) ==
    \A u \in Tasks : owner[u] # t /\ inherited[u].owner # t

\* A task created where no lease is held.
SpawnRoot(t) ==
    /\ Unreferenced(t)
    /\ Start(t, [owner |-> None, depth |-> 0])

\* asyncio.create_task copies the running task's context.  A task that some
\* context still names is alive, so a new task is a different object.
Spawn(parent, child) ==
    /\ pc[parent] \in {"idle", "activity", "maintenance"}
    /\ Unreferenced(child)
    /\ Start(child, [owner |-> owner[parent], depth |-> depth[parent]])

End(t) ==
    /\ pc[t] = "idle"
    /\ pc' = [pc EXCEPT ![t] = "new"]
    /\ owner' = [owner EXCEPT ![t] = None]
    /\ depth' = [depth EXCEPT ![t] = 0]
    /\ inherited' = [inherited EXCEPT ![t] = [owner |-> None, depth |-> 0]]
    /\ UNCHANGED <<counters, notified>>
-----------------------------------------------------------------------------
(* activity()                                                              *)

NeverReentrant(t) == FALSE           \* mutant: no re-entrant branch
AnyDepthIsOwn(t) == depth[t] > 0     \* mutant: a child inherits the lease
HoldsLease(t) == owner[t] = t /\ depth[t] > 0

BargesIn == ~maintenanceActive       \* mutant: waiting maintenance is ignored
ActivityMayEnter == ~maintenanceActive /\ maintenanceWaiters = 0

\* The counter and the two ContextVars, set when the wait is over.
TakeActivity(t) ==
    /\ pc' = [pc EXCEPT ![t] = "activity"]
    /\ activeCount' = activeCount + 1
    /\ owner' = [owner EXCEPT ![t] = t]
    /\ depth' = [depth EXCEPT ![t] = 1]
    /\ UNCHANGED <<inherited, maintenanceActive, maintenanceWaiters>>

Sleep(t, place) ==
    /\ pc' = [pc EXCEPT ![t] = place]
    /\ UNCHANGED context

EnterActivity(t) ==
    /\ pc[t] \in {"idle", "activity"}
    /\ ~HoldsLease(t)
    /\ UNCHANGED notified
    /\ \/ ActivityMayEnter /\ TakeActivity(t)
       \/ ~ActivityMayEnter /\ Sleep(t, "waitActivity") /\ UNCHANGED counters

\* The re-entrant branch: no counter is touched and nothing is waited for.
EnterNested(t) ==
    /\ pc[t] \in {"idle", "activity"}
    /\ HoldsLease(t)
    /\ depth[t] < MaxDepth
    /\ depth' = [depth EXCEPT ![t] = @ + 1]
    /\ UNCHANGED <<pc, owner, inherited, counters, notified>>

LeaveNested(t) ==
    /\ pc[t] = "activity"
    /\ depth[t] > 1
    /\ depth' = [depth EXCEPT ![t] = @ - 1]
    /\ UNCHANGED <<pc, owner, inherited, counters, notified>>

\* Both ContextVars are reset to what they were before the block.
LeaveActivity(t) ==
    /\ pc[t] = "activity"
    /\ depth[t] = 1
    /\ pc' = [pc EXCEPT ![t] = "idle"]
    /\ owner' = [owner EXCEPT ![t] = inherited[t].owner]
    /\ depth' = [depth EXCEPT ![t] = inherited[t].depth]
    /\ activeCount' = activeCount - 1
    /\ NotifyAll(t)
    /\ UNCHANGED <<inherited, maintenanceActive, maintenanceWaiters>>

WakeActivity(t) ==
    /\ pc[t] = "waitActivity"
    /\ t \in notified
    /\ notified' = notified \ {t}
    /\ \/ ActivityMayEnter /\ TakeActivity(t)
       \/ ~ActivityMayEnter /\ UNCHANGED <<pc, context, counters>>

\* Condition.wait passes the wake-up on to one other sleeper when the
\* waiting task is cancelled.
CancelActivityWait(t) ==
    LET others == Sleepers \ (notified \union {t}) IN
    /\ pc[t] = "waitActivity"
    /\ pc' = [pc EXCEPT ![t] = "idle"]
    /\ \/ others = {} /\ notified' = notified \ {t}
       \/ \E u \in others : notified' = (notified \ {t}) \union {u}
    /\ UNCHANGED <<context, counters>>
-----------------------------------------------------------------------------
(* maintenance()                                                           *)

IgnoresActivity == ~maintenanceActive  \* mutant: running activity is ignored
MaintenanceMayEnter == ~maintenanceActive /\ activeCount = 0

TakeMaintenance(t) ==
    /\ pc' = [pc EXCEPT ![t] = "maintenance"]
    /\ maintenanceActive' = TRUE
    /\ UNCHANGED <<context, activeCount>>

\* A task inside its own activity block gets RuntimeError instead.
EnterMaintenance(t) ==
    /\ pc[t] \in {"idle", "activity"}
    /\ ~HoldsLease(t)
    /\ UNCHANGED notified
    /\ \/ /\ MaintenanceMayEnter
          /\ TakeMaintenance(t)
          /\ UNCHANGED maintenanceWaiters
       \/ /\ ~MaintenanceMayEnter
          /\ Sleep(t, "waitMaintenance")
          /\ maintenanceWaiters' = maintenanceWaiters + 1
          /\ UNCHANGED <<activeCount, maintenanceActive>>

\* Mutant: a wake-up in vain stops counting the waiter.
WakeUncounted(t) ==
    /\ pc[t] = "waitMaintenance"
    /\ t \in notified
    /\ notified' = notified \ {t}
    /\ maintenanceWaiters' = maintenanceWaiters - 1
    /\ IF MaintenanceMayEnter THEN TakeMaintenance(t)
       ELSE UNCHANGED <<pc, context, activeCount, maintenanceActive>>

WakeMaintenance(t) ==
    /\ pc[t] = "waitMaintenance"
    /\ t \in notified
    /\ notified' = notified \ {t}
    /\ \/ /\ MaintenanceMayEnter
          /\ TakeMaintenance(t)
          /\ maintenanceWaiters' = maintenanceWaiters - 1
       \/ ~MaintenanceMayEnter /\ UNCHANGED <<pc, context, counters>>

\* Mutant: a cancelled waiter stays counted.
CancelCounted(t) ==
    /\ pc[t] = "waitMaintenance"
    /\ pc' = [pc EXCEPT ![t] = "idle"]
    /\ NotifyAll(t)
    /\ UNCHANGED <<context, counters>>

CancelMaintenanceWait(t) ==
    /\ pc[t] = "waitMaintenance"
    /\ pc' = [pc EXCEPT ![t] = "idle"]
    /\ maintenanceWaiters' = maintenanceWaiters - 1
    /\ NotifyAll(t)
    /\ UNCHANGED <<context, activeCount, maintenanceActive>>

LeaveMaintenance(t) ==
    /\ pc[t] = "maintenance"
    /\ pc' = [pc EXCEPT ![t] = "idle"]
    /\ maintenanceActive' = FALSE
    /\ NotifyAll(t)
    /\ UNCHANGED <<context, activeCount, maintenanceWaiters>>
-----------------------------------------------------------------------------
GateNext ==
    \E t \in Tasks :
        \/ SpawnRoot(t)
        \/ \E u \in Tasks : Spawn(t, u)
        \/ End(t)
        \/ EnterActivity(t) \/ EnterNested(t)
        \/ LeaveNested(t) \/ LeaveActivity(t)
        \/ WakeActivity(t) \/ CancelActivityWait(t)
        \/ EnterMaintenance(t) \/ LeaveMaintenance(t)
        \/ WakeMaintenance(t) \/ CancelMaintenanceWait(t)

\* The event loop runs every woken task.  Every lease body ends: an Agent run
\* is bounded by max_runtime_seconds and a maintenance pass is a finite scan.
\* A body opens finitely many nested blocks, hence strong fairness to leave.
GateFairness ==
    \A t \in Tasks :
        /\ WF_gateVars(WakeActivity(t))
        /\ WF_gateVars(WakeMaintenance(t))
        /\ WF_gateVars(LeaveNested(t))
        /\ SF_gateVars(LeaveActivity(t))
        /\ WF_gateVars(LeaveMaintenance(t))

GateSpec == GateInit /\ [][GateNext]_gateVars /\ GateFairness
-----------------------------------------------------------------------------
(* Safety.                                                                 *)

\* No task works on storage while maintenance runs, and at most one task
\* maintains: what the counters and flags of the gate are there for.
MaintenanceExclusive ==
    \A t \in At("maintenance") :
        At("activity") = {} /\ At("maintenance") = {t}

\* The counters say where the tasks are, whatever mix of nesting,
\* inheritance, cancellation and late wake-ups led there; a drift would
\* close the gate for good.
CountersAgree ==
    /\ activeCount = Cardinality(At("activity"))
    /\ maintenanceWaiters = Cardinality(At("waitMaintenance"))
    /\ maintenanceActive <=> At("maintenance") # {}

\* A ContextVar copied into a child, or restored when a block ends, never
\* makes a task re-enter the gate on a lease that is not its own.
LeaseIsOwn == \A t \in Tasks : HoldsLease(t) <=> pc[t] = "activity"

\* A sleeper whose predicate holds has been notified: no counter change that
\* can open the gate forgets to wake the tasks waiting for it.
NoLostWakeup ==
    /\ ActivityMayEnter => At("waitActivity") \subseteq notified
    /\ MaintenanceMayEnter => At("waitMaintenance") \subseteq notified
-----------------------------------------------------------------------------
(* Liveness and refinement.                                                *)

\* A stream of new activity, nested blocks and cancellations never starves
\* maintenance: while some task waits for it, some task gets it.
MaintenanceNotStarved ==
    maintenanceWaiters > 0 ~> maintenanceActive \/ maintenanceWaiters = 0

\* Once no task asks for maintenance any more, every waiting Agent call
\* gets its lease (or is cancelled).
ActivityResumes ==
    <>[](~maintenanceActive /\ maintenanceWaiters = 0) =>
        \A t \in Tasks : pc[t] = "waitActivity" ~> pc[t] # "waitActivity"

Leases == INSTANCE Lease WITH shared <- At("activity"),
                              exclusive <- At("maintenance"),
                              claimants <- At("waitMaintenance")

\* The gate implements the lease contract of Lease: shared leases are granted
\* only while nobody holds or claims the exclusive one.
ImplementsLease == Leases!Spec
=============================================================================
