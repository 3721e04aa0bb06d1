------------------------- MODULE StorageMaintenance -------------------------
(***************************************************************************)
(* StorageMaintainer (storage_maintenance.py): the maintenance loop, a     *)
(* coroutine of the event loop, and the cleanup pass that it runs in a     *)
(* thread under the maintenance lease of the storage gate.                 *)
(*                                                                         *)
(* A path is <<kind, owner>>.  The gate is its rule (StorageGate has its   *)
(* queues): an activity enters unless maintenance waits or holds, and      *)
(* maintenance enters when no activity is left.  Which files have expired, *)
(* or exceed their area's share, is left to choice.                        *)
(***************************************************************************)
EXTENDS Naturals, FiniteSets

CONSTANTS
    Paths,      \* what the three areas may hold, <<kind, owner>>
    Room,       \* paths that fit before free space is below min_free_bytes
    MaxReloads  \* bound: configuration reloads

Kinds == {"cache", "log", "chat", "asset", "trace", "received", "outgoing",
          "sending", "agent-memory"}

ASSUME PathsType == IsFiniteSet(Paths) /\ \A p \in Paths : p[1] \in Kinds
ASSUME RoomType == Room \in Nat /\ MaxReloads \in Nat

VARIABLES
    disk,       \* paths that exist
    protected,  \* _protected_subtrees
    leases,     \* holders of an activity lease
    loop,       \* "off", or where start() or _maintenance_loop is
    trigger,    \* of the current pass
    wake,       \* _wake_event
    pressure,   \* _pressure_requested
    enabled,    \* cfg.storage_maintenance.enabled
    started,    \* _started and not _stopping
    worker,     \* the thread of _run_sync
    inventory,  \* its candidates that are left
    doomed,     \* the candidate that passed its last check
    cancelled,  \* the thread's cancelled event
    reloads

files == <<disk, protected>>
control == <<loop, trigger, wake, pressure>>
setting == <<enabled, started, reloads>>
thread == <<worker, inventory, doomed, cancelled>>
maintenance == <<files, leases, control, setting, thread>>

MaintenanceTypeOK ==
    /\ disk \subseteq Paths /\ protected \subseteq Paths
    /\ loop \in {"off", "wait", "gate", "work", "unwind"}
    /\ trigger \in {"none", "startup", "periodic", "pressure"}
    /\ wake \in BOOLEAN /\ pressure \in BOOLEAN /\ enabled \in BOOLEAN
    /\ started \in BOOLEAN /\ cancelled \in BOOLEAN
    /\ worker \in {"off", "scan", "delete", "done"}
    /\ inventory \subseteq Paths
    /\ doomed \subseteq Paths /\ Cardinality(doomed) <= 1
    /\ reloads \in 0..MaxReloads

\* start(): a startup pass over what an earlier process left behind, before
\* the adapter delivers anything; none when maintenance is disabled.
MaintenanceInit(leftovers) ==
    /\ disk = leftovers /\ protected = {} /\ leases = {}
    /\ enabled \in BOOLEAN
    /\ IF enabled THEN loop = "gate" /\ trigger = "startup"
                  ELSE loop = "off" /\ trigger = "none"
    /\ wake = FALSE /\ pressure = FALSE /\ started = TRUE
    /\ worker = "off" /\ inventory = {} /\ doomed = {} /\ cancelled = FALSE
    /\ reloads = 0

Serving == trigger # "startup"
JobMayEnter == loop \notin {"gate", "work", "unwind"}
Low(present) == Cardinality(present) > Room
-----------------------------------------------------------------------------
(* The thread: _run_sync.                                                  *)

\* A path is protected with what it contains and what contains it.
IsProtected(p) == p \in protected

\* The inventory lists what is not protected.  What it skips (symbolic links,
\* entries beyond its budget) is a deletion that fails.
Listed == {p \in disk : ~IsProtected(p)}

Scan ==
    /\ worker = "scan"
    /\ worker' = "delete"
    /\ inventory' = Listed
    /\ UNCHANGED <<files, leases, control, setting, doomed, cancelled>>

PressureRank(p) ==
    CASE p[1] = "cache" -> 0
      [] p[1] \in {"log", "chat", "asset"} -> 1
      [] p[1] = "trace" -> 2
      [] p[1] \in {"outgoing", "sending", "agent-memory"} -> 3
      [] p[1] = "received" -> 4

\* A pressure pass goes by rank while space is low; the others take what has
\* expired, then the oldest of an area that is over its limit.
Eligible(p) ==
    \/ trigger # "pressure"
    \/ /\ Low(disk)
       /\ \A q \in inventory : PressureRank(p) <= PressureRank(q)

\* delete_candidate up to its last is_protected.
Choose(p) ==
    /\ worker = "delete" /\ ~cancelled /\ doomed = {}
    /\ p \in inventory /\ Eligible(p)
    /\ inventory' = inventory \ {p}
    /\ doomed' = {p} \intersect Listed
    /\ UNCHANGED <<files, leases, control, setting, worker, cancelled>>

\* _delete_entry; an error leaves the entry, or part of a directory.
Unlink ==
    /\ worker = "delete" /\ doomed # {}
    /\ disk' \in {disk, disk \ doomed}
    /\ doomed' = {}
    /\ UNCHANGED <<protected, leases, control, setting, worker, inventory,
                   cancelled>>

\* No candidate is left that must go, the deadline passed, or the pass was
\* cancelled.
PassEnds ==
    /\ worker = "delete" /\ doomed = {}
    /\ worker' = "done"
    /\ inventory' = {}
    /\ UNCHANGED <<files, leases, control, setting, doomed, cancelled>>
-----------------------------------------------------------------------------
(* The coroutine: start, run, _maintenance_loop.                           *)

EnterGate ==
    /\ loop = "gate" /\ leases = {}
    /\ loop' = "work"
    /\ worker' = "scan" /\ cancelled' = FALSE
    /\ UNCHANGED <<files, leases, trigger, wake, pressure, setting, inventory,
                   doomed>>

\* run() ends and releases the lease.  A startup pass that raised leaves no
\* loop; the loop itself survives a pass that raised.
WorkDone ==
    /\ loop \in {"work", "unwind"} /\ worker = "done"
    /\ worker' = "off"
    /\ trigger' = "none"
    /\ \/ /\ loop = "work" /\ started /\ (trigger = "startup" => enabled)
          /\ loop' = "wait"
       \/ /\ loop = "unwind" \/ ~started \/ trigger = "startup"
          /\ loop' = "off"
    /\ UNCHANGED <<files, leases, wake, pressure, setting, inventory, doomed,
                   cancelled>>

\* The interval elapsed; the wake event is not looked at.
TimerFires ==
    /\ loop = "wait" /\ started
    /\ IF enabled THEN loop' = "gate" /\ trigger' = "periodic"
                  ELSE loop' = "off" /\ UNCHANGED trigger
    /\ UNCHANGED <<files, leases, wake, pressure, setting, thread>>

ServeRequest ==
    IF ~enabled \/ ~started
    THEN loop' = "off" /\ UNCHANGED <<pressure, trigger>>
    ELSE IF ~pressure THEN UNCHANGED <<loop, pressure, trigger>>
    ELSE loop' = "gate" /\ pressure' = FALSE /\ trigger' = "pressure"

Woken ==
    /\ loop = "wait" /\ wake
    /\ wake' = FALSE
    /\ ServeRequest
    /\ UNCHANGED <<files, leases, setting, thread>>

\* reload_config of the maintainer: a loop that ended starts again.
ReloadStorage(on) ==
    /\ Serving /\ started /\ reloads < MaxReloads
    /\ reloads' = reloads + 1
    /\ enabled' = on
    /\ wake' = TRUE
    /\ loop' = IF on /\ loop = "off" THEN "wait" ELSE loop
    /\ UNCHANGED <<files, leases, trigger, pressure, started, thread>>

\* request_pressure_check, on the disk as the caller leaves it.  Mutant: the
\* loop is not woken.
NoteRequest ==
    /\ pressure' = (pressure \/ (enabled /\ Low(disk')))
    /\ UNCHANGED wake
RequestPressure ==
    IF enabled /\ Low(disk') THEN pressure' = TRUE /\ wake' = TRUE
                             ELSE UNCHANGED <<pressure, wake>>

\* stop(): the loop's task is cancelled and awaited; run() shields the thread
\* and keeps the lease until it has seen the cancelled event.  Mutant: run()
\* leaves the thread behind.
LeaveThread == loop' = "off"
AwaitThread == loop' = IF loop = "work" THEN "unwind" ELSE "off"
StopMaintenance ==
    /\ started
    /\ started' = FALSE
    /\ AwaitThread
    /\ cancelled' = (loop = "work")
    /\ wake' = TRUE /\ pressure' = FALSE
    /\ UNCHANGED <<files, leases, trigger, enabled, reloads, worker, inventory,
                   doomed>>

MaintenanceStep ==
    \/ EnterGate \/ WorkDone \/ TimerFires \/ Woken
    \/ \E on \in BOOLEAN : ReloadStorage(on)
ThreadStep == Scan \/ (\E p \in Paths : Choose(p)) \/ Unlink \/ PassEnds
-----------------------------------------------------------------------------
(* Properties.                                                             *)

\* The thread of a cleanup pass runs only while no activity holds a lease,
\* through a cancelled run too: run() waits for the thread inside its lease.
ThreadRunsAlone == worker # "off" => leases = {}

\* A pressure request reaches a pass, whatever the loop was doing when it
\* came, unless maintenance is switched off or its loop is gone.
PressureHandled ==
    pressure ~> \/ ~enabled \/ loop = "off"
                \/ ~pressure /\ trigger = "pressure"
                   /\ loop \in {"gate", "work"}
=============================================================================
