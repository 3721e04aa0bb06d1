------------------------------- MODULE Lease -------------------------------
(***************************************************************************)
(* What the storage gate promises its callers, with no counters, condition *)
(* variable or context variables: shared leases, one exclusive lease, and  *)
(* priority for a task that waits for the exclusive one.                   *)
(***************************************************************************)
CONSTANT Tasks

VARIABLES shared,     \* tasks that hold a shared (activity) lease
          exclusive,  \* tasks that hold the exclusive (maintenance) lease
          claimants   \* tasks that wait for the exclusive lease

leaseVars == <<shared, exclusive, claimants>>

Init == shared = {} /\ exclusive = {} /\ claimants = {}

Claim(t) ==
    /\ t \notin shared \union exclusive \union claimants
    /\ claimants' = claimants \union {t}
    /\ UNCHANGED <<shared, exclusive>>

GiveUp(t) ==
    /\ t \in claimants
    /\ claimants' = claimants \ {t}
    /\ UNCHANGED <<shared, exclusive>>

\* A claimant that need not wait is granted the lease in the same step.
Exclude(t) ==
    /\ t \notin shared
    /\ shared = {} /\ exclusive = {}
    /\ exclusive' = {t}
    /\ claimants' = claimants \ {t}
    /\ UNCHANGED shared

Share(t) ==
    /\ t \notin shared
    /\ exclusive = {} /\ claimants = {}
    /\ shared' = shared \union {t}
    /\ UNCHANGED <<exclusive, claimants>>

Release(t) ==
    /\ t \in shared \union exclusive
    /\ shared' = shared \ {t}
    /\ exclusive' = exclusive \ {t}
    /\ UNCHANGED claimants

Next ==
    \E t \in Tasks :
        Claim(t) \/ GiveUp(t) \/ Exclude(t) \/ Share(t) \/ Release(t)

Spec == Init /\ [][Next]_leaseVars
=============================================================================
