-------------------------- MODULE OccurrenceLedger --------------------------
(***************************************************************************)
(* What the scheduler promises about the occurrences of a schedule,        *)
(* whatever crashes, reloads, pauses and busy runs come in between: they   *)
(* are settled in order; one is dispatched only when it is due and at most *)
(* Grace late; one is written off as missed only once it is due and the    *)
(* oldest unsettled one is more than Grace late, and while it is within    *)
(* the grace period itself only if a newer due one is kept; a settled one  *)
(* stays so.                                                               *)
(***************************************************************************)
EXTENDS Naturals

CONSTANTS Schedules,
          Occurrences,  \* the due times of every schedule
          Grace         \* misfire_grace_seconds

VARIABLES fate,  \* what became of every occurrence
          clock

ledgerVars == <<fate, clock>>

Pending(s) == {o \in Occurrences[s] : fate[s][o] = "pending"}

Init ==
    /\ fate = [s \in Schedules |-> [o \in Occurrences[s] |-> "pending"]]
    /\ clock = 0

Dispatch(s, o) ==
    /\ o \in Pending(s)
    /\ \A p \in Pending(s) : o <= p
    /\ o <= clock /\ clock <= o + Grace
    /\ fate' = [fate EXCEPT ![s][o] = "dispatched"]
    /\ UNCHANGED clock

\* The occurrences up to the horizon are written off together.
WriteOff(s, horizon) ==
    LET lost == {o \in Pending(s) : o <= horizon}
        kept == {o \in Pending(s) \ lost : o <= clock}
    IN
    /\ horizon <= clock
    /\ \E o \in lost : o + Grace < clock
    /\ \A o \in lost : o + Grace < clock \/ kept # {}
    /\ fate' = [fate EXCEPT ![s] =
                   [o \in Occurrences[s] |->
                       IF o \in lost THEN "missed" ELSE @[o]]]
    /\ UNCHANGED clock

Tick ==
    /\ clock' = clock + 1
    /\ UNCHANGED fate

Next ==
    \/ Tick
    \/ \E s \in Schedules : \E o \in Occurrences[s] :
          Dispatch(s, o) \/ WriteOff(s, o)

Spec == Init /\ [][Next]_ledgerVars
=============================================================================
