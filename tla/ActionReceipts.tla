--------------------------- MODULE ActionReceipts ---------------------------
(***************************************************************************)
(* What a caller of the OneBot adapter relies on: a call that ends "ok" has *)
(* the receipt of an action that the gateway executed under its echo, and  *)
(* one execution is the receipt of one call only.  A call that ends in any *)
(* other way says nothing about whether its action was executed.           *)
(***************************************************************************)
CONSTANTS Calls, Echo, None

VARIABLES
    stage,     \* [Calls -> {"new", "asked", "ended"}]
    executed,  \* calls whose action the gateway executed
    receipt    \* [Calls -> Calls \union {None}]

vars == <<stage, executed, receipt>>

Init ==
    /\ stage = [c \in Calls |-> "new"]
    /\ executed = {}
    /\ receipt = [c \in Calls |-> None]

Move(c, from, to) ==
    /\ stage[c] = from
    /\ stage' = [stage EXCEPT ![c] = to]

Ask(c) == Move(c, "new", "asked") /\ UNCHANGED <<executed, receipt>>

\* An action may be executed after its caller has given up.
Execute(c) ==
    /\ stage[c] # "new"
    /\ executed' = executed \union {c}
    /\ UNCHANGED <<stage, receipt>>

Confirm(c) ==
    /\ Move(c, "asked", "ended")
    /\ \E d \in executed :
          /\ Echo[d] = Echo[c]
          /\ \A other \in Calls : receipt[other] # d
          /\ receipt' = [receipt EXCEPT ![c] = d]
    /\ UNCHANGED executed

\* Refused at once, or ended without a receipt.
GiveUp(c) ==
    /\ Move(c, "new", "ended") \/ Move(c, "asked", "ended")
    /\ UNCHANGED <<executed, receipt>>

Next == \E c \in Calls : Ask(c) \/ Execute(c) \/ Confirm(c) \/ GiveUp(c)

Spec == Init /\ [][Next]_vars
=============================================================================
