--------------------------- MODULE MCJobLifecycle ---------------------------
(* JobLifecycle with three jobs, launched in different ways.               *)
EXTENDS JobLifecycle

CONSTANTS chat, code, scheduled, search

\* One job of each kind of launch, for safety.
ThreeJobs == {chat, code, scheduled}
OneOfEach ==
    [j \in ThreeJobs |->
        IF j = chat THEN "direct" ELSE IF j = code THEN "code" ELSE "schedule"]

\* Three jobs that compete for one slot, for liveness.
ThreeCompeting == {chat, search, scheduled}
Competing ==
    [j \in ThreeCompeting |-> IF j = scheduled THEN "parse" ELSE "direct"]
=============================================================================
