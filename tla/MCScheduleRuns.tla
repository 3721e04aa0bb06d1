--------------------------- MODULE MCScheduleRuns ---------------------------
(* ScheduleRuns for small sets of schedules and due times.                 *)
EXTENDS ScheduleRuns

CONSTANTS daily, once

\* A recurring schedule alone, and with a one-off beside it.
OneSchedule == {daily}
TwoSchedules == {daily, once}
RecurringOccurrences == [s \in OneSchedule |-> {1, 3}]
CompetingOccurrences ==
    [s \in TwoSchedules |-> IF s = daily THEN {1, 3} ELSE {1}]
=============================================================================
