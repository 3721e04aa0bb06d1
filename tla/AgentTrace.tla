----------------------------- MODULE AgentTrace -----------------------------
(* agent_trace.py: the record of one Agent process, a file of bounded size. *)
(* A record that does not fit is dropped, and a marker takes its place as   *)
(* the last line.  Sizes are in units; a marker written late is longer,     *)
(* since it tells the time elapsed.                                         *)
EXTENDS Naturals, Sequences

CONSTANTS
    TraceMax,      \* agent.trace_max_bytes
    TraceEnabled   \* agent.trace_enabled

ASSUME TraceAssumption == TraceMax \in Nat \ {0} /\ TraceEnabled \in BOOLEAN

NoTrace == [open |-> FALSE, size |-> 0, dropped |-> 0, log |-> <<>>]

Marked(trace) == \E i \in DOMAIN trace.log : trace.log[i] = "marker"
MarkerSize(late) == IF late THEN 2 ELSE 1

Written(trace, what, size) ==
    [trace EXCEPT !.log = Append(@, what), !.size = @ + size]

\* Mutant of MarkerFits: the marker is written whatever there is room for.
MarkerAlways(trace, late) == TRUE

MarkerFits(trace, late) == trace.size + MarkerSize(late) =< TraceMax

\* _write_truncation_marker.
WithMarker(trace, late) ==
    IF Marked(trace) \/ ~MarkerFits(trace, late) THEN trace
    ELSE Written(trace, "marker", MarkerSize(late))

\* _append: until something was dropped, room is left for the marker.
Fits(trace, size, late) ==
    trace.size + size + (IF trace.dropped = 0 THEN MarkerSize(late) ELSE 0) =< TraceMax
Record(trace, size, late) ==
    CASE ~trace.open \/ Marked(trace) -> trace
      [] trace.open /\ ~Marked(trace) /\ Fits(trace, size, late) ->
             Written(trace, "event", size)
      [] OTHER -> WithMarker([trace EXCEPT !.dropped = @ + 1], late)

\* A number of records one after another.
RecordAll(trace, number, late) ==
    LET after[i \in 0 .. number] ==
            IF i = 0 THEN trace ELSE Record(after[i - 1], 1, late)
    IN after[number]

Opened == IF TraceEnabled
          THEN Record([NoTrace EXCEPT !.open = TRUE], 1, FALSE)
          ELSE NoTrace
Closed(trace, late) ==
    IF trace.open
    THEN [(IF trace.dropped > 0 THEN WithMarker(trace, late) ELSE trace)
              EXCEPT !.open = FALSE]
    ELSE trace
=============================================================================
