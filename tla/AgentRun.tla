------------------------------ MODULE AgentRun ------------------------------
(* cursor_adapter.py: CursorAdapter.run calls the Agent's command and       *)
(* returns its answer, within max_runtime_seconds.  What the Agent says on  *)
(* its way is shown as progress, its last message is the answer.  A model   *)
(* that is used up is replaced by Auto; a provider that is unavailable is   *)
(* asked again, twice, unless the Agent has already said something.         *)
(*                                                                          *)
(* The Agent is a process and what it started itself: both hold the pipe,   *)
(* whose end is the end of the answer.                                      *)
EXTENDS AgentTrace, FiniteSets, SequencesExt

CONSTANTS
    MaxRuntime,   \* agent.max_runtime_seconds, in the units of the delays
    MaxEvents,    \* bound on what one process says
    Events,       \* what it may say at a time
    Files,        \* resources it may declare
    Models        \* models a run may be asked to use

ASSUME RunAssumption == MaxRuntime \in Nat \ {0} /\ MaxEvents \in Nat

VARIABLES
    pc,
    streaming,  \* there is a progress callback
    left,       \* time until the deadline
    wakeAt,     \* what is left when the delay before a retry is over
    model,      \* current_model
    attempt,    \* transient_attempt
    launches,   \* the processes so far: their models, and whether they said something
    leader,     \* the process, and
    helper,     \*   whether another one of its session holds the pipe
    code,       \* what the exit code and the output say
    events,     \* what the process has said
    pending,    \* pending_assistant_message
    delta,      \* output_parts
    directives, \* outgoing_directives
    shown,      \* progress, of this process
    answer, outcome, trace

vars == <<pc, streaming, left, wakeAt, model, attempt, launches, leader, helper, code,
          events, pending, delta, directives, shown, answer, outcome, trace>>

agentVars == <<leader, helper, code>>
outputVars == <<events, pending, delta, directives, shown>>

\* An event is a line of the stream: an assistant message, a report of a tool
\* or anything else, all of which may hold lines for the user and resources.
\* "odd" is a message with a character no encoding has.  The report of a tool
\* has no words of the Agent's own and no resources.
EventType ==
    {e \in [form : {"message", "tool", "delta", "odd"}, note : BOOLEAN, text : BOOLEAN,
            files : SUBSET Files] : e.form = "tool" => ~e.text /\ e.files = {}}
ASSUME EventAssumption == Events \subseteq EventType /\ IsFiniteSet(Files)

AutoModel == "auto"
Codes == {"none", "ok", "usage", "transient", "other"}
Late == left * 2 < MaxRuntime

Init ==
    /\ pc = "start" /\ streaming \in BOOLEAN
    /\ left = MaxRuntime /\ wakeAt = 0
    /\ model \in Models /\ attempt = 0 /\ launches = <<>>
    /\ leader = "none" /\ helper = FALSE /\ code = "none"
    /\ events = <<>> /\ pending = 0 /\ delta = <<>> /\ directives = <<>> /\ shown = <<>>
    /\ answer = <<>> /\ outcome = "none" /\ trace = NoTrace

-----------------------------------------------------------------------------
(* The Agent.                                                              *)

Alive == leader = "alive"

StartHelper ==
    /\ Alive /\ ~helper
    /\ helper' = TRUE
    /\ UNCHANGED <<pc, streaming, left, wakeAt, model, attempt, launches, leader, code,
                   outputVars, answer, outcome, trace>>

HelperExits ==
    /\ helper
    /\ helper' = FALSE
    /\ UNCHANGED <<pc, streaming, left, wakeAt, model, attempt, launches, leader, code,
                   outputVars, answer, outcome, trace>>

Exits(c) ==
    /\ Alive
    /\ leader' = "exited" /\ code' = c
    /\ UNCHANGED <<pc, streaming, left, wakeAt, model, attempt, launches, helper,
                   outputVars, answer, outcome, trace>>

\* Time passes.
Tick ==
    /\ left > 0 /\ pc # "ended"
    /\ left' = left - 1
    /\ UNCHANGED <<pc, streaming, wakeAt, model, attempt, launches, agentVars,
                   outputVars, answer, outcome, trace>>

-----------------------------------------------------------------------------
(* The run.                                                                *)

\* The exit is recorded last.
CloseTrace(t) == \E r \in {Record(t, 1, Late)} : trace' = Closed(r, Late)

\* The return or the exception of run.
Ends(result, t) ==
    /\ pc' = "ended" /\ outcome' = result
    /\ CloseTrace(t)

\* Mutant of Killed: the process is killed and not its group.
LeaderKilled ==
    IF Alive THEN leader' = "killed" /\ UNCHANGED helper
    ELSE UNCHANGED <<leader, helper>>

\* _kill_process_group, which does nothing once the exit code is there.
Killed ==
    IF Alive THEN leader' = "killed" /\ helper' = FALSE
    ELSE UNCHANGED <<leader, helper>>

\* The workspace, the environment or the sandbox is not what it has to be.
Refuse ==
    /\ pc = "start"
    /\ pc' = "ended" /\ outcome' = "refused"
    /\ UNCHANGED <<streaming, left, wakeAt, model, attempt, launches, agentVars,
                   outputVars, answer, trace>>

\* A process is started, unless there is no time left for it.
Launch ==
    /\ pc \in {"start", "again"}
    /\ IF left = 0
       THEN /\ Ends("timeout", Record(Opened, 1, Late))
            /\ UNCHANGED <<launches, agentVars, outputVars>>
       ELSE /\ pc' = "spawned"
            /\ launches' = Append(launches, [model |-> model, active |-> FALSE])
            /\ leader' = "alive" /\ helper' = FALSE /\ code' = "none"
            /\ events' = <<>> /\ pending' = 0 /\ delta' = <<>> /\ directives' = <<>>
            /\ shown' = <<>>
            /\ trace' = Record(Opened, 1, Late)
            /\ UNCHANGED outcome
    /\ UNCHANGED <<streaming, left, wakeAt, model, attempt, answer>>

LaunchFails ==
    /\ pc \in {"start", "again"} /\ left > 0
    /\ Ends("failed", Record(Opened, 1, Late))
    /\ UNCHANGED <<streaming, left, wakeAt, model, attempt, launches, agentVars,
                   outputVars, answer>>

Listen ==
    /\ pc = "spawned" /\ left > 0
    /\ pc' = "listen"
    /\ UNCHANGED <<streaming, left, wakeAt, model, attempt, launches, agentVars,
                   outputVars, answer, outcome, trace>>

\* Mutant of TimesOut: the Agent is listened to without a limit.
TimesOutAtStart ==
    /\ pc = "spawned" /\ left = 0
    /\ Killed
    /\ Ends("timeout", Record(trace, 1, Late))
    /\ UNCHANGED <<streaming, left, wakeAt, model, attempt, launches, code,
                   outputVars, answer>>

TimesOut ==
    /\ pc \in {"spawned", "listen"} /\ left = 0
    /\ Killed
    /\ Ends("timeout", Record(trace, 1, Late))
    /\ UNCHANGED <<streaming, left, wakeAt, model, attempt, launches, code,
                   outputVars, answer>>

Cancel ==
    /\ pc \in {"start", "again", "spawned", "listen", "delay"}
    /\ Killed
    /\ Ends("cancelled", Record(trace, 1, Late))
    /\ UNCHANGED <<streaming, left, wakeAt, model, attempt, launches, code,
                   outputVars, answer>>

-----------------------------------------------------------------------------
(* What the Agent says.                                                    *)

Note(i, e) == IF e.note THEN <<<<i, "note">>>> ELSE <<>>
Pending == IF pending = 0 THEN <<>> ELSE <<<<pending, "text">>>>

\* Mutant of FlushedBy: a pending message gives way to the next one unseen.
FlushedByTools(e) == e.form = "tool"

\* What shows the pending message as progress: every line but a message
\* without words of its own.  An empty line does, too.
FlushedBy(e) == e.form \in {"tool", "delta"} \/ e.text

\* Mutant of Retain: a resource is added as often as it is declared.
RetainAll(kept, files) == kept \o SetToSeq({0} \X files)

\* retain_outgoing_directives.
Retain(kept, files) == kept \o SetToSeq(({0} \X files) \ ToSet(kept))

\* _communicate_streaming, for one line.
Interpret(i, e) ==
    /\ shown' = shown \o (IF e.form = "message"
                          THEN Note(i, e) \o (IF FlushedBy(e) THEN Pending ELSE <<>>)
                          ELSE (IF FlushedBy(e) THEN Pending ELSE <<>>) \o Note(i, e))
    /\ pending' = IF e.form = "message" /\ e.text THEN i
                  ELSE IF FlushedBy(e) THEN 0 ELSE pending
    /\ delta' = IF e.form = "delta" /\ e.text THEN Append(delta, <<i, "text">>) ELSE delta
    /\ directives' = IF e.form = "message" THEN Retain(directives, e.files) ELSE directives

Odd(e) == e.form = "odd"
Blank(e) == e.form = "delta" /\ ~e.text /\ ~e.note /\ e.files = {}
TraceFails(t) == t.open /\ ~Marked(t)

\* A line is read.  The trace comes first, leaves out a blank line and fails on
\* an odd one, which otherwise is a message like any other.
Says(e) ==
    LET i == Len(events) + 1 IN
    /\ pc = "listen" /\ (Alive \/ helper) /\ i =< MaxEvents
    /\ events' = Append(events, e)
    /\ launches' = [launches EXCEPT ![Len(launches)].active = @ \/ ~Blank(e)]
    /\ IF ~streaming
       THEN UNCHANGED <<pc, outcome, trace, pending, delta, directives, shown>>
       ELSE IF Odd(e) /\ TraceFails(trace)
       THEN /\ Ends("error", Record(trace, 1, Late))
            /\ UNCHANGED <<pending, delta, directives, shown>>
       ELSE /\ trace' = IF Blank(e) THEN trace ELSE Record(trace, 1, Late)
            /\ Interpret(i, IF Odd(e) THEN [e EXCEPT !.form = "message"] ELSE e)
            /\ UNCHANGED <<pc, outcome>>
    /\ UNCHANGED <<streaming, left, wakeAt, model, attempt, agentVars, answer>>

-----------------------------------------------------------------------------
(* The end of the stream.                                                  *)

\* Without progress the answer is the output as it was said, less the notes:
\* nothing looks for a resource that was declared before.
Lines(i, e) ==
    (IF e.text THEN <<<<i, "text">>>> ELSE <<>>) \o SetToSeq({0} \X e.files)
Plain == FlattenSeq([i \in DOMAIN events |-> Lines(i, events[i])])

\* The resources of plain lines are looked for at the end.
LastDeclared == UNION {e.files : e \in {d \in ToSet(events) : d.form = "delta"}}

\* The answer: with progress the plain lines, or else the pending message, and
\* then the resources.
Answer ==
    IF ~streaming THEN Plain
    ELSE (IF delta # <<>> THEN delta ELSE Pending) \o Retain(directives, LastDeclared)
LastShown == IF streaming /\ delta # <<>> THEN shown \o Pending ELSE shown

Active == launches[Len(launches)].active
UsedUp == code = "usage" /\ model # AutoModel

\* Mutant of MayRetry: an Agent that has said something is called again.
RetryAnyway == code = "transient" /\ attempt < 2

MayRetry == code = "transient" /\ ~Active /\ attempt < 2
Delay == 2 ^ attempt

\* Mutant of TimeToRetry: the deadline is not asked about.
RetryLate == TRUE

TimeToRetry == left > Delay

AtEnd == pc = "listen" /\ leader = "exited" /\ ~helper

\* The whole output of a run without progress is recorded now: the raw text and
\* its lines, up to an odd one.
Recorded ==
    LET Recordable(i) == ~Blank(events[i]) /\ \A j \in 1 .. i : ~Odd(events[j]) IN
    IF streaming THEN trace
    ELSE RecordAll(trace, 1 + Cardinality({i \in DOMAIN events : Recordable(i)}), Late)
OddlySaid == ~streaming /\ (\E e \in ToSet(events) : Odd(e)) /\ TraceFails(Recorded)

FinishOddly ==
    /\ AtEnd /\ OddlySaid
    /\ Ends("error", Record(Recorded, 1, Late))
    /\ UNCHANGED <<streaming, left, wakeAt, model, attempt, launches, agentVars,
                   outputVars, answer>>

\* What the Agent wrote as errors is recorded, and the exit code is looked at.
Finish ==
    /\ AtEnd /\ ~OddlySaid
    /\ \E read \in {Recorded} : \E recorded \in {Record(read, 1, Late)} :
       CASE code = "ok" ->
              /\ answer' = Answer /\ shown' = LastShown
              /\ Ends("ok", recorded)
              /\ UNCHANGED <<model, attempt, wakeAt>>
         [] UsedUp ->
              /\ model' = AutoModel /\ attempt' = 0 /\ pc' = "again"
              /\ CloseTrace(recorded)
              /\ UNCHANGED <<wakeAt, answer, shown, outcome>>
         [] MayRetry /\ TimeToRetry ->
              /\ pc' = "delay" /\ wakeAt' = left - Delay
              /\ trace' = recorded
              /\ UNCHANGED <<model, attempt, answer, shown, outcome>>
         [] MayRetry /\ ~TimeToRetry ->
              /\ Ends("timeout", Record(recorded, 1, Late))
              /\ UNCHANGED <<model, attempt, wakeAt, answer, shown>>
         [] OTHER ->
              /\ Ends("failed", recorded)
              /\ UNCHANGED <<model, attempt, wakeAt, answer, shown>>
    /\ UNCHANGED <<streaming, left, launches, agentVars, events, pending, delta,
                   directives>>

DelayOver ==
    /\ pc = "delay" /\ left =< wakeAt
    /\ pc' = "again" /\ attempt' = attempt + 1
    /\ CloseTrace(trace)
    /\ UNCHANGED <<streaming, left, wakeAt, model, launches, agentVars, outputVars,
                   answer, outcome>>

AdapterStep ==
    \/ Refuse \/ Launch \/ LaunchFails \/ Listen \/ TimesOut \/ FinishOddly \/ Finish
    \/ DelayOver

Next ==
    \/ AdapterStep \/ Cancel \/ Tick
    \/ StartHelper \/ HelperExits
    \/ \E c \in Codes \ {"none"} : Exits(c)
    \/ \E e \in Events : Says(e)

\* The loop runs what is ready, and the clock does not stop.  Nothing is
\* assumed of the Agent.
Fairness == WF_vars(AdapterStep) /\ WF_vars(Tick)

Spec == Init /\ [][Next]_vars /\ Fairness

-----------------------------------------------------------------------------
(* Properties.                                                             *)

Parts == (0 .. MaxEvents) \X ({"note", "text"} \cup Files)

TypeOK ==
    /\ pc \in {"start", "again", "spawned", "listen", "delay", "ended"}
    /\ streaming \in BOOLEAN
    /\ left \in 0 .. MaxRuntime /\ wakeAt \in 0 .. MaxRuntime
    /\ model \in Models \cup {AutoModel} /\ attempt \in 0 .. 2
    /\ launches \in Seq([model : Models \cup {AutoModel}, active : BOOLEAN])
    /\ leader \in {"none", "alive", "exited", "killed"} /\ helper \in BOOLEAN
    /\ code \in Codes
    /\ events \in Seq(Events) /\ pending \in 0 .. MaxEvents
    /\ delta \in Seq(Parts) /\ directives \in Seq(Parts)
    /\ shown \in Seq(Parts) /\ answer \in Seq(Parts)
    /\ outcome \in {"none", "refused", "timeout", "cancelled", "error", "failed", "ok"}
    /\ trace \in [open : BOOLEAN, size : Nat, dropped : Nat,
                  log : Seq({"event", "marker"})]

Times(x, s) == Cardinality({i \in DOMAIN s : s[i] = x})

Declared == UNION {e.files : e \in ToSet(events)}
Declarations(f) == {i \in DOMAIN events : f \in events[i].files}

\* When a run has an answer, everything the Agent said is in it or was shown
\* as progress, once and not twice, and every resource it declared is in it:
\* once if there was progress, and as often as it was declared if not.
SaidOnce ==
    outcome = "ok" =>
        /\ \A i \in DOMAIN events :
              /\ events[i].text => Times(<<i, "text">>, shown \o answer) = 1
              /\ streaming /\ events[i].note => Times(<<i, "note">>, shown) = 1
        /\ \A f \in Declared : Times(<<0, f>>, answer) =
               IF streaming THEN 1 ELSE Cardinality(Declarations(f))

\* A process that has said something, and so may have done something, is not
\* followed by another one with the same model; and a model is tried three
\* times at most.
RetriesAreSilent ==
    \A i, j \in DOMAIN launches :
        i < j /\ launches[i].model = launches[j].model => ~launches[i].active /\ j =< i + 2

\* A run that is stopped, by its deadline or by its caller, leaves no process
\* of a session behind that was still there to be killed.
NoneLeft == outcome \in {"timeout", "cancelled"} /\ leader # "exited" => ~Alive /\ ~helper

\* The trace has no more than its size, and if it has a marker it is the last
\* line.
TraceFits ==
    /\ trace.size =< TraceMax
    /\ \A i \in DOMAIN trace.log : trace.log[i] = "marker" => i = Len(trace.log)

\* A run ends whatever the Agent does.
RunEnds == <>(pc = "ended")

\* docs/superpowers/specs/2026-07-16-agent-trace-design.md: a trace that cannot
\* be written does not fail the run.
TraceIsHarmless == outcome # "error"

\* The answer is empty only if the Agent had nothing to say at the end.
AnswerHasWords ==
    outcome = "ok" /\ (\E e \in ToSet(events) : e.text) => \E i \in DOMAIN answer : answer[i][2] = "text"
=============================================================================
