--------------------------- MODULE AgentRunProofs ---------------------------
(* What holds of an Agent run for any events, models, limits and delays.    *)
EXTENDS AgentRun, SetInduction, FiniteSetTheorems, TLAPS

-----------------------------------------------------------------------------
(* The trace.                                                              *)

Traces == [open : BOOLEAN, size : Nat, dropped : Nat, log : Seq({"event", "marker"})]

\* A trace within its size, whose marker is the last line.
Fit(t) ==
    /\ t \in Traces /\ t.size =< TraceMax
    /\ \A i \in DOMAIN t.log : t.log[i] = "marker" => i = Len(t.log)

\* A line is appended to a trace that has no marker yet and room for the line.
LEMMA WrittenFits ==
    ASSUME NEW t, Fit(t), ~Marked(t), NEW what \in {"event", "marker"}, NEW size \in Nat,
           t.size + size =< TraceMax
    PROVE  Fit(Written(t, what, size))
<1> DEFINE w == Written(t, what, size)
<1>1. /\ t \in Traces /\ t.log \in Seq({"event", "marker"}) /\ t.size \in Nat
  BY DEF Fit, Traces
<1>2. /\ w \in Traces /\ w.log = Append(t.log, what) /\ w.size = t.size + size
  <2>1. Append(t.log, what) \in Seq({"event", "marker"}) /\ t.size + size \in Nat
    BY <1>1
  <2> DEFINE log == Append(t.log, what)
  <2> DEFINE sum == t.size + size
  <2>2. w = [t EXCEPT !.log = log, !.size = sum]
    BY DEF Written
  <2> HIDE DEF w, log, sum
  <2>3. w \in Traces /\ w.log = log /\ w.size = sum
    BY <1>1, <2>1, <2>2 DEF Traces, log, sum
  <2> QED
    BY <2>3 DEF log, sum
<1>3. /\ Len(w.log) = Len(t.log) + 1 /\ DOMAIN w.log = 1 .. Len(w.log)
      /\ \A i \in 1 .. Len(t.log) : w.log[i] = t.log[i]
      /\ DOMAIN t.log = 1 .. Len(t.log) /\ Len(t.log) \in Nat
  BY <1>1, <1>2
<1>4. ASSUME NEW i \in DOMAIN w.log, w.log[i] = "marker"
      PROVE  i = Len(w.log)
  BY <1>3, <1>4 DEF Marked
<1> HIDE DEF w
<1>5. Fit(w)
  BY <1>2, <1>4, TraceAssumption DEF Fit
<1> QED
  BY <1>5 DEF w

LEMMA MarkerFitsIn ==
    ASSUME NEW t, Fit(t), NEW late
    PROVE  Fit(WithMarker(t, late))
<1>1. MarkerSize(late) \in Nat
  BY DEF MarkerSize
<1>2. CASE Marked(t) \/ ~MarkerFits(t, late)
  BY <1>2 DEF WithMarker
<1>3. CASE ~Marked(t) /\ MarkerFits(t, late)
  <2>1. Fit(Written(t, "marker", MarkerSize(late)))
    BY <1>1, <1>3, WrittenFits DEF MarkerFits
  <2> QED
    BY <1>3, <2>1 DEF WithMarker
<1> QED
  BY <1>2, <1>3

LEMMA RecordFits ==
    ASSUME NEW t, Fit(t), NEW late
    PROVE  Fit(Record(t, 1, late))
<1>1. CASE ~t.open \/ Marked(t)
  BY <1>1 DEF Record
<1>2. CASE t.open /\ ~Marked(t) /\ Fits(t, 1, late)
  <2>1. t.size + 1 =< TraceMax
    BY <1>2, TraceAssumption DEF Fits, MarkerSize, Fit, Traces
  <2>2. Fit(Written(t, "event", 1))
    BY <1>2, <2>1, WrittenFits
  <2> QED
    BY <1>2, <2>2 DEF Record
<1>3. CASE t.open /\ ~Marked(t) /\ ~Fits(t, 1, late)
  <2> DEFINE d == [t EXCEPT !.dropped = @ + 1]
  <2>1. Fit(d)
    BY DEF Fit, Traces
  <2>2. Fit(WithMarker(d, late))
    BY <2>1, MarkerFitsIn
  <2> QED
    BY <1>3, <2>2 DEF Record
<1> QED
  BY <1>1, <1>2, <1>3

LEMMA ClosedFits ==
    ASSUME NEW t, Fit(t), NEW late
    PROVE  Fit(Closed(t, late))
<1>1. Fit(WithMarker(t, late))
  BY MarkerFitsIn
<1>2. ASSUME NEW u, Fit(u)
      PROVE  Fit([u EXCEPT !.open = FALSE])
  BY <1>2 DEF Fit, Traces
<1> QED
  BY <1>1, <1>2 DEF Closed

LEMMA OpenedFits == Fit(NoTrace) /\ Fit(Opened)
<1>1. Fit(NoTrace)
  <2>1. << >> \in Seq({"event", "marker"}) /\ DOMAIN << >> = {}
    OBVIOUS
  <2>2. NoTrace \in Traces /\ NoTrace.size = 0 /\ NoTrace.log = << >>
    BY <2>1 DEF NoTrace, Traces
  <2> QED
    BY <2>1, <2>2, TraceAssumption DEF Fit
<1>2. Fit([NoTrace EXCEPT !.open = TRUE])
  BY <1>1 DEF Fit, Traces
<1>3. Fit(Record([NoTrace EXCEPT !.open = TRUE], 1, FALSE))
  BY <1>2, RecordFits
<1> QED
  BY <1>1, <1>3 DEF Opened

\* Any number of records.
LEMMA RecordAllFits ==
    ASSUME NEW t, Fit(t), NEW n \in Nat, NEW late
    PROVE  Fit(RecordAll(t, n, late))
<1> DEFINE after == CHOOSE f : f = [i \in 0 .. n |->
               IF i = 0 THEN t ELSE Record(f[i - 1], 1, late)]
<1> DEFINE D == {u \in Traces : Fit(u)}
<1>1. RecordAll(t, n, late) = after[n]
  BY DEF RecordAll
<1>2. after = [i \in 0 .. n |-> IF i = 0 THEN t ELSE Record(after[i - 1], 1, late)]
  <2> DEFINE step == [i \in 1 .. n |-> [u \in D |-> Record(u, 1, late)]]
  <2>1. t \in D /\ step \in [1 .. n -> [D -> D]]
    <3>1. \A u \in D : Record(u, 1, late) \in D
      BY RecordFits DEF Fit
    <3>2. t \in D
      BY DEF Fit
    <3> QED
      BY <3>1, <3>2
  <2> HIDE DEF step, D
  <2>2. PICK g \in [0 .. n -> D] : Iterates(g, n, t, step)
    BY <2>1, RecursionExists
  <2> USE DEF Iterates
  <2>3. \A i \in 1 .. n : step[i][g[i - 1]] = Record(g[i - 1], 1, late)
    <3>1. \A i \in 1 .. n : i - 1 \in 0 .. n
      OBVIOUS
    <3> QED
      BY <2>2, <3>1 DEF step
  <2>4. g = [i \in 0 .. n |-> IF i = 0 THEN t ELSE Record(g[i - 1], 1, late)]
    <3>1. \A i \in 0 .. n : i = 0 \/ i \in 1 .. n
      OBVIOUS
    <3> QED
      BY <2>2, <2>3, <3>1
  <2> QED
    BY <2>4
<1> HIDE DEF after
<1> DEFINE T == {i \in 0 .. n : Fit(after[i])}
<1>3. 0 \in T
  BY <1>2
<1>4. ASSUME NEW i \in 0 .. n, i \in T, i < n
      PROVE  i + 1 \in T
  <2>1. i + 1 \in 0 .. n /\ i + 1 # 0 /\ (i + 1) - 1 = i
    BY <1>4
  <2>2. after[i + 1] = Record(after[i], 1, late)
    BY <1>2, <2>1
  <2>3. Fit(Record(after[i], 1, late))
    BY <1>4, RecordFits
  <2> QED
    BY <2>1, <2>2, <2>3
<1> HIDE DEF T
<1>5. n \in T
  <2>1. 0 .. n \subseteq T
    BY <1>3, <1>4, IntervalInduction
  <2> QED
    BY <2>1
<1> QED
  BY <1>1, <1>5 DEF T

-----------------------------------------------------------------------------
(* The invariant.                                                          *)

Launched == [model : Models \cup {AutoModel}, active : BOOLEAN]

Types ==
    /\ pc \in {"start", "again", "spawned", "listen", "delay", "ended"}
    /\ attempt \in 0 .. 2 /\ launches \in Seq(Launched) /\ events \in Seq(Events)
    /\ model \in Models \cup {AutoModel} /\ helper \in BOOLEAN
    /\ leader \in {"none", "alive", "exited", "killed"}

\* What the phase of the run and its outcome tell about the processes.
Processes ==
    /\ pc = "start" => leader = "none"
    /\ pc \in {"again", "delay"} => leader = "exited"
    /\ leader \in {"none", "killed"} => ~helper
    /\ pc # "ended" => outcome = "none"
    /\ outcome \in {"timeout", "cancelled"} => leader # "alive"

\* The processes of the model in use are the last ones, one for each attempt,
\* and all but the present one were silent.
Tries ==
    LET Same(i) == launches[i].model = model
        Silent(i) == ~launches[i].active
        n == Len(launches)
    IN
    /\ RetriesAreSilent
    /\ \A i \in DOMAIN launches : model # AutoModel => launches[i].model # AutoModel
    /\ pc \in {"start", "again"} =>
           \A i \in DOMAIN launches : Same(i) => Silent(i) /\ n < i + attempt
    /\ pc \in {"spawned", "listen"} =>
           /\ n > 0 /\ Same(n)
           /\ \A i \in DOMAIN launches : Same(i) => n =< i + attempt
    /\ pc = "delay" =>
           /\ attempt < 2
           /\ \A i \in DOMAIN launches : Same(i) => Silent(i) /\ n =< i + attempt

IInv == Types /\ Processes /\ Tries /\ Fit(trace)

LEMMA InitInv == Init => IInv
<1> SUFFICES ASSUME Init
             PROVE  IInv
  OBVIOUS
<1>1. launches = << >> /\ launches \in Seq(Launched) /\ DOMAIN launches = {}
      /\ events = << >> /\ events \in Seq(Events)
  BY DEF Init
<1>2. Types
  <2>1. /\ pc = "start" /\ attempt = 0 /\ model \in Models /\ helper = FALSE /\ leader = "none"
    BY DEF Init
  <2>2. attempt \in 0 .. 2
    BY <2>1
  <2> QED
    BY <1>1, <2>1, <2>2 DEF Types
<1>3. Processes
  BY DEF Init, Processes
<1>4. Tries
  BY <1>1 DEF Init, Tries, RetriesAreSilent
<1> QED
  BY <1>2, <1>3, <1>4, OpenedFits DEF Init, IInv

-----------------------------------------------------------------------------
(* Steps.                                                                  *)

\* The processes are as they were, and the run goes on or ends.
LEMMA SameTries ==
    ASSUME Tries, UNCHANGED <<launches, model>>,
           \/ pc' = "ended"
           \/ UNCHANGED <<pc, attempt>>
           \/ pc = "spawned" /\ pc' = "listen" /\ attempt' = attempt
    PROVE  Tries'
BY DEF Tries, RetriesAreSilent

\* The trace is closed over one more record.
LEMMA CloseTraceFits ==
    ASSUME NEW t, Fit(t), CloseTrace(t)
    PROVE  Fit(trace')
<1>1. Fit(Record(t, 1, Late))
  BY RecordFits
<1>2. trace' = Closed(Record(t, 1, Late), Late)
  BY DEF CloseTrace
<1> QED
  BY <1>1, <1>2, ClosedFits

\* A new process: those before it with its model are at most two, and silent.
LEMMA LaunchTries ==
    ASSUME IInv, pc \in {"start", "again"}, pc' = "spawned",
           launches' = Append(launches, [model |-> model, active |-> FALSE]),
           UNCHANGED <<model, attempt>>
    PROVE  launches' \in Seq(Launched) /\ Tries'
<1> DEFINE n == Len(launches)
<1> DEFINE new == [model |-> model, active |-> FALSE]
<1>1. /\ launches \in Seq(Launched) /\ new \in Launched /\ attempt \in 0 .. 2
      /\ new.model = model /\ ~new.active
  BY DEF IInv, Types, Launched
<1>2. launches' = Append(launches, new)
  OBVIOUS
<1> HIDE DEF new
<1>3. /\ launches' \in Seq(Launched) /\ Len(launches') = n + 1
      /\ DOMAIN launches' = 1 .. (n + 1) /\ DOMAIN launches = 1 .. n /\ n \in Nat
      /\ \A i \in 1 .. n : launches'[i] = launches[i]
      /\ launches'[n + 1] = new
  BY <1>1, <1>2
<1> HIDE DEF n
<1>4. /\ RetriesAreSilent
      /\ \A i \in 1 .. n : model # AutoModel => launches[i].model # AutoModel
      /\ \A i \in 1 .. n : launches[i].model = model =>
             ~launches[i].active /\ n < i + attempt
  BY <1>3 DEF IInv, Tries, n
<1>5. RetriesAreSilent'
  <2> SUFFICES ASSUME NEW i \in 1 .. (n + 1), NEW j \in 1 .. (n + 1), i < j,
                      launches'[i].model = launches'[j].model
               PROVE  ~launches'[i].active /\ j =< i + 2
    BY <1>3 DEF RetriesAreSilent
  <2>1. i \in 1 .. n /\ launches'[i] = launches[i]
    BY <1>3
  <2>2. CASE j = n + 1
    BY <1>1, <1>3, <1>4, <2>1, <2>2
  <2>3. CASE j \in 1 .. n
    BY <1>3, <1>4, <2>1, <2>3 DEF RetriesAreSilent
  <2> QED
    BY <1>3, <2>2, <2>3
<1>6. \A i \in 1 .. (n + 1) : model # AutoModel => launches'[i].model # AutoModel
  BY <1>1, <1>3, <1>4
<1>7. \A i \in 1 .. (n + 1) : launches'[i].model = model => n + 1 =< i + attempt
  BY <1>1, <1>3, <1>4
<1> QED
  BY <1>1, <1>3, <1>5, <1>6, <1>7 DEF Tries

\* The process says something.
LEMMA SaysTries ==
    ASSUME IInv, pc = "listen", pc' \in {"listen", "ended"}, NEW said \in BOOLEAN,
           launches' = [launches EXCEPT ![Len(launches)].active = said],
           UNCHANGED <<model, attempt>>
    PROVE  launches' \in Seq(Launched) /\ Tries'
<1> DEFINE n == Len(launches)
<1>1. launches \in Seq(Launched) /\ n \in Nat /\ DOMAIN launches = 1 .. n
  BY DEF IInv, Types
<1>2. /\ n > 0 /\ launches[n].model = model /\ RetriesAreSilent
      /\ \A i \in 1 .. n : model # AutoModel => launches[i].model # AutoModel
      /\ \A i \in 1 .. n : launches[i].model = model => n =< i + attempt
  BY <1>1 DEF IInv, Tries
<1>3. /\ launches' \in Seq(Launched) /\ Len(launches') = n /\ DOMAIN launches' = 1 .. n
      /\ \A i \in 1 .. n : i # n => launches'[i] = launches[i]
      /\ launches'[n].model = launches[n].model
  <2>1. launches[n] \in Launched
    BY <1>1, <1>2
  <2>2. [launches[n] EXCEPT !.active = said] \in Launched
    BY <2>1 DEF Launched
  <2>3. launches' = [launches EXCEPT ![n] = [launches[n] EXCEPT !.active = said]]
    OBVIOUS
  <2>4. [launches[n] EXCEPT !.active = said].model = launches[n].model
    BY <2>1 DEF Launched
  <2> DEFINE l == [launches[n] EXCEPT !.active = said]
  <2> HIDE DEF l
  <2> QED
    BY <1>1, <1>2, <2>2, <2>3, <2>4 DEF l
<1> HIDE DEF n
<1>4. \A i \in 1 .. n : launches'[i].model = launches[i].model
  BY <1>3
<1>5. RetriesAreSilent'
  <2> SUFFICES ASSUME NEW i \in 1 .. n, NEW j \in 1 .. n, i < j,
                      launches'[i].model = launches'[j].model
               PROVE  ~launches'[i].active /\ j =< i + 2
    BY <1>3 DEF RetriesAreSilent
  <2>1. i # n /\ launches'[i] = launches[i]
    BY <1>1, <1>3
  <2> QED
    BY <1>1, <1>2, <1>4, <2>1 DEF RetriesAreSilent
<1> QED
  BY <1>2, <1>3, <1>4, <1>5 DEF Tries

\* The output is recorded.
LEMMA RecordedFits ==
    ASSUME IInv
    PROVE  Fit(Recorded)
<1>1. Fit(trace) /\ events \in Seq(Events)
  BY DEF IInv, Types
<1> DEFINE S == {i \in DOMAIN events : /\ ~Blank(events[i])
                                      /\ \A j \in 1 .. i : ~Odd(events[j])}
<1>2. Cardinality(S) \in Nat
  <2>1. DOMAIN events = 1 .. Len(events) /\ Len(events) \in Nat
    BY <1>1
  <2>2. IsFiniteSet(DOMAIN events)
    BY <2>1, FS_Interval
  <2>3. IsFiniteSet(S)
    BY <2>2, FS_Subset
  <2> QED
    BY <2>3, FS_CardinalityType
<1>3. Recorded = IF streaming THEN trace ELSE RecordAll(trace, 1 + Cardinality(S), Late)
  BY DEF Recorded
<1> HIDE DEF S
<1>4. 1 + Cardinality(S) \in Nat
  BY <1>2
<1>5. Fit(RecordAll(trace, 1 + Cardinality(S), Late))
  BY <1>1, <1>4, RecordAllFits
<1> QED
  BY <1>1, <1>3, <1>5

\* A process that exited at the end of the stream: the run has an answer, goes
\* on with Auto or another attempt, or fails.
LEMMA FinishStep ==
    ASSUME IInv, Finish
    PROVE  IInv'
<1>1. Types /\ Processes /\ Tries /\ Fit(trace)
  BY DEF IInv
<1>2. /\ pc = "listen" /\ leader = "exited" /\ ~helper
      /\ UNCHANGED <<launches, leader, helper, events>>
  BY DEF Finish, AtEnd, agentVars
<1> DEFINE n == Len(launches)
<1>3. /\ launches \in Seq(Launched) /\ n \in Nat /\ DOMAIN launches = 1 .. n /\ n > 0
      /\ RetriesAreSilent
      /\ \A i \in DOMAIN launches : model # AutoModel => launches[i].model # AutoModel
      /\ \A i \in DOMAIN launches : launches[i].model = model => n =< i + attempt
  BY <1>1, <1>2 DEF Types, Tries
<1>4. PICK recorded : /\ recorded = Record(Recorded, 1, Late)
                      /\ \/ code = "ok" /\ Ends("ok", recorded) /\ UNCHANGED <<model, attempt>>
                         \/ /\ UsedUp /\ model' = AutoModel /\ attempt' = 0 /\ pc' = "again"
                            /\ CloseTrace(recorded) /\ UNCHANGED outcome
                         \/ /\ MayRetry /\ pc' = "delay" /\ trace' = recorded
                            /\ UNCHANGED <<model, attempt, outcome>>
                         \/ /\ Ends("timeout", Record(recorded, 1, Late))
                            /\ UNCHANGED <<model, attempt>>
                         \/ Ends("failed", recorded) /\ UNCHANGED <<model, attempt>>
  BY DEF Finish
<1>5. Fit(recorded)
  BY <1>4, RecordedFits, RecordFits
<1>6. ASSUME NEW result \in {"ok", "timeout", "failed"}, NEW t, Fit(t), Ends(result, t),
             UNCHANGED <<model, attempt>>
      PROVE  IInv'
  <2>1. pc' = "ended" /\ outcome' = result /\ CloseTrace(t)
    BY <1>6 DEF Ends
  <2>2. Fit(trace')
    BY <1>6, <2>1, CloseTraceFits
  <2>3. Types' /\ Processes'
    BY <1>1, <1>2, <1>6, <2>1 DEF Types, Processes
  <2>4. UNCHANGED <<launches, model>>
    BY <1>2, <1>6
  <2>5. Tries'
    BY <1>1, <2>1, <2>4, SameTries
  <2> QED
    BY <2>2, <2>3, <2>5 DEF IInv
<1>7. CASE /\ UsedUp /\ model' = AutoModel /\ attempt' = 0 /\ pc' = "again"
           /\ CloseTrace(recorded) /\ UNCHANGED outcome
  <2>1. Fit(trace')
    BY <1>5, <1>7, CloseTraceFits
  <2>2. Types' /\ Processes'
    BY <1>1, <1>2, <1>7 DEF Types, Processes
  <2>3. \A i \in DOMAIN launches : launches[i].model # AutoModel
    BY <1>3, <1>7 DEF UsedUp
  <2>4. Tries'
    BY <1>2, <1>3, <1>7, <2>3 DEF Tries, RetriesAreSilent
  <2> QED
    BY <2>1, <2>2, <2>4 DEF IInv
<1>8. CASE MayRetry /\ pc' = "delay" /\ trace' = recorded /\ UNCHANGED <<model, attempt, outcome>>
  <2>1. ~launches[n].active /\ attempt < 2
    BY <1>8 DEF MayRetry, Active
  <2>2. Types' /\ Processes'
    BY <1>1, <1>2, <1>8 DEF Types, Processes
  <2>3. \A i \in 1 .. n : launches[i].model = model => ~launches[i].active
    <3>1. ASSUME NEW i \in 1 .. n, i # n, launches[i].model = model
          PROVE  ~launches[i].active
      <4>1. launches[n].model = model
        BY <1>1, <1>2 DEF Tries
      <4> QED
        <5>n. n \in Nat /\ n > 0 /\ DOMAIN launches = 1 .. n
          BY <1>3
        <5> HIDE DEF n
        <5>1. i < n /\ i \in DOMAIN launches /\ n \in DOMAIN launches
          BY <5>n, <3>1
        <5> QED
          BY <1>3, <3>1, <4>1, <5>1 DEF RetriesAreSilent
    <3> QED
      BY <2>1, <3>1
  <2>4. Tries'
    BY <1>2, <1>3, <1>8, <2>1, <2>3 DEF Tries, RetriesAreSilent
  <2> QED
    BY <1>5, <1>8, <2>2, <2>4 DEF IInv
<1>9. Fit(Record(recorded, 1, Late))
  BY <1>5, RecordFits
<1> QED
  BY <1>4, <1>5, <1>6, <1>7, <1>8, <1>9

LEMMA LaunchStep ==
    ASSUME IInv, Launch
    PROVE  IInv'
<1>1. Types /\ Processes /\ Tries /\ Fit(trace)
  BY DEF IInv
<1>2. CASE left = 0
  <2>1. /\ pc \in {"start", "again"} /\ pc' = "ended" /\ outcome' = "timeout"
        /\ CloseTrace(Record(Opened, 1, Late))
        /\ UNCHANGED <<launches, leader, helper, events, model, attempt>>
    BY <1>2 DEF Launch, Ends, agentVars, outputVars
  <2>2. Fit(trace')
    <3>1. Fit(Record(Opened, 1, Late))
      BY OpenedFits, RecordFits
    <3> QED
      BY <2>1, <3>1, CloseTraceFits
  <2>3. Types' /\ Processes'
    BY <1>1, <2>1 DEF Types, Processes
  <2>4. Tries'
    BY <1>1, <2>1, SameTries
  <2> QED
    BY <2>2, <2>3, <2>4 DEF IInv
<1>3. CASE left # 0
  <2>1. /\ pc \in {"start", "again"} /\ pc' = "spawned"
        /\ launches' = Append(launches, [model |-> model, active |-> FALSE])
        /\ leader' = "alive" /\ helper' = FALSE /\ events' = << >>
        /\ trace' = Record(Opened, 1, Late) /\ UNCHANGED <<outcome, model, attempt>>
    BY <1>3 DEF Launch
  <2>2. launches' \in Seq(Launched) /\ Tries'
    BY <2>1, LaunchTries
  <2>3. Fit(trace')
    BY <2>1, OpenedFits, RecordFits
  <2>4. events' \in Seq(Events)
    BY <2>1
  <2>5. Types' /\ Processes'
    BY <1>1, <2>1, <2>2, <2>4 DEF Types, Processes
  <2> QED
    BY <2>2, <2>3, <2>5 DEF IInv
<1> QED
  BY <1>2, <1>3

LEMMA SaysStep ==
    ASSUME IInv, NEW e \in Events, Says(e)
    PROVE  IInv'
<1>1. Types /\ Processes /\ Tries /\ Fit(trace)
  BY DEF IInv
<1>2. /\ pc = "listen" /\ events' = Append(events, e)
      /\ launches' = [launches EXCEPT ![Len(launches)].active = @ \/ ~Blank(e)]
      /\ UNCHANGED <<model, attempt, leader, helper>>
  BY DEF Says, agentVars
<1>3. \/ pc' = pc /\ UNCHANGED <<outcome, trace>>
      \/ Ends("error", Record(trace, 1, Late))
      \/ pc' = pc /\ UNCHANGED outcome /\ trace' \in {trace, Record(trace, 1, Late)}
  BY DEF Says
<1>4. pc' \in {"listen", "ended"}
  BY <1>2, <1>3 DEF Ends
<1>5. launches' \in Seq(Launched) /\ Tries'
  <2> DEFINE said == launches[Len(launches)].active \/ ~Blank(e)
  <2>1. said \in BOOLEAN /\ launches' = [launches EXCEPT ![Len(launches)].active = said]
    BY <1>2
  <2> HIDE DEF said
  <2> QED
    BY <1>2, <1>4, <2>1, SaysTries
<1>6. Fit(trace')
  BY <1>1, <1>3, RecordFits, CloseTraceFits DEF Ends
<1>7. events' \in Seq(Events)
  BY <1>1, <1>2 DEF Types
<1>8. Types' /\ Processes'
  BY <1>1, <1>2, <1>3, <1>4, <1>5, <1>7 DEF Types, Processes, Ends
<1> QED
  BY <1>5, <1>6, <1>8 DEF IInv

\* The run ends, or waits for the end of a delay.
LEMMA EndingStep ==
    ASSUME IInv, Refuse \/ LaunchFails \/ TimesOut \/ Cancel \/ FinishOddly
    PROVE  IInv'
<1>1. Types /\ Processes /\ Tries /\ Fit(trace)
  BY DEF IInv
<1>2. /\ pc' = "ended" /\ UNCHANGED <<launches, model, attempt, events>>
      /\ outcome' \in {"timeout", "cancelled"} => Killed
      /\ UNCHANGED <<leader, helper>> \/ Killed
  BY DEF Refuse, LaunchFails, TimesOut, Cancel, FinishOddly, Ends, agentVars, outputVars
<1>3. /\ helper' \in BOOLEAN /\ leader' \in {"none", "alive", "exited", "killed"}
      /\ leader' \in {"none", "killed"} => ~helper'
      /\ Killed => leader' # "alive"
  BY <1>1, <1>2 DEF Killed, Alive, Types, Processes
<1>4. Types' /\ Processes'
  BY <1>1, <1>2, <1>3 DEF Types, Processes
<1>5. Tries'
  BY <1>1, <1>2, SameTries
<1>6. Fit(trace')
  <2>1. trace' = trace \/ \E t \in {Record(trace, 1, Late), Record(Opened, 1, Late),
                                     Record(Recorded, 1, Late)} : CloseTrace(t)
    BY DEF Refuse, LaunchFails, TimesOut, Cancel, FinishOddly, Ends
  <2>2. \A t \in {Record(trace, 1, Late), Record(Opened, 1, Late),
                  Record(Recorded, 1, Late)} : Fit(t)
    BY <1>1, OpenedFits, RecordFits, RecordedFits
  <2> QED
    BY <1>1, <2>1, <2>2, CloseTraceFits
<1> QED
  BY <1>4, <1>5, <1>6 DEF IInv

LEMMA DelayOverStep ==
    ASSUME IInv, DelayOver
    PROVE  IInv'
<1>1. Types /\ Processes /\ Tries /\ Fit(trace)
  BY DEF IInv
<1>2. /\ pc = "delay" /\ pc' = "again" /\ attempt' = attempt + 1 /\ CloseTrace(trace)
      /\ UNCHANGED <<model, launches, leader, helper, events, outcome>>
  BY DEF DelayOver, agentVars, outputVars
<1>3. attempt' \in 0 .. 2 /\ attempt \in 0 .. 2 /\ Len(launches) \in Nat
      /\ DOMAIN launches = 1 .. Len(launches)
  BY <1>1, <1>2 DEF Tries, Types
<1>4. Types' /\ Processes'
  BY <1>1, <1>2, <1>3 DEF Types, Processes
<1>5. Tries'
  <2>1. \A i \in 1 .. Len(launches) : Len(launches) =< i + attempt => Len(launches) < i + attempt'
    BY <1>2, <1>3
  <2>2. \A i \in DOMAIN launches : launches[i].model = model =>
            ~launches[i].active /\ Len(launches) < i + attempt'
    BY <1>1, <1>2, <1>3, <2>1 DEF Tries
  <2> QED
    BY <1>1, <1>2, <2>2 DEF Tries, RetriesAreSilent
<1>6. Fit(trace')
  BY <1>1, <1>2, CloseTraceFits
<1> QED
  BY <1>4, <1>5, <1>6 DEF IInv

\* Steps of the Agent's processes, of the clock, and the run's first wait.
LEMMA QuietStep ==
    ASSUME IInv,
           \/ Listen \/ Tick \/ StartHelper \/ HelperExits \/ UNCHANGED vars
           \/ \E c \in Codes \ {"none"} : Exits(c)
    PROVE  IInv'
<1>1. Types /\ Processes /\ Tries /\ Fit(trace)
  BY DEF IInv
<1>2. /\ UNCHANGED <<model, attempt, launches, events, outcome, trace>>
      /\ UNCHANGED pc \/ (pc = "spawned" /\ pc' = "listen")
  BY DEF Listen, Tick, StartHelper, HelperExits, Exits, vars, agentVars, outputVars
<1>3. \/ UNCHANGED <<leader, helper>>
      \/ leader = "alive" /\ leader' = leader /\ helper' = TRUE
      \/ leader' = leader /\ helper' = FALSE
      \/ leader = "alive" /\ leader' = "exited" /\ helper' = helper
  BY DEF Listen, Tick, StartHelper, HelperExits, Exits, Alive, vars, agentVars, outputVars
<1>4. /\ helper' \in BOOLEAN /\ leader' \in {"none", "alive", "exited", "killed"}
      /\ leader' \in {"none", "killed"} => ~helper'
      /\ leader \in {"none", "exited", "killed"} => leader' = leader
      /\ leader' = "alive" => leader = "alive"
  <2>1. /\ leader \in {"none", "alive", "exited", "killed"} /\ helper \in BOOLEAN
        /\ leader \in {"none", "killed"} => ~helper
    BY <1>1 DEF Types, Processes
  <2>2. CASE UNCHANGED <<leader, helper>>
    BY <2>1, <2>2
  <2>3. CASE leader = "alive" /\ leader' = leader /\ helper' = TRUE
    BY <2>1, <2>3
  <2>4. CASE leader' = leader /\ helper' = FALSE
    BY <2>1, <2>4
  <2>5. CASE leader = "alive" /\ leader' = "exited" /\ helper' = helper
    BY <2>1, <2>5
  <2> QED
    BY <1>3, <2>2, <2>3, <2>4, <2>5
<1>5. Types'
  BY <1>1, <1>2, <1>4 DEF Types
<1>6. Processes'
  BY <1>1, <1>2, <1>4 DEF Processes
<1>7. Tries'
  BY <1>1, <1>2, SameTries
<1> QED
  BY <1>1, <1>2, <1>5, <1>6, <1>7 DEF IInv

LEMMA NextInv == IInv /\ [Next]_vars => IInv'
<1> SUFFICES ASSUME IInv, [Next]_vars
             PROVE  IInv'
  OBVIOUS
<1>1. ASSUME NEW e \in Events, Says(e)
      PROVE  IInv'
  BY <1>1, SaysStep
<1>2. CASE Finish \/ Launch \/ DelayOver
  BY <1>2, FinishStep, LaunchStep, DelayOverStep
<1>3. CASE Refuse \/ LaunchFails \/ TimesOut \/ Cancel \/ FinishOddly
  BY <1>3, EndingStep
<1>4. CASE \/ Listen \/ Tick \/ StartHelper \/ HelperExits \/ UNCHANGED vars
           \/ \E c \in Codes \ {"none"} : Exits(c)
  BY <1>4, QuietStep
<1> QED
  BY <1>1, <1>2, <1>3, <1>4 DEF Next, AdapterStep

LEMMA Invariant == Spec => []IInv
<1> QED
  BY InitInv, NextInv, PTL DEF Spec

-----------------------------------------------------------------------------
(* How often something is in a sequence.                                   *)

LEMMA TimesType ==
    ASSUME NEW S, NEW s \in Seq(S), NEW x
    PROVE  /\ Times(x, s) \in Nat /\ IsFiniteSet({i \in DOMAIN s : s[i] = x})
           /\ x \notin S => Times(x, s) = 0
<1> DEFINE D == {i \in DOMAIN s : s[i] = x}
<1>1. DOMAIN s = 1 .. Len(s) /\ Len(s) \in Nat
  OBVIOUS
<1>2. IsFiniteSet(1 .. Len(s))
  BY <1>1, FS_Interval
<1>3. IsFiniteSet(D)
  BY <1>1, <1>2, FS_Subset
<1>4. x \notin S => D = {}
  OBVIOUS
<1> QED
  BY <1>3, <1>4, FS_CardinalityType, FS_EmptySet DEF Times

LEMMA TimesOfFew ==
    ASSUME NEW x
    PROVE  /\ Times(x, << >>) = 0
           /\ \A y : Times(x, <<y>>) = IF y = x THEN 1 ELSE 0
<1>1. {i \in DOMAIN << >> : << >>[i] = x} = {}
  OBVIOUS
<1>2. ASSUME NEW y
      PROVE  {i \in DOMAIN <<y>> : <<y>>[i] = x} = IF y = x THEN {1} ELSE {}
  OBVIOUS
<1> QED
  BY <1>1, <1>2, FS_EmptySet, FS_Singleton DEF Times

LEMMA TimesOfBoth ==
    ASSUME NEW S, NEW s \in Seq(S), NEW t \in Seq(S), NEW x
    PROVE  s \o t \in Seq(S) /\ Times(x, s \o t) = Times(x, s) + Times(x, t)
<1> DEFINE n == Len(s)
<1> DEFINE A == {i \in DOMAIN s : s[i] = x}
<1> DEFINE B == {i \in DOMAIN t : t[i] = x}
<1> DEFINE C == {i \in (n + 1) .. (n + Len(t)) : t[i - n] = x}
<1> DEFINE W == {i \in DOMAIN (s \o t) : (s \o t)[i] = x}
<1>1. /\ n \in Nat /\ Len(t) \in Nat /\ DOMAIN s = 1 .. n /\ DOMAIN t = 1 .. Len(t)
      /\ s \o t \in Seq(S) /\ Len(s \o t) = n + Len(t) /\ DOMAIN (s \o t) = 1 .. (n + Len(t))
      /\ \A i \in 1 .. (n + Len(t)) : (s \o t)[i] = IF i =< n THEN s[i] ELSE t[i - n]
  OBVIOUS
<1>2. W = A \cup C /\ A \cap C = {}
  <2> HIDE DEF n
  <2>1. W = {i \in 1 .. (n + Len(t)) : (IF i =< n THEN s[i] ELSE t[i - n]) = x}
    BY <1>1
  <2>2. A = {i \in 1 .. n : s[i] = x}
    BY <1>1
  <2> HIDE DEF W, A
  <2> QED
    BY <1>1, <2>1, <2>2
<1> HIDE DEF n, W
<1>3. IsFiniteSet(A) /\ IsFiniteSet(B)
  BY TimesType
<1>4. IsFiniteSet(C) /\ Cardinality(C) = Cardinality(B)
  <2> DEFINE f == [i \in B |-> i + n]
  <2>1. f \in [B -> C]
    BY <1>1
  <2>2. \A i, j \in B : f[i] = f[j] => i = j
    BY <1>1
  <2>3. \A j \in C : \E i \in B : f[i] = j
    <3> TAKE j \in C
    <3>1. j - n \in B /\ (j - n) + n = j
      BY <1>1
    <3> QED
      BY <3>1
  <2>4. f \in Bijection(B, C)
    BY <2>1, <2>2, <2>3 DEF Bijection, Injection, Surjection, IsInjective
  <2> QED
    BY <1>3, <2>4, FS_Bijection DEF ExistsBijection
<1>5. Cardinality(W) = Cardinality(A) + Cardinality(C)
  <2>1. Cardinality(A) \in Nat /\ Cardinality(C) \in Nat /\ Cardinality(A \cap C) = 0
    BY <1>2, <1>3, <1>4, FS_CardinalityType, FS_EmptySet
  <2>2. Cardinality(A \cup C) = Cardinality(A) + Cardinality(C) - Cardinality(A \cap C)
    BY <1>3, <1>4, FS_Union
  <2> QED
    BY <1>2, <2>1, <2>2
<1> QED
  BY <1>1, <1>4, <1>5 DEF Times, W

LEMMA AppendedOne ==
    ASSUME NEW S, NEW s \in Seq(S), NEW x \in S
    PROVE  <<x>> \in Seq(S) /\ Append(s, x) = s \o <<x>>
OBVIOUS

\* A set in some order has each of its members once.
LEMMA TimesInOrder ==
    ASSUME NEW S, IsFiniteSet(S)
    PROVE  SetToSeq(S) \in Seq(S) /\ \A x \in S : Times(x, SetToSeq(S)) = 1
<1> DEFINE n == Cardinality(S)
<1>1. n \in Nat /\ ExistsBijection(1 .. n, S)
  BY FS_CardinalityType
<1>2. PICK g \in [1 .. n -> S] : IsInjective(g)
  BY <1>1 DEF ExistsBijection, Bijection, Injection
<1> DEFINE f == SetToSeq(S)
<1>3. f \in [1 .. n -> S] /\ IsInjective(f)
  BY <1>2 DEF SetToSeq
<1> HIDE DEF f, n
<1>4. f \in Injection(1 .. n, S)
  BY <1>3 DEF Injection
<1>5. f \in Surjection(1 .. n, S)
  <2>1. IsFiniteSet(1 .. n) /\ Cardinality(1 .. n) = n
    <3>1. Cardinality(1 .. n) = IF 1 > n THEN 0 ELSE n - 1 + 1
      BY <1>1, FS_Interval
    <3> QED
      BY <1>1, <3>1, FS_Interval
  <2> QED
    BY <1>4, <2>1, FS_Injection DEF n
<1>6. f \in Seq(S) /\ DOMAIN f = 1 .. n
  BY <1>1, <1>3
<1>7. ASSUME NEW x \in S
      PROVE  Times(x, f) = 1
  <2>1. PICK i \in 1 .. n : f[i] = x
    BY <1>5 DEF Surjection
  <2>2. {j \in DOMAIN f : f[j] = x} = {i}
    BY <1>3, <1>6, <2>1 DEF IsInjective
  <2> QED
    BY <2>2, FS_Singleton DEF Times
<1> QED
  BY <1>6, <1>7 DEF f

\* count[k] is how often x is in the first k of n sequences over S.
Counts(x, S, s, n, count) ==
    /\ n \in Nat /\ s \in [1 .. n -> Seq(S)]
    /\ count \in [0 .. n -> Nat] /\ count[0] = 0
    /\ \A k \in 1 .. n : count[k] = count[k - 1] + Times(x, s[k])

\* How often x is in sequences one after another: the sum of how often it is in
\* each of them.
LEMMA TimesOfAll ==
    ASSUME NEW S, NEW n, NEW s, NEW x, NEW count, Counts(x, S, s, n, count)
    PROVE  FlattenSeq(s) \in Seq(S) /\ Times(x, FlattenSeq(s)) = count[n]
<1> USE DEF Counts
<1>0. s \in Seq(Seq(S)) /\ Len(s) = n
  OBVIOUS
<1>1. CASE n = 0
  <2>1. s = << >> /\ FlattenSeq(s) = << >> /\ << >> \in Seq(S)
    BY <1>0, <1>1 DEF FlattenSeq
  <2> QED
    BY <1>1, <2>1, TimesOfFew
<1>2. CASE n # 0
  <2> DEFINE body(f) == [i \in 1 .. n |-> IF i = 1 THEN s[i] ELSE f[i - 1] \o s[i]]
  <2> DEFINE after == CHOOSE f : f = body(f)
  <2>1. FlattenSeq(s) = after[n]
    BY <1>0, <1>2 DEF FlattenSeq
  <2>2. after = body(after)
    <3> DEFINE D == Seq(S)
    <3> DEFINE step == [i \in 1 .. n |-> [u \in D |-> u \o s[i]]]
    <3>1. << >> \in D /\ step \in [1 .. n -> [D -> D]]
      OBVIOUS
    <3> HIDE DEF step, D
    <3>2. PICK g \in [0 .. n -> D] : Iterates(g, n, << >>, step)
      BY <3>1, RecursionExists
    <3>3. ASSUME NEW i \in 1 .. n
          PROVE  g[i] = g[i - 1] \o s[i]
      <4>1. i - 1 \in 0 .. n /\ g[i - 1] \in D
        BY <3>2
      <4>2. g[i] = step[i][g[i - 1]]
        BY <3>2 DEF Iterates
      <4> QED
        BY <4>1, <4>2 DEF step
    <3>4. g[0] = << >> /\ 1 \in 1 .. n /\ s[1] \in Seq(S)
      BY <1>2, <3>2 DEF Iterates
    <3>5. g[1] = s[1]
      <4>1. g[1] = g[1 - 1] \o s[1] /\ 1 - 1 = 0
        BY <3>3, <3>4
      <4> QED
        BY <3>4, <4>1
    <3> DEFINE h == [i \in 1 .. n |-> g[i]]
    <3>6. h = body(h)
      <4>1. ASSUME NEW i \in 1 .. n
            PROVE  h[i] = IF i = 1 THEN s[i] ELSE h[i - 1] \o s[i]
        <5>1. i # 1 => i - 1 \in 1 .. n
          OBVIOUS
        <5> QED
          BY <3>3, <3>5, <5>1
      <4> QED
        BY <4>1
    <3> HIDE DEF body, h
    <3> QED
      BY <3>6
  <2> HIDE DEF after
  <2> DEFINE T == {k \in 0 .. n : k # 0 => after[k] \in Seq(S) /\ Times(x, after[k]) = count[k]}
  <2>3. 0 \in T
    OBVIOUS
  <2>4. ASSUME NEW k \in 0 .. n, k \in T, k < n
        PROVE  k + 1 \in T
    <3>1. k + 1 \in 1 .. n /\ k + 1 \in 0 .. n /\ (k + 1) - 1 = k /\ s[k + 1] \in Seq(S)
      BY <2>4
    <3>2. count[k + 1] = count[k] + Times(x, s[k + 1]) /\ Times(x, s[k + 1]) \in Nat
      BY <3>1, TimesType
    <3>3. after[k + 1] = IF k + 1 = 1 THEN s[k + 1] ELSE after[k] \o s[k + 1]
      BY <2>2, <3>1
    <3>4. CASE k = 0
      BY <3>1, <3>2, <3>3, <3>4
    <3>5. CASE k # 0
      <4>1. after[k] \in Seq(S) /\ Times(x, after[k]) = count[k] /\ k + 1 # 1
        BY <2>4, <3>5
      <4>2. /\ after[k] \o s[k + 1] \in Seq(S)
            /\ Times(x, after[k] \o s[k + 1]) = Times(x, after[k]) + Times(x, s[k + 1])
        BY <3>1, <4>1, TimesOfBoth
      <4> QED
        BY <3>1, <3>2, <3>3, <4>1, <4>2
    <3> QED
      BY <3>4, <3>5
  <2> HIDE DEF T, body
  <2>5. n \in T
    <3>1. 0 .. n \subseteq T
      BY <2>3, <2>4, IntervalInduction
    <3> QED
      BY <3>1
  <2> QED
    BY <1>2, <2>1, <2>5 DEF T
<1> QED
  BY <1>1, <1>2

\* The members of a set up to a number, counted as the number grows.
LEMMA CountedUp ==
    ASSUME NEW n \in Nat, NEW S \in SUBSET (1 .. n), NEW k \in 0 .. n
    PROVE  /\ Cardinality(S \cap (1 .. k)) \in Nat
           /\ k = 0 => Cardinality(S \cap (1 .. k)) = 0
           /\ k # 0 => Cardinality(S \cap (1 .. k)) =
                  Cardinality(S \cap (1 .. (k - 1))) + (IF k \in S THEN 1 ELSE 0)
           /\ k = n => S \cap (1 .. k) = S
<1>1. /\ IsFiniteSet(S \cap (1 .. k)) /\ IsFiniteSet(S \cap (1 .. (k - 1)))
  <2>1. IsFiniteSet(1 .. k) /\ IsFiniteSet(1 .. (k - 1))
    BY FS_Interval
  <2> QED
    BY <2>1, FS_Subset
<1>2. k = 0 => S \cap (1 .. k) = {}
  OBVIOUS
<1> DEFINE grows == Cardinality(S \cap (1 .. k)) =
                        Cardinality(S \cap (1 .. (k - 1))) + (IF k \in S THEN 1 ELSE 0)
<1>3. ASSUME k # 0, k \in S
      PROVE  grows
  <2>1. /\ S \cap (1 .. k) = (S \cap (1 .. (k - 1))) \cup {k}
        /\ k \notin S \cap (1 .. (k - 1)) /\ k \in Int
    BY <1>3
  <2>2. Cardinality((S \cap (1 .. (k - 1))) \cup {k}) = Cardinality(S \cap (1 .. (k - 1))) + 1
    BY <1>1, <2>1, FS_AddElement
  <2> QED
    BY <1>1, <1>3, <2>1, <2>2, FS_CardinalityType
<1>4. ASSUME k # 0, k \notin S
      PROVE  grows
  <2>1. S \cap (1 .. k) = S \cap (1 .. (k - 1))
    BY <1>4
  <2>2. Cardinality(S \cap (1 .. (k - 1))) \in Nat
    BY <1>1, FS_CardinalityType
  <2> QED
    BY <1>4, <2>1, <2>2
<1>5. k = n => S \cap (1 .. k) = S
  OBVIOUS
<1>6. Cardinality(S \cap (1 .. k)) \in Nat
  BY <1>1, FS_CardinalityType
<1>7. k = 0 => Cardinality(S \cap (1 .. k)) = 0
  BY <1>2, FS_EmptySet
<1>8. k # 0 => grows
  BY <1>3, <1>4
<1> QED
  BY <1>5, <1>6, <1>7, <1>8

-----------------------------------------------------------------------------
(* What is said.                                                           *)

Words == (1 .. MaxEvents) \X {"note", "text"}
Resource == {0} \X Files
Part == Words \cup Resource
Told(i) == IF i \in DOMAIN events /\ events[i].text THEN 1 ELSE 0
Noted(i) == IF i \in DOMAIN events /\ events[i].note THEN 1 ELSE 0

\* As long as there is no outcome, a text is shown, pending or in the parts of
\* the answer, once, and a note is shown, once.
KeptOnce(i) ==
    /\ Times(<<i, "text">>, shown) + Times(<<i, "text">>, delta)
           + (IF pending = i THEN 1 ELSE 0) = Told(i)
    /\ Times(<<i, "note">>, shown) = Noted(i)

Kept == \A i \in 1 .. MaxEvents : KeptOnce(i)

\* The resources that messages have declared are retained, once.
Named == UNION {e.files : e \in {d \in ToSet(events) : d.form # "delta"}}
Retained == \A f \in Files : Times(<<0, f>>, directives) = IF f \in Named THEN 1 ELSE 0

Heard ==
    /\ Len(events) =< MaxEvents /\ pending \in 0 .. MaxEvents
    /\ delta \in Seq(Words) /\ shown \in Seq(Words) /\ streaming \in BOOLEAN
    /\ directives \in Seq(Resource)
    /\ ~streaming => shown = << >>
    /\ streaming /\ outcome = "none" => Kept /\ Retained
    /\ SaidOnce

\* The step changes nothing that was said, and the run has no answer yet.
LEMMA SameHeard ==
    ASSUME Heard, UNCHANGED <<streaming, events, pending, delta, directives, shown, answer>>,
           outcome' = outcome \/ outcome' \notin {"none", "ok"}
    PROVE  Heard'
BY DEF Heard, SaidOnce, Kept, KeptOnce, Told, Noted, Retained, Named, Declared, Declarations

\* What a pending message and the note of an event add.
LEMMA AddedParts ==
    ASSUME NEW i \in 1 .. MaxEvents, NEW e, pending \in 0 .. MaxEvents
    PROVE  /\ Note(i, e) \in Seq(Words) /\ Pending \in Seq(Words)
           /\ \A j \in 1 .. MaxEvents :
                 /\ Times(<<j, "text">>, Note(i, e)) = 0
                 /\ Times(<<j, "note">>, Note(i, e)) = IF j = i /\ e.note THEN 1 ELSE 0
                 /\ Times(<<j, "text">>, Pending) = IF pending = j THEN 1 ELSE 0
                 /\ Times(<<j, "note">>, Pending) = 0
<1>1. /\ <<i, "note">> \in Words
      /\ pending # 0 => pending \in 1 .. MaxEvents /\ <<pending, "text">> \in Words
  BY DEF Words
<1>2. Note(i, e) \in Seq(Words) /\ Pending \in Seq(Words)
  BY <1>1 DEF Note, Pending
<1>3. ASSUME NEW j \in 1 .. MaxEvents
      PROVE  /\ <<j, "text">> # <<i, "note">> /\ <<j, "note">> # <<pending, "text">>
             /\ <<j, "note">> = <<i, "note">> <=> j = i
             /\ <<j, "text">> = <<pending, "text">> <=> j = pending
  OBVIOUS
<1>4. ASSUME NEW j \in 1 .. MaxEvents
      PROVE  /\ Times(<<j, "text">>, Note(i, e)) = 0
             /\ Times(<<j, "note">>, Note(i, e)) = IF j = i /\ e.note THEN 1 ELSE 0
  BY <1>3, TimesOfFew DEF Note
<1>5. ASSUME NEW j \in 1 .. MaxEvents
      PROVE  /\ Times(<<j, "text">>, Pending) = IF pending = j THEN 1 ELSE 0
             /\ Times(<<j, "note">>, Pending) = 0
  <2>1. CASE pending = 0
    BY <2>1, TimesOfFew DEF Pending
  <2>2. CASE pending # 0
    <3>1. Pending = <<<<pending, "text">>>>
      BY <2>2 DEF Pending
    <3> QED
      BY <1>3, <3>1, TimesOfFew
  <2> QED
    BY <2>1, <2>2
<1> QED
  BY <1>2, <1>4, <1>5

\* A line is interpreted.
LEMMA InterpretHeard ==
    ASSUME Heard, streaming, Kept, NEW e \in EventType, NEW f \in EventType,
           f.note = e.note, f.text = e.text, f.form # "odd",
           Len(events) + 1 =< MaxEvents, events \in Seq(Events), e \in Events,
           events' = Append(events, e), Interpret(Len(events) + 1, f)
    PROVE  /\ Len(events') =< MaxEvents /\ pending' \in 0 .. MaxEvents
           /\ delta' \in Seq(Words) /\ shown' \in Seq(Words) /\ Kept'
<1> DEFINE n == Len(events) + 1
<1>1. /\ n \in 1 .. MaxEvents /\ Len(events') = n /\ MaxEvents \in Nat
      /\ DOMAIN events = 1 .. Len(events) /\ DOMAIN events' = 1 .. n /\ Len(events) \in Nat
      /\ \A j \in 1 .. Len(events) : events'[j] = events[j]
      /\ events'[n] = e
  BY RunAssumption
<1> HIDE DEF n
<1>2. \A j \in 1 .. MaxEvents :
          /\ Told(j)' = Told(j) + (IF j = n /\ e.text THEN 1 ELSE 0)
          /\ Noted(j)' = Noted(j) + (IF j = n /\ e.note THEN 1 ELSE 0)
  BY <1>1 DEF Told, Noted, n
<1>3. /\ pending \in 0 .. MaxEvents /\ delta \in Seq(Words) /\ shown \in Seq(Words)
      /\ <<n, "text">> \in Words /\ Interpret(n, f)
  BY <1>1 DEF Heard, Words, n
<1> DEFINE N == Note(n, f)
<1> DEFINE P == Pending
<1>4. /\ N \in Seq(Words) /\ P \in Seq(Words)
      /\ \A j \in 1 .. MaxEvents :
            /\ Times(<<j, "text">>, N) = 0
            /\ Times(<<j, "note">>, N) = IF j = n /\ e.note THEN 1 ELSE 0
            /\ Times(<<j, "text">>, P) = IF pending = j THEN 1 ELSE 0
            /\ Times(<<j, "note">>, P) = 0
  <2>1. /\ Note(n, f) \in Seq(Words) /\ Pending \in Seq(Words)
        /\ \A j \in 1 .. MaxEvents :
              /\ Times(<<j, "text">>, Note(n, f)) = 0
              /\ Times(<<j, "note">>, Note(n, f)) = IF j = n /\ f.note THEN 1 ELSE 0
              /\ Times(<<j, "text">>, Pending) = IF pending = j THEN 1 ELSE 0
              /\ Times(<<j, "note">>, Pending) = 0
    BY <1>1, <1>3, AddedParts
  <2> QED
    BY <2>1
<1>5. f.form \in {"message", "tool", "delta"} /\ (f.form = "tool" => ~e.text)
  BY DEF EventType
<1> DEFINE both == IF f.form = "message" THEN N \o P ELSE P \o N
<1>6. /\ shown' = shown \o (IF FlushedBy(f) THEN both ELSE N)
      /\ pending' = IF f.form = "message" /\ e.text THEN n
                    ELSE IF FlushedBy(f) THEN 0 ELSE pending
      /\ delta' = IF f.form = "delta" /\ e.text THEN Append(delta, <<n, "text">>) ELSE delta
  <2>1. N \o << >> = N /\ << >> \o N = N
    BY <1>4
  <2> HIDE DEF N, P
  <2>2. /\ shown' = shown \o (IF f.form = "message"
                              THEN N \o (IF FlushedBy(f) THEN P ELSE << >>)
                              ELSE (IF FlushedBy(f) THEN P ELSE << >>) \o N)
        /\ pending' = IF f.form = "message" /\ e.text THEN n
                      ELSE IF FlushedBy(f) THEN 0 ELSE pending
        /\ delta' = IF f.form = "delta" /\ e.text THEN Append(delta, <<n, "text">>) ELSE delta
    BY <1>3 DEF Interpret, N, P
  <2> QED
    BY <2>1, <2>2
<1> HIDE DEF N, P
<1>7. /\ both \in Seq(Words) /\ shown' \in Seq(Words)
      /\ \A x : /\ Times(x, both) = Times(x, N) + Times(x, P)
                /\ Times(x, shown') = Times(x, shown)
                       + Times(x, IF FlushedBy(f) THEN both ELSE N)
  <2>1. both \in Seq(Words) /\ \A x : Times(x, both) = Times(x, N) + Times(x, P)
    <3>1. ASSUME NEW x
          PROVE  Times(x, N) \in Nat /\ Times(x, P) \in Nat
      BY <1>4, TimesType
    <3>2. N \o P \in Seq(Words) /\ P \o N \in Seq(Words)
      BY <1>4
    <3>3. ASSUME NEW x
          PROVE  /\ Times(x, N \o P) = Times(x, N) + Times(x, P)
                 /\ Times(x, P \o N) = Times(x, P) + Times(x, N)
      BY <1>4, TimesOfBoth
    <3> QED
      BY <3>1, <3>2, <3>3
  <2> HIDE DEF both
  <2>2. (IF FlushedBy(f) THEN both ELSE N) \in Seq(Words)
    BY <1>4, <2>1
  <2> QED
    BY <1>3, <1>6, <2>1, <2>2, TimesOfBoth
<1> HIDE DEF both
<1>8. /\ delta' \in Seq(Words)
      /\ \A j \in 1 .. MaxEvents :
            Times(<<j, "text">>, delta') = Times(<<j, "text">>, delta)
                + (IF f.form = "delta" /\ e.text /\ j = n THEN 1 ELSE 0)
  <2>0. \A x : Times(x, delta) \in Nat
    BY <1>3, TimesType
  <2>1. CASE f.form = "delta" /\ e.text
    <3>1. <<<<n, "text">>>> \in Seq(Words) /\ delta' = delta \o <<<<n, "text">>>>
      <4> DEFINE w == <<n, "text">>
      <4>1. delta' = Append(delta, w) /\ w \in Words /\ delta \in Seq(Words)
        BY <1>3, <1>6, <2>1
      <4> HIDE DEF w
      <4>2. <<w>> \in Seq(Words) /\ Append(delta, w) = delta \o <<w>>
        BY <4>1, AppendedOne
      <4> QED
        BY <4>1, <4>2 DEF w
    <3>2. ASSUME NEW j \in 1 .. MaxEvents
          PROVE  Times(<<j, "text">>, delta') = Times(<<j, "text">>, delta)
                     + (IF j = n THEN 1 ELSE 0)
      <4>1. /\ delta' \in Seq(Words)
            /\ Times(<<j, "text">>, delta') = Times(<<j, "text">>, delta)
                   + Times(<<j, "text">>, <<<<n, "text">>>>)
        BY <1>3, <3>1, TimesOfBoth
      <4>2. Times(<<j, "text">>, <<<<n, "text">>>>) = IF j = n THEN 1 ELSE 0
        BY TimesOfFew
      <4> QED
        BY <4>1, <4>2
    <3>3. delta' \in Seq(Words)
      BY <1>3, <3>1
    <3> QED
      BY <2>1, <3>2, <3>3
  <2>2. CASE ~(f.form = "delta" /\ e.text)
    BY <1>3, <1>6, <2>0, <2>2
  <2> QED
    BY <2>1, <2>2
<1>9. ASSUME NEW j \in 1 .. MaxEvents
      PROVE  /\ Times(<<j, "text">>, shown') + Times(<<j, "text">>, delta')
                    + (IF pending' = j THEN 1 ELSE 0) = Told(j)'
             /\ Times(<<j, "note">>, shown') = Noted(j)'
  <2>1. /\ Times(<<j, "text">>, shown) \in Nat /\ Times(<<j, "text">>, delta) \in Nat
        /\ Times(<<j, "note">>, shown) \in Nat
    BY <1>3, TimesType
  <2>2. /\ Times(<<j, "text">>, shown) + Times(<<j, "text">>, delta)
                + (IF pending = j THEN 1 ELSE 0) = Told(j)
        /\ Times(<<j, "note">>, shown) = Noted(j)
    BY DEF Kept, KeptOnce
  <2> DEFINE x == <<j, "text">>
  <2> DEFINE y == <<j, "note">>
  <2>3. /\ Times(x, shown') = Times(x, shown)
                + (IF FlushedBy(f) /\ pending = j THEN 1 ELSE 0)
        /\ Times(y, shown') = Times(y, shown) + (IF j = n /\ e.note THEN 1 ELSE 0)
    <3>1. /\ Times(x, N) = 0 /\ Times(y, P) = 0
          /\ Times(y, N) = IF j = n /\ e.note THEN 1 ELSE 0
          /\ Times(x, P) = IF pending = j THEN 1 ELSE 0
      BY <1>4
    <3> HIDE DEF x, y
    <3> QED
      BY <1>7, <2>1, <3>1
  <2>4. Times(x, delta') = Times(x, delta)
            + (IF f.form = "delta" /\ e.text /\ j = n THEN 1 ELSE 0)
    BY <1>8
  <2>5. FlushedBy(f) <=> f.form \in {"tool", "delta"} \/ e.text
    BY DEF FlushedBy
  <2>6. Times(x, shown') + Times(x, delta') + (IF pending' = j THEN 1 ELSE 0) = Told(j)'
    <3>1. pending' = IF f.form = "message" /\ e.text THEN n
                     ELSE IF f.form \in {"tool", "delta"} \/ e.text THEN 0 ELSE pending
      BY <1>6, <2>5
    <3>2. Told(j)' = Told(j) + (IF j = n /\ e.text THEN 1 ELSE 0)
      BY <1>2
    <3>3. f.form # "message" => f.form \in {"tool", "delta"}
      BY <1>5
    <3>4. f.form = "tool" => ~e.text
      BY <1>5
    <3>5. e.text \in BOOLEAN
      BY DEF EventType
    <3> DEFINE s == Times(x, shown)
    <3> DEFINE d == Times(x, delta)
    <3> DEFINE a == IF pending = j THEN 1 ELSE 0
    <3>6. s \in Nat /\ d \in Nat /\ a \in Nat /\ s + d + a = Told(j)
      BY <2>1, <2>2
    <3> HIDE DEF s, d, x
    <3>7. n # 0 /\ j # 0
      BY <1>1
    <3>8. CASE f.form = "message" /\ e.text
      <4>1. pending' = n /\ Times(x, shown') = s + a /\ Times(x, delta') = d
        BY <2>3, <2>4, <2>5, <3>1, <3>6, <3>8 DEF s, d
      <4> DEFINE b == IF pending' = j THEN 1 ELSE 0
      <4>2. Told(j)' = Told(j) + b /\ b \in Nat
        BY <3>2, <3>8, <4>1
      <4>3. Times(x, shown') = s + a /\ Times(x, delta') = d
        BY <4>1
      <4> HIDE DEF a, b
      <4>4. Times(x, shown') + Times(x, delta') + b = Told(j)'
        BY <3>6, <4>2, <4>3
      <4> QED
        BY <4>4 DEF b
    <3>9. CASE f.form = "message" /\ ~e.text
      <4>1. pending' = pending /\ Times(x, shown') = s /\ Times(x, delta') = d
        BY <2>3, <2>4, <2>5, <3>1, <3>6, <3>9 DEF s, d
      <4>2. Told(j)' = Told(j)
        BY <3>2, <3>6, <3>9
      <4> QED
        BY <3>6, <4>1, <4>2
    <3>10. CASE f.form # "message"
      <4> DEFINE b == IF j = n /\ e.text THEN 1 ELSE 0
      <4>1. pending' = 0 /\ Times(x, shown') = s + a /\ Times(x, delta') = d + b
        BY <2>3, <2>4, <2>5, <3>1, <3>3, <3>4, <3>6, <3>10 DEF s, d
      <4>2. Told(j)' = Told(j) + b /\ b \in Nat
        BY <3>2
      <4>3. (IF pending' = j THEN 1 ELSE 0) = 0
        BY <3>7, <4>1
      <4> HIDE DEF a, b
      <4> QED
        BY <3>6, <4>1, <4>2, <4>3
    <3> QED
      BY <3>5, <3>8, <3>9, <3>10
  <2> QED
    BY <1>2, <2>2, <2>3, <2>6
<1>10. Kept'
  <2>1. ASSUME NEW j \in 1 .. MaxEvents
        PROVE  KeptOnce(j)'
    BY <1>9 DEF KeptOnce
  <2> QED
    BY <2>1 DEF Kept
<1>11. pending' \in 0 .. MaxEvents
  BY <1>1, <1>3, <1>6
<1> QED
  BY <1>1, <1>7, <1>8, <1>10, <1>11

\* The resources of one event, in some order.
LEMMA DeclaredInOrder ==
    ASSUME NEW R \in SUBSET Resource
    PROVE  /\ SetToSeq(R) \in Seq(Resource)
           /\ \A x : Times(x, SetToSeq(R)) = IF x \in R THEN 1 ELSE 0
<1>1. IsFiniteSet(R)
  <2>1. IsFiniteSet({0})
    BY FS_Singleton
  <2>2. IsFiniteSet(Resource)
    BY <2>1, EventAssumption, FS_Product DEF Resource
  <2> QED
    BY <2>2, FS_Subset
<1>2. SetToSeq(R) \in Seq(R) /\ \A x \in R : Times(x, SetToSeq(R)) = 1
  BY <1>1, TimesInOrder
<1>3. ASSUME NEW x, x \notin R
      PROVE  Times(x, SetToSeq(R)) = 0
  BY <1>2, <1>3, TimesType
<1>4. SetToSeq(R) \in Seq(Resource)
  BY <1>2
<1> QED
  BY <1>2, <1>3, <1>4

\* A sequence has what it has at least once.
LEMMA ThereMeansOnce ==
    ASSUME NEW S, NEW s \in Seq(S), NEW x
    PROVE  x \in ToSet(s) <=> Times(x, s) # 0
<1> DEFINE D == {i \in DOMAIN s : s[i] = x}
<1>1. IsFiniteSet(D) /\ Times(x, s) = Cardinality(D)
  BY TimesType DEF Times
<1>2. x \in ToSet(s) <=> D # {}
  BY DEF ToSet
<1> HIDE DEF D
<1> QED
  BY <1>1, <1>2, FS_EmptySet

\* Each resource is retained once.
LEMMA RetainedOnce ==
    ASSUME NEW kept \in Seq(Resource), NEW A, NEW B \in SUBSET Files,
           \A f \in Files : Times(<<0, f>>, kept) = IF f \in A THEN 1 ELSE 0
    PROVE  /\ Retain(kept, B) \in Seq(Resource)
           /\ \A f \in Files : Times(<<0, f>>, Retain(kept, B)) =
                  IF f \in A \cup B THEN 1 ELSE 0
<1> DEFINE R == ({0} \X B) \ ToSet(kept)
<1> DEFINE r == SetToSeq(R)
<1>1. R \in SUBSET Resource /\ Retain(kept, B) = kept \o r
  BY DEF Resource, Retain
<1>2. r \in Seq(Resource) /\ \A x : Times(x, r) = IF x \in R THEN 1 ELSE 0
  BY <1>1, DeclaredInOrder
<1>3. ASSUME NEW f \in Files
      PROVE  Times(<<0, f>>, Retain(kept, B)) = IF f \in A \cup B THEN 1 ELSE 0
  <2> DEFINE x == <<0, f>>
  <2>1. x \in R <=> f \in B /\ f \notin A
    <3>1. x \in ToSet(kept) <=> f \in A
      <4>1. x \in ToSet(kept) <=> Times(x, kept) # 0
        BY ThereMeansOnce
      <4>2. Times(x, kept) = IF f \in A THEN 1 ELSE 0
        OBVIOUS
      <4> HIDE DEF x
      <4> QED
        BY <4>1, <4>2
    <3>2. x \in {0} \X B <=> f \in B
      OBVIOUS
    <3> HIDE DEF x
    <3> QED
      BY <3>1, <3>2
  <2>2. Times(x, kept) = IF f \in A THEN 1 ELSE 0
    OBVIOUS
  <2> HIDE DEF x, R, r
  <2>3. Times(x, kept \o r) = Times(x, kept) + Times(x, r)
    BY <1>2, TimesOfBoth
  <2>4. Times(x, r) = IF x \in R THEN 1 ELSE 0
    BY <1>2
  <2>5. Times(x, kept \o r) = IF f \in A \cup B THEN 1 ELSE 0
    BY <2>1, <2>2, <2>3, <2>4
  <2> QED
    BY <1>1, <2>5 DEF x
<1> HIDE DEF r
<1>4. kept \o r \in Seq(Resource)
  BY <1>2
<1> QED
  BY <1>1, <1>3, <1>4

\* A line is interpreted: the resources of a message are retained.
LEMMA InterpretRetains ==
    ASSUME Heard, Retained, NEW e \in EventType, NEW f \in EventType,
           f.files = e.files, f.form = "tool" => e.files = {},
           f.form = "delta" <=> e.form = "delta", f.form # "odd",
           events \in Seq(Events), e \in Events,
           events' = Append(events, e), Interpret(Len(events) + 1, f)
    PROVE  directives' \in Seq(Resource) /\ Retained'
<1> DEFINE B == IF f.form = "message" THEN e.files ELSE {}
<1>1. Named' = Named \cup B
  <2>1. ToSet(events') = ToSet(events) \cup {e}
    <3>1. /\ Len(events') = Len(events) + 1 /\ Len(events) \in Nat
          /\ DOMAIN events = 1 .. Len(events) /\ DOMAIN events' = 1 .. (Len(events) + 1)
          /\ events'[Len(events) + 1] = e
          /\ \A i \in 1 .. Len(events) : events'[i] = events[i]
      OBVIOUS
    <3> HIDE DEF B
    <3>2. ASSUME NEW x
          PROVE  x \in ToSet(events') <=> x \in ToSet(events) \/ x = e
      <4>1. x \in ToSet(events') <=> \E i \in 1 .. (Len(events) + 1) : events'[i] = x
        BY <3>1 DEF ToSet
      <4>2. x \in ToSet(events) <=> \E i \in 1 .. Len(events) : events[i] = x
        BY <3>1 DEF ToSet
      <4>3. \A i \in 1 .. (Len(events) + 1) : i \in 1 .. Len(events) \/ i = Len(events) + 1
        BY <3>1
      <4>4. \A i \in 1 .. Len(events) : i \in 1 .. (Len(events) + 1)
        BY <3>1
      <4> QED
        BY <3>1, <4>1, <4>2, <4>3, <4>4
    <3> QED
      BY <3>2
  <2>2. f.form # "message" /\ f.form # "delta" => e.files = {}
    BY DEF EventType
  <2>3. f.form = "delta" => B = {}
    OBVIOUS
  <2>4. ASSUME NEW x
        PROVE  x \in Named' <=> x \in Named \/ (e.form # "delta" /\ x \in e.files)
    BY <2>1 DEF Named
  <2>5. ASSUME NEW x
        PROVE  e.form # "delta" /\ x \in e.files <=> x \in B
    BY <2>2
  <2> HIDE DEF B
  <2> QED
    BY <2>4, <2>5
<1>2. B \in SUBSET Files /\ directives \in Seq(Resource)
  BY DEF EventType, Heard
<1>3. directives' = IF f.form = "message" THEN Retain(directives, f.files) ELSE directives
  BY DEF Interpret
<1>4. \A x \in Files : Times(<<0, x>>, directives) = IF x \in Named THEN 1 ELSE 0
  BY Zenon DEF Retained
<1>5. /\ Retain(directives, B) \in Seq(Resource)
      /\ \A x \in Files : Times(<<0, x>>, Retain(directives, B)) =
             IF x \in Named \cup B THEN 1 ELSE 0
  <2> HIDE DEF B
  <2> QED
    BY <1>2, <1>4, RetainedOnce
<1>6. CASE f.form = "message"
  <2>1. directives' = Retain(directives, B)
    BY <1>3, <1>6
  <2> HIDE DEF B
  <2> QED
    BY <1>1, <1>5, <2>1 DEF Retained
<1>7. CASE f.form # "message"
  <2>1. directives' = directives /\ Named' = Named
    BY <1>1, <1>3, <1>7
  <2> QED
    BY <1>2, <1>4, <2>1 DEF Retained
<1> QED
  BY <1>6, <1>7

LEMMA SaysHeard ==
    ASSUME IInv, Heard, NEW e \in Events, Says(e)
    PROVE  Heard'
<1>1. /\ events \in Seq(Events) /\ events' = Append(events, e) /\ Len(events) + 1 =< MaxEvents
      /\ outcome = "none" /\ UNCHANGED <<streaming, answer>> /\ Len(events) \in Nat
      /\ Len(events') = Len(events) + 1
  BY DEF Says, IInv, Types, Processes
<1>2. e \in EventType
  BY EventAssumption
<1>3. CASE ~streaming
  <2>1. UNCHANGED <<outcome, pending, delta, directives, shown>>
    BY <1>3 DEF Says
  <2> QED
    BY <1>1, <1>3, <2>1 DEF Heard, SaidOnce
<1>4. CASE streaming /\ Odd(e) /\ TraceFails(trace)
  <2>1. outcome' = "error" /\ UNCHANGED <<pending, delta, directives, shown>>
    BY <1>4 DEF Says, Ends
  <2> QED
    BY <1>1, <1>4, <2>1 DEF Heard, SaidOnce
<1>5. CASE streaming /\ ~(Odd(e) /\ TraceFails(trace))
  <2> DEFINE f == IF Odd(e) THEN [e EXCEPT !.form = "message"] ELSE e
  <2>1. outcome' = outcome /\ Interpret(Len(events) + 1, f)
    BY <1>5 DEF Says
  <2>2. f \in EventType /\ f.note = e.note /\ f.text = e.text /\ f.form # "odd"
    BY <1>2 DEF EventType, Odd
  <2>3. Kept /\ Retained
    BY <1>1, <1>5 DEF Heard
  <2>5. /\ f.files = e.files
        /\ f.form = "tool" => e.files = {}
        /\ f.form = "delta" <=> e.form = "delta"
    BY <1>2 DEF EventType, Odd
  <2> HIDE DEF f
  <2>4. /\ Len(events') =< MaxEvents /\ pending' \in 0 .. MaxEvents
        /\ delta' \in Seq(Words) /\ shown' \in Seq(Words) /\ Kept'
    BY <1>1, <1>2, <1>5, <2>1, <2>2, <2>3, InterpretHeard
  <2>6. directives' \in Seq(Resource) /\ Retained'
    BY <1>1, <1>2, <2>1, <2>2, <2>3, <2>5, InterpretRetains
  <2> QED
    BY <1>1, <1>5, <2>1, <2>4, <2>6 DEF Heard, SaidOnce
<1> QED
  BY <1>3, <1>4, <1>5

\* The output of a run without progress has each text once, and a resource as
\* often as it was declared.
LEMMA PlainHasAll ==
    ASSUME events \in Seq(Events), Len(events) =< MaxEvents
    PROVE  /\ Plain \in Seq(Part)
           /\ \A i \in DOMAIN events : Times(<<i, "text">>, Plain) = Told(i)
           /\ \A f \in Files : Times(<<0, f>>, Plain) = Cardinality(Declarations(f))
<1> DEFINE n == Len(events)
<1> DEFINE line(i) == Lines(i, events[i])
<1> DEFINE s == [i \in 1 .. n |-> line(i)]
<1>1. /\ n \in Nat /\ n =< MaxEvents /\ MaxEvents \in Nat /\ DOMAIN events = 1 .. n
      /\ \A i \in 1 .. n : events[i] \in EventType
  BY RunAssumption, EventAssumption
<1>2. Plain = FlattenSeq(s)
  BY <1>1 DEF Plain
<1> HIDE DEF n
<1>3. ASSUME NEW i \in 1 .. n
      PROVE  /\ line(i) \in Seq(Part)
             /\ \A j \in 1 .. n : Times(<<j, "text">>, line(i)) =
                    IF j = i /\ events[i].text THEN 1 ELSE 0
             /\ \A f \in Files : Times(<<0, f>>, line(i)) =
                    IF f \in events[i].files THEN 1 ELSE 0
  <2> DEFINE word == IF events[i].text THEN <<<<i, "text">>>> ELSE << >>
  <2> DEFINE R == {0} \X events[i].files
  <2> DEFINE r == SetToSeq(R)
  <2>1. R \in SUBSET Resource
    BY <1>1 DEF EventType, Resource
  <2>2. r \in Seq(Resource) /\ \A x : Times(x, r) = IF x \in R THEN 1 ELSE 0
    BY <2>1, DeclaredInOrder
  <2>3. word \in Seq(Words)
    <3>1. <<i, "text">> \in Words
      BY <1>1 DEF Words
    <3> QED
      BY <3>1
  <2>4. \A x : Times(x, word) = IF x = <<i, "text">> /\ events[i].text THEN 1 ELSE 0
    BY TimesOfFew
  <2>5. line(i) = word \o r
    BY DEF Lines
  <2>6. /\ \A j \in 1 .. n : <<j, "text">> \notin R /\ (<<j, "text">> = <<i, "text">> <=> j = i)
        /\ \A f \in Files : /\ <<0, f>> \in R <=> f \in events[i].files
                            /\ <<0, f>> # <<i, "text">>
    BY <1>1
  <2> HIDE DEF word, r, R, line
  <2>7. word \in Seq(Part) /\ r \in Seq(Part)
    BY <2>2, <2>3 DEF Part
  <2>8. word \o r \in Seq(Part) /\ \A x : Times(x, word \o r) = Times(x, word) + Times(x, r)
    BY <2>7, TimesOfBoth
  <2>9. ASSUME NEW j \in 1 .. n
        PROVE  Times(<<j, "text">>, line(i)) = IF j = i /\ events[i].text THEN 1 ELSE 0
    <3> DEFINE x == <<j, "text">>
    <3>1. Times(x, word) = (IF j = i /\ events[i].text THEN 1 ELSE 0) /\ Times(x, r) = 0
      BY <2>2, <2>4, <2>6
    <3> HIDE DEF x
    <3>2. Times(x, line(i)) = IF j = i /\ events[i].text THEN 1 ELSE 0
      BY <2>5, <2>8, <3>1
    <3> QED
      BY <3>2 DEF x
  <2>10. ASSUME NEW f \in Files
         PROVE  Times(<<0, f>>, line(i)) = IF f \in events[i].files THEN 1 ELSE 0
    <3> DEFINE x == <<0, f>>
    <3>1. Times(x, word) = 0 /\ Times(x, r) = IF f \in events[i].files THEN 1 ELSE 0
      BY <2>2, <2>4, <2>6
    <3> HIDE DEF x
    <3>2. Times(x, line(i)) = IF f \in events[i].files THEN 1 ELSE 0
      BY <2>5, <2>8, <3>1
    <3> QED
      BY <3>2 DEF x
  <2> QED
    BY <2>5, <2>8, <2>9, <2>10
<1> HIDE DEF line
<1>4. s \in [1 .. n -> Seq(Part)]
  BY <1>3
<1>5. n \in Nat /\ s \in [1 .. n -> Seq(Part)]
  BY <1>1, <1>4
<1>6. ASSUME NEW i \in 1 .. n
      PROVE  Plain \in Seq(Part) /\ Times(<<i, "text">>, Plain) = Told(i)
  <2> DEFINE x == <<i, "text">>
  <2> DEFINE count == [k \in 0 .. n |-> IF i =< k /\ events[i].text THEN 1 ELSE 0]
  <2>1. count \in [0 .. n -> Nat] /\ count[0] = 0
        /\ count[n] = IF events[i].text THEN 1 ELSE 0
    BY <1>1
  <2>2. ASSUME NEW k \in 1 .. n
        PROVE  count[k] = count[k - 1] + Times(x, s[k])
    <3>1. Times(x, s[k]) = IF i = k /\ events[k].text THEN 1 ELSE 0
      BY <1>3
    <3>2. k \in 0 .. n /\ k - 1 \in 0 .. n /\ (i =< k <=> i =< k - 1 \/ i = k)
      BY <1>1
    <3> HIDE DEF x, s
    <3> QED
      BY <3>1, <3>2
  <2> HIDE DEF count, x, s
  <2>3. FlattenSeq(s) \in Seq(Part) /\ Times(x, FlattenSeq(s)) = count[n]
    <3>1. count \in [0 .. n -> Nat] /\ count[0] = 0
      BY <2>1
    <3>2. \A k \in 1 .. n : count[k] = count[k - 1] + Times(x, s[k])
      BY <2>2
    <3>3. Counts(x, Part, s, n, count)
      BY <1>5, <3>1, <3>2 DEF Counts
    <3> QED
      BY <3>3, TimesOfAll
  <2>4. Told(i) = IF events[i].text THEN 1 ELSE 0
    BY <1>1 DEF Told
  <2>5. Plain \in Seq(Part) /\ Times(x, Plain) = Told(i)
    BY <1>2, <2>1, <2>3, <2>4
  <2> QED
    BY <2>5 DEF x
<1>7. ASSUME NEW f \in Files
      PROVE  Plain \in Seq(Part) /\ Times(<<0, f>>, Plain) = Cardinality(Declarations(f))
  <2> DEFINE x == <<0, f>>
  <2> DEFINE named == Declarations(f)
  <2> DEFINE count == [k \in 0 .. n |-> Cardinality(named \cap (1 .. k))]
  <2>1. named \in SUBSET (1 .. n) /\ \A k \in 1 .. n : k \in named <=> f \in events[k].files
    BY <1>1 DEF Declarations
  <2> HIDE DEF named
  <2>2. count \in [0 .. n -> Nat] /\ count[0] = 0 /\ count[n] = Cardinality(named)
    <3>1. 0 \in 0 .. n /\ n \in 0 .. n
      BY <1>1
    <3>2. \A k \in 0 .. n : Cardinality(named \cap (1 .. k)) \in Nat
      BY <1>1, <2>1, CountedUp
    <3>3. Cardinality(named \cap (1 .. 0)) = 0
      BY <1>1, <2>1, <3>1, CountedUp
    <3>4. named \cap (1 .. n) = named
      BY <2>1
    <3> QED
      BY <3>1, <3>2, <3>3, <3>4
  <2>3. ASSUME NEW k \in 1 .. n
        PROVE  count[k] = count[k - 1] + Times(x, s[k])
    <3>1. Times(x, s[k]) = IF k \in named THEN 1 ELSE 0
      BY <1>3, <2>1
    <3>2. k \in 0 .. n /\ k - 1 \in 0 .. n /\ k # 0
      BY <1>1
    <3>3. Cardinality(named \cap (1 .. k)) =
              Cardinality(named \cap (1 .. (k - 1))) + (IF k \in named THEN 1 ELSE 0)
      BY <1>1, <2>1, <3>2, CountedUp
    <3> HIDE DEF x, s
    <3> QED
      BY <3>1, <3>2, <3>3
  <2> HIDE DEF count, x, s
  <2>4. FlattenSeq(s) \in Seq(Part) /\ Times(x, FlattenSeq(s)) = count[n]
    <3>1. count \in [0 .. n -> Nat] /\ count[0] = 0
      BY <2>2
    <3>2. \A k \in 1 .. n : count[k] = count[k - 1] + Times(x, s[k])
      BY <2>3
    <3>3. Counts(x, Part, s, n, count)
      BY <1>5, <3>1, <3>2 DEF Counts
    <3> QED
      BY <3>3, TimesOfAll
  <2>5. Plain \in Seq(Part) /\ Times(x, Plain) = Cardinality(named)
    BY <1>2, <2>2, <2>4
  <2> QED
    BY <2>5 DEF x, named
<1>8. Plain \in Seq(Part)
  <2>1. CASE n = 0
    <3>1. s = << >> /\ Len(s) = 0
      BY <1>4, <2>1
    <3>2. FlattenSeq(s) = << >>
      BY <3>1 DEF FlattenSeq
    <3> QED
      BY <1>2, <3>2
  <2>2. CASE n # 0
    <3>1. 1 \in 1 .. n
      BY <1>1, <2>2
    <3> QED
      BY <1>6, <3>1
  <2> QED
    BY <2>1, <2>2
<1> QED
  BY <1>1, <1>6, <1>7, <1>8

\* The parts of an answer: words, and resources after them.
LEMMA AnswerParts ==
    ASSUME NEW w \in Seq(Words), NEW d \in Seq(Resource)
    PROVE  /\ w \o d \in Seq(Part)
           /\ \A f \in Files : Times(<<0, f>>, w \o d) = Times(<<0, f>>, d)
           /\ \A i \in 1 .. MaxEvents :
                 Times(<<i, "text">>, w \o d) = Times(<<i, "text">>, w)
<1>1. w \in Seq(Part) /\ d \in Seq(Part)
  BY DEF Part
<1>2. w \o d \in Seq(Part) /\ \A x : Times(x, w \o d) = Times(x, w) + Times(x, d)
  BY <1>1, TimesOfBoth
<1>3. /\ \A f \in Files : <<0, f>> \notin Words
      /\ \A i \in 1 .. MaxEvents : <<i, "text">> \notin Resource
  BY DEF Words, Resource
<1>4. ASSUME NEW f \in Files
      PROVE  Times(<<0, f>>, w \o d) = Times(<<0, f>>, d)
  <2>1. Times(<<0, f>>, w) = 0 /\ Times(<<0, f>>, d) \in Nat
    BY <1>3, TimesType
  <2> QED
    BY <1>2, <2>1
<1>5. ASSUME NEW i \in 1 .. MaxEvents
      PROVE  Times(<<i, "text">>, w \o d) = Times(<<i, "text">>, w)
  <2>1. Times(<<i, "text">>, d) = 0 /\ Times(<<i, "text">>, w) \in Nat
    BY <1>3, TimesType
  <2> QED
    BY <1>2, <2>1
<1> QED
  BY <1>2, <1>4, <1>5

\* Every resource was declared by a message or at the end.
LEMMA DeclaredAll ==
    ASSUME events \in Seq(Events)
    PROVE  /\ Declared \subseteq Files /\ LastDeclared \subseteq Files
           /\ Declared = Named \cup LastDeclared
<1>1. \A e \in ToSet(events) : e \in EventType
  BY EventAssumption DEF ToSet
<1>2. \A e \in ToSet(events) : e.files \subseteq Files
  BY <1>1 DEF EventType
<1> QED
  BY <1>2 DEF Declared, LastDeclared, Named

\* The answer and what was shown before it.
LEMMA FinishHeard ==
    ASSUME IInv, Heard, Finish
    PROVE  Heard'
<1>1. /\ events \in Seq(Events) /\ outcome = "none" /\ Len(events) =< MaxEvents
      /\ UNCHANGED <<streaming, events, pending, delta, directives>>
      /\ pending \in 0 .. MaxEvents /\ delta \in Seq(Words) /\ shown \in Seq(Words)
      /\ MaxEvents \in Nat /\ DOMAIN events = 1 .. Len(events)
  <2>1. pc = "listen" /\ UNCHANGED <<streaming, events, pending, delta, directives>>
    BY DEF Finish, AtEnd
  <2> QED
    BY <2>1, RunAssumption DEF Heard, IInv, Types, Processes
<1>2. CASE outcome' # "ok"
  <2>1. UNCHANGED <<answer, shown>> /\ outcome' \in {outcome, "timeout", "failed"}
    BY <1>2 DEF Finish, Ends
  <2> QED
    BY <1>1, <1>2, <2>1, SameHeard
<1>3. CASE outcome' = "ok"
  <2>1. answer' = Answer /\ shown' = LastShown
    BY <1>1, <1>3 DEF Finish, Ends
  <2>2. \A i \in DOMAIN events : i \in 1 .. MaxEvents /\ Told(i) = (IF events[i].text THEN 1 ELSE 0)
                                 /\ Noted(i) = (IF events[i].note THEN 1 ELSE 0)
    BY <1>1 DEF Told, Noted
  <2>3. /\ Pending \in Seq(Words)
        /\ \A j \in 1 .. MaxEvents :
              /\ Times(<<j, "text">>, Pending) = IF pending = j THEN 1 ELSE 0
              /\ Times(<<j, "note">>, Pending) = 0
    <3>1. ASSUME NEW i \in 1 .. MaxEvents
          PROVE  /\ Pending \in Seq(Words)
                 /\ Times(<<i, "text">>, Pending) = IF pending = i THEN 1 ELSE 0
                 /\ Times(<<i, "note">>, Pending) = 0
      <4> DEFINE e == [note |-> FALSE]
      <4>1. /\ Note(i, e) \in Seq(Words) /\ Pending \in Seq(Words)
            /\ \A j \in 1 .. MaxEvents :
                  /\ Times(<<j, "text">>, Pending) = IF pending = j THEN 1 ELSE 0
                  /\ Times(<<j, "note">>, Pending) = 0
        BY <1>1, AddedParts
      <4> QED
        BY <4>1
    <3>2. Pending \in Seq(Words)
      <4>1. CASE pending = 0
        BY <4>1 DEF Pending
      <4>2. CASE pending # 0
        <5>1. pending \in 1 .. MaxEvents
          BY <1>1, <4>2
        <5> QED
          BY <3>1, <5>1
      <4> QED
        BY <4>1, <4>2
    <3> QED
      BY <3>1, <3>2
  <2>4. /\ answer' \in Seq(Part) /\ shown' \in Seq(Words)
        /\ ~streaming => shown' = shown
        /\ \A i \in DOMAIN events :
              /\ Times(<<i, "text">>, shown') + Times(<<i, "text">>, answer') = Told(i)
              /\ streaming => Times(<<i, "note">>, shown') = Noted(i)
        /\ \A f \in Declared : Times(<<0, f>>, answer') =
               IF streaming THEN 1 ELSE Cardinality(Declarations(f))
    <3>1. CASE ~streaming
      <4>1. /\ Plain \in Seq(Part)
            /\ \A i \in DOMAIN events : Times(<<i, "text">>, Plain) = Told(i)
            /\ \A f \in Files : Times(<<0, f>>, Plain) = Cardinality(Declarations(f))
        BY <1>1, PlainHasAll
      <4>2. shown' = << >> /\ shown' = shown /\ answer' = Plain
        BY <2>1, <3>1 DEF Answer, LastShown, Heard
      <4>3. ASSUME NEW i \in DOMAIN events
            PROVE  Times(<<i, "text">>, shown') + Times(<<i, "text">>, answer') = Told(i)
        <5>1. Times(<<i, "text">>, shown') = 0
          BY <4>2, TimesOfFew
        <5>2. Told(i) \in Nat /\ Times(<<i, "text">>, answer') = Told(i)
          BY <4>1, <4>2 DEF Told
        <5> QED
          BY <5>1, <5>2
      <4>4. \A f \in Declared : Times(<<0, f>>, answer') = Cardinality(Declarations(f))
        <5>1. Declared \subseteq Files
          BY <1>1, DeclaredAll
        <5>2. ASSUME NEW f \in Declared
              PROVE  Times(<<0, f>>, answer') = Cardinality(Declarations(f))
          <6>1. f \in Files
            BY <5>1
          <6> QED
            BY <4>1, <4>2, <6>1
        <5> QED
          BY <5>2, Zenon
      <4> QED
        BY <3>1, <4>1, <4>2, <4>3, <4>4
    <3>2. CASE streaming
      <4> DEFINE words == IF delta # << >> THEN delta ELSE Pending
      <4> DEFINE d == Retain(directives, LastDeclared)
      <4>0. /\ answer' = words \o d
            /\ shown' = IF delta # << >> THEN shown \o Pending ELSE shown
        BY <2>1, <3>2 DEF Answer, LastShown
      <4>1. ASSUME NEW i \in DOMAIN events
            PROVE  /\ Times(<<i, "text">>, shown) + Times(<<i, "text">>, delta)
                          + Times(<<i, "text">>, Pending) = Told(i)
                   /\ Times(<<i, "note">>, shown) + Times(<<i, "note">>, Pending) = Noted(i)
                   /\ Times(<<i, "text">>, shown) \in Nat /\ Times(<<i, "text">>, delta) \in Nat
                   /\ Times(<<i, "text">>, Pending) \in Nat /\ Times(<<i, "note">>, shown) \in Nat
        <5>1. i \in 1 .. MaxEvents /\ KeptOnce(i)
          BY <1>1, <2>2, <3>2 DEF Heard, Kept
        <5>2. /\ Times(<<i, "text">>, shown) \in Nat /\ Times(<<i, "text">>, delta) \in Nat
              /\ Times(<<i, "text">>, Pending) \in Nat /\ Times(<<i, "note">>, shown) \in Nat
          BY <1>1, <2>3, TimesType
        <5> QED
          BY <2>3, <5>1, <5>2 DEF KeptOnce
      <4>2. /\ words \in Seq(Words) /\ shown' \in Seq(Words)
            /\ \A i \in DOMAIN events :
                  /\ Times(<<i, "text">>, shown') + Times(<<i, "text">>, words) = Told(i)
                  /\ Times(<<i, "note">>, shown') = Noted(i)
        <5>1. CASE delta # << >>
          <6>1. /\ shown' \in Seq(Words)
                /\ \A x : Times(x, shown') = Times(x, shown) + Times(x, Pending)
            BY <1>1, <2>3, <4>0, <5>1, TimesOfBoth
          <6>2. ASSUME NEW i \in DOMAIN events
                PROVE  /\ Times(<<i, "text">>, shown') + Times(<<i, "text">>, delta) = Told(i)
                       /\ Times(<<i, "note">>, shown') = Noted(i)
            BY <4>1, <6>1
          <6>3. words = delta
            BY <5>1
          <6> HIDE DEF words
          <6> QED
            BY <1>1, <6>1, <6>2, <6>3
        <5>2. CASE delta = << >>
          <6>1. shown' = shown /\ words = Pending
            BY <4>0, <5>2
          <6>2. ASSUME NEW i \in DOMAIN events
                PROVE  /\ Times(<<i, "text">>, shown') + Times(<<i, "text">>, Pending) = Told(i)
                       /\ Times(<<i, "note">>, shown') = Noted(i)
            <7>1. Times(<<i, "text">>, delta) = 0
              BY <5>2, TimesOfFew
            <7>2. Times(<<i, "note">>, Pending) = 0
              BY <2>2, <2>3
            <7> QED
              BY <4>1, <6>1, <7>1, <7>2
          <6> HIDE DEF words
          <6> QED
            BY <1>1, <2>3, <6>1, <6>2
        <5> QED
          BY <5>1, <5>2
      <4>3. /\ d \in Seq(Resource)
            /\ \A f \in Files : Times(<<0, f>>, d) =
                   IF f \in Named \cup LastDeclared THEN 1 ELSE 0
        <5>1. /\ directives \in Seq(Resource) /\ LastDeclared \in SUBSET Files
              /\ \A f \in Files : Times(<<0, f>>, directives) = IF f \in Named THEN 1 ELSE 0
          BY <1>1, <3>2, DeclaredAll DEF Heard, Retained
        <5> QED
          BY <5>1, RetainedOnce
      <4> HIDE DEF words, d
      <4>4. /\ words \o d \in Seq(Part)
            /\ \A f \in Files : Times(<<0, f>>, words \o d) = Times(<<0, f>>, d)
            /\ \A i \in 1 .. MaxEvents :
                  Times(<<i, "text">>, words \o d) = Times(<<i, "text">>, words)
        BY <4>2, <4>3, AnswerParts
      <4>5. \A f \in Declared : Times(<<0, f>>, answer') = 1
        <5>1. \A f \in Declared : f \in Files /\ f \in Named \cup LastDeclared
          BY <1>1, DeclaredAll
        <5>2. ASSUME NEW f \in Declared
              PROVE  Times(<<0, f>>, answer') = 1
          <6>1. f \in Files /\ f \in Named \cup LastDeclared
            BY <5>1
          <6>2. Times(<<0, f>>, words \o d) = Times(<<0, f>>, d)
            BY <4>4, <6>1
          <6>3. Times(<<0, f>>, d) = 1
            BY <4>3, <6>1
          <6> QED
            BY <4>0, <6>2, <6>3
        <5> QED
          BY <5>2, Zenon
      <4>6. ASSUME NEW i \in DOMAIN events
            PROVE  Times(<<i, "text">>, shown') + Times(<<i, "text">>, answer') = Told(i)
        BY <2>2, <4>0, <4>2, <4>4
      <4> QED
        BY <3>2, <4>0, <4>2, <4>4, <4>5, <4>6
    <3> QED
      BY <1>1, <3>1, <3>2 DEF Heard
  <2>5. \A x : Times(x, shown' \o answer') = Times(x, shown') + Times(x, answer')
    <3>1. shown' \in Seq(Part) /\ answer' \in Seq(Part)
      BY <2>4 DEF Part
    <3> QED
      BY <3>1, TimesOfBoth
  <2>6. ASSUME NEW i \in DOMAIN events
        PROVE  /\ events[i].text => Times(<<i, "text">>, shown' \o answer') = 1
               /\ streaming /\ events[i].note => Times(<<i, "note">>, shown') = 1
    BY <2>2, <2>4, <2>5
  <2>7. SaidOnce'
    <3>1. Declared' = Declared /\ \A f : Declarations(f)' = Declarations(f)
      BY <1>1 DEF Declared, Declarations
    <3> QED
      BY <1>1, <2>4, <2>6, <3>1 DEF SaidOnce
  <2> QED
    BY <1>1, <1>3, <2>4, <2>7 DEF Heard
<1> QED
  BY <1>2, <1>3

LEMMA NextHeard == IInv /\ Heard /\ [Next]_vars => Heard'
<1> SUFFICES ASSUME IInv, Heard, [Next]_vars
             PROVE  Heard'
  OBVIOUS
<1>1. CASE Finish
  BY <1>1, FinishHeard
<1>2. ASSUME NEW e \in Events, Says(e)
      PROVE  Heard'
  BY <1>2, SaysHeard
<1>3. CASE Launch /\ left # 0
  <2>1. /\ streaming' = streaming /\ outcome' = "none"
        /\ events' = << >> /\ pending' = 0 /\ delta' = << >> /\ directives' = << >>
        /\ shown' = << >>
    BY <1>3 DEF Launch, IInv, Processes
  <2>2. /\ << >> \in Seq(Words) /\ DOMAIN << >> = {} /\ Len(<< >>) = 0 /\ MaxEvents \in Nat
    BY RunAssumption
  <2>3. Kept'
    <3>1. ASSUME NEW i \in 1 .. MaxEvents
          PROVE  KeptOnce(i)'
      BY <2>1, <2>2, TimesOfFew DEF KeptOnce, Told, Noted
    <3> QED
      BY <3>1 DEF Kept
  <2>4. Retained' /\ << >> \in Seq(Resource)
    <3>1. Named' = {}
      BY <2>1, <2>2 DEF Named, ToSet
    <3> QED
      BY <2>1, <3>1, TimesOfFew DEF Retained
  <2> QED
    BY <2>1, <2>2, <2>3, <2>4 DEF Heard, SaidOnce
<1>4. CASE \/ Refuse \/ LaunchFails \/ Listen \/ TimesOut \/ FinishOddly \/ DelayOver
           \/ (Launch /\ left = 0) \/ Cancel \/ Tick \/ StartHelper \/ HelperExits
           \/ UNCHANGED vars \/ \E c \in Codes \ {"none"} : Exits(c)
  <2>1. /\ UNCHANGED <<streaming, events, pending, delta, directives, shown, answer>>
        /\ outcome' = outcome \/ outcome' \notin {"none", "ok"}
    BY <1>4 DEF Refuse, LaunchFails, Listen, TimesOut, FinishOddly, DelayOver, Launch,
                Cancel, Tick, StartHelper, HelperExits, Exits, Ends, vars, outputVars
  <2> QED
    BY <2>1, SameHeard
<1> QED
  BY <1>1, <1>2, <1>3, <1>4 DEF Next, AdapterStep

LEMMA InitHeard == Init => Heard
<1> SUFFICES ASSUME Init
             PROVE  Heard
  OBVIOUS
<1>1. /\ << >> \in Seq(Words) /\ DOMAIN << >> = {} /\ Len(<< >>) = 0 /\ MaxEvents \in Nat
  BY RunAssumption
<1>2. Kept
  <2>1. ASSUME NEW i \in 1 .. MaxEvents
        PROVE  KeptOnce(i)
    BY <1>1, TimesOfFew DEF Init, KeptOnce, Told, Noted
  <2> QED
    BY <2>1 DEF Kept
<1>3. Retained /\ directives \in Seq(Resource)
  <2>1. Named = {} /\ directives = << >> /\ << >> \in Seq(Resource)
    BY <1>1 DEF Init, Named, ToSet
  <2> QED
    BY <2>1, TimesOfFew DEF Retained
<1> QED
  BY <1>1, <1>2, <1>3 DEF Init, Heard, SaidOnce

-----------------------------------------------------------------------------
\* An Agent that has said something is not called again with the same model,
\* and a model is tried three times at most, whatever the providers answer.
THEOREM RetriesStaySilent == Spec => []RetriesAreSilent
<1>1. IInv => RetriesAreSilent
  BY DEF IInv, Tries
<1> QED
  BY <1>1, Invariant, PTL

\* A run that times out or is cancelled leaves none of its processes behind.
THEOREM NoProcessLeft == Spec => []NoneLeft
<1>1. IInv => NoneLeft
  BY DEF IInv, Types, Processes, NoneLeft, Alive
<1> QED
  BY <1>1, Invariant, PTL

\* A trace stays within any limit, and nothing follows its marker.
THEOREM TraceStaysFit == Spec => []TraceFits
<1>1. IInv => TraceFits
  BY DEF IInv, Fit, TraceFits
<1> QED
  BY <1>1, Invariant, PTL

\* Whatever the Agent says and in which order, a run that succeeds has told its
\* user everything exactly once, on the way or in its answer, and has every
\* resource that was declared: once with progress, however often it was
\* declared, and as often as it was declared without.
THEOREM EverythingSaidOnce == Spec => []SaidOnce
<1>1. Heard => SaidOnce
  BY DEF Heard
<1> QED
  BY <1>1, InitHeard, NextHeard, Invariant, PTL DEF Spec
=============================================================================
