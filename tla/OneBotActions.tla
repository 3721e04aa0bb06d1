---------------------------- MODULE OneBotActions ----------------------------
(***************************************************************************)
(* Calls of the gateway's API over its WebSocket connections (onebot.py).  *)
(*                                                                         *)
(* A call registers a future under its echo, writes its frame to one of    *)
(* the connections and waits for the answer, for at most a fixed time.     *)
(* The coroutine that serves a connection reads the answers; a future that *)
(* is done only makes its caller ready to run, so other coroutines run     *)
(* between an answer and the caller's cleanup.  The dictionaries           *)
(* _pending_actions and _pending_action_connections are always changed     *)
(* together: pending is both, with the connection in target.               *)
(*                                                                         *)
(* The gateway is external: it executes or refuses a frame and answers it  *)
(* at most once, in any order and at any time, or never.                   *)
(***************************************************************************)
EXTENDS FiniteSets

CONSTANTS
    Calls,            \* calls of _send_action and _call_action
    Sends,            \* those of _send_action
    Conns,            \* connections, each opened once
    Echo,             \* [Calls -> Echoes]; a failed progress message is
                      \* repeated under its echo
    Echoes,
    Notice,           \* the call of the connected callback, or None
    None,
    GatewayIsPrompt   \* answers arrive and are read within the time limit

Fresh(c) == \A d \in Calls : Echo[d] = Echo[c] => d = c

ASSUME NoneType == None \notin Calls \union Conns
ASSUME CallsType == Sends \subseteq Calls /\ Notice \in Sends \union {None}
ASSUME EchoType == Echo \in [Calls -> Echoes]
\* These calls take their echo from the clock.
ASSUME ClockEchoes == \A c \in (Calls \ Sends) \union ({Notice} \ {None}) : Fresh(c)
ASSUME PromptType == GatewayIsPrompt \in BOOLEAN

VARIABLES
    status,      \* where the call's coroutine is
    outcome,     \* how it ended
    future,      \* the future it waits for
    interrupt,   \* an exception that will be thrown into it
    target,      \* the connection that it uses
    pending,     \* [Echoes -> Calls or None]
    conns,       \* OneBotAdapter._conns
    reader,      \* the coroutine _serve of a connection
    open,        \* connections whose socket is open
    gateway,     \* what became of the frame of a call
    unread,      \* calls whose answer is in a receive buffer
    noticeDue,   \* .reboot-notify.json exists
    server,      \* the progress of stop()
    answeredBy,  \* history: the call whose answer completed the future
    evicted      \* history: calls whose entry another call cleaned up

callVars == <<status, outcome, future, interrupt, target>>
connVars == <<conns, reader, open>>
vars == <<callVars, pending, connVars, gateway, unread, noticeDue, server,
          answeredBy, evicted>>
-----------------------------------------------------------------------------
TypeOK ==
    /\ status \in [Calls -> {"new", "writing", "waiting", "ended"}]
    /\ outcome \in [Calls -> {"none", "ok", "failed", "error", "timeout",
                              "cancelled"}]
    /\ future \in [Calls -> {"none", "undone", "ok", "failed", "lost",
                             "cancelled"}]
    /\ interrupt \in [Calls -> {"none", "timeout", "cancel"}]
    /\ target \in [Calls -> Conns \union {None}]
    /\ pending \in [Echoes -> Calls \union {None}]
    /\ conns \subseteq Conns
    /\ reader \in [Conns -> {"absent", "callback", "reading", "gone"}]
    /\ open \subseteq Conns
    /\ gateway \in [Calls -> {"none", "sent", "executed", "refused"}]
    /\ unread \subseteq Calls
    /\ noticeDue \in BOOLEAN
    /\ server \in {"up", "closing", "down"}
    /\ answeredBy \in [Calls -> Calls \union {None}]
    /\ evicted \subseteq Calls

Init ==
    /\ status = [c \in Calls |-> "new"]
    /\ outcome = [c \in Calls |-> "none"]
    /\ future = [c \in Calls |-> "none"]
    /\ interrupt = [c \in Calls |-> "none"]
    /\ target = [c \in Calls |-> None]
    /\ pending = [e \in Echoes |-> None]
    /\ conns = {} /\ open = {}
    /\ reader = [k \in Conns |-> "absent"]
    /\ gateway = [c \in Calls |-> "none"]
    /\ unread = {}
    /\ noticeDue = (Notice # None)
    /\ server = "up"
    /\ answeredBy = [c \in Calls |-> None]
    /\ evicted = {}

Active(c) == status[c] \in {"writing", "waiting"}
-----------------------------------------------------------------------------
(* The beginning of a call.                                                *)

Ready(c) == status[c] = "new" /\ c # Notice

\* Mutant: an echo is registered again while it is pending.
AnyEcho(c) == FALSE
EchoTaken(c) == c \in Sends /\ pending[Echo[c]] # None

Refuse(c) ==
    /\ Ready(c)
    /\ conns = {} \/ EchoTaken(c)
    /\ status' = [status EXCEPT ![c] = "ended"]
    /\ outcome' = [outcome EXCEPT ![c] = "error"]
    /\ UNCHANGED <<future, interrupt, target, pending, connVars, gateway,
                   unread, noticeDue, server, answeredBy, evicted>>

\* conn.send: the frame is on its way and the caller may have to wait until
\* the transport drains, or the socket is closed and the entry is withdrawn.
Write(c, k, sockets) ==
    /\ target' = [target EXCEPT ![c] = k]
    /\ IF k \in sockets
       THEN /\ \E to \in {"writing", "waiting"} :
                  status' = [status EXCEPT ![c] = to]
            /\ future' = [future EXCEPT ![c] = "undone"]
            /\ pending' = [pending EXCEPT ![Echo[c]] = c]
            /\ gateway' = [gateway EXCEPT ![c] = "sent"]
            /\ UNCHANGED outcome
       ELSE /\ status' = [status EXCEPT ![c] = "ended"]
            /\ outcome' = [outcome EXCEPT ![c] = "error"]
            /\ UNCHANGED <<future, pending, gateway>>

Begin(c) ==
    /\ Ready(c) /\ ~EchoTaken(c)
    /\ \E k \in conns : Write(c, k, open)
    /\ UNCHANGED <<interrupt, connVars, unread, noticeDue, server, answeredBy,
                   evicted>>
-----------------------------------------------------------------------------
(* The end of a call.                                                      *)

\* Mutant: an entry stays behind after its call.
KeepEntry(c) == UNCHANGED <<pending, evicted>>
\* The cleanup withdraws whatever is registered under the echo.
CleanUp(c) ==
    /\ pending' = [pending EXCEPT ![Echo[c]] = None]
    /\ evicted' = evicted \union ({pending[Echo[c]]} \ {None, c})

\* The connected callback returns, and its connection is read from now on.
Returned(c) ==
    [k \in Conns |-> IF c = Notice /\ reader[k] = "callback" THEN "reading"
                     ELSE reader[k]]

End(c, how) ==
    /\ status' = [status EXCEPT ![c] = "ended"]
    /\ outcome' = [outcome EXCEPT ![c] = how]
    /\ future' = [future EXCEPT ![c] = "none"]
    /\ interrupt' = [interrupt EXCEPT ![c] = "none"]
    /\ CleanUp(c)
    /\ reader' = Returned(c)
    /\ UNCHANGED <<target, conns, open, gateway, unread, noticeDue, server,
                   answeredBy>>

\* Mutant: a lost connection is reported like an answer.
ResultRaw(c) == future[c]
\* Mutant: the status of the answer is not looked at.
ResultUnchecked(c) ==
    IF future[c] = "lost" THEN "error"
    ELSE IF future[c] = "failed" THEN "ok" ELSE future[c]
\* What the future holds; one that stop() cancelled raises CancelledError.
Result(c) == IF future[c] = "lost" THEN "error" ELSE future[c]

\* The transport has drained.  A future that is done does not suspend.
Written(c) ==
    /\ status[c] = "writing" /\ interrupt[c] = "none"
    /\ target[c] \in open
    /\ IF future[c] = "undone"
       THEN /\ status' = [status EXCEPT ![c] = "waiting"]
            /\ UNCHANGED <<outcome, future, interrupt, target, pending,
                           connVars, gateway, unread, noticeDue, server,
                           answeredBy, evicted>>
       ELSE End(c, Result(c))

WriteFails(c) ==
    /\ status[c] = "writing" /\ interrupt[c] = "none"
    /\ target[c] \notin open
    /\ End(c, "error")

\* An exception that was thrown in wins over a result that is already there.
Resume(c) ==
    /\ Active(c)
    /\ \/ interrupt[c] = "cancel" /\ End(c, "cancelled")
       \/ interrupt[c] = "timeout" /\ End(c, "timeout")
       \/ /\ status[c] = "waiting" /\ interrupt[c] = "none"
          /\ future[c] # "undone"
          /\ End(c, Result(c))

\* Cancelling a coroutine cancels the future it waits for, unless it is done.
Throw(c, what) ==
    /\ interrupt' = [interrupt EXCEPT ![c] = what]
    /\ future' = IF status[c] = "waiting" /\ future[c] = "undone"
                 THEN [future EXCEPT ![c] = "cancelled"] ELSE future
    /\ UNCHANGED <<status, outcome, target, pending, connVars, gateway,
                   unread, noticeDue, server, answeredBy, evicted>>

\* What a prompt gateway and a reading coroutine would still deliver in time.
AnswerIsNear(c) ==
    \/ future[c] # "undone"
    \/ gateway[c] = "sent"
    \/ c \in unread /\ reader[target[c]] = "reading"

\* Mutant: the wait for an answer has no time limit.
NoTimeout(c) == FALSE
Timeout(c) ==
    /\ status[c] = "waiting" /\ interrupt[c] = "none"
    /\ GatewayIsPrompt => ~AnswerIsNear(c)
    /\ Throw(c, "timeout")

\* The caller's task is cancelled.
Cancel(c) ==
    /\ c # Notice
    /\ Active(c) /\ interrupt[c] # "cancel"
    /\ Throw(c, "cancel")
-----------------------------------------------------------------------------
(* The connections.                                                        *)

\* The first connection after a restart runs the callback, which sends the
\* notice over any of the connections before this one is read.
Connect(k) ==
    /\ server = "up" /\ reader[k] = "absent"
    /\ conns' = conns \union {k}
    /\ open' = open \union {k}
    /\ IF noticeDue
       THEN /\ \E via \in conns' : Write(Notice, via, open')
            /\ reader' = [reader EXCEPT ![k] =
                  IF status'[Notice] = "ended" THEN "reading" ELSE "callback"]
       ELSE /\ reader' = [reader EXCEPT ![k] = "reading"]
            /\ UNCHANGED <<status, outcome, future, target, pending, gateway>>
    /\ noticeDue' = FALSE
    /\ UNCHANGED <<interrupt, unread, server, answeredBy, evicted>>

\* Mutant: any connection may complete the entry.
MatchesEcho(c, p) == p # None
\* The answer to the frame of c completes the entry of p.
Matches(c, p) == p # None /\ target[p] = target[c]

\* _complete_action_response: the answer to the frame of c.
Receive(c) ==
    /\ c \in unread /\ reader[target[c]] = "reading"
    /\ unread' = unread \ {c}
    /\ LET p == pending[Echo[c]] IN
       IF ~Matches(c, p)
       THEN UNCHANGED <<pending, future, answeredBy>>
       ELSE /\ pending' = [pending EXCEPT ![Echo[c]] = None]
            /\ IF future[p] = "undone"
               THEN /\ future' = [future EXCEPT ![p] =
                          IF gateway[c] = "executed" THEN "ok" ELSE "failed"]
                    /\ answeredBy' = [answeredBy EXCEPT ![p] = c]
               ELSE UNCHANGED <<future, answeredBy>>
    /\ UNCHANGED <<status, outcome, interrupt, target, connVars, gateway,
                   noticeDue, server, evicted>>

\* _remove_connection, after everything that had arrived was read.
Leave(k) ==
    /\ reader[k] = "reading" /\ k \notin open
    /\ \A c \in unread : target[c] # k
    /\ reader' = [reader EXCEPT ![k] = "gone"]
    /\ conns' = conns \ {k}
    /\ LET lost == {c \in Calls : pending[Echo[c]] = c /\ target[c] = k} IN
       /\ pending' = [e \in Echoes |-> IF pending[e] \in lost THEN None
                                       ELSE pending[e]]
       /\ future' = [c \in Calls |->
             IF c \in lost /\ future[c] = "undone" THEN "lost" ELSE future[c]]
    /\ UNCHANGED <<status, outcome, interrupt, target, open, gateway, unread,
                   noticeDue, server, answeredBy, evicted>>

\* stop: the server closes the sockets and waits for their coroutines ...
BeginStop ==
    /\ server = "up"
    /\ server' = "closing"
    /\ open' = {}
    /\ UNCHANGED <<callVars, pending, conns, reader, gateway, unread,
                   noticeDue, answeredBy, evicted>>

\* ... and what is still registered after that is cancelled.
FinishStop ==
    /\ server = "closing"
    /\ \A k \in Conns : reader[k] \in {"absent", "gone"}
    /\ server' = "down"
    /\ future' = [c \in Calls |->
          IF pending[Echo[c]] = c /\ future[c] = "undone" THEN "cancelled"
          ELSE future[c]]
    /\ pending' = [e \in Echoes |-> None]
    /\ conns' = {}
    /\ UNCHANGED <<status, outcome, interrupt, target, reader, open, gateway,
                   unread, noticeDue, answeredBy, evicted>>
-----------------------------------------------------------------------------
(* The gateway and the network.                                            *)

Answer(c) ==
    /\ gateway[c] = "sent"
    /\ \E did \in {"executed", "refused"} :
          gateway' = [gateway EXCEPT ![c] = did]
    /\ unread' = IF target[c] \in open THEN unread \union {c} ELSE unread
    /\ UNCHANGED <<callVars, pending, connVars, noticeDue, server, answeredBy,
                   evicted>>

\* A socket closes, with or without what is in its receive buffer.
Drop(k) ==
    /\ k \in open
    /\ open' = open \ {k}
    /\ unread' \in {unread, {c \in unread : target[c] # k}}
    /\ UNCHANGED <<callVars, pending, conns, reader, gateway, noticeDue,
                   server, answeredBy, evicted>>
-----------------------------------------------------------------------------
Next ==
    \/ \E c \in Calls :
          \/ Refuse(c) \/ Begin(c)
          \/ Written(c) \/ WriteFails(c) \/ Resume(c)
          \/ Timeout(c) \/ Cancel(c)
          \/ Receive(c) \/ Answer(c)
    \/ \E k \in Conns : Connect(k) \/ Leave(k) \/ Drop(k)
    \/ BeginStop \/ FinishStop

\* The event loop runs what is ready and its timers; the keepalive of the
\* transport closes a connection whose peer does not read.
Fairness ==
    /\ \A c \in Calls :
          /\ WF_vars(Written(c) \/ WriteFails(c))
          /\ WF_vars(Resume(c))
          /\ WF_vars(Timeout(c))
          /\ WF_vars(Receive(c))
    /\ \A k \in Conns : WF_vars(Leave(k))
    /\ WF_vars(FinishStop)

Spec == Init /\ [][Next]_vars /\ Fairness
-----------------------------------------------------------------------------
(* Properties.                                                             *)

\* An entry belongs to a call under way, on a connection that is still in
\* _conns: so a lost connection reaches all its calls, stop() finds nothing
\* registered once the connections are gone, and no entry is left behind to
\* refuse its echo for ever.
EntryIsLive ==
    \A e \in Echoes :
        LET c == pending[e] IN
        c # None =>
            /\ Echo[c] = e
            /\ Active(c)
            /\ target[c] \in conns
            /\ future[c] = "undone" \/ interrupt[c] # "none"

\* A call that waits for its answer can be found by it, unless an earlier call
\* of the same echo, answered but not yet resumed, cleaned up after it began.
WaiterIsRegistered ==
    \A c \in Calls \ evicted :
        Active(c) /\ future[c] = "undone" => pending[Echo[c]] = c

\* test_only_selected_connection_can_complete_action_response: an answer that
\* completes a call carries its echo and came over the call's connection.  It
\* may be the late answer of an earlier call only if that used the same echo.
AnsweredOverItsConnection ==
    \A c \in Calls :
        answeredBy[c] # None =>
            /\ Echo[answeredBy[c]] = Echo[c]
            /\ target[answeredBy[c]] = target[c]
            /\ "ok" \in {future[c], outcome[c]} =>
                  gateway[answeredBy[c]] = "executed"

\* A call is reported as timed out only if the gateway did not execute it and
\* answer over a connection that is up.
ConfirmedInTime ==
    \A c \in Calls :
        outcome[c] = "timeout" /\ gateway[c] = "executed" =>
            target[c] \notin open

\* Whatever the gateway does, a call ends, and so nobody waits for ever.
EveryCallEnds ==
    \A c \in Calls : Active(c) ~> status[c] = "ended"

\* stop() waits for the coroutines of the connections, the one that runs the
\* callback among them, and it returns.
StopFinishes == server = "closing" ~> server = "down"

Receipts == INSTANCE ActionReceipts
              WITH stage <- [c \in Calls |->
                                IF Active(c) THEN "asked" ELSE status[c]],
                   executed <- {c \in Calls : gateway[c] = "executed"},
                   receipt <- [c \in Calls |->
                                  IF outcome[c] = "ok" THEN answeredBy[c]
                                  ELSE None]

\* A call that ends "ok" has the receipt of one execution under its echo.
ImplementsReceipts == Receipts!Spec
=============================================================================
