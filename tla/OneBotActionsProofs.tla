------------------------ MODULE OneBotActionsProofs ------------------------
(***************************************************************************)
(* Safety of the pending actions for any calls, echoes and connections.    *)
(***************************************************************************)
EXTENDS OneBotActions, TLAPS

\* Nothing exists of a call before it begins.
NewIsBlank ==
    \A c \in Calls :
        status[c] = "new" =>
            /\ outcome[c] = "none" /\ future[c] = "none"
            /\ interrupt[c] = "none" /\ target[c] = None
            /\ gateway[c] = "none" /\ answeredBy[c] = None

\* A call under way has a connection and a future, and one that has ended has
\* none to wait for.
Phases ==
    \A c \in Calls :
        /\ Active(c) => target[c] \in Conns /\ future[c] # "none"
        /\ outcome[c] # "none" => status[c] = "ended"
        /\ status[c] = "ended" => future[c] = "none"
        /\ interrupt[c] = "timeout" => status[c] = "waiting"

\* An answer was given, and it is read once.
AnswersAreReal ==
    /\ \A c \in unread : gateway[c] \in {"executed", "refused"}
    /\ \A c \in Calls :
          answeredBy[c] # None =>
              /\ gateway[answeredBy[c]] \in {"executed", "refused"}
              /\ answeredBy[c] \notin unread

\* An answer completes one call.
AnswersAreOwn ==
    \A c, d \in Calls :
        answeredBy[c] = answeredBy[d] /\ answeredBy[c] # None => c = d

\* A result comes from an answer.
ResultsAreAnswers ==
    \A c \in Calls :
        /\ {future[c], outcome[c]} \intersect {"ok", "failed"} # {} =>
              answeredBy[c] # None
        /\ future[c] = "undone" => answeredBy[c] = None

\* The notice is still to come while its file exists.
NoticeIsNew == noticeDue => Notice # None /\ status[Notice] = "new"

Readers == {"absent", "callback", "reading", "gone"}
Outcomes == {"ok", "failed", "error", "timeout", "cancelled"}

\* The inductive invariant.
IInv ==
    /\ TypeOK
    /\ NewIsBlank
    /\ Phases
    /\ AnswersAreReal
    /\ AnswersAreOwn
    /\ ResultsAreAnswers
    /\ NoticeIsNew
    /\ EntryIsLive
    /\ WaiterIsRegistered
    /\ AnsweredOverItsConnection
-----------------------------------------------------------------------------
\* The state that the beginning of a call leaves alone, or only extends.
Around(c) ==
    /\ conns \subseteq conns' /\ conns' \subseteq Conns
    /\ open' \subseteq Conns /\ reader' \in [Conns -> Readers]
    /\ noticeDue' \in BOOLEAN
    /\ noticeDue' => noticeDue /\ c # Notice
    /\ UNCHANGED <<interrupt, unread, server, answeredBy, evicted>>

\* Nothing is registered under the echo of a call that has not begun and that
\* no other call uses.
LEMMA FreshEcho ==
    ASSUME IInv, NEW c \in Calls, status[c] = "new", Fresh(c)
    PROVE  pending[Echo[c]] = None
BY EchoType DEF IInv, TypeOK, EntryIsLive, Active, Fresh

\* A call that begins on an open socket.
LEMMA WrittenStep ==
    ASSUME IInv, NEW c \in Calls, status[c] = "new",
           pending[Echo[c]] = None, NEW k \in Conns, k \in conns',
           NEW sockets, k \in sockets,
           Write(c, k, sockets), Around(c)
    PROVE  IInv'
<1> USE DEF IInv, TypeOK, Active, callVars, connVars
<1>1. TypeOK'
  BY NoneType, CallsType, EchoType DEF Write, Around, Readers
<1>2. NewIsBlank'
  BY NoneType, CallsType, EchoType DEF NewIsBlank, Write, Around, Readers
<1>3. Phases'
  BY NoneType, CallsType, EchoType DEF NewIsBlank, Phases, Write, Around,
     Readers
<1>4. AnswersAreReal'
  BY NoneType, CallsType, EchoType DEF NewIsBlank, Phases, AnswersAreReal,
     Write, Around, Readers
<1>5. AnswersAreOwn'
  BY NoneType, CallsType, EchoType DEF NewIsBlank, AnswersAreReal,
     AnswersAreOwn, Write, Around, Readers
<1>6. ResultsAreAnswers'
  BY NoneType, CallsType, EchoType DEF NewIsBlank, Phases,
     ResultsAreAnswers, Write, Around, Readers
<1>7. NoticeIsNew'
  BY NoneType, CallsType, EchoType DEF NoticeIsNew, Write, Around, Readers
<1>8. EntryIsLive'
  BY NoneType, CallsType, EchoType DEF NewIsBlank, Phases, EntryIsLive,
     Write, Around, Readers
<1>9. WaiterIsRegistered'
  <2>1. ASSUME NEW d \in Calls \ evicted, Active(d)', future'[d] = "undone"
        PROVE  pending'[Echo[d]] = d
    <3>1. CASE d = c
      <4>1. Echo[c] \in Echoes
        BY EchoType
      <4> QED
        BY <3>1, <4>1 DEF Write
    <3>2. CASE d # c
      <4>1. status[d] = status'[d] /\ future[d] = "undone"
        BY <2>1, <3>2 DEF Write
      <4>2. pending[Echo[d]] = d
        BY <2>1, <4>1 DEF WaiterIsRegistered
      <4>3. Echo[d] # Echo[c]
        BY <4>2, NoneType
      <4>4. Echo[c] \in Echoes /\ Echo[d] \in Echoes
        BY <2>1, EchoType
      <4>5. pending' = [pending EXCEPT ![Echo[c]] = c]
        BY DEF Write
      <4> QED
        BY <4>2, <4>3, <4>4, <4>5
    <3> QED
      BY <3>1, <3>2
  <2> QED
    BY <2>1 DEF WaiterIsRegistered, Around
<1>10. AnsweredOverItsConnection'
  BY NoneType, CallsType, EchoType DEF NewIsBlank, Phases, AnswersAreReal,
     EntryIsLive, AnsweredOverItsConnection, Write, Around, Readers
<1> QED
  BY <1>1, <1>2, <1>3, <1>4, <1>5,
     <1>6, <1>7, <1>8, <1>9, <1>10

\* A call that begins on a closed socket ends at once.
LEMMA ClosedStep ==
    ASSUME IInv, NEW c \in Calls, status[c] = "new",
           pending[Echo[c]] = None, NEW k \in Conns, k \in conns',
           NEW sockets, k \notin sockets,
           Write(c, k, sockets), Around(c)
    PROVE  IInv'
<1> USE DEF IInv, TypeOK, Active, callVars, connVars
<1>1. TypeOK'
  BY NoneType, CallsType, EchoType DEF Write, Around, Readers
<1>2. NewIsBlank'
  BY NoneType, CallsType, EchoType DEF NewIsBlank, Write, Around, Readers
<1>3. Phases'
  BY NoneType, CallsType, EchoType DEF NewIsBlank, Phases, Write, Around,
     Readers
<1>4. AnswersAreReal'
  BY NoneType, CallsType, EchoType DEF NewIsBlank, Phases, AnswersAreReal,
     Write, Around, Readers
<1>5. AnswersAreOwn'
  BY NoneType, CallsType, EchoType DEF NewIsBlank, AnswersAreReal,
     AnswersAreOwn, Write, Around, Readers
<1>6. ResultsAreAnswers'
  BY NoneType, CallsType, EchoType DEF NewIsBlank, Phases,
     ResultsAreAnswers, Write, Around, Readers
<1>7. NoticeIsNew'
  BY NoneType, CallsType, EchoType DEF NoticeIsNew, Write, Around, Readers
<1>8. EntryIsLive'
  BY NoneType, CallsType, EchoType DEF NewIsBlank, Phases, EntryIsLive,
     Write, Around, Readers
<1>9. WaiterIsRegistered'
  BY NoneType, CallsType, EchoType DEF NewIsBlank, Phases, EntryIsLive,
     WaiterIsRegistered, Write, Around, Readers
<1>10. AnsweredOverItsConnection'
  BY NoneType, CallsType, EchoType DEF NewIsBlank, Phases, AnswersAreReal,
     EntryIsLive, AnsweredOverItsConnection, Write, Around, Readers
<1> QED
  BY <1>1, <1>2, <1>3, <1>4, <1>5,
     <1>6, <1>7, <1>8, <1>9, <1>10

\* A call that is refused.
LEMMA RefuseStep ==
    ASSUME IInv, NEW c \in Calls, Refuse(c)
    PROVE  IInv'
<1> USE DEF IInv, TypeOK, Active, callVars, connVars
<1>1. TypeOK'
  BY NoneType, CallsType, EchoType DEF Refuse, Ready
<1>2. NewIsBlank'
  BY NoneType, CallsType, EchoType DEF NewIsBlank, Refuse, Ready
<1>3. Phases'
  BY NoneType, CallsType, EchoType DEF NewIsBlank, Phases, Refuse, Ready
<1>4. AnswersAreReal'
  BY NoneType, CallsType, EchoType DEF NewIsBlank, Phases, AnswersAreReal,
     Refuse, Ready
<1>5. AnswersAreOwn'
  BY NoneType, CallsType, EchoType DEF NewIsBlank, AnswersAreReal,
     AnswersAreOwn, Refuse, Ready
<1>6. ResultsAreAnswers'
  BY NoneType, CallsType, EchoType DEF NewIsBlank, Phases,
     ResultsAreAnswers, Refuse, Ready
<1>7. NoticeIsNew'
  BY NoneType, CallsType, EchoType DEF NoticeIsNew, Refuse, Ready
<1>8. EntryIsLive'
  BY NoneType, CallsType, EchoType DEF NewIsBlank, Phases, EntryIsLive,
     Refuse, Ready
<1>9. WaiterIsRegistered'
  BY NoneType, CallsType, EchoType DEF NewIsBlank, Phases, EntryIsLive,
     WaiterIsRegistered, Refuse, Ready
<1>10. AnsweredOverItsConnection'
  BY NoneType, CallsType, EchoType DEF NewIsBlank, Phases, AnswersAreReal,
     EntryIsLive, AnsweredOverItsConnection, Refuse, Ready
<1> QED
  BY <1>1, <1>2, <1>3, <1>4, <1>5,
     <1>6, <1>7, <1>8, <1>9, <1>10

\* A call that goes on to wait for its answer.
LEMMA DrainedStep ==
    ASSUME IInv, NEW c \in Calls, status[c] = "writing", interrupt[c] = "none",
           status' = [status EXCEPT ![c] = "waiting"],
           UNCHANGED <<outcome, future, interrupt, target, pending, connVars,
                       gateway, unread, noticeDue, server, answeredBy,
                       evicted>>
    PROVE  IInv'
<1> USE DEF IInv, TypeOK, Active, callVars, connVars
<1>1. TypeOK'
  BY NoneType, CallsType, EchoType DEF Active
<1>2. NewIsBlank'
  BY NoneType, CallsType, EchoType DEF NewIsBlank, Active
<1>3. Phases'
  BY NoneType, CallsType, EchoType DEF NewIsBlank, Phases, Active
<1>4. AnswersAreReal'
  BY NoneType, CallsType, EchoType DEF NewIsBlank, Phases, AnswersAreReal,
     Active
<1>5. AnswersAreOwn'
  BY NoneType, CallsType, EchoType DEF NewIsBlank, AnswersAreReal,
     AnswersAreOwn, Active
<1>6. ResultsAreAnswers'
  BY NoneType, CallsType, EchoType DEF NewIsBlank, Phases,
     ResultsAreAnswers, Active
<1>7. NoticeIsNew'
  BY NoneType, CallsType, EchoType DEF NoticeIsNew, Active
<1>8. EntryIsLive'
  BY NoneType, CallsType, EchoType DEF NewIsBlank, Phases, EntryIsLive,
     Active
<1>9. WaiterIsRegistered'
  BY NoneType, CallsType, EchoType DEF NewIsBlank, Phases, EntryIsLive,
     WaiterIsRegistered, Active
<1>10. AnsweredOverItsConnection'
  BY NoneType, CallsType, EchoType DEF NewIsBlank, Phases, AnswersAreReal,
     EntryIsLive, AnsweredOverItsConnection, Active
<1> QED
  BY <1>1, <1>2, <1>3, <1>4, <1>5,
     <1>6, <1>7, <1>8, <1>9, <1>10

\* A call that ends and cleans up.
LEMMA EndStep ==
    ASSUME IInv, NEW c \in Calls, Active(c), NEW how \in Outcomes,
           how \in {"ok", "failed"} => future[c] = how, End(c, how)
    PROVE  IInv'
<1> USE DEF IInv, TypeOK, Active, callVars, connVars
<1>1. TypeOK'
  BY NoneType, CallsType, EchoType DEF End, CleanUp, Returned, Outcomes
<1>2. NewIsBlank'
  BY NoneType, CallsType, EchoType DEF NewIsBlank, End, CleanUp, Returned,
     Outcomes
<1>3. Phases'
  BY NoneType, CallsType, EchoType DEF NewIsBlank, Phases, End, CleanUp,
     Returned, Outcomes
<1>4. AnswersAreReal'
  BY NoneType, CallsType, EchoType DEF NewIsBlank, Phases, AnswersAreReal,
     End, CleanUp, Returned, Outcomes
<1>5. AnswersAreOwn'
  BY NoneType, CallsType, EchoType DEF NewIsBlank, AnswersAreReal,
     AnswersAreOwn, End, CleanUp, Returned, Outcomes
<1>6. ResultsAreAnswers'
  BY NoneType, CallsType, EchoType DEF NewIsBlank, Phases,
     ResultsAreAnswers, End, CleanUp, Returned, Outcomes
<1>7. NoticeIsNew'
  BY NoneType, CallsType, EchoType DEF NoticeIsNew, End, CleanUp, Returned,
     Outcomes
<1>8. EntryIsLive'
  BY NoneType, CallsType, EchoType DEF NewIsBlank, Phases, EntryIsLive, End,
     CleanUp, Returned, Outcomes
<1>9. WaiterIsRegistered'
  BY NoneType, CallsType, EchoType DEF NewIsBlank, Phases, EntryIsLive,
     WaiterIsRegistered, End, CleanUp, Returned, Outcomes
<1>10. AnsweredOverItsConnection'
  BY NoneType, CallsType, EchoType DEF NewIsBlank, Phases, AnswersAreReal,
     EntryIsLive, AnsweredOverItsConnection, End, CleanUp, Returned,
     Outcomes
<1> QED
  BY <1>1, <1>2, <1>3, <1>4, <1>5,
     <1>6, <1>7, <1>8, <1>9, <1>10

\* A call that is interrupted.
LEMMA ThrowStep ==
    ASSUME IInv, NEW c \in Calls, Active(c), NEW what \in {"timeout", "cancel"},
           what = "timeout" => status[c] = "waiting", Throw(c, what)
    PROVE  IInv'
<1> USE DEF IInv, TypeOK, Active, callVars, connVars
<1>1. TypeOK'
  BY NoneType, CallsType, EchoType DEF Throw
<1>2. NewIsBlank'
  BY NoneType, CallsType, EchoType DEF NewIsBlank, Throw
<1>3. Phases'
  BY NoneType, CallsType, EchoType DEF NewIsBlank, Phases, Throw
<1>4. AnswersAreReal'
  BY NoneType, CallsType, EchoType DEF NewIsBlank, Phases, AnswersAreReal,
     Throw
<1>5. AnswersAreOwn'
  BY NoneType, CallsType, EchoType DEF NewIsBlank, AnswersAreReal,
     AnswersAreOwn, Throw
<1>6. ResultsAreAnswers'
  BY NoneType, CallsType, EchoType DEF NewIsBlank, Phases,
     ResultsAreAnswers, Throw
<1>7. NoticeIsNew'
  BY NoneType, CallsType, EchoType DEF NoticeIsNew, Throw
<1>8. EntryIsLive'
  BY NoneType, CallsType, EchoType DEF NewIsBlank, Phases, EntryIsLive,
     Throw
<1>9. WaiterIsRegistered'
  BY NoneType, CallsType, EchoType DEF NewIsBlank, Phases, EntryIsLive,
     WaiterIsRegistered, Throw
<1>10. AnsweredOverItsConnection'
  BY NoneType, CallsType, EchoType DEF NewIsBlank, Phases, AnswersAreReal,
     EntryIsLive, AnsweredOverItsConnection, Throw
<1> QED
  BY <1>1, <1>2, <1>3, <1>4, <1>5,
     <1>6, <1>7, <1>8, <1>9, <1>10

\* An answer that is read.
LEMMA ReceiveStep ==
    ASSUME IInv, NEW c \in Calls, Receive(c)
    PROVE  IInv'
<1> USE DEF IInv, TypeOK, Active, callVars, connVars
<1>1. TypeOK'
  BY NoneType, CallsType, EchoType DEF Receive, Matches
<1>2. NewIsBlank'
  BY NoneType, CallsType, EchoType DEF NewIsBlank, Receive, Matches
<1>3. Phases'
  BY NoneType, CallsType, EchoType DEF NewIsBlank, Phases, Receive, Matches
<1>4. AnswersAreReal'
  BY NoneType, CallsType, EchoType DEF NewIsBlank, Phases, AnswersAreReal,
     Receive, Matches
<1>5. AnswersAreOwn'
  BY NoneType, CallsType, EchoType DEF NewIsBlank, AnswersAreReal,
     AnswersAreOwn, Receive, Matches
<1>6. ResultsAreAnswers'
  BY NoneType, CallsType, EchoType DEF NewIsBlank, Phases,
     ResultsAreAnswers, Receive, Matches
<1>7. NoticeIsNew'
  BY NoneType, CallsType, EchoType DEF NoticeIsNew, Receive, Matches
<1>8. EntryIsLive'
  BY NoneType, CallsType, EchoType DEF NewIsBlank, Phases, EntryIsLive,
     Receive, Matches
<1>9. WaiterIsRegistered'
  BY NoneType, CallsType, EchoType DEF NewIsBlank, Phases, EntryIsLive,
     WaiterIsRegistered, Receive, Matches
<1>10. AnsweredOverItsConnection'
  BY NoneType, CallsType, EchoType DEF NewIsBlank, Phases, AnswersAreReal,
     EntryIsLive, AnsweredOverItsConnection, Receive, Matches
<1> QED
  BY <1>1, <1>2, <1>3, <1>4, <1>5,
     <1>6, <1>7, <1>8, <1>9, <1>10

\* An answer that is given.
LEMMA AnswerStep ==
    ASSUME IInv, NEW c \in Calls, Answer(c)
    PROVE  IInv'
<1> USE DEF IInv, TypeOK, Active, callVars, connVars
<1>1. TypeOK'
  BY NoneType, CallsType, EchoType DEF Answer
<1>2. NewIsBlank'
  BY NoneType, CallsType, EchoType DEF NewIsBlank, Answer
<1>3. Phases'
  BY NoneType, CallsType, EchoType DEF NewIsBlank, Phases, Answer
<1>4. AnswersAreReal'
  BY NoneType, CallsType, EchoType DEF NewIsBlank, Phases, AnswersAreReal,
     Answer
<1>5. AnswersAreOwn'
  BY NoneType, CallsType, EchoType DEF NewIsBlank, AnswersAreReal,
     AnswersAreOwn, Answer
<1>6. ResultsAreAnswers'
  BY NoneType, CallsType, EchoType DEF NewIsBlank, Phases,
     ResultsAreAnswers, Answer
<1>7. NoticeIsNew'
  BY NoneType, CallsType, EchoType DEF NoticeIsNew, Answer
<1>8. EntryIsLive'
  BY NoneType, CallsType, EchoType DEF NewIsBlank, Phases, EntryIsLive,
     Answer
<1>9. WaiterIsRegistered'
  BY NoneType, CallsType, EchoType DEF NewIsBlank, Phases, EntryIsLive,
     WaiterIsRegistered, Answer
<1>10. AnsweredOverItsConnection'
  BY NoneType, CallsType, EchoType DEF NewIsBlank, Phases, AnswersAreReal,
     EntryIsLive, AnsweredOverItsConnection, Answer
<1> QED
  BY <1>1, <1>2, <1>3, <1>4, <1>5,
     <1>6, <1>7, <1>8, <1>9, <1>10

\* A connection that is removed.
LEMMA LeaveStep ==
    ASSUME IInv, NEW k \in Conns, Leave(k)
    PROVE  IInv'
<1> USE DEF IInv, TypeOK, Active, callVars, connVars
<1>1. TypeOK'
  BY NoneType, CallsType, EchoType DEF Leave
<1>2. NewIsBlank'
  BY NoneType, CallsType, EchoType DEF NewIsBlank, Leave
<1>3. Phases'
  BY NoneType, CallsType, EchoType DEF NewIsBlank, Phases, Leave
<1>4. AnswersAreReal'
  BY NoneType, CallsType, EchoType DEF NewIsBlank, Phases, AnswersAreReal,
     Leave
<1>5. AnswersAreOwn'
  BY NoneType, CallsType, EchoType DEF NewIsBlank, AnswersAreReal,
     AnswersAreOwn, Leave
<1>6. ResultsAreAnswers'
  BY NoneType, CallsType, EchoType DEF NewIsBlank, Phases,
     ResultsAreAnswers, Leave
<1>7. NoticeIsNew'
  BY NoneType, CallsType, EchoType DEF NoticeIsNew, Leave
<1>8. EntryIsLive'
  BY NoneType, CallsType, EchoType DEF NewIsBlank, Phases, EntryIsLive,
     Leave
<1>9. WaiterIsRegistered'
  BY NoneType, CallsType, EchoType DEF NewIsBlank, Phases, EntryIsLive,
     WaiterIsRegistered, Leave
<1>10. AnsweredOverItsConnection'
  BY NoneType, CallsType, EchoType DEF NewIsBlank, Phases, AnswersAreReal,
     EntryIsLive, AnsweredOverItsConnection, Leave
<1> QED
  BY <1>1, <1>2, <1>3, <1>4, <1>5,
     <1>6, <1>7, <1>8, <1>9, <1>10

\* A connection that opens without the callback.
LEMMA OpenedStep ==
    ASSUME IInv, NEW k \in Conns, Connect(k), ~noticeDue
    PROVE  IInv'
<1> USE DEF IInv, TypeOK, Active, callVars, connVars
<1>1. TypeOK'
  BY NoneType, CallsType, EchoType DEF Connect
<1>2. NewIsBlank'
  BY NoneType, CallsType, EchoType DEF NewIsBlank, Connect
<1>3. Phases'
  BY NoneType, CallsType, EchoType DEF NewIsBlank, Phases, Connect
<1>4. AnswersAreReal'
  BY NoneType, CallsType, EchoType DEF NewIsBlank, Phases, AnswersAreReal,
     Connect
<1>5. AnswersAreOwn'
  BY NoneType, CallsType, EchoType DEF NewIsBlank, AnswersAreReal,
     AnswersAreOwn, Connect
<1>6. ResultsAreAnswers'
  BY NoneType, CallsType, EchoType DEF NewIsBlank, Phases,
     ResultsAreAnswers, Connect
<1>7. NoticeIsNew'
  BY NoneType, CallsType, EchoType DEF NoticeIsNew, Connect
<1>8. EntryIsLive'
  BY NoneType, CallsType, EchoType DEF NewIsBlank, Phases, EntryIsLive, Connect
<1>9. WaiterIsRegistered'
  BY NoneType, CallsType, EchoType DEF NewIsBlank, Phases, EntryIsLive,
     WaiterIsRegistered, Connect
<1>10. AnsweredOverItsConnection'
  BY NoneType, CallsType, EchoType DEF NewIsBlank, Phases, AnswersAreReal,
     EntryIsLive, AnsweredOverItsConnection, Connect
<1> QED
  BY <1>1, <1>2, <1>3, <1>4, <1>5,
     <1>6, <1>7, <1>8, <1>9, <1>10

\* A socket that closes.
LEMMA DropStep ==
    ASSUME IInv, NEW k \in Conns, Drop(k)
    PROVE  IInv'
<1> USE DEF IInv, TypeOK, Active, callVars, connVars
<1>1. TypeOK'
  BY NoneType, CallsType, EchoType DEF Drop
<1>2. NewIsBlank'
  BY NoneType, CallsType, EchoType DEF NewIsBlank, Drop
<1>3. Phases'
  BY NoneType, CallsType, EchoType DEF NewIsBlank, Phases, Drop
<1>4. AnswersAreReal'
  BY NoneType, CallsType, EchoType DEF NewIsBlank, Phases, AnswersAreReal,
     Drop
<1>5. AnswersAreOwn'
  BY NoneType, CallsType, EchoType DEF NewIsBlank, AnswersAreReal,
     AnswersAreOwn, Drop
<1>6. ResultsAreAnswers'
  BY NoneType, CallsType, EchoType DEF NewIsBlank, Phases,
     ResultsAreAnswers, Drop
<1>7. NoticeIsNew'
  BY NoneType, CallsType, EchoType DEF NoticeIsNew, Drop
<1>8. EntryIsLive'
  BY NoneType, CallsType, EchoType DEF NewIsBlank, Phases, EntryIsLive, Drop
<1>9. WaiterIsRegistered'
  BY NoneType, CallsType, EchoType DEF NewIsBlank, Phases, EntryIsLive,
     WaiterIsRegistered, Drop
<1>10. AnsweredOverItsConnection'
  BY NoneType, CallsType, EchoType DEF NewIsBlank, Phases, AnswersAreReal,
     EntryIsLive, AnsweredOverItsConnection, Drop
<1> QED
  BY <1>1, <1>2, <1>3, <1>4, <1>5,
     <1>6, <1>7, <1>8, <1>9, <1>10

\* The sockets that stop() closes.
LEMMA BeginStopStep ==
    ASSUME IInv, BeginStop
    PROVE  IInv'
<1> USE DEF IInv, TypeOK, Active, callVars, connVars
<1>1. TypeOK'
  BY NoneType, CallsType, EchoType DEF BeginStop
<1>2. NewIsBlank'
  BY NoneType, CallsType, EchoType DEF NewIsBlank, BeginStop
<1>3. Phases'
  BY NoneType, CallsType, EchoType DEF NewIsBlank, Phases, BeginStop
<1>4. AnswersAreReal'
  BY NoneType, CallsType, EchoType DEF NewIsBlank, Phases, AnswersAreReal,
     BeginStop
<1>5. AnswersAreOwn'
  BY NoneType, CallsType, EchoType DEF NewIsBlank, AnswersAreReal,
     AnswersAreOwn, BeginStop
<1>6. ResultsAreAnswers'
  BY NoneType, CallsType, EchoType DEF NewIsBlank, Phases,
     ResultsAreAnswers, BeginStop
<1>7. NoticeIsNew'
  BY NoneType, CallsType, EchoType DEF NoticeIsNew, BeginStop
<1>8. EntryIsLive'
  BY NoneType, CallsType, EchoType DEF NewIsBlank, Phases, EntryIsLive,
     BeginStop
<1>9. WaiterIsRegistered'
  BY NoneType, CallsType, EchoType DEF NewIsBlank, Phases, EntryIsLive,
     WaiterIsRegistered, BeginStop
<1>10. AnsweredOverItsConnection'
  BY NoneType, CallsType, EchoType DEF NewIsBlank, Phases, AnswersAreReal,
     EntryIsLive, AnsweredOverItsConnection, BeginStop
<1> QED
  BY <1>1, <1>2, <1>3, <1>4, <1>5,
     <1>6, <1>7, <1>8, <1>9, <1>10

\* The futures that stop() cancels.
LEMMA FinishStopStep ==
    ASSUME IInv, FinishStop
    PROVE  IInv'
<1> USE DEF IInv, TypeOK, Active, callVars, connVars
<1>1. TypeOK'
  BY NoneType, CallsType, EchoType DEF FinishStop
<1>2. NewIsBlank'
  BY NoneType, CallsType, EchoType DEF NewIsBlank, FinishStop
<1>3. Phases'
  BY NoneType, CallsType, EchoType DEF NewIsBlank, Phases, FinishStop
<1>4. AnswersAreReal'
  BY NoneType, CallsType, EchoType DEF NewIsBlank, Phases, AnswersAreReal,
     FinishStop
<1>5. AnswersAreOwn'
  BY NoneType, CallsType, EchoType DEF NewIsBlank, AnswersAreReal,
     AnswersAreOwn, FinishStop
<1>6. ResultsAreAnswers'
  BY NoneType, CallsType, EchoType DEF NewIsBlank, Phases,
     ResultsAreAnswers, FinishStop
<1>7. NoticeIsNew'
  BY NoneType, CallsType, EchoType DEF NoticeIsNew, FinishStop
<1>8. EntryIsLive'
  BY NoneType, CallsType, EchoType DEF NewIsBlank, Phases, EntryIsLive,
     FinishStop
<1>9. WaiterIsRegistered'
  BY NoneType, CallsType, EchoType DEF NewIsBlank, Phases, EntryIsLive,
     WaiterIsRegistered, FinishStop
<1>10. AnsweredOverItsConnection'
  BY NoneType, CallsType, EchoType DEF NewIsBlank, Phases, AnswersAreReal,
     EntryIsLive, AnsweredOverItsConnection, FinishStop
<1> QED
  BY <1>1, <1>2, <1>3, <1>4, <1>5,
     <1>6, <1>7, <1>8, <1>9, <1>10

-----------------------------------------------------------------------------
LEMMA InitHolds == Init => IInv
<1> SUFFICES ASSUME Init PROVE IInv
  OBVIOUS
<1> USE DEF Init, Active
<1>1. TypeOK
  BY NoneType, CallsType, EchoType DEF TypeOK
<1>2. NewIsBlank
  BY NoneType, CallsType, EchoType DEF NewIsBlank
<1>3. Phases
  BY NoneType, CallsType, EchoType DEF Phases
<1>4. AnswersAreReal
  BY NoneType, CallsType, EchoType DEF AnswersAreReal
<1>5. AnswersAreOwn
  BY NoneType, CallsType, EchoType DEF AnswersAreOwn
<1>6. ResultsAreAnswers
  BY NoneType, CallsType, EchoType DEF ResultsAreAnswers
<1>7. NoticeIsNew
  BY NoneType, CallsType, EchoType DEF NoticeIsNew
<1>8. EntryIsLive
  BY NoneType, CallsType, EchoType DEF EntryIsLive
<1>9. WaiterIsRegistered
  BY NoneType, CallsType, EchoType DEF WaiterIsRegistered
<1>10. AnsweredOverItsConnection
  BY NoneType, CallsType, EchoType DEF AnsweredOverItsConnection
<1> QED
  BY <1>1, <1>2, <1>3, <1>4, <1>5, <1>6, <1>7, <1>8, <1>9, <1>10 DEF IInv

LEMMA BeginStep ==
    ASSUME IInv, NEW c \in Calls, Begin(c)
    PROVE  IInv'
<1>1. pending[Echo[c]] = None
  BY FreshEcho, ClockEchoes DEF Begin, Ready, EchoTaken
<1>2. PICK k \in conns : Write(c, k, open)
  BY DEF Begin
<1>3. k \in Conns /\ k \in conns' /\ Around(c) /\ status[c] = "new"
  BY <1>2 DEF Begin, Ready, Around, Readers, connVars, IInv, TypeOK
<1> QED
  BY <1>1, <1>2, <1>3, WrittenStep, ClosedStep

LEMMA ConnectStep ==
    ASSUME IInv, NEW k \in Conns, Connect(k)
    PROVE  IInv'
<1>1. CASE noticeDue
  <2>1. Notice \in Calls /\ status[Notice] = "new" /\ Fresh(Notice)
    BY <1>1, CallsType, ClockEchoes DEF IInv, NoticeIsNew
  <2>2. pending[Echo[Notice]] = None
    BY <2>1, FreshEcho
  <2>3. PICK via \in conns' : Write(Notice, via, open')
    BY <1>1 DEF Connect
  <2>4. via \in Conns /\ Around(Notice)
    BY <1>1, <2>1 DEF Connect, Around, Readers, IInv, TypeOK
  <2> QED
    BY <2>1, <2>2, <2>3, <2>4, WrittenStep, ClosedStep
<1>2. CASE ~noticeDue
  BY <1>2, OpenedStep
<1> QED
  BY <1>1, <1>2

LEMMA ResumedStep ==
    ASSUME IInv, NEW c \in Calls, Written(c) \/ WriteFails(c) \/ Resume(c)
    PROVE  IInv'
<1>1. CASE Written(c)
  <2>1. CASE future[c] = "undone"
    BY <1>1, <2>1, DrainedStep DEF Written
  <2>2. CASE future[c] # "undone"
    BY <1>1, <2>2, EndStep
       DEF Written, Result, Outcomes, Active, IInv, TypeOK, Phases
  <2> QED
    BY <2>1, <2>2
<1>2. CASE WriteFails(c)
  BY <1>2, EndStep DEF WriteFails, Outcomes, Active
<1>3. CASE Resume(c)
  BY <1>3, EndStep DEF Resume, Result, Outcomes, Active, IInv, TypeOK, Phases
<1> QED
  BY <1>1, <1>2, <1>3

LEMMA NextStep ==
    ASSUME IInv, [Next]_vars
    PROVE  IInv'
<1>1. ASSUME NEW c \in Calls, Timeout(c) \/ Cancel(c)
      PROVE  IInv'
  BY <1>1, ThrowStep DEF Timeout, Cancel, Active
<1>2. CASE UNCHANGED vars
  BY <1>2 DEF vars, callVars, connVars, IInv, TypeOK, NewIsBlank, Phases,
              AnswersAreReal, AnswersAreOwn, ResultsAreAnswers, NoticeIsNew,
              EntryIsLive, WaiterIsRegistered, AnsweredOverItsConnection, Active
<1> QED
  BY <1>1, <1>2, RefuseStep, BeginStep, ResumedStep, ReceiveStep, AnswerStep,
     ConnectStep, LeaveStep, DropStep, BeginStopStep, FinishStopStep DEF Next

\* The strengthened invariant holds in every reachable state.
THEOREM Invariant == Spec => []IInv
BY InitHolds, NextStep, PTL DEF Spec

\* The variables keep their types.
THEOREM TypeCorrect == Spec => []TypeOK
<1>1. IInv => TypeOK
  BY DEF IInv
<1> QED
  BY <1>1, Invariant, PTL

\* No entry outlives its call or its connection (the finally blocks and
\* _remove_connection together).
THEOREM EntriesAreLive == Spec => []EntryIsLive
<1>1. IInv => EntryIsLive
  BY DEF IInv
<1> QED
  BY <1>1, Invariant, PTL

\* The answer to a waiting call finds it.
THEOREM WaitersAreRegistered == Spec => []WaiterIsRegistered
<1>1. IInv => WaiterIsRegistered
  BY DEF IInv
<1> QED
  BY <1>1, Invariant, PTL

\* Only an answer under its echo, over its connection, completes a call.
THEOREM AnsweredRightly == Spec => []AnsweredOverItsConnection
<1>1. IInv => AnsweredOverItsConnection
  BY DEF IInv
<1> QED
  BY <1>1, Invariant, PTL
-----------------------------------------------------------------------------
(* Every step keeps the promise to the callers.                            *)

Stage == [c \in Calls |-> IF Active(c) THEN "asked" ELSE status[c]]
Executed == {c \in Calls : gateway[c] = "executed"}
Receipt == [c \in Calls |-> IF outcome[c] = "ok" THEN answeredBy[c] ELSE None]

\* A call that begins: the caller asks, or the socket is closed and it gives up.
LEMMA BeginPromise ==
    ASSUME IInv, NEW c \in Calls, status[c] = "new", NEW k, NEW sockets,
           Write(c, k, sockets), answeredBy' = answeredBy
    PROVE  Receipts!Ask(c) \/ Receipts!GiveUp(c)
<1> USE DEF IInv, TypeOK, NewIsBlank, Active
<1>1. Executed' = Executed /\ Receipt' = Receipt
  BY DEF Write, Executed, Receipt
<1>2. Stage[c] = "new"
  BY DEF Stage
<1>3. CASE k \in sockets
  <2>1. Stage' = [Stage EXCEPT ![c] = "asked"]
    BY <1>3 DEF Write, Stage
  <2> QED
    BY <1>1, <1>2, <2>1
       DEF Receipts!Ask, Receipts!Move, Stage, Executed, Receipt
<1>4. CASE k \notin sockets
  <2>1. Stage' = [Stage EXCEPT ![c] = "ended"]
    BY <1>4 DEF Write, Stage
  <2> QED
    BY <1>1, <1>2, <2>1
       DEF Receipts!GiveUp, Receipts!Move, Stage, Executed, Receipt
<1> QED
  BY <1>3, <1>4

\* A call that ends: with its receipt, or it gives up.
LEMMA EndPromise ==
    ASSUME IInv, NEW c \in Calls, Active(c), NEW how \in Outcomes,
           how \in {"ok", "failed"} => future[c] = how, End(c, how)
    PROVE  Receipts!Confirm(c) \/ Receipts!GiveUp(c)
<1> USE DEF IInv, TypeOK, Active, Outcomes
<1>1. Executed' = Executed
  BY DEF End, Executed
<1>2. Stage[c] = "asked" /\ Stage' = [Stage EXCEPT ![c] = "ended"]
  BY DEF End, Stage
<1>3. CASE how = "ok"
  <2> DEFINE d == answeredBy[c]
  <2>1. d # None /\ Echo[d] = Echo[c] /\ d \in Executed
    BY <1>3 DEF ResultsAreAnswers, AnsweredOverItsConnection, Executed
  <2>2. \A other \in Calls : Receipt[other] # d
    <3>1. Receipt[c] = None
      BY DEF Phases, Receipt
    <3> QED
      BY <2>1, <3>1 DEF AnswersAreOwn, Receipt
  <2>3. Receipt' = [Receipt EXCEPT ![c] = d]
    BY <1>3 DEF End, Receipt
  <2> QED
    BY <1>1, <1>2, <2>1, <2>2, <2>3
       DEF Receipts!Confirm, Receipts!Move, Stage, Executed, Receipt
<1>4. CASE how # "ok"
  <2>1. Receipt' = Receipt
    BY <1>4 DEF End, Receipt, Phases
  <2> QED
    BY <1>1, <1>2, <2>1
       DEF Receipts!GiveUp, Receipts!Move, Stage, Executed, Receipt
<1> QED
  BY <1>3, <1>4

\* Steps that callers do not see.
LEMMA HiddenStep ==
    ASSUME IInv, Stage' = Stage, gateway' = gateway, Receipt' = Receipt
    PROVE  UNCHANGED Receipts!vars
BY DEF Receipts!vars, Stage, Receipt, Executed

\* An answer that is read completes the future of a call that has not ended.
LEMMA ReceivePromise ==
    ASSUME IInv, NEW c \in Calls, Receive(c)
    PROVE  UNCHANGED Receipts!vars
<1> USE DEF IInv, TypeOK, Active
<1>1. Stage' = Stage /\ gateway' = gateway
  BY DEF Receive, Stage
<1>2. Receipt' = Receipt
  <2>1. ASSUME NEW d \in Calls, outcome[d] = "ok"
        PROVE  answeredBy'[d] = answeredBy[d]
    <3>1. future[d] # "undone"
      BY <2>1 DEF Phases
    <3> QED
      BY <3>1 DEF Receive, Matches
  <2> QED
    BY <2>1 DEF Receive, Receipt
<1> QED
  BY <1>1, <1>2, HiddenStep

LEMMA AnswerPromise ==
    ASSUME IInv, NEW c \in Calls, Answer(c)
    PROVE  Receipts!Execute(c) \/ UNCHANGED Receipts!vars
<1> USE DEF IInv, TypeOK, Active, callVars
<1>1. Stage' = Stage /\ Receipt' = Receipt /\ Stage[c] # "new"
  BY DEF Answer, Stage, Receipt, NewIsBlank
<1>2. Executed' \in {Executed, Executed \union {c}}
  BY DEF Answer, Executed
<1> QED
  BY <1>1, <1>2
     DEF Receipts!Execute, Receipts!vars, Stage, Receipt, Executed

LEMMA ConnectPromise ==
    ASSUME IInv, NEW k \in Conns, Connect(k)
    PROVE  \/ \E c \in Calls : Receipts!Ask(c) \/ Receipts!GiveUp(c)
           \/ UNCHANGED Receipts!vars
<1>1. CASE noticeDue
  <2>1. Notice \in Calls /\ status[Notice] = "new"
    BY <1>1, CallsType DEF IInv, NoticeIsNew
  <2>2. PICK via \in conns' : Write(Notice, via, open')
    BY <1>1 DEF Connect
  <2>3. answeredBy' = answeredBy
    BY DEF Connect
  <2> QED
    BY <2>1, <2>2, <2>3, BeginPromise
<1>2. CASE ~noticeDue
  <2>1. Stage' = Stage /\ gateway' = gateway /\ Receipt' = Receipt
    BY <1>2 DEF Connect, Stage, Receipt, Active
  <2> QED
    BY <2>1, HiddenStep
<1> QED
  BY <1>1, <1>2

LEMMA ResumedPromise ==
    ASSUME IInv, NEW c \in Calls, Written(c) \/ WriteFails(c) \/ Resume(c)
    PROVE  \/ Receipts!Confirm(c) \/ Receipts!GiveUp(c)
           \/ UNCHANGED Receipts!vars
<1>1. CASE Written(c)
  <2>1. CASE future[c] = "undone"
    <3>1. Stage' = Stage /\ gateway' = gateway /\ Receipt' = Receipt
      BY <1>1, <2>1 DEF Written, Stage, Receipt, Active, IInv, TypeOK
    <3> QED
      BY <3>1, HiddenStep
  <2>2. CASE future[c] # "undone"
    BY <1>1, <2>2, EndPromise
       DEF Written, Result, Outcomes, Active, IInv, TypeOK, Phases
  <2> QED
    BY <2>1, <2>2
<1>2. CASE WriteFails(c)
  BY <1>2, EndPromise DEF WriteFails, Outcomes, Active
<1>3. CASE Resume(c)
  BY <1>3, EndPromise DEF Resume, Result, Outcomes, Active, IInv, TypeOK, Phases
<1> QED
  BY <1>1, <1>2, <1>3

LEMMA RefusePromise ==
    ASSUME IInv, NEW c \in Calls, Refuse(c)
    PROVE  Receipts!GiveUp(c)
<1> USE DEF IInv, TypeOK, Active
<1>1. Executed' = Executed /\ Receipt' = Receipt
  BY DEF Refuse, Ready, Executed, Receipt, NewIsBlank
<1>2. Stage[c] = "new" /\ Stage' = [Stage EXCEPT ![c] = "ended"]
  BY DEF Refuse, Ready, Stage
<1> QED
  BY <1>1, <1>2
     DEF Receipts!GiveUp, Receipts!Move, Stage, Executed, Receipt

\* Connections, sockets, interruptions and stop() change nothing callers see.
LEMMA OtherPromise ==
    ASSUME IInv,
           \/ \E c \in Calls : Timeout(c) \/ Cancel(c)
           \/ \E k \in Conns : Leave(k) \/ Drop(k)
           \/ BeginStop \/ FinishStop \/ UNCHANGED vars
    PROVE  UNCHANGED Receipts!vars
<1>1. UNCHANGED <<status, outcome, gateway, answeredBy>>
  BY DEF Timeout, Cancel, Throw, Leave, Drop, BeginStop, FinishStop, vars,
         callVars, connVars
<1>2. Stage' = Stage /\ gateway' = gateway /\ Receipt' = Receipt
  BY <1>1 DEF Stage, Receipt, Active
<1> QED
  BY <1>2, HiddenStep

\* An "ok" is the receipt of one execution under the call's echo.
THEOREM Refinement == Spec => ImplementsReceipts
<1>1. Init => Receipts!Init
  BY DEF Init, Receipts!Init, Active
<1>2. IInv /\ [Next]_vars => [Receipts!Next]_(Receipts!vars)
  <2> SUFFICES ASSUME IInv, [Next]_vars
               PROVE  Receipts!Next \/ UNCHANGED Receipts!vars
    OBVIOUS
  <2>1. ASSUME NEW c \in Calls, Begin(c)
        PROVE  Receipts!Ask(c) \/ Receipts!GiveUp(c)
    <3>1. PICK k \in conns : Write(c, k, open)
      BY <2>1 DEF Begin
    <3> QED
      BY <2>1, <3>1, BeginPromise DEF Begin, Ready
  <2> QED
    BY <2>1, RefusePromise, ResumedPromise, ReceivePromise, AnswerPromise,
       ConnectPromise, OtherPromise DEF Next, Receipts!Next
<1> QED
  BY <1>1, <1>2, Invariant, PTL DEF Spec, ImplementsReceipts, Receipts!Spec
=============================================================================
