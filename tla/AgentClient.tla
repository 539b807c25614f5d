----------------------------- MODULE AgentClient -----------------------------
(***************************************************************************)
(* The backend's own connection to one Rust agent (backend pull):          *)
(* apps/backend/src/agents/agent-client.service.ts.                        *)
(*                                                                         *)
(* Every map of the service is keyed by the agent id, so one agent is      *)
(* modelled; the close handler, the reconnection timer and the REST calls  *)
(* share that key although they belong to different connections, which is  *)
(* what makes them interfere.  A connection object that is closed and      *)
(* forgotten may be used again, so the pool Conns bounds only how many     *)
(* connections exist at once.  The backoff delay grows with the number of  *)
(* attempts and is left out: a timer fires at any time after it is armed.  *)
(***************************************************************************)
EXTENDS Naturals

CONSTANTS
    Conns,  \* connection objects (ws client sockets)
    None

ASSUME AgentClientAssumption == None \notin Conns

VARIABLES
    session,       \* sessions.get(agentId): the connection, or None
    ws,            \* readyState of each connection
    closeCode,     \* the code close() was called with, 1006 if it was not
    auth,          \* what each connection knows of its auth message
    reconnectTimer,\* reconnectTimers.get(agentId): the timer armed by a connection
    armed,         \* the timers that will fire, by the connection that armed them
    isDestroying,
    lastCall,      \* the last REST call
    notified,      \* the last event subscribers were sent
    \* History, which no action reads: what has come of the last calls.
    overtaken,     \* connect opened a connection before the last one was over
    unheard,       \* disconnect left something that opens a connection again
    dismissed      \* a wanted connection was closed with code 1000

history == <<overtaken, unheard, dismissed>>
vars == <<session, ws, closeCode, auth, reconnectTimer, armed,
          isDestroying, lastCall, notified, history>>

TypeOK ==
    /\ session \in Conns \cup {None}
    /\ ws \in [Conns -> {"connecting", "open", "closing", "closed"}]
    /\ closeCode \in [Conns -> {1000, 1006, 1008}]
    /\ auth \in [Conns -> {"unsent", "sent", "ok", "error"}]
    /\ reconnectTimer \in Conns \cup {None}
    /\ armed \in SUBSET Conns
    /\ isDestroying \in BOOLEAN
    /\ lastCall \in {"none", "connect", "disconnect"}
    /\ notified \in {"none", "online", "offline"}
    /\ overtaken \in BOOLEAN /\ unheard \in BOOLEAN /\ dismissed \in BOOLEAN

Init ==
    /\ session = None
    /\ ws = [c \in Conns |-> "closed"]
    /\ closeCode = [c \in Conns |-> 1006]
    /\ auth = [c \in Conns |-> "unsent"]
    /\ reconnectTimer = None
    /\ armed = {}
    /\ isDestroying = FALSE
    /\ lastCall = "none"
    /\ notified = "none"
    /\ overtaken = FALSE /\ unheard = FALSE /\ dismissed = FALSE

\* session.connected: the agent accepted the password.
Connected(c) == auth[c] = "ok"
Wanted == lastCall = "connect"
Live(c) == ws[c] \in {"connecting", "open"}

\* Nothing is left of earlier connections.
AtRest == armed = {} /\ \A c \in Conns : ws[c] = "closed"
\* The connection will be opened again, if it is not closed with code 1000.
Due(c) == c \in armed \/ (ws[c] = "closing" /\ closeCode[c] # 1000)

\* A connection object nothing refers to.
Unused(c) == ws[c] = "closed" /\ c \notin armed' /\ reconnectTimer' # c

-----------------------------------------------------------------------------
(* The service *)

OpenConnection(c) ==
    /\ Unused(c)
    /\ session' = c
    /\ ws' = [ws EXCEPT ![c] = "connecting"]
    /\ UNCHANGED closeCode

ConnectCalled ==
    /\ lastCall' = "connect" /\ unheard' = FALSE /\ dismissed' = FALSE
    /\ UNCHANGED <<auth, reconnectTimer, armed, isDestroying, notified>>

\* Fault: a duplicate connect call is not ignored.
Connect_Duplicate ==
    /\ ConnectCalled
    /\ \E c \in Conns : OpenConnection(c)
    /\ overtaken' = (session = None /\ ~AtRest)

\* POST :id/connect.  A call is ignored while a session is in the map; a
\* connection that is closing, or due again, is not looked for.
Connect ==
    /\ ConnectCalled
    /\ IF session # None
       THEN UNCHANGED <<session, ws, closeCode, overtaken>>
       ELSE /\ \E c \in Conns : OpenConnection(c)
            /\ overtaken' = ~AtRest

\* ws.close(code) on each connection of C: an open one starts the closing
\* handshake, one still connecting is aborted (and will report 1006).
CloseSockets(C, code) ==
    /\ ws' = [c \in Conns |-> IF c \in C /\ Live(c) THEN "closing" ELSE ws[c]]
    /\ closeCode' = [c \in Conns |->
          IF c \in C /\ ws[c] = "open" THEN code ELSE closeCode[c]]

\* Fault: the session leaves the map and its socket stays open.
Disconnect_LeavesOpen ==
    /\ lastCall' = "disconnect"
    /\ session' = None
    /\ UNCHANGED <<ws, closeCode, auth, reconnectTimer, armed, isDestroying, notified,
                   overtaken, dismissed>>
    /\ unheard' = \E c \in Conns : Due(c)

\* DELETE :id/connect.  Only a session in the map is closed: a reconnection
\* that is due stays due, and a socket still connecting is aborted.
Disconnect ==
    /\ lastCall' = "disconnect"
    /\ session' = None
    /\ CloseSockets({session}, 1000)
    /\ UNCHANGED <<auth, reconnectTimer, armed, isDestroying, notified, overtaken, dismissed>>
    /\ unheard' = (\E c \in Conns : Due(c))'

\* The "open" event: the auth message is sent.
WsOpen(c) ==
    /\ ws[c] = "connecting"
    /\ ws' = [ws EXCEPT ![c] = "open"]
    /\ auth' = [auth EXCEPT ![c] = "sent"]
    /\ UNCHANGED <<session, closeCode, reconnectTimer, armed, isDestroying, lastCall, notified,
                   history>>

\* The agent answers the auth message once; its answer may be in flight while
\* the backend closes the connection.
AwaitsAuth(c) == ws[c] # "closed" /\ auth[c] = "sent"

AuthOk(c) ==
    /\ AwaitsAuth(c)
    /\ auth' = [auth EXCEPT ![c] = "ok"]
    /\ notified' = "online"
    /\ UNCHANGED <<session, ws, closeCode, reconnectTimer, armed, isDestroying, lastCall, history>>

\* The session removed is whatever the agent id leads to.
AuthError(c) ==
    /\ AwaitsAuth(c)
    /\ auth' = [auth EXCEPT ![c] = "error"]
    /\ CloseSockets({c}, 1008)
    /\ session' = None
    /\ UNCHANGED <<reconnectTimer, armed, isDestroying, lastCall, notified, history>>

\* The code the "close" event reports: that of the peer's close frame, which
\* repeats ours or is its own (1000 when it leaves of its own accord), or 1006
\* when the connection is lost, refused or aborted before it opened.  Other
\* codes of a peer count as 1006 does.
ReportedCodes(c) ==
    {closeCode[c], 1006} \cup
    (IF ws[c] = "open" \/ closeCode[c] # 1006 THEN {1000} ELSE {})

\* A closed connection is forgotten; what its code means to the last calls.
SocketCloses(c, code) ==
    /\ ws[c] # "closed"
    /\ code \in ReportedCodes(c)
    /\ ws' = [ws EXCEPT ![c] = "closed"]
    /\ auth' = [auth EXCEPT ![c] = "unsent"]
    /\ closeCode' = [closeCode EXCEPT ![c] = 1006]
    /\ unheard' = IF closeCode[c] = 1000 /\ code # 1000 /\ ~isDestroying THEN TRUE ELSE unheard
    /\ dismissed' = IF closeCode[c] # 1000 /\ code = 1000 /\ Wanted THEN TRUE ELSE dismissed
    /\ UNCHANGED <<isDestroying, lastCall, overtaken>>

\* Fault: reconnect after any close.
Close_AlwaysRetries(c, code) ==
    /\ SocketCloses(c, code)
    /\ session' = None
    /\ notified' = "offline"
    /\ armed' = armed \cup {c} /\ reconnectTimer' = c

\* Fault: a refused password ends the reconnections.
Close_StopsOn1008(c, code) ==
    /\ SocketCloses(c, code)
    /\ session' = None
    /\ notified' = "offline"
    /\ IF code \in {1000, 1008} \/ isDestroying THEN UNCHANGED <<armed, reconnectTimer>>
       ELSE armed' = armed \cup {c} /\ reconnectTimer' = c

\* Fault: subscribers are told only of closes that were not asked for.
Close_QuietWhenClean(c, code) ==
    /\ SocketCloses(c, code)
    /\ session' = None
    /\ IF code = 1000 \/ isDestroying THEN UNCHANGED <<armed, reconnectTimer, notified>>
       ELSE armed' = armed \cup {c} /\ reconnectTimer' = c /\ notified' = "offline"

\* The "close" event.  The session of the agent id is removed, whether or not
\* it is this connection, and the timer replaces the entry of an earlier one
\* without cancelling it.
Close(c, code) ==
    /\ SocketCloses(c, code)
    /\ session' = None
    /\ notified' = "offline"
    /\ IF code = 1000 \/ isDestroying
       THEN UNCHANGED <<armed, reconnectTimer>>
       ELSE armed' = armed \cup {c} /\ reconnectTimer' = c

TimerFires(c) ==
    /\ c \in armed
    /\ armed' = armed \ {c}
    /\ reconnectTimer' = None
    /\ \E d \in Conns : OpenConnection(d)
    /\ UNCHANGED <<auth, isDestroying, lastCall, notified, history>>

\* Fault: the reconnection timers are forgotten, not cancelled.
OnModuleDestroy_ForgetsTimers ==
    /\ ~isDestroying
    /\ isDestroying' = TRUE
    /\ reconnectTimer' = None
    /\ session' = None
    /\ CloseSockets({c \in Conns : c = session /\ ws[c] = "open"}, 1000)
    /\ UNCHANGED <<auth, armed, lastCall, notified, history>>

\* onModuleDestroy up to its await: the timers and sessions in the maps are
\* cancelled and closed; a socket still connecting is only waited for.
OnModuleDestroy ==
    /\ ~isDestroying
    /\ isDestroying' = TRUE
    /\ armed' = armed \ {reconnectTimer}
    /\ reconnectTimer' = None
    /\ session' = None
    /\ CloseSockets({c \in Conns : c = session /\ ws[c] = "open"}, 1000)
    /\ UNCHANGED <<auth, lastCall, notified, history>>

Next ==
    \/ Connect
    \/ Disconnect
    \/ OnModuleDestroy
    \/ \E c \in Conns :
          \/ WsOpen(c)
          \/ AuthOk(c)
          \/ AuthError(c)
          \/ \E code \in {1000, 1006, 1008} : Close(c, code)
          \/ TimerFires(c)

Spec == Init /\ [][Next]_vars

\* A closing socket closes (the library gives up on the handshake after 30 s)
\* and an armed timer fires.
Fairness == \A c \in Conns :
    /\ WF_vars(ws[c] = "closing" /\ \E code \in {1000, 1006, 1008} : Close(c, code))
    /\ WF_vars(TimerFires(c))

FairSpec == Spec /\ Fairness

-----------------------------------------------------------------------------
(* Properties *)

\* GET :id/status never reports a connection that is gone: the session in the
\* map has an open (or opening) socket, and a closed socket is never one that
\* counts as authenticated.
StatusIsTruthful ==
    /\ session # None => Live(session)
    /\ \A c \in Conns : Connected(c) => ws[c] \in {"open", "closing"}

\* agent-client.service.ts:142-146: the timer in the map is one that will
\* fire, so clearing it is never a no-op.
TimerEntryIsArmed == reconnectTimer # None => reconnectTimer \in armed

\* agent-client.service.ts:43, "Already connected to agent ... ignoring
\* duplicate connect call": an agent has one connection at a time.  A connect
\* call that overtakes a close or a reconnection leaves two; the next one that
\* finds nothing left of them puts this right.
OneLiveConnection ==
    ~overtaken => \A c, d \in Conns : Live(c) /\ Live(d) => c = d

\* agents.controller.ts:130, "Return whether the backend currently has an open
\* connection to this agent": an authenticated connection is the one reported,
\* unless a connect call overtook the close of another or teardown forgot it.
StatusIsComplete == ~overtaken /\ ~isDestroying =>
    \A c \in Conns : ws[c] = "open" /\ Connected(c) => session = c

\* What status reports and the connections agree both ways.
StatusAgrees == StatusIsTruthful /\ StatusIsComplete

\* agents.controller.ts:120, "Instruct the backend to close its connection to
\* this agent": no connection is opened after a disconnect, by a timer or by a
\* late close, whenever it is called.  It is unheard by a reconnection that is
\* due, by a socket it has to abort or that a refused password is closing, and
\* if its own close frame is not answered.
Opens(c) == ~Live(c) /\ Live(c)'
DisconnectIsObeyed ==
    [][\A c \in Conns : Opens(c) => Wanted' \/ unheard \/ overtaken]_vars

\* agent-client.service.ts:66, "Cancel all pending reconnect timers (covers
\* sessions that already left the map)": after teardown none will fire.
TeardownCancelsTimers == isDestroying /\ ~overtaken => armed = {}

\* A reconnection can be cancelled as long as it is due, and teardown, which
\* goes by the map alone, cancels it.
TimersAreCancelled == TimerEntryIsArmed /\ TeardownCancelsTimers

\* A wanted connection that was lost, or refused, has a successor under way,
\* however the calls and the events of its predecessors overlap, unless the
\* peer closed one with the code the service keeps for disconnect.
NeverGivesUp == Wanted /\ ~dismissed /\ ~isDestroying =>
    \E c \in Conns : Live(c) \/ Due(c)

\* Subscribers were last told online exactly while a connection is
\* authenticated (agent_online, agent_offline).
SubscribersAgree ==
    ~overtaken => ((notified = "online") <=> (\E c \in Conns : Connected(c)))

\* agent-client.service.ts:37, "Reconnects automatically": when no connection
\* is left there is one again, from the timer alone, unless the user, teardown
\* or a close with code 1000 intervenes.
SomeLive == \E c \in Conns : Live(c)
RetriesAfterLoss ==
    (Wanted /\ ~SomeLive) ~> (SomeLive \/ ~Wanted \/ isDestroying \/ dismissed)
=============================================================================
