------------------------------ MODULE Signaling ------------------------------
(***************************************************************************)
(* The signaling gateway of the backend: which WebSocket hosts an agent,   *)
(* which WebSockets watch it, and how a request to watch is decided.       *)
(*                                                                         *)
(*   apps/backend/src/signaling/session.manager.ts    the maps             *)
(*   apps/backend/src/signaling/signaling.service.ts  the handlers         *)
(*                                                                         *)
(* Node.js runs one callback at a time, so a handler is atomic up to its   *)
(* next await.  A handler that awaits the database is split there: what it *)
(* closed over (hostWs) is state, and any other handler, timer or close    *)
(* event may run before the answer arrives.                                *)
(*                                                                         *)
(* What a request asks for is fixed by the constant Dto; when it is sent,  *)
(* and what the database and the host answer, is left open.  The           *)
(* whitelist and the blacklist also change through the REST API and their  *)
(* lookups fall back to FALSE on an error, so a lookup answers either way. *)
(***************************************************************************)

CONSTANTS
    Agents,           \* agent ids
    Viewers,          \* viewer (device) ids
    Sockets,          \* client connections; a reconnection is another socket
    Requests,         \* the viewer:request and access:request messages
    Passwords,        \* passwords, standing for their hashes
    Dto,              \* [Requests -> RequestDto]: sender and payload of each
    Hosts,            \* [Sockets -> SUBSET Agents]: agents a client may host
    Subscribers,      \* the sockets whose client uses subscribe/unsubscribe
    SameMillisecond,  \* may two requests of a viewer be given the same id?
    None              \* the absence of a map entry

RequestDto == [client: Sockets, type: {"viewer", "access"},
               agentId: Agents, viewerId: Viewers]

ViewerMeta == [agentId: Agents, viewerId: Viewers]

ASSUME SignalingAssumption ==
    /\ Dto \in [Requests -> RequestDto]
    /\ Hosts \in [Sockets -> SUBSET Agents]
    /\ Subscribers \subseteq Sockets
    /\ SameMillisecond \in BOOLEAN
    /\ None \notin Agents \cup Sockets \cup Requests \cup Passwords \cup ViewerMeta

(* How the clients of this repository use the gateway: a page opens a      *)
(* socket per request and sends no other request on it, and a hosting page *)
(* hosts one agent and requests nothing on its socket.                     *)
OneRequestPerSocket == \A p, q \in Requests : Dto[p].client = Dto[q].client => p = q
OneAgentPerSocket == \A s \in Sockets : \A a, b \in Hosts[s] : a = b
HostsDoNotWatch == \A q \in Requests : Hosts[Dto[q].client] = {}
WebClients == OneRequestPerSocket /\ OneAgentPerSocket /\ HostsDoNotWatch

VARIABLES
    sock,             \* readyState of each socket
    hostSockets,      \* agentId -> host socket
    hostPasswords,    \* agentId -> password hash
    viewerSockets,    \* viewer socket -> viewer metadata
    pendingRequests,  \* requestId -> the request it describes
    pendingBySocket,  \* viewer socket -> requestId
    pendingTimeouts,  \* requestIds whose approval timer is armed
    subscriptions,    \* socket -> agentId
    stage,            \* how far the handling of each request has come
    hostWs,           \* the host socket a suspended viewer:request holds
    joined            \* viewers a host socket was told of and not told left

sessionVars == <<hostSockets, hostPasswords>>
pendingVars == <<pendingRequests, pendingBySocket, pendingTimeouts>>
vars == <<sock, hostSockets, hostPasswords, viewerSockets, pendingRequests,
          pendingBySocket, pendingTimeouts, subscriptions, stage, hostWs, joined>>

Awaiting == {"isBlacklisted", "isWhitelisted", "addToWhitelist", "addToBlacklist"}
Decided == {"granted", "refused"}
Stages == Awaiting \cup Decided \cup {"unsent", "asked", "dropped"}

TypeOK ==
    /\ sock \in [Sockets -> {"open", "closing", "closed"}]
    /\ hostSockets \in [Agents -> Sockets \cup {None}]
    /\ hostPasswords \in [Agents -> Passwords \cup {None}]
    /\ viewerSockets \in [Sockets -> ViewerMeta \cup {None}]
    /\ pendingRequests \in [Requests -> Requests \cup {None}]
    /\ pendingBySocket \in [Sockets -> Requests \cup {None}]
    /\ pendingTimeouts \in SUBSET Requests
    /\ subscriptions \in [Sockets -> Agents \cup {None}]
    /\ stage \in [Requests -> Stages]
    /\ hostWs \in [Requests -> Sockets \cup {None}]
    /\ joined \in [Sockets -> SUBSET ViewerMeta]

Init ==
    /\ sock = [s \in Sockets |-> "open"]
    /\ hostSockets = [a \in Agents |-> None]
    /\ hostPasswords = [a \in Agents |-> None]
    /\ viewerSockets = [s \in Sockets |-> None]
    /\ pendingRequests = [r \in Requests |-> None]
    /\ pendingBySocket = [s \in Sockets |-> None]
    /\ pendingTimeouts = {}
    /\ subscriptions = [s \in Sockets |-> None]
    /\ stage = [q \in Requests |-> "unsent"]
    /\ hostWs = [q \in Requests |-> None]
    /\ joined = [s \in Sockets |-> {}]

-----------------------------------------------------------------------------
(* Session manager *)

Client(q) == Dto[q].client
Agent(q) == Dto[q].agentId
Meta(q) == [agentId |-> Dto[q].agentId, viewerId |-> Dto[q].viewerId]

\* A message is handled when it arrives on a socket that is not closed; what
\* was in flight when the server called close() is still handled.
Talking(s) == sock[s] # "closed"

\* The ids cleanupSocket and registerViewerSocket find for a socket.
PendingOf(s) == {pendingBySocket[s]} \ {None}

\* Fault: the timer of a cleared request is left armed.
Clear_KeepsTimer(R) ==
    LET found == {r \in R : pendingRequests[r] # None}
    IN  /\ pendingRequests' = [r \in Requests |->
              IF r \in found THEN None ELSE pendingRequests[r]]
        /\ pendingBySocket' = [s \in Sockets |->
              IF \E r \in found : Client(pendingRequests[r]) = s
              THEN None ELSE pendingBySocket[s]]
        /\ UNCHANGED pendingTimeouts

\* clearPendingRequest for every id of R; an id without an entry is ignored.
ClearPendingRequests(R) ==
    LET found == {r \in R : pendingRequests[r] # None}
    IN  /\ pendingRequests' = [r \in Requests |->
              IF r \in found THEN None ELSE pendingRequests[r]]
        /\ pendingBySocket' = [s \in Sockets |->
              IF \E r \in found : Client(pendingRequests[r]) = s
              THEN None ELSE pendingBySocket[s]]
        /\ pendingTimeouts' = pendingTimeouts \ found

\* Fault: the request waits for the host without a timer.
SetPending_NoTimer(r, q) ==
    /\ pendingRequests' = [pendingRequests EXCEPT ![r] = q]
    /\ pendingBySocket' = [pendingBySocket EXCEPT ![Client(q)] = r]
    /\ UNCHANGED pendingTimeouts

\* setPendingRequest and schedulePendingTimeout: a timer already armed for
\* the id is replaced.
SetPendingRequest(r, q) ==
    /\ pendingRequests' = [pendingRequests EXCEPT ![r] = q]
    /\ pendingBySocket' = [pendingBySocket EXCEPT ![Client(q)] = r]
    /\ pendingTimeouts' = pendingTimeouts \cup {r}

\* The stage of the requests whose pending entries R are removed without a
\* verdict: their socket is gone or was replaced.
DropStages(R) == [q \in Requests |->
    IF \E r \in R : pendingRequests[r] = q THEN "dropped" ELSE stage[q]]

\* Fault: a registration whose socket is no longer open is not replaced.
Evicted_OnlyOpen(ws, meta) ==
    {s \in Sockets \ {ws} : viewerSockets[s] = meta /\ sock[s] = "open"}

\* The sockets registerViewerSocket removes in favour of ws.
Evicted(ws, meta) == {s \in Sockets \ {ws} : viewerSockets[s] = meta}

\* registerViewerSocket followed by closeEvictedSockets, for request q.
RegisterViewer(q) ==
    LET evicted == Evicted(Client(q), Meta(q))
        dropped == UNION {PendingOf(s) : s \in evicted}
    IN  /\ viewerSockets' = [s \in Sockets |->
              IF s = Client(q) THEN Meta(q)
              ELSE IF s \in evicted THEN None ELSE viewerSockets[s]]
        /\ sock' = [s \in Sockets |->
              IF s \in evicted /\ sock[s] = "open" THEN "closing" ELSE sock[s]]
        /\ ClearPendingRequests(dropped)
        /\ stage' = [DropStages(dropped) EXCEPT ![q] = "granted"]

\* VIEWER_JOINED and VIEWER_LEFT reach a host only while its socket is open.
SendJoined(h, meta) ==
    joined' = IF sock'[h] = "open" THEN [joined EXCEPT ![h] = @ \cup {meta}] ELSE joined

SendLeft(h, meta) ==
    joined' = IF h # None /\ sock[h] = "open"
              THEN [joined EXCEPT ![h] = @ \ {meta}] ELSE joined

-----------------------------------------------------------------------------
(* Handlers *)

HostJoin(s, a, p) ==
    /\ Talking(s)
    /\ a \in Hosts[s]
    /\ hostSockets' = [hostSockets EXCEPT ![a] = s]
    /\ hostPasswords' = [hostPasswords EXCEPT ![a] = p]
    /\ UNCHANGED <<sock, viewerSockets, pendingVars, subscriptions, stage, hostWs, joined>>

Subscribe(s, a) ==
    /\ s \in Subscribers
    /\ Talking(s)
    /\ subscriptions' = [subscriptions EXCEPT ![s] = a]
    /\ UNCHANGED <<sock, sessionVars, viewerSockets, pendingVars, stage, hostWs, joined>>

Unsubscribe(s) ==
    /\ s \in Subscribers
    /\ Talking(s)
    /\ subscriptions' = [subscriptions EXCEPT ![s] = None]
    /\ UNCHANGED <<sock, sessionVars, viewerSockets, pendingVars, stage, hostWs, joined>>

\* viewer:request up to its first await: the password is checked before the
\* host is, and only against a host that is registered.
WrongPassword(a, p) == hostPasswords[a] # None /\ p # hostPasswords[a]

ViewerRequest(q, p) ==
    /\ Dto[q].type = "viewer"
    /\ stage[q] = "unsent"
    /\ Talking(Client(q))
    /\ stage' = [stage EXCEPT ![q] =
          IF WrongPassword(Agent(q), p) \/ hostSockets[Agent(q)] = None
          THEN "refused" ELSE "isBlacklisted"]
    /\ UNCHANGED <<sock, sessionVars, viewerSockets, pendingVars, subscriptions, hostWs, joined>>

\* access:request goes to the database at once.
AccessRequest(q) ==
    /\ Dto[q].type = "access"
    /\ stage[q] = "unsent"
    /\ Talking(Client(q))
    /\ stage' = [stage EXCEPT ![q] = "isBlacklisted"]
    /\ UNCHANGED <<sock, sessionVars, viewerSockets, pendingVars, subscriptions, hostWs, joined>>

\* The answer of isBlacklisted.  A viewer:request now takes hold of the host
\* socket it will use after the next await.
BlacklistReply(q, isBlocked) ==
    LET viewer == Dto[q].type = "viewer"
        refuse == isBlocked \/ (viewer /\ hostSockets[Agent(q)] = None)
    IN  /\ stage[q] = "isBlacklisted"
        /\ stage' = [stage EXCEPT ![q] = IF refuse THEN "refused" ELSE "isWhitelisted"]
        /\ hostWs' = IF viewer /\ ~refuse
                     THEN [hostWs EXCEPT ![q] = hostSockets[Agent(q)]] ELSE hostWs
        /\ UNCHANGED <<sock, sessionVars, viewerSockets, pendingVars, subscriptions, joined>>

\* isWhitelisted answers yes: a viewer is let in directly and only the host
\* is told, on the socket held since before the await.
AdmitWhitelistedViewer(q) ==
    /\ Dto[q].type = "viewer"
    /\ stage[q] = "isWhitelisted"
    /\ RegisterViewer(q)
    /\ SendJoined(hostWs[q], Meta(q))
    /\ hostWs' = [hostWs EXCEPT ![q] = None]
    /\ UNCHANGED <<sessionVars, subscriptions>>

GrantWhitelistedDevice(q) ==
    /\ Dto[q].type = "access"
    /\ stage[q] = "isWhitelisted"
    /\ stage' = [stage EXCEPT ![q] = "granted"]
    /\ UNCHANGED <<sock, sessionVars, viewerSockets, pendingVars, subscriptions, hostWs, joined>>

\* The ids `viewer-${viewerId}-${Date.now()}` may get: its own, or that of a
\* request of the same viewer minted in the same millisecond.
RequestIds(q) ==
    {q} \cup {r \in Requests :
                /\ SameMillisecond
                /\ pendingRequests[r] # None
                /\ Dto[pendingRequests[r]].type = "viewer"
                /\ Dto[pendingRequests[r]].viewerId = Dto[q].viewerId}

\* isWhitelisted answers no: the host is asked and a 20 s timer is armed.
AskHostForViewer(q) ==
    /\ Dto[q].type = "viewer"
    /\ stage[q] = "isWhitelisted"
    /\ \E r \in RequestIds(q) : SetPendingRequest(r, q)
    /\ stage' = [stage EXCEPT ![q] = "asked"]
    /\ hostWs' = [hostWs EXCEPT ![q] = None]
    /\ UNCHANGED <<sock, sessionVars, viewerSockets, subscriptions, joined>>

\* An access:request looks for the host only now.  Its id is the client's.
AskHostForDevice(q) ==
    /\ Dto[q].type = "access"
    /\ stage[q] = "isWhitelisted"
    /\ IF hostSockets[Agent(q)] = None
       THEN /\ stage' = [stage EXCEPT ![q] = "refused"]
            /\ UNCHANGED pendingVars
       ELSE /\ stage' = [stage EXCEPT ![q] = "asked"]
            /\ SetPendingRequest(q, q)
    /\ UNCHANGED <<sock, sessionVars, viewerSockets, subscriptions, hostWs, joined>>

\* access:grant and access:deny are sent by a hosting page.  An id that is no
\* longer pending is ignored.
FromHost == \E h \in Sockets : Hosts[h] # {} /\ Talking(h)

AccessGrant(r) ==
    /\ FromHost
    /\ pendingRequests[r] # None
    /\ ClearPendingRequests({r})
    /\ stage' = [stage EXCEPT ![pendingRequests[r]] = "addToWhitelist"]
    /\ UNCHANGED <<sock, sessionVars, viewerSockets, subscriptions, hostWs, joined>>

\* Fault: the viewer is registered before its host is found to be gone.
GrantReply_RegistersFirst(q) ==
    /\ Dto[q].type = "viewer"
    /\ stage[q] = "addToWhitelist"
    /\ viewerSockets' = [viewerSockets EXCEPT ![Client(q)] = Meta(q)]
    /\ stage' = [stage EXCEPT ![q] =
                    IF hostSockets[Agent(q)] = None THEN "refused" ELSE "granted"]
    /\ UNCHANGED <<sock, sessionVars, pendingVars, subscriptions, hostWs, joined>>

\* addToWhitelist has answered: the host is looked up afresh, and a viewer
\* whose host is gone is refused although it was granted.
GrantReply(q) ==
    /\ stage[q] = "addToWhitelist"
    /\ IF Dto[q].type = "viewer" /\ hostSockets[Agent(q)] # None
       THEN /\ RegisterViewer(q)
            /\ SendJoined(hostSockets[Agent(q)], Meta(q))
       ELSE /\ stage' = [stage EXCEPT ![q] =
                  IF Dto[q].type = "viewer" THEN "refused" ELSE "granted"]
            /\ UNCHANGED <<sock, viewerSockets, pendingVars, joined>>
    /\ UNCHANGED <<sessionVars, subscriptions, hostWs>>

AccessDeny(r, blacklist) ==
    /\ FromHost
    /\ pendingRequests[r] # None
    /\ ClearPendingRequests({r})
    /\ stage' = [stage EXCEPT ![pendingRequests[r]] =
                    IF blacklist THEN "addToBlacklist" ELSE "refused"]
    /\ UNCHANGED <<sock, sessionVars, viewerSockets, subscriptions, hostWs, joined>>

DenyReply(q) ==
    /\ stage[q] = "addToBlacklist"
    /\ stage' = [stage EXCEPT ![q] = "refused"]
    /\ UNCHANGED <<sock, sessionVars, viewerSockets, pendingVars, subscriptions, hostWs, joined>>

\* Fault: the timer rejects the viewer and leaves the request pending.
ApprovalTimeout_KeepsRequest(r) ==
    /\ r \in pendingTimeouts
    /\ pendingRequests[r] # None
    /\ pendingTimeouts' = pendingTimeouts \ {r}
    /\ stage' = [stage EXCEPT ![pendingRequests[r]] = "refused"]
    /\ UNCHANGED <<sock, sessionVars, viewerSockets, pendingRequests, pendingBySocket,
                   subscriptions, hostWs, joined>>

\* The timer of schedulePendingTimeout fires after 20 s.
ApprovalTimeout(r) ==
    /\ r \in pendingTimeouts
    /\ pendingRequests[r] # None
    /\ ClearPendingRequests({r})
    /\ stage' = [stage EXCEPT ![pendingRequests[r]] = "refused"]
    /\ UNCHANGED <<sock, sessionVars, viewerSockets, subscriptions, hostWs, joined>>

\* Fault: the registration is left to the close event.
KickViewer_LeavesSeat(s) ==
    /\ viewerSockets[s] # None
    /\ sock' = [sock EXCEPT ![s] = IF @ = "open" THEN "closing" ELSE @]
    /\ SendLeft(hostSockets[viewerSockets[s].agentId], viewerSockets[s])
    /\ UNCHANGED <<sessionVars, viewerSockets, pendingVars, subscriptions, stage, hostWs>>

\* Fault: the host is told nothing, as if the close event would do it.
KickViewer_Silent(s) ==
    /\ viewerSockets[s] # None
    /\ sock' = [sock EXCEPT ![s] = IF @ = "open" THEN "closing" ELSE @]
    /\ viewerSockets' = [viewerSockets EXCEPT ![s] = None]
    /\ UNCHANGED <<sessionVars, pendingVars, subscriptions, stage, hostWs, joined>>

\* DELETE .../viewers/:id.  close() does nothing to a socket already closed.
KickViewer(s) ==
    /\ viewerSockets[s] # None
    /\ sock' = [sock EXCEPT ![s] = IF @ = "open" THEN "closing" ELSE @]
    /\ viewerSockets' = [viewerSockets EXCEPT ![s] = None]
    /\ SendLeft(hostSockets[viewerSockets[s].agentId], viewerSockets[s])
    /\ UNCHANGED <<sessionVars, pendingVars, subscriptions, stage, hostWs>>

\* Fault: the host is found by what the socket may host, so a replaced
\* connection takes the newer one with it.
DeleteHost_ByAgent(s) ==
    /\ hostSockets' = [a \in Agents |-> IF a \in Hosts[s] THEN None ELSE hostSockets[a]]
    /\ hostPasswords' = [a \in Agents |-> IF a \in Hosts[s] THEN None ELSE hostPasswords[a]]

\* deleteHostBySocket removes the first agent the socket hosts, no other.
DeleteHostBySocket(s) ==
    \/ /\ \A a \in Agents : hostSockets[a] # s
       /\ UNCHANGED sessionVars
    \/ \E a \in Agents :
          /\ hostSockets[a] = s
          /\ hostSockets' = [hostSockets EXCEPT ![a] = None]
          /\ hostPasswords' = [hostPasswords EXCEPT ![a] = None]

\* The close event, whoever closed the socket: cleanupSocket, then VIEWER_LEFT
\* to the host that is registered after it.
Disconnect(s) ==
    LET meta == viewerSockets[s]
    IN  /\ sock[s] # "closed"
        /\ sock' = [sock EXCEPT ![s] = "closed"]
        /\ subscriptions' = [subscriptions EXCEPT ![s] = None]
        /\ ClearPendingRequests(PendingOf(s))
        /\ stage' = DropStages(PendingOf(s))
        /\ DeleteHostBySocket(s)
        /\ viewerSockets' = [viewerSockets EXCEPT ![s] = None]
        /\ joined' = [x \in Sockets |->
              IF x = s THEN {}
              ELSE IF meta # None /\ x = hostSockets'[meta.agentId] /\ sock[x] = "open"
              THEN joined[x] \ {meta} ELSE joined[x]]
        /\ UNCHANGED hostWs

-----------------------------------------------------------------------------
(* Specification *)

DatabaseReply(q) ==
    \/ \E isBlocked \in BOOLEAN : BlacklistReply(q, isBlocked)
    \/ AdmitWhitelistedViewer(q)
    \/ GrantWhitelistedDevice(q)
    \/ AskHostForViewer(q)
    \/ AskHostForDevice(q)
    \/ GrantReply(q)
    \/ DenyReply(q)

Next ==
    \/ \E s \in Sockets, a \in Agents, p \in Passwords : HostJoin(s, a, p)
    \/ \E s \in Sockets, a \in Agents : Subscribe(s, a)
    \/ \E s \in Sockets : Unsubscribe(s)
    \/ \E q \in Requests, p \in Passwords : ViewerRequest(q, p)
    \/ \E q \in Requests : AccessRequest(q)
    \/ \E q \in Requests : DatabaseReply(q)
    \/ \E r \in Requests : AccessGrant(r)
    \/ \E r \in Requests, blacklist \in BOOLEAN : AccessDeny(r, blacklist)
    \/ \E r \in Requests : ApprovalTimeout(r)
    \/ \E s \in Sockets : KickViewer(s)
    \/ \E s \in Sockets : Disconnect(s)

Spec == Init /\ [][Next]_vars

\* Every query settles (a rejected promise is caught), every armed timer
\* fires.  Nothing is assumed of clients or hosts.
Fairness ==
    /\ \A q \in Requests : WF_vars(DatabaseReply(q))
    /\ \A r \in Requests : WF_vars(ApprovalTimeout(r))

FairSpec == Spec /\ Fairness

-----------------------------------------------------------------------------
(* Properties that hold whatever the clients do *)

\* An approval timer is armed exactly for the ids that are pending: none is
\* left behind by a grant, a denial, an eviction or a disconnect, and none is
\* missing (setPendingTimeout, clearPendingRequest, schedulePendingTimeout).
TimersMatchPending == pendingTimeouts = {r \in Requests : pendingRequests[r] # None}

\* At most one socket watches an agent as a given viewer, whichever of the two
\* admissions came first (the de-duplication of registerViewerSocket).
OneSocketPerViewer == \A s, t \in Sockets :
    viewerSockets[s] # None /\ viewerSockets[s] = viewerSockets[t] => s = t

\* The password map and the host map have the same keys, so a request for an
\* agent without a host is never answered as a wrong password.
PasswordWithHost == \A a \in Agents : (hostPasswords[a] = None) = (hostSockets[a] = None)

\* A socket that watches does so by a granted viewer:request of its own for
\* that agent and viewer: no refused, pending or dropped request is seated.
NoSeatWithoutGrant == \A s \in Sockets : viewerSockets[s] # None =>
    \E q \in Requests : /\ Client(q) = s
                        /\ Dto[q].type = "viewer"
                        /\ Meta(q) = viewerSockets[s]
                        /\ stage[q] = "granted"

\* A request is decided once: host, timer, database and close events race for
\* it, and whichever comes first is final.
VerdictIsFinal == [][\A q \in Requests :
    stage[q] \in Decided \cup {"dropped"} => stage'[q] = stage[q]]_vars

\* A host is unregistered by the close of its own socket and of no other: the
\* late close event of a replaced host socket leaves the newer host alone.
HostLeavesByOwnClose == [][\A a \in Agents :
    hostSockets[a] # None /\ hostSockets'[a] = None =>
        sock[hostSockets[a]] # "closed" /\ sock'[hostSockets[a]] = "closed"]_vars

Seated(meta) == \E s \in Sockets : viewerSockets[s] = meta

\* VIEWER_LEFT is true (signaling.service.ts:91, :387): whatever was evicted,
\* kicked or closed meanwhile, and whatever handler was suspended, a viewer the
\* host is told has left watches on no socket, an older or a newer one.
DeparturesAreTrue == [][\A h \in Sockets, meta \in ViewerMeta :
    meta \in joined[h] /\ meta \notin joined'[h] /\ sock'[h] # "closed"
        => ~Seated(meta)']_vars

-----------------------------------------------------------------------------
(* Properties of the gateway used by its own clients (WebClients, and ids    *)
(* that do not collide)                                                      *)

\* A registered host has not closed: its messages can still be answered.
HostsAreAlive == \A a \in Agents :
    hostSockets[a] # None => sock[hostSockets[a]] # "closed"

\* The two pending maps are inverse to each other, so a disconnect finds the
\* pending request of its socket and cancels no other.
PendingMapsAgree ==
    /\ \A r \in Requests : pendingRequests[r] # None =>
          pendingBySocket[Client(pendingRequests[r])] = r
    /\ \A s \in Sockets : pendingBySocket[s] # None =>
          /\ pendingRequests[pendingBySocket[s]] # None
          /\ Client(pendingRequests[pendingBySocket[s]]) = s

\* Every request the host was asked about and that is still open has an entry
\* that a verdict or a timer will find.
AskedIsPending == \A q \in Requests :
    (stage[q] = "asked") = (\E r \in Requests : pendingRequests[r] = q)

\* When the last socket of a viewer goes, by closing or by a kick, the host of
\* the moment is told, and its list no longer shows that viewer.
HostHearsOfDeparture == [][\A meta \in ViewerMeta :
    LET h == hostSockets'[meta.agentId]
    IN  Seated(meta) /\ ~Seated(meta)' /\ h # None /\ sock'[h] = "open"
            => meta \notin joined'[h]]_vars

\* A request that waits for the host has one entry, one timer and one link from
\* its socket, and a verdict, a timer, an eviction or a close removes the three.
RequestMapsAgree == TimersMatchPending /\ PendingMapsAgree /\ AskedIsPending

\* An agent has a password exactly while it has a host, and the host can be asked.
HostMapsAgree == PasswordWithHost /\ HostsAreAlive

\* The maps of session.manager.ts agree with each other, with what was asked
\* and with the connections, whichever of a verdict, a timer, an eviction, a
\* second host and a close comes first.
MapsAgree == RequestMapsAgree /\ HostMapsAgree

\* session.manager.ts:182, "Remove all state for a disconnecting socket": what
\* a socket hosted, and what it had asked, ends with its close event, and
\* nothing that belongs to another socket does; in particular the late close of
\* a replaced host leaves its successor registered.
CleanupIsExact == [][\A s \in Sockets : sock[s] # "closed" /\ sock'[s] = "closed" =>
    /\ \A a \in Agents : hostSockets'[a] = IF hostSockets[a] = s THEN None ELSE hostSockets[a]
    /\ \A r \in Requests : pendingRequests'[r] =
          IF pendingRequests[r] # None /\ Client(pendingRequests[r]) = s
          THEN None ELSE pendingRequests[r]
    /\ \A t \in Sockets : pendingBySocket'[t] = IF t = s THEN None ELSE pendingBySocket[t]
    /\ \A t \in Sockets : viewerSockets'[t] = IF t = s THEN None ELSE viewerSockets[t]]_vars

\* Every request that was sent is settled, the host answering or not.
RequestsSettle == \A q \in Requests :
    stage[q] # "unsent" ~> stage[q] \in Decided \cup {"dropped"}

-----------------------------------------------------------------------------
(* What a comment of the code says, and the code does not do *)

\* agents.controller.ts:141, "List viewers currently watching": a viewer whose
\* socket has closed does not stay on the list.
ClosedViewersLeave == \A s \in Sockets :
    sock[s] = "closed" ~> viewerSockets[s] = None
=============================================================================
