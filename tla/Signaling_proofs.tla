--------------------------- MODULE Signaling_proofs ---------------------------
(***************************************************************************)
(* Invariants of the signaling gateway, for every set of agents, viewers,  *)
(* sockets and requests: first for clients that obey no discipline, then   *)
(* for its own clients, a socket of which sends one request or hosts one   *)
(* agent, and last that it implements Admission.                           *)
(***************************************************************************)
EXTENDS SignalingAdmission, TLAPS

\* What a request is made of.
LEMMA DtoFields ==
    ASSUME NEW q \in Requests
    PROVE  /\ Client(q) \in Sockets
           /\ Agent(q) \in Agents
           /\ Meta(q) \in ViewerMeta
           /\ Dto[q].type \in {"viewer", "access"}
BY SignalingAssumption DEF RequestDto, ViewerMeta, Client, Agent, Meta

\* None is no metadata, socket, request or password.
LEMMA NoneIsNone ==
    /\ None \notin ViewerMeta /\ None \notin Sockets
    /\ None \notin Requests /\ None \notin Passwords
BY SignalingAssumption

\* The pending maps keep their types when ids are cleared or set.
LEMMA ClearPendingTypes ==
    ASSUME TypeOK, NEW R, ClearPendingRequests(R)
    PROVE  /\ pendingRequests' \in [Requests -> Requests \cup {None}]
           /\ pendingBySocket' \in [Sockets -> Requests \cup {None}]
           /\ pendingTimeouts' \in SUBSET Requests
BY DEF TypeOK, ClearPendingRequests

LEMMA SetPendingTypes ==
    ASSUME TypeOK, NEW r \in Requests, NEW q \in Requests, SetPendingRequest(r, q)
    PROVE  /\ pendingRequests' \in [Requests -> Requests \cup {None}]
           /\ pendingBySocket' \in [Sockets -> Requests \cup {None}]
           /\ pendingTimeouts' \in SUBSET Requests
BY DtoFields DEF TypeOK, SetPendingRequest

LEMMA DropStagesType ==
    ASSUME TypeOK, NEW R
    PROVE  DropStages(R) \in [Requests -> Stages]
BY DEF TypeOK, DropStages, Stages

LEMMA RegisterViewerTypes ==
    ASSUME TypeOK, NEW q \in Requests, RegisterViewer(q)
    PROVE  /\ viewerSockets' \in [Sockets -> ViewerMeta \cup {None}]
           /\ sock' \in [Sockets -> {"open", "closing", "closed"}]
           /\ pendingRequests' \in [Requests -> Requests \cup {None}]
           /\ pendingBySocket' \in [Sockets -> Requests \cup {None}]
           /\ pendingTimeouts' \in SUBSET Requests
           /\ stage' \in [Requests -> Stages]
<1> DEFINE evicted == Evicted(Client(q), Meta(q))
           dropped == UNION {PendingOf(s) : s \in evicted}
<1>1. ClearPendingRequests(dropped)
  BY DEF RegisterViewer
<1>2. DropStages(dropped) \in [Requests -> Stages]
  BY DropStagesType
<1>3. stage' = [DropStages(dropped) EXCEPT ![q] = "granted"]
  BY DEF RegisterViewer
<1>4. stage' \in [Requests -> Stages]
  <2> HIDE DEF dropped
  <2> QED BY <1>2, <1>3 DEF Stages, Decided
<1>5. viewerSockets' \in [Sockets -> ViewerMeta \cup {None}]
  BY DtoFields DEF RegisterViewer, TypeOK
<1>6. sock' \in [Sockets -> {"open", "closing", "closed"}]
  BY DEF RegisterViewer, TypeOK
<1> QED
  BY <1>1, <1>4, <1>5, <1>6, ClearPendingTypes

\* Messages to a host only change what that host was told.
LEMMA SendTypes ==
    ASSUME TypeOK, NEW h, NEW meta \in ViewerMeta,
           SendJoined(h, meta) \/ SendLeft(h, meta)
    PROVE  joined' \in [Sockets -> SUBSET ViewerMeta]
BY DEF TypeOK, SendJoined, SendLeft

LEMMA TypeInit == Init => TypeOK
BY DEF Init, TypeOK, Stages

LEMMA TypeNext == TypeOK /\ [Next]_vars => TypeOK'
<1> SUFFICES ASSUME TypeOK, [Next]_vars PROVE TypeOK'
  OBVIOUS
<1> USE DtoFields, NoneIsNone DEF Stages, Awaiting, Decided, sessionVars, pendingVars
<1>1. ASSUME NEW s \in Sockets, NEW a \in Agents, NEW p \in Passwords, HostJoin(s, a, p)
      PROVE  TypeOK'
  BY <1>1 DEF TypeOK, HostJoin
<1>2. ASSUME NEW s \in Sockets, NEW a \in Agents, Subscribe(s, a)
      PROVE  TypeOK'
  BY <1>2 DEF TypeOK, Subscribe
<1>3. ASSUME NEW s \in Sockets, Unsubscribe(s)
      PROVE  TypeOK'
  BY <1>3 DEF TypeOK, Unsubscribe
<1>4. ASSUME NEW q \in Requests, NEW p \in Passwords, ViewerRequest(q, p)
      PROVE  TypeOK'
  BY <1>4 DEF TypeOK, ViewerRequest
<1>5. ASSUME NEW q \in Requests, AccessRequest(q)
      PROVE  TypeOK'
  BY <1>5 DEF TypeOK, AccessRequest
<1>6. ASSUME NEW q \in Requests, NEW b \in BOOLEAN, BlacklistReply(q, b)
      PROVE  TypeOK'
  BY <1>6 DEF TypeOK, BlacklistReply
<1>7. ASSUME NEW q \in Requests, AdmitWhitelistedViewer(q)
      PROVE  TypeOK'
  <2>1. joined' \in [Sockets -> SUBSET ViewerMeta]
    BY <1>7, SendTypes DEF AdmitWhitelistedViewer
  <2> QED
    BY <1>7, <2>1, RegisterViewerTypes DEF TypeOK, AdmitWhitelistedViewer
<1>8. ASSUME NEW q \in Requests, GrantWhitelistedDevice(q)
      PROVE  TypeOK'
  BY <1>8 DEF TypeOK, GrantWhitelistedDevice
<1>9. ASSUME NEW q \in Requests, AskHostForViewer(q)
      PROVE  TypeOK'
  <2>1. PICK r \in Requests : SetPendingRequest(r, q)
    BY <1>9 DEF AskHostForViewer, RequestIds
  <2> QED
    BY <1>9, <2>1, SetPendingTypes DEF TypeOK, AskHostForViewer
<1>10. ASSUME NEW q \in Requests, AskHostForDevice(q)
       PROVE  TypeOK'
  <2>1. CASE hostSockets[Agent(q)] = None
    BY <1>10, <2>1 DEF TypeOK, AskHostForDevice
  <2>2. CASE hostSockets[Agent(q)] # None
    BY <1>10, <2>2, SetPendingTypes DEF TypeOK, AskHostForDevice
  <2> QED BY <2>1, <2>2
<1>11. ASSUME NEW r \in Requests, AccessGrant(r)
       PROVE  TypeOK'
  BY <1>11, ClearPendingTypes DEF TypeOK, AccessGrant
<1>12. ASSUME NEW q \in Requests, GrantReply(q)
       PROVE  TypeOK'
  <2>1. CASE Dto[q].type = "viewer" /\ hostSockets[Agent(q)] # None
    <3>1. joined' \in [Sockets -> SUBSET ViewerMeta]
      BY <1>12, <2>1, SendTypes DEF GrantReply
    <3> QED
      BY <1>12, <2>1, <3>1, RegisterViewerTypes DEF TypeOK, GrantReply
  <2>2. CASE ~(Dto[q].type = "viewer" /\ hostSockets[Agent(q)] # None)
    BY <1>12, <2>2 DEF TypeOK, GrantReply
  <2> QED BY <2>1, <2>2
<1>13. ASSUME NEW r \in Requests, NEW b \in BOOLEAN, AccessDeny(r, b)
       PROVE  TypeOK'
  BY <1>13, ClearPendingTypes DEF TypeOK, AccessDeny
<1>14. ASSUME NEW q \in Requests, DenyReply(q)
       PROVE  TypeOK'
  BY <1>14 DEF TypeOK, DenyReply
<1>15. ASSUME NEW r \in Requests, ApprovalTimeout(r)
       PROVE  TypeOK'
  BY <1>15, ClearPendingTypes DEF TypeOK, ApprovalTimeout
<1>16. ASSUME NEW s \in Sockets, KickViewer(s)
       PROVE  TypeOK'
  <2>1. viewerSockets[s] \in ViewerMeta
    BY <1>16 DEF TypeOK, KickViewer
  <2>2. joined' \in [Sockets -> SUBSET ViewerMeta]
    BY <1>16, <2>1, SendTypes DEF KickViewer
  <2> QED
    BY <1>16, <2>2 DEF TypeOK, KickViewer
<1>17. ASSUME NEW s \in Sockets, Disconnect(s)
       PROVE  TypeOK'
  <2>1. /\ ClearPendingRequests(PendingOf(s))
        /\ stage' = DropStages(PendingOf(s))
    BY <1>17 DEF Disconnect
  <2>2. /\ hostSockets' \in [Agents -> Sockets \cup {None}]
        /\ hostPasswords' \in [Agents -> Passwords \cup {None}]
    BY <1>17 DEF TypeOK, Disconnect, DeleteHostBySocket
  <2>3. joined' \in [Sockets -> SUBSET ViewerMeta]
    BY <1>17 DEF TypeOK, Disconnect
  <2> QED
    BY <1>17, <2>1, <2>2, <2>3, ClearPendingTypes, DropStagesType DEF TypeOK, Disconnect
<1>18. CASE UNCHANGED vars
  BY <1>18 DEF TypeOK, vars
<1> QED
  BY <1>1, <1>2, <1>3, <1>4, <1>5, <1>6, <1>7, <1>8, <1>9, <1>10, <1>11, <1>12,
     <1>13, <1>14, <1>15, <1>16, <1>17, <1>18 DEF Next, DatabaseReply

\* The maps of the gateway keep their types in every behaviour.
THEOREM TypeCorrect == Spec => []TypeOK
BY TypeInit, TypeNext, PTL DEF Spec

-----------------------------------------------------------------------------
(* The pending maps *)

\* A pending entry describes a request that still waits for the host, and no
\* request has two entries.
PendingIsAsked == \A r \in Requests :
    pendingRequests[r] # None => stage[pendingRequests[r]] = "asked"

PendingOnce == \A r, t \in Requests :
    pendingRequests[r] # None /\ pendingRequests[r] = pendingRequests[t] => r = t

PendingInv == TypeOK /\ TimersMatchPending /\ PendingIsAsked /\ PendingOnce

\* What a step does to the pending maps and to the requests that wait for the
\* host: nothing, clear some ids with their requests, or add one request.
KeepsAsked ==
    /\ UNCHANGED pendingVars
    /\ \A p \in Requests : (stage'[p] = "asked") = (stage[p] = "asked")

ClearsAsked(R) ==
    /\ ClearPendingRequests(R)
    /\ \A p \in Requests :
          stage'[p] = "asked" <=> stage[p] = "asked" /\ \A r \in R : pendingRequests[r] # p

AddsAsked(r, q) ==
    /\ r # q => SameMillisecond
    /\ stage[q] = "isWhitelisted"
    /\ SetPendingRequest(r, q)
    /\ stage' = [stage EXCEPT ![q] = "asked"]

PendingStep ==
    \/ KeepsAsked
    \/ \E R \in SUBSET Requests : ClearsAsked(R)
    \/ \E r, q \in Requests : AddsAsked(r, q)

\* The ids found for a socket are ids.
LEMMA PendingOfType ==
    ASSUME TypeOK, NEW S \in SUBSET Sockets
    PROVE  UNION {PendingOf(s) : s \in S} \in SUBSET Requests
BY DEF TypeOK, PendingOf

LEMMA RegisterClears ==
    ASSUME TypeOK, NEW q \in Requests, RegisterViewer(q),
           stage[q] \in {"isWhitelisted", "addToWhitelist"}
    PROVE  \E R \in SUBSET Requests : ClearsAsked(R)
<1> DEFINE R == UNION {PendingOf(s) : s \in Evicted(Client(q), Meta(q))}
<1>1. /\ ClearPendingRequests(R)
      /\ stage' = [DropStages(R) EXCEPT ![q] = "granted"]
  BY DEF RegisterViewer
<1>2. R \in SUBSET Requests
  BY PendingOfType DEF Evicted
<1> HIDE DEF R
<1>3. ClearsAsked(R)
  BY <1>1 DEF ClearsAsked, DropStages, TypeOK
<1> QED BY <1>2, <1>3

LEMMA NextPendingStep == TypeOK /\ [Next]_vars => PendingStep
<1> SUFFICES ASSUME TypeOK, [Next]_vars PROVE PendingStep
  OBVIOUS
<1> USE DEF PendingStep, KeepsAsked, TypeOK, pendingVars
<1>1. ASSUME NEW s \in Sockets, NEW a \in Agents, NEW p \in Passwords, HostJoin(s, a, p)
      PROVE  KeepsAsked
  BY <1>1 DEF HostJoin
<1>2. ASSUME NEW s \in Sockets, NEW a \in Agents, Subscribe(s, a) \/ Unsubscribe(s)
      PROVE  KeepsAsked
  BY <1>2 DEF Subscribe, Unsubscribe
<1>3. ASSUME NEW s \in Sockets, Unsubscribe(s)
      PROVE  KeepsAsked
  BY <1>3 DEF Unsubscribe
<1>4. ASSUME NEW q \in Requests, NEW p \in Passwords, ViewerRequest(q, p)
      PROVE  KeepsAsked
  BY <1>4 DEF ViewerRequest
<1>5. ASSUME NEW q \in Requests, AccessRequest(q)
      PROVE  KeepsAsked
  BY <1>5 DEF AccessRequest
<1>6. ASSUME NEW q \in Requests, NEW b \in BOOLEAN, BlacklistReply(q, b)
      PROVE  KeepsAsked
  BY <1>6 DEF BlacklistReply
<1>7. ASSUME NEW q \in Requests, AdmitWhitelistedViewer(q)
      PROVE  PendingStep
  BY <1>7, RegisterClears DEF AdmitWhitelistedViewer
<1>8. ASSUME NEW q \in Requests, GrantWhitelistedDevice(q)
      PROVE  KeepsAsked
  BY <1>8 DEF GrantWhitelistedDevice
<1>9. ASSUME NEW q \in Requests, AskHostForViewer(q)
      PROVE  PendingStep
  BY <1>9 DEF AskHostForViewer, RequestIds, AddsAsked
<1>10. ASSUME NEW q \in Requests, AskHostForDevice(q)
       PROVE  PendingStep
  BY <1>10 DEF AskHostForDevice, AddsAsked
<1>11. ASSUME NEW r \in Requests, AccessGrant(r)
       PROVE  ClearsAsked({r})
  BY <1>11 DEF AccessGrant, ClearsAsked
<1>12. ASSUME NEW q \in Requests, GrantReply(q)
       PROVE  PendingStep
  BY <1>12, RegisterClears DEF GrantReply
<1>13. ASSUME NEW r \in Requests, NEW b \in BOOLEAN, AccessDeny(r, b)
       PROVE  ClearsAsked({r})
  BY <1>13 DEF AccessDeny, ClearsAsked
<1>14. ASSUME NEW q \in Requests, DenyReply(q)
       PROVE  KeepsAsked
  BY <1>14 DEF DenyReply
<1>15. ASSUME NEW r \in Requests, ApprovalTimeout(r)
       PROVE  ClearsAsked({r})
  BY <1>15 DEF ApprovalTimeout, ClearsAsked
<1>16. ASSUME NEW s \in Sockets, KickViewer(s)
       PROVE  KeepsAsked
  BY <1>16 DEF KickViewer
<1>17. ASSUME NEW s \in Sockets, Disconnect(s)
       PROVE  PendingStep
  <2>1. PendingOf(s) \in SUBSET Requests
    BY DEF PendingOf
  <2>2. ClearsAsked(PendingOf(s))
    BY <1>17 DEF Disconnect, DropStages, ClearsAsked
  <2> QED BY <2>1, <2>2
<1>18. CASE UNCHANGED vars
  BY <1>18 DEF vars
<1> QED
  <2> HIDE DEF KeepsAsked, TypeOK
  <2>1. \A r \in Requests : {r} \in SUBSET Requests
    OBVIOUS
  <2> QED
    BY <1>1, <1>2, <1>3, <1>4, <1>5, <1>6, <1>7, <1>8, <1>9, <1>10, <1>11, <1>12,
       <1>13, <1>14, <1>15, <1>16, <1>17, <1>18, <2>1 DEF Next, DatabaseReply

LEMMA PendingInit == Init => PendingInv
BY TypeInit DEF Init, PendingInv, TimersMatchPending, PendingIsAsked, PendingOnce

LEMMA PendingNext == PendingInv /\ [Next]_vars => PendingInv'
<1> SUFFICES ASSUME PendingInv, [Next]_vars PROVE PendingInv'
  OBVIOUS
<1>1. TypeOK /\ TypeOK'
  BY TypeNext DEF PendingInv
<1>2. PendingStep
  BY <1>1, NextPendingStep
<1> USE NoneIsNone DEF TimersMatchPending, PendingIsAsked, PendingOnce
<1>3. CASE KeepsAsked
  BY <1>1, <1>3 DEF PendingInv, KeepsAsked, TypeOK, pendingVars
<1>4. ASSUME NEW R \in SUBSET Requests, ClearsAsked(R)
      PROVE  PendingInv'
  <2>1. \A r \in Requests : pendingRequests'[r] # None =>
            r \notin R /\ pendingRequests'[r] = pendingRequests[r]
    BY <1>4 DEF ClearsAsked, ClearPendingRequests
  <2>2. TimersMatchPending'
    BY <1>1, <1>4 DEF ClearsAsked, ClearPendingRequests, PendingInv, TypeOK
  <2>3. PendingIsAsked'
    BY <1>1, <1>4, <2>1 DEF ClearsAsked, PendingInv, TypeOK
  <2>4. PendingOnce'
    BY <2>1 DEF PendingInv
  <2> QED BY <1>1, <2>2, <2>3, <2>4 DEF PendingInv
<1>5. ASSUME NEW r \in Requests, NEW q \in Requests, AddsAsked(r, q)
      PROVE  PendingInv'
  <2>1. \A t \in Requests : pendingRequests[t] # q
    BY <1>5 DEF AddsAsked, PendingInv
  <2> QED
    BY <1>1, <1>5, <2>1 DEF AddsAsked, SetPendingRequest, PendingInv, TypeOK
<1> QED
  BY <1>2, <1>3, <1>4, <1>5 DEF PendingStep

\* No timer outlives its request and no request waits without one.
THEOREM TimersAreExact == Spec => []TimersMatchPending
<1>1. Spec => []PendingInv
  BY PendingInit, PendingNext, PTL DEF Spec
<1>2. PendingInv => TimersMatchPending
  BY DEF PendingInv
<1> QED BY <1>1, <1>2, PTL

-----------------------------------------------------------------------------
(* Verdicts *)

Settled(p) == stage[p] \in Decided \cup {"dropped"}

LEMMA DropKeepsSettled ==
    ASSUME PendingInv, NEW R \in SUBSET Requests, NEW p \in Requests, Settled(p)
    PROVE  DropStages(R)[p] = stage[p]
BY NoneIsNone DEF PendingInv, PendingIsAsked, DropStages, Settled, Decided

LEMMA RegisterKeepsSettled ==
    ASSUME PendingInv, NEW q \in Requests, RegisterViewer(q), ~Settled(q),
           NEW p \in Requests, Settled(p)
    PROVE  stage'[p] = stage[p]
<1> DEFINE R == UNION {PendingOf(s) : s \in Evicted(Client(q), Meta(q))}
<1>1. R \in SUBSET Requests
  BY PendingOfType DEF Evicted, PendingInv
<1>2. stage' = [DropStages(R) EXCEPT ![q] = "granted"]
  BY DEF RegisterViewer
<1> HIDE DEF R
<1>3. DropStages(R)[p] = stage[p]
  BY <1>1, DropKeepsSettled
<1> QED
  BY <1>2, <1>3 DEF DropStages

\* The case analysis behind VerdictIsFinal: handlers touch the stage of the
\* request they run for, or of one that is pending and hence undecided.
LEMMA NextKeepsSettled ==
    ASSUME PendingInv, [Next]_vars, NEW p \in Requests, Settled(p)
    PROVE  stage'[p] = stage[p]
<1> USE DEF Settled, Decided
<1>1. TypeOK /\ PendingIsAsked
  BY DEF PendingInv
<1>2. ASSUME NEW q \in Requests, DatabaseReply(q)
      PROVE  stage'[p] = stage[p]
  <2>1. CASE \E b \in BOOLEAN : BlacklistReply(q, b)
    BY <1>1, <2>1 DEF BlacklistReply, TypeOK
  <2>2. CASE AdmitWhitelistedViewer(q)
    BY <2>2, RegisterKeepsSettled DEF AdmitWhitelistedViewer
  <2>3. CASE GrantWhitelistedDevice(q)
    BY <1>1, <2>3 DEF GrantWhitelistedDevice, TypeOK
  <2>4. CASE AskHostForViewer(q)
    BY <1>1, <2>4 DEF AskHostForViewer, TypeOK
  <2>5. CASE AskHostForDevice(q)
    BY <1>1, <2>5 DEF AskHostForDevice, TypeOK
  <2>6. CASE GrantReply(q)
    BY <1>1, <2>6, RegisterKeepsSettled DEF GrantReply, TypeOK
  <2>7. CASE DenyReply(q)
    BY <1>1, <2>7 DEF DenyReply, TypeOK
  <2> QED
    BY <1>2, <2>1, <2>2, <2>3, <2>4, <2>5, <2>6, <2>7 DEF DatabaseReply
<1>3. ASSUME NEW r \in Requests,
             \/ AccessGrant(r)
             \/ \E b \in BOOLEAN : AccessDeny(r, b)
             \/ ApprovalTimeout(r)
      PROVE  stage'[p] = stage[p]
  BY <1>1, <1>3 DEF AccessGrant, AccessDeny, ApprovalTimeout, TypeOK, PendingIsAsked
<1>4. ASSUME NEW s \in Sockets, Disconnect(s)
      PROVE  stage'[p] = stage[p]
  <2>1. PendingOf(s) \in SUBSET Requests
    BY <1>1 DEF PendingOf, TypeOK
  <2>2. stage' = DropStages(PendingOf(s))
    BY <1>4 DEF Disconnect
  <2> QED BY <2>1, <2>2, DropKeepsSettled
<1>5. ASSUME NEW q \in Requests,
             (\E w \in Passwords : ViewerRequest(q, w)) \/ AccessRequest(q)
      PROVE  stage'[p] = stage[p]
  BY <1>1, <1>5 DEF ViewerRequest, AccessRequest, TypeOK
<1>6. ASSUME \/ \E s \in Sockets, a \in Agents, w \in Passwords : HostJoin(s, a, w)
             \/ \E s \in Sockets, a \in Agents : Subscribe(s, a)
             \/ \E s \in Sockets : Unsubscribe(s) \/ KickViewer(s)
             \/ UNCHANGED vars
      PROVE  stage'[p] = stage[p]
  BY <1>6 DEF HostJoin, Subscribe, Unsubscribe, KickViewer, vars
<1> QED
  BY <1>2, <1>3, <1>4, <1>5, <1>6 DEF Next

\* Whatever races for a request, its first verdict is its last.
THEOREM VerdictsAreFinal == Spec => VerdictIsFinal
<1>1. PendingInv /\ [Next]_vars => [\A q \in Requests :
         stage[q] \in Decided \cup {"dropped"} => stage'[q] = stage[q]]_vars
  BY NextKeepsSettled DEF Settled
<1>2. Spec => []PendingInv
  BY PendingInit, PendingNext, PTL DEF Spec
<1> QED
  BY <1>1, <1>2, PTL DEF Spec, VerdictIsFinal

-----------------------------------------------------------------------------
(* Hosts *)

\* What a step does to the host maps: a host joins, or the close of a socket
\* removes one of its agents.
HostStep ==
    \/ UNCHANGED sessionVars
    \/ \E s \in Sockets, a \in Agents, p \in Passwords : HostJoin(s, a, p)
    \/ \E s \in Sockets, a \in Agents :
          /\ sock[s] # "closed" /\ sock' = [sock EXCEPT ![s] = "closed"]
          /\ hostSockets[a] = s
          /\ hostSockets' = [hostSockets EXCEPT ![a] = None]
          /\ hostPasswords' = [hostPasswords EXCEPT ![a] = None]

LEMMA NextHostStep == [Next]_vars => HostStep
<1> SUFFICES ASSUME [Next]_vars PROVE HostStep
  OBVIOUS
<1> USE DEF HostStep
<1>1. ASSUME NEW s \in Sockets, Disconnect(s)
      PROVE  HostStep
  BY <1>1 DEF Disconnect, DeleteHostBySocket
<1>2. ASSUME NEW q \in Requests, DatabaseReply(q)
      PROVE  HostStep
  BY <1>2 DEF DatabaseReply, BlacklistReply, AdmitWhitelistedViewer, GrantWhitelistedDevice,
              AskHostForViewer, AskHostForDevice, GrantReply, DenyReply
<1>3. ASSUME NEW s \in Sockets, NEW a \in Agents,
             Subscribe(s, a) \/ Unsubscribe(s) \/ KickViewer(s)
      PROVE  HostStep
  BY <1>3 DEF Subscribe, Unsubscribe, KickViewer
<1>4. ASSUME NEW s \in Sockets, Unsubscribe(s) \/ KickViewer(s)
      PROVE  HostStep
  BY <1>4 DEF Unsubscribe, KickViewer
<1>5. ASSUME NEW q \in Requests, AccessRequest(q) \/ \E p \in Passwords : ViewerRequest(q, p)
      PROVE  HostStep
  BY <1>5 DEF AccessRequest, ViewerRequest
<1>6. ASSUME NEW r \in Requests,
             \/ AccessGrant(r)
             \/ \E b \in BOOLEAN : AccessDeny(r, b)
             \/ ApprovalTimeout(r)
      PROVE  HostStep
  BY <1>6 DEF AccessGrant, AccessDeny, ApprovalTimeout
<1>7. CASE UNCHANGED vars
  BY <1>7 DEF vars, sessionVars
<1>8. ASSUME NEW s \in Sockets, NEW a \in Agents, NEW p \in Passwords, HostJoin(s, a, p)
      PROVE  HostStep
  BY <1>8
<1> HIDE DEF HostStep
<1> QED
  BY <1>1, <1>2, <1>3, <1>4, <1>5, <1>6, <1>7, <1>8 DEF Next

LEMMA PasswordNext == TypeOK /\ PasswordWithHost /\ [Next]_vars => PasswordWithHost'
<1> SUFFICES ASSUME TypeOK, PasswordWithHost, HostStep PROVE PasswordWithHost'
  BY NextHostStep
<1> QED
  BY NoneIsNone DEF HostStep, PasswordWithHost, TypeOK, sessionVars, HostJoin

\* An agent has a password exactly while it has a host.
THEOREM PasswordsFollowHosts == Spec => []PasswordWithHost
<1>1. Init => PasswordWithHost
  BY DEF Init, PasswordWithHost
<1> QED
  BY <1>1, PasswordNext, TypeCorrect, PTL DEF Spec

\* A replaced host connection that closes late cannot unregister its successor.
THEOREM HostsLeaveByOwnClose == Spec => HostLeavesByOwnClose
<1>1. TypeOK /\ [Next]_vars => [\A a \in Agents :
         hostSockets[a] # None /\ hostSockets'[a] = None =>
           sock[hostSockets[a]] # "closed" /\ sock'[hostSockets[a]] = "closed"]_vars
  <2> SUFFICES ASSUME TypeOK, HostStep, NEW a \in Agents,
                      hostSockets[a] # None, hostSockets'[a] = None
               PROVE  sock[hostSockets[a]] # "closed" /\ sock'[hostSockets[a]] = "closed"
    BY NextHostStep
  <2> QED
    BY NoneIsNone DEF HostStep, TypeOK, sessionVars, HostJoin
<1> QED
  BY <1>1, TypeCorrect, PTL DEF Spec, HostLeavesByOwnClose

-----------------------------------------------------------------------------
(* Seats *)

\* What a step does to the viewer map: nothing, register the caller of a
\* request it grants, or remove one socket.
SeatStep ==
    \/ UNCHANGED viewerSockets
    \/ \E q \in Requests : Dto[q].type = "viewer" /\ RegisterViewer(q)
    \/ \E s \in Sockets : viewerSockets' = [viewerSockets EXCEPT ![s] = None]

LEMMA NextSeatStep == [Next]_vars => SeatStep
<1> SUFFICES ASSUME [Next]_vars PROVE SeatStep
  OBVIOUS
<1> USE DEF SeatStep
<1>1. ASSUME NEW s \in Sockets, KickViewer(s) \/ Disconnect(s) \/ Unsubscribe(s)
      PROVE  SeatStep
  BY <1>1 DEF KickViewer, Disconnect, Unsubscribe
<1>2. ASSUME NEW s \in Sockets, NEW a \in Agents,
             Subscribe(s, a) \/ \E p \in Passwords : HostJoin(s, a, p)
      PROVE  SeatStep
  BY <1>2 DEF Subscribe, HostJoin
<1>3. ASSUME NEW q \in Requests, DatabaseReply(q)
      PROVE  SeatStep
  BY <1>3 DEF DatabaseReply, BlacklistReply, AdmitWhitelistedViewer, GrantWhitelistedDevice,
              AskHostForViewer, AskHostForDevice, GrantReply, DenyReply
<1>4. ASSUME NEW q \in Requests, AccessRequest(q) \/ \E p \in Passwords : ViewerRequest(q, p)
      PROVE  SeatStep
  BY <1>4 DEF AccessRequest, ViewerRequest
<1>5. ASSUME NEW r \in Requests,
             \/ AccessGrant(r)
             \/ \E b \in BOOLEAN : AccessDeny(r, b)
             \/ ApprovalTimeout(r)
      PROVE  SeatStep
  BY <1>5 DEF AccessGrant, AccessDeny, ApprovalTimeout
<1>6. CASE UNCHANGED vars
  BY <1>6 DEF vars
<1> HIDE DEF SeatStep
<1> QED
  BY <1>1, <1>2, <1>3, <1>4, <1>5, <1>6 DEF Next

LEMMA OneSocketNext == TypeOK /\ OneSocketPerViewer /\ [Next]_vars => OneSocketPerViewer'
<1> SUFFICES ASSUME TypeOK, OneSocketPerViewer, SeatStep PROVE OneSocketPerViewer'
  BY NextSeatStep
<1> USE DtoFields, NoneIsNone DEF OneSocketPerViewer
<1>1. CASE UNCHANGED viewerSockets
  BY <1>1
<1>2. ASSUME NEW q \in Requests, RegisterViewer(q)
      PROVE  OneSocketPerViewer'
  <2>1. \A s \in Sockets : viewerSockets'[s] =
            IF s = Client(q) THEN Meta(q)
            ELSE IF viewerSockets[s] = Meta(q) THEN None ELSE viewerSockets[s]
    BY <1>2 DEF RegisterViewer, Evicted
  <2> QED BY <2>1
<1>3. ASSUME NEW s \in Sockets, viewerSockets' = [viewerSockets EXCEPT ![s] = None]
      PROVE  OneSocketPerViewer'
  BY <1>3 DEF TypeOK
<1> QED
  BY <1>1, <1>2, <1>3 DEF SeatStep

\* A newer connection of a viewer always replaces the older one, dead or alive.
THEOREM OneSocketEach == Spec => []OneSocketPerViewer
<1>1. Init => OneSocketPerViewer
  BY DEF Init, OneSocketPerViewer
<1> QED
  BY <1>1, OneSocketNext, TypeCorrect, PTL DEF Spec

LEMMA GrantedNext == PendingInv /\ NoSeatWithoutGrant /\ [Next]_vars => NoSeatWithoutGrant'
<1> SUFFICES ASSUME PendingInv, NoSeatWithoutGrant, [Next]_vars,
                    NEW s \in Sockets, viewerSockets'[s] # None
             PROVE  \E q \in Requests : /\ Client(q) = s
                                        /\ Dto[q].type = "viewer"
                                        /\ Meta(q) = viewerSockets'[s]
                                        /\ stage'[q] = "granted"
  BY DEF NoSeatWithoutGrant, Client, Meta
<1>1. TypeOK /\ SeatStep
  BY NextSeatStep DEF PendingInv
<1>2. CASE viewerSockets'[s] = viewerSockets[s]
  <2>1. PICK q \in Requests : /\ Client(q) = s /\ Dto[q].type = "viewer"
                              /\ Meta(q) = viewerSockets[s] /\ stage[q] = "granted"
    BY <1>2 DEF NoSeatWithoutGrant
  <2>2. stage'[q] = "granted"
    BY <2>1, NextKeepsSettled DEF Settled, Decided
  <2> QED BY <1>2, <2>1, <2>2
<1>3. CASE viewerSockets'[s] # viewerSockets[s]
  <2>1. PICK q \in Requests : Dto[q].type = "viewer" /\ RegisterViewer(q)
    BY <1>1, <1>3 DEF SeatStep, TypeOK
  <2>2. Client(q) = s /\ Meta(q) = viewerSockets'[s]
    BY <1>3, <2>1 DEF RegisterViewer
  <2>3. stage'[q] = "granted"
    BY <2>1 DEF RegisterViewer, DropStages
  <2> QED BY <2>1, <2>2, <2>3
<1> QED BY <1>2, <1>3

\* Nobody watches who was not let in, whatever was in flight meanwhile.
THEOREM SeatsAreGranted == Spec => []NoSeatWithoutGrant
<1>1. Init => NoSeatWithoutGrant
  BY DEF Init, NoSeatWithoutGrant
<1>2. Spec => []PendingInv
  BY PendingInit, PendingNext, PTL DEF Spec
<1> QED
  BY <1>1, <1>2, GrantedNext, PTL DEF Spec

-----------------------------------------------------------------------------
(* Own clients: requests *)

\* An entry describes the request its id was made for.
EntryIsOwn == \A r \in Requests : pendingRequests[r] \in {None, r}

AskedHasEntry == \A r \in Requests : (stage[r] = "asked") = (pendingRequests[r] = r)

\* The link of a socket and the entry of its request come and go together.
Linked ==
    /\ \A r \in Requests : pendingRequests[r] = r => pendingBySocket[Client(r)] = r
    /\ \A s \in Sockets, r \in Requests : pendingBySocket[s] = r =>
          pendingRequests[r] = r /\ Client(r) = s

EntryInv == PendingInv /\ EntryIsOwn /\ AskedHasEntry /\ Linked

LEMMA EntryInit == Init => EntryInv
BY PendingInit, NoneIsNone, DtoFields
   DEF Init, EntryInv, EntryIsOwn, AskedHasEntry, Linked

LEMMA EntryNext ==
    ASSUME OneRequestPerSocket, ~SameMillisecond, EntryInv, [Next]_vars
    PROVE  EntryInv'
<1>1. TypeOK /\ PendingInv' /\ PendingStep
  BY PendingNext, NextPendingStep DEF EntryInv, PendingInv
<1>2. TypeOK'
  BY <1>1 DEF PendingInv
<1> USE NoneIsNone, DtoFields DEF EntryIsOwn, AskedHasEntry, Linked
<1>3. CASE KeepsAsked
  BY <1>1, <1>3 DEF EntryInv, KeepsAsked, pendingVars
<1>4. ASSUME NEW R \in SUBSET Requests, ClearsAsked(R)
      PROVE  EntryInv'
  <2>1. \A r \in Requests : pendingRequests'[r] = IF r \in R THEN None ELSE pendingRequests[r]
    BY <1>4 DEF ClearsAsked, ClearPendingRequests
  <2>2. \A s \in Sockets : pendingBySocket'[s] =
            IF \E r \in R : pendingRequests[r] = r /\ Client(r) = s
            THEN None ELSE pendingBySocket[s]
    BY <1>4 DEF ClearsAsked, ClearPendingRequests, EntryInv
  <2>3. EntryIsOwn'
    BY <2>1 DEF EntryInv
  <2>4. AskedHasEntry'
    BY <1>4, <2>1 DEF EntryInv, ClearsAsked
  <2>5. \A r \in Requests : pendingRequests'[r] = r => pendingBySocket'[Client(r)] = r
    BY <2>1, <2>2 DEF EntryInv, OneRequestPerSocket, Client
  <2>6. ASSUME NEW s \in Sockets, NEW r \in Requests, pendingBySocket'[s] = r
        PROVE  pendingRequests'[r] = r /\ Client(r) = s
    BY <2>1, <2>2, <2>6 DEF EntryInv
  <2> QED BY <1>1, <2>3, <2>4, <2>5, <2>6 DEF EntryInv, Client
<1>5. ASSUME NEW r \in Requests, NEW q \in Requests, AddsAsked(r, q)
      PROVE  EntryInv'
  <2>1. r = q
    BY <1>5 DEF AddsAsked
  <2>2. /\ pendingRequests' = [pendingRequests EXCEPT ![q] = q]
        /\ pendingBySocket' = [pendingBySocket EXCEPT ![Client(q)] = q]
        /\ stage' = [stage EXCEPT ![q] = "asked"]
    BY <1>5, <2>1 DEF AddsAsked, SetPendingRequest
  <2>3. EntryIsOwn' /\ AskedHasEntry'
    BY <1>1, <2>2 DEF EntryInv, TypeOK
  <2>4. Linked'
    BY <1>1, <2>2 DEF EntryInv, TypeOK, OneRequestPerSocket, Client
  <2> QED BY <1>1, <2>3, <2>4 DEF EntryInv
<1> QED
  BY <1>1, <1>3, <1>4, <1>5 DEF PendingStep

LEMMA EntryAgrees == EntryInv => RequestMapsAgree
<1> SUFFICES ASSUME EntryInv PROVE RequestMapsAgree
  OBVIOUS
<1> USE NoneIsNone DEF EntryInv, EntryIsOwn
<1>1. TypeOK /\ TimersMatchPending
  BY DEF PendingInv
<1>2. PendingMapsAgree
  <2>1. \A r \in Requests : pendingRequests[r] # None => pendingRequests[r] = r
    OBVIOUS
  <2>2. \A s \in Sockets : pendingBySocket[s] # None => pendingBySocket[s] \in Requests
    BY <1>1 DEF TypeOK
  <2> QED
    BY <2>1, <2>2 DEF PendingMapsAgree, Linked
<1>3. AskedIsPending
  <2>1. ASSUME NEW q \in Requests, stage[q] = "asked"
        PROVE  \E r \in Requests : pendingRequests[r] = q
    BY <2>1 DEF AskedHasEntry
  <2>2. ASSUME NEW q \in Requests, NEW r \in Requests, pendingRequests[r] = q
        PROVE  stage[q] = "asked"
    BY <2>2 DEF AskedHasEntry
  <2> QED
    BY <2>1, <2>2 DEF AskedIsPending
<1> QED
  BY <1>1, <1>2, <1>3 DEF RequestMapsAgree

LEMMA EntryAlways ==
    ASSUME OneRequestPerSocket, ~SameMillisecond
    PROVE  Spec => []EntryInv
<1>1. EntryInv /\ [Next]_vars => EntryInv'
  BY EntryNext
<1> QED
  BY <1>1, EntryInit, PTL DEF Spec

\* A request that waits for the host has its entry, its timer and the link of
\* its socket, and none of them is left when it is settled or its socket is
\* gone: session.manager.ts, clearPendingRequest and its callers.
THEOREM RequestMaps ==
    ASSUME OneRequestPerSocket, ~SameMillisecond
    PROVE  Spec => []RequestMapsAgree
BY EntryAlways, EntryAgrees, PTL

-----------------------------------------------------------------------------
(* Own clients: connections *)

\* What a step does to the connections and the seats: nothing, register a
\* request that was under way, a kick, or a close.
ConnStep ==
    \/ UNCHANGED <<sock, viewerSockets>>
    \/ \E q \in Requests : /\ stage[q] \in {"isWhitelisted", "addToWhitelist"}
                           /\ RegisterViewer(q)
                           /\ UNCHANGED sessionVars
    \/ \E s \in Sockets : KickViewer(s) \/ Disconnect(s)

LEMMA NextConnStep == [Next]_vars => ConnStep
<1> SUFFICES ASSUME [Next]_vars PROVE ConnStep
  OBVIOUS
<1> USE DEF ConnStep
<1>1. ASSUME NEW s \in Sockets, NEW a \in Agents,
             Subscribe(s, a) \/ \E p \in Passwords : HostJoin(s, a, p)
      PROVE  ConnStep
  BY <1>1 DEF Subscribe, HostJoin
<1>2. ASSUME NEW s \in Sockets, Unsubscribe(s)
      PROVE  ConnStep
  BY <1>2 DEF Unsubscribe
<1>3. ASSUME NEW q \in Requests, DatabaseReply(q)
      PROVE  ConnStep
  BY <1>3 DEF DatabaseReply, BlacklistReply, AdmitWhitelistedViewer, GrantWhitelistedDevice,
              AskHostForViewer, AskHostForDevice, GrantReply, DenyReply
<1>4. ASSUME NEW q \in Requests, AccessRequest(q) \/ \E p \in Passwords : ViewerRequest(q, p)
      PROVE  ConnStep
  BY <1>4 DEF AccessRequest, ViewerRequest
<1>5. ASSUME NEW r \in Requests,
             \/ AccessGrant(r)
             \/ \E b \in BOOLEAN : AccessDeny(r, b)
             \/ ApprovalTimeout(r)
      PROVE  ConnStep
  BY <1>5 DEF AccessGrant, AccessDeny, ApprovalTimeout
<1>6. CASE UNCHANGED vars
  BY <1>6 DEF vars
<1>7. ASSUME NEW s \in Sockets, KickViewer(s) \/ Disconnect(s)
      PROVE  ConnStep
  BY <1>7
<1> HIDE DEF ConnStep
<1> QED
  BY <1>1, <1>2, <1>3, <1>4, <1>5, <1>6, <1>7 DEF Next

\* Only a close event closes, and nothing opens again.
LEMMA ClosesByDisconnect ==
    ASSUME TypeOK, [Next]_vars, NEW s \in Sockets
    PROVE  /\ sock[s] # "closed" /\ sock'[s] = "closed" => Disconnect(s)
           /\ sock'[s] = "open" => sock[s] = "open"
           /\ sock[s] = "closed" => sock'[s] = "closed"
<1>1. CASE UNCHANGED <<sock, viewerSockets>>
  BY <1>1
<1>2. CASE \E q \in Requests : RegisterViewer(q)
  BY <1>2 DEF RegisterViewer
<1>3. CASE \E t \in Sockets : KickViewer(t)
  BY <1>3 DEF KickViewer, TypeOK
<1>4. CASE \E t \in Sockets : Disconnect(t)
  <2>1. PICK t \in Sockets : Disconnect(t)
    BY <1>4
  <2>2. sock' = [sock EXCEPT ![t] = "closed"]
    BY <2>1 DEF Disconnect
  <2> QED BY <2>1, <2>2 DEF TypeOK
<1> QED
  BY <1>1, <1>2, <1>3, <1>4, NextConnStep DEF ConnStep

-----------------------------------------------------------------------------
(* Hosts *)

\* A host is registered for an agent it may host.
HostIsOwn == \A a \in Agents : hostSockets[a] # None => a \in Hosts[hostSockets[a]]

HostInv == TypeOK /\ PasswordWithHost /\ HostIsOwn /\ HostsAreAlive

\* The close of a host removes the one agent it hosts.
LEMMA DisconnectRemovesHost ==
    ASSUME OneAgentPerSocket, HostInv, NEW s \in Sockets, Disconnect(s), NEW a \in Agents
    PROVE  hostSockets'[a] = IF hostSockets[a] = s THEN None ELSE hostSockets[a]
<1>1. DeleteHostBySocket(s)
  BY DEF Disconnect
<1> QED
  BY <1>1, NoneIsNone
     DEF DeleteHostBySocket, sessionVars, HostInv, TypeOK, HostIsOwn, OneAgentPerSocket

LEMMA HostNext ==
    ASSUME OneAgentPerSocket, HostInv, [Next]_vars
    PROVE  HostInv'
<1>1. TypeOK /\ TypeOK' /\ PasswordWithHost'
  BY TypeNext, PasswordNext DEF HostInv
<1> USE NoneIsNone DEF HostIsOwn, HostsAreAlive
<1>2. ASSUME NEW s \in Sockets, Disconnect(s)
      PROVE  HostIsOwn' /\ HostsAreAlive'
  <2>1. \A a \in Agents : hostSockets'[a] = IF hostSockets[a] = s THEN None ELSE hostSockets[a]
    BY <1>2, DisconnectRemovesHost
  <2>2. sock' = [sock EXCEPT ![s] = "closed"]
    BY <1>2 DEF Disconnect
  <2> QED BY <1>1, <2>1, <2>2 DEF HostInv, TypeOK
<1>3. ASSUME \A s \in Sockets : ~Disconnect(s)
      PROVE  HostIsOwn' /\ HostsAreAlive'
  <2>1. \A s \in Sockets : sock'[s] = "closed" => sock[s] = "closed"
    BY <1>1, <1>3, ClosesByDisconnect
  <2>2. CASE UNCHANGED sessionVars
    BY <1>1, <2>1, <2>2 DEF sessionVars, HostInv, TypeOK
  <2>3. CASE \E s \in Sockets, a \in Agents, p \in Passwords : HostJoin(s, a, p)
    BY <1>1, <2>1, <2>3 DEF HostJoin, Talking, HostInv, TypeOK
  <2>4. ~ \E s \in Sockets : sock[s] # "closed" /\ sock' = [sock EXCEPT ![s] = "closed"]
    BY <1>1, <2>1 DEF TypeOK
  <2> QED
    BY <2>2, <2>3, <2>4, NextHostStep DEF HostStep
<1> QED
  BY <1>1, <1>2, <1>3 DEF HostInv

LEMMA HostAlways == ASSUME OneAgentPerSocket PROVE Spec => []HostInv
<1>1. Init => HostInv
  BY TypeInit DEF Init, HostInv, PasswordWithHost, HostIsOwn, HostsAreAlive
<1>2. HostInv /\ [Next]_vars => HostInv'
  BY HostNext
<1> QED
  BY <1>1, <1>2, PTL DEF Spec

\* An agent has a password exactly while it has a host, and that host's socket
\* has not closed: deleteHostBySocket finds what the socket hosted.
THEOREM HostMaps ==
    ASSUME OneAgentPerSocket
    PROVE  Spec => []HostMapsAgree
<1>1. HostInv => HostMapsAgree
  BY DEF HostInv, HostMapsAgree
<1> QED
  BY <1>1, HostAlways, PTL

\* With the web application's disciplines all the maps of session.manager.ts
\* agree: what waits for the host can be found by its id, its timer and its
\* socket, and an agent that has a password has a host that can be asked.
THEOREM Maps ==
    ASSUME OneRequestPerSocket, ~SameMillisecond, OneAgentPerSocket
    PROVE  Spec => []MapsAgree
<1>1. RequestMapsAgree /\ HostMapsAgree => MapsAgree
  BY DEF MapsAgree
<1> QED
  BY <1>1, RequestMaps, HostMaps, PTL

-----------------------------------------------------------------------------
(* Seats *)

\* With one request on a socket, no handler is left to seat a socket the server
\* closes.
ClosingIsUnseated == \A s \in Sockets : sock[s] = "closing" => viewerSockets[s] = None

\* A socket the server closes had been let in.
ClosingWasGranted == \A s \in Sockets : sock[s] = "closing" =>
    \E q \in Requests : Client(q) = s /\ stage[q] = "granted"

SeatInv == PendingInv /\ NoSeatWithoutGrant /\ ClosingWasGranted /\ ClosingIsUnseated

\* A socket is registered once: its one request is settled by it.
LEMMA RegistersOnce ==
    ASSUME OneRequestPerSocket, SeatInv, NEW q \in Requests,
           stage[q] \in {"isWhitelisted", "addToWhitelist"}
    PROVE  viewerSockets[Client(q)] = None /\ sock[Client(q)] # "closing"
BY DtoFields DEF OneRequestPerSocket, SeatInv, NoSeatWithoutGrant, ClosingWasGranted, Client

LEMMA SeatNext ==
    ASSUME OneRequestPerSocket, SeatInv, [Next]_vars
    PROVE  SeatInv'
<1>1. PendingInv /\ PendingInv' /\ TypeOK /\ NoSeatWithoutGrant'
  BY PendingNext, GrantedNext DEF SeatInv, PendingInv
<1>2. \A q \in Requests : stage[q] = "granted" => stage'[q] = "granted"
  BY <1>1, NextKeepsSettled DEF Settled, Decided
<1>3. ASSUME NEW s \in Sockets, sock'[s] = "closing"
      PROVE  /\ viewerSockets'[s] = None
             /\ sock[s] = "closing" \/ viewerSockets[s] # None
  <2>1. CASE UNCHANGED <<sock, viewerSockets>>
    BY <1>3, <2>1 DEF SeatInv, ClosingIsUnseated
  <2>2. ASSUME NEW q \in Requests, stage[q] \in {"isWhitelisted", "addToWhitelist"},
               RegisterViewer(q)
        PROVE  /\ viewerSockets'[s] = None
               /\ sock[s] = "closing" \/ viewerSockets[s] # None
    <3>1. viewerSockets[Client(q)] = None /\ sock[Client(q)] # "closing"
      BY <2>2, RegistersOnce
    <3>2. sock'[s] = IF s \in Evicted(Client(q), Meta(q)) /\ sock[s] = "open"
                     THEN "closing" ELSE sock[s]
      BY <2>2 DEF RegisterViewer
    <3>3. viewerSockets'[s] = IF s = Client(q) THEN Meta(q)
                              ELSE IF s \in Evicted(Client(q), Meta(q)) THEN None
                              ELSE viewerSockets[s]
      BY <2>2 DEF RegisterViewer
    <3> QED
      BY <1>3, <3>1, <3>2, <3>3, NoneIsNone, DtoFields
         DEF Evicted, SeatInv, ClosingIsUnseated
  <2>3. ASSUME NEW t \in Sockets, KickViewer(t)
        PROVE  /\ viewerSockets'[s] = None
               /\ sock[s] = "closing" \/ viewerSockets[s] # None
    BY <1>1, <1>3, <2>3 DEF KickViewer, TypeOK, SeatInv, ClosingIsUnseated
  <2>4. ASSUME NEW t \in Sockets, Disconnect(t)
        PROVE  /\ viewerSockets'[s] = None
               /\ sock[s] = "closing" \/ viewerSockets[s] # None
    BY <1>1, <1>3, <2>4 DEF Disconnect, TypeOK, SeatInv, ClosingIsUnseated
  <2> QED
    BY <2>1, <2>2, <2>3, <2>4, NextConnStep DEF ConnStep
<1>4. ClosingIsUnseated'
  BY <1>3 DEF ClosingIsUnseated
<1>5. ClosingWasGranted'
  BY <1>2, <1>3 DEF SeatInv, ClosingWasGranted, NoSeatWithoutGrant, Client
<1> QED
  BY <1>1, <1>4, <1>5 DEF SeatInv

LEMMA SeatInit == Init => SeatInv
BY PendingInit
   DEF Init, SeatInv, NoSeatWithoutGrant, ClosingWasGranted, ClosingIsUnseated

LEMMA SeatAlways == ASSUME OneRequestPerSocket PROVE Spec => []SeatInv
<1>1. SeatInv /\ [Next]_vars => SeatInv'
  BY SeatNext
<1> QED
  BY <1>1, SeatInit, PTL DEF Spec

-----------------------------------------------------------------------------
(* Departures *)

\* What a step does to what the hosts were told: nothing, a viewer more, or the
\* departure of the viewer of a socket.
JoinedStep ==
    \/ \A h \in Sockets : joined[h] \subseteq joined'[h]
    \/ \E s \in Sockets : KickViewer(s) \/ Disconnect(s)

LEMMA NextJoinedStep == TypeOK /\ [Next]_vars => JoinedStep
<1> SUFFICES ASSUME TypeOK, [Next]_vars PROVE JoinedStep
  OBVIOUS
<1> USE DEF JoinedStep
<1>1. ASSUME NEW s \in Sockets, NEW a \in Agents,
             Subscribe(s, a) \/ \E p \in Passwords : HostJoin(s, a, p)
      PROVE  JoinedStep
  BY <1>1 DEF Subscribe, HostJoin
<1>2. ASSUME NEW s \in Sockets, Unsubscribe(s)
      PROVE  JoinedStep
  BY <1>2 DEF Unsubscribe
<1>3. ASSUME NEW q \in Requests, AdmitWhitelistedViewer(q)
      PROVE  JoinedStep
  BY <1>3 DEF AdmitWhitelistedViewer, SendJoined, TypeOK
<1>4. ASSUME NEW q \in Requests, GrantReply(q)
      PROVE  JoinedStep
  BY <1>4 DEF GrantReply, SendJoined, TypeOK
<1>5. ASSUME NEW q \in Requests, DatabaseReply(q)
      PROVE  JoinedStep
  <2>1. CASE \/ \E b \in BOOLEAN : BlacklistReply(q, b)
             \/ GrantWhitelistedDevice(q) \/ AskHostForViewer(q) \/ AskHostForDevice(q)
             \/ DenyReply(q)
    BY <2>1 DEF BlacklistReply, GrantWhitelistedDevice, AskHostForViewer,
                AskHostForDevice, DenyReply
  <2> QED
    BY <1>3, <1>4, <1>5, <2>1 DEF DatabaseReply
<1>6. ASSUME NEW q \in Requests, AccessRequest(q) \/ \E p \in Passwords : ViewerRequest(q, p)
      PROVE  JoinedStep
  BY <1>6 DEF AccessRequest, ViewerRequest
<1>7. ASSUME NEW r \in Requests,
             \/ AccessGrant(r)
             \/ \E b \in BOOLEAN : AccessDeny(r, b)
             \/ ApprovalTimeout(r)
      PROVE  JoinedStep
  BY <1>7 DEF AccessGrant, AccessDeny, ApprovalTimeout
<1>8. CASE UNCHANGED vars
  BY <1>8 DEF vars
<1>9. ASSUME NEW s \in Sockets, KickViewer(s) \/ Disconnect(s)
      PROVE  JoinedStep
  BY <1>9
<1> HIDE DEF JoinedStep
<1> QED
  BY <1>1, <1>2, <1>5, <1>6, <1>7, <1>8, <1>9 DEF Next

\* A viewer whose departure is told watches on no other socket: whatever the
\* clients do and whichever handlers are suspended (kickViewer, handleDisconnect).
THEOREM DeparturesTrue == Spec => DeparturesAreTrue
<1>1. ASSUME TypeOK, OneSocketPerViewer, [Next]_vars,
             NEW h \in Sockets, NEW meta \in ViewerMeta,
             meta \in joined[h], meta \notin joined'[h], sock'[h] # "closed"
      PROVE  ~Seated(meta)'
  <2>1. meta # None
    BY NoneIsNone
  <2>2. CASE \A x \in Sockets : joined[x] \subseteq joined'[x]
    BY <1>1, <2>2
  <2>3. ASSUME NEW s \in Sockets, KickViewer(s)
        PROVE  ~Seated(meta)'
    <3>1. viewerSockets[s] = meta
      BY <1>1, <2>3 DEF KickViewer, SendLeft, TypeOK
    <3> QED
      BY <1>1, <2>1, <2>3, <3>1 DEF KickViewer, TypeOK, OneSocketPerViewer, Seated
  <2>4. ASSUME NEW s \in Sockets, Disconnect(s)
        PROVE  ~Seated(meta)'
    <3>1. viewerSockets[s] = meta
      BY <1>1, <2>4 DEF Disconnect, TypeOK
    <3>2. viewerSockets' = [viewerSockets EXCEPT ![s] = None]
      BY <2>4 DEF Disconnect
    <3> QED
      BY <1>1, <2>1, <3>1, <3>2 DEF TypeOK, OneSocketPerViewer, Seated
  <2> QED
    BY <1>1, <2>2, <2>3, <2>4, NextJoinedStep DEF JoinedStep
<1>2. TypeOK /\ OneSocketPerViewer /\ [Next]_vars =>
         [\A h \in Sockets, meta \in ViewerMeta :
            meta \in joined[h] /\ meta \notin joined'[h] /\ sock'[h] # "closed"
                => ~Seated(meta)']_vars
  BY <1>1
<1> QED
  BY <1>2, TypeCorrect, OneSocketEach, PTL DEF Spec, DeparturesAreTrue

\* A viewer whose last seat goes was kicked or has closed.
LEMMA LastSeatGoes ==
    ASSUME OneRequestPerSocket, SeatInv, [Next]_vars,
           NEW meta \in ViewerMeta, Seated(meta), ~Seated(meta)'
    PROVE  \E s \in Sockets : viewerSockets[s] = meta /\ (KickViewer(s) \/ Disconnect(s))
<1>1. TypeOK
  BY DEF SeatInv, PendingInv
<1>2. PICK t \in Sockets : viewerSockets[t] = meta
  BY DEF Seated
<1>3. viewerSockets'[t] # meta
  BY DEF Seated
<1>4. ASSUME NEW q \in Requests, stage[q] \in {"isWhitelisted", "addToWhitelist"},
             RegisterViewer(q)
      PROVE  FALSE
  <2>1. viewerSockets[Client(q)] = None
    BY <1>4, RegistersOnce
  <2>2. \A s \in Sockets : viewerSockets'[s] =
            IF s = Client(q) THEN Meta(q)
            ELSE IF viewerSockets[s] = Meta(q) THEN None ELSE viewerSockets[s]
    BY <1>4 DEF RegisterViewer, Evicted
  <2>3. Meta(q) = meta
    BY <1>2, <1>3, <2>1, <2>2, NoneIsNone
  <2>4. viewerSockets'[Client(q)] = meta
    BY <2>2, <2>3, DtoFields
  <2> QED
    BY <2>4, DtoFields DEF Seated
<1>5. ASSUME NEW s \in Sockets, KickViewer(s) \/ Disconnect(s)
      PROVE  s = t
  BY <1>1, <1>2, <1>3, <1>5 DEF KickViewer, Disconnect, TypeOK
<1>6. ~UNCHANGED <<sock, viewerSockets>>
  BY <1>2, <1>3
<1> QED
  BY <1>2, <1>4, <1>5, <1>6, NextConnStep DEF ConnStep

\* When the last socket of a viewer goes, the host of the moment, if its socket
\* is open, no longer shows that viewer: cleanupSocket and kickViewer look the
\* host up after they have changed the maps.
THEOREM DeparturesAreHeard ==
    ASSUME OneRequestPerSocket
    PROVE  Spec => HostHearsOfDeparture
<1>1. ASSUME SeatInv, [Next]_vars, NEW meta \in ViewerMeta,
             Seated(meta), ~Seated(meta)',
             hostSockets'[meta.agentId] # None, sock'[hostSockets'[meta.agentId]] = "open"
      PROVE  meta \notin joined'[hostSockets'[meta.agentId]]
  <2> DEFINE h == hostSockets'[meta.agentId]
  <2>1. TypeOK /\ TypeOK' /\ meta.agentId \in Agents /\ meta # None
    BY <1>1, TypeNext, NoneIsNone DEF SeatInv, PendingInv, ViewerMeta
  <2>2. h \in Sockets
    BY <1>1, <2>1 DEF TypeOK
  <2> HIDE DEF h
  <2>3. sock[h] = "open"
    BY <1>1, <2>1, <2>2, ClosesByDisconnect DEF h
  <2>4. PICK s \in Sockets : viewerSockets[s] = meta /\ (KickViewer(s) \/ Disconnect(s))
    BY <1>1, LastSeatGoes
  <2>5. CASE KickViewer(s)
    <3>1. SendLeft(h, meta)
      BY <2>4, <2>5 DEF KickViewer, sessionVars, h
    <3> QED
      BY <1>1, <2>1, <2>2, <2>3, <3>1 DEF SendLeft, TypeOK, h
  <2>6. CASE Disconnect(s)
    <3>1. joined' = [x \in Sockets |->
              IF x = s THEN {}
              ELSE IF meta # None /\ x = h /\ sock[x] = "open"
              THEN joined[x] \ {meta} ELSE joined[x]]
      BY <2>4, <2>6 DEF Disconnect, h
    <3> QED
      BY <2>1, <2>2, <2>3, <3>1 DEF h
  <2> QED
    BY <2>4, <2>5, <2>6
<1>2. SeatInv /\ [Next]_vars => [\A meta \in ViewerMeta :
         LET h == hostSockets'[meta.agentId]
         IN  Seated(meta) /\ ~Seated(meta)' /\ h # None /\ sock'[h] = "open"
                 => meta \notin joined'[h]]_vars
  BY <1>1
<1>3. Spec => []SeatInv
  BY SeatAlways
<1> QED
  BY <1>2, <1>3, PTL DEF Spec, HostHearsOfDeparture

\* The close of a socket removes what it hosted, what it had asked and its seat,
\* and nothing of any other socket: session.manager.ts, cleanupSocket.
THEOREM CleanupExact ==
    ASSUME OneRequestPerSocket, OneAgentPerSocket, ~SameMillisecond
    PROVE  Spec => CleanupIsExact
<1>1. ASSUME EntryInv, HostInv, [Next]_vars, NEW s \in Sockets,
             sock[s] # "closed", sock'[s] = "closed"
      PROVE  /\ \A a \in Agents :
                    hostSockets'[a] = IF hostSockets[a] = s THEN None ELSE hostSockets[a]
             /\ \A r \in Requests : pendingRequests'[r] =
                    IF pendingRequests[r] # None /\ Client(pendingRequests[r]) = s
                    THEN None ELSE pendingRequests[r]
             /\ \A t \in Sockets : pendingBySocket'[t] = IF t = s THEN None ELSE pendingBySocket[t]
             /\ \A t \in Sockets : viewerSockets'[t] = IF t = s THEN None ELSE viewerSockets[t]
  <2>1. TypeOK /\ Disconnect(s)
    BY <1>1, ClosesByDisconnect DEF HostInv
  <2>2. \A a \in Agents :
            hostSockets'[a] = IF hostSockets[a] = s THEN None ELSE hostSockets[a]
    BY <1>1, <2>1, DisconnectRemovesHost
  <2>3. \A t \in Sockets : viewerSockets'[t] = IF t = s THEN None ELSE viewerSockets[t]
    BY <2>1 DEF Disconnect, TypeOK
  <2>4. ClearPendingRequests(PendingOf(s))
    BY <2>1 DEF Disconnect
  <2>5. \A r \in Requests : r \in PendingOf(s) <=> pendingRequests[r] = r /\ Client(r) = s
    BY <1>1, <2>1, NoneIsNone DEF EntryInv, Linked, PendingOf
  <2>6. \A r \in Requests : pendingRequests'[r] =
            IF pendingRequests[r] # None /\ Client(pendingRequests[r]) = s
            THEN None ELSE pendingRequests[r]
    BY <1>1, <2>4, <2>5, NoneIsNone DEF ClearPendingRequests, EntryInv, EntryIsOwn
  <2>7. ASSUME NEW t \in Sockets
        PROVE  pendingBySocket'[t] = IF t = s THEN None ELSE pendingBySocket[t]
    <3>1. pendingBySocket'[t] =
              IF \E r \in Requests : pendingRequests[r] = r /\ Client(r) = s /\ Client(r) = t
              THEN None ELSE pendingBySocket[t]
      BY <1>1, <2>1, <2>4, <2>5, NoneIsNone
         DEF ClearPendingRequests, EntryInv, EntryIsOwn, PendingOf, TypeOK
    <3>2. pendingBySocket[s] # None =>
              \E r \in Requests : pendingRequests[r] = r /\ Client(r) = s
      BY <1>1, <2>1 DEF EntryInv, Linked, TypeOK
    <3> QED
      BY <3>1, <3>2
  <2> QED
    BY <2>2, <2>3, <2>6, <2>7
<1>2. EntryInv /\ HostInv /\ [Next]_vars =>
         [\A s \in Sockets : sock[s] # "closed" /\ sock'[s] = "closed" =>
            /\ \A a \in Agents :
                  hostSockets'[a] = IF hostSockets[a] = s THEN None ELSE hostSockets[a]
            /\ \A r \in Requests : pendingRequests'[r] =
                  IF pendingRequests[r] # None /\ Client(pendingRequests[r]) = s
                  THEN None ELSE pendingRequests[r]
            /\ \A t \in Sockets :
                  pendingBySocket'[t] = IF t = s THEN None ELSE pendingBySocket[t]
            /\ \A t \in Sockets :
                  viewerSockets'[t] = IF t = s THEN None ELSE viewerSockets[t]]_vars
  BY <1>1
<1>3. Spec => [](EntryInv /\ HostInv)
  BY EntryAlways, HostAlways, PTL
<1> QED
  BY <1>2, <1>3, PTL DEF Spec, CleanupIsExact

-----------------------------------------------------------------------------
(* Admission *)

\* The link of a socket is to a request of its own.
LinkIsOwn == \A s \in Sockets, r \in Requests : pendingBySocket[s] = r => Client(r) = s

AdmissionInv == PendingInv /\ OneSocketPerViewer /\ EntryIsOwn /\ LinkIsOwn

LEMMA AdmissionInit == Init => AdmissionInv
BY PendingInit, NoneIsNone
   DEF Init, AdmissionInv, OneSocketPerViewer, EntryIsOwn, LinkIsOwn

LEMMA AdmissionNext ==
    ASSUME ~SameMillisecond, AdmissionInv, [Next]_vars
    PROVE  AdmissionInv'
<1>1. PendingInv' /\ OneSocketPerViewer' /\ PendingStep /\ TypeOK
  BY PendingNext, OneSocketNext, NextPendingStep DEF AdmissionInv, PendingInv
<1> USE NoneIsNone, DtoFields DEF EntryIsOwn, LinkIsOwn
<1>2. CASE KeepsAsked
  BY <1>1, <1>2 DEF AdmissionInv, KeepsAsked, pendingVars, Client
<1>3. ASSUME NEW R \in SUBSET Requests, ClearsAsked(R)
      PROVE  EntryIsOwn' /\ LinkIsOwn'
  BY <1>3 DEF AdmissionInv, ClearsAsked, ClearPendingRequests, Client
<1>4. ASSUME NEW r \in Requests, NEW q \in Requests, AddsAsked(r, q)
      PROVE  EntryIsOwn' /\ LinkIsOwn'
  BY <1>1, <1>4 DEF AdmissionInv, AddsAsked, SetPendingRequest, TypeOK, Client
<1> QED
  BY <1>1, <1>2, <1>3, <1>4 DEF PendingStep, AdmissionInv

\* A seat is the socket registered for it.
LEMMA SeatIsSocket ==
    ASSUME TypeOK, OneSocketPerViewer, NEW meta \in ViewerMeta
    PROVE  /\ \A s \in Sockets : Seat[meta] = s <=> viewerSockets[s] = meta
           /\ Seat[meta] \in Sockets \cup {None}
<1>1. CASE \E s \in Sockets : viewerSockets[s] = meta
  <2>1. Seat[meta] = CHOOSE s \in Sockets : viewerSockets[s] = meta
    BY <1>1 DEF Seat
  <2>2. Seat[meta] \in Sockets /\ viewerSockets[Seat[meta]] = meta
    BY <1>1, <2>1
  <2> QED
    BY <2>2, NoneIsNone DEF OneSocketPerViewer
<1>2. CASE \A s \in Sockets : viewerSockets[s] # meta
  BY <1>2, NoneIsNone DEF Seat
<1> QED
  BY <1>1, <1>2

LEMMA SeatIsSocketAfter ==
    ASSUME TypeOK', OneSocketPerViewer', NEW meta \in ViewerMeta
    PROVE  /\ \A s \in Sockets : Seat'[meta] = s <=> viewerSockets'[s] = meta
           /\ Seat'[meta] \in Sockets \cup {None}
<1>1. CASE \E s \in Sockets : viewerSockets'[s] = meta
  <2>1. Seat'[meta] = CHOOSE s \in Sockets : viewerSockets'[s] = meta
    BY <1>1 DEF Seat
  <2>2. Seat'[meta] \in Sockets /\ viewerSockets'[Seat'[meta]] = meta
    BY <1>1, <2>1
  <2> QED
    BY <2>2, NoneIsNone DEF OneSocketPerViewer
<1>2. CASE \A s \in Sockets : viewerSockets'[s] # meta
  BY <1>2, NoneIsNone DEF Seat
<1> QED
  BY <1>1, <1>2

\* What is pending in the name of a socket was asked by it and is undecided.
LEMMA PendingIsOpen ==
    ASSUME AdmissionInv, NEW s \in Sockets, NEW r \in PendingOf(s), NEW p \in Requests,
           pendingRequests[r] = p
    PROVE  p = r /\ Client(p) = s /\ stage[p] = "asked" /\ p \in Abstract!Open(s)
<1>1. r \in Requests /\ pendingBySocket[s] = r
  BY DEF AdmissionInv, PendingInv, TypeOK, PendingOf
<1>2. p = r /\ Client(p) = s /\ stage[p] = "asked"
  BY <1>1, NoneIsNone DEF AdmissionInv, EntryIsOwn, LinkIsOwn, PendingInv, PendingIsAsked
<1> QED
  BY <1>2 DEF Abstract!Open, Verdict

\* A step that changes no verdict and no seat.
LEMMA AdmissionStutters ==
    ASSUME \A p \in Requests : Verdict'[p] = Verdict[p], UNCHANGED viewerSockets
    PROVE  UNCHANGED <<Verdict, Seat>>
<1>1. UNCHANGED Verdict
  BY DEF Verdict
<1> QED
  BY <1>1 DEF Seat

LEMMA AdmissionRefuses ==
    ASSUME AdmissionInv, NEW q \in Requests, Verdict[q] = "none",
           stage' = [stage EXCEPT ![q] = "refused"], UNCHANGED viewerSockets
    PROVE  Abstract!Next
<1>1. Verdict' = [Verdict EXCEPT ![q] = "refused"]
  BY DEF Verdict, AdmissionInv, PendingInv, TypeOK
<1>2. UNCHANGED Seat
  BY DEF Seat
<1> QED
  BY <1>1, <1>2 DEF Abstract!Next, Abstract!Refuse

LEMMA AdmissionGrants ==
    ASSUME AdmissionInv, NEW q \in Requests, Verdict[q] = "none", Dto[q].type # "viewer",
           stage' = [stage EXCEPT ![q] = "granted"], UNCHANGED viewerSockets
    PROVE  Abstract!Next
<1>1. Verdict' = [Verdict EXCEPT ![q] = "granted"]
  BY DEF Verdict, AdmissionInv, PendingInv, TypeOK
<1>2. UNCHANGED Seat
  BY DEF Seat
<1>3. AsksForSeat[q] = None
  BY DEF AsksForSeat
<1> QED
  BY <1>1, <1>2, <1>3 DEF Abstract!Next, Abstract!Grant

\* registerViewerSocket: the requests that closeEvictedSockets drops are those
\* of the socket that had the seat.
LEMMA AdmissionAdmits ==
    ASSUME AdmissionInv, NEW q \in Requests, Dto[q].type = "viewer",
           stage[q] \in {"isWhitelisted", "addToWhitelist"}, RegisterViewer(q),
           AdmissionInv'
    PROVE  Abstract!Next
<1> DEFINE meta == Meta(q)
           R == UNION {PendingOf(s) : s \in Evicted(Client(q), meta)}
           D == {p \in Requests : \E r \in R : pendingRequests[r] = p}
<1>1. TypeOK /\ meta \in ViewerMeta /\ Client(q) \in Sockets /\ AsksForSeat[q] = meta
  BY DtoFields DEF AdmissionInv, PendingInv, AsksForSeat
<1>2. Verdict[q] = "none"
  BY DEF Verdict
<1>3. stage' = [DropStages(R) EXCEPT ![q] = "granted"]
  BY DEF RegisterViewer
<1>4. \A s \in Sockets : viewerSockets'[s] =
          IF s = Client(q) THEN meta
          ELSE IF viewerSockets[s] = meta THEN None ELSE viewerSockets[s]
  BY DEF RegisterViewer, Evicted
<1>5. TypeOK' /\ OneSocketPerViewer'
  BY DEF AdmissionInv, PendingInv
<1>6. \A x \in ViewerMeta, s \in Sockets :
          Seat'[x] = s <=> viewerSockets'[s] = x
  BY <1>5, SeatIsSocketAfter
<1>7. \A x \in ViewerMeta, s \in Sockets : Seat[x] = s <=> viewerSockets[s] = x
  BY <1>1, SeatIsSocket DEF AdmissionInv
<1>8. \A x \in ViewerMeta : Seat[x] \in Sockets \cup {None} /\ Seat'[x] \in Sockets \cup {None}
  BY <1>1, <1>5, SeatIsSocket, SeatIsSocketAfter DEF AdmissionInv
<1>9. \A x \in ViewerMeta : Seat'[x] =
          IF x = meta THEN Client(q) ELSE IF Seat[x] = Client(q) THEN None ELSE Seat[x]
  BY <1>1, <1>4, <1>6, <1>7, <1>8, NoneIsNone
<1>10. Seat' = Abstract!Seated(q)
  BY <1>1, <1>9 DEF Abstract!Seated, Seat
<1>11. ASSUME NEW p \in D
       PROVE  p \in Abstract!Open(Seat[meta]) \ {q} /\ stage[p] = "asked"
  <2>1. PICK s \in Sockets : /\ s # Client(q) /\ viewerSockets[s] = meta
                            /\ \E r \in PendingOf(s) : pendingRequests[r] = p
    BY <1>11 DEF Evicted
  <2>2. stage[p] = "asked" /\ p \in Abstract!Open(s)
    BY <2>1, <1>11, PendingIsOpen
  <2>3. Seat[meta] = s
    BY <2>1, <1>1, <1>7
  <2> QED
    BY <2>2, <2>3
<1>12. Verdict' = [p \in Requests |->
           IF p = q THEN "granted" ELSE IF p \in D THEN "dropped" ELSE Verdict[p]]
  <2> HIDE DEF R
  <2>1. \A p \in Requests : stage'[p] =
            IF p = q THEN "granted" ELSE IF p \in D THEN "dropped" ELSE stage[p]
    BY <1>1, <1>3 DEF DropStages, TypeOK
  <2> HIDE DEF D
  <2> QED
    BY <2>1 DEF Verdict
<1>13. D \in SUBSET (Abstract!Open(Seat[meta]) \ {q})
  BY <1>11
<1> HIDE DEF D
<1>14. Abstract!Admit(q)
  BY <1>1, <1>2, <1>10, <1>12, <1>13, NoneIsNone DEF Abstract!Admit
<1> QED
  BY <1>14 DEF Abstract!Next

\* A socket that gives up its registration leaves its seat, and what it still
\* had pending is dropped.
LEMMA AdmissionLeaves ==
    ASSUME AdmissionInv, AdmissionInv', NEW s \in Sockets, NEW D \in SUBSET Requests,
           viewerSockets' = [viewerSockets EXCEPT ![s] = None],
           \A p \in D : p \in Abstract!Open(s),
           \A p \in Requests : stage'[p] = IF p \in D THEN "dropped" ELSE stage[p]
    PROVE  Abstract!Next
<1>1. TypeOK /\ OneSocketPerViewer /\ TypeOK' /\ OneSocketPerViewer'
  BY DEF AdmissionInv, PendingInv
<1>2. \A x \in ViewerMeta, t \in Sockets :
          /\ Seat[x] = t <=> viewerSockets[t] = x
          /\ Seat'[x] = t <=> viewerSockets'[t] = x
  BY <1>1, SeatIsSocket, SeatIsSocketAfter
<1>3. \A x \in ViewerMeta : Seat[x] \in Sockets \cup {None} /\ Seat'[x] \in Sockets \cup {None}
  BY <1>1, SeatIsSocket, SeatIsSocketAfter
<1>4. \A x \in ViewerMeta : Seat'[x] = IF Seat[x] = s THEN None ELSE Seat[x]
  BY <1>1, <1>2, <1>3, NoneIsNone DEF TypeOK
<1>5. Seat' = [x \in ViewerMeta |-> IF Seat[x] = s THEN None ELSE Seat[x]]
  BY <1>4 DEF Seat
<1>6. Verdict' = [p \in Requests |-> IF p \in D THEN "dropped" ELSE Verdict[p]]
  BY DEF Verdict
<1>7. D \in SUBSET Abstract!Open(s)
  OBVIOUS
<1>8. Abstract!Leave(s)
  BY <1>5, <1>6, <1>7 DEF Abstract!Leave
<1> QED
  BY <1>8 DEF Abstract!Next

\* Every step of the gateway is a step of Admission, or leaves verdicts and
\* seats alone.
LEMMA AdmissionSteps ==
    ASSUME AdmissionInv, AdmissionInv', [Next]_vars
    PROVE  Abstract!Next \/ UNCHANGED <<Verdict, Seat>>
<1>1. TypeOK /\ PendingIsAsked
  BY DEF AdmissionInv, PendingInv
<1>2. ASSUME NEW p \in Requests, NEW v \in Stages \ (Decided \cup {"dropped"}),
             stage[p] \notin Decided \cup {"dropped"},
             stage' = [stage EXCEPT ![p] = v], UNCHANGED viewerSockets
      PROVE  UNCHANGED <<Verdict, Seat>>
  BY <1>1, <1>2, AdmissionStutters DEF Verdict, TypeOK, Decided
<1>3. ASSUME NEW s \in Sockets, NEW a \in Agents,
             \/ Subscribe(s, a) \/ Unsubscribe(s)
             \/ \E p \in Passwords : HostJoin(s, a, p)
      PROVE  UNCHANGED <<Verdict, Seat>>
  BY <1>3, AdmissionStutters DEF Verdict, Subscribe, Unsubscribe, HostJoin
<1>4. ASSUME NEW s \in Sockets, Unsubscribe(s)
      PROVE  UNCHANGED <<Verdict, Seat>>
  BY <1>4, AdmissionStutters DEF Verdict, Unsubscribe
<1>5. ASSUME NEW q \in Requests, AccessRequest(q) \/ \E p \in Passwords : ViewerRequest(q, p)
      PROVE  Abstract!Next \/ UNCHANGED <<Verdict, Seat>>
  <2>1. /\ stage[q] = "unsent" /\ UNCHANGED viewerSockets
        /\ \/ stage' = [stage EXCEPT ![q] = "refused"]
           \/ stage' = [stage EXCEPT ![q] = "isBlacklisted"]
    BY <1>5 DEF AccessRequest, ViewerRequest
  <2>2. Verdict[q] = "none"
    BY <2>1 DEF Verdict
  <2> QED
    BY <2>1, <2>2, <1>2, AdmissionRefuses DEF Stages, Awaiting, Decided
<1>6. ASSUME NEW q \in Requests, DatabaseReply(q)
      PROVE  Abstract!Next \/ UNCHANGED <<Verdict, Seat>>
  <2>1. /\ stage[q] \in Awaiting
        /\ Verdict[q] = "none"
    BY <1>6 DEF DatabaseReply, BlacklistReply, AdmitWhitelistedViewer, GrantWhitelistedDevice,
                AskHostForViewer, AskHostForDevice, GrantReply, DenyReply, Awaiting, Verdict
  <2>2. CASE AdmitWhitelistedViewer(q)
    BY <2>2, AdmissionAdmits DEF AdmitWhitelistedViewer
  <2>3. CASE GrantReply(q) /\ Dto[q].type = "viewer" /\ hostSockets[Agent(q)] # None
    BY <2>3, AdmissionAdmits DEF GrantReply
  <2>4. CASE GrantReply(q) /\ ~(Dto[q].type = "viewer" /\ hostSockets[Agent(q)] # None)
    BY <2>1, <2>4, AdmissionRefuses, AdmissionGrants DEF GrantReply
  <2>5. CASE GrantWhitelistedDevice(q)
    BY <2>1, <2>5, AdmissionGrants DEF GrantWhitelistedDevice
  <2>6. CASE AskHostForViewer(q)
    BY <2>1, <2>6, <1>2 DEF AskHostForViewer, Stages, Decided, Awaiting
  <2>7. CASE AskHostForDevice(q)
    BY <2>1, <2>7, <1>2, AdmissionRefuses DEF AskHostForDevice, Stages, Decided, Awaiting
  <2>8. CASE \E b \in BOOLEAN : BlacklistReply(q, b)
    <3>1. /\ UNCHANGED viewerSockets
          /\ \/ stage' = [stage EXCEPT ![q] = "refused"]
             \/ stage' = [stage EXCEPT ![q] = "isWhitelisted"]
      BY <2>8 DEF BlacklistReply
    <3> QED
      BY <2>1, <3>1, <1>2, AdmissionRefuses DEF Stages, Decided, Awaiting
  <2>9. CASE DenyReply(q)
    BY <2>1, <2>9, AdmissionRefuses DEF DenyReply
  <2> QED
    BY <1>6, <2>2, <2>3, <2>4, <2>5, <2>6, <2>7, <2>8, <2>9 DEF DatabaseReply
<1>7. ASSUME NEW r \in Requests,
             \/ AccessGrant(r)
             \/ \E b \in BOOLEAN : AccessDeny(r, b)
             \/ ApprovalTimeout(r)
      PROVE  Abstract!Next \/ UNCHANGED <<Verdict, Seat>>
  <2> DEFINE p == pendingRequests[r]
  <2>1. p \in Requests /\ stage[p] = "asked"
    BY <1>1, <1>7 DEF AccessGrant, AccessDeny, ApprovalTimeout, TypeOK, PendingIsAsked
  <2>2. Verdict[p] = "none"
    BY <2>1 DEF Verdict
  <2>3. /\ UNCHANGED viewerSockets
        /\ \/ stage' = [stage EXCEPT ![p] = "addToWhitelist"]
           \/ stage' = [stage EXCEPT ![p] = "addToBlacklist"]
           \/ stage' = [stage EXCEPT ![p] = "refused"]
    BY <1>7 DEF AccessGrant, AccessDeny, ApprovalTimeout
  <2> HIDE DEF p
  <2> QED
    BY <2>1, <2>2, <2>3, <1>2, AdmissionRefuses DEF Stages, Decided, Awaiting
<1>8. ASSUME NEW s \in Sockets, KickViewer(s)
      PROVE  Abstract!Next
  BY <1>8, AdmissionLeaves, {} \in SUBSET Requests DEF KickViewer
<1>9. ASSUME NEW s \in Sockets, Disconnect(s)
      PROVE  Abstract!Next
  <2> DEFINE D == {p \in Requests : \E r \in PendingOf(s) : pendingRequests[r] = p}
  <2>1. \A p \in D : p \in Abstract!Open(s)
    BY PendingIsOpen
  <2>2. \A p \in Requests : stage'[p] = IF p \in D THEN "dropped" ELSE stage[p]
    BY <1>9 DEF Disconnect, DropStages
  <2>3. viewerSockets' = [viewerSockets EXCEPT ![s] = None]
    BY <1>9 DEF Disconnect
  <2>4. D \in SUBSET Requests
    OBVIOUS
  <2> HIDE DEF D
  <2> QED
    BY <2>1, <2>2, <2>3, <2>4, AdmissionLeaves
<1>10. CASE UNCHANGED vars
  BY <1>10 DEF vars, Verdict, Seat
<1> QED
  BY <1>3, <1>4, <1>5, <1>6, <1>7, <1>8, <1>9, <1>10 DEF Next

\* The gateway, its awaits, timers, evictions and close events included, does
\* to whoever looks at verdicts and seats only what Admission allows: a request
\* is decided once, a seat goes to the request granted last and is lost by
\* leaving or to a newer grant.  Two requests with the same id would break it.
THEOREM GatewayImplementsAdmission ==
    ASSUME ~SameMillisecond
    PROVE  Spec => ImplementsAdmission
<1>1. Init => Abstract!Init
  BY NoneIsNone DEF Init, Abstract!Init, Verdict, Seat
<1>2. AdmissionInv /\ [Next]_vars => AdmissionInv'
  BY AdmissionNext
<1>3. AdmissionInv /\ AdmissionInv' /\ [Next]_vars => [Abstract!Next]_<<Verdict, Seat>>
  BY AdmissionSteps
<1> QED
  BY <1>1, <1>2, <1>3, AdmissionInit, PTL DEF Spec, ImplementsAdmission, Abstract!Spec
=============================================================================
