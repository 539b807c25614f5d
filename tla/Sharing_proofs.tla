--------------------------- MODULE Sharing_proofs ---------------------------
(***************************************************************************)
(* Proofs about a host, the gateway between and the page of one viewer,    *)
(* for any number of attempts, of calls and of messages on the way.        *)
(***************************************************************************)
EXTENDS Sharing, SequenceTheorems, TLAPS

-----------------------------------------------------------------------------
(* Types                                                                     *)

LEMMA KindIsMessage ==
    /\ \A k \in ViewerKinds \cup HostKinds : Kind(k) \in Messages
    /\ \A a \in Attempts \cup {None}, c \in Calls \cup {None} :
          /\ [kind |-> "ANSWER", attempt |-> a, call |-> c] \in Messages
          /\ [kind |-> "OFFER", attempt |-> a, call |-> c] \in Messages
          /\ [kind |-> "ICE", attempt |-> a, call |-> c] \in Messages
<1>1. \A k \in ViewerKinds \cup HostKinds : Kind(k) \in Messages
  BY DEF Kind, Messages
<1>2. {"ANSWER", "OFFER", "ICE"} \subseteq ViewerKinds \cup HostKinds
  BY DEF ViewerKinds, HostKinds
<1> QED
  BY <1>1, <1>2 DEF Messages

\* What is sent is sent to one receiver, at the end of its queue.
LEMMA SendTypes ==
    ASSUME RelayTypeOK, NEW m \in Messages
    PROVE  /\ SendHost(m) \in Seq(Messages)
           /\ \A a \in Attempts \cup {None} : Send(a, m) \in [Attempts -> Seq(Messages)]
<1>1. \A q \in Seq(Messages) : Append(q, m) \in Seq(Messages)
  BY AppendProperties
<1>2. toHost \in Seq(Messages) /\ toViewer \in [Attempts -> Seq(Messages)]
  BY DEF RelayTypeOK
<1>3. SendHost(m) \in Seq(Messages)
  BY <1>1, <1>2 DEF SendHost
<1>4. ASSUME NEW a \in Attempts \cup {None}
      PROVE  Send(a, m) \in [Attempts -> Seq(Messages)]
  <2>1. CASE a # None /\ sock[a] = "open"
    <3>1. a \in Attempts /\ Append(toViewer[a], m) \in Seq(Messages)
      BY <1>1, <1>2, <2>1
    <3> QED
      BY <1>2, <2>1, <3>1 DEF Send
  <2>2. CASE ~(a # None /\ sock[a] = "open")
    BY <1>2, <2>2 DEF Send
  <2> QED
    BY <2>1, <2>2
<1> QED
  BY <1>3, <1>4

LEMMA TypeInit == Init => TypeOK
<1> SUFFICES ASSUME Init PROVE TypeOK
  OBVIOUS
<1>1. <<>> \in Seq(Messages)
  OBVIOUS
<1>2. RelayTypeOK
  BY <1>1 DEF Init, RelayInit, RelayTypeOK
<1>3. ViewerTypeOK
  BY DEF Init, ViewerInit, ViewerTypeOK
<1>4. HostTypeOK
  BY DEF Init, HostInit, HostTypeOK
<1> QED
  BY <1>2, <1>3, <1>4 DEF TypeOK

LEMMA GatewayTypes ==
    ASSUME RelayTypeOK, NEW a \in Attempts, GatewayStep(a)
    PROVE  RelayTypeOK'
<1>1. /\ sock \in [Attempts -> {"none", "connecting", "open", "severed", "closing", "closed"}]
      /\ request \in [Attempts -> {"none", "sent", "pending", "over"}]
      /\ seat \in Attempts \cup {None} /\ hostUp \in BOOLEAN
      /\ toViewer \in [Attempts -> Seq(Messages)] /\ toHost \in Seq(Messages)
      /\ trouble \in {"none", "unserved", "unheard"}
  BY DEF RelayTypeOK
<1>2. \A k \in {"PENDING", "APPROVED", "REJECTED"} : Send(a, Kind(k)) \in [Attempts -> Seq(Messages)]
  BY KindIsMessage, SendTypes DEF ViewerKinds
<1>3. \A k \in {"VIEWER_JOINED", "VIEWER_LEFT"} : SendHost(Kind(k)) \in Seq(Messages)
  BY KindIsMessage, SendTypes DEF HostKinds
<1>4. CASE Ask(a)
  BY <1>1, <1>2, <1>4 DEF Ask, RelayTypeOK
<1>5. CASE Admit(a)
  <2>1. sock' \in [Attempts -> {"none", "connecting", "open", "severed", "closing", "closed"}]
    BY <1>1, <1>5 DEF Admit
  <2>2. request' \in [Attempts -> {"none", "sent", "pending", "over"}]
    BY <1>1, <1>5 DEF Admit
  <2>3. toViewer' \in [Attempts -> Seq(Messages)] /\ toHost' \in Seq(Messages)
    BY <1>1, <1>2, <1>3, <1>5 DEF Admit
  <2> QED
    BY <1>1, <1>5, <2>1, <2>2, <2>3 DEF Admit, Troubled, RelayTypeOK
<1>6. CASE Refuse(a)
  BY <1>1, <1>2, <1>6 DEF Refuse, RelayTypeOK
<1>7. ASSUME CloseArrives(a) \/ LoseSocket(a)
      PROVE  RelayTypeOK'
  <2>1. /\ Forget(a) /\ hostUp' = hostUp /\ toViewer' = toViewer /\ trouble' = trouble
        /\ \/ sock' = [sock EXCEPT ![a] = "closed"]
           \/ sock' = [sock EXCEPT ![a] = "severed"]
    BY <1>7 DEF CloseArrives, LoseSocket
  <2>2. sock' \in [Attempts -> {"none", "connecting", "open", "severed", "closing", "closed"}]
    BY <1>1, <2>1
  <2>3. request' \in [Attempts -> {"none", "sent", "pending", "over"}]
    BY <1>1, <2>1 DEF Forget
  <2>4. seat' \in Attempts \cup {None} /\ toHost' \in Seq(Messages)
    BY <1>1, <1>3, <2>1 DEF Forget
  <2> QED
    BY <1>1, <2>1, <2>2, <2>3, <2>4 DEF RelayTypeOK
<1> QED
  BY <1>4, <1>5, <1>6, <1>7 DEF GatewayStep

SockOK == sock \in [Attempts -> {"none", "connecting", "open", "severed", "closing", "closed"}]
PageOK == ViewerTypeOK /\ SockOK /\ toViewer \in [Attempts -> Seq(Messages)]

Sockets == [Attempts -> {"none", "connecting", "open", "severed", "closing", "closed"}]
Queues == [Attempts -> Seq(Messages)]

\* What is closed and forgotten keeps its types.
LEMMA CleanupTypes ==
    ASSUME PageOK, NEW socks \in Sockets, NEW queues \in Queues, Cleanup(socks, queues)
    PROVE  /\ SockOK' /\ toViewer' \in [Attempts -> Seq(Messages)]
           /\ refs' = None /\ timer' = None
           /\ pc' \in [Attempts -> {"none", "new", "answering", "answered", "connected", "closed"}]
           /\ remote' \in [Attempts -> Calls \cup {None}]
<1>1. <<>> \in Seq(Messages)
  OBVIOUS
<1>2. SockOK'
  BY DEF Sockets, SockOK, Cleanup, CloseSocket
<1>3. toViewer' \in [Attempts -> Seq(Messages)]
  BY <1>1 DEF Queues, Cleanup, CloseSocket
<1> QED
  BY <1>2, <1>3 DEF PageOK, ViewerTypeOK, Cleanup

LEMMA EndTypes ==
    ASSUME PageOK, NEW socks \in Sockets, NEW queues \in Queues,
           NEW next \in {"disconnected", "rejected"}, End(next, socks, queues), stage' = stage
    PROVE  PageOK'
BY CleanupTypes DEF End, PageOK, ViewerTypeOK

\* A message that was on the way is one.
LEMMA HeadOfQueue ==
    ASSUME NEW q \in Seq(Messages), q # <<>>
    PROVE  /\ Head(q) \in Messages /\ Head(q) = q[1]
           /\ Head(q).attempt \in Attempts \cup {None} /\ Head(q).call \in Calls \cup {None}
           /\ Tail(q) \in Seq(Messages) /\ Len(q) \in Nat \ {0} /\ Len(Tail(q)) = Len(q) - 1
           /\ \A i \in 1..(Len(q) - 1) : Tail(q)[i] = q[i + 1]
<1>1. /\ Head(q) \in Messages /\ Tail(q) \in Seq(Messages)
      /\ Len(q) \in Nat \ {0} /\ Len(Tail(q)) = Len(q) - 1
      /\ \A i \in 1..(Len(q) - 1) : Tail(q)[i] = q[i + 1]
  BY HeadTailProperties, EmptySeq, LenProperties
<1>2. Head(q) = q[1]
  BY <1>1
<1> QED
  BY <1>1, <1>2 DEF Messages

LEMMA TakenTypes ==
    ASSUME PageOK, NEW a \in Attempts, toViewer[a] # <<>>
    PROVE  Rest(a) \in Queues /\ (Taken(a) => SockOK' /\ toViewer' \in [Attempts -> Seq(Messages)])
<1>1. Tail(toViewer[a]) \in Seq(Messages)
  BY HeadOfQueue DEF PageOK
<1> QED
  BY <1>1 DEF PageOK, SockOK, Rest, Queues, Taken

\* The handlers and timers of the page.
LEMMA PageTypes ==
    ASSUME TypeOK, NEW a \in Attempts, PageStep(a) \/ Media(a)
    PROVE  PageOK' /\ RelayTypeOK'
<1>0. PageOK /\ RelayTypeOK /\ sock \in Sockets /\ toViewer \in Queues
  BY DEF TypeOK, PageOK, RelayTypeOK, SockOK, Sockets, Queues
<1> DEFINE Kept == UNCHANGED <<request, seat, hostUp, toHost, trouble>>
<1>1. ASSUME PageOK', Kept
      PROVE  PageOK' /\ RelayTypeOK'
  BY <1>0, <1>1 DEF RelayTypeOK, PageOK, SockOK
<1> HIDE DEF Kept
<1>2. ASSUME NEW rerun \in BOOLEAN, Connect(a, rerun)
      PROVE  PageOK' /\ Kept
  BY <1>0, <1>2, CleanupTypes DEF Connect, PageOK, ViewerTypeOK, others, Kept
<1>3. CASE PeerCreated(a)
  BY <1>0, <1>1, <1>3 DEF PeerCreated, PageOK, SockOK, ViewerTypeOK, others, Kept
<1>4. CASE PeerFails(a)
  <2>1. CASE attempt = a
    BY <1>0, <1>1, <1>4, <2>1, CleanupTypes DEF PeerFails, End, PageOK, ViewerTypeOK, others, Kept
  <2>2. CASE attempt # a
    BY <1>0, <1>1, <1>4, <2>2 DEF PeerFails, Ignored, PageOK, SockOK, ViewerTypeOK, others, Kept
  <2> QED
    BY <2>1, <2>2
<1>5. CASE SocketOpens(a)
  <2>1. request' \in [Attempts -> {"none", "sent", "pending", "over"}]
    BY <1>0, <1>5 DEF SocketOpens, RelayTypeOK
  <2>2. SockOK'
    BY <1>0, <1>5 DEF SocketOpens, PageOK, SockOK
  <2> QED
    BY <1>0, <1>5, <2>1, <2>2
       DEF SocketOpens, PageOK, SockOK, RelayTypeOK, ViewerTypeOK, viewerVars
<1>6. CASE SocketFails(a)
  <2>0. [sock EXCEPT ![a] = "closed"] \in Sockets
    BY <1>0 DEF Sockets
  <2>1. CASE attempt = a
    BY <1>0, <1>1, <1>6, <2>0, <2>1, EndTypes DEF SocketFails, End, others, Kept
  <2>2. CASE attempt # a
    BY <1>0, <1>1, <1>6, <2>0, <2>2 DEF SocketFails, Sockets, Ignored, PageOK, SockOK, ViewerTypeOK, others, Kept
  <2> QED
    BY <2>1, <2>2
<1>7. CASE SocketCloses(a)
  BY <1>0, <1>1, <1>7 DEF SocketCloses, Ignored, PageOK, SockOK, ViewerTypeOK, others, Kept
<1>8. CASE OnProgress(a) \/ OnHostDisconnected(a)
  <2>1. SockOK' /\ toViewer' \in [Attempts -> Seq(Messages)]
    BY <1>0, <1>8, TakenTypes DEF OnProgress, OnHostDisconnected, Received
  <2> QED
    BY <1>0, <1>1, <1>8, <2>1
       DEF OnProgress, OnHostDisconnected, Received, Ignored, PageOK, ViewerTypeOK, others, Kept
<1>9. CASE OnEnd(a)
  <2>1. CASE attempt = a
    BY <1>0, <1>1, <1>9, <2>1, TakenTypes, EndTypes DEF OnEnd, Received, End, others, Kept
  <2>2. CASE attempt # a
    BY <1>0, <1>1, <1>9, <2>2, TakenTypes
       DEF OnEnd, Received, Ignored, PageOK, ViewerTypeOK, others, Kept
  <2> QED
    BY <2>1, <2>2
<1>10. CASE OnOffer(a)
  <2>1. Head(toViewer[a]).call \in Calls \cup {None}
    BY <1>0, <1>10, HeadOfQueue DEF OnOffer, Received, PageOK
  <2>2. CASE attempt = a /\ pc[a] # "new" /\ End("disconnected", sock, Rest(a))
    BY <1>0, <1>1, <1>10, <2>2, TakenTypes, EndTypes DEF OnOffer, Received, End, others, Kept
  <2>3. CASE attempt # a /\ Taken(a) /\ Ignored
    BY <1>0, <1>1, <1>10, <2>3, TakenTypes
       DEF OnOffer, Received, Ignored, PageOK, ViewerTypeOK, others, Kept
  <2>4. CASE /\ attempt = a /\ Taken(a)
             /\ pc' = [pc EXCEPT ![a] = "answering"]
             /\ remote' = [remote EXCEPT ![a] = Head(toViewer[a]).call]
             /\ UNCHANGED <<state, attempt, refs, timer, strayed, others>>
    BY <1>0, <1>1, <1>10, <2>1, <2>4, TakenTypes
       DEF OnOffer, Received, PageOK, ViewerTypeOK, others, Kept
  <2> QED
    BY <1>10, <2>2, <2>3, <2>4 DEF OnOffer
<1>11. CASE AnswerReady(a)
  <2>1. [kind |-> "ANSWER", attempt |-> a, call |-> remote[a]] \in Messages
    BY <1>0, KindIsMessage DEF PageOK, ViewerTypeOK
  <2>2. toHost' \in Seq(Messages)
    BY <1>0, <1>11, <2>1, SendTypes DEF AnswerReady, RelayAnswer, RelayTypeOK
  <2> QED
    BY <1>0, <1>11, <2>2 DEF AnswerReady, PageOK, SockOK, ViewerTypeOK, RelayTypeOK
<1>12. CASE OnIce(a)
  <2>1. CASE attempt = a /\ remote[a] = None
    BY <1>0, <1>1, <1>12, <2>1, TakenTypes, EndTypes DEF OnIce, Received, End, others, Kept
  <2>2. CASE ~(attempt = a /\ remote[a] = None)
    BY <1>0, <1>1, <1>12, <2>2, TakenTypes
       DEF OnIce, Received, Ignored, PageOK, ViewerTypeOK, others, Kept
  <2> QED
    BY <2>1, <2>2
<1>13. CASE Media(a)
  BY <1>0, <1>1, <1>13 DEF Media, MediaChanges, PageOK, SockOK, ViewerTypeOK, relayVars, Kept
<1> QED
  BY <1>1, <1>2, <1>3, <1>4, <1>5, <1>6, <1>7, <1>8, <1>9, <1>10, <1>11, <1>12, <1>13
     DEF PageStep, Create

LEMMA StopTypes ==
    ASSUME TypeOK, Timeout \/ \E next \in {"idle", "left"} : Stop(next)
    PROVE  PageOK' /\ RelayTypeOK'
<1>1. PageOK /\ RelayTypeOK /\ sock \in Sockets /\ toViewer \in Queues
  BY DEF TypeOK, PageOK, RelayTypeOK, SockOK, Sockets, Queues
<1>2. CASE Timeout /\ attempt = timer
  BY <1>1, <1>2, EndTypes DEF Timeout, End, others, PageOK, SockOK, RelayTypeOK
<1>3. CASE Timeout /\ attempt # timer
  BY <1>1, <1>3 DEF Timeout, others, PageOK, SockOK, RelayTypeOK, ViewerTypeOK
<1>4. ASSUME NEW next \in {"idle", "left"}, Stop(next)
      PROVE  PageOK' /\ RelayTypeOK'
  BY <1>1, <1>4, CleanupTypes DEF Stop, others, PageOK, SockOK, RelayTypeOK, ViewerTypeOK
<1> QED
  BY <1>2, <1>3, <1>4

\* The handlers of the host.
LEMMA HostTypes ==
    ASSUME TypeOK, HostStep
    PROVE  HostTypeOK' /\ RelayTypeOK'
<1>0. HostTypeOK /\ RelayTypeOK /\ None \notin Calls
  BY RelayAssumption DEF TypeOK
<1>1. toHost # <<>> => /\ Tail(toHost) \in Seq(Messages)
                       /\ Head(toHost).attempt \in Attempts \cup {None}
  BY <1>0, HeadOfQueue DEF RelayTypeOK
<1>2. ASSUME ClosePeer
      PROVE  /\ hpc' \in [Calls -> {"none", "open", "closed"}]
             /\ answered' \in [Calls -> Attempts \cup {None, Foreign}]
  BY <1>0, <1>2 DEF ClosePeer, HostTypeOK
<1>3. CASE StartCapture
  BY <1>0, <1>3 DEF StartCapture, callVars, relayVars, HostTypeOK, RelayTypeOK
<1>4. CASE StopCapture
  BY <1>0, <1>2, <1>4 DEF StopCapture, ClearPeers, SettingUp, Troubled, HostTypeOK, RelayTypeOK
<1>5. ASSUME NEW c \in Calls, OnViewerJoined(c)
      PROVE  HostTypeOK' /\ RelayTypeOK'
  BY <1>0, <1>1, <1>5 DEF OnViewerJoined, Arrived, Troubled, HostTypeOK, RelayTypeOK
<1>6. ASSUME NEW c \in Calls, PeerMade(c)
      PROVE  HostTypeOK' /\ RelayTypeOK'
  BY <1>0, <1>6 DEF PeerMade, relayVars, HostTypeOK, RelayTypeOK
<1>7. ASSUME NEW c \in Calls, OfferMade(c)
      PROVE  HostTypeOK' /\ RelayTypeOK'
  <2>1. [kind |-> "OFFER", attempt |-> None, call |-> c] \in Messages
    BY KindIsMessage
  <2>2. toViewer' \in [Attempts -> Seq(Messages)]
    BY <1>0, <1>7, <2>1, SendTypes DEF OfferMade, RelayOffer, RelayTypeOK
  <2> QED
    BY <1>0, <1>7, <2>2 DEF OfferMade, HostTypeOK, RelayTypeOK
<1>8. ASSUME NEW c \in Calls, SendIce(c)
      PROVE  HostTypeOK' /\ RelayTypeOK'
  <2>1. [kind |-> "ICE", attempt |-> None, call |-> c] \in Messages
    BY KindIsMessage
  <2>2. toViewer' \in [Attempts -> Seq(Messages)]
    BY <1>0, <1>8, <2>1, SendTypes DEF SendIce, RelayIce, RelayTypeOK
  <2> QED
    BY <1>0, <1>8, <2>2 DEF SendIce, HostTypeOK, RelayTypeOK
<1>9. CASE OnAnswer
  <2>1. answered' \in [Calls -> Attempts \cup {None, Foreign}] /\ misled' \subseteq Calls
    BY <1>0, <1>1, <1>9 DEF OnAnswer, Accept, Arrived, HostTypeOK
  <2> QED
    BY <1>0, <1>1, <1>9, <2>1 DEF OnAnswer, Arrived, HostTypeOK, RelayTypeOK
<1>10. CASE OnViewerLeft
  BY <1>0, <1>1, <1>2, <1>10 DEF OnViewerLeft, Arrived, ClearPeers, SettingUp, HostTypeOK, RelayTypeOK
<1>11. CASE Kick
  <2>1. /\ Send(seat, Kind("KICKED")) \in [Attempts -> Seq(Messages)]
        /\ SendHost(Kind("VIEWER_LEFT")) \in Seq(Messages)
    BY <1>0, KindIsMessage, SendTypes DEF ViewerKinds, HostKinds, RelayTypeOK
  <2>2. sock' \in [Attempts -> {"none", "connecting", "open", "severed", "closing", "closed"}]
    BY <1>0, <1>11 DEF Kick, KickSeat, RelayTypeOK
  <2> QED
    BY <1>0, <1>11, <2>1, <2>2 DEF Kick, KickSeat, callVars, HostTypeOK, RelayTypeOK
<1>12. CASE KickDone
  BY <1>0, <1>2, <1>12 DEF KickDone, ClearPeers, SettingUp, Troubled, HostTypeOK, RelayTypeOK
<1>13. CASE HostLost
  <2>1. Send(seat, Kind("HOST_DISCONNECTED")) \in [Attempts -> Seq(Messages)]
    BY <1>0, KindIsMessage, SendTypes DEF ViewerKinds, RelayTypeOK
  <2>2. <<>> \in Seq(Messages)
    OBVIOUS
  <2> QED
    BY <1>0, <1>13, <2>1, <2>2 DEF HostLost, HostSocketLost, HostTypeOK, RelayTypeOK
<1>14. CASE HostReturns
  BY <1>0, <1>14 DEF HostReturns, hostVars, callVars, HostTypeOK, RelayTypeOK
<1> QED
  BY <1>3, <1>4, <1>5, <1>6, <1>7, <1>8, <1>9, <1>10, <1>11, <1>12, <1>13, <1>14 DEF HostStep

LEMMA TypeNext == TypeOK /\ [Next]_vars => TypeOK'
<1> SUFFICES ASSUME TypeOK, [Next]_vars PROVE TypeOK'
  OBVIOUS
<1>1. ASSUME NEW a \in Attempts, GatewayStep(a), UNCHANGED <<viewerVars, hostVars>>
      PROVE  TypeOK'
  BY <1>1, GatewayTypes DEF TypeOK, viewerVars, hostVars, callVars, ViewerTypeOK, HostTypeOK
<1>2. ASSUME NEW a \in Attempts, PageStep(a) \/ Media(a), UNCHANGED hostVars
      PROVE  TypeOK'
  BY <1>2, PageTypes DEF TypeOK, PageOK, hostVars, callVars, HostTypeOK
<1>3. CASE (Timeout \/ \E next \in {"idle", "left"} : Stop(next)) /\ UNCHANGED hostVars
  BY <1>3, StopTypes DEF TypeOK, PageOK, hostVars, callVars, HostTypeOK
<1>4. CASE HostStep /\ UNCHANGED viewerVars
  BY <1>4, HostTypes DEF TypeOK, viewerVars, ViewerTypeOK
<1>5. CASE UNCHANGED vars
  BY <1>5 DEF vars, relayVars, viewerVars, hostVars, callVars,
              TypeOK, RelayTypeOK, ViewerTypeOK, HostTypeOK
<1> QED
  BY <1>1, <1>2, <1>3, <1>4, <1>5 DEF Next

\* What is on the way, and what page and host keep, has its type.
THEOREM TypeCorrect == Spec => []TypeOK
BY TypeInit, TypeNext, PTL DEF Spec

-----------------------------------------------------------------------------
(* The attempts of the page                                                  *)

Up == {"connecting", "open", "severed"}

\* Strayed attempts aside, the refs hold whatever is up, and only the current
\* attempt's; the timeout is that of the refs, and what waits has it.
RefsHold ==
    /\ \A a \in Attempts \ strayed :
          sock[a] \in Up \/ pc[a] \notin {"none", "closed"} => refs = a /\ attempt = a
    /\ refs \in {None, attempt} \cup strayed
    /\ state \in {"idle", "rejected", "left"} => refs \in {None} \cup strayed
    /\ refs # None => stage[refs] = "up" /\ pc[refs] \notin {"none", "closed"}

TimerHolds ==
    timer \notin {None} \cup strayed => refs = timer /\ attempt = timer

WaitsInTime ==
    state \in {"connecting", "pending"} =>
        attempt # None /\ (stage[attempt] = "peer" \/ timer = attempt \/ attempt \in strayed)

\* A peer connection is created for an attempt that has nothing yet.
CreatingIsFresh ==
    \A a \in Attempts :
        /\ stage[a] # "up" => sock[a] = "none" /\ pc[a] = "none"
        /\ stage[a] = "peer" /\ attempt = a => state = "connecting"

\* An attempt strays when it is up, or had been; a peer connection is closed
\* with its socket.
StrayedAreUp == \A a \in strayed : stage[a] = "up"
ClosedTogether == \A a \in Attempts : pc[a] = "closed" => sock[a] \in {"closing", "closed"}

PageInv ==
    RefsHold /\ TimerHolds /\ WaitsInTime /\ CreatingIsFresh /\ StrayedAreUp /\ ClosedTogether

LEMMA PageInvInit == Init => PageInv
BY RelayAssumption
   DEF Init, RelayInit, ViewerInit, PageInv, RefsHold, TimerHolds, WaitsInTime,
       CreatingIsFresh, StrayedAreUp, ClosedTogether, Up

\* Nothing but what strayed is left up when the refs are cleaned up.
LEMMA CleanupKeeps ==
    ASSUME TypeOK, PageInv, NEW socks \in Sockets, NEW queues, Cleanup(socks, queues),
           \A b \in Attempts :
               socks[b] = sock[b] \/ (sock[b] # "none" /\ socks[b] = "closed")
    PROVE  \A b \in Attempts :
              /\ b \notin strayed => sock'[b] \notin Up /\ pc'[b] \in {"none", "closed"}
              /\ pc'[b] = "closed" => sock'[b] \in {"closing", "closed"}
<1>1. /\ pc \in [Attempts -> {"none", "new", "answering", "answered", "connected", "closed"}]
      /\ sock \in [Attempts -> {"none", "connecting", "open", "severed", "closing", "closed"}]
  BY DEF TypeOK, ViewerTypeOK, RelayTypeOK
<1> SUFFICES ASSUME NEW b \in Attempts
             PROVE  /\ b \notin strayed => sock'[b] \notin Up /\ pc'[b] \in {"none", "closed"}
                    /\ pc'[b] = "closed" => sock'[b] \in {"closing", "closed"}
  OBVIOUS
<1>2. CASE b = refs
  BY <1>1, <1>2 DEF Cleanup, CloseSocket, Up
<1>3. CASE b # refs
  BY <1>1, <1>3 DEF PageInv, RefsHold, ClosedTogether, Cleanup, CloseSocket, Up
<1> QED
  BY <1>2, <1>3

\* The current attempt fails.
LEMMA EndKeeps ==
    ASSUME TypeOK, PageInv, NEW socks \in Sockets, NEW queues,
           \A b \in Attempts :
               socks[b] = sock[b] \/ (sock[b] # "none" /\ socks[b] = "closed"),
           NEW next \in {"disconnected", "rejected"}, End(next, socks, queues),
           NEW a \in Attempts, attempt = a,
           \/ stage' = stage /\ stage[a] = "up"
           \/ stage[a] = "peer" /\ stage' = [stage EXCEPT ![a] = "over"]
    PROVE  PageInv'
<1>1. /\ attempt' = attempt /\ state' = next /\ refs' = None /\ timer' = None
      /\ strayed' = strayed /\ strayed \subseteq Attempts
      /\ stage \in [Attempts -> {"unused", "peer", "up", "over"}]
  BY DEF End, Cleanup, TypeOK, ViewerTypeOK
<1>2. \A b \in Attempts :
          /\ b \notin strayed => sock'[b] \notin Up /\ pc'[b] \in {"none", "closed"}
          /\ pc'[b] = "closed" => sock'[b] \in {"closing", "closed"}
  BY CleanupKeeps DEF End
<1>3. \A b \in strayed : stage'[b] = "up"
  BY <1>1 DEF PageInv, StrayedAreUp
<1>4. CreatingIsFresh'
  <2>1. stage'[a] # "peer" /\ \A b \in Attempts :
            stage'[b] # "up" => stage[b] # "up" /\ b # refs /\ (stage'[b] = "peer" => stage[b] = "peer")
    BY <1>1, RelayAssumption DEF PageInv, RefsHold
  <2>2. \A b \in Attempts : b # refs /\ sock[b] = "none" /\ pc[b] = "none"
            => pc'[b] = "none" /\ sock'[b] = socks[b]
    BY DEF End, Cleanup, CloseSocket
  <2> QED
    BY <1>1, <2>1, <2>2 DEF PageInv, CreatingIsFresh
<1> QED
  BY <1>1, <1>2, <1>3, <1>4
     DEF PageInv, RefsHold, TimerHolds, WaitsInTime, StrayedAreUp, ClosedTogether

\* createReceiverPeer answers for the current attempt, or for one given up.
LEMMA CreatedKeeps ==
    ASSUME TypeOK, PageInv, NEW a \in Attempts, PeerCreated(a)
    PROVE  PageInv'
<1>0. /\ attempt \in Attempts \cup {None} /\ refs \in Attempts \cup {None}
      /\ timer \in Attempts \cup {None} /\ None \notin Attempts /\ strayed \subseteq Attempts
      /\ stage \in [Attempts -> {"unused", "peer", "up", "over"}]
      /\ pc \in [Attempts -> {"none", "new", "answering", "answered", "connected", "closed"}]
      /\ sock \in [Attempts -> {"none", "connecting", "open", "severed", "closing", "closed"}]
  BY RelayAssumption DEF TypeOK, ViewerTypeOK, RelayTypeOK
<1>1. /\ stage[a] = "peer" /\ stage' = [stage EXCEPT ![a] = "up"]
      /\ pc' = [pc EXCEPT ![a] = "new"] /\ sock' = [sock EXCEPT ![a] = "connecting"]
      /\ refs' = a /\ timer' = a /\ state' = state /\ attempt' = attempt
      /\ strayed' = IF attempt = a THEN strayed ELSE strayed \cup ({a, refs} \ {None})
  BY DEF PeerCreated
<1>2. a \notin strayed /\ refs # a
  BY <1>0, <1>1 DEF PageInv, StrayedAreUp, RefsHold
<1>3. RefsHold'
  <2>1. ASSUME NEW b \in Attempts \ strayed', sock'[b] \in Up \/ pc'[b] \notin {"none", "closed"}
        PROVE  b = a /\ attempt = a
    <3>1. CASE b = a
      BY <1>0, <1>1, <2>1, <3>1
    <3>2. CASE b # a
      <4>1. sock[b] \in Up \/ pc[b] \notin {"none", "closed"}
        BY <1>0, <1>1, <2>1, <3>2
      <4>2. b \notin strayed
        BY <1>1, <2>1
      <4>3. refs = b /\ attempt = b
        BY <2>1, <4>1, <4>2 DEF PageInv, RefsHold
      <4> QED
        BY <1>0, <1>1, <2>1, <3>2, <4>3
    <3> QED
      BY <3>1, <3>2
  <2>2. /\ attempt = a => state = "connecting"
        /\ attempt # a => a \in strayed'
    BY <1>0, <1>1 DEF PageInv, CreatingIsFresh
  <2> QED
    BY <1>0, <1>1, <2>1, <2>2 DEF RefsHold
<1>4. TimerHolds'
  BY <1>0, <1>1 DEF TimerHolds
<1>5. WaitsInTime'
  <2>1. CASE attempt = a
    BY <1>0, <1>1, <2>1 DEF WaitsInTime
  <2>2. CASE attempt # a
    BY <1>0, <1>1, <2>2 DEF PageInv, WaitsInTime, TimerHolds
  <2> QED
    BY <2>1, <2>2
<1>6. StrayedAreUp'
  BY <1>0, <1>1 DEF PageInv, StrayedAreUp, RefsHold
<1>7. ClosedTogether'
  BY <1>0, <1>1 DEF PageInv, ClosedTogether
<1>8. CreatingIsFresh'
  BY <1>0, <1>1 DEF PageInv, CreatingIsFresh
<1> QED
  BY <1>3, <1>4, <1>5, <1>6, <1>7, <1>8 DEF PageInv

\* A handler that closes nothing and moves the current attempt only.
LEMMA HandlerKeeps ==
    ASSUME TypeOK, PageInv, NEW a \in Attempts, stage[a] = "up",
           UNCHANGED <<attempt, refs, stage, strayed>>,
           \A b \in Attempts \ {a} : sock'[b] = sock[b] /\ pc'[b] = pc[b],
           sock'[a] \in Up => sock[a] \in Up,
           pc'[a] \notin {"none", "closed"} =>
               pc[a] \notin {"none", "closed"} \/ (sock[a] \in Up /\ pc[a] = "none"),
           pc'[a] \in {"none", "closed"} => pc'[a] = pc[a],
           sock[a] \in {"closing", "closed"} => sock'[a] \in {"closing", "closed"},
           state' # state => attempt = a /\ state' \notin {"idle", "rejected", "left"},
           \/ timer' = timer /\ state' = state
           \/ timer' = None /\ attempt = a /\ state' \notin {"connecting", "pending"}
           \/ timer' = None /\ attempt # timer /\ state' = state
           \/ timer' = a /\ attempt = a /\ sock[a] \in Up
    PROVE  PageInv'
<1>0. /\ attempt \in Attempts \cup {None} /\ refs \in Attempts \cup {None}
      /\ timer \in Attempts \cup {None} /\ None \notin Attempts /\ strayed \subseteq Attempts
      /\ stage \in [Attempts -> {"unused", "peer", "up", "over"}]
      /\ pc \in [Attempts -> {"none", "new", "answering", "answered", "connected", "closed"}]
      /\ sock \in [Attempts -> {"none", "connecting", "open", "severed", "closing", "closed"}]
  BY RelayAssumption DEF TypeOK, ViewerTypeOK, RelayTypeOK
<1>1. RefsHold'
  <2>1. ASSUME NEW b \in Attempts \ strayed, sock'[b] \in Up \/ pc'[b] \notin {"none", "closed"}
        PROVE  refs = b /\ attempt = b
    BY <2>1 DEF PageInv, RefsHold
  <2>2. state' \in {"idle", "rejected", "left"} => refs \in {None} \cup strayed
    BY DEF PageInv, RefsHold
  <2>3. refs # None => stage[refs] = "up" /\ pc'[refs] \notin {"none", "closed"}
    BY <1>0 DEF PageInv, RefsHold
  <2>4. refs \in {None, attempt} \cup strayed
    BY DEF PageInv, RefsHold
  <2> QED
    BY <2>1, <2>2, <2>3, <2>4 DEF RefsHold
<1>2. TimerHolds'
  <2>1. timer' \in {timer, None, a}
    BY SMT
  <2>2. timer' = a /\ a \notin strayed /\ timer' # timer => refs = a /\ attempt = a
    BY <1>0 DEF PageInv, RefsHold
  <2> QED
    BY <1>0, <2>1, <2>2 DEF PageInv, TimerHolds
<1>3. WaitsInTime'
  BY <1>0 DEF PageInv, WaitsInTime
<1>4. CreatingIsFresh'
  <2>1. \A b \in Attempts : stage[b] # "up" => b # a
    BY <1>0
  <2> QED
    BY <2>1 DEF PageInv, CreatingIsFresh
<1>5. StrayedAreUp'
  BY DEF PageInv, StrayedAreUp
<1>6. ClosedTogether'
  BY DEF PageInv, ClosedTogether
<1> QED
  BY <1>1, <1>2, <1>3, <1>4, <1>5, <1>6 DEF PageInv

LEMMA PageStepKeeps ==
    ASSUME TypeOK, PageInv, NEW a \in Attempts, PageStep(a) \/ Media(a)
    PROVE  PageInv'
<1>0. /\ attempt \in Attempts \cup {None} /\ refs \in Attempts \cup {None}
      /\ timer \in Attempts \cup {None} /\ None \notin Attempts /\ strayed \subseteq Attempts
      /\ stage \in [Attempts -> {"unused", "peer", "up", "over"}]
      /\ pc \in [Attempts -> {"none", "new", "answering", "answered", "connected", "closed"}]
      /\ sock \in [Attempts -> {"none", "connecting", "open", "severed", "closing", "closed"}]
      /\ sock \in Sockets
  BY RelayAssumption DEF TypeOK, ViewerTypeOK, RelayTypeOK, Sockets
<1>1. ASSUME NEW rerun \in BOOLEAN, Connect(a, rerun)
      PROVE  PageInv'
  <2>1. \A b \in Attempts :
            /\ b \notin strayed => sock'[b] \notin Up /\ pc'[b] \in {"none", "closed"}
            /\ pc'[b] = "closed" => sock'[b] \in {"closing", "closed"}
    BY <1>0, <1>1, CleanupKeeps DEF Connect
  <2>2. /\ attempt' = a /\ state' = "connecting" /\ refs' = None /\ timer' = None
        /\ strayed' = strayed /\ stage[a] = "unused" /\ stage' = [stage EXCEPT ![a] = "peer"]
    BY <1>1 DEF Connect, Cleanup
  <2>3. CreatingIsFresh'
    <3>1. \A b \in Attempts : stage'[b] # "up" => stage[b] # "up" /\ b # refs
      BY <1>0, <2>2 DEF PageInv, RefsHold
    <3>2. \A b \in Attempts : b # refs /\ sock[b] = "none" /\ pc[b] = "none"
              => pc'[b] = "none" /\ sock'[b] = "none"
      BY <1>1 DEF Connect, Cleanup, CloseSocket
    <3> QED
      BY <2>2, <3>1, <3>2 DEF PageInv, CreatingIsFresh
  <2>4. StrayedAreUp'
    BY <1>0, <2>2 DEF PageInv, StrayedAreUp
  <2> QED
    BY <1>0, <2>1, <2>2, <2>3, <2>4
       DEF PageInv, RefsHold, TimerHolds, WaitsInTime, ClosedTogether
<1>2. CASE PeerCreated(a)
  BY <1>2, CreatedKeeps
<1>3. CASE PeerFails(a)
  <2>1. stage[a] = "peer" /\ stage' = [stage EXCEPT ![a] = "over"]
    BY <1>3 DEF PeerFails
  <2>2. CASE attempt = a
    <3>1. End("disconnected", sock, toViewer)
      BY <1>3, <2>2 DEF PeerFails
    <3> QED
      BY <1>0, <2>1, <2>2, <3>1, EndKeeps
  <2>3. CASE attempt # a
    <3>1. UNCHANGED <<state, attempt, refs, timer, pc, strayed, sock>>
      BY <1>3, <2>3 DEF PeerFails, Ignored
    <3>2. RefsHold' /\ TimerHolds' /\ ClosedTogether' /\ CreatingIsFresh'
      BY <1>0, <2>1, <2>3, <3>1
         DEF PageInv, RefsHold, TimerHolds, ClosedTogether, CreatingIsFresh
    <3>3. WaitsInTime' /\ StrayedAreUp'
      BY <1>0, <2>1, <2>3, <3>1 DEF PageInv, WaitsInTime, StrayedAreUp
    <3> QED
      BY <3>2, <3>3 DEF PageInv
  <2> QED
    BY <2>2, <2>3
<1>4. sock[a] # "none" \/ pc[a] # "none" => stage[a] = "up"
  BY DEF PageInv, CreatingIsFresh
<1>5. CASE SocketOpens(a)
  <2>1. /\ stage[a] = "up" /\ sock[a] = "connecting" /\ sock' = [sock EXCEPT ![a] = "open"]
        /\ UNCHANGED viewerVars
    BY <1>4, <1>5 DEF SocketOpens
  <2> QED
    BY <1>0, <2>1, HandlerKeeps DEF viewerVars, Up
<1>6. CASE SocketFails(a)
  <2>1. stage[a] = "up" /\ stage' = stage /\ sock[a] = "connecting"
    BY <1>4, <1>6 DEF SocketFails
  <2>2. CASE attempt = a
    <3>1. /\ [sock EXCEPT ![a] = "closed"] \in Sockets
          /\ End("disconnected", [sock EXCEPT ![a] = "closed"], toViewer)
      BY <1>0, <1>6, <2>2 DEF SocketFails, Sockets
    <3> QED
      BY <1>0, <2>1, <2>2, <3>1, EndKeeps
  <2>3. CASE attempt # a
    BY <1>0, <1>6, <2>1, <2>3, HandlerKeeps DEF SocketFails, Ignored, Up
  <2> QED
    BY <2>2, <2>3
<1>7. CASE SocketCloses(a)
  <2>1. /\ stage[a] = "up" /\ stage' = stage /\ sock[a] = "severed"
        /\ sock' = [sock EXCEPT ![a] = "closed"]
    BY <1>4, <1>7 DEF SocketCloses
  <2>2. CASE attempt = a
    <3>1. /\ timer' = None /\ UNCHANGED <<attempt, refs, pc, strayed>>
          /\ state' = IF state \in {"connected", "connecting", "pending"}
                      THEN "disconnected" ELSE state
      BY <1>7, <2>2 DEF SocketCloses
    <3>2. state' \notin {"connecting", "pending"}
          /\ (state' # state => state' \notin {"idle", "rejected", "left"})
      BY <3>1
    <3> QED
      BY <1>0, <2>1, <2>2, <3>1, <3>2, HandlerKeeps DEF Up
  <2>3. CASE attempt # a
    BY <1>0, <1>7, <2>1, <2>3, HandlerKeeps DEF SocketCloses, Ignored, Up
  <2> QED
    BY <2>2, <2>3
<1>8. ASSUME NEW K, Received(a, K)
      PROVE  sock[a] \in Up /\ stage' = stage /\ stage[a] = "up"
  BY <1>4, <1>8 DEF Received, Up
<1>9. ASSUME stage[a] = "up", stage' = stage, Ignored, sock' = sock
      PROVE  PageInv'
  BY <1>9, HandlerKeeps DEF Ignored
<1>10. CASE OnProgress(a)
  <2>1. sock[a] \in Up /\ stage' = stage /\ stage[a] = "up" /\ sock' = sock
    BY <1>8, <1>10 DEF OnProgress, Taken
  <2>2. CASE attempt = a
    BY <1>0, <1>10, <2>1, <2>2, HandlerKeeps DEF OnProgress
  <2>3. CASE attempt # a
    BY <1>9, <1>10, <2>1, <2>3 DEF OnProgress
  <2> QED
    BY <2>2, <2>3
<1>11. CASE OnHostDisconnected(a)
  <2>1. sock[a] \in Up /\ stage' = stage /\ stage[a] = "up" /\ sock' = sock
    BY <1>8, <1>11 DEF OnHostDisconnected, Taken
  <2>2. CASE attempt = a
    BY <1>0, <1>11, <2>1, <2>2, HandlerKeeps DEF OnHostDisconnected
  <2>3. CASE attempt # a
    BY <1>9, <1>11, <2>1, <2>3 DEF OnHostDisconnected
  <2> QED
    BY <2>2, <2>3
<1>12. ASSUME NEW next \in {"disconnected", "rejected"}, End(next, sock, Rest(a)),
              attempt = a, stage[a] = "up", stage' = stage
       PROVE  PageInv'
  BY <1>0, <1>12, EndKeeps
<1>13. CASE OnEnd(a)
  <2>1. stage' = stage /\ stage[a] = "up"
    BY <1>8, <1>13 DEF OnEnd
  <2>2. CASE attempt = a
    BY <1>12, <1>13, <2>1, <2>2 DEF OnEnd
  <2>3. CASE attempt # a
    BY <1>9, <1>13, <2>1, <2>3 DEF OnEnd, Taken
  <2> QED
    BY <2>2, <2>3
<1>14. CASE OnOffer(a)
  <2>1. sock[a] \in Up /\ stage' = stage /\ stage[a] = "up"
    BY <1>8, <1>14 DEF OnOffer
  <2>2. CASE attempt # a /\ Taken(a) /\ Ignored
    BY <1>9, <2>1, <2>2 DEF Taken
  <2>3. CASE attempt = a /\ pc[a] # "new" /\ End("disconnected", sock, Rest(a))
    BY <1>12, <2>1, <2>3
  <2>4. CASE /\ attempt = a /\ pc[a] # "closed" /\ Taken(a)
             /\ pc' = [pc EXCEPT ![a] = "answering"]
             /\ UNCHANGED <<state, attempt, refs, timer, strayed, others>>
    <3>1. pc'[a] = "answering" /\ pc[a] \in {"none", "new", "answering", "answered", "connected"}
      BY <1>0, <2>4
    <3> QED
      BY <1>0, <2>1, <2>4, <3>1, HandlerKeeps DEF Taken
  <2> QED
    BY <1>14, <2>2, <2>3, <2>4 DEF OnOffer
<1>15. CASE AnswerReady(a)
  <2>1. /\ stage[a] = "up" /\ pc[a] = "answering" /\ pc' = [pc EXCEPT ![a] = "answered"]
        /\ UNCHANGED <<state, attempt, refs, timer, stage, strayed, sock>>
    BY <1>4, <1>15 DEF AnswerReady
  <2> QED
    BY <1>0, <2>1, HandlerKeeps
<1>16. CASE OnIce(a)
  <2>1. stage' = stage /\ stage[a] = "up"
    BY <1>8, <1>16 DEF OnIce
  <2>2. CASE attempt = a /\ remote[a] = None
    BY <1>12, <1>16, <2>1, <2>2 DEF OnIce
  <2>3. CASE ~(attempt = a /\ remote[a] = None)
    BY <1>9, <1>16, <2>1, <2>3 DEF OnIce, Taken
  <2> QED
    BY <2>2, <2>3
<1>17. CASE Media(a)
  <2>1. /\ pc[a] \in {"answered", "connected"} /\ stage[a] = "up"
        /\ pc' = [pc EXCEPT ![a] = "connected"] \/ pc' = [pc EXCEPT ![a] = "answered"]
        /\ UNCHANGED <<attempt, refs, stage, strayed, sock>>
    BY <1>4, <1>17 DEF Media, MediaChanges, relayVars
  <2>2. CASE attempt = a
    <3>1. timer' = None /\ state' \in {"connected", "disconnected"}
      BY <1>17, <2>2 DEF Media, MediaChanges
    <3> QED
      BY <1>0, <2>1, <2>2, <3>1, HandlerKeeps
  <2>3. CASE attempt # a
    <3>1. UNCHANGED <<timer, state>>
      BY <1>17, <2>3 DEF Media, MediaChanges
    <3> QED
      BY <1>0, <2>1, <3>1, HandlerKeeps
  <2> QED
    BY <2>2, <2>3
<1> QED
  BY <1>1, <1>2, <1>3, <1>5, <1>6, <1>7, <1>10, <1>11, <1>13, <1>14, <1>15, <1>16, <1>17
     DEF PageStep, Create

LEMMA StopKeeps ==
    ASSUME TypeOK, PageInv, Timeout \/ \E next \in {"idle", "left"} : Stop(next)
    PROVE  PageInv'
<1>1. /\ attempt \in Attempts \cup {None} /\ timer \in Attempts \cup {None}
      /\ refs \in Attempts \cup {None} /\ None \notin Attempts /\ sock \in Sockets
      /\ stage \in [Attempts -> {"unused", "peer", "up", "over"}]
  BY RelayAssumption DEF TypeOK, ViewerTypeOK, RelayTypeOK, Sockets
<1>2. CASE Timeout /\ attempt = timer
  <2>1. timer \in Attempts /\ End("disconnected", sock, toViewer) /\ stage' = stage
    BY <1>1, <1>2 DEF Timeout
  <2>2. stage[timer] = "up"
    BY <1>1, <2>1 DEF PageInv, TimerHolds, RefsHold, StrayedAreUp
  <2> QED
    BY <1>1, <1>2, <2>1, <2>2, EndKeeps
<1>3. CASE Timeout /\ attempt # timer
  <2>1. timer' = None /\ UNCHANGED <<state, attempt, refs, stage, pc, strayed, sock>>
    BY <1>3 DEF Timeout
  <2> QED
    BY <1>1, <1>3, <2>1
       DEF PageInv, RefsHold, TimerHolds, WaitsInTime, CreatingIsFresh, StrayedAreUp, ClosedTogether
<1>4. ASSUME NEW next \in {"idle", "left"}, Stop(next)
      PROVE  PageInv'
  <2>1. \A b \in Attempts :
            /\ b \notin strayed => sock'[b] \notin Up /\ pc'[b] \in {"none", "closed"}
            /\ pc'[b] = "closed" => sock'[b] \in {"closing", "closed"}
    BY <1>1, <1>4, CleanupKeeps DEF Stop
  <2>2. attempt' = None /\ state' = next /\ refs' = None /\ timer' = None /\ UNCHANGED <<stage, strayed>>
    BY <1>4 DEF Stop, Cleanup
  <2>3. CreatingIsFresh'
    <3>1. \A b \in Attempts : stage[b] # "up" => b # refs
      BY <1>1 DEF PageInv, RefsHold
    <3>2. \A b \in Attempts : b # refs /\ sock[b] = "none" /\ pc[b] = "none"
              => pc'[b] = "none" /\ sock'[b] = "none"
      BY <1>4 DEF Stop, Cleanup, CloseSocket
    <3> QED
      BY <1>1, <2>2, <3>1, <3>2 DEF PageInv, CreatingIsFresh
  <2> QED
    BY <2>1, <2>2, <2>3
       DEF PageInv, RefsHold, TimerHolds, WaitsInTime, StrayedAreUp, ClosedTogether
<1> QED
  BY <1>2, <1>3, <1>4

LEMMA PageInvNext == TypeOK /\ PageInv /\ [Next]_vars => PageInv'
<1> SUFFICES ASSUME TypeOK, PageInv, [Next]_vars PROVE PageInv'
  OBVIOUS
<1>1. /\ sock \in [Attempts -> {"none", "connecting", "open", "severed", "closing", "closed"}]
      /\ seat \in Attempts \cup {None}
  BY DEF TypeOK, RelayTypeOK
<1>2. ASSUME UNCHANGED viewerVars,
             \A a \in Attempts :
                 \/ sock'[a] = sock[a]
                 \/ sock[a] = "open" /\ sock'[a] = "severed"
                 \/ sock[a] = "closing" /\ sock'[a] = "closed"
      PROVE  PageInv'
  BY <1>2 DEF viewerVars, PageInv, RefsHold, TimerHolds, WaitsInTime, CreatingIsFresh,
              StrayedAreUp, ClosedTogether, Up
<1>3. ASSUME NEW a \in Attempts, GatewayStep(a), UNCHANGED viewerVars
      PROVE  PageInv'
  <2>1. CASE Ask(a) \/ Refuse(a)
    BY <1>2, <1>3, <2>1 DEF Ask, Refuse
  <2>2. CASE Admit(a)
    BY <1>1, <1>2, <1>3, <2>2 DEF Admit
  <2>3. CASE CloseArrives(a) \/ LoseSocket(a)
    BY <1>1, <1>2, <1>3, <2>3 DEF CloseArrives, LoseSocket
  <2> QED
    BY <1>3, <2>1, <2>2, <2>3 DEF GatewayStep
<1>4. CASE HostStep /\ UNCHANGED viewerVars
  <2>1. \/ sock' = sock
        \/ sock' = [sock EXCEPT ![seat] = "severed"] /\ seat # None /\ sock[seat] = "open"
    BY <1>4 DEF HostStep, StartCapture, StopCapture, OnViewerJoined, PeerMade, OfferMade, SendIce,
                OnAnswer, OnViewerLeft, Kick, KickSeat, KickDone, HostLost, HostSocketLost,
                HostReturns, relayVars
  <2> QED
    BY <1>1, <1>2, <1>4, <2>1
<1>5. CASE UNCHANGED vars
  BY <1>2, <1>5 DEF vars, relayVars
<1> QED
  BY <1>3, <1>4, <1>5, PageStepKeeps, StopKeeps DEF Next

\* No socket and no peer connection of an attempt is out of reach of the next
\* one or of disconnect, whenever timers, errors and messages come, and what
\* waits has its timeout, for every attempt but those given up during
\* createReceiverPeer and those they pushed out: useWebRTCViewer.ts,
\* cleanupCurrentConnection.
THEOREM AttemptHeld == Spec => []AttemptIsHeld
<1>1. TypeOK /\ PageInv => AttemptIsHeld
  BY DEF PageInv, RefsHold, WaitsInTime, AttemptIsHeld, Up, TypeOK, ViewerTypeOK
<1> QED
  BY <1>1, TypeCorrect, PageInvInit, PageInvNext, PTL DEF Spec

-----------------------------------------------------------------------------
(* The list of the host                                                      *)

Turns == {"VIEWER_JOINED", "VIEWER_LEFT"}

\* p[i] is whether the viewer is there after the first i messages of q: it
\* joins when it is not, and leaves when it is.
Tells(q, p) ==
    /\ p \in [0..Len(q) -> BOOLEAN]
    /\ \A i \in 1..Len(q) :
          /\ q[i].kind = "VIEWER_JOINED" => ~p[i - 1] /\ p[i]
          /\ q[i].kind = "VIEWER_LEFT" => p[i - 1] /\ ~p[i]
          /\ q[i].kind \notin Turns => p[i] = p[i - 1]

\* What the host has not been crossed in: a peer in the map, or being made.
Known == peer \notin {None} \cup crossed \/ ~(SettingUp \subseteq crossed)

\* What is on the way to the host leads from what it knows to who has the seat.
HostWillKnow ==
    \E p \in [0..Len(toHost) -> BOOLEAN] :
        /\ Tells(toHost, p)
        /\ Known => p[0]
        /\ p[Len(toHost)] <=> seat # None

Clean == trouble # "unheard"

\* Crossed calls aside, one peer is made at a time, for a viewer that has none,
\* and the one that is made is in the map as long as it is open.
OneAtATime ==
    /\ \A c, d \in SettingUp \ crossed : c = d
    /\ SettingUp \subseteq crossed \/ peer \in {None} \cup crossed
    /\ \A c \in Calls \ crossed : hpc[c] = "open" => peer = c
    /\ \A c \in crossed : call[c] # "unused"

Listed ==
    /\ peer # None => hpc[peer] = "open" /\ call[peer] # "unused"
    /\ viewers = 0 <=> peer = None
    /\ viewers > 1 => \E c \in crossed : hpc[c] = "open"

HostCore == hostUp /\ cut = {} /\ HostWillKnow /\ OneAtATime /\ Listed

HostInv == Clean => HostCore

\* The story goes on at the end of the queue.
LEMMA TellsMore ==
    ASSUME NEW q \in Seq(Messages), NEW p, Tells(q, p), NEW m \in Messages,
           m.kind = "VIEWER_JOINED" => ~p[Len(q)],
           m.kind = "VIEWER_LEFT" => p[Len(q)]
    PROVE  \E r \in [0..Len(Append(q, m)) -> BOOLEAN] :
              /\ Tells(Append(q, m), r) /\ r[0] = p[0]
              /\ m.kind = "VIEWER_JOINED" => r[Len(Append(q, m))]
              /\ m.kind = "VIEWER_LEFT" => ~r[Len(Append(q, m))]
              /\ m.kind \notin Turns => r[Len(Append(q, m))] = p[Len(q)]
<1> DEFINE n == Len(q)
           w == Append(q, m)
           last == IF m.kind = "VIEWER_JOINED" THEN TRUE
                   ELSE IF m.kind = "VIEWER_LEFT" THEN FALSE ELSE p[n]
           r == [i \in 0..(n + 1) |-> IF i = n + 1 THEN last ELSE p[i]]
<1>1. /\ w \in Seq(Messages) /\ n \in Nat /\ Len(w) = n + 1 /\ w[n + 1] = m
      /\ \A i \in 1..n : w[i] = q[i]
  BY AppendProperties, LenProperties
<1>2. p \in [0..n -> BOOLEAN] /\ p[n] \in BOOLEAN /\ last \in BOOLEAN
  <2>1. p \in [0..n -> BOOLEAN] /\ n \in 0..n
    BY <1>1 DEF Tells
  <2>2. p[n] \in BOOLEAN
    BY <2>1
  <2> QED
    BY <2>1, <2>2
<1> HIDE DEF n, w, last
<1>3. r \in [0..(n + 1) -> BOOLEAN]
  <2>1. ASSUME NEW i \in 0..(n + 1), i # n + 1
        PROVE  p[i] \in BOOLEAN
    <3>1. i \in 0..n
      BY <1>1, <2>1
    <3> QED
      BY <1>2, <3>1
  <2> QED
    BY <1>2, <2>1
<1>4. r[n + 1] = last /\ \A i \in 0..n : r[i] = p[i]
  <2>1. n + 1 \in 0..(n + 1) /\ \A i \in 0..n : i \in 0..(n + 1) /\ i # n + 1
    BY <1>1
  <2> QED
    BY <2>1
<1> HIDE DEF r
<1>5. Tells(w, r)
  <2> SUFFICES ASSUME NEW i \in 1..(n + 1)
               PROVE  /\ w[i].kind = "VIEWER_JOINED" => ~r[i - 1] /\ r[i]
                      /\ w[i].kind = "VIEWER_LEFT" => r[i - 1] /\ ~r[i]
                      /\ w[i].kind \notin Turns => r[i] = r[i - 1]
    BY <1>1, <1>3 DEF Tells
  <2>1. CASE i = n + 1
    <3>1. i - 1 = n /\ n \in 0..n
      BY <1>1, <2>1
    <3>2. w[i] = m /\ r[i - 1] = p[n] /\ r[i] = last
      BY <1>1, <1>4, <2>1, <3>1
    <3> QED
      BY <3>2 DEF last, Turns, n
  <2>2. CASE i \in 1..n
    <3>1. i \in 0..n /\ i - 1 \in 0..n
      BY <1>1, <2>2
    <3>2. w[i] = q[i] /\ r[i - 1] = p[i - 1] /\ r[i] = p[i]
      BY <1>1, <1>4, <2>2, <3>1
    <3> QED
      BY <2>2, <3>2 DEF Tells, n
  <2> QED
    BY <1>1, <2>1, <2>2
<1>6. r[0] = p[0]
  BY <1>1, <1>4
<1>7. w = Append(q, m) /\ Len(w) = n + 1 /\ n = Len(q)
  BY <1>1 DEF w, n
<1> QED
  BY <1>3, <1>4, <1>5, <1>6, <1>7 DEF last, Turns

\* The first message has been heard.
LEMMA TellsRest ==
    ASSUME NEW q \in Seq(Messages), q # <<>>, NEW p, Tells(q, p)
    PROVE  /\ Head(q).kind = "VIEWER_JOINED" => ~p[0] /\ p[1]
           /\ Head(q).kind = "VIEWER_LEFT" => p[0] /\ ~p[1]
           /\ Head(q).kind \notin Turns => p[1] = p[0]
           /\ \E r \in [0..Len(Tail(q)) -> BOOLEAN] :
                 Tells(Tail(q), r) /\ r[0] = p[1] /\ r[Len(Tail(q))] = p[Len(q)]
<1> DEFINE n == Len(q) - 1
           w == Tail(q)
           r == [i \in 0..n |-> p[i + 1]]
<1>1. /\ w \in Seq(Messages) /\ n \in Nat /\ Len(q) = n + 1 /\ Len(w) = n /\ Head(q) = q[1]
      /\ \A i \in 1..n : w[i] = q[i + 1]
  BY HeadOfQueue
<1>2. p \in [0..(n + 1) -> BOOLEAN]
  BY <1>1 DEF Tells
<1>3. /\ Head(q).kind = "VIEWER_JOINED" => ~p[0] /\ p[1]
      /\ Head(q).kind = "VIEWER_LEFT" => p[0] /\ ~p[1]
      /\ Head(q).kind \notin Turns => p[1] = p[0]
  <2>1. 1 \in 1..Len(q) /\ 1 - 1 = 0
    BY <1>1
  <2> QED
    BY <1>1, <2>1 DEF Tells
<1> HIDE DEF n, w
<1>4. r \in [0..n -> BOOLEAN]
  <2>1. \A i \in 0..n : i + 1 \in 0..(n + 1)
    BY <1>1
  <2> QED
    BY <1>2, <2>1
<1>5. \A i \in 0..n : r[i] = p[i + 1]
  OBVIOUS
<1> HIDE DEF r
<1>6. Tells(w, r)
  <2> SUFFICES ASSUME NEW i \in 1..n
               PROVE  /\ w[i].kind = "VIEWER_JOINED" => ~r[i - 1] /\ r[i]
                      /\ w[i].kind = "VIEWER_LEFT" => r[i - 1] /\ ~r[i]
                      /\ w[i].kind \notin Turns => r[i] = r[i - 1]
    BY <1>1, <1>4 DEF Tells
  <2>1. i \in 0..n /\ i - 1 \in 0..n /\ i + 1 \in 1..Len(q) /\ (i + 1) - 1 = i /\ (i - 1) + 1 = i
    BY <1>1
  <2>2. w[i] = q[i + 1] /\ r[i] = p[i + 1] /\ r[i - 1] = p[i]
    BY <1>1, <1>5, <2>1
  <2> QED
    BY <2>1, <2>2 DEF Tells
<1>7. r[0] = p[1] /\ r[n] = p[n + 1]
  <2>1. 0 \in 0..n /\ n \in 0..n /\ 0 + 1 = 1
    BY <1>1
  <2> QED
    BY <1>5, <2>1
<1> QED
  BY <1>1, <1>3, <1>4, <1>6, <1>7 DEF w

\* A message of the gateway tells the host of the seat.
LEMMA KnowsMore ==
    ASSUME HostWillKnow, toHost \in Seq(Messages), NEW m \in Messages,
           toHost' = Append(toHost, m), Known' => Known,
           m.kind = "VIEWER_JOINED" => seat = None /\ seat' # None,
           m.kind = "VIEWER_LEFT" => seat # None /\ seat' = None,
           m.kind \notin Turns => seat' = seat
    PROVE  HostWillKnow'
<1>1. PICK p \in [0..Len(toHost) -> BOOLEAN] :
          /\ Tells(toHost, p)
          /\ Known => p[0]
          /\ p[Len(toHost)] <=> seat # None
  BY DEF HostWillKnow
<1>2. PICK r \in [0..Len(toHost') -> BOOLEAN] :
          /\ Tells(toHost', r) /\ r[0] = p[0]
          /\ m.kind = "VIEWER_JOINED" => r[Len(toHost')]
          /\ m.kind = "VIEWER_LEFT" => ~r[Len(toHost')]
          /\ m.kind \notin Turns => r[Len(toHost')] = p[Len(toHost)]
  BY <1>1, TellsMore
<1>3. (r[Len(toHost')] <=> seat' # None) /\ (Known' => r[0])
  BY <1>1, <1>2 DEF Turns
<1> QED
  BY <1>2, <1>3 DEF HostWillKnow

\* The host hears a message: it knows what it said.
LEMMA KnowsRest ==
    ASSUME HostWillKnow, toHost \in Seq(Messages), toHost # <<>>, toHost' = Tail(toHost), seat' = seat
    PROVE  /\ Head(toHost).kind = "VIEWER_JOINED" => ~Known
           /\ (\/ Head(toHost).kind = "VIEWER_JOINED"
               \/ Head(toHost).kind = "VIEWER_LEFT" /\ ~Known'
               \/ Head(toHost).kind \notin Turns /\ (Known' => Known))
              => HostWillKnow'
<1>1. PICK p \in [0..Len(toHost) -> BOOLEAN] :
          /\ Tells(toHost, p)
          /\ Known => p[0]
          /\ p[Len(toHost)] <=> seat # None
  BY DEF HostWillKnow
<1>2. /\ Head(toHost).kind = "VIEWER_JOINED" => ~p[0] /\ p[1]
      /\ Head(toHost).kind = "VIEWER_LEFT" => p[0] /\ ~p[1]
      /\ Head(toHost).kind \notin Turns => p[1] = p[0]
      /\ \E r \in [0..Len(toHost') -> BOOLEAN] :
            Tells(toHost', r) /\ r[0] = p[1] /\ r[Len(toHost')] = p[Len(toHost)]
  BY <1>1, TellsRest
<1>3. PICK r \in [0..Len(toHost') -> BOOLEAN] :
          Tells(toHost', r) /\ r[0] = p[1] /\ r[Len(toHost')] = p[Len(toHost)]
  BY <1>2
<1>4. r[Len(toHost')] <=> seat' # None
  BY <1>1, <1>3
<1>5. Head(toHost).kind = "VIEWER_JOINED" => r[0]
  BY <1>2, <1>3
<1>6. Head(toHost).kind \notin Turns /\ (Known' => Known) => (Known' => r[0])
  BY <1>1, <1>2, <1>3
<1> QED
  BY <1>1, <1>2, <1>3, <1>4, <1>5, <1>6 DEF HostWillKnow

LEMMA HostInvInit == Init => HostInv
<1> SUFFICES ASSUME Init PROVE HostCore
  BY DEF HostInv
<1>1. /\ toHost = <<>> /\ seat = None /\ peer = None /\ SettingUp = {} /\ hostUp /\ cut = {}
      /\ viewers = 0 /\ crossed = {} /\ \A c \in Calls : hpc[c] = "none"
  BY DEF Init, RelayInit, HostInit, SettingUp
<1>2. HostWillKnow
  <2> DEFINE p == [i \in 0..0 |-> FALSE]
  <2>1. Len(toHost) = 0 /\ p \in [0..0 -> BOOLEAN] /\ ~p[0]
    BY <1>1
  <2> HIDE DEF p
  <2>2. Tells(toHost, p)
    BY <2>1 DEF Tells
  <2> QED
    BY <1>1, <2>1, <2>2 DEF HostWillKnow, Known
<1> QED
  BY <1>1, <1>2 DEF HostCore, OneAtATime, Listed

\* What the host has is as before: only the seat and what is said of it changed.
LEMMA HostSame ==
    ASSUME HostCore, HostWillKnow', hostUp', UNCHANGED hostVars
    PROVE  HostCore'
BY DEF HostCore, OneAtATime, Listed, hostVars, callVars, SettingUp

LEMMA HostUntold ==
    ASSUME HostCore, hostUp', UNCHANGED <<toHost, seat, hostVars>>
    PROVE  HostCore'
<1>1. HostWillKnow'
  BY DEF HostCore, HostWillKnow, Known, hostVars, callVars, SettingUp
<1> QED
  BY <1>1, HostSame

LEMMA HostInvGateway ==
    ASSUME TypeOK, HostCore, Clean', NEW a \in Attempts, GatewayStep(a), UNCHANGED hostVars
    PROVE  HostCore'
<1>1. toHost \in Seq(Messages) /\ seat \in Attempts \cup {None} /\ None \notin Attempts
  BY RelayAssumption DEF TypeOK, RelayTypeOK
<1>2. hostUp /\ HostWillKnow /\ Known' = Known
  BY DEF HostCore, Known, SettingUp, hostVars, callVars
<1>3. Kind("VIEWER_JOINED") \in Messages /\ Kind("VIEWER_LEFT") \in Messages
  BY KindIsMessage DEF HostKinds
<1>4. CASE Ask(a) \/ Refuse(a)
  BY <1>2, <1>4, HostUntold DEF Ask, Refuse
<1>5. CASE Admit(a)
  <2>1. /\ toHost' = Append(toHost, Kind("VIEWER_JOINED")) /\ hostUp'
        /\ seat = None /\ seat' # None
    BY <1>1, <1>2, <1>5 DEF Admit, SendHost, Clean, Troubled
  <2>2. Kind("VIEWER_JOINED").kind = "VIEWER_JOINED"
    BY DEF Kind
  <2>3. HostWillKnow'
    BY <1>1, <1>2, <1>3, <2>1, <2>2, KnowsMore DEF Turns
  <2> QED
    BY <2>1, <2>3, HostSame
<1>6. CASE CloseArrives(a) \/ LoseSocket(a)
  <2>1. Forget(a) /\ hostUp'
    BY <1>2, <1>6 DEF CloseArrives, LoseSocket
  <2>2. CASE seat = a
    <3>1. toHost' = Append(toHost, Kind("VIEWER_LEFT")) /\ seat # None /\ seat' = None
      BY <1>1, <1>2, <2>1, <2>2 DEF Forget, SendHost
    <3>2. Kind("VIEWER_LEFT").kind = "VIEWER_LEFT"
      BY DEF Kind
    <3>3. HostWillKnow'
      BY <1>1, <1>2, <1>3, <3>1, <3>2, KnowsMore DEF Turns
    <3> QED
      BY <2>1, <3>3, HostSame
  <2>3. CASE seat # a
    BY <2>1, <2>3, HostUntold DEF Forget
  <2> QED
    BY <2>2, <2>3
<1> QED
  BY <1>4, <1>5, <1>6 DEF GatewayStep

LEMMA HostInvPage ==
    ASSUME TypeOK, HostCore, NEW a \in Attempts, PageStep(a) \/ Media(a), UNCHANGED hostVars
    PROVE  HostCore'
<1>1. hostUp /\ HostWillKnow /\ Known' = Known
  BY DEF HostCore, Known, SettingUp, hostVars, callVars
<1>2. CASE AnswerReady(a)
  <2>1. hostUp' /\ seat' = seat
    BY <1>1, <1>2 DEF AnswerReady
  <2>2. CASE sock[a] = "open"
    <3> DEFINE m == [kind |-> "ANSWER", attempt |-> a, call |-> remote[a]]
    <3>1. toHost' = Append(toHost, m)
      BY <1>1, <1>2, <2>2 DEF AnswerReady, RelayAnswer, SendHost
    <3>2. m \in Messages /\ m.kind \notin Turns /\ toHost \in Seq(Messages)
      BY KindIsMessage DEF Turns, TypeOK, ViewerTypeOK, RelayTypeOK
    <3> HIDE DEF m
    <3>3. HostWillKnow'
      BY <1>1, <2>1, <3>1, <3>2, KnowsMore DEF Turns
    <3> QED
      BY <2>1, <3>3, HostSame
  <2>3. CASE sock[a] # "open"
    BY <1>2, <2>1, <2>3, HostUntold DEF AnswerReady
  <2> QED
    BY <2>2, <2>3
<1>3. CASE ~AnswerReady(a)
  <2>1. UNCHANGED <<toHost, seat, hostUp>>
    BY <1>3 DEF PageStep, Connect, Create, PeerCreated, PeerFails, SocketOpens, SocketFails,
                SocketCloses, OnProgress, OnHostDisconnected, OnEnd, OnOffer, OnIce, End, Ignored,
                others, Media, MediaChanges, relayVars
  <2> QED
    BY <1>1, <2>1, HostUntold
<1> QED
  BY <1>2, <1>3

\* Everything is cleared: nothing that is left is uncrossed.
LEMMA ClearKeeps ==
    ASSUME TypeOK, HostCore, ClearPeers, UNCHANGED <<call, cut>>
    PROVE  OneAtATime' /\ Listed' /\ ~Known'
<1>1. /\ peer \in Calls \cup {None} /\ None \notin Calls /\ viewers' = 0 /\ peer' = None
      /\ SettingUp' = SettingUp /\ crossed' = crossed \cup SettingUp /\ SettingUp \subseteq crossed'
  BY RelayAssumption DEF TypeOK, HostTypeOK, ClearPeers, SettingUp
<1>2. ASSUME NEW c \in Calls \ crossed'
      PROVE  hpc'[c] # "open"
  BY <1>1, <1>2 DEF ClearPeers, ClosePeer, HostCore, OneAtATime
<1>3. \A c \in crossed' : call'[c] # "unused"
  BY <1>1 DEF HostCore, OneAtATime, SettingUp
<1> QED
  BY <1>1, <1>2, <1>3 DEF OneAtATime, Listed, Known

LEMMA HostInvHost ==
    ASSUME TypeOK, HostCore, Clean', HostStep
    PROVE  HostCore'
<1>1. /\ toHost \in Seq(Messages) /\ seat \in Attempts \cup {None}
      /\ None \notin Attempts /\ None \notin Calls
      /\ peer \in Calls \cup {None} /\ viewers \in Nat /\ crossed \subseteq Calls
      /\ hpc \in [Calls -> {"none", "open", "closed"}]
      /\ call \in [Calls -> {"unused", "peer", "offer", "sent", "iced"}]
  BY RelayAssumption DEF TypeOK, RelayTypeOK, HostTypeOK
<1>2. hostUp /\ HostWillKnow /\ cut = {} /\ OneAtATime /\ Listed
  BY DEF HostCore
<1>3. ASSUME ClearPeers, UNCHANGED <<call, cut, hostUp, toHost, seat>>
      PROVE  HostCore'
  <2>1. OneAtATime' /\ Listed' /\ ~Known'
    BY <1>3, ClearKeeps
  <2>2. HostWillKnow'
    BY <1>2, <1>3, <2>1 DEF HostWillKnow
  <2> QED
    BY <1>2, <1>3, <2>1, <2>2 DEF HostCore
<1>4. ASSUME UNCHANGED <<hpc, peer, viewers, crossed>>, SettingUp' = SettingUp,
             cut' = {}, hostUp', HostWillKnow', \A c \in Calls : call[c] # "unused" => call'[c] # "unused"
      PROVE  HostCore'
  BY <1>1, <1>2, <1>4 DEF HostCore, OneAtATime, Listed
<1>5. ASSUME UNCHANGED <<toHost, seat>>, Known' => Known
      PROVE  HostWillKnow'
  BY <1>2, <1>5 DEF HostWillKnow
<1>6. CASE StartCapture
  <2>1. UNCHANGED <<call, hpc, peer, viewers, cut, crossed, toHost, seat, hostUp>> /\ SettingUp' = SettingUp
    BY <1>6 DEF StartCapture, callVars, relayVars, SettingUp
  <2> QED
    BY <1>2, <1>4, <1>5, <2>1 DEF Known
<1>7. CASE StopCapture
  BY <1>3, <1>7 DEF StopCapture
<1>8. ASSUME NEW c \in Calls, OnViewerJoined(c)
      PROVE  HostCore'
  <2>1. /\ toHost # <<>> /\ Head(toHost).kind = "VIEWER_JOINED" /\ toHost' = Tail(toHost)
        /\ seat' = seat /\ UNCHANGED <<hpc, peer, viewers, cut, crossed, hostUp>>
        /\ \/ call' = call
           \/ call[c] = "unused" /\ call' = [call EXCEPT ![c] = "peer"]
    BY <1>8 DEF OnViewerJoined, Arrived
  <2>2. ~Known /\ HostWillKnow'
    BY <1>1, <1>2, <2>1, KnowsRest
  <2>3. CASE call' = call
    BY <1>2, <1>4, <2>1, <2>2, <2>3 DEF SettingUp
  <2>4. CASE call[c] = "unused" /\ call' = [call EXCEPT ![c] = "peer"]
    <3>1. SettingUp' = SettingUp \cup {c} /\ SettingUp \subseteq crossed /\ peer \in {None} \cup crossed
      BY <1>1, <2>2, <2>4 DEF Known, SettingUp
    <3>2. OneAtATime'
      BY <1>1, <1>2, <2>1, <2>4, <3>1 DEF OneAtATime
    <3>3. Listed'
      BY <1>1, <1>2, <2>1, <2>4 DEF Listed
    <3> QED
      BY <1>2, <2>1, <2>2, <3>2, <3>3 DEF HostCore
  <2> QED
    BY <2>1, <2>3, <2>4
<1>9. ASSUME NEW c \in Calls, PeerMade(c)
      PROVE  HostCore'
  <2>1. /\ call[c] = "peer" /\ call' = [call EXCEPT ![c] = "offer"]
        /\ hpc' = [hpc EXCEPT ![c] = "open"] /\ peer' = c /\ viewers' = viewers + 1
        /\ crossed' = IF c \in crossed THEN crossed \cup ({peer} \ {None}) ELSE crossed
        /\ UNCHANGED <<cut, toHost, seat, hostUp>>
    BY <1>9 DEF PeerMade, relayVars
  <2>2. c \in SettingUp /\ SettingUp' = SettingUp \ {c}
    BY <1>1, <2>1 DEF SettingUp
  <2>3. peer \in {None} \cup crossed' /\ crossed \subseteq crossed'
    BY <1>2, <2>1, <2>2 DEF OneAtATime
  <2>4. c \notin crossed => SettingUp' \subseteq crossed'
    BY <1>2, <2>2, <2>3 DEF OneAtATime
  <2>5. OneAtATime'
    <3>1. \A d, e \in SettingUp' \ crossed' : d = e
      BY <1>2, <2>2, <2>3 DEF OneAtATime
    <3>2. SettingUp' \subseteq crossed' \/ peer' \in {None} \cup crossed'
      BY <2>1, <2>3, <2>4
    <3>3. \A d \in Calls \ crossed' : hpc'[d] = "open" => peer' = d
      BY <1>1, <1>2, <2>1, <2>3 DEF OneAtATime
    <3>4. \A d \in crossed' : call'[d] # "unused"
      <4>1. peer # None => call[peer] # "unused"
        BY <1>2 DEF Listed
      <4> QED
        BY <1>1, <1>2, <2>1, <4>1 DEF OneAtATime
    <3> QED
      BY <3>1, <3>2, <3>3, <3>4 DEF OneAtATime
  <2>6. Listed'
    <3>1. hpc'[peer'] = "open" /\ call'[peer'] = "offer" /\ viewers' # 0 /\ peer' # None
      BY <1>1, <2>1
    <3>2. ASSUME viewers' > 1
          PROVE  \E d \in crossed' : hpc'[d] = "open"
      <4>1. peer # None /\ peer \in crossed' /\ hpc[peer] = "open"
        BY <1>1, <1>2, <2>1, <2>3, <3>2 DEF Listed
      <4>2. hpc'[peer] = "open"
        BY <1>1, <2>1, <4>1
      <4> QED
        BY <4>1, <4>2
    <3> QED
      BY <3>1, <3>2 DEF Listed
  <2>7. HostWillKnow'
    <3>1. Known' => Known
      BY <2>1, <2>2, <2>3, <2>4 DEF Known
    <3> QED
      BY <1>5, <2>1, <3>1
  <2> QED
    BY <1>2, <2>1, <2>5, <2>6, <2>7 DEF HostCore
<1>10. ASSUME NEW c \in Calls, OfferMade(c) \/ SendIce(c)
      PROVE  HostCore'
  <2>1. /\ call' \in {[call EXCEPT ![c] = "sent"], [call EXCEPT ![c] = "iced"]}
        /\ call[c] \in {"offer", "sent"}
        /\ UNCHANGED <<hpc, peer, viewers, crossed, toHost, seat, hostUp>> /\ cut' \in {cut, cut \ {c}}
    BY <1>10 DEF OfferMade, SendIce
  <2>2. /\ SettingUp' = SettingUp /\ cut' = {}
        /\ \A d \in Calls : call[d] # "unused" => call'[d] # "unused"
    BY <1>1, <1>2, <2>1 DEF SettingUp
  <2>3. HostWillKnow'
    BY <1>5, <2>1, <2>2 DEF Known
  <2> QED
    BY <1>2, <1>4, <2>1, <2>2, <2>3
<1>11. CASE OnAnswer
  <2>1. /\ toHost # <<>> /\ Head(toHost).kind = "ANSWER" /\ toHost' = Tail(toHost)
        /\ seat' = seat /\ UNCHANGED <<hpc, call, peer, viewers, cut, crossed, hostUp>>
    BY <1>11 DEF OnAnswer, Arrived
  <2>2. SettingUp' = SettingUp /\ Known' = Known
    BY <2>1 DEF SettingUp, Known
  <2>3. HostWillKnow'
    BY <1>1, <1>2, <2>1, <2>2, KnowsRest DEF Turns
  <2> QED
    BY <1>2, <1>4, <2>1, <2>2, <2>3
<1>12. CASE OnViewerLeft
  <2>1. /\ toHost # <<>> /\ Head(toHost).kind = "VIEWER_LEFT" /\ toHost' = Tail(toHost)
        /\ seat' = seat /\ hostUp' = hostUp /\ cut' = cut /\ call' = call /\ ClearPeers
    BY <1>12 DEF OnViewerLeft, Arrived
  <2>2. OneAtATime' /\ Listed' /\ ~Known'
    BY <2>1, ClearKeeps
  <2>3. HostWillKnow'
    BY <1>1, <1>2, <2>1, <2>2, KnowsRest
  <2> QED
    BY <1>2, <2>1, <2>2, <2>3 DEF HostCore
<1>13. CASE Kick
  <2>1. seat' = None /\ hostUp' /\ UNCHANGED <<streamRef, callVars>>
        /\ toHost' = IF seat = None THEN toHost ELSE SendHost(Kind("VIEWER_LEFT"))
    BY <1>2, <1>13 DEF Kick, KickSeat
  <2>2. UNCHANGED <<call, hpc, peer, viewers, cut, crossed>> /\ SettingUp' = SettingUp /\ Known' = Known
    BY <2>1 DEF callVars, SettingUp, Known
  <2>3. HostWillKnow'
    <3>1. CASE seat = None
      BY <1>5, <2>1, <2>2, <3>1
    <3>2. CASE seat # None
      <4>1. toHost' = Append(toHost, Kind("VIEWER_LEFT"))
        BY <1>2, <2>1, <3>2 DEF SendHost
      <4>2. Kind("VIEWER_LEFT") \in Messages /\ Kind("VIEWER_LEFT").kind = "VIEWER_LEFT"
        BY KindIsMessage DEF HostKinds, Kind
      <4> QED
        BY <1>1, <1>2, <2>1, <2>2, <3>2, <4>1, <4>2, KnowsMore DEF Turns
    <3> QED
      BY <3>1, <3>2
  <2> QED
    BY <1>2, <1>4, <2>1, <2>2, <2>3
<1>14. CASE KickDone
  BY <1>3, <1>14 DEF KickDone
<1>15. CASE HostLost
  BY <1>15 DEF HostLost, HostSocketLost, Clean
<1>16. CASE HostReturns
  BY <1>2, <1>16 DEF HostReturns
<1> QED
  BY <1>6, <1>7, <1>8, <1>9, <1>10, <1>11, <1>12, <1>13, <1>14, <1>15, <1>16 DEF HostStep

\* Trouble is not forgotten.
LEMMA TroubleStays ==
    TypeOK /\ [Next]_vars => /\ trouble = "unheard" => trouble' = "unheard"
                             /\ trouble # "none" => trouble' # "none"
<1> SUFFICES ASSUME TypeOK, [Next]_vars
             PROVE  /\ trouble = "unheard" => trouble' = "unheard"
                    /\ trouble # "none" => trouble' # "none"
  OBVIOUS
<1>1. ASSUME NEW a \in Attempts, GatewayStep(a)
      PROVE  trouble' = trouble \/ trouble' = "unheard"
  BY <1>1 DEF GatewayStep, Ask, Admit, Refuse, CloseArrives, LoseSocket, Troubled
<1>2. ASSUME NEW a \in Attempts, PageStep(a) \/ Media(a)
      PROVE  trouble' = trouble
  BY <1>2 DEF PageStep, Connect, Create, PeerCreated, PeerFails, SocketOpens, SocketFails,
              SocketCloses, OnProgress, OnHostDisconnected, OnEnd, OnOffer, AnswerReady, OnIce,
              End, Ignored, others, Media, MediaChanges, relayVars
<1>3. CASE Timeout \/ \E next \in {"idle", "left"} : Stop(next)
  BY <1>3 DEF Timeout, Stop, End, others
<1>4. CASE HostStep
  BY <1>4 DEF HostStep, StartCapture, StopCapture, OnViewerJoined, PeerMade, OfferMade, SendIce,
              OnAnswer, OnViewerLeft, Kick, KickDone, HostLost, HostSocketLost, HostReturns,
              relayVars, Troubled
<1>5. CASE UNCHANGED vars
  BY <1>5 DEF vars, relayVars
<1> QED
  BY <1>1, <1>2, <1>3, <1>4, <1>5 DEF Next

LEMMA HostInvNext == TypeOK /\ HostInv /\ [Next]_vars => HostInv'
<1> SUFFICES ASSUME TypeOK, HostInv, [Next]_vars, Clean' PROVE HostCore'
  BY DEF HostInv
<1>1. HostCore
  BY TroubleStays DEF HostInv, Clean
<1>2. CASE (Timeout \/ \E next \in {"idle", "left"} : Stop(next)) /\ UNCHANGED hostVars
  <2>1. UNCHANGED <<toHost, seat, hostUp>>
    BY <1>2 DEF Timeout, Stop, End, others
  <2> QED
    BY <1>1, <1>2, <2>1, HostUntold DEF HostCore
<1>3. CASE UNCHANGED vars
  BY <1>1, <1>3, HostUntold DEF vars, relayVars, HostCore
<1> QED
  BY <1>1, <1>2, <1>3, HostInvGateway, HostInvPage, HostInvHost DEF Next

\* Crossed calls aside, the peer that sends is the one in the map, whoever is on
\* the list when all is quiet has the seat, and only a crossed call puts the
\* viewer on the list twice, in whatever order joins, departures, kicks and
\* awaits come: useWebRTCHost.ts.
THEOREM ListTrue == Spec => []ListIsTrue
<1>1. TypeOK /\ HostInv => ListIsTrue
  <2> SUFFICES ASSUME TypeOK, HostCore PROVE ListIsTrue
    BY DEF HostInv, Clean, ListIsTrue
  <2>1. ASSUME Quiet, peer \notin {None} \cup crossed PROVE seat # None
    <3>1. Len(toHost) = 0 /\ Known
      BY <2>1 DEF Quiet, Known
    <3> QED
      BY <3>1 DEF HostCore, HostWillKnow
  <2>2. \A c \in Calls \ crossed : hpc[c] = "open" <=> peer = c
    BY RelayAssumption DEF HostCore, OneAtATime, Listed
  <2> QED
    BY <2>1, <2>2 DEF HostCore, Listed, ListIsTrue
<1> QED
  BY <1>1, TypeCorrect, HostInvInit, HostInvNext, PTL DEF Spec
-----------------------------------------------------------------------------
(* The negotiation                                                           *)

IsOffer(m) == m.kind = "OFFER"
IsAnswer(m, a, c) == m.kind = "ANSWER" /\ m.attempt = a /\ m.call = c

\* Of the messages in q: an offer of the call c; any offer; whether that of c
\* is the last; an answer of the attempt a to c; nobody joined or left.
Offered(q, c) == \E i \in 1..Len(q) : IsOffer(q[i]) /\ q[i].call = c
NoOffer(q) == \A i \in 1..Len(q) : ~IsOffer(q[i])
LastOffer(q, c) == \A i, j \in 1..Len(q) : i < j /\ IsOffer(q[i]) /\ q[i].call = c => ~IsOffer(q[j])
Answers(q, a, c) == \E i \in 1..Len(q) : IsAnswer(q[i], a, c)
Silent(q) == \A i \in 1..Len(q) : q[i].kind \notin Turns

\* Something of the call c has reached, or will reach, the attempt a.
Carries(a, c) ==
    \/ Offered(toViewer[a], c) \/ remote[a] = c
    \/ Answers(toHost, a, c) \/ answered[c] = a

\* The host has heard of all who joined or left.
Informed == Silent(toHost)

\* Whose socket has not opened yet has asked for nothing.
SeatIsOpened == \A a \in Attempts :
    sock[a] \in {"none", "connecting"} \/ stage[a] \in {"unused", "peer"}
    => request[a] = "none" /\ seat # a

\* If the last that is said is that the viewer left, nobody has the seat.
LeftIsOut == \A i \in 1..Len(toHost) :
    /\ toHost[i].kind = "VIEWER_LEFT"
    /\ \A j \in 1..Len(toHost) : i < j => toHost[j].kind \notin Turns
    => seat = None

\* Nobody has heard of a call before its offer is made.
FreshIsUnknown ==
    \A c \in Calls : call[c] \in {"unused", "peer", "offer"} =>
        \A a \in Attempts : ~Carries(a, c)

Served == seat # None => SettingUp # {} \/ peer # None

\* A peer that took an answer to another's offer is misled.
ForeignIsMisled == \A c \in Calls : answered[c] = Foreign => c \in misled

\* The peer in the map has met no other call, and none is about to take its place.
Alone == peer \notin {None} \cup misled /\ SettingUp = {}

\* The peer in the map is known to the page that has the seat only, and nothing
\* was offered to that page after it.
PeerIsSeats ==
    peer # None =>
        /\ \A a \in Attempts : Carries(a, peer) => a = seat
        /\ LastOffer(toViewer[seat], peer)
        /\ remote[seat] = peer => NoOffer(toViewer[seat])

\* Its offer or the answer is on the way, or both ends have agreed.
UnderWay ==
    peer # None /\ call[peer] # "offer" /\ sock[seat] = "open" =>
        \/ Offered(toViewer[seat], peer)
        \/ /\ remote[seat] = peer
           /\ pc[seat] = "answering" \/ Answers(toHost, seat, peer) \/ answered[peer] = seat

NegotiationCore ==
    /\ LeftIsOut /\ FreshIsUnknown /\ ForeignIsMisled
    /\ \A c \in Calls : call[c] \in {"unused", "peer"} => peer # c
    /\ Informed => Served
    /\ Informed /\ seat # None /\ Alone =>
          PeerIsSeats /\ (seat \in strayed \/ UnderWay)

NegotiationInv == SeatIsOpened /\ (trouble = "none" => NegotiationCore)

-----------------------------------------------------------------------------
(* The queues of the negotiation                                             *)

LEMMA AfterAppend ==
    ASSUME NEW q \in Seq(Messages), NEW m \in Messages
    PROVE  /\ \A c : Offered(Append(q, m), c) <=> Offered(q, c) \/ (IsOffer(m) /\ m.call = c)
           /\ NoOffer(Append(q, m)) <=> NoOffer(q) /\ ~IsOffer(m)
           /\ \A c : LastOffer(q, c) /\ (IsOffer(m) => ~Offered(q, c)) => LastOffer(Append(q, m), c)
           /\ \A a, c : Answers(Append(q, m), a, c) <=> Answers(q, a, c) \/ IsAnswer(m, a, c)
           /\ Silent(Append(q, m)) <=> Silent(q) /\ m.kind \notin Turns
<1> DEFINE n == Len(q)
           w == Append(q, m)
<1>1. n \in Nat /\ Len(w) = n + 1 /\ w[n + 1] = m /\ \A i \in 1..n : w[i] = q[i]
  BY AppendProperties, LenProperties
<1> HIDE DEF n, w
<1>2. /\ \A i \in 1..(n + 1) : i \in 1..n \/ i = n + 1
      /\ \A i \in 1..n : i \in 1..(n + 1)
      /\ n + 1 \in 1..(n + 1)
  BY <1>1
<1>3. n = Len(q) /\ w = Append(q, m)
  BY DEF n, w
<1>4. \A c : Offered(w, c) <=> Offered(q, c) \/ (IsOffer(m) /\ m.call = c)
  BY <1>1, <1>2, <1>3 DEF Offered
<1>5. NoOffer(w) <=> NoOffer(q) /\ ~IsOffer(m)
  BY <1>1, <1>2, <1>3 DEF NoOffer
<1>6. ASSUME NEW c, LastOffer(q, c), IsOffer(m) => ~Offered(q, c)
      PROVE  LastOffer(w, c)
  <2> SUFFICES ASSUME NEW i \in 1..(n + 1), NEW j \in 1..(n + 1), i < j,
                      IsOffer(w[i]), w[i].call = c
               PROVE  ~IsOffer(w[j])
    BY <1>1 DEF LastOffer
  <2>1. i \in 1..n
    BY <1>1
  <2>2. CASE j \in 1..n
    BY <1>1, <1>3, <1>6, <2>1, <2>2 DEF LastOffer
  <2>3. CASE j = n + 1
    BY <1>1, <1>3, <1>6, <2>1, <2>3 DEF Offered
  <2> QED
    BY <1>2, <2>2, <2>3
<1>7. \A a, c : Answers(w, a, c) <=> Answers(q, a, c) \/ IsAnswer(m, a, c)
  BY <1>1, <1>2, <1>3 DEF Answers
<1>8. Silent(w) <=> Silent(q) /\ m.kind \notin Turns
  BY <1>1, <1>2, <1>3 DEF Silent
<1> QED
  BY <1>3, <1>4, <1>5, <1>6, <1>7, <1>8

LEMMA AfterTail ==
    ASSUME NEW q \in Seq(Messages), q # <<>>
    PROVE  /\ \A c : Offered(q, c) <=> Offered(Tail(q), c) \/ (IsOffer(Head(q)) /\ Head(q).call = c)
           /\ NoOffer(q) => NoOffer(Tail(q))
           /\ \A c : LastOffer(q, c) => LastOffer(Tail(q), c)
           /\ \A c : LastOffer(q, c) /\ IsOffer(Head(q)) /\ Head(q).call = c => NoOffer(Tail(q))
           /\ \A a, c : Answers(q, a, c) <=> Answers(Tail(q), a, c) \/ IsAnswer(Head(q), a, c)
           /\ Silent(q) <=> Silent(Tail(q)) /\ Head(q).kind \notin Turns
<1> DEFINE n == Len(q) - 1
           w == Tail(q)
           h == Head(q)
<1>1. /\ n \in Nat /\ Len(q) = n + 1 /\ Len(w) = n /\ h = q[1]
      /\ \A i \in 1..n : w[i] = q[i + 1]
  BY HeadOfQueue
<1> HIDE DEF n, w, h
<1>2. /\ \A i \in 1..n : i + 1 \in 1..(n + 1) /\ 1 < i + 1
      /\ \A i, j \in 1..n : i < j => i + 1 < j + 1
      /\ 1 \in 1..(n + 1)
  BY <1>1
<1>3. ASSUME NEW i \in 1..(n + 1)
      PROVE  (i = 1 /\ q[i] = h) \/ \E k \in 1..n : i = k + 1 /\ q[i] = w[k]
  <2>1. CASE i = 1
    BY <1>1, <2>1
  <2>2. CASE i # 1
    <3>1. i - 1 \in 1..n /\ i = (i - 1) + 1
      BY <1>1, <2>2
    <3> QED
      BY <1>1, <3>1
  <2> QED
    BY <2>1, <2>2
<1>4. \A c : Offered(q, c) <=> Offered(w, c) \/ (IsOffer(h) /\ h.call = c)
  BY <1>1, <1>2, <1>3 DEF Offered
<1>5. NoOffer(q) => NoOffer(w)
  BY <1>1, <1>2 DEF NoOffer
<1>6. \A c : LastOffer(q, c) => LastOffer(w, c)
  <2> SUFFICES ASSUME NEW c, LastOffer(q, c), NEW i \in 1..n, NEW j \in 1..n, i < j,
                      IsOffer(w[i]), w[i].call = c
               PROVE  ~IsOffer(w[j])
    BY <1>1 DEF LastOffer
  <2>1. i + 1 \in 1..Len(q) /\ j + 1 \in 1..Len(q) /\ i + 1 < j + 1
    BY <1>1, <1>2
  <2> QED
    BY <1>1, <2>1 DEF LastOffer
<1>7. \A c : LastOffer(q, c) /\ IsOffer(h) /\ h.call = c => NoOffer(w)
  <2> SUFFICES ASSUME NEW c, LastOffer(q, c), IsOffer(h), h.call = c, NEW i \in 1..n
               PROVE  ~IsOffer(w[i])
    BY <1>1 DEF NoOffer
  <2>1. 1 \in 1..Len(q) /\ i + 1 \in 1..Len(q) /\ 1 < i + 1
    BY <1>1, <1>2
  <2> QED
    BY <1>1, <2>1 DEF LastOffer
<1>8. \A a, c : Answers(q, a, c) <=> Answers(w, a, c) \/ IsAnswer(h, a, c)
  BY <1>1, <1>2, <1>3 DEF Answers
<1>9. Silent(q) <=> Silent(w) /\ h.kind \notin Turns
  BY <1>1, <1>2, <1>3 DEF Silent
<1> QED
  BY <1>4, <1>5, <1>6, <1>7, <1>8, <1>9 DEF w, h

LEMMA AfterNothing ==
    /\ \A c : ~Offered(<<>>, c) /\ LastOffer(<<>>, c)
    /\ NoOffer(<<>>) /\ Silent(<<>>)
    /\ \A a, c : ~Answers(<<>>, a, c)
<1>1. Len(<<>>) = 0
  OBVIOUS
<1> QED
  BY <1>1 DEF Offered, LastOffer, NoOffer, Silent, Answers

\* More is said of the seat.
LEMMA LeftMore ==
    ASSUME LeftIsOut, toHost \in Seq(Messages), NEW m \in Messages, toHost' = Append(toHost, m),
           m.kind = "VIEWER_LEFT" => seat' = None,
           m.kind \notin Turns => seat' = seat
    PROVE  LeftIsOut'
<1> DEFINE n == Len(toHost)
<1>1. /\ n \in Nat /\ Len(toHost') = n + 1 /\ toHost'[n + 1] = m
      /\ \A i \in 1..n : toHost'[i] = toHost[i]
  BY AppendProperties, LenProperties
<1> SUFFICES ASSUME NEW i \in 1..(n + 1), toHost'[i].kind = "VIEWER_LEFT",
                    \A j \in 1..(n + 1) : i < j => toHost'[j].kind \notin Turns
             PROVE  seat' = None
  BY <1>1 DEF LeftIsOut
<1>2. CASE i = n + 1
  BY <1>1, <1>2
<1>3. CASE i \in 1..n
  <2>1. m.kind \notin Turns
    <3>1. n + 1 \in 1..(n + 1) /\ i < n + 1
      BY <1>1, <1>3
    <3> QED
      BY <1>1, <3>1
  <2>2. \A j \in 1..n : i < j => toHost[j].kind \notin Turns
    <3>1. \A j \in 1..n : j \in 1..(n + 1)
      BY <1>1
    <3> QED
      BY <1>1, <3>1
  <2> QED
    BY <1>1, <1>3, <2>1, <2>2 DEF LeftIsOut
<1> QED
  BY <1>1, <1>2, <1>3

\* The host hears a message; if what it hears is that the viewer left, and
\* nobody joins or leaves after it, nobody has the seat.
LEMMA LeftRest ==
    ASSUME LeftIsOut, toHost \in Seq(Messages), toHost # <<>>, toHost' = Tail(toHost), seat' = seat
    PROVE  /\ LeftIsOut'
           /\ Head(toHost).kind = "VIEWER_LEFT" /\ Silent(Tail(toHost)) => seat = None
<1> DEFINE n == Len(toHost) - 1
<1>1. /\ n \in Nat /\ Len(toHost) = n + 1 /\ Len(Tail(toHost)) = n /\ Head(toHost) = toHost[1]
      /\ \A i \in 1..n : Tail(toHost)[i] = toHost[i + 1]
  BY HeadOfQueue
<1> HIDE DEF n
<1>2. ASSUME NEW j \in 1..(n + 1), j # 1
      PROVE  j - 1 \in 1..n /\ toHost[j] = Tail(toHost)[j - 1]
  <2>1. j - 1 \in 1..n /\ (j - 1) + 1 = j
    BY <1>1, <1>2
  <2> QED
    BY <1>1, <2>1
<1>3. ASSUME NEW i \in 1..n, Tail(toHost)[i].kind = "VIEWER_LEFT",
             \A j \in 1..n : i < j => Tail(toHost)[j].kind \notin Turns
      PROVE  seat = None
  <2>1. i + 1 \in 1..(n + 1) /\ toHost[i + 1].kind = "VIEWER_LEFT"
    BY <1>1, <1>3
  <2>2. ASSUME NEW j \in 1..(n + 1), i + 1 < j
        PROVE  toHost[j].kind \notin Turns
    <3>1. j # 1 /\ i < j - 1
      BY <1>1, <2>2
    <3> QED
      BY <1>2, <1>3, <3>1
  <2> QED
    BY <1>1, <2>1, <2>2 DEF LeftIsOut
<1>4. LeftIsOut'
  BY <1>1, <1>3 DEF LeftIsOut
<1>5. ASSUME Head(toHost).kind = "VIEWER_LEFT", Silent(Tail(toHost))
      PROVE  seat = None
  <2>1. 1 \in 1..(n + 1) /\ toHost[1].kind = "VIEWER_LEFT"
    BY <1>1, <1>5
  <2>2. ASSUME NEW j \in 1..(n + 1), 1 < j
        PROVE  toHost[j].kind \notin Turns
    BY <1>1, <1>2, <1>5, <2>2 DEF Silent
  <2> QED
    BY <1>1, <2>1, <2>2 DEF LeftIsOut
<1> QED
  BY <1>4, <1>5

-----------------------------------------------------------------------------
(* The steps of the negotiation                                              *)

\* The offers in r are of those of q, in their order, or all of them.
Fewer(q, r) ==
    /\ \A c \in Calls : (Offered(r, c) => Offered(q, c)) /\ (LastOffer(q, c) => LastOffer(r, c))
    /\ NoOffer(q) => NoOffer(r)
Calm(q, r) == Fewer(q, r) /\ \A c \in Calls : Offered(q, c) => Offered(r, c)

\* A step leaves the attempt x as it is, or takes offers it has, or all it has.
Same(x) == Fewer(toViewer[x], toViewer'[x]) /\ remote'[x] = remote[x]
Gone(x) == toViewer'[x] = <<>> /\ remote'[x] = None /\ sock'[x] # "open"
SameSeat(x) ==
    /\ Calm(toViewer[x], toViewer'[x]) /\ remote'[x] = remote[x]
    /\ pc[x] = "answering" => pc'[x] = "answering"
    /\ sock'[x] = "open" => sock[x] = "open"

LEMMA CalmSteps ==
    /\ \A q : Calm(q, q)
    /\ \A q \in Seq(Messages), m \in Messages : ~IsOffer(m) => Calm(q, Append(q, m))
    /\ \A q \in Seq(Messages) : q # <<>> /\ ~IsOffer(Head(q)) => Calm(q, Tail(q))
    /\ \A q \in Seq(Messages) : q # <<>> => Fewer(q, Tail(q))
<1>1. \A q : Calm(q, q)
  BY DEF Calm, Fewer
<1>2. ASSUME NEW q \in Seq(Messages), NEW m \in Messages, ~IsOffer(m)
      PROVE  Calm(q, Append(q, m))
  BY <1>2, AfterAppend DEF Calm, Fewer
<1>3. ASSUME NEW q \in Seq(Messages), q # <<>>
      PROVE  Fewer(q, Tail(q)) /\ (~IsOffer(Head(q)) => Calm(q, Tail(q)))
  BY <1>3, AfterTail DEF Calm, Fewer
<1> QED
  BY <1>1, <1>2, <1>3

LEMMA NegKept ==
    ASSUME TypeOK, NegotiationCore, UNCHANGED hostVars,
           \/ toHost' = toHost /\ seat' = seat
           \/ \E m \in Messages : /\ toHost' = Append(toHost, m) /\ m.kind \in Turns
                                  /\ m.kind = "VIEWER_LEFT" => seat' = None,
           strayed \subseteq strayed',
           \A x \in Attempts : Same(x) \/ Gone(x),
           \A x \in Attempts : x = seat => x \in strayed' \/ SameSeat(x) \/ Gone(x)
    PROVE  NegotiationCore'
<1>1. /\ UNCHANGED <<call, hpc, answered, peer, crossed, misled>>
      /\ toHost \in Seq(Messages) /\ seat \in Attempts \cup {None}
      /\ peer \in Calls \cup {None} /\ None \notin Calls
  BY RelayAssumption DEF hostVars, callVars, TypeOK, RelayTypeOK, HostTypeOK
<1>2. \A a, c : Answers(toHost', a, c) <=> Answers(toHost, a, c)
  <2>1. \A m : m.kind \in Turns => m.kind # "ANSWER"
    BY DEF Turns
  <2>2. CASE toHost' = toHost
    BY <2>2
  <2>3. ASSUME NEW m \in Messages, toHost' = Append(toHost, m), m.kind \in Turns
        PROVE  \A a, c : Answers(toHost', a, c) <=> Answers(toHost, a, c)
    BY <1>1, <2>1, <2>3, AfterAppend DEF IsAnswer
  <2> QED
    BY <2>2, <2>3
<1>3. ASSUME NEW a \in Attempts, NEW c \in Calls, Carries(a, c)'
      PROVE  Carries(a, c)
  <2>1. CASE Same(a)
    BY <1>1, <1>2, <1>3, <2>1 DEF Carries, Same, Fewer
  <2>2. CASE Gone(a)
    BY <1>1, <1>2, <1>3, <2>2, AfterNothing DEF Carries, Gone
  <2> QED
    BY <2>1, <2>2
<1>4. Informed' => Informed /\ toHost' = toHost /\ seat' = seat
  <2>1. CASE toHost' = toHost /\ seat' = seat
    BY <2>1 DEF Informed
  <2>2. ASSUME NEW m \in Messages, toHost' = Append(toHost, m), m.kind \in Turns
        PROVE  ~Informed'
    BY <1>1, <2>2, AfterAppend DEF Informed
  <2> QED
    BY <2>1, <2>2
<1>5. LeftIsOut'
  <2>1. CASE toHost' = toHost /\ seat' = seat
    BY <2>1 DEF NegotiationCore, LeftIsOut
  <2>2. ASSUME NEW m \in Messages, toHost' = Append(toHost, m), m.kind \in Turns,
               m.kind = "VIEWER_LEFT" => seat' = None
        PROVE  LeftIsOut'
    BY <1>1, <2>2, LeftMore DEF NegotiationCore
  <2> QED
    BY <2>1, <2>2
<1>6. FreshIsUnknown' /\ ForeignIsMisled'
  BY <1>1, <1>3 DEF NegotiationCore, FreshIsUnknown, ForeignIsMisled
<1>7. Informed' => Served'
  BY <1>1, <1>4 DEF NegotiationCore, Served, SettingUp
<1>8. ASSUME Informed', seat' # None, Alone'
      PROVE  PeerIsSeats' /\ (seat' \in strayed' \/ UnderWay')
  <2>1. /\ Informed /\ seat' = seat /\ seat \in Attempts /\ peer \in Calls
        /\ PeerIsSeats /\ (seat \in strayed \/ UnderWay)
    BY <1>1, <1>4, <1>8 DEF NegotiationCore, Alone, SettingUp
  <2>2. PeerIsSeats'
    <3>1. CASE Same(seat)
      BY <1>1, <1>3, <2>1, <3>1 DEF PeerIsSeats, Same, Fewer
    <3>2. CASE Gone(seat)
      BY <1>1, <1>3, <2>1, <3>2, AfterNothing DEF PeerIsSeats, Gone
    <3> QED
      BY <2>1, <3>1, <3>2
  <2>3. CASE SameSeat(seat) /\ ~(seat \in strayed)
    BY <1>1, <1>2, <2>1, <2>2, <2>3 DEF UnderWay, Calm, SameSeat
  <2>4. CASE Gone(seat)
    BY <2>1, <2>2, <2>4 DEF UnderWay, Gone
  <2>5. CASE seat \in strayed'
    BY <2>1, <2>2, <2>5
  <2> QED
    BY <2>1, <2>3, <2>4, <2>5
<1> QED
  BY <1>1, <1>5, <1>6, <1>7, <1>8 DEF NegotiationCore

\* What is sent is no offer: all keep the offers they have.
LEMMA SendKeeps ==
    ASSUME TypeOK, NEW a \in Attempts \cup {None}, NEW m \in Messages, ~IsOffer(m)
    PROVE  \A x \in Attempts : Calm(toViewer[x], Send(a, m)[x])
<1>1. toViewer \in [Attempts -> Seq(Messages)]
  BY DEF TypeOK, RelayTypeOK
<1> SUFFICES ASSUME NEW x \in Attempts PROVE Calm(toViewer[x], Send(a, m)[x])
  OBVIOUS
<1>2. toViewer[x] \in Seq(Messages)
  BY <1>1
<1>3. Send(a, m)[x] \in {toViewer[x], Append(toViewer[x], m)}
  BY <1>1 DEF Send
<1> QED
  BY <1>2, <1>3, CalmSteps

LEMMA NegGateway ==
    ASSUME TypeOK, NegotiationCore, NEW a \in Attempts, GatewayStep(a),
           UNCHANGED <<viewerVars, hostVars>>, hostUp
    PROVE  NegotiationCore'
<1>1. /\ seat \in Attempts \cup {None} /\ None \notin Attempts /\ UNCHANGED <<remote, pc, strayed>>
      /\ sock \in [Attempts -> {"none", "connecting", "open", "severed", "closing", "closed"}]
  BY RelayAssumption DEF TypeOK, RelayTypeOK, viewerVars
<1>2. \A k \in {"PENDING", "APPROVED", "REJECTED", "VIEWER_JOINED", "VIEWER_LEFT"} :
          Kind(k) \in Messages /\ ~IsOffer(Kind(k)) /\ Kind(k).kind = k
  <2>1. \A k \in {"PENDING", "APPROVED", "REJECTED", "VIEWER_JOINED", "VIEWER_LEFT"} :
            k \in ViewerKinds \cup HostKinds
    BY DEF ViewerKinds, HostKinds
  <2> QED
    BY <2>1, KindIsMessage DEF IsOffer, Kind
<1>3. \A x \in Attempts : Calm(toViewer[x], toViewer'[x])
  <2>1. \/ toViewer' = toViewer
        \/ \E k \in {"PENDING", "APPROVED", "REJECTED"} : toViewer' = Send(a, Kind(k))
    BY DEF GatewayStep, Ask, Admit, Refuse, CloseArrives, LoseSocket
  <2> QED
    BY <1>1, <1>2, <2>1, SendKeeps, CalmSteps
<1>4. \A x \in Attempts : sock'[x] = "open" => sock[x] = "open"
  BY <1>1 DEF GatewayStep, Ask, Admit, Refuse, CloseArrives, LoseSocket
<1>5. \/ toHost' = toHost /\ seat' = seat
      \/ \E m \in Messages : /\ toHost' = Append(toHost, m) /\ m.kind \in Turns
                             /\ m.kind = "VIEWER_LEFT" => seat' = None
  <2>1. CASE Ask(a) \/ Refuse(a)
    BY <2>1 DEF Ask, Refuse
  <2>2. CASE Admit(a)
    BY <1>2, <2>2 DEF Admit, SendHost, Turns
  <2>3. CASE CloseArrives(a) \/ LoseSocket(a)
    BY <1>2, <2>3 DEF CloseArrives, LoseSocket, Forget, SendHost, Turns
  <2> QED
    BY <2>1, <2>2, <2>3 DEF GatewayStep
<1> QED
  BY <1>1, <1>3, <1>4, <1>5, NegKept DEF SameSeat, Same, Calm

\* Whose socket has not opened keeps the little it has.
LEMMA SeatSame ==
    ASSUME TypeOK, SeatIsOpened, seat' \in {seat, None},
           \A x \in Attempts : request[x] = "none" => request'[x] = "none",
           \A x \in Attempts :
              sock'[x] \in {"none", "connecting"} \/ stage'[x] \in {"unused", "peer"}
              => sock[x] \in {"none", "connecting"} \/ stage[x] \in {"unused", "peer"}
    PROVE  SeatIsOpened'
BY RelayAssumption DEF SeatIsOpened

LEMMA SeatNext == TypeOK /\ PageInv /\ SeatIsOpened /\ [Next]_vars => SeatIsOpened'
<1> SUFFICES ASSUME TypeOK, PageInv, SeatIsOpened, [Next]_vars PROVE SeatIsOpened'
  OBVIOUS
<1>1. /\ sock \in [Attempts -> {"none", "connecting", "open", "severed", "closing", "closed"}]
      /\ request \in [Attempts -> {"none", "sent", "pending", "over"}]
      /\ seat \in Attempts \cup {None} /\ refs \in Attempts \cup {None} /\ None \notin Attempts
      /\ stage \in [Attempts -> {"unused", "peer", "up", "over"}]
  BY RelayAssumption DEF TypeOK, RelayTypeOK, ViewerTypeOK
<1>2. ASSUME UNCHANGED <<request, seat>>,
             \A x \in Attempts : sock'[x] \in {"none", "connecting"} => sock'[x] = sock[x],
             \A x \in Attempts : stage'[x] \in {"unused", "peer"} => stage[x] \in {"unused", "peer"}
      PROVE  SeatIsOpened'
  BY <1>2, SeatSame
<1>3. ASSUME NEW a \in Attempts, GatewayStep(a), UNCHANGED viewerVars
      PROVE  SeatIsOpened'
  <2>1. stage' = stage
    BY <1>3 DEF viewerVars
  <2>2. CASE Admit(a)
    <3>1. \A x \in Attempts : sock'[x] \in {"none", "connecting"} => sock'[x] = sock[x]
      BY <1>1, <2>2 DEF Admit
    <3>2. /\ request[a] # "none" /\ seat' = a
          /\ \A x \in Attempts : x # a => request'[x] = request[x]
      BY <1>1, <2>2 DEF Admit
    <3> QED
      BY <2>1, <3>1, <3>2 DEF SeatIsOpened
  <2>3. CASE Ask(a) \/ Refuse(a) \/ CloseArrives(a) \/ LoseSocket(a)
    <3>1. /\ seat' \in {seat, None}
          /\ \A x \in Attempts : request[x] = "none" => request'[x] = "none"
          /\ \A x \in Attempts : sock'[x] \in {"none", "connecting"} => sock'[x] = sock[x]
      BY <1>1, <2>3 DEF Ask, Refuse, CloseArrives, LoseSocket, Forget
    <3> QED
      BY <2>1, <3>1, SeatSame
  <2> QED
    BY <1>3, <2>2, <2>3 DEF GatewayStep
<1>4. ASSUME NEW socks, NEW queues, Cleanup(socks, queues),
             \A x \in Attempts : socks[x] \in {"none", "connecting"} => socks[x] = sock[x]
      PROVE  \A x \in Attempts : sock'[x] \in {"none", "connecting"} => sock'[x] = sock[x]
  BY <1>1, <1>4 DEF Cleanup, CloseSocket
<1>5. ASSUME NEW a \in Attempts, PageStep(a) \/ Media(a)
      PROVE  SeatIsOpened'
  <2>1. CASE PeerCreated(a)
    <3>1. /\ UNCHANGED <<request, seat>> /\ stage[a] = "peer"
          /\ sock' = [sock EXCEPT ![a] = "connecting"] /\ stage' = [stage EXCEPT ![a] = "up"]
      BY <2>1 DEF PeerCreated, others
    <3> QED
      BY <1>1, <3>1 DEF SeatIsOpened
  <2>2. CASE SocketOpens(a)
    <3>1. stage[a] = "up"
      BY <1>1, <2>2 DEF SocketOpens, PageInv, CreatingIsFresh
    <3>2. /\ sock' = [sock EXCEPT ![a] = "open"]
          /\ UNCHANGED <<seat, stage>> /\ request' \in {request, [request EXCEPT ![a] = "sent"]}
      BY <2>2 DEF SocketOpens, viewerVars
    <3> QED
      BY <1>1, <3>1, <3>2 DEF SeatIsOpened
  <2>3. CASE ~PeerCreated(a) /\ ~SocketOpens(a)
    <3>1. UNCHANGED <<request, seat>>
      BY <1>5, <2>3 DEF PageStep, Create, Connect, PeerFails, SocketFails, SocketCloses, OnProgress,
            OnHostDisconnected, OnEnd, OnOffer, OnIce, AnswerReady, End, Ignored, others,
            Media, MediaChanges, relayVars
    <3>2. \A x \in Attempts : stage'[x] \in {"unused", "peer"} => stage[x] \in {"unused", "peer"}
      BY <1>1, <1>5, <2>3 DEF PageStep, Create, Connect, PeerFails, SocketFails, SocketCloses,
            OnProgress, OnHostDisconnected, OnEnd, OnOffer, OnIce, AnswerReady, Received,
            Media, MediaChanges
    <3>3. \/ \E queues \in {toViewer, Rest(a)} :
                Cleanup(sock, queues) \/ Cleanup([sock EXCEPT ![a] = "closed"], queues)
          \/ sock' = sock \/ sock' = [sock EXCEPT ![a] = "closed"]
      BY <1>5, <2>3 DEF PageStep, Create, Connect, PeerFails, SocketFails, SocketCloses,
            OnProgress, OnHostDisconnected, OnEnd, OnOffer, OnIce, AnswerReady, End, Taken,
            Media, MediaChanges, relayVars
    <3>4. \A x \in Attempts : sock'[x] \in {"none", "connecting"} => sock'[x] = sock[x]
      <4>1. ASSUME NEW queues, Cleanup(sock, queues)
            PROVE  \A x \in Attempts : sock'[x] \in {"none", "connecting"} => sock'[x] = sock[x]
        BY <1>4, <4>1
      <4>2. ASSUME NEW queues, Cleanup([sock EXCEPT ![a] = "closed"], queues)
            PROVE  \A x \in Attempts : sock'[x] \in {"none", "connecting"} => sock'[x] = sock[x]
        <5>1. \A x \in Attempts : [sock EXCEPT ![a] = "closed"][x] \in {"none", "connecting"}
                                    => [sock EXCEPT ![a] = "closed"][x] = sock[x]
          BY <1>1
        <5> QED
          BY <1>4, <4>2, <5>1
      <4>3. CASE sock' = sock \/ sock' = [sock EXCEPT ![a] = "closed"]
        BY <1>1, <4>3
      <4> QED
        BY <3>3, <4>1, <4>2, <4>3
    <3> QED
      BY <1>2, <3>1, <3>2, <3>4
  <2> QED
    BY <2>1, <2>2, <2>3
<1>6. CASE Timeout \/ \E next \in {"idle", "left"} : Stop(next)
  <2>1. UNCHANGED <<request, seat, stage>> /\ (Cleanup(sock, toViewer) \/ sock' = sock)
    BY <1>6 DEF Timeout, Stop, End, others
  <2> QED
    BY <1>2, <1>4, <2>1
<1>7. CASE HostStep /\ UNCHANGED viewerVars
  <2>1. /\ stage' = stage /\ request' = request /\ seat' \in {seat, None}
        /\ \/ sock' = sock
           \/ sock' = [sock EXCEPT ![seat] = "severed"]
    BY <1>7 DEF HostStep, StartCapture, StopCapture, OnViewerJoined, PeerMade, OfferMade, SendIce,
                OnAnswer, OnViewerLeft, Kick, KickSeat, KickDone, HostLost, HostSocketLost,
                HostReturns, relayVars, viewerVars
  <2>2. \A x \in Attempts : sock'[x] \in {"none", "connecting"} => sock'[x] = sock[x]
    BY <1>1, <2>1
  <2> QED
    BY <2>1, <2>2, SeatSame
<1>8. CASE UNCHANGED vars
  BY <1>2, <1>8 DEF vars, relayVars, viewerVars
<1> QED
  BY <1>3, <1>5, <1>6, <1>7, <1>8 DEF Next

\* What a page cleans up takes all that its attempt had.
LEMMA NegCleanup ==
    ASSUME TypeOK, NegotiationCore, NEW socks, NEW queues, Cleanup(socks, queues),
           \A x \in Attempts : socks[x] = "open" => sock[x] = "open",
           \A x \in Attempts :
              \/ queues[x] = toViewer[x]
              \/ Fewer(toViewer[x], queues[x]) /\ x \in {refs} \cup strayed,
           strayed' = strayed, UNCHANGED <<toHost, seat, hostVars>>
    PROVE  NegotiationCore'
<1>1. /\ \A x \in Attempts : toViewer'[x] = IF x = refs THEN <<>> ELSE queues[x]
      /\ \A x \in Attempts : remote'[x] = IF x = refs THEN None ELSE remote[x]
      /\ \A x \in Attempts : sock'[x] = IF x # refs THEN socks[x]
                             ELSE IF socks[x] \in {"connecting", "open"} THEN "closing" ELSE "closed"
      /\ \A x \in Attempts : pc'[x] = IF x = refs THEN "closed" ELSE pc[x]
  BY DEF Cleanup, CloseSocket
<1>2. \A x \in Attempts : x \in strayed \/ Gone(x) \/ SameSeat(x)
  BY <1>1, CalmSteps DEF Gone, SameSeat
<1>3. \A x \in Attempts : Gone(x) \/ Same(x)
  BY <1>1, CalmSteps DEF Gone, Same, Calm
<1> QED
  BY <1>2, <1>3, NegKept

\* A page takes what is no offer.
LEMMA NegTaken ==
    ASSUME TypeOK, NegotiationCore, NEW a \in Attempts, toViewer[a] # <<>>,
           ~IsOffer(Head(toViewer[a])), Taken(a),
           UNCHANGED <<pc, remote, strayed, toHost, seat, hostVars>>
    PROVE  NegotiationCore'
<1>1. toViewer \in [Attempts -> Seq(Messages)]
  BY DEF TypeOK, RelayTypeOK
<1>2. \A x \in Attempts : toViewer'[x] = IF x = a THEN Tail(toViewer[a]) ELSE toViewer[x]
  BY <1>1 DEF Taken, Rest
<1>3. \A x \in Attempts : Calm(toViewer[x], toViewer'[x])
  BY <1>1, <1>2, CalmSteps
<1>4. \A x \in Attempts : SameSeat(x)
  BY <1>3 DEF SameSeat, Taken
<1>5. \A x \in Attempts : Same(x)
  BY <1>4 DEF SameSeat, Same, Calm
<1> QED
  BY <1>4, <1>5, NegKept

\* A page drops a message of an attempt that strayed.
LEMMA NegDropped ==
    ASSUME TypeOK, NegotiationCore, NEW a \in strayed, toViewer[a] # <<>>, Taken(a),
           UNCHANGED <<pc, remote, strayed, toHost, seat, hostVars>>
    PROVE  NegotiationCore'
<1>1. toViewer \in [Attempts -> Seq(Messages)] /\ a \in Attempts
  BY DEF TypeOK, RelayTypeOK, ViewerTypeOK
<1>2. \A x \in Attempts : toViewer'[x] = IF x = a THEN Tail(toViewer[a]) ELSE toViewer[x]
  BY <1>1 DEF Taken, Rest
<1>3. \A x \in Attempts : Same(x)
  BY <1>1, <1>2, CalmSteps DEF Same, Calm
<1>4. \A x \in Attempts : x # a => SameSeat(x)
  BY <1>2, CalmSteps DEF SameSeat, Taken
<1> QED
  BY <1>3, <1>4, NegKept

\* The page accepts an offer: if it is the seat's and of the peer in the map,
\* nothing newer is on the way.
LEMMA NegOffer ==
    ASSUME TypeOK, NegotiationCore, NEW a \in Attempts, toViewer[a] # <<>>,
           IsOffer(Head(toViewer[a])), Taken(a),
           pc' = [pc EXCEPT ![a] = "answering"],
           remote' = [remote EXCEPT ![a] = Head(toViewer[a]).call],
           UNCHANGED <<strayed, toHost, seat, hostVars>>
    PROVE  NegotiationCore'
<1> DEFINE q == toViewer[a]
<1>1. /\ UNCHANGED <<call, hpc, answered, peer, crossed, misled, sock>>
      /\ toViewer \in [Attempts -> Seq(Messages)] /\ seat \in Attempts \cup {None}
      /\ pc \in [Attempts -> {"none", "new", "answering", "answered", "connected", "closed"}]
      /\ remote \in [Attempts -> Calls \cup {None}]
      /\ peer \in Calls \cup {None} /\ None \notin Calls
  BY RelayAssumption DEF hostVars, callVars, Taken, TypeOK, RelayTypeOK, ViewerTypeOK, HostTypeOK
<1>2. /\ \A x \in Attempts : x # a =>
            toViewer'[x] = toViewer[x] /\ remote'[x] = remote[x] /\ pc'[x] = pc[x]
      /\ toViewer'[a] = Tail(q) /\ remote'[a] = Head(q).call /\ pc'[a] = "answering"
  BY <1>1 DEF Taken, Rest
<1>3. /\ \A c : Offered(q, c) <=> Offered(Tail(q), c) \/ Head(q).call = c
      /\ \A c : LastOffer(q, c) => LastOffer(Tail(q), c)
      /\ \A c : LastOffer(q, c) /\ Head(q).call = c => NoOffer(Tail(q))
  BY <1>1, AfterTail
<1>4. ~NoOffer(q)
  <2>1. 1 \in 1..Len(q) /\ Head(q) = q[1]
    BY <1>1, HeadOfQueue
  <2> QED
    BY <2>1 DEF NoOffer
<1> HIDE DEF q
<1>5. q = toViewer[a]
  BY DEF q
<1>6. ASSUME NEW x \in Attempts, NEW c \in Calls, Carries(x, c)'
      PROVE  Carries(x, c)
  <2>1. CASE x = a
    BY <1>1, <1>2, <1>3, <1>5, <1>6, <2>1 DEF Carries
  <2>2. CASE x # a
    BY <1>1, <1>2, <1>6, <2>2 DEF Carries
  <2> QED
    BY <2>1, <2>2
<1>7. LeftIsOut' /\ FreshIsUnknown' /\ ForeignIsMisled'
  BY <1>1, <1>6 DEF NegotiationCore, LeftIsOut, FreshIsUnknown, ForeignIsMisled
<1>8. (Informed' <=> Informed) /\ (Served' <=> Served)
  BY <1>1 DEF Informed, Served, SettingUp
<1>9. ASSUME Informed', seat' # None, Alone'
      PROVE  PeerIsSeats' /\ (seat' \in strayed' \/ UnderWay')
  <2>1. PeerIsSeats /\ (seat \in strayed \/ UnderWay) /\ seat \in Attempts /\ seat' = seat
    BY <1>1, <1>8, <1>9 DEF NegotiationCore, Alone, SettingUp
  <2>2. PeerIsSeats'
    BY <1>1, <1>2, <1>3, <1>5, <1>6, <2>1 DEF PeerIsSeats
  <2>3. UnderWay => UnderWay'
    <3>1. CASE seat = a
      <4>1. peer # None /\ remote[a] = peer => FALSE
        BY <1>4, <1>5, <2>1, <3>1 DEF PeerIsSeats
      <4>2. /\ toViewer'[a] = Tail(q) /\ remote'[a] = Head(q).call /\ pc'[a] = "answering"
            /\ Offered(q, peer) => Offered(Tail(q), peer) \/ Head(q).call = peer
        BY <1>2, <1>3, <1>5
      <4> QED
        BY <1>1, <1>5, <2>1, <3>1, <4>1, <4>2 DEF UnderWay
    <3>2. CASE seat # a
      BY <1>1, <1>2, <2>1, <3>2 DEF UnderWay
    <3> QED
      BY <3>1, <3>2
  <2> QED
    BY <2>1, <2>2, <2>3
<1> QED
  BY <1>1, <1>7, <1>8, <1>9 DEF NegotiationCore

\* The answer of a page is on its way to the host.
LEMMA NegAnswer ==
    ASSUME TypeOK, NegotiationCore, hostUp, NEW a \in Attempts, AnswerReady(a), UNCHANGED hostVars
    PROVE  NegotiationCore'
<1> DEFINE m == [kind |-> "ANSWER", attempt |-> a, call |-> remote[a]]
<1>1. /\ UNCHANGED <<call, hpc, answered, peer, crossed, misled, sock, seat, toViewer, remote, strayed>>
      /\ toHost \in Seq(Messages) /\ seat \in Attempts \cup {None}
      /\ pc \in [Attempts -> {"none", "new", "answering", "answered", "connected", "closed"}]
      /\ peer \in Calls \cup {None} /\ None \notin Calls
  BY RelayAssumption
     DEF hostVars, callVars, AnswerReady, TypeOK, RelayTypeOK, ViewerTypeOK, HostTypeOK
<1>2. pc[a] = "answering" /\ \A x \in Attempts : x # a => pc'[x] = pc[x]
  BY <1>1 DEF AnswerReady
<1>3. CASE sock[a] # "open"
  <2>1. toHost' = toHost
    BY <1>3 DEF AnswerReady
  <2>2. /\ \A x, c : Carries(x, c)' <=> Carries(x, c)
        /\ (Informed' <=> Informed) /\ (Served' <=> Served) /\ (PeerIsSeats' <=> PeerIsSeats)
        /\ (Alone' <=> Alone)
    BY <1>1, <2>1 DEF Carries, Informed, Served, SettingUp, PeerIsSeats, Alone
  <2>3. UnderWay /\ seat # None => UnderWay'
    BY <1>1, <1>2, <1>3, <2>1 DEF UnderWay
  <2> QED
    BY <1>1, <2>1, <2>2, <2>3 DEF NegotiationCore, LeftIsOut, FreshIsUnknown, ForeignIsMisled
<1>4. CASE sock[a] = "open"
  <2>1. /\ toHost' = Append(toHost, m) /\ m \in Messages /\ m.kind \notin Turns
        /\ m.kind = "ANSWER" /\ m.attempt = a /\ m.call = remote[a]
    BY <1>4, KindIsMessage
       DEF AnswerReady, RelayAnswer, SendHost, Turns, TypeOK, ViewerTypeOK
  <2> HIDE DEF m
  <2>2. /\ \A x, c : Answers(toHost', x, c) <=> Answers(toHost, x, c) \/ (x = a /\ c = remote[a])
        /\ Informed' <=> Informed
    BY <1>1, <2>1, AfterAppend DEF IsAnswer, Informed
  <2>3. LeftIsOut'
    <3>1. LeftIsOut /\ m.kind # "VIEWER_LEFT"
      BY <2>1 DEF NegotiationCore
    <3> QED
      BY <1>1, <2>1, <3>1, LeftMore
  <2>4. \A x \in Attempts, c \in Calls : Carries(x, c)' <=> Carries(x, c)
    BY <1>1, <2>2 DEF Carries
  <2>5. FreshIsUnknown' /\ ForeignIsMisled' /\ (Served' <=> Served) /\ (Alone' <=> Alone)
    BY <1>1, <2>4 DEF NegotiationCore, FreshIsUnknown, ForeignIsMisled, Served, SettingUp, Alone
  <2>6. PeerIsSeats /\ seat # None => PeerIsSeats' /\ (UnderWay => UnderWay')
    BY <1>1, <1>2, <2>2, <2>4 DEF PeerIsSeats, UnderWay
  <2> QED
    BY <1>1, <2>2, <2>3, <2>5, <2>6 DEF NegotiationCore
<1> QED
  BY <1>3, <1>4

LEMMA NegPage ==
    ASSUME TypeOK, PageInv, SeatIsOpened, NegotiationCore, hostUp,
           NEW a \in Attempts, PageStep(a) \/ Media(a), UNCHANGED hostVars
    PROVE  NegotiationCore'
<1>1. /\ sock \in [Attempts -> {"none", "connecting", "open", "severed", "closing", "closed"}]
      /\ pc \in [Attempts -> {"none", "new", "answering", "answered", "connected", "closed"}]
      /\ toViewer \in [Attempts -> Seq(Messages)]
  BY DEF TypeOK, RelayTypeOK, ViewerTypeOK
<1>2. ASSUME UNCHANGED <<toViewer, remote, toHost, seat>>, strayed \subseteq strayed',
             seat # a \/ (sock'[a] # "open" /\ UNCHANGED pc) \/ (pc[a] # "answering" /\ UNCHANGED sock),
             \A x \in Attempts : x # a => sock'[x] = sock[x] /\ pc'[x] = pc[x]
      PROVE  NegotiationCore'
  <2>1. \A x \in Attempts : Same(x)
    BY <1>2, CalmSteps DEF Same, Calm
  <2>2. \A x \in Attempts : x = seat => SameSeat(x)
    BY <1>2, CalmSteps DEF SameSeat
  <2> QED
    BY <1>2, <2>1, <2>2, NegKept
<1>3. ASSUME NEW rerun \in BOOLEAN, Connect(a, rerun)
      PROVE  NegotiationCore'
  BY <1>3, NegCleanup DEF Connect, others
<1>4. CASE PeerCreated(a)
  <2>1. seat # a
    BY <1>4 DEF PeerCreated, SeatIsOpened
  <2>2. UNCHANGED <<toViewer, remote, toHost, seat>> /\ strayed \subseteq strayed'
    BY <1>4 DEF PeerCreated, others
  <2>3. \A x \in Attempts : x # a => sock'[x] = sock[x] /\ pc'[x] = pc[x]
    BY <1>1, <1>4 DEF PeerCreated
  <2> QED
    BY <1>2, <2>1, <2>2, <2>3
<1>5. ASSUME NEW next \in {"disconnected", "rejected"}, toViewer[a] # <<>>, sock[a] \in Up,
             End(next, sock, Rest(a))
      PROVE  NegotiationCore'
  <2>1. a \in {refs} \cup strayed
    BY <1>5 DEF PageInv, RefsHold
  <2>2. Fewer(toViewer[a], Rest(a)[a]) /\ \A x \in Attempts : x # a => Rest(a)[x] = toViewer[x]
    BY <1>1, <1>5, CalmSteps DEF Rest
  <2> QED
    BY <1>5, <2>1, <2>2, NegCleanup DEF End, others
<1>6. CASE PeerFails(a)
  <2>1. CASE Ignored /\ UNCHANGED <<sock, toViewer>>
    <3>1. seat # a
      BY <1>6 DEF PeerFails, SeatIsOpened
    <3> QED
      BY <1>2, <2>1, <3>1 DEF Ignored, others
  <2>2. CASE End("disconnected", sock, toViewer)
    BY <2>2, NegCleanup DEF End, others
  <2> QED
    BY <1>6, <2>1, <2>2 DEF PeerFails
<1>7. CASE SocketOpens(a)
  <2>1. seat # a
    BY <1>7 DEF SocketOpens, SeatIsOpened
  <2> QED
    BY <1>1, <1>2, <1>7, <2>1 DEF SocketOpens, viewerVars
<1>8. CASE SocketFails(a)
  <2>1. CASE attempt = a
    <3>1. \A x \in Attempts : [sock EXCEPT ![a] = "closed"][x] = "open" => sock[x] = "open"
      BY <1>1
    <3> QED
      BY <1>8, <2>1, <3>1, NegCleanup DEF SocketFails, End, others
  <2>2. CASE attempt # a
    BY <1>1, <1>2, <1>8, <2>2 DEF SocketFails, Ignored, others
  <2> QED
    BY <2>1, <2>2
<1>9. CASE SocketCloses(a)
  BY <1>1, <1>2, <1>9 DEF SocketCloses, Ignored, others
<1>10. CASE OnProgress(a) \/ OnHostDisconnected(a)
  <2>1. /\ toViewer[a] # <<>> /\ ~IsOffer(Head(toViewer[a])) /\ Taken(a)
        /\ UNCHANGED <<pc, remote, strayed, toHost, seat>>
    BY <1>10 DEF OnProgress, OnHostDisconnected, Received, Ignored, IsOffer, others
  <2> QED
    BY <2>1, NegTaken
<1>11. ASSUME Taken(a), Ignored, toViewer[a] # <<>>, ~IsOffer(Head(toViewer[a]))
      PROVE  NegotiationCore'
  BY <1>11, NegTaken DEF Ignored, others
<1>12. CASE OnEnd(a)
  BY <1>5, <1>11, <1>12 DEF OnEnd, Received, IsOffer, Up
<1>13. CASE OnIce(a)
  BY <1>5, <1>11, <1>13 DEF OnIce, Received, IsOffer, Up
<1>14. CASE OnOffer(a)
  <2>1. /\ toViewer[a] # <<>> /\ IsOffer(Head(toViewer[a])) /\ sock[a] \in Up
        /\ \/ attempt # a /\ Taken(a) /\ Ignored
           \/ End("disconnected", sock, Rest(a))
           \/ /\ Taken(a) /\ UNCHANGED <<strayed, others>>
              /\ pc' = [pc EXCEPT ![a] = "answering"]
              /\ remote' = [remote EXCEPT ![a] = Head(toViewer[a]).call]
    BY <1>14 DEF OnOffer, Received, IsOffer, Up
  <2>2. CASE attempt # a /\ Taken(a) /\ Ignored
    <3>1. a \in strayed
      BY <2>1, <2>2 DEF PageInv, RefsHold
    <3> QED
      BY <2>1, <2>2, <3>1, NegDropped DEF Ignored, others
  <2> QED
    BY <1>5, <2>1, <2>2, NegOffer DEF others
<1>15. CASE AnswerReady(a)
  BY <1>15, NegAnswer
<1>16. CASE Media(a)
  BY <1>1, <1>2, <1>16 DEF Media, MediaChanges, relayVars
<1> QED
  BY <1>3, <1>4, <1>6, <1>7, <1>8, <1>9, <1>10, <1>12, <1>13, <1>14, <1>15, <1>16
     DEF PageStep, Create

LEMMA NegStop ==
    ASSUME TypeOK, NegotiationCore, Timeout \/ \E next \in {"idle", "left"} : Stop(next),
           UNCHANGED hostVars
    PROVE  NegotiationCore'
<1>1. UNCHANGED <<toHost, seat, strayed>>
  BY DEF Timeout, Stop, End, others
<1>2. CASE Cleanup(sock, toViewer)
  BY <1>1, <1>2, NegCleanup
<1>3. CASE UNCHANGED <<toViewer, remote, sock, pc>>
  <2>1. \A x \in Attempts : SameSeat(x) /\ Same(x)
    BY <1>3, CalmSteps DEF SameSeat, Same, Calm
  <2> QED
    BY <1>1, <2>1, NegKept
<1> QED
  BY <1>2, <1>3 DEF Timeout, Stop, End

\* The host sets a call up and tells nobody but by what is no offer.
LEMMA NegCall ==
    ASSUME TypeOK, NegotiationCore,
           UNCHANGED <<viewerVars, sock, seat, toHost, hpc, answered, peer, crossed>>,
           misled \subseteq misled',
           \A x \in Attempts : Calm(toViewer[x], toViewer'[x]),
           \A d \in Calls : call'[d] \in {"unused", "peer", "offer"} => call'[d] = call[d],
           \A d \in Calls : call[d] = "peer" => call'[d] = "peer",
           peer # None /\ call[peer] = "offer" /\ seat # None /\ sock[seat] = "open"
               => call'[peer] = "offer"
    PROVE  NegotiationCore'
<1>1. /\ seat \in Attempts \cup {None} /\ peer \in Calls \cup {None} /\ UNCHANGED <<remote, pc, strayed>>
  BY DEF TypeOK, RelayTypeOK, HostTypeOK, viewerVars
<1>2. \A x \in Attempts, d \in Calls : Carries(x, d)' => Carries(x, d)
  BY <1>1 DEF Carries, Calm, Fewer
<1>3. /\ LeftIsOut' /\ (Informed' <=> Informed) /\ (Served => Served')
  BY DEF NegotiationCore, LeftIsOut, Informed, Served, SettingUp
<1>4. FreshIsUnknown' /\ ForeignIsMisled' /\ (Alone' => Alone)
  BY <1>2 DEF NegotiationCore, FreshIsUnknown, ForeignIsMisled, Alone, SettingUp
<1>5. PeerIsSeats /\ seat # None => PeerIsSeats' /\ (UnderWay => UnderWay')
  <2> SUFFICES ASSUME PeerIsSeats, seat # None, peer # None
               PROVE  PeerIsSeats' /\ (UnderWay => UnderWay')
    BY DEF PeerIsSeats, UnderWay
  <2>1. peer \in Calls /\ seat \in Attempts /\ Calm(toViewer[seat], toViewer'[seat])
    BY <1>1
  <2>2. PeerIsSeats'
    BY <1>1, <1>2, <2>1 DEF PeerIsSeats, Calm, Fewer
  <2>3. UnderWay => UnderWay'
    BY <1>1, <2>1 DEF UnderWay, Calm, Fewer
  <2> QED
    BY <2>2, <2>3
<1> QED
  BY <1>1, <1>3, <1>4, <1>5 DEF NegotiationCore

\* The host closes its peer when the seat is free, or another is being made, or
\* when it cannot know yet that the seat is taken.
LEMMA NegClosed ==
    ASSUME TypeOK, NegotiationCore, ClosePeer, peer' = None, call' = call,
           UNCHANGED <<viewerVars, sock, seat, toViewer>>, LeftIsOut',
           \A x, d : Answers(toHost', x, d) => Answers(toHost, x, d),
           misled' = misled, Informed' => seat = None \/ SettingUp # {}
    PROVE  NegotiationCore'
<1>1. \A x \in Attempts, d \in Calls : Carries(x, d)' => Carries(x, d)
  BY RelayAssumption DEF Carries, ClosePeer, viewerVars
<1>2. FreshIsUnknown' /\ ForeignIsMisled'
  BY <1>1, HostAssumption DEF NegotiationCore, FreshIsUnknown, ForeignIsMisled, ClosePeer
<1>3. \A d \in Calls : peer' # d
  BY RelayAssumption
<1> QED
  BY <1>2, <1>3 DEF NegotiationCore, Served, SettingUp, Alone

LEMMA NegJoined ==
    ASSUME TypeOK, HostCore, NegotiationCore, NEW c \in Calls, OnViewerJoined(c), trouble' = "none",
           UNCHANGED viewerVars
    PROVE  NegotiationCore'
<1>1. /\ toHost \in Seq(Messages) /\ None \notin Calls
      /\ call \in [Calls -> {"unused", "peer", "offer", "sent", "iced"}]
  BY RelayAssumption DEF TypeOK, RelayTypeOK, HostTypeOK
<1>2. /\ toHost # <<>> /\ Head(toHost).kind = "VIEWER_JOINED" /\ toHost' = Tail(toHost)
      /\ call[c] = "unused" /\ call' = [call EXCEPT ![c] = "peer"]
      /\ UNCHANGED <<hpc, answered, peer, crossed, misled, sock, seat, toViewer, remote, pc>>
  BY DEF OnViewerJoined, Arrived, Troubled, viewerVars
<1>3. ~Alone'
  BY <1>1, <1>2 DEF Alone, SettingUp
<1>4. LeftIsOut'
  BY <1>1, <1>2, LeftRest DEF NegotiationCore
<1>5. \A x \in Attempts, d \in Calls : Carries(x, d)' => Carries(x, d)
  BY <1>1, <1>2, AfterTail DEF Carries
<1>6. FreshIsUnknown' /\ ForeignIsMisled'
  BY <1>1, <1>2, <1>5 DEF NegotiationCore, FreshIsUnknown, ForeignIsMisled
<1>7. SettingUp' # {} /\ peer # c
  BY <1>1, <1>2 DEF SettingUp, NegotiationCore
<1>8. \A d \in Calls : call'[d] \in {"unused", "peer"} => peer' # d
  BY <1>1, <1>2, <1>7 DEF NegotiationCore
<1> QED
  BY <1>3, <1>4, <1>6, <1>7, <1>8 DEF NegotiationCore, Served

LEMMA NegPeer ==
    ASSUME TypeOK, NegotiationCore, NEW c \in Calls, PeerMade(c), UNCHANGED viewerVars
    PROVE  NegotiationCore'
<1>1. /\ None \notin Calls /\ seat \in Attempts \cup {None}
      /\ call \in [Calls -> {"unused", "peer", "offer", "sent", "iced"}]
  BY RelayAssumption DEF TypeOK, RelayTypeOK, HostTypeOK
<1>2. /\ call[c] = "peer" /\ call' = [call EXCEPT ![c] = "offer"] /\ peer' = c
      /\ UNCHANGED <<answered, misled, sock, seat, toViewer, toHost, remote, pc>>
  BY DEF PeerMade, relayVars, viewerVars
<1>3. \A x \in Attempts : ~Carries(x, c)
  BY <1>2 DEF NegotiationCore, FreshIsUnknown
<1>4. \A x \in Attempts, d \in Calls : Carries(x, d)' <=> Carries(x, d)
  BY <1>2 DEF Carries
<1>5. LeftIsOut' /\ FreshIsUnknown' /\ ForeignIsMisled'
  BY <1>1, <1>2, <1>4 DEF NegotiationCore, LeftIsOut, FreshIsUnknown, ForeignIsMisled
<1>6. \A d \in Calls : call'[d] \in {"unused", "peer"} => peer' # d
  BY <1>1, <1>2
<1>7. Served' /\ UnderWay'
  BY <1>1, <1>2 DEF Served, UnderWay
<1>8. seat # None => PeerIsSeats'
  BY <1>1, <1>2, <1>3, <1>4 DEF PeerIsSeats, Carries, Offered, LastOffer
<1> QED
  BY <1>2, <1>5, <1>6, <1>7, <1>8 DEF NegotiationCore

LEMMA NegOffered ==
    ASSUME TypeOK, HostCore, NegotiationCore, NEW c \in Calls, OfferMade(c), UNCHANGED viewerVars
    PROVE  NegotiationCore'
<1> DEFINE m == [kind |-> "OFFER", attempt |-> None, call |-> c]
<1>1. /\ None \notin Calls /\ seat \in Attempts \cup {None}
      /\ toViewer \in [Attempts -> Seq(Messages)]
      /\ call \in [Calls -> {"unused", "peer", "offer", "sent", "iced"}]
  BY RelayAssumption DEF TypeOK, RelayTypeOK, HostTypeOK
<1>2. /\ call[c] = "offer" /\ call' = [call EXCEPT ![c] = "sent"]
      /\ IF hpc[c] = "open" THEN toViewer' = Send(seat, m) /\ misled' = misled \cup ({peer} \ {c, None})
                            ELSE UNCHANGED <<toViewer, misled>>
      /\ UNCHANGED <<hpc, answered, peer, crossed, sock, seat, toHost, remote, pc>>
  BY DEF OfferMade, RelayOffer, HostCore, viewerVars
<1>3. CASE hpc[c] # "open" \/ seat = None \/ sock[seat] # "open"
  <2>1. toViewer' = toViewer /\ misled \subseteq misled'
    BY <1>2, <1>3 DEF Send
  <2>2. \A x \in Attempts : Calm(toViewer[x], toViewer'[x])
    BY <2>1, CalmSteps
  <2>3. /\ \A d \in Calls : call'[d] \in {"unused", "peer", "offer"} => call'[d] = call[d]
        /\ \A d \in Calls : call[d] = "peer" => call'[d] = "peer"
    BY <1>1, <1>2
  <2>4. peer # None /\ call[peer] = "offer" /\ seat # None /\ sock[seat] = "open"
        => call'[peer] = "offer"
    BY <1>1, <1>2, <1>3 DEF TypeOK, HostTypeOK, HostCore, Listed
  <2> QED
    BY <1>2, <2>1, <2>2, <2>3, <2>4, NegCall
<1>4. CASE hpc[c] = "open" /\ seat # None /\ sock[seat] = "open"
  <2> DEFINE q == toViewer[seat]
  <2>1. /\ q \in Seq(Messages) /\ m \in Messages /\ IsOffer(m) /\ m.call = c
    BY <1>1, <1>4, KindIsMessage DEF IsOffer
  <2>2. toViewer' = [toViewer EXCEPT ![seat] = Append(q, m)]
    BY <1>2, <1>4 DEF Send
  <2> HIDE DEF m
  <2>3. /\ \A d : Offered(toViewer'[seat], d) <=> Offered(q, d) \/ d = c
        /\ LastOffer(q, c) /\ ~Offered(q, c) => LastOffer(toViewer'[seat], c)
        /\ \A x \in Attempts : x # seat => toViewer'[x] = toViewer[x]
    BY <1>1, <1>4, <2>1, <2>2, AfterAppend
  <2>4. \A x \in Attempts : ~Carries(x, c)
    BY <1>2 DEF NegotiationCore, FreshIsUnknown
  <2>5. \A x \in Attempts, d \in Calls : Carries(x, d)' <=> Carries(x, d) \/ (x = seat /\ d = c)
    BY <1>1, <1>2, <1>4, <2>3 DEF Carries
  <2>6. LeftIsOut' /\ (Informed' <=> Informed) /\ ForeignIsMisled'
    BY <1>1, <1>2, <1>4 DEF NegotiationCore, LeftIsOut, Informed, ForeignIsMisled
  <2>7. FreshIsUnknown'
    BY <1>1, <1>2, <2>5 DEF NegotiationCore, FreshIsUnknown
  <2>8. \A d \in Calls : call'[d] \in {"unused", "peer"} => peer' # d
    BY <1>1, <1>2 DEF NegotiationCore
  <2>9. Informed' => Served'
    <3>1. SettingUp \subseteq SettingUp'
      BY <1>1, <1>2 DEF SettingUp
    <3> QED
      BY <1>2, <2>6, <3>1 DEF NegotiationCore, Served
  <2>10. Alone' => Alone /\ peer = c
    BY <1>1, <1>2, <1>4 DEF Alone, SettingUp
  <2>11. Alone' /\ PeerIsSeats => PeerIsSeats'
    BY <1>1, <1>2, <1>4, <2>3, <2>4, <2>5, <2>10 DEF PeerIsSeats, Carries
  <2>12. Alone' => UnderWay'
    BY <1>1, <1>2, <1>4, <2>3, <2>10 DEF UnderWay
  <2> QED
    BY <1>2, <2>6, <2>7, <2>8, <2>9, <2>10, <2>11, <2>12 DEF NegotiationCore
<1> QED
  BY <1>3, <1>4

LEMMA NegAccepted ==
    ASSUME TypeOK, NegotiationCore, OnAnswer, UNCHANGED viewerVars
    PROVE  NegotiationCore'
<1> DEFINE h == Head(toHost)
<1>1. /\ None \notin Attempts /\ seat \in Attempts \cup {None} /\ peer \in Calls \cup {None}
      /\ None \notin Calls /\ toHost \in Seq(Messages)
      /\ answered \in [Calls -> Attempts \cup {None, Foreign}]
      /\ Foreign \notin Attempts \cup {None} /\ misled \subseteq Calls
      /\ call \in [Calls -> {"unused", "peer", "offer", "sent", "iced"}]
  BY RelayAssumption, HostAssumption DEF TypeOK, RelayTypeOK, HostTypeOK
<1>2. /\ toHost # <<>> /\ h.kind = "ANSWER" /\ toHost' = Tail(toHost)
      /\ UNCHANGED <<call, hpc, peer, crossed, sock, seat, toViewer, remote, pc, strayed>>
  BY DEF OnAnswer, Arrived, viewerVars
<1> DEFINE takes == peer # None /\ call[peer] \in {"sent", "iced"} /\ answered[peer] = None
<1>10. \/ UNCHANGED <<answered, misled>> /\ ~(takes /\ h.call = peer)
       \/ /\ takes /\ h.call = peer /\ misled' = misled
          /\ answered' = [answered EXCEPT ![peer] = h.attempt]
       \/ /\ takes /\ h.call # peer /\ misled' = misled \cup {peer}
          /\ answered' = [answered EXCEPT ![peer] = Foreign]
  BY DEF OnAnswer, Accept
<1>3. /\ \A x, d : Answers(toHost, x, d) <=>
                   Answers(toHost', x, d) \/ (h.attempt = x /\ h.call = d)
      /\ Informed' <=> Informed
  BY <1>1, <1>2, AfterTail DEF IsAnswer, Informed, Turns
<1>4. LeftIsOut'
  BY <1>1, <1>2, LeftRest DEF NegotiationCore
<1>11. h.attempt # Foreign
  BY <1>1, <1>2, HeadOfQueue
<1> HIDE DEF h
<1>5. ASSUME NEW x \in Attempts, NEW d \in Calls, answered'[d] = x
      PROVE  answered[d] = x \/ Answers(toHost, x, d)
  BY <1>1, <1>3, <1>5, <1>10
<1>6. \A x \in Attempts, d \in Calls : Carries(x, d)' => Carries(x, d)
  BY <1>2, <1>3, <1>5 DEF Carries
<1>7. FreshIsUnknown' /\ (Served' <=> Served)
  BY <1>2, <1>6 DEF NegotiationCore, FreshIsUnknown, Served, SettingUp
<1>8. ForeignIsMisled' /\ (Alone' => Alone)
  <2>1. ForeignIsMisled /\ misled \subseteq misled'
    BY <1>10 DEF NegotiationCore
  <2>2. ASSUME NEW d \in Calls, answered'[d] = Foreign
        PROVE  d \in misled'
    BY <1>1, <1>10, <1>11, <2>1, <2>2 DEF ForeignIsMisled
  <2> QED
    BY <1>2, <2>1, <2>2 DEF ForeignIsMisled, Alone, SettingUp
<1>9. PeerIsSeats => PeerIsSeats'
  BY <1>1, <1>2, <1>6 DEF PeerIsSeats
<1>12. PeerIsSeats /\ UnderWay /\ seat # None /\ Alone' => UnderWay'
  <2> SUFFICES ASSUME PeerIsSeats, UnderWay, seat \in Attempts, peer \in Calls, peer # None, Alone',
                      call[peer] # "offer", sock[seat] = "open",
                      remote[seat] = peer,
                      Answers(toHost, seat, peer) \/ answered[peer] = seat
               PROVE  Answers(toHost', seat, peer) \/ answered'[peer] = seat
    BY <1>1, <1>2 DEF UnderWay
  <2>1. call[peer] \in {"sent", "iced"}
    BY <1>1 DEF NegotiationCore
  <2>2. answered[peer] \in {None, seat}
    BY <1>1, <1>8 DEF PeerIsSeats, Carries, NegotiationCore, ForeignIsMisled, Alone, SettingUp
  <2>3. peer \notin misled'
    BY <1>2 DEF Alone
  <2> QED
    BY <1>1, <1>3, <1>10, <2>1, <2>2, <2>3
<1> QED
  BY <1>2, <1>3, <1>4, <1>7, <1>8, <1>9, <1>12 DEF NegotiationCore

LEMMA NegKick ==
    ASSUME TypeOK, HostCore, NegotiationCore, Kick, UNCHANGED viewerVars
    PROVE  NegotiationCore'
<1>1. /\ seat \in Attempts \cup {None} /\ toHost \in Seq(Messages) /\ hostUp
      /\ UNCHANGED <<call, hpc, answered, peer, misled, remote>> /\ seat' = None
  BY DEF TypeOK, RelayTypeOK, HostCore, Kick, KickSeat, callVars, viewerVars
<1>2. /\ Kind("KICKED") \in Messages /\ ~IsOffer(Kind("KICKED"))
      /\ Kind("VIEWER_LEFT") \in Messages /\ Kind("VIEWER_LEFT").kind = "VIEWER_LEFT"
  BY KindIsMessage DEF Kind, IsOffer, ViewerKinds, HostKinds
<1>3. \A x \in Attempts : Calm(toViewer[x], toViewer'[x])
  BY <1>1, <1>2, SendKeeps DEF Kick, KickSeat
<1>4. LeftIsOut' /\ \A x, d : Answers(toHost', x, d) <=> Answers(toHost, x, d)
  <2>1. CASE seat = None
    BY <1>1, <2>1 DEF Kick, KickSeat, NegotiationCore, LeftIsOut
  <2>2. CASE seat # None
    <3>1. toHost' = Append(toHost, Kind("VIEWER_LEFT"))
      BY <1>1, <2>2 DEF Kick, KickSeat, SendHost
    <3>2. LeftIsOut'
      BY <1>1, <1>2, <3>1, LeftMore DEF NegotiationCore, Turns
    <3> QED
      BY <1>1, <1>2, <3>1, <3>2, AfterAppend DEF IsAnswer
  <2> QED
    BY <2>1, <2>2
<1>5. \A x \in Attempts, d \in Calls : Carries(x, d)' => Carries(x, d)
  BY <1>1, <1>3, <1>4 DEF Carries, Calm, Fewer
<1>6. FreshIsUnknown' /\ ForeignIsMisled'
  BY <1>1, <1>5 DEF NegotiationCore, FreshIsUnknown, ForeignIsMisled
<1> QED
  BY <1>1, <1>4, <1>6 DEF NegotiationCore, Served

LEMMA NegHost ==
    ASSUME TypeOK, HostCore, NegotiationCore, trouble' = "none", HostStep,
           UNCHANGED viewerVars
    PROVE  NegotiationCore'
<1>1. /\ toHost \in Seq(Messages) /\ hostUp
      /\ call \in [Calls -> {"unused", "peer", "offer", "sent", "iced"}]
  BY DEF TypeOK, RelayTypeOK, HostTypeOK, HostCore
<1>2. CASE StartCapture
  <2>1. UNCHANGED <<sock, seat, toHost, toViewer, call, hpc, answered, peer, crossed, misled>>
    BY <1>2 DEF StartCapture, callVars, relayVars
  <2> QED
    BY <2>1, CalmSteps, NegCall
<1>3. CASE StopCapture
  <2>1. /\ ClosePeer /\ peer' = None /\ UNCHANGED <<call, misled, sock, seat, toHost, toViewer>>
        /\ seat = None
    BY <1>3 DEF StopCapture, ClearPeers, Troubled
  <2>2. LeftIsOut'
    BY <2>1 DEF NegotiationCore, LeftIsOut
  <2> QED
    BY <2>1, <2>2, NegClosed
<1>4. ASSUME NEW c \in Calls, SendIce(c)
      PROVE  NegotiationCore'
  <2> DEFINE m == [kind |-> "ICE", attempt |-> None, call |-> c]
  <2>1. /\ call[c] = "sent" /\ call' = [call EXCEPT ![c] = "iced"] /\ toViewer' = Send(seat, m)
        /\ UNCHANGED <<sock, seat, toHost, hpc, answered, peer, crossed, misled>>
    BY <1>4 DEF SendIce, RelayIce
  <2>2. m \in Messages /\ ~IsOffer(m) /\ seat \in Attempts \cup {None}
    BY KindIsMessage DEF IsOffer, TypeOK, RelayTypeOK
  <2> HIDE DEF m
  <2>3. \A x \in Attempts : Calm(toViewer[x], toViewer'[x])
    BY <2>1, <2>2, SendKeeps
  <2>4. /\ \A d \in Calls : call'[d] \in {"unused", "peer", "offer"} => call'[d] = call[d]
        /\ \A d \in Calls : call[d] = "peer" => call'[d] = "peer"
        /\ \A d \in Calls : call[d] = "offer" => call'[d] = "offer"
    BY <1>1, <2>1
  <2>5. peer # None => peer \in Calls
    BY DEF TypeOK, HostTypeOK
  <2> QED
    BY <2>1, <2>3, <2>4, <2>5, NegCall
<1>5. CASE OnViewerLeft
  <2>1. /\ toHost # <<>> /\ Head(toHost).kind = "VIEWER_LEFT" /\ toHost' = Tail(toHost)
        /\ ClosePeer /\ peer' = None /\ UNCHANGED <<call, misled, sock, seat, toViewer>>
    BY <1>5 DEF OnViewerLeft, Arrived, ClearPeers
  <2>2. LeftIsOut' /\ (Informed' => seat = None)
    BY <1>1, <2>1, LeftRest DEF NegotiationCore, Informed
  <2>3. \A x, d : Answers(toHost', x, d) => Answers(toHost, x, d)
    BY <1>1, <2>1, AfterTail
  <2> QED
    BY <2>1, <2>2, <2>3, NegClosed
<1>6. CASE KickDone
  <2>1. /\ ClosePeer /\ peer' = None /\ UNCHANGED <<call, misled, sock, seat, toViewer, toHost>>
        /\ peer = None \/ seat = None
    BY <1>6 DEF KickDone, ClearPeers, Troubled
  <2>2. LeftIsOut' /\ (Informed' => seat = None \/ SettingUp # {})
    BY <2>1 DEF NegotiationCore, LeftIsOut, Informed, Served
  <2> QED
    BY <2>1, <2>2, NegClosed
<1>7. ~HostLost /\ ~HostReturns
  BY <1>1 DEF HostLost, HostSocketLost, HostReturns
<1> QED
  BY <1>2, <1>3, <1>4, <1>5, <1>6, <1>7, NegJoined, NegPeer, NegOffered, NegAccepted, NegKick
     DEF HostStep

LEMMA NegInit == Init => NegotiationInv
<1> SUFFICES ASSUME Init PROVE NegotiationInv
  OBVIOUS
<1>1. /\ seat = None /\ peer = None /\ toHost = <<>> /\ None \notin Attempts /\ None \notin Calls
      /\ \A a \in Attempts : toViewer[a] = <<>> /\ remote[a] = None /\ request[a] = "none"
      /\ \A c \in Calls : answered[c] = None
  BY RelayAssumption DEF Init, RelayInit, ViewerInit, HostInit
<1>2. SeatIsOpened
  BY <1>1 DEF SeatIsOpened
<1>3. \A a \in Attempts, c \in Calls : ~Carries(a, c)
  BY <1>1, AfterNothing DEF Carries
<1>4. LeftIsOut
  BY <1>1 DEF LeftIsOut
<1>5. ForeignIsMisled
  BY <1>1, HostAssumption DEF ForeignIsMisled
<1> QED
  BY <1>1, <1>2, <1>3, <1>4, <1>5
     DEF NegotiationInv, NegotiationCore, FreshIsUnknown, Served, Alone

LEMMA NegNext ==
    TypeOK /\ PageInv /\ HostInv /\ NegotiationInv /\ [Next]_vars => NegotiationInv'
<1> SUFFICES ASSUME TypeOK, PageInv, HostInv, NegotiationInv, [Next]_vars, trouble' = "none"
             PROVE  NegotiationCore'
  BY SeatNext DEF NegotiationInv
<1>1. trouble = "none" /\ NegotiationCore /\ SeatIsOpened /\ HostCore /\ hostUp
  BY TroubleStays DEF NegotiationInv, HostInv, HostCore, Clean
<1>2. ASSUME NEW a \in Attempts, GatewayStep(a), UNCHANGED <<viewerVars, hostVars>>
      PROVE  NegotiationCore'
  BY <1>1, <1>2, NegGateway
<1>3. ASSUME NEW a \in Attempts, PageStep(a) \/ Media(a), UNCHANGED hostVars
      PROVE  NegotiationCore'
  BY <1>1, <1>3, NegPage
<1>4. CASE (Timeout \/ \E next \in {"idle", "left"} : Stop(next)) /\ UNCHANGED hostVars
  BY <1>1, <1>4, NegStop
<1>5. CASE HostStep /\ UNCHANGED viewerVars
  BY <1>1, <1>5, NegHost
<1>6. CASE UNCHANGED vars
  BY <1>1, <1>6
     DEF vars, relayVars, viewerVars, hostVars, callVars, NegotiationCore, LeftIsOut,
         FreshIsUnknown, ForeignIsMisled, Carries, Informed, Served, SettingUp, Alone,
         PeerIsSeats, UnderWay
<1> QED
  BY <1>2, <1>3, <1>4, <1>5, <1>6 DEF Next

\* When nothing went wrong and all is quiet, the page that has the seat and
\* still wants to watch has agreed with the peer the host made for it, unless
\* the attempt is strayed or the peer misled: no offer and no answer is lost on
\* the way, useWebRTCHost.ts and useWebRTCViewer.ts.
THEOREM Negotiated == Spec => []NegotiationCompletes
<1>1. TypeOK /\ PageInv /\ HostInv /\ NegotiationInv => NegotiationCompletes
  <2> SUFFICES ASSUME TypeOK, PageInv, HostCore, NegotiationCore, Quiet, NEW a \in Attempts \ strayed,
                      seat = a, sock[a] = "open", toViewer[a] = <<>>, pc[a] # "answering"
               PROVE  peer # None /\ (Matched(a, peer) \/ peer \in misled)
    BY DEF HostInv, Clean, NegotiationInv, NegotiationCompletes
  <2>1. /\ toHost = <<>> /\ None \notin Attempts /\ a # None /\ a \notin strayed
        /\ peer \in Calls \cup {None} /\ \A c \in Calls : call[c] \notin {"peer", "offer"}
    BY RelayAssumption DEF Quiet, TypeOK, HostTypeOK
  <2>2. Informed /\ SettingUp = {}
    BY <2>1, AfterNothing DEF Informed, SettingUp
  <2>3. peer \in Calls /\ peer # None
    BY <2>1, <2>2 DEF NegotiationCore, Served
  <2>4. ASSUME Alone PROVE Matched(a, peer)
    <3>1. UnderWay
      BY <2>1, <2>2, <2>4 DEF NegotiationCore
    <3>2. remote[a] = peer /\ answered[peer] = a
      BY <2>1, <2>3, <3>1, AfterNothing DEF UnderWay
    <3>3. pc[a] # "closed" /\ hpc[peer] = "open"
      BY <2>1, <2>3 DEF PageInv, ClosedTogether, HostCore, Listed
    <3> QED
      BY <3>2, <3>3 DEF Matched
  <2> QED
    BY <2>2, <2>3, <2>4 DEF Alone
<1> QED
  BY <1>1, TypeCorrect, PageInvInit, PageInvNext, HostInvInit, HostInvNext, NegInit, NegNext,
     PTL DEF Spec

=============================================================================
