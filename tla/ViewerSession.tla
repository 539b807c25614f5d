--------------------------- MODULE ViewerSession ---------------------------
(* useWebRTCViewer: a page makes one attempt to watch after another, and the
   callbacks of an attempt compare its number with the current one.  Handlers
   are cut at their awaits. *)
EXTENDS Relay

VARIABLES state,    \* connectionState; "left" once the page is unmounted
          attempt,  \* connectAttemptRef.current, or None after disconnect
          refs,     \* the attempt whose socket and peer wsRef and pcRef hold
          timer,    \* the attempt whose timeout is armed
          stage,    \* attempt -> "unused", "peer" (createReceiverPeer), "up", "over"
          pc,       \* attempt -> its peer connection
          remote,   \* attempt -> the call whose offer its peer has accepted
          \* History, which no action reads:
          strayed   \* attempts that were up only after they had been given up,
                    \* and those they pushed out of the refs

viewerVars == <<state, attempt, refs, timer, stage, pc, remote, strayed>>
others == <<request, seat, hostUp, toHost, trouble>>

ViewerTypeOK ==
    /\ state \in {"idle", "connecting", "pending", "connected", "disconnected", "rejected", "left"}
    /\ {attempt, refs, timer} \subseteq Attempts \cup {None}
    /\ stage \in [Attempts -> {"unused", "peer", "up", "over"}]
    /\ pc \in [Attempts -> {"none", "new", "answering", "answered", "connected", "closed"}]
    /\ remote \in [Attempts -> Calls \cup {None}]
    /\ strayed \subseteq Attempts

ViewerInit ==
    /\ state = "idle"
    /\ attempt = None /\ refs = None /\ timer = None
    /\ stage = [a \in Attempts |-> "unused"]
    /\ pc = [a \in Attempts |-> "none"]
    /\ remote = [a \in Attempts |-> None]
    /\ strayed = {}

\* closeSocketSafely, when sockets and queues are like this: a socket made deaf
\* drops what still arrives.
CloseSocket(ws, socks, queues) ==
    /\ sock' = [a \in Attempts |-> IF a # ws THEN socks[a]
                ELSE IF socks[a] \in {"connecting", "open"} THEN "closing" ELSE "closed"]
    /\ toViewer' = [a \in Attempts |-> IF a = ws THEN <<>> ELSE queues[a]]

\* Fault: the peer connection is forgotten and stays open.
Cleanup_KeepsPeer(socks, queues) ==
    /\ refs' = None
    /\ timer' = None
    /\ CloseSocket(refs, socks, queues)
    /\ UNCHANGED <<pc, remote>>

\* cleanupCurrentConnection: what the refs hold is made deaf and closed.
Cleanup(socks, queues) ==
    /\ refs' = None
    /\ timer' = None
    /\ CloseSocket(refs, socks, queues)
    /\ pc' = [a \in Attempts |-> IF a = refs THEN "closed" ELSE pc[a]]
    /\ remote' = [a \in Attempts |-> IF a = refs THEN None ELSE remote[a]]

\* The page shows the form, or the Reconnect button of a lost connection.
ConnectOffered == state \in {"idle", "disconnected"}

\* The bars over the video show the Disconnect buttons.
DisconnectOffered == state = "connected"

\* connect, up to its await: a click, or the effect that runs again in any
\* state.
Connect(a, rerun) ==
    /\ IF rerun THEN state # "left" ELSE ConnectOffered
    /\ stage[a] = "unused"
    /\ \A b \in Attempts : b < a => stage[b] # "unused"
    /\ attempt' = a
    /\ state' = "connecting"
    /\ stage' = [stage EXCEPT ![a] = "peer"]
    /\ Cleanup(sock, toViewer)
    /\ UNCHANGED <<strayed, others>>

\* The Disconnect buttons of a connected page, and the effect's cleanup when
\* the page is left.
Stop(next) ==
    /\ IF next = "left" THEN state # "left" ELSE DisconnectOffered
    /\ attempt' = None
    /\ state' = next
    /\ Cleanup(sock, toViewer)
    /\ UNCHANGED <<stage, strayed, others>>

\* Fault: the timeout is armed only once the gateway has answered.
PeerCreated_NoTimeout(a) ==
    /\ stage[a] = "peer"
    /\ stage' = [stage EXCEPT ![a] = "up"]
    /\ pc' = [pc EXCEPT ![a] = "new"]
    /\ sock' = [sock EXCEPT ![a] = "connecting"]
    /\ refs' = a
    /\ timer' = None
    /\ strayed' = IF attempt = a THEN strayed ELSE strayed \cup ({a, refs} \ {None})
    /\ UNCHANGED <<state, attempt, remote, toViewer, others>>

\* createReceiverPeer has answered.  The attempt is not compared again: peer,
\* socket and timeout go into the refs whoever is current.
PeerCreated(a) ==
    /\ stage[a] = "peer"
    /\ stage' = [stage EXCEPT ![a] = "up"]
    /\ pc' = [pc EXCEPT ![a] = "new"]
    /\ sock' = [sock EXCEPT ![a] = "connecting"]
    /\ refs' = a
    /\ timer' = a
    /\ strayed' = IF attempt = a THEN strayed ELSE strayed \cup ({a, refs} \ {None})
    /\ UNCHANGED <<state, attempt, remote, toViewer, others>>

\* How the current attempt ends, by whatever failure.
End(next, socks, queues) ==
    /\ state' = next
    /\ Cleanup(socks, queues)
    /\ UNCHANGED <<attempt, strayed, others>>

\* What every callback of an attempt that is no longer current does.
Ignored == UNCHANGED <<state, attempt, refs, timer, pc, remote, strayed, others>>

PeerFails(a) ==
    /\ stage[a] = "peer"
    /\ stage' = [stage EXCEPT ![a] = "over"]
    /\ IF attempt = a THEN End("disconnected", sock, toViewer)
       ELSE Ignored /\ UNCHANGED <<sock, toViewer>>

\* armConnectTimeout, 15 s later.
Timeout ==
    /\ timer # None
    /\ IF attempt = timer THEN End("disconnected", sock, toViewer)
       ELSE timer' = None /\ UNCHANGED <<state, attempt, refs, pc, remote, strayed, sock, toViewer, others>>
    /\ UNCHANGED stage

\* ws.onopen: viewer:request.
SocketOpens(a) ==
    /\ sock[a] = "connecting"
    /\ sock' = [sock EXCEPT ![a] = "open"]
    /\ request' = IF attempt = a THEN [request EXCEPT ![a] = "sent"] ELSE request
    /\ UNCHANGED <<viewerVars, seat, hostUp, toViewer, toHost, trouble>>

\* ws.onerror of a socket that does not open.
SocketFails(a) ==
    /\ sock[a] = "connecting"
    /\ LET socks == [sock EXCEPT ![a] = "closed"]
       IN IF attempt = a THEN End("disconnected", socks, toViewer)
          ELSE Ignored /\ sock' = socks /\ UNCHANGED toViewer
    /\ UNCHANGED stage

\* ws.onclose, after all that had arrived: the peer is left open.
SocketCloses(a) ==
    /\ sock[a] = "severed"
    /\ toViewer[a] = <<>>
    /\ sock' = [sock EXCEPT ![a] = "closed"]
    /\ IF attempt = a
       THEN /\ timer' = None
            /\ state' = IF state \in {"connected", "connecting", "pending"}
                        THEN "disconnected" ELSE state
            /\ UNCHANGED <<attempt, refs, pc, remote, strayed, others>>
       ELSE Ignored
    /\ UNCHANGED <<stage, toViewer>>

\* ws.onmessage of a socket that still listens.
Received(a, kinds) ==
    /\ sock[a] \in {"open", "severed"}
    /\ toViewer[a] # <<>>
    /\ Head(toViewer[a]).kind \in kinds
    /\ UNCHANGED stage
Rest(a) == [toViewer EXCEPT ![a] = Tail(@)]
Taken(a) == toViewer' = Rest(a) /\ UNCHANGED sock

\* PENDING and APPROVED arm the timeout anew.
OnProgress(a) ==
    /\ Received(a, {"PENDING", "APPROVED"})
    /\ Taken(a)
    /\ IF attempt = a
       THEN /\ state' = IF Head(toViewer[a]).kind = "PENDING" THEN "pending" ELSE "connecting"
            /\ timer' = a
            /\ UNCHANGED <<attempt, refs, pc, remote, strayed, others>>
       ELSE Ignored

\* HOST_DISCONNECTED leaves socket and peer open.
OnHostDisconnected(a) ==
    /\ Received(a, {"HOST_DISCONNECTED"})
    /\ Taken(a)
    /\ IF attempt = a
       THEN /\ state' = "disconnected"
            /\ timer' = None
            /\ UNCHANGED <<attempt, refs, pc, remote, strayed, others>>
       ELSE Ignored

\* REJECTED and KICKED end the attempt.
OnEnd(a) ==
    /\ Received(a, {"REJECTED", "KICKED"})
    /\ IF attempt = a
       THEN End(IF Head(toViewer[a]).kind = "REJECTED" THEN "rejected" ELSE "disconnected",
                sock, Rest(a))
       ELSE Taken(a) /\ Ignored

\* OFFER up to its awaits.  A peer that has an offer takes another or throws.
OnOffer(a) ==
    /\ Received(a, {"OFFER"})
    /\ \/ attempt # a /\ Taken(a) /\ Ignored
       \/ /\ attempt = a /\ pc[a] # "closed"
          /\ Taken(a)
          /\ pc' = [pc EXCEPT ![a] = "answering"]
          /\ remote' = [remote EXCEPT ![a] = Head(toViewer[a]).call]
          /\ UNCHANGED <<state, attempt, refs, timer, strayed, others>>
       \/ attempt = a /\ pc[a] # "new" /\ End("disconnected", sock, Rest(a))

\* The answer is ready, and sent whatever has become of the attempt.
AnswerReady(a) ==
    /\ pc[a] = "answering"
    /\ pc' = [pc EXCEPT ![a] = "answered"]
    /\ IF sock[a] = "open" THEN RelayAnswer(a, remote[a]) ELSE UNCHANGED toHost
    /\ UNCHANGED <<state, attempt, refs, timer, stage, remote, strayed, sock, request, seat,
                   hostUp, toViewer, trouble>>

\* A candidate for a peer without a remote description throws.
OnIce(a) ==
    /\ Received(a, {"ICE"})
    /\ IF attempt = a /\ remote[a] = None THEN End("disconnected", sock, Rest(a))
       ELSE Taken(a) /\ Ignored

\* pc.onconnectionstatechange: up if the other end is there, down at any time.
MediaChanges(a, matched) ==
    /\ \/ pc[a] = "answered" /\ matched /\ pc' = [pc EXCEPT ![a] = "connected"]
       \/ pc[a] \in {"answered", "connected"} /\ pc' = [pc EXCEPT ![a] = "answered"]
    /\ IF attempt = a
       THEN /\ timer' = None
            /\ state' = IF pc'[a] = "connected" THEN "connected" ELSE "disconnected"
       ELSE UNCHANGED <<timer, state>>
    /\ UNCHANGED <<attempt, refs, stage, remote, strayed, relayVars>>

\* createReceiverPeer of the platform: an answer or an error.
Create(a) == PeerCreated(a) \/ PeerFails(a)

PageStep(a) ==
    \/ \E rerun \in BOOLEAN : Connect(a, rerun)
    \/ Create(a)
    \/ SocketOpens(a) \/ SocketFails(a) \/ SocketCloses(a)
    \/ OnProgress(a) \/ OnHostDisconnected(a) \/ OnEnd(a)
    \/ OnOffer(a) \/ AnswerReady(a) \/ OnIce(a)
=============================================================================
