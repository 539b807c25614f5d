---------------------------- MODULE HostSession ----------------------------
(* useWebRTCHost, for one viewer id: its maps are keyed by the viewer and
   viewers share nothing else.  A call is what the host sets up for one
   VIEWER_JOINED; it is cut at its awaits. *)
EXTENDS Relay

CONSTANT Foreign  \* stands for an answer that was made to another call's offer
ASSUME HostAssumption == Foreign \notin Nat \cup {None}

VARIABLES streamRef, \* a screen is captured
          call,      \* call -> "unused", "peer" (createSenderPeer), "offer", "sent", "iced"
          hpc,       \* call -> its peer connection
          answered,  \* call -> the attempt whose answer its peer has accepted
          peer,      \* peersRef.get(viewerId)
          viewers,   \* how many entries of the list are this viewer's
          cut,       \* calls whose signaling socket has been lost
          kicking,   \* kickViewer awaits the REST call
          \* History, which no action reads:
          crossed,   \* calls whose viewer left, or whose capture ended, while their
                     \* peer was being made, and those they pushed out of the map
          misled     \* calls beside which another was offered, or its answer taken

callVars == <<call, hpc, answered, peer, viewers, cut, crossed, misled>>
hostVars == <<streamRef, callVars, kicking>>

HostTypeOK ==
    /\ streamRef \in BOOLEAN
    /\ call \in [Calls -> {"unused", "peer", "offer", "sent", "iced"}]
    /\ hpc \in [Calls -> {"none", "open", "closed"}]
    /\ answered \in [Calls -> Attempts \cup {None, Foreign}]
    /\ peer \in Calls \cup {None}
    /\ viewers \in Nat
    /\ cut \in SUBSET Calls
    /\ kicking \in BOOLEAN
    /\ crossed \subseteq Calls
    /\ misled \subseteq Calls

HostInit ==
    /\ streamRef = FALSE
    /\ call = [c \in Calls |-> "unused"]
    /\ hpc = [c \in Calls |-> "none"]
    /\ answered = [c \in Calls |-> None]
    /\ peer = None
    /\ viewers = 0
    /\ cut = {}
    /\ kicking = FALSE
    /\ crossed = {} /\ misled = {}

\* Calls whose peer is not in the maps yet.
SettingUp == {c \in Calls : call[c] = "peer"}

\* startCapture, once the dialog has given a stream.
StartCapture ==
    /\ ~streamRef
    /\ streamRef' = TRUE
    /\ UNCHANGED <<callVars, kicking, relayVars>>

ClosePeer ==
    /\ hpc' = [c \in Calls |-> IF c = peer THEN "closed" ELSE hpc[c]]
    /\ answered' = [c \in Calls |-> IF c = peer THEN None ELSE answered[c]]

\* The peer closed and forgotten, the viewer off the list: what stopCapture,
\* VIEWER_LEFT and a kick do.  A peer that is still being made is not there.
ClearPeers ==
    /\ ClosePeer
    /\ peer' = None
    /\ viewers' = 0
    /\ crossed' = crossed \cup SettingUp

\* stopCapture, by the button or by the end of a track.  The gateway is told
\* nothing: who watched keeps its seat.
StopCapture ==
    /\ streamRef
    /\ streamRef' = FALSE
    /\ ClearPeers
    /\ trouble' = Troubled("unserved", seat # None)
    /\ UNCHANGED <<call, cut, misled, kicking, sock, request, seat, hostUp, toViewer, toHost>>

Arrived(k) == toHost # <<>> /\ Head(toHost).kind = k

\* VIEWER_JOINED without a stream is dropped.
OnViewerJoined(c) ==
    /\ Arrived("VIEWER_JOINED")
    /\ toHost' = Tail(toHost)
    /\ IF ~streamRef
       THEN UNCHANGED call
       ELSE /\ call[c] = "unused"
            /\ \A d \in Calls : d < c => call[d] # "unused"
            /\ call' = [call EXCEPT ![c] = "peer"]
    /\ trouble' = Troubled("unserved", ~streamRef)
    /\ UNCHANGED <<streamRef, hpc, answered, peer, viewers, cut, crossed, misled, kicking,
                   sock, request, seat, hostUp, toViewer>>

\* createSenderPeer has answered.
PeerMade(c) ==
    /\ call[c] = "peer"
    /\ call' = [call EXCEPT ![c] = "offer"]
    /\ hpc' = [hpc EXCEPT ![c] = "open"]
    /\ peer' = c
    /\ viewers' = viewers + 1
    /\ crossed' = IF c \in crossed THEN crossed \cup ({peer} \ {None}) ELSE crossed
    /\ UNCHANGED <<streamRef, answered, cut, misled, kicking, relayVars>>

\* createOffer and setLocalDescription have answered; on a closed peer they
\* throw.  The offer goes out on the socket the join came from.
OfferMade(c) ==
    /\ call[c] = "offer"
    /\ call' = [call EXCEPT ![c] = "sent"]
    /\ cut' = cut \ {c}
    /\ IF hpc[c] = "open" /\ c \notin cut
       THEN RelayOffer(c) /\ misled' = misled \cup ({peer} \ {c, None})
       ELSE UNCHANGED <<toViewer, misled>>
    /\ UNCHANGED <<streamRef, hpc, answered, peer, viewers, crossed, kicking,
                   sock, request, seat, hostUp, toHost, trouble>>

\* onicecandidate, on the socket of the moment.
SendIce(c) ==
    /\ call[c] = "sent"
    /\ hpc[c] = "open"
    /\ hostUp
    /\ call' = [call EXCEPT ![c] = "iced"]
    /\ RelayIce(c)
    /\ UNCHANGED <<streamRef, hpc, answered, peer, viewers, cut, crossed, misled, kicking,
                   sock, request, seat, hostUp, toHost, trouble>>

\* The peer in the map takes an answer; to another call's offer it may throw.
Accept ==
    LET fits == Head(toHost).call = peer
    IN \/ /\ answered' = [answered EXCEPT ![peer] =
                            IF fits THEN Head(toHost).attempt ELSE Foreign]
          /\ misled' = IF fits THEN misled ELSE misled \cup {peer}
       \/ ~fits /\ UNCHANGED <<answered, misled>>

\* Fault: an answer is not expected any more once candidates are sent.
OnAnswer_NotAfterIce ==
    /\ Arrived("ANSWER")
    /\ toHost' = Tail(toHost)
    /\ IF peer # None /\ call[peer] = "sent" /\ answered[peer] = None
       THEN Accept ELSE UNCHANGED <<answered, misled>>
    /\ UNCHANGED <<streamRef, call, hpc, peer, viewers, cut, crossed, kicking,
                   sock, request, seat, hostUp, toViewer, trouble>>

\* An answer goes to the peer in the map; one that has its answer, or made no
\* offer yet, throws.
OnAnswer ==
    /\ Arrived("ANSWER")
    /\ toHost' = Tail(toHost)
    /\ IF peer # None /\ call[peer] \in {"sent", "iced"} /\ answered[peer] = None
       THEN Accept ELSE UNCHANGED <<answered, misled>>
    /\ UNCHANGED <<streamRef, call, hpc, peer, viewers, cut, crossed, kicking,
                   sock, request, seat, hostUp, toViewer, trouble>>

\* Fault: the peer connection is closed, the list left alone.
OnViewerLeft_KeepsList ==
    /\ Arrived("VIEWER_LEFT")
    /\ toHost' = Tail(toHost)
    /\ ClosePeer
    /\ peer' = None
    /\ crossed' = crossed \cup SettingUp
    /\ UNCHANGED <<streamRef, call, viewers, cut, misled, kicking, sock, request,
                   seat, hostUp, toViewer, trouble>>

OnViewerLeft ==
    /\ Arrived("VIEWER_LEFT")
    /\ toHost' = Tail(toHost)
    /\ ClearPeers
    /\ UNCHANGED <<streamRef, call, cut, misled, kicking, sock, request, seat,
                   hostUp, toViewer, trouble>>

\* kickViewer: the REST call, then the peer in the map.
Kick ==
    /\ viewers > 0
    /\ ~kicking
    /\ kicking' = TRUE
    /\ KickSeat
    /\ UNCHANGED <<streamRef, callVars, trouble>>

\* By now the viewer may be back, and it is the new peer that is closed.
KickDone ==
    /\ kicking
    /\ kicking' = FALSE
    /\ ClearPeers
    /\ trouble' = Troubled("unserved", peer # None /\ seat # None)
    /\ UNCHANGED <<streamRef, call, cut, misled, sock, request, seat, hostUp, toViewer, toHost>>

\* ws.onclose; a timer opens the next socket 3 s later, which joins again.
HostLost ==
    /\ hostUp
    /\ cut' = cut \cup {c \in Calls : call[c] \in {"peer", "offer"}}
    /\ HostSocketLost
    /\ UNCHANGED <<streamRef, call, hpc, answered, peer, viewers, crossed, misled, kicking>>

HostReturns ==
    /\ ~hostUp
    /\ hostUp' = TRUE
    /\ UNCHANGED <<hostVars, sock, request, seat, toViewer, toHost, trouble>>

HostStep ==
    \/ StartCapture \/ StopCapture
    \/ \E c \in Calls : OnViewerJoined(c) \/ PeerMade(c) \/ OfferMade(c) \/ SendIce(c)
    \/ OnAnswer \/ OnViewerLeft
    \/ Kick \/ KickDone
    \/ HostLost \/ HostReturns
=============================================================================
