------------------------------ MODULE Sharing ------------------------------
(* A shared screen: the host, the gateway between, and the page of one viewer,
   with their awaits and the messages on their way. *)
EXTENDS ViewerSession, HostSession

CONSTANT MaxQueue   \* how many messages may be on the way to one end

vars == <<relayVars, viewerVars, hostVars>>

TypeOK == RelayTypeOK /\ ViewerTypeOK /\ HostTypeOK
Init == RelayInit /\ ViewerInit /\ HostInit

GatewayStep(a) == Ask(a) \/ Admit(a) \/ Refuse(a) \/ CloseArrives(a) \/ LoseSocket(a)

\* The two ends of a media connection have each other's descriptions.
Matched(a, c) == /\ remote[a] = c /\ answered[c] = a
                 /\ pc[a] # "closed" /\ hpc[c] = "open"

Media(a) == MediaChanges(a, \E c \in Calls : Matched(a, c))

\* Whoever would put more on a full way waits.
Bounded == /\ Len(toHost') <= MaxQueue
           /\ \A a \in Attempts : Len(toViewer'[a]) <= MaxQueue

Next ==
    /\ \/ \E a \in Attempts : GatewayStep(a) /\ UNCHANGED <<viewerVars, hostVars>>
       \/ \E a \in Attempts : (PageStep(a) \/ Media(a)) /\ UNCHANGED hostVars
       \/ \E next \in {"idle", "left"} : Stop(next) /\ UNCHANGED hostVars
       \/ Timeout /\ UNCHANGED hostVars
       \/ HostStep /\ UNCHANGED viewerVars
    /\ Bounded

Spec == Init /\ [][Next]_vars

\* Creating a peer succeeds or fails, and an armed timeout fires.  Nothing is
\* assumed of the network, the gateway or the host.
FairSpec ==
    /\ Spec
    /\ \A a \in Attempts : WF_vars(Create(a) /\ UNCHANGED hostVars)
    /\ WF_vars(Timeout /\ UNCHANGED hostVars)

-----------------------------------------------------------------------------

\* Every socket and peer connection that is open is in the refs, where
\* disconnect and the next attempt find it, and belongs to the attempt that is
\* current; what waits for the host has its timeout armed.  Only an attempt that
\* was given up during createReceiverPeer breaks this, for itself and for the
\* one it pushes out of the refs (useWebRTCViewer.ts:207).
AttemptIsHeld ==
    /\ \A a \in Attempts \ strayed :
          sock[a] \in {"connecting", "open"} \/ pc[a] \notin {"none", "closed"} => refs = a
    /\ refs \in {None, attempt} \cup strayed
    /\ state \in {"idle", "rejected", "left"} => refs \in {None} \cup strayed
    /\ state \in {"connecting", "pending"} /\ stage[attempt] # "peer" =>
          timer = attempt \/ attempt \in strayed

\* An attempt does not wait for ever, unless another took its timeout away.
AttemptsEnd == state \in {"connecting", "pending"} ~>
    state \notin {"connecting", "pending"} \/ (attempt \in strayed /\ timer # attempt)

Quiet == toHost = <<>> /\ ~kicking /\ \A c \in Calls : call[c] \notin {"peer", "offer"}

\* The peers that send the screen are the one in the map, which is on the list
\* once, and when all is quiet whoever is on the list has the seat: except for
\* calls whose viewer left during createSenderPeer (useWebRTCHost.ts:200), and
\* unless a page took over the seat of an earlier attempt whose end the host was
\* not told, or the host lost its socket and what was on the way with it.
ListIsTrue == trouble # "unheard" =>
    /\ \A c \in Calls \ crossed : hpc[c] = "open" <=> peer = c
    /\ viewers = 0 <=> peer = None
    /\ viewers > 1 => \E c \in crossed : hpc[c] = "open"
    /\ Quiet /\ peer \notin {None} \cup crossed => seat # None

\* When all is quiet and nothing went wrong, the page that has the seat and
\* still wants to watch is connected with the peer the host made for it, unless
\* another attempt took its refs or that peer was misled.
NegotiationCompletes == trouble = "none" /\ Quiet =>
    \A a \in Attempts \ strayed :
        seat = a /\ attempt = a /\ sock[a] = "open" /\ toViewer[a] = <<>> /\ pc[a] # "answering"
        => peer # None /\ (Matched(a, peer) \/ peer \in misled)
=============================================================================
