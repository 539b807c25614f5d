------------------------------- MODULE Relay -------------------------------
(* What the signaling gateway does between one host and the pages that watch
   it as one viewer: it seats a page, passes descriptions and candidates on,
   and tells each side of the other.  How a request is decided, and the maps,
   are the business of Signaling; here a request is let in or refused at any
   time.  A message is handled by the gateway when it is sent; the delay is in
   the queue to its receiver, which is in order, as a WebSocket is. *)
EXTENDS Naturals, Sequences

CONSTANTS Attempts,  \* connection attempts of the viewer's pages, each with its socket
          Calls,     \* peer connections the host makes, one for each VIEWER_JOINED
          None

ASSUME RelayAssumption ==
    /\ Attempts \subseteq Nat /\ Calls \subseteq Nat
    /\ None \notin Nat

VARIABLES sock,      \* attempt -> its socket, seen from both ends
          request,   \* attempt -> what the gateway knows of its viewer:request
          seat,      \* the attempt findViewerSocket finds, or None
          hostUp,    \* getHostSocket finds the host
          toViewer,  \* attempt -> messages on the way to its page
          toHost,    \* messages on the way to the host
          trouble    \* what has happened that the code does not cope with: a seated viewer
                     \* was left without a peer, or worse, the host misses word of one

relayVars == <<sock, request, seat, hostUp, toViewer, toHost, trouble>>

Kind(k) == [kind |-> k, attempt |-> None, call |-> None]
ViewerKinds == {"PENDING", "APPROVED", "REJECTED", "KICKED", "HOST_DISCONNECTED", "OFFER", "ICE"}
HostKinds == {"VIEWER_JOINED", "VIEWER_LEFT", "ANSWER"}
Messages == [kind : ViewerKinds \cup HostKinds,
             attempt : Attempts \cup {None}, call : Calls \cup {None}]

RelayTypeOK ==
    /\ sock \in [Attempts -> {"none", "connecting", "open", "severed", "closing", "closed"}]
    /\ request \in [Attempts -> {"none", "sent", "pending", "over"}]
    /\ seat \in Attempts \cup {None}
    /\ hostUp \in BOOLEAN
    /\ toViewer \in [Attempts -> Seq(Messages)]
    /\ toHost \in Seq(Messages)
    /\ trouble \in {"none", "unserved", "unheard"}

RelayInit ==
    /\ sock = [a \in Attempts |-> "none"]
    /\ request = [a \in Attempts |-> "none"]
    /\ seat = None
    /\ hostUp = TRUE
    /\ toViewer = [a \in Attempts |-> <<>>]
    /\ toHost = <<>>
    /\ trouble = "none"

\* sendTo: only an open socket is written to.
Send(a, m) == IF a # None /\ sock[a] = "open"
              THEN [toViewer EXCEPT ![a] = Append(@, m)] ELSE toViewer
SendHost(m) == IF hostUp THEN Append(toHost, m) ELSE toHost
Troubled(k, when) == IF when /\ trouble # "unheard" THEN k ELSE trouble

\* viewer:request, not let in at once: the host is asked.
Ask(a) ==
    /\ request[a] = "sent"
    /\ hostUp
    /\ request' = [request EXCEPT ![a] = "pending"]
    /\ toViewer' = Send(a, Kind("PENDING"))
    /\ UNCHANGED <<sock, seat, hostUp, toHost, trouble>>

\* The whitelist lets the viewer in, without a word to it, or the host does;
\* the page that had the seat is cut off, and the host is not told that it left.
Admit(a) ==
    /\ request[a] \in {"sent", "pending"}
    /\ hostUp
    /\ request' = [request EXCEPT ![a] = "over"]
    /\ seat' = a
    /\ sock' = IF seat # None /\ sock[seat] = "open"
               THEN [sock EXCEPT ![seat] = "severed"] ELSE sock
    /\ toViewer' = IF request[a] = "pending" THEN Send(a, Kind("APPROVED")) ELSE toViewer
    /\ toHost' = SendHost(Kind("VIEWER_JOINED"))
    /\ trouble' = Troubled("unheard", seat # None)
    /\ UNCHANGED hostUp

\* A wrong password, no host, a blocked device, a denial, the 20 s timer.
Refuse(a) ==
    /\ request[a] \in {"sent", "pending"}
    /\ request' = [request EXCEPT ![a] = "over"]
    /\ toViewer' = Send(a, Kind("REJECTED"))
    /\ UNCHANGED <<sock, seat, hostUp, toHost, trouble>>

\* cleanupSocket, then VIEWER_LEFT if the socket had the seat.
Forget(a) ==
    /\ request' = [request EXCEPT ![a] = IF @ = "none" THEN @ ELSE "over"]
    /\ seat' = IF seat = a THEN None ELSE seat
    /\ toHost' = IF seat = a THEN SendHost(Kind("VIEWER_LEFT")) ELSE toHost

\* The close event of a socket the page closed.
CloseArrives(a) ==
    /\ sock[a] = "closing"
    /\ sock' = [sock EXCEPT ![a] = "closed"]
    /\ Forget(a)
    /\ UNCHANGED <<hostUp, toViewer, trouble>>

\* The network loses a socket; the page hears of it later.
LoseSocket(a) ==
    /\ sock[a] = "open"
    /\ sock' = [sock EXCEPT ![a] = "severed"]
    /\ Forget(a)
    /\ UNCHANGED <<hostUp, toViewer, trouble>>

\* kickViewer of the service: KICKED, close, VIEWER_LEFT.
KickSeat ==
    /\ toViewer' = Send(seat, Kind("KICKED"))
    /\ sock' = IF seat # None /\ sock[seat] = "open"
               THEN [sock EXCEPT ![seat] = "severed"] ELSE sock
    /\ seat' = None
    /\ toHost' = IF seat = None THEN toHost ELSE SendHost(Kind("VIEWER_LEFT"))
    /\ UNCHANGED <<request, hostUp>>

\* The host's socket is lost: its viewers are told and keep their seats; what
\* was on its way to the host is gone.
HostSocketLost ==
    /\ toViewer' = Send(seat, Kind("HOST_DISCONNECTED"))
    /\ toHost' = <<>>
    /\ hostUp' = FALSE
    /\ trouble' = "unheard"
    /\ UNCHANGED <<sock, request, seat>>

\* handleOffer and handleIce find the seat by viewer, whichever attempt has it.
RelayOffer(c) ==
    toViewer' = Send(seat, [kind |-> "OFFER", attempt |-> None, call |-> c])
RelayIce(c) ==
    toViewer' = Send(seat, [kind |-> "ICE", attempt |-> None, call |-> c])

\* handleAnswer: from any socket, seated or not.
RelayAnswer(a, c) ==
    toHost' = SendHost([kind |-> "ANSWER", attempt |-> a, call |-> c])
=============================================================================
