---------------------------- MODULE Permissions ----------------------------
(* The host's end of the input channel: the permissions it tells, and the input
   it acts on.  A click and the effects of its render are one step, as React
   flushes them together. *)
EXTENDS InputChannel

VARIABLE permissions  \* inputPermissions

HostTypeOK == permissions \in Grants

\* loadInputPermissions: whatever was stored, or the default.
HostInit == permissions \in Grants

\* Fault: the change is stored and not broadcast.
Permit_NoBroadcast(p) ==
    /\ p # permissions
    /\ permissions' = p
    /\ UNCHANGED channelVars

\* The permissions change, by a toggle; the effect tells every open channel.
Permit(p) ==
    /\ p # permissions
    /\ permissions' = p
    /\ toPage' = SendPage(p)
    /\ UNCHANGED <<link, hostEnd, pageEnd, toHost>>

\* channel.onopen tells the permissions.
HostOpens ==
    /\ Carries
    /\ hostEnd = "connecting"
    /\ hostEnd' = "open"
    /\ toPage' = Append(toPage, permissions)
    /\ UNCHANGED <<link, pageEnd, toHost, permissions>>

\* channel.onmessage: told again.  An event that is permitted at this moment is
\* shown as the last input, and changes nothing else.
OnHostMessage ==
    /\ Carries
    /\ hostEnd = "open"
    /\ toHost # <<>>
    /\ toHost' = Tail(toHost)
    /\ IF Head(toHost) = Sync
       THEN toPage' = SendPage(permissions) ELSE UNCHANGED toPage
    /\ UNCHANGED <<link, hostEnd, pageEnd, permissions>>

\* stopCapture closes channels and peers.
HostStops ==
    /\ link # "none"
    /\ hostEnd' = "none"
    /\ link' = "down"
    /\ toHost' = <<>> /\ toPage' = <<>>
    /\ UNCHANGED <<pageEnd, permissions>>

\* VIEWER_LEFT: the viewer's channel and peer are closed.
ViewerLeft ==
    /\ hostEnd # "none"
    /\ pageEnd = "none"
    /\ hostEnd' = "none"
    /\ UNCHANGED <<link, pageEnd, toPage, toHost, permissions>>

HostStep ==
    \/ \E p \in Grants : Permit(p)
    \/ HostOpens \/ OnHostMessage \/ HostStops \/ ViewerLeft
=============================================================================
