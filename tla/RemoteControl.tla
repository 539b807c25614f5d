--------------------------- MODULE RemoteControl ---------------------------
(* A host and one page that watches it and may steer it, from one session to
   the next. *)
EXTENDS Permissions, WatchPage

vars == <<channelVars, permissions, pageVars>>

TypeOK == ChannelTypeOK /\ HostTypeOK /\ PageTypeOK
Init == ChannelInit /\ HostInit /\ PageInit

Bounded == Len(toPage') <= MaxQueue /\ Len(toHost') <= MaxQueue

Watched == Negotiated

Next ==
    /\ \/ HostStep /\ UNCHANGED pageVars
       \/ (PageStep \/ Watched) /\ UNCHANGED permissions
    /\ Bounded

Spec == Init /\ [][Next]_vars

\* Renders come, a link that is down comes back or dies, and the channel is
\* reliable: it delivers although the link goes down again and again.
FairSpec ==
    /\ Spec
    /\ WF_vars(Render /\ UNCHANGED permissions)
    /\ WF_vars((MediaUp \/ LinkDies) /\ UNCHANGED permissions)
    /\ SF_vars(OnPageMessage /\ UNCHANGED permissions)

-----------------------------------------------------------------------------

\* When the channel is open and quiet the page knows the host's permissions,
\* whatever was toggled, lost or asked again meanwhile.
PermissionsAgree ==
    Carries /\ hostEnd = "open" /\ pageEnd = "open" /\ toPage = <<>> =>
        synced /\ perm = permissions

\* A page that steers is stopped by the host's withdrawal: it leaves the
\* control mode, unless something is permitted again.
ControlIsWithdrawn ==
    (\A f \in Inputs : ~permissions[f]) ~> (mode = "player" \/ \E f \in Inputs : permissions[f])

\* Sound that is off, here or at the host, is not played, once it was on since
\* the tracks came or was switched off after them.
SilentWhenOff ==
    shown = Known /\ ~SoundOn(shown, local) /\ ~unheeded => muted
=============================================================================
