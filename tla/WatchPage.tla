----------------------------- MODULE WatchPage -----------------------------
(* The page that watches, WebRTCViewer over useWebRTCViewer: what it knows of
   the host's permissions, the mode it is in, the input it sends and whether it
   plays sound.  Handlers use the values of the last render, which follows a
   callback that set them after a while and a click at once. *)
EXTENDS InputChannel

VARIABLES active,  \* connectionState = "connected"
          synced,  \* inputPermissionsSynced
          perm,    \* remoteInputPermissions
          shown,   \* the three, as last rendered
          mode,    \* viewerMode
          local,   \* localControls
          frame,   \* an animation frame will send a mouse position
          volume,  \* 0, or 1 for any other
          muted,   \* video.muted
          unheeded \* a track came while sound was off, and nothing has changed since

pageVars == <<active, synced, perm, shown, mode, local, frame, volume, muted, unheeded>>

Known == [active |-> active, synced |-> synced, perm |-> perm]

PageTypeOK ==
    /\ {active, synced, frame, muted, unheeded} \subseteq BOOLEAN
    /\ perm \in Grants
    /\ shown \in [active : BOOLEAN, synced : BOOLEAN, perm : Grants]
    /\ mode \in {"player", "control"}
    /\ local \in Grants
    /\ volume \in {0, 1}

PageInit ==
    /\ active = FALSE /\ synced = FALSE
    /\ perm = DEFAULT_REMOTE_INPUT_PERMISSIONS
    /\ shown = Known
    /\ mode = "player"
    /\ local = [f \in Features |-> TRUE]
    /\ frame = FALSE
    /\ volume \in {0, 1}
    /\ muted = TRUE
    /\ unheeded = FALSE

\* keyboardControlEnabled and the like, as a render sees them.
Enabled(f, v, l) == v.active /\ v.synced /\ v.perm[f] /\ l[f]
HasHostInputPermissions(v) == v.synced /\ \E f \in Inputs : v.perm[f]
SoundOn(v, l) == "audio" \in Media /\ Enabled("audio", v, l)

\* The effect on the video element runs when its dependencies have changed.
Sound(was, on) ==
    IF was = on THEN UNCHANGED <<muted, unheeded>>
    ELSE muted' = (~on \/ volume = 0) /\ unheeded' = FALSE

\* Fault: control mode is left by hand alone.
Render_KeepsMode ==
    /\ shown # Known
    /\ shown' = Known
    /\ UNCHANGED mode
    /\ Sound(SoundOn(shown, local), SoundOn(Known, local))
    /\ UNCHANGED <<active, synced, perm, local, frame, volume, channelVars>>

\* What callbacks have set is rendered, and the effects run.
Render ==
    /\ shown # Known
    /\ shown' = Known
    /\ mode' = IF HasHostInputPermissions(Known) THEN mode ELSE "player"
    /\ Sound(SoundOn(shown, local), SoundOn(Known, local))
    /\ UNCHANGED <<active, synced, perm, local, frame, volume, channelVars>>

\* The handlers of keys and of the mouse are attached.
Wired == shown.active /\ mode = "control"

\* hostAllowedFeatures: the features that have a button.
Offered(f) == shown.active /\ shown.synced /\ shown.perm[f]

SelectMode ==
    /\ shown.active
    /\ HasHostInputPermissions(shown)
    /\ mode' = "control"
    /\ UNCHANGED <<active, synced, perm, shown, local, frame, volume, muted, unheeded, channelVars>>

\* The list of modes in the panel of the control mode, and the Escape key.
LeaveControl ==
    /\ Wired
    /\ mode' = "player"
    /\ UNCHANGED <<active, synced, perm, shown, local, frame, volume, muted, unheeded, channelVars>>

\* Fault: only a host that permits sound silences the page.
ToggleLocalFeature_NoEffect(f) ==
    /\ Offered(f)
    /\ local' = [local EXCEPT ![f] = ~@]
    /\ UNCHANGED <<active, synced, perm, shown, mode, frame, volume, muted, unheeded, channelVars>>

ToggleLocalFeature(f) ==
    /\ Offered(f)
    /\ local' = [local EXCEPT ![f] = ~@]
    /\ Sound(SoundOn(shown, local), SoundOn(shown, local'))
    /\ UNCHANGED <<active, synced, perm, shown, mode, frame, volume, channelVars>>

\* The mute button and the slider, there while sound is on.
SetVolume(v) ==
    /\ SoundOn(shown, local)
    /\ volume' = v
    /\ muted' = (v = 0)
    /\ UNCHANGED <<active, synced, perm, shown, mode, local, frame, unheeded, channelVars>>

\* A key, a button, the wheel.
SendInput(f) ==
    /\ Wired
    /\ Enabled(f, shown, local)
    /\ toHost' = SendHost(f)
    /\ UNCHANGED <<link, hostEnd, pageEnd, toPage, pageVars>>

\* A move waits for the next animation frame, and is sent by the function of
\* the render it was made in; the channel is the current one.
MouseMove ==
    /\ Wired
    /\ "mouse" \in Inputs /\ Enabled("mouse", shown, local)
    /\ frame' = TRUE
    /\ UNCHANGED <<active, synced, perm, shown, mode, local, volume, muted, unheeded, channelVars>>

AnimationFrame ==
    /\ frame
    /\ frame' = FALSE
    /\ toHost' = SendHost("mouse")
    /\ UNCHANGED <<active, synced, perm, shown, mode, local, volume, muted, unheeded,
                   link, hostEnd, pageEnd, toPage>>

\* inputChannel.onopen asks to be told.
PageOpens ==
    /\ Carries
    /\ pageEnd = "connecting"
    /\ pageEnd' = "open"
    /\ toHost' = Append(toHost, Sync)
    /\ UNCHANGED <<link, hostEnd, toPage, pageVars>>

OnPageMessage ==
    /\ Carries
    /\ pageEnd = "open"
    /\ toPage # <<>>
    /\ toPage' = Tail(toPage)
    /\ perm' = Head(toPage)
    /\ synced' = TRUE
    /\ UNCHANGED <<active, shown, mode, local, frame, volume, muted, unheeded,
                   link, hostEnd, pageEnd, toHost>>

Forget ==
    /\ synced' = FALSE
    /\ perm' = DEFAULT_REMOTE_INPUT_PERMISSIONS
    /\ active' = FALSE
    /\ toPage' = <<>> /\ toHost' = <<>>

\* disconnect, a timeout, KICKED: cleanupCurrentConnection.
Cleanup ==
    /\ pageEnd # "none"
    /\ Forget
    /\ pageEnd' = "none"
    /\ link' = "none"
    /\ UNCHANGED <<hostEnd, shown, mode, local, frame, volume, muted, unheeded>>

\* A session is negotiated, after the cleanup of connect; ontrack sets the
\* sound by the volume alone.
Negotiated ==
    /\ pageEnd = "none"
    /\ Forget
    /\ link' = "setup" /\ hostEnd' = "connecting" /\ pageEnd' = "connecting"
    /\ muted' = (volume = 0)
    /\ unheeded' = ~SoundOn(shown, local)
    /\ UNCHANGED <<shown, mode, local, frame, volume>>

\* pc.onconnectionstatechange, and HOST_DISCONNECTED, which leaves the link.
MediaUp ==
    /\ link = "setup" \/ (link = "down" /\ hostEnd # "none" /\ pageEnd # "none")
    /\ link' = "up"
    /\ active' = TRUE
    /\ UNCHANGED <<synced, perm, shown, mode, local, frame, volume, muted, unheeded,
                   hostEnd, pageEnd, toPage, toHost>>

MediaDown(l) ==
    /\ link = "up"
    /\ link' = l
    /\ active' = FALSE
    /\ UNCHANGED <<synced, perm, shown, mode, local, frame, volume, muted, unheeded,
                   hostEnd, pageEnd, toPage, toHost>>

\* The channel closes at both ends: inputChannel.onclose, channel.onclose.
LinkDies ==
    /\ link = "down"
    /\ link' = "none" /\ hostEnd' = "none" /\ pageEnd' = "none"
    /\ toPage' = <<>> /\ toHost' = <<>>
    /\ synced' = FALSE
    /\ active' = FALSE
    /\ UNCHANGED <<perm, shown, mode, local, frame, volume, muted, unheeded>>

\* What both overlays offer.
Buttons ==
    \/ \E f \in Features : ToggleLocalFeature(f)
    \/ \E v \in {0, 1} : SetVolume(v)

\* The overlay of the player, and the panel and the bar of the control mode.
PlayerBars == mode = "player" /\ (SelectMode \/ Buttons)
ControlPanel == mode = "control" /\ (LeaveControl \/ Buttons)

PageStep ==
    \/ Render \/ AnimationFrame \/ MouseMove
    \/ PlayerBars \/ ControlPanel
    \/ \E f \in Inputs : SendInput(f)
    \/ PageOpens \/ OnPageMessage \/ Cleanup
    \/ MediaUp \/ MediaDown("down") \/ MediaDown("up") \/ LinkDies
=============================================================================
