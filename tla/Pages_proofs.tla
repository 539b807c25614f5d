----------------------------- MODULE Pages_proofs -----------------------------
(***************************************************************************)
(* Proofs about the web application's pages: permissions and sound between *)
(* a host and a page that watches it, for all features and for channels of *)
(* any length, and the page of a device, for every set of passwords and of *)
(* streams.                                                                *)
(***************************************************************************)
EXTENDS RemoteControl, DevicePage, TLAPS

-----------------------------------------------------------------------------
(* Types *)

\* A mouse position waits only where there is a mouse.
FrameIsMouse == frame => "mouse" \in Inputs

TypeInv == TypeOK /\ FrameIsMouse

LEMMA TypeInit == Init => TypeInv
<1> SUFFICES ASSUME Init PROVE TypeInv
  OBVIOUS
<1>1. DEFAULT_REMOTE_INPUT_PERMISSIONS \in Grants /\ [f \in Features |-> TRUE] \in Grants
  BY DEF DEFAULT_REMOTE_INPUT_PERMISSIONS, Grants
<1>2. <<>> \in Seq(Grants) /\ <<>> \in Seq(Inputs \cup {Sync})
  OBVIOUS
<1> QED
  BY <1>1, <1>2
     DEF Init, ChannelInit, HostInit, PageInit, TypeInv, TypeOK, FrameIsMouse,
         ChannelTypeOK, HostTypeOK, PageTypeOK, Known

\* What is sent is of the type of the channel.
LEMMA SendTypes ==
    ASSUME TypeInv
    PROVE  /\ \A p \in Grants : SendPage(p) \in Seq(Grants)
           /\ \A p \in Grants : Append(toPage, p) \in Seq(Grants)
           /\ \A m \in Inputs \cup {Sync} : SendHost(m) \in Seq(Inputs \cup {Sync})
           /\ Append(toHost, Sync) \in Seq(Inputs \cup {Sync})
           /\ toPage # <<>> => Head(toPage) \in Grants /\ Tail(toPage) \in Seq(Grants)
           /\ toHost # <<>> => Tail(toHost) \in Seq(Inputs \cup {Sync})
           /\ <<>> \in Seq(Grants) /\ <<>> \in Seq(Inputs \cup {Sync})
<1>1. toPage \in Seq(Grants) /\ toHost \in Seq(Inputs \cup {Sync})
  BY DEF TypeInv, TypeOK, ChannelTypeOK
<1> HIDE DEF Grants
<1> QED
  BY <1>1 DEF SendPage, SendHost

LEMMA HostTypes == ASSUME TypeInv, HostStep PROVE ChannelTypeOK' /\ HostTypeOK'
<1> USE SendTypes DEF TypeInv, TypeOK, ChannelTypeOK, HostTypeOK
<1>1. ASSUME NEW p \in Grants, Permit(p)
      PROVE  ChannelTypeOK' /\ HostTypeOK'
  <2>1. toPage' \in Seq(Grants)
    BY <1>1 DEF Permit
  <2> QED
    BY <1>1, <2>1 DEF Permit
<1>2. CASE HostOpens
  BY <1>2 DEF HostOpens
<1>3. CASE OnHostMessage
  <2>1. toPage' \in Seq(Grants) /\ toHost' \in Seq(Inputs \cup {Sync})
    BY <1>3 DEF OnHostMessage
  <2> QED
    BY <1>3, <2>1 DEF OnHostMessage
<1>4. CASE HostStops \/ ViewerLeft
  BY <1>4 DEF HostStops, ViewerLeft
<1> QED
  BY <1>1, <1>2, <1>3, <1>4 DEF HostStep

\* The page's own state, click by click and callback by callback.
LEMMA PageTypes ==
    ASSUME TypeInv, PageStep \/ Watched
    PROVE  ChannelTypeOK' /\ PageTypeOK' /\ FrameIsMouse'
<1> USE SendTypes
    DEF TypeInv, TypeOK, ChannelTypeOK, PageTypeOK, FrameIsMouse, channelVars, pageVars
<1>1. CASE Render
  <2>1. muted' \in BOOLEAN /\ unheeded' \in BOOLEAN
    BY <1>1 DEF Render, Sound
  <2>2. mode' \in {"player", "control"}
    BY <1>1 DEF Render
  <2> QED
    BY <1>1, <2>1, <2>2 DEF Render, Known
<1>2. CASE SelectMode \/ LeaveControl
  BY <1>2 DEF SelectMode, LeaveControl
<1>3. ASSUME NEW f \in Features, ToggleLocalFeature(f)
      PROVE  ChannelTypeOK' /\ PageTypeOK' /\ FrameIsMouse'
  <2>1. muted' \in BOOLEAN /\ unheeded' \in BOOLEAN
    BY <1>3 DEF ToggleLocalFeature, Sound
  <2>2. local' \in Grants
    BY <1>3 DEF ToggleLocalFeature, Grants
  <2> QED
    BY <1>3, <2>1, <2>2 DEF ToggleLocalFeature
<1>4. ASSUME NEW v \in {0, 1}, SetVolume(v)
      PROVE  ChannelTypeOK' /\ PageTypeOK' /\ FrameIsMouse'
  <2>1. muted' \in BOOLEAN /\ volume' \in {0, 1}
    BY <1>4 DEF SetVolume
  <2> QED
    BY <1>4, <2>1 DEF SetVolume
<1>5. ASSUME NEW f \in Inputs, SendInput(f)
      PROVE  ChannelTypeOK' /\ PageTypeOK' /\ FrameIsMouse'
  <2>1. toHost' \in Seq(Inputs \cup {Sync})
    BY <1>5 DEF SendInput
  <2> QED
    BY <1>5, <2>1 DEF SendInput
<1>6. CASE MouseMove
  BY <1>6 DEF MouseMove
<1>7. CASE AnimationFrame
  <2>1. toHost' \in Seq(Inputs \cup {Sync})
    BY <1>7 DEF AnimationFrame
  <2> QED
    BY <1>7, <2>1 DEF AnimationFrame
<1>8. CASE PageOpens
  BY <1>8 DEF PageOpens
<1>9. CASE OnPageMessage
  BY <1>9 DEF OnPageMessage
<1>10. DEFAULT_REMOTE_INPUT_PERMISSIONS \in Grants
  BY DEF DEFAULT_REMOTE_INPUT_PERMISSIONS, Grants
<1>11. CASE Cleanup
  BY <1>10, <1>11 DEF Cleanup, Forget
<1>12. CASE Watched
  <2>1. muted' \in BOOLEAN /\ unheeded' \in BOOLEAN
    BY <1>12 DEF Watched, Negotiated
  <2>2. /\ active' = FALSE /\ synced' = FALSE /\ perm' \in Grants
        /\ UNCHANGED <<shown, mode, local, frame, volume>>
    BY <1>10, <1>12 DEF Watched, Negotiated, Forget
  <2>3. ChannelTypeOK'
    BY <1>12 DEF Watched, Negotiated, Forget
  <2>4. PageTypeOK'
    BY <2>1, <2>2
  <2>5. FrameIsMouse'
    BY <2>2
  <2> QED
    BY <2>3, <2>4, <2>5
<1>13. ASSUME NEW l \in {"down", "up"}, MediaUp \/ MediaDown(l)
      PROVE  ChannelTypeOK' /\ PageTypeOK' /\ FrameIsMouse'
  <2>1. link' \in {"down", "up"} /\ active' \in BOOLEAN
    BY <1>13 DEF MediaUp, MediaDown
  <2>2. ChannelTypeOK'
    BY <1>13, <2>1 DEF MediaUp, MediaDown
  <2>3. PageTypeOK' /\ FrameIsMouse'
    BY <1>13, <2>1 DEF MediaUp, MediaDown
  <2> QED
    BY <2>2, <2>3
<1>14. CASE LinkDies
  <2>1. ChannelTypeOK'
    BY <1>14 DEF LinkDies
  <2>2. PageTypeOK' /\ FrameIsMouse'
    BY <1>14 DEF LinkDies
  <2> QED
    BY <2>1, <2>2
<1> HIDE DEF TypeInv, TypeOK, ChannelTypeOK, PageTypeOK, FrameIsMouse
<1> QED
  BY <1>1, <1>2, <1>3, <1>4, <1>5, <1>6, <1>7, <1>8, <1>9, <1>11, <1>12, <1>13,
     <1>14
     DEF PageStep, PlayerBars, ControlPanel, Buttons

LEMMA TypeNext == TypeInv /\ [Next]_vars => TypeInv'
<1> SUFFICES ASSUME TypeInv, [Next]_vars PROVE TypeInv'
  OBVIOUS
<1>1. CASE HostStep /\ UNCHANGED pageVars
  BY <1>1, HostTypes DEF TypeInv, TypeOK, PageTypeOK, FrameIsMouse, pageVars
<1>2. CASE (PageStep \/ Watched) /\ UNCHANGED permissions
  BY <1>2, PageTypes DEF TypeInv, TypeOK, HostTypeOK
<1>3. CASE UNCHANGED vars
  BY <1>3
     DEF TypeInv, TypeOK, ChannelTypeOK, HostTypeOK, PageTypeOK, FrameIsMouse,
         vars, channelVars, pageVars
<1> QED
  BY <1>1, <1>2, <1>3 DEF Next

\* Channel, host and page keep their types.
THEOREM TypeCorrect == Spec => []TypeOK
<1>1. TypeInv => TypeOK
  BY DEF TypeInv
<1> QED
  BY <1>1, TypeInit, TypeNext, PTL DEF Spec

-----------------------------------------------------------------------------
(* Permissions *)

\* As long as a session lasts, the last word on its way to the page, or else
\* what the page knows, is what the host permits.
LastWord ==
    hostEnd = "open" /\ link # "none" /\ pageEnd # "none" =>
        IF toPage = <<>> THEN pageEnd = "open" /\ synced /\ perm = permissions
        ELSE toPage[Len(toPage)] = permissions

\* The last word of a channel after a send and after a receipt.
LEMMA Ends ==
    ASSUME NEW S, NEW q \in Seq(S), NEW e \in S
    PROVE  /\ Append(q, e) # <<>> /\ Append(q, e)[Len(Append(q, e))] = e
           /\ q # <<>> /\ Tail(q) = <<>> => q[Len(q)] = Head(q)
           /\ q # <<>> /\ Tail(q) # <<>> => Tail(q)[Len(Tail(q))] = q[Len(q)]
<1>1. Append(q, e) # <<>> /\ Append(q, e)[Len(Append(q, e))] = e
  OBVIOUS
<1>2. ASSUME q # <<>>
      PROVE  \E t \in Seq(S), n \in Nat :
                /\ t = Tail(q) /\ Len(t) = n /\ Len(q) = n + 1 /\ Head(q) = q[1]
                /\ t = <<>> <=> n = 0
                /\ \A i \in 1..n : t[i] = q[i + 1]
  <2>1. /\ Len(q) > 0 /\ Head(q) = q[1] /\ Tail(q) \in Seq(S)
        /\ Len(Tail(q)) = Len(q) - 1
        /\ \A i \in 1..Len(Tail(q)) : Tail(q)[i] = q[i + 1]
    BY <1>2
  <2>2. \A t \in Seq(S) : t = <<>> <=> Len(t) = 0
    OBVIOUS
  <2>3. Tail(q) = <<>> <=> Len(Tail(q)) = 0
    BY <2>1, <2>2, Zenon
  <2>4. PICK t, n : t = Tail(q) /\ n = Len(q) - 1
    OBVIOUS
  <2>5. Len(t) = n /\ (t = <<>> <=> Len(t) = 0) /\ \A i \in 1..Len(t) : t[i] = q[i + 1]
    BY <2>1, <2>3, <2>4, Zenon
  <2>6. t \in Seq(S) /\ n \in Nat /\ Len(q) = n + 1
    BY <2>1, <2>4
  <2> QED
    BY <2>1, <2>4, <2>5, <2>6
<1>3. ASSUME q # <<>>
      PROVE  IF Tail(q) = <<>> THEN q[Len(q)] = Head(q)
             ELSE Tail(q)[Len(Tail(q))] = q[Len(q)]
  <2>1. PICK t \in Seq(S), n \in Nat :
                /\ t = Tail(q) /\ Len(t) = n /\ Len(q) = n + 1 /\ Head(q) = q[1]
                /\ t = <<>> <=> n = 0
                /\ \A i \in 1..n : t[i] = q[i + 1]
    BY <1>2, <1>3
  <2>2. IF t = <<>> THEN q[Len(q)] = Head(q) ELSE t[Len(t)] = q[Len(q)]
    <3>1. n # 0 => n \in 1..n
      OBVIOUS
    <3> QED
      BY <2>1, <3>1
  <2> QED
    BY <2>1, <2>2
<1> QED
  BY <1>1, <1>3

LEMMA LastWordNext == TypeInv /\ LastWord /\ [Next]_vars => LastWord'
<1> SUFFICES ASSUME TypeInv, LastWord, [Next]_vars PROVE LastWord'
  OBVIOUS
<1>1. toPage \in Seq(Grants) /\ permissions \in Grants
  BY DEF TypeInv, TypeOK, ChannelTypeOK, HostTypeOK
<1>2. \A p \in Grants : /\ Append(toPage, p) # <<>>
                        /\ Append(toPage, p)[Len(Append(toPage, p))] = p
  BY <1>1, Ends
<1> USE DEF LastWord
<1>3. CASE UNCHANGED <<link, hostEnd, pageEnd, toPage, synced, perm, permissions>>
  BY <1>3
<1>4. ASSUME NEW p \in Grants, Permit(p), UNCHANGED pageVars
      PROVE  LastWord'
  BY <1>2, <1>4 DEF Permit, SendPage, pageVars
<1>5. CASE HostOpens /\ UNCHANGED pageVars
  BY <1>1, <1>2, <1>5 DEF HostOpens, pageVars
<1>6. CASE OnHostMessage /\ UNCHANGED pageVars
  BY <1>1, <1>2, <1>6 DEF OnHostMessage, SendPage, pageVars
<1>7. CASE HostStops \/ ViewerLeft
  BY <1>7 DEF HostStops, ViewerLeft
<1>8. CASE OnPageMessage /\ UNCHANGED permissions
  <2>1. CASE Tail(toPage) = <<>>
    BY <1>1, <1>8, <2>1, Ends DEF OnPageMessage
  <2>2. CASE Tail(toPage) # <<>>
    BY <1>1, <1>8, <2>2, Ends DEF OnPageMessage
  <2> QED
    BY <2>1, <2>2
<1>9. CASE PageOpens /\ UNCHANGED permissions
  BY <1>9 DEF PageOpens, pageVars
<1>10. CASE Cleanup \/ Watched \/ LinkDies
  BY <1>10 DEF Cleanup, Watched, Negotiated, LinkDies
<1>11. CASE (MediaUp \/ MediaDown("down") \/ MediaDown("up")) /\ UNCHANGED permissions
  <2>1. link # "none"
    BY <1>11 DEF MediaUp, MediaDown
  <2> QED
    BY <1>11, <2>1 DEF MediaUp, MediaDown
<1>12. CASE /\ Render \/ AnimationFrame \/ MouseMove \/ SelectMode \/ LeaveControl \/ Buttons
               \/ \E f \in Inputs : SendInput(f)
            /\ UNCHANGED permissions
  BY <1>3, <1>12
     DEF Render, AnimationFrame, MouseMove, SelectMode, LeaveControl, Buttons,
         ToggleLocalFeature, SetVolume, SendInput, channelVars, pageVars
<1>13. CASE UNCHANGED vars
  BY <1>3, <1>13 DEF vars, channelVars, pageVars
<1> HIDE DEF LastWord
<1> QED
  BY <1>4, <1>5, <1>6, <1>7, <1>8, <1>9, <1>10, <1>11, <1>12, <1>13
     DEF Next, HostStep, PageStep, PlayerBars, ControlPanel

\* On an open and quiet channel the page knows the permissions, whatever was
\* toggled, lost or asked again: useWebRTCHost.ts broadcasts what is permitted
\* and answers every sync with it.
THEOREM PermissionsKnown == Spec => []PermissionsAgree
<1>1. Init => LastWord
  BY DEF Init, ChannelInit, LastWord
<1>2. LastWord => PermissionsAgree
  BY DEF LastWord, PermissionsAgree, Carries
<1>3. Spec => [](TypeInv /\ LastWord)
  BY <1>1, TypeInit, TypeNext, LastWordNext, PTL DEF Spec
<1> QED
  BY <1>2, <1>3, PTL

-----------------------------------------------------------------------------
(* Sound *)

\* The same between a callback and its render.
SilentAsShown == ~SoundOn(shown, local) /\ ~unheeded => muted

LEMMA SilentNext == SilentAsShown /\ [Next]_vars => SilentAsShown'
<1> SUFFICES ASSUME SilentAsShown, [Next]_vars PROVE SilentAsShown'
  OBVIOUS
<1> USE DEF SilentAsShown
<1>1. CASE UNCHANGED <<shown, local, unheeded, muted>>
  BY <1>1 DEF SoundOn, Enabled
<1>2. CASE Render
  <2>1. shown' = Known /\ local' = local /\ Sound(SoundOn(shown, local), SoundOn(Known, local))
    BY <1>2 DEF Render
  <2>2. SoundOn(shown, local)' = SoundOn(Known, local)
    BY <2>1 DEF SoundOn, Enabled
  <2> QED
    BY <2>1, <2>2 DEF Sound
<1>3. ASSUME NEW f \in Features, ToggleLocalFeature(f)
      PROVE  SilentAsShown'
  <2>1. shown' = shown /\ Sound(SoundOn(shown, local), SoundOn(shown, local'))
    BY <1>3 DEF ToggleLocalFeature
  <2>2. SoundOn(shown, local)' = SoundOn(shown, local')
    BY <2>1 DEF SoundOn, Enabled
  <2> QED
    BY <2>1, <2>2 DEF Sound
<1>4. ASSUME NEW v \in {0, 1}, SetVolume(v)
      PROVE  SilentAsShown'
  <2>1. SoundOn(shown, local)'
    BY <1>4 DEF SetVolume, SoundOn, Enabled
  <2> QED
    BY <2>1
<1>5. CASE Watched
  <2>1. unheeded' = ~SoundOn(shown, local) /\ UNCHANGED <<shown, local>>
    BY <1>5 DEF Watched, Negotiated
  <2>2. SoundOn(shown, local)' = SoundOn(shown, local)
    BY <2>1 DEF SoundOn, Enabled
  <2> QED
    BY <2>1, <2>2
<1>6. CASE \/ AnimationFrame \/ MouseMove \/ SelectMode \/ LeaveControl
           \/ \E f \in Inputs : SendInput(f)
           \/ PageOpens \/ OnPageMessage \/ Cleanup
           \/ MediaUp \/ MediaDown("down") \/ MediaDown("up") \/ LinkDies
           \/ UNCHANGED pageVars \/ UNCHANGED vars
  BY <1>1, <1>6
     DEF AnimationFrame, MouseMove, SelectMode, LeaveControl, SendInput, PageOpens,
         OnPageMessage, Cleanup, MediaUp, MediaDown, LinkDies, vars, pageVars
<1> HIDE DEF SilentAsShown
<1> QED
  BY <1>2, <1>3, <1>4, <1>5, <1>6
     DEF Next, PageStep, PlayerBars, ControlPanel, Buttons

\* Sound that is off is not played, whoever switched it off and whenever tracks
\* and permissions arrive, with the one exception the property names:
\* WebRTCViewer.tsx, the effect on the video element.
THEOREM SilenceKept == Spec => []SilentWhenOff
<1>1. Init => SilentAsShown
  BY DEF Init, PageInit, SilentAsShown
<1>2. SilentAsShown => SilentWhenOff
  BY DEF SilentAsShown, SilentWhenOff
<1> QED
  BY <1>1, <1>2, SilentNext, PTL DEF Spec

-----------------------------------------------------------------------------
(* The page of a device: types *)

\* A stream is something.
LEMMA StreamIsSome == ASSUME NEW s \in Streams PROVE s # None
BY StreamsAssumption

\* What stopCapture leaves behind is of its type.
LEMMA StopTypes ==
    ASSUME DeviceTypeOK, NEW e \in Streams \cup {None}, Stop(e)
    PROVE  DeviceTypeOK'
<1>1. live' \subseteq Streams /\ sounding' \subseteq live' /\ heard' \subseteq sounding'
  BY DEF DeviceTypeOK, Stop
<1>2. lost' \in BOOLEAN
  BY DEF DeviceTypeOK, Stop
<1> QED
  BY <1>1, <1>2 DEF DeviceTypeOK, Stop, passwordVars, permissionVars

LEMMA SetPermissionsTypes ==
    ASSUME DeviceTypeOK, NEW a \in BOOLEAN, NEW r \in BOOLEAN, SetPermissions(a, r)
    PROVE  /\ audio' \in BOOLEAN /\ rest' \in BOOLEAN
           /\ heard' \subseteq sounding
           /\ UNCHANGED <<ws, passwordVars, captureVars>>
<1>1. heard' \subseteq sounding
  BY DEF DeviceTypeOK, SetPermissions, Gate, captureVars
<1> QED
  BY <1>1 DEF SetPermissions

LEMMA DeviceTypeInit == DeviceInit => DeviceTypeOK
BY PasswordsAssumption DEF DeviceInit, DeviceTypeOK, Gaps

LEMMA DeviceTypeNext == DeviceTypeOK /\ [DeviceNext]_deviceVars => DeviceTypeOK'
<1> SUFFICES ASSUME DeviceTypeOK, [DeviceNext]_deviceVars PROVE DeviceTypeOK'
  OBVIOUS
<1> USE PasswordsAssumption DEF passwordVars, permissionVars, captureVars
<1>1. ASSUME NEW pw \in Passwords, TypePassword(pw) \/ SavePassword(pw)
      PROVE  DeviceTypeOK'
  <2>1. CASE TypePassword(pw)
    BY <2>1 DEF DeviceTypeOK, TypePassword
  <2>2. CASE SavePassword(pw)
    <3>1. gaps' \subseteq Gaps
      BY <2>2 DEF DeviceTypeOK, SavePassword, Noting, Gaps
    <3> QED
      BY <2>2, <3>1 DEF DeviceTypeOK, SavePassword
  <2> QED
    BY <1>1, <2>1, <2>2
<1>2. CASE SaveAnswered \/ SaveFails
  <2>1. gaps' \subseteq Gaps
    BY <1>2 DEF DeviceTypeOK, SaveAnswered, SaveFails, Noting, Gaps
  <2>2. registered' \in Passwords /\ gateway' \in Passwords \cup {None}
    BY <1>2 DEF DeviceTypeOK, SaveAnswered, SaveFails, Stored, UpdatePassword
  <2> QED
    BY <1>2, <2>1, <2>2 DEF DeviceTypeOK, SaveAnswered, SaveFails
<1>3. ASSUME NEW ok \in BOOLEAN, MountAnswered(ok)
      PROVE  DeviceTypeOK'
  <2>1. registered' \in Passwords
    BY <1>3 DEF DeviceTypeOK, MountAnswered, Stored
  <2>2. /\ mounting' = FALSE /\ isRegistered' = ok
        /\ UNCHANGED <<ws, typed, stored, gateway, saving, gaps,
                       permissionVars, captureVars, heard>>
    BY <1>3 DEF MountAnswered
  <2> QED
    BY <2>1, <2>2 DEF DeviceTypeOK
<1>4. CASE SocketOpens \/ SocketLost \/ GatewayForgets \/ SocketReopens
  <2>1. CASE SocketOpens
    <3>1. gaps' \subseteq Gaps
      BY <2>1 DEF DeviceTypeOK, SocketOpens, Noting, Gaps
    <3> QED
      BY <2>1, <3>1 DEF DeviceTypeOK, SocketOpens
  <2>2. CASE SocketLost
    BY <2>2 DEF DeviceTypeOK, SocketLost
  <2>3. CASE GatewayForgets
    BY <2>3 DEF DeviceTypeOK, GatewayForgets
  <2>4. CASE SocketReopens
    BY <2>4 DEF DeviceTypeOK, SocketReopens
  <2> QED
    BY <1>4, <2>1, <2>2, <2>3, <2>4
<1>5. CASE ToggleInputFeature
  <2>1. PICK a \in BOOLEAN, r \in BOOLEAN : SetPermissions(a, r) /\ UNCHANGED previous
    BY <1>5 DEF DeviceTypeOK, ToggleInputFeature
  <2> QED
    BY <2>1, SetPermissionsTypes DEF DeviceTypeOK
<1>6. CASE ToggleAllInputs
  <2>1. /\ previous' \in BOOLEAN \cup {None}
        /\ \E a, r \in BOOLEAN : SetPermissions(a, r)
    BY <1>6 DEF DeviceTypeOK, ToggleAllInputs
  <2> QED
    BY <2>1, SetPermissionsTypes DEF DeviceTypeOK
<1>7. ASSUME StartCapture \/ \E s \in Streams : CaptureRefused(s)
      PROVE  DeviceTypeOK'
  <2>1. dialogs' \in [Streams -> {"none", "silent", "sound"}]
    BY <1>7 DEF DeviceTypeOK, StartCapture, CaptureRefused
  <2>2. lost' \in BOOLEAN
    BY <1>7 DEF DeviceTypeOK, StartCapture, CaptureRefused
  <2> QED
    BY <1>7, <2>1, <2>2 DEF DeviceTypeOK, StartCapture, CaptureRefused
<1>8. ASSUME NEW s \in Streams, CaptureGranted(s)
      PROVE  DeviceTypeOK'
  <2>1. /\ dialogs' \in [Streams -> {"none", "silent", "sound"}]
        /\ live' \subseteq Streams /\ sounding' \subseteq live'
    BY <1>8 DEF DeviceTypeOK, CaptureGranted, Obtain
  <2>2. heard' \subseteq sounding'
    BY <1>8 DEF DeviceTypeOK, CaptureGranted, Obtain, Gate
  <2> QED
    BY <1>8, <2>1, <2>2 DEF DeviceTypeOK, CaptureGranted
<1>9. CASE StopCapture \/ \E s \in Streams : TrackEnds(s)
  BY <1>9, StopTypes DEF StopCapture, TrackEnds
<1>10. CASE UNCHANGED deviceVars
  BY <1>10 DEF DeviceTypeOK, deviceVars
<1> QED
  BY <1>1, <1>2, <1>3, <1>4, <1>5, <1>6, <1>7, <1>8, <1>9, <1>10 DEF DeviceNext

\* The state of the page keeps its types.
THEOREM DeviceTypeCorrect == DeviceSpec => []DeviceTypeOK
BY DeviceTypeInit, DeviceTypeNext, PTL DEF DeviceSpec

-----------------------------------------------------------------------------
(* The capture *)

\* Until a socket is lost in the middle of a capture one dialog is open, and
\* only while the page says so.
OneDialog == ~lost =>
    /\ \A s, t \in Dialogs : s = t
    /\ Dialogs # {} <=> captureState = "requesting"

CaptureInv == CaptureIsHeld /\ OneDialog

LEMMA CaptureNext == DeviceTypeOK /\ CaptureInv /\ [DeviceNext]_deviceVars => CaptureInv'
<1> SUFFICES ASSUME DeviceTypeOK, CaptureInv, [DeviceNext]_deviceVars PROVE CaptureInv'
  OBVIOUS
<1> USE StreamIsSome DEF CaptureInv, CaptureIsHeld, OneDialog, Dialogs, captureVars
<1>1. CASE UNCHANGED <<captureVars, audio, heard>>
  BY <1>1
<1>2. ASSUME NEW a \in BOOLEAN, NEW r \in BOOLEAN, SetPermissions(a, r)
      PROVE  CaptureInv'
  BY <1>2 DEF SetPermissions, Gate, DeviceTypeOK
<1>3. CASE SocketLost
  BY <1>3 DEF SocketLost, permissionVars
<1>4. CASE StartCapture
  <2>1. PICK s \in Streams : /\ dialogs[s] = "none"
                             /\ \A t \in Streams \ {s} : dialogs'[t] = dialogs[t]
                             /\ dialogs'[s] \in {"silent", "sound"}
    BY <1>4 DEF StartCapture, DeviceTypeOK
  <2>2. /\ UNCHANGED <<audio, streamRef, live, sounding, heard, lost>>
        /\ captureState \in {"idle", "error"} /\ captureState' = "requesting"
    BY <1>4 DEF StartCapture, permissionVars
  <2> QED
    BY <2>1, <2>2
<1>5. ASSUME NEW s \in Streams, dialogs[s] # "none", dialogs' = [dialogs EXCEPT ![s] = "none"]
      PROVE  Dialogs' = Dialogs \ {s}
  BY <1>5 DEF DeviceTypeOK
<1>6. ASSUME NEW s \in Streams, CaptureRefused(s)
      PROVE  CaptureInv'
  <2>1. Dialogs' = Dialogs \ {s} /\ s \in Dialogs
    BY <1>5, <1>6 DEF CaptureRefused
  <2>2. /\ UNCHANGED <<audio, streamRef, live, sounding, heard>>
        /\ captureState' = "error" /\ lost' = (lost /\ (live # {} \/ Dialogs # {s}))
    BY <1>6 DEF CaptureRefused, permissionVars
  <2> HIDE DEF Dialogs
  <2> QED
    BY <2>1, <2>2
<1>7. ASSUME NEW s \in Streams, CaptureGranted(s)
      PROVE  CaptureInv'
  <2>1. Dialogs' = Dialogs \ {s} /\ s \in Dialogs
    BY <1>5, <1>7 DEF CaptureGranted, Obtain
  <2>2. /\ live' = live \cup {s} /\ streamRef' = s /\ captureState' = "active"
        /\ UNCHANGED <<audio, lost>>
    BY <1>7 DEF CaptureGranted, Obtain, permissionVars
  <2>3. s \in heard' <=> audio /\ s \in sounding'
    BY <1>7 DEF CaptureGranted, Obtain, Gate, DeviceTypeOK
  <2>4. ~lost => live = {}
    BY <2>1, StreamsAssumption DEF DeviceTypeOK
  <2> HIDE DEF Dialogs
  <2> QED
    BY <2>1, <2>2, <2>3, <2>4
<1>8. ASSUME NEW e \in Streams \cup {None}, Stop(e), e \in live \/ captureState = "active"
      PROVE  CaptureInv'
  <2>1. /\ captureState' = "idle" /\ streamRef' = None
        /\ live' = live \ {streamRef, e}
        /\ lost' = (lost /\ (live' # {} \/ Dialogs # {}))
        /\ Dialogs' = Dialogs
    BY <1>8 DEF Stop
  <2>2. ~lost => captureState = "active"
    BY <1>8, StreamsAssumption DEF DeviceTypeOK
  <2>3. ~lost => live' = {} /\ Dialogs = {}
    BY <2>1, <2>2
  <2> HIDE DEF Dialogs
  <2> QED
    BY <2>1, <2>3
<1>9. ASSUME NEW pw \in Passwords, TypePassword(pw) \/ SavePassword(pw)
      PROVE  CaptureInv'
  BY <1>1, <1>9 DEF TypePassword, SavePassword, permissionVars
<1>10. ASSUME NEW ok \in BOOLEAN, MountAnswered(ok)
      PROVE  CaptureInv'
  BY <1>1, <1>10 DEF MountAnswered, permissionVars
<1>11. CASE SaveAnswered \/ SaveFails \/ SocketOpens \/ GatewayForgets \/ SocketReopens
  BY <1>1, <1>11
     DEF SaveAnswered, SaveFails, SocketOpens, GatewayForgets, SocketReopens, permissionVars
<1>12. CASE ToggleInputFeature \/ ToggleAllInputs
  <2>1. \E a, r \in BOOLEAN : SetPermissions(a, r)
    BY <1>12 DEF DeviceTypeOK, ToggleInputFeature, ToggleAllInputs
  <2> QED
    BY <1>2, <2>1
<1>13. CASE StopCapture
  BY <1>8, <1>13 DEF StopCapture
<1>14. ASSUME NEW s \in Streams, TrackEnds(s)
       PROVE  CaptureInv'
  BY <1>8, <1>14 DEF TrackEnds
<1>15. CASE UNCHANGED deviceVars
  BY <1>1, <1>15 DEF deviceVars, permissionVars
<1> HIDE DEF CaptureInv, CaptureIsHeld, OneDialog, Dialogs, captureVars
<1> QED
  BY <1>3, <1>4, <1>6, <1>7, <1>9, <1>10, <1>11, <1>12, <1>13, <1>14, <1>15 DEF DeviceNext

\* In whatever order dialogs, clicks, toggles, ended tracks and losses come: the
\* stream the page holds runs and is heard as permitted, if it was opened with
\* sound, and nothing else runs until a socket is lost in the middle of a
\* capture: useWebRTCHost.ts, streamRef and applyMediaPermissions.
THEOREM CaptureHeld == DeviceSpec => []CaptureIsHeld
<1>1. DeviceInit => CaptureInv
  BY DEF DeviceInit, CaptureInv, CaptureIsHeld, OneDialog, Dialogs
<1>2. CaptureInv => CaptureIsHeld
  BY DEF CaptureInv
<1> QED
  BY <1>1, <1>2, CaptureNext, DeviceTypeCorrect, PTL DEF DeviceSpec

-----------------------------------------------------------------------------
(* The password *)

\* What is being saved is what was stored.
SavingIsStored == saving # None => saving = stored

PasswordInv == DeviceTypeOK /\ SavingIsStored /\ PasswordsAgree

LEMMA PasswordNext == PasswordInv /\ [DeviceNext]_deviceVars => PasswordInv'
<1> SUFFICES ASSUME PasswordInv, [DeviceNext]_deviceVars PROVE PasswordInv'
  OBVIOUS
<1>1. DeviceTypeOK /\ DeviceTypeOK'
  BY DeviceTypeNext DEF PasswordInv
<1> USE PasswordsAssumption DEF SavingIsStored, PasswordsAgree
<1>2. CASE UNCHANGED <<ws, passwordVars>>
  BY <1>1, <1>2 DEF PasswordInv, passwordVars
<1>3. ASSUME NEW pw \in Passwords, TypePassword(pw)
      PROVE  PasswordInv'
  BY <1>1, <1>3 DEF PasswordInv, TypePassword
<1>4. ASSUME NEW pw \in Passwords, SavePassword(pw)
      PROVE  PasswordInv'
  BY <1>1, <1>4 DEF PasswordInv, SavePassword
<1>5. CASE SaveAnswered
  <2>1. /\ saving \in Passwords /\ saving = stored
        /\ saving' = None /\ stored' = stored /\ ws' = ws
        /\ registered' = IF saving = Empty THEN registered ELSE saving
        /\ gateway' = IF ws = "open" THEN saving ELSE gateway
        /\ saving = Empty => "cleared" \in gaps'
    BY <1>1, <1>5 DEF PasswordInv, DeviceTypeOK, SaveAnswered, Stored, UpdatePassword, Noting
  <2> QED
    BY <1>1, <2>1 DEF PasswordInv
<1>6. CASE SaveFails
  BY <1>1, <1>6 DEF PasswordInv, SaveFails
<1>7. ASSUME NEW ok \in BOOLEAN, MountAnswered(ok)
      PROVE  PasswordInv'
  <2>1. /\ UNCHANGED <<ws, stored, gateway, saving, gaps>>
        /\ \E pw \in IF "crossed" \in gaps THEN Passwords ELSE {stored} :
              registered' = IF ok THEN Stored(pw) ELSE registered
    BY <1>7 DEF MountAnswered
  <2>2. gaps = {} => registered' \in {registered, stored}
    BY <2>1 DEF Stored
  <2> QED
    BY <1>1, <2>1, <2>2 DEF PasswordInv
<1>8. CASE SocketOpens
  BY <1>1, <1>8 DEF PasswordInv, SocketOpens, Noting
<1>9. CASE SocketLost \/ GatewayForgets \/ SocketReopens
  BY <1>1, <1>9 DEF PasswordInv, SocketLost, GatewayForgets, SocketReopens, passwordVars
<1>10. CASE ToggleInputFeature \/ ToggleAllInputs
  BY <1>2, <1>10 DEF ToggleInputFeature, ToggleAllInputs, SetPermissions
<1>11. CASE StartCapture
  BY <1>2, <1>11 DEF StartCapture
<1>12. ASSUME NEW s \in Streams, CaptureRefused(s) \/ CaptureGranted(s) \/ TrackEnds(s)
       PROVE  PasswordInv'
  BY <1>2, <1>12 DEF CaptureRefused, CaptureGranted, TrackEnds, Stop
<1>13. CASE StopCapture
  BY <1>2, <1>13 DEF StopCapture, Stop
<1>14. CASE UNCHANGED deviceVars
  BY <1>2, <1>14 DEF deviceVars
<1> QED
  BY <1>3, <1>4, <1>5, <1>6, <1>7, <1>8, <1>9, <1>10, <1>11, <1>12, <1>13, <1>14 DEF DeviceNext

\* Browser, row and gateway have one password whenever none is being saved,
\* however typing, saving, registering and reconnecting cross, unless one of
\* the gaps was met: DeviceContext.tsx, savePassword and the registration.
THEOREM OnePassword == DeviceSpec => []PasswordsAgree
<1>1. DeviceInit => PasswordInv
  BY DeviceTypeInit DEF DeviceInit, PasswordInv, SavingIsStored, PasswordsAgree
<1>2. PasswordInv => PasswordsAgree
  BY DEF PasswordInv
<1> QED
  BY <1>1, <1>2, PasswordNext, PTL DEF DeviceSpec
=============================================================================
