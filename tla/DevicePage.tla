----------------------------- MODULE DevicePage -----------------------------
(* The page of a device that shares its screen, without its viewers:
   DeviceContext, DevicePanel and what useWebRTCHost keeps of the capture and
   of the password.  A click and the effects of its render are one step, as
   React flushes them together; a hash is computed within a step. *)

CONSTANTS Passwords,  \* what is typed or generated
          Empty,      \* the empty password, which has no hash
          Streams,    \* what getDisplayMedia returns, one after the other
          None

ASSUME PasswordsAssumption == Empty \in Passwords /\ None \notin Passwords
ASSUME StreamsAssumption == None \notin Streams

VARIABLES ws,           \* the signaling socket: "connecting", "open", "closed"
          typed,        \* password, and passwordRef with it
          stored,       \* localStorage
          registered,   \* password_hash of the agent's row
          gateway,      \* the hash of the last HOST_JOIN, None without a host
          mounting,     \* the registration of the mount is not answered yet
          isRegistered,
          saving,       \* the password whose registration is awaited
          gaps,         \* why the four copies may differ
          audio,        \* inputPermissions.audio, what is stored with it
          previous,     \* previousAllEnabledPermissionsRef: its audio
          rest,         \* are the other permissions all given?
          captureState, streamRef,
          dialogs,      \* streams awaited -> is sound asked for with them?
          live,         \* streams whose tracks run
          sounding,     \* those of them that have an audio track
          heard,        \* those of them whose audio track is enabled
          lost          \* was the socket lost in the middle of a capture of which
                        \* a stream still runs, or a dialog is open since?

passwordVars == <<typed, stored, registered, gateway, mounting, isRegistered, saving, gaps>>
permissionVars == <<audio, previous, rest>>
captureVars == <<captureState, streamRef, dialogs, live, sounding, lost>>
deviceVars == <<ws, passwordVars, permissionVars, captureVars, heard>>

Gaps == {"unsaved", "failed", "crossed", "cleared"}

DeviceTypeOK ==
    /\ ws \in {"connecting", "open", "closed"}
    /\ typed \in Passwords /\ stored \in Passwords /\ registered \in Passwords
    /\ gateway \in Passwords \cup {None} /\ saving \in Passwords \cup {None}
    /\ mounting \in BOOLEAN /\ isRegistered \in BOOLEAN
    /\ gaps \subseteq Gaps
    /\ audio \in BOOLEAN /\ rest \in BOOLEAN /\ previous \in BOOLEAN \cup {None}
    /\ captureState \in {"idle", "requesting", "active", "error"}
    /\ streamRef \in Streams \cup {None}
    /\ dialogs \in [Streams -> {"none", "silent", "sound"}]
    /\ live \subseteq Streams /\ sounding \subseteq live /\ heard \subseteq sounding
    /\ lost \in BOOLEAN

\* A device seen before: its row holds the password it stored.
DeviceInit ==
    /\ ws = "connecting"
    /\ stored \in Passwords /\ typed = stored /\ registered = stored
    /\ gateway = None /\ saving = None /\ gaps = {}
    /\ mounting = TRUE /\ isRegistered = FALSE
    /\ audio \in BOOLEAN /\ rest \in BOOLEAN /\ previous = None
    /\ captureState = "idle" /\ streamRef = None /\ lost = FALSE
    /\ dialogs = [s \in Streams |-> "none"]
    /\ live = {} /\ sounding = {} /\ heard = {}

Noting(gap, applies) == IF applies THEN gaps \cup {gap} ELSE gaps

(* ---- password ---- *)

\* AgentsService.register: a password that is not sent leaves the hash alone.
Stored(pw) == IF pw = Empty THEN registered ELSE pw

TypePassword(pw) ==
    /\ typed' = pw /\ pw # typed
    /\ UNCHANGED <<ws, stored, registered, gateway, mounting, isRegistered, saving, gaps,
                   permissionVars, captureVars, heard>>

\* updatePassword joins again, if it can.
UpdatePassword(pw) == gateway' = IF ws = "open" THEN pw ELSE gateway

\* savePassword up to its await: of what is typed (Save), or of what has just
\* been generated, which is typed as well.
SavePassword(pw) ==
    /\ saving = None
    /\ saving' = pw /\ typed' = pw /\ stored' = pw
    /\ gaps' = Noting("crossed", mounting)
    /\ UNCHANGED <<ws, registered, gateway, mounting, isRegistered,
                   permissionVars, captureVars, heard>>

\* Fault: the gateway is not told.
SaveAnswered_NotUpdated ==
    /\ saving # None
    /\ saving' = None
    /\ registered' = Stored(saving)
    /\ gaps' = IF ws = "open" /\ ~mounting
               THEN IF saving = Empty THEN {"cleared"} ELSE {}
               ELSE Noting("cleared", saving = Empty)
    /\ UNCHANGED <<ws, typed, stored, gateway, mounting, isRegistered,
                   permissionVars, captureVars, heard>>

\* The registration is answered.  With the socket open nothing is left of
\* earlier gaps.
SaveAnswered ==
    /\ saving # None
    /\ saving' = None
    /\ registered' = Stored(saving)
    /\ UpdatePassword(saving)
    /\ gaps' = IF ws = "open" /\ ~mounting
               THEN IF saving = Empty THEN {"cleared"} ELSE {}
               ELSE Noting("cleared", saving = Empty)
    /\ UNCHANGED <<ws, typed, stored, mounting, isRegistered,
                   permissionVars, captureVars, heard>>

SaveFails ==
    /\ saving # None
    /\ saving' = None
    /\ gaps' = gaps \cup {"failed"}
    /\ UNCHANGED <<ws, typed, stored, registered, gateway, mounting, isRegistered,
                   permissionVars, captureVars, heard>>

\* The registration of the mount, with the password of the mount: if that was
\* saved over since, it may have been overtaken.
MountAnswered(ok) ==
    /\ mounting
    /\ mounting' = FALSE
    /\ isRegistered' = ok
    /\ \E pw \in IF "crossed" \in gaps THEN Passwords ELSE {stored} :
          registered' = IF ok THEN Stored(pw) ELSE registered
    /\ UNCHANGED <<ws, typed, stored, gateway, saving, gaps,
                   permissionVars, captureVars, heard>>

\* ws.onopen joins with what is typed, saved or not.
SocketOpens ==
    /\ ws = "connecting"
    /\ ws' = "open"
    /\ gateway' = typed
    /\ gaps' = Noting("unsaved", typed # stored)
    /\ UNCHANGED <<typed, stored, registered, mounting, isRegistered, saving,
                   permissionVars, captureVars, heard>>

\* ws.onclose: a capture that goes on is shown as an error.
SocketLost ==
    /\ ws # "closed"
    /\ ws' = "closed"
    /\ captureState' = IF captureState = "active" THEN "error" ELSE captureState
    /\ lost' = (lost \/ captureState = "active")
    /\ UNCHANGED <<passwordVars, permissionVars, streamRef, dialogs, live, sounding, heard>>

\* The gateway notices, unless the next join is faster.
GatewayForgets ==
    /\ ws # "open" /\ gateway # None
    /\ gateway' = None
    /\ UNCHANGED <<ws, typed, stored, registered, mounting, isRegistered, saving, gaps,
                   permissionVars, captureVars, heard>>

\* The timer of ws.onclose, 3 s later.
SocketReopens ==
    /\ ws = "closed"
    /\ ws' = "connecting"
    /\ UNCHANGED <<passwordVars, permissionVars, captureVars, heard>>

(* ---- permissions and capture ---- *)

\* applyMediaPermissions, on the stream in the ref: only of the tracks it has.
Gate(s, given) == heard' = IF given THEN heard \cup ({s} \cap sounding') ELSE heard \ {s}

SetPermissions(a, r) ==
    /\ audio' = a /\ rest' = r
    /\ UNCHANGED <<ws, passwordVars, captureVars>>
    /\ Gate(streamRef, a)

ToggleInputFeature ==
    /\ SetPermissions(~audio, rest) \/ SetPermissions(audio, ~rest)
    /\ UNCHANGED previous

\* All given, or back to the mix before; with none remembered nothing happens.
ToggleAllInputs ==
    \/ /\ audio /\ rest /\ previous # None
       /\ \E r \in IF previous THEN {FALSE} ELSE BOOLEAN : SetPermissions(previous, r)
       /\ UNCHANGED previous
    \/ /\ ~(audio /\ rest)
       /\ previous' = audio
       /\ SetPermissions(TRUE, TRUE)

\* Without a registration the buttons are disabled.
CanCapture == isRegistered

Dialogs == {s \in Streams : dialogs[s] # "none"}

\* The Share or Retry button opens a dialog.  Sound is asked for if the capture
\* settings and the permission of this moment say so.
StartCapture ==
    /\ CanCapture
    /\ captureState \in {"idle", "error"}
    /\ captureState' = "requesting"
    /\ \E s \in Streams \ (live \cup Dialogs) :
       \E wish \in IF audio THEN {"silent", "sound"} ELSE {"silent"} :
          dialogs' = [dialogs EXCEPT ![s] = wish]
    /\ UNCHANGED <<ws, passwordVars, permissionVars, streamRef, live, sounding, heard, lost>>

CaptureRefused(s) ==
    /\ s \in Dialogs
    /\ dialogs' = [dialogs EXCEPT ![s] = "none"]
    /\ captureState' = "error"
    /\ lost' = (lost /\ (live # {} \/ Dialogs # {s}))
    /\ UNCHANGED <<ws, passwordVars, permissionVars, streamRef, live, sounding, heard>>

\* What getDisplayMedia returns: an audio track only if it was asked for, and
\* not always then.
Obtain(s) ==
    /\ s \in Dialogs
    /\ dialogs' = [dialogs EXCEPT ![s] = "none"]
    /\ live' = live \cup {s}
    /\ sounding' \in {sounding} \cup IF dialogs[s] = "sound" THEN {sounding \cup {s}} ELSE {}

\* Fault: the permissions of the moment are not applied to the new tracks.
CaptureGranted_NotGated(s) ==
    /\ Obtain(s)
    /\ captureState' = "active"
    /\ streamRef' = s
    /\ heard' = heard \cup ({s} \cap sounding')
    /\ UNCHANGED <<ws, passwordVars, permissionVars, lost>>

\* getDisplayMedia has answered.  What the ref held runs on, held by nothing.
CaptureGranted(s) ==
    /\ Obtain(s)
    /\ captureState' = "active"
    /\ streamRef' = s
    /\ Gate(s, audio)
    /\ UNCHANGED <<ws, passwordVars, permissionVars, lost>>

\* stopCapture: the stream in the ref, which need not be the one that ended.
Stop(ended) ==
    /\ captureState' = "idle"
    /\ streamRef' = None
    /\ live' = live \ {streamRef, ended}
    /\ sounding' = sounding \cap live'
    /\ heard' = heard \cap live'
    /\ lost' = (lost /\ (live' # {} \/ Dialogs # {}))
    /\ UNCHANGED <<ws, passwordVars, permissionVars, dialogs>>

StopCapture == CanCapture /\ captureState = "active" /\ Stop(None)
TrackEnds(s) == s \in live /\ Stop(s)

DeviceNext ==
    \/ \E pw \in Passwords : TypePassword(pw) \/ SavePassword(pw)
    \/ SaveAnswered \/ SaveFails
    \/ \E ok \in BOOLEAN : MountAnswered(ok)
    \/ SocketOpens \/ SocketLost \/ GatewayForgets \/ SocketReopens
    \/ ToggleInputFeature \/ ToggleAllInputs
    \/ StartCapture \/ StopCapture
    \/ \E s \in Streams : CaptureRefused(s) \/ CaptureGranted(s) \/ TrackEnds(s)

DeviceSpec == DeviceInit /\ [][DeviceNext]_deviceVars

(* ---- properties ---- *)

\* useWebRTCHost.ts:92-101, :145-154, :313-331: the stream the page holds runs,
\* and it is heard exactly while the permission is given if it has a track, in
\* whatever order the user toggles, dialogs are answered and streams end.  What
\* runs is what the page shows and can stop, as long as no socket was lost in the
\* middle of a capture (after which Retry opens a stream and forgets the first).
CaptureIsHeld ==
    /\ captureState = "active" => streamRef # None
    /\ streamRef # None => /\ streamRef \in live
                           /\ streamRef \in heard <=> audio /\ streamRef \in sounding
    /\ ~lost => live \subseteq {streamRef} /\ (streamRef # None => captureState = "active")

\* The password stored in the browser, the one of the agent's row and the one
\* the gateway checks are the same whenever no save is under way, unless a gap
\* has been met; a save that is answered with the socket open closes them all
\* but one: the row keeps the hash of a password that is cleared.
PasswordsAgree ==
    saving = None /\ gaps \subseteq {"cleared"} =>
        /\ gaps = {} => registered = stored
        /\ ws = "open" => gateway = stored
=============================================================================
