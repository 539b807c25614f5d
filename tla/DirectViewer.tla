---------------------------- MODULE DirectViewer ----------------------------
(* ViewerPage of agents that are reached directly, from the directory and back:
   the form, the session it starts, the player, and the controls.  A click and
   the effects of its render are one step. *)
EXTENDS AccessCheck, AgentSession, MsePlayer, Directory

VARIABLES shown,  \* sessionState
          has     \* is there a session?

pageVars == <<shown, has>>
vars == <<checkVars, sessionVars, playerVars, pageVars, directoryVars>>

TypeOK ==
    /\ CheckTypeOK /\ SessionTypeOK /\ PlayerTypeOK /\ DirectoryTypeOK
    /\ shown \in States /\ has \in BOOLEAN

Init ==
    /\ status = "unmounted" /\ asking = FALSE
    /\ conn = "none" /\ forsaken = FALSE /\ dropped = FALSE
    /\ s = [NewSession EXCEPT !.stopped = TRUE]
    /\ toAgent = <<>> /\ agentPaused = FALSE
    /\ Off
    /\ shown = "idle" /\ has = FALSE
    /\ DirectoryInit

\* stateChange: emitted when the session sets its state, and heard by the page.
Emitted == shown' = IF has THEN s'.state ELSE shown

\* startSession: the form goes, the player's effect sets it up.
StartSession ==
    /\ has' = TRUE
    /\ s' \in Connecting(NewSession)
    /\ Disconnected
    /\ shown' = s'.state
    /\ Unmount
    /\ SetupMse
    /\ UNCHANGED directoryVars

\* Connect of the form, disabled while a request is pending or refused for good.
HandleSubmit == Mounted /\ MayConnect /\ StartSession

\* handleDisconnect closes the session and goes to "idle"; then the effect
\* cleanup closes it again, and its "closed" is what the page is left with.
\* From there the same button leads to the form.
HandleDisconnect ==
    /\ shown # "idle"
    /\ has' = FALSE
    /\ IF has
       THEN /\ shown' = "closed"
            /\ s' = Closed(s)
            /\ Disconnected
            /\ EndMse
            /\ UNCHANGED checkVars
       ELSE /\ shown' = "idle"
            /\ Mount
            /\ UNCHANGED <<sessionVars, playerVars>>
    /\ UNCHANGED directoryVars

\* The page of an agent: opened, or, by a prompt that comes late, given to
\* another agent with all its state.
OpenPage ==
    /\ \E a \in Agents, live \in BOOLEAN : Submit(a, live)
    /\ IF route = None THEN Mount ELSE CheckAgain
    /\ UNCHANGED <<sessionVars, playerVars, pageVars>>

\* Back, which closes the session; Escape does when there is none.
GoBack ==
    /\ BackToDirectory
    /\ has' = FALSE
    /\ shown' = "idle"
    /\ s' = IF has THEN Closed(s) ELSE s
    /\ Disconnected
    /\ EndMse
    /\ Unmount

\* The pause and resume buttons, and the space bar.
PauseClicked == has /\ shown = "streaming" /\ Pause /\ Emitted
ResumeClicked == has /\ shown = "paused" /\ Resume /\ Emitted

Controls == PauseClicked \/ ResumeClicked
Connection == Retry \/ Opens \/ Lost \/ AuthOk \/ AuthError \/ AgentHears

\* A fragment or a Reinit of an agent that has let the session in.
Streamed ==
    /\ s.authed
    /\ Fragment \/ (source # "none" /\ SetupMse)

Next ==
    \/ DirectoryStep /\ UNCHANGED <<checkVars, sessionVars, playerVars, pageVars>>
    \/ OpenPage \/ GoBack
    \/ CheckStep /\ UNCHANGED <<sessionVars, playerVars, pageVars, directoryVars>>
    \/ HandleSubmit \/ HandleDisconnect
    \/ (Controls \/ (Connection /\ Emitted)) /\ UNCHANGED <<checkVars, playerVars, has, directoryVars>>
    \/ (Streamed \/ SourceOpens \/ UpdateEnds)
       /\ UNCHANGED <<checkVars, sessionVars, pageVars, directoryVars>>

\* Timers fire, connections are made or refused, and the gateway answers every
\* request.  (Signaling's RequestsSettle.)
Fairness ==
    /\ WF_vars((Retry \/ Opens \/ (s.sock = "connecting" /\ Lost)) /\ Emitted
               /\ UNCHANGED <<checkVars, playerVars, has, directoryVars>>)
    /\ WF_vars((RequestFails \/ Verdict)
               /\ UNCHANGED <<sessionVars, playerVars, pageVars, directoryVars>>)

Spec == Init /\ [][Next]_vars
FairSpec == Spec /\ Fairness

(* ---- properties ---- *)

\* A session that is not closed has exactly one thing to wait for: its socket,
\* its timer, or the user it tells that it has given up; a closed one has none.
\* The page shows the state of the session it has.
OneThingPending ==
    /\ ~s.stopped => \/ s.sock # "none" /\ ~s.timer /\ s.state # "degraded"
                     \/ s.sock = "none" /\ s.timer /\ s.state # "degraded"
                     \/ s.sock = "none" /\ ~s.timer /\ s.state = "degraded"
    /\ s.stopped => s.sock = "none" /\ ~s.timer
    /\ has => shown = s.state
    /\ ~has => s.stopped /\ shown \in {"idle", "closed"}

\* When nothing is on its way the agent is paused exactly when the page says so.
PauseAgrees ==
    s.authed /\ toAgent = <<>> => (agentPaused <=> shown = "paused")

\* As long as appendBuffer takes what it is given, every fragment since the last
\* reinit is in the SourceBuffer or in the queue, once and in order, and none
\* from before.
FragmentsAreKept ==
    ~torn => appended \o queue = [i \in 1..received |-> i]

\* The spinner of a connection ends.
ConnectingEnds == shown = "connecting" ~> shown # "connecting"

\* A form that waits for the host's approval gets an answer, unless the gateway
\* closes the socket, or an error of an earlier click hides the wait.
RequestIsSettled == status = "pending" ~> (status # "pending" \/ dropped)

\* The history holds no agent twice, the one visited last first, and what is
\* stored is what is shown.  (A visit after a removal may not be stored.)
HistoryIsRecent ==
    /\ IsInjective(stored) /\ Len(stored) <= MaxEntries
    /\ route = None => entries = stored
    /\ ~forgotten => \A i, j \in DOMAIN stored : i < j => visits[stored[i]] > visits[stored[j]]
    /\ route # None /\ ~forgotten => stored # <<>> /\ Head(stored) = route
=============================================================================
