---------------------------- MODULE AgentSession ----------------------------
(* AgentSession: a direct connection to an agent that retries with growing
   delays, and the agent's end of it as far as pausing goes. *)
EXTENDS Naturals, Sequences

CONSTANTS MaxAttempts,  \* 6
          MaxQueue      \* bound: messages on their way to the agent

ASSUME MaxAttemptsAssumption == MaxAttempts \in Nat

VARIABLES s,           \* the session's fields
          toAgent,     \* "pause" and "resume" on their way
          agentPaused  \* the agent's flag for this connection

sessionVars == <<s, toAgent, agentPaused>>

States == {"idle", "connecting", "authenticating", "streaming", "paused", "degraded", "closed"}
Sessions == [state: States, sock: {"none", "connecting", "open"}, authed: BOOLEAN,
             timer: BOOLEAN, attempts: Nat, stopped: BOOLEAN]

SessionTypeOK ==
    /\ s \in Sessions
    /\ toAgent \in Seq({"pause", "resume"})
    /\ agentPaused \in BOOLEAN

NewSession == [state |-> "idle", sock |-> "none", authed |-> FALSE,
               timer |-> FALSE, attempts |-> 0, stopped |-> FALSE]

\* scheduleReconnect
Scheduled(x) ==
    IF x.stopped THEN x
    ELSE IF x.attempts >= MaxAttempts
         THEN [x EXCEPT !.attempts = @ + 1, !.state = "degraded"]
         ELSE [x EXCEPT !.attempts = @ + 1, !.timer = TRUE]

\* Fault: every attempt counts as the first.
Connecting_NoCount(x) ==
    LET y == [x EXCEPT !.state = "connecting", !.timer = FALSE, !.attempts = 0]
    IN  {[y EXCEPT !.sock = "connecting"], Scheduled(y)}

\* connect: the constructor of the socket may throw.
Connecting(x) ==
    LET y == [x EXCEPT !.state = "connecting", !.timer = FALSE]
    IN  {[y EXCEPT !.sock = "connecting"], Scheduled(y)}

\* Fault: the timer is left to fire.
Closed_KeepsTimer(x) ==
    [x EXCEPT !.stopped = TRUE, !.sock = "none", !.authed = FALSE, !.state = "closed"]

\* close
Closed(x) ==
    [x EXCEPT !.stopped = TRUE, !.timer = FALSE, !.sock = "none", !.authed = FALSE,
              !.state = "closed"]

\* The socket is gone, and with it what was on its way.
Disconnected == toAgent' = <<>> /\ agentPaused' = FALSE

Retry ==
    /\ s.timer
    /\ s' \in IF s.stopped THEN {[s EXCEPT !.timer = FALSE]} ELSE Connecting(s)
    /\ UNCHANGED <<toAgent, agentPaused>>

\* onopen starts the count anew and sends the password.
Opens ==
    /\ s.sock = "connecting"
    /\ s' = [s EXCEPT !.sock = "open", !.attempts = 0, !.state = "authenticating"]
    /\ Disconnected

\* onclose: the state stays as it was until the timer fires.
Lost ==
    /\ s.sock # "none"
    /\ s' = Scheduled([s EXCEPT !.sock = "none", !.authed = FALSE])
    /\ Disconnected

AuthOk ==
    /\ s.sock = "open" /\ ~s.authed
    /\ s' = [s EXCEPT !.authed = TRUE, !.state = "streaming"]
    /\ UNCHANGED <<toAgent, agentPaused>>

AuthError ==
    /\ s.sock = "open" /\ ~s.authed
    /\ s' = Closed(s)
    /\ Disconnected

\* send drops what an absent socket cannot take.
Sending(m) ==
    IF s.sock = "open" THEN Len(toAgent) < MaxQueue /\ toAgent' = Append(toAgent, m)
                       ELSE UNCHANGED toAgent

\* Fault: the message is sent, the state left to an answer that never comes.
Pause_KeepsState ==
    /\ Sending("pause")
    /\ UNCHANGED <<s, agentPaused>>

Pause == s' = [s EXCEPT !.state = "paused"] /\ Sending("pause") /\ UNCHANGED agentPaused
Resume == s' = [s EXCEPT !.state = "streaming"] /\ Sending("resume") /\ UNCHANGED agentPaused

AgentHears ==
    /\ toAgent # <<>>
    /\ toAgent' = Tail(toAgent)
    /\ agentPaused' = (Head(toAgent) = "pause")
    /\ UNCHANGED s
=============================================================================
