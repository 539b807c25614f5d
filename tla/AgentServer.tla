----------------------------- MODULE AgentServer -----------------------------
(***************************************************************************)
(* The state the client tasks of the Rust agent share:                     *)
(* apps/agent/src/server.rs, apps/agent/src/consts/states.rs.              *)
(*                                                                         *)
(* Every WebSocket client has a task, handle_client, and the tasks run in  *)
(* parallel.  They share a counter of authenticated clients, the session   *)
(* state the capture thread polls, and the two quality settings, each an   *)
(* atomic of its own: an atomic operation is an action, and between two of *)
(* them any other task may run.  The last client to leave is to pause the  *)
(* capture and the first to come to start it.                              *)
(***************************************************************************)
EXTENDS FiniteSets, Integers

CONSTANTS
    Clients,   \* the clients that may connect
    Configs,   \* settings a config message may ask for (presets or custom)
    Default,   \* settings from the command line
    None

\* A config message being carried out: the settings and those still to store.
Store == [new : Configs, left : SUBSET {"fps", "quality"}]

ASSUME AgentServerAssumption ==
    /\ IsFiniteSet(Clients)
    /\ Default \in [fps : Nat, quality : Nat]
    /\ Configs \subseteq [fps : Nat, quality : Nat]
    /\ None \notin Store

VARIABLES
    stage,         \* how far each client's handle_client has come
    client_count,
    session,       \* the atomic of SessionControl
    fps,
    quality,
    storing,       \* the settings each client is storing, and what is left of it
    (* History: *)
    late,          \* did a task that was the last set Idle when others had come,
                   \* and nobody set Streaming since?
    batch          \* settings of the messages handled since nobody was storing

history == <<late, batch>>
vars == <<stage, client_count, session, fps, quality, storing, history>>

Stages == {"away",      \* no connection
           "greeting",  \* handshake and authentication
           "counting",  \* authenticated, before fetch_add
           "starting",  \* counted as the first, before session.set
           "serving",   \* in the select loop
           "leaving",   \* out of the loop, before fetch_sub
           "idling"}    \* was the last, before session.set

TypeOK ==
    /\ stage \in [Clients -> Stages]
    /\ client_count \in Nat
    /\ session \in {"Idle", "Streaming"}
    /\ fps \in Nat
    /\ quality \in Nat
    /\ storing \in [Clients -> Store \cup {None}]
    /\ late \in BOOLEAN
    /\ batch \subseteq Configs \cup {Default}

Init ==
    /\ stage = [c \in Clients |-> "away"]
    /\ client_count = 0
    /\ session = "Idle"
    /\ fps = Default.fps
    /\ quality = Default.quality
    /\ storing = [c \in Clients |-> None]
    /\ late = FALSE
    /\ batch = {Default}

Move(c, from, to) ==
    /\ stage[c] = from
    /\ stage' = [stage EXCEPT ![c] = to]

-----------------------------------------------------------------------------
(* handle_client *)

Accept(c) ==
    /\ Move(c, "away", "greeting")
    /\ UNCHANGED <<client_count, session, fps, quality, storing, history>>

\* Fault: a rejected client leaves by the same door as the others.
Reject_CountsDown(c) ==
    /\ Move(c, "greeting", "away")
    /\ client_count' = client_count - 1
    /\ UNCHANGED <<session, fps, quality, storing, history>>

\* The handshake fails, or the first message is not the right password.
Reject(c) ==
    /\ Move(c, "greeting", "away")
    /\ UNCHANGED <<client_count, session, fps, quality, storing, history>>

Authenticate(c) ==
    /\ Move(c, "greeting", "counting")
    /\ UNCHANGED <<client_count, session, fps, quality, storing, history>>

\* Fault: the new count is compared, not the previous one.
FetchAdd_ComparesNew(c) ==
    /\ Move(c, "counting", IF client_count + 1 = 0 THEN "starting" ELSE "serving")
    /\ client_count' = client_count + 1
    /\ UNCHANGED <<session, fps, quality, storing, history>>

FetchAdd(c) ==
    /\ Move(c, "counting", IF client_count = 0 THEN "starting" ELSE "serving")
    /\ client_count' = client_count + 1
    /\ UNCHANGED <<session, fps, quality, storing, history>>

SetStreaming(c) ==
    /\ Move(c, "starting", "serving")
    /\ session' = "Streaming"
    /\ late' = FALSE
    /\ UNCHANGED <<client_count, fps, quality, storing, batch>>

\* The socket closes or fails.
LeaveLoop(c) ==
    /\ storing[c] = None
    /\ Move(c, "serving", "leaving")
    /\ UNCHANGED <<client_count, session, fps, quality, storing, history>>

\* Fault: fetch_sub returns the previous count, and it is compared with 0.
FetchSub_ComparesPrevious(c) ==
    /\ Move(c, "leaving", IF client_count = 0 THEN "idling" ELSE "away")
    /\ client_count' = client_count - 1
    /\ UNCHANGED <<session, fps, quality, storing, history>>

FetchSub(c) ==
    /\ Move(c, "leaving", IF client_count = 1 THEN "idling" ELSE "away")
    /\ client_count' = client_count - 1
    /\ UNCHANGED <<session, fps, quality, storing, history>>

SetIdle(c) ==
    /\ Move(c, "idling", "away")
    /\ session' = "Idle"
    /\ late' = (late \/ client_count # 0)
    /\ UNCHANGED <<client_count, fps, quality, storing, batch>>

-----------------------------------------------------------------------------
(* handle_control_message *)

NobodyStores == \A c \in Clients : storing[c] = None

Config(c) ==
    /\ stage[c] = "serving" /\ storing[c] = None
    /\ \E new \in Configs :
          /\ storing' = [storing EXCEPT ![c] = [new |-> new, left |-> {"fps", "quality"}]]
          /\ batch' = {new} \cup IF NobodyStores THEN {} ELSE batch
    /\ UNCHANGED <<stage, client_count, session, fps, quality, late>>

\* Fault: only the first of the two settings is stored.
StoreSetting_Half(c, setting) ==
    /\ storing[c] # None
    /\ setting \in storing[c].left
    /\ fps' = IF setting = "fps" THEN storing[c].new.fps ELSE fps
    /\ quality' = IF setting = "quality" THEN storing[c].new.quality ELSE quality
    /\ storing' = [storing EXCEPT ![c].left = {}]
    /\ UNCHANGED <<stage, client_count, session, history>>

\* The stores are relaxed: another thread may see them in either order.
StoreSetting(c, setting) ==
    /\ storing[c] # None
    /\ setting \in storing[c].left
    /\ fps' = IF setting = "fps" THEN storing[c].new.fps ELSE fps
    /\ quality' = IF setting = "quality" THEN storing[c].new.quality ELSE quality
    /\ storing' = [storing EXCEPT ![c].left = @ \ {setting}]
    /\ UNCHANGED <<stage, client_count, session, history>>

\* quality_changed is sent.
ConfirmConfig(c) ==
    /\ storing[c] # None
    /\ storing[c].left = {}
    /\ storing' = [storing EXCEPT ![c] = None]
    /\ UNCHANGED <<stage, client_count, session, fps, quality, history>>

-----------------------------------------------------------------------------

ClientStep(c) ==
    \/ Accept(c)
    \/ Reject(c)
    \/ Authenticate(c)
    \/ FetchAdd(c)
    \/ SetStreaming(c)
    \/ LeaveLoop(c)
    \/ FetchSub(c)
    \/ SetIdle(c)
    \/ Config(c)
    \/ \E setting \in {"fps", "quality"} : StoreSetting(c, setting)
    \/ ConfirmConfig(c)

Next == \E c \in Clients : ClientStep(c)

Spec == Init /\ [][Next]_vars

\* The runtime schedules every task: one that has left the loop gets to its end.
Fairness == \A c \in Clients :
    /\ WF_vars(FetchAdd(c))
    /\ WF_vars(SetStreaming(c))
    /\ WF_vars(FetchSub(c))
    /\ WF_vars(SetIdle(c))

FairSpec == Spec /\ Fairness

-----------------------------------------------------------------------------
(* Properties *)

Counted == {c \in Clients : stage[c] \in {"starting", "serving", "leaving"}}

\* Every authenticated client is counted once until it leaves, and nobody else.
CountIsExact == client_count = Cardinality(Counted)

\* server.rs:216-218: the screen is not captured for nobody.  Without clients
\* the session is idle, or the task that will pause it is on its way, whatever
\* other clients came and went meanwhile.
CapturePauses == session = "Streaming" =>
    client_count > 0 \/ \E c \in Clients : stage[c] = "idling"

\* server.rs:165-219: however clients come and go, one that is connected is
\* left with a paused capture only by a task that was the last and set Idle
\* when another had come (late); the next Streaming makes up for it.
CaptureFollowsClients ==
    session = "Idle" /\ ~late =>
        client_count = 0 \/ \E c \in Clients : stage[c] = "starting"

\* server.rs:264-265: once all messages are handled, each setting is that of one
\* of the messages that were handled together, never an older one; so after a
\* message that met no other the settings are those it asked for.
ConfigIsWhole == NobodyStores =>
    \E m, n \in batch : fps = m.fps /\ quality = n.quality

\* When the last client has gone the capture is paused, unless another comes.
CaptureStops == (client_count = 0) ~> (session = "Idle" \/ client_count > 0)
=============================================================================
