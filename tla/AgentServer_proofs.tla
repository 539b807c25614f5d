-------------------------- MODULE AgentServer_proofs --------------------------
(***************************************************************************)
(* Proofs about the shared state of the agent's client tasks, for any      *)
(* finite set of clients and any settings.                                 *)
(***************************************************************************)
EXTENDS AgentServer, FiniteSetTheorems, TLAPS

\* A client that is neither counted before nor after a step, or both, leaves
\* the count alone.
LEMMA CountKept ==
    ASSUME Counted' = Counted, client_count' = client_count, CountIsExact
    PROVE  CountIsExact'
BY DEF CountIsExact

LEMMA CountedFinite == IsFiniteSet(Counted)
BY AgentServerAssumption, FS_Subset DEF Counted

LEMMA CountGrows ==
    ASSUME NEW c \in Clients, CountIsExact, c \notin Counted,
           Counted' = Counted \cup {c}, client_count' = client_count + 1
    PROVE  CountIsExact'
BY CountedFinite, FS_AddElement DEF CountIsExact

LEMMA CountShrinks ==
    ASSUME NEW c \in Clients, CountIsExact, c \in Counted,
           Counted' = Counted \ {c}, client_count' = client_count - 1
    PROVE  CountIsExact'
BY CountedFinite, FS_RemoveElement DEF CountIsExact

\* A counted client makes the count positive.
LEMMA CountedIsPositive ==
    ASSUME CountIsExact, NEW c \in Counted
    PROVE  client_count \in Nat \ {0}
<1>1. Cardinality(Counted) \in Nat
  BY CountedFinite, FS_CardinalityType
<1>2. Cardinality(Counted) # 0
  BY CountedFinite, FS_EmptySet
<1> QED
  BY <1>1, <1>2 DEF CountIsExact

LEMMA InitCount == Init => CountIsExact
<1> SUFFICES ASSUME Init PROVE CountIsExact
  OBVIOUS
<1>1. Counted = {}
  BY DEF Init, Counted
<1> QED
  BY <1>1, FS_EmptySet DEF Init, CountIsExact

-----------------------------------------------------------------------------
(* Types                                                                     *)

LEMMA ConfigFields ==
    ASSUME NEW new \in Configs
    PROVE  new.fps \in Nat /\ new.quality \in Nat
BY AgentServerAssumption

LEMMA InitType == Init => TypeOK
<1> SUFFICES ASSUME Init PROVE TypeOK
  OBVIOUS
<1>1. late \in BOOLEAN /\ batch \subseteq Configs \cup {Default}
  BY DEF Init
<1>2. Default.fps \in Nat /\ Default.quality \in Nat
  BY AgentServerAssumption
<1>3. stage \in [Clients -> Stages] /\ storing \in [Clients -> Store \cup {None}]
  BY DEF Init, Stages
<1> QED
  BY <1>1, <1>2, <1>3 DEF Init, TypeOK

\* The settings a client is storing are those of a config message.
LEMMA StoringType ==
    ASSUME TypeOK, NEW c \in Clients, storing[c] # None
    PROVE  /\ storing[c] \in Store
           /\ storing[c].new \in Configs
           /\ storing[c].left \in SUBSET {"fps", "quality"}
BY DEF TypeOK, Store

LEMMA NextType == TypeOK /\ CountIsExact /\ [Next]_vars => TypeOK'
<1> SUFFICES ASSUME TypeOK, CountIsExact, [Next]_vars PROVE TypeOK'
  OBVIOUS
<1>1. ASSUME NEW c \in Clients, FetchSub(c) PROVE TypeOK'
  <2>1. client_count \in Nat \ {0}
    BY <1>1, CountedIsPositive DEF FetchSub, Move, Counted
  <2> QED
    BY <1>1, <2>1 DEF FetchSub, Move, TypeOK, Stages, history
<1>2. ASSUME NEW c \in Clients, Config(c) PROVE TypeOK'
  BY <1>2 DEF Config, TypeOK, Store
<1>3. ASSUME NEW c \in Clients, NEW setting \in {"fps", "quality"},
             StoreSetting(c, setting)
      PROVE  TypeOK'
  <2>1. storing'[c] \in Store /\ storing' \in [Clients -> Store \cup {None}]
    BY <1>3, StoringType DEF StoreSetting, TypeOK, Store
  <2>2. fps' \in Nat /\ quality' \in Nat
    BY <1>3, StoringType, ConfigFields DEF StoreSetting, TypeOK
  <2> QED
    BY <1>3, <2>1, <2>2 DEF StoreSetting, TypeOK, history
<1>4. ASSUME NEW c \in Clients, ConfirmConfig(c) PROVE TypeOK'
  BY <1>4 DEF ConfirmConfig, TypeOK, history
<1>5. ASSUME NEW c \in Clients,
             \/ Accept(c) \/ Reject(c) \/ Authenticate(c) \/ FetchAdd(c)
             \/ SetStreaming(c) \/ LeaveLoop(c) \/ SetIdle(c)
      PROVE  TypeOK'
  <2>1. stage' \in [Clients -> Stages]
    BY <1>5 DEF Accept, Reject, Authenticate, FetchAdd, SetStreaming, LeaveLoop,
                SetIdle, Move, TypeOK, Stages
  <2>2. client_count' \in Nat /\ session' \in {"Idle", "Streaming"}
    BY <1>5 DEF Accept, Reject, Authenticate, FetchAdd, SetStreaming, LeaveLoop,
                SetIdle, TypeOK
  <2>3. late' \in BOOLEAN
    BY <1>5 DEF Accept, Reject, Authenticate, FetchAdd, SetStreaming, LeaveLoop,
                SetIdle, TypeOK, history
  <2>4. UNCHANGED <<fps, quality, storing, batch>>
    BY <1>5 DEF Accept, Reject, Authenticate, FetchAdd, SetStreaming, LeaveLoop,
                SetIdle, history
  <2> QED
    BY <2>1, <2>2, <2>3, <2>4 DEF TypeOK
<1>6. CASE UNCHANGED vars
  BY <1>6 DEF vars, history, TypeOK
<1> QED
  BY <1>1, <1>2, <1>3, <1>4, <1>5, <1>6 DEF Next, ClientStep

-----------------------------------------------------------------------------
(* The counter                                                               *)

LEMMA NextCount == TypeOK /\ CountIsExact /\ [Next]_vars => CountIsExact'
<1> SUFFICES ASSUME TypeOK, CountIsExact, [Next]_vars PROVE CountIsExact'
  OBVIOUS
<1>1. ASSUME NEW c \in Clients, FetchAdd(c) PROVE CountIsExact'
  <2>1. c \notin Counted /\ Counted' = Counted \cup {c}
    BY <1>1 DEF FetchAdd, Move, TypeOK, Counted
  <2> QED
    BY <1>1, <2>1, CountGrows DEF FetchAdd
<1>2. ASSUME NEW c \in Clients, FetchSub(c) PROVE CountIsExact'
  <2>1. c \in Counted /\ Counted' = Counted \ {c}
    BY <1>2 DEF FetchSub, Move, TypeOK, Counted
  <2> QED
    BY <1>2, <2>1, CountShrinks DEF FetchSub
<1>3. ASSUME NEW c \in Clients,
             \/ Accept(c) \/ Reject(c) \/ Authenticate(c) \/ SetStreaming(c)
             \/ LeaveLoop(c) \/ SetIdle(c)
      PROVE  CountIsExact'
  <2>1. Counted' = Counted
    BY <1>3 DEF Accept, Reject, Authenticate, SetStreaming, LeaveLoop, SetIdle,
                Move, TypeOK, Counted
  <2>2. client_count' = client_count
    BY <1>3 DEF Accept, Reject, Authenticate, SetStreaming, LeaveLoop, SetIdle
  <2> QED
    BY <2>1, <2>2, CountKept
<1>4. ASSUME UNCHANGED <<stage, client_count>> PROVE CountIsExact'
  BY <1>4, CountKept DEF Counted
<1> QED
  BY <1>1, <1>2, <1>3, <1>4
  DEF Next, ClientStep, Config, StoreSetting, ConfirmConfig, vars

-----------------------------------------------------------------------------
(* The session state                                                         *)

\* A task about to start the capture has been counted, so by the time the
\* count is back at zero somebody is about to pause it.
LEMMA NextPauses ==
    TypeOK /\ CountIsExact /\ CapturePauses /\ [Next]_vars => CapturePauses'
<1> SUFFICES ASSUME TypeOK, CountIsExact, CapturePauses, [Next]_vars
             PROVE  CapturePauses'
  OBVIOUS
<1> USE DEF TypeOK, CapturePauses, Move
<1>1. ASSUME NEW c \in Clients, FetchAdd(c) PROVE CapturePauses'
  BY <1>1 DEF FetchAdd
<1>2. ASSUME NEW c \in Clients, SetStreaming(c) PROVE CapturePauses'
  <2>1. client_count \in Nat \ {0}
    BY <1>2, CountedIsPositive DEF SetStreaming, Counted
  <2> QED
    BY <1>2, <2>1 DEF SetStreaming
<1>3. ASSUME NEW c \in Clients, FetchSub(c) PROVE CapturePauses'
  <2>1. client_count \in Nat \ {0}
    BY <1>3, CountedIsPositive DEF FetchSub, Counted
  <2>2. CASE client_count = 1
    BY <1>3, <2>2 DEF FetchSub
  <2>3. CASE client_count > 1
    BY <1>3, <2>3 DEF FetchSub
  <2> QED
    BY <2>1, <2>2, <2>3
<1>4. ASSUME NEW c \in Clients, SetIdle(c) PROVE CapturePauses'
  BY <1>4 DEF SetIdle
<1>5. ASSUME NEW c \in Clients,
             Accept(c) \/ Reject(c) \/ Authenticate(c) \/ LeaveLoop(c)
      PROVE  CapturePauses'
  BY <1>5 DEF Accept, Reject, Authenticate, LeaveLoop
<1>6. ASSUME UNCHANGED <<stage, client_count, session>> PROVE CapturePauses'
  BY <1>6
<1> QED
  BY <1>1, <1>2, <1>3, <1>4, <1>5, <1>6
  DEF Next, ClientStep, Config, StoreSetting, ConfirmConfig, vars

IInv == TypeOK /\ CountIsExact /\ CapturePauses

\* The inductive invariant of the client tasks.
THEOREM Invariance == Spec => []IInv
<1>1. Init => IInv
  BY InitType, InitCount DEF IInv, Init, CapturePauses
<1>2. IInv /\ [Next]_vars => IInv'
  BY NextType, NextCount, NextPauses DEF IInv
<1> QED
  BY <1>1, <1>2, PTL DEF Spec

\* The shared atomics keep their types; the counter never goes below zero.
THEOREM TypeCorrect == Spec => []TypeOK
<1>1. IInv => TypeOK
  BY DEF IInv
<1> QED
  BY <1>1, Invariance, PTL

\* Every authenticated client is counted once.
THEOREM CountCorrect == Spec => []CountIsExact
<1>1. IInv => CountIsExact
  BY DEF IInv
<1> QED
  BY <1>1, Invariance, PTL

\* The screen is never captured for nobody.
THEOREM NobodyWatchesNothing == Spec => []CapturePauses
<1>1. IInv => CapturePauses
  BY DEF IInv
<1> QED
  BY <1>1, Invariance, PTL

-----------------------------------------------------------------------------
(* Clients that find the capture paused                                      *)

\* What the tasks do to the session state and to the record of a late Idle.
LEMMA NextFollows ==
    IInv /\ CaptureFollowsClients /\ [Next]_vars => CaptureFollowsClients'
<1> SUFFICES ASSUME IInv, CaptureFollowsClients, [Next]_vars
             PROVE  CaptureFollowsClients'
  OBVIOUS
<1> USE DEF IInv, TypeOK, CaptureFollowsClients, Move
<1>1. ASSUME NEW c \in Clients, FetchAdd(c) PROVE CaptureFollowsClients'
  BY <1>1 DEF FetchAdd, history
<1>2. ASSUME NEW c \in Clients, SetStreaming(c) PROVE CaptureFollowsClients'
  BY <1>2 DEF SetStreaming
<1>3. ASSUME NEW c \in Clients, FetchSub(c) PROVE CaptureFollowsClients'
  <2>1. stage' = [stage EXCEPT ![c] = stage'[c]] /\ stage[c] # "starting"
    BY <1>3 DEF FetchSub
  <2>2. client_count \in Nat \ {0}
    BY <1>3, CountedIsPositive DEF FetchSub, Counted
  <2> QED
    BY <1>3, <2>1, <2>2 DEF FetchSub, history
<1>4. ASSUME NEW c \in Clients, SetIdle(c) PROVE CaptureFollowsClients'
  BY <1>4 DEF SetIdle
<1>5. ASSUME NEW c \in Clients,
             Accept(c) \/ Reject(c) \/ Authenticate(c) \/ LeaveLoop(c)
      PROVE  CaptureFollowsClients'
  BY <1>5 DEF Accept, Reject, Authenticate, LeaveLoop, history
<1>6. ASSUME UNCHANGED <<stage, client_count, session, late>>
      PROVE  CaptureFollowsClients'
  BY <1>6
<1> HIDE DEF IInv, TypeOK, CaptureFollowsClients, Move
<1> QED
  BY <1>1, <1>2, <1>3, <1>4, <1>5, <1>6
  DEF Next, ClientStep, Config, StoreSetting, ConfirmConfig, vars, history

\* However clients come and go at the same time: the capture is paused for a
\* connected client only after the Idle of a task that was the last when another
\* had come, and until the next Streaming (handle_client, fetch_add to set).
THEOREM CaptureFollows == Spec => []CaptureFollowsClients
<1>1. Init => CaptureFollowsClients
  BY DEF Init, CaptureFollowsClients
<1> QED
  BY <1>1, NextFollows, Invariance, PTL DEF Spec

-----------------------------------------------------------------------------
(* Settings                                                                  *)

\* What is being stored belongs to the batch, and each setting in force is of
\* the batch or will be stored over.
StoringIsOfBatch == \A c \in Clients : storing[c] # None => storing[c].new \in batch
FpsIsOfBatch == \/ \E m \in batch : fps = m.fps
                \/ \E c \in Clients : storing[c] # None /\ "fps" \in storing[c].left
QualityIsOfBatch == \/ \E m \in batch : quality = m.quality
                    \/ \E c \in Clients : storing[c] # None /\ "quality" \in storing[c].left
BatchInv == StoringIsOfBatch /\ FpsIsOfBatch /\ QualityIsOfBatch

LEMMA NextBatch == IInv /\ BatchInv /\ [Next]_vars => BatchInv'
<1> SUFFICES ASSUME IInv, BatchInv, [Next]_vars PROVE BatchInv'
  OBVIOUS
<1> USE DEF IInv, BatchInv
<1>1. ASSUME NEW c \in Clients, Config(c) PROVE BatchInv'
  <2>1. PICK new \in Configs :
          /\ storing' = [storing EXCEPT ![c] = [new |-> new, left |-> {"fps", "quality"}]]
          /\ batch' = {new} \cup IF NobodyStores THEN {} ELSE batch
    BY <1>1 DEF Config
  <2>2. /\ storing'[c] = [new |-> new, left |-> {"fps", "quality"}]
        /\ \A d \in Clients \ {c} : storing'[d] = storing[d]
    BY <2>1 DEF TypeOK
  <2>3. storing'[c] # None
    BY <2>2, AgentServerAssumption DEF Store
  <2>4. FpsIsOfBatch' /\ QualityIsOfBatch'
    BY <2>2, <2>3 DEF FpsIsOfBatch, QualityIsOfBatch
  <2>5. \A d \in Clients \ {c} : storing[d] # None => batch \subseteq batch'
    BY <2>1 DEF NobodyStores
  <2>6. StoringIsOfBatch'
    BY <2>1, <2>2, <2>5 DEF StoringIsOfBatch
  <2> QED
    BY <2>4, <2>6
<1>2. ASSUME NEW c \in Clients, NEW setting \in {"fps", "quality"},
             StoreSetting(c, setting)
      PROVE  BatchInv'
  <2>1. storing[c] \in Store /\ storing[c] # None
    BY <1>2, StoringType DEF StoreSetting
  <2>2. storing'[c] = [storing[c] EXCEPT !.left = @ \ {setting}]
    BY <1>2 DEF StoreSetting, TypeOK
  <2>3. /\ storing'[c].new = storing[c].new
        /\ storing'[c].left = storing[c].left \ {setting}
        /\ storing'[c] # None
    BY <2>1, <2>2, AgentServerAssumption DEF Store
  <2>4. \A d \in Clients \ {c} : storing'[d] = storing[d]
    BY <1>2 DEF StoreSetting, TypeOK
  <2>5. batch' = batch /\ storing[c].new \in batch
    BY <1>2, <2>1 DEF StoreSetting, history, StoringIsOfBatch
  <2>6. StoringIsOfBatch'
    BY <2>3, <2>4, <2>5 DEF StoringIsOfBatch
  <2>7. FpsIsOfBatch'
    <3>1. CASE setting = "fps"
      BY <1>2, <2>5, <3>1 DEF StoreSetting, FpsIsOfBatch
    <3>2. CASE setting = "quality"
      BY <1>2, <2>3, <2>4, <2>5, <3>2 DEF StoreSetting, FpsIsOfBatch
    <3> QED
      BY <3>1, <3>2
  <2>8. QualityIsOfBatch'
    <3>1. CASE setting = "quality"
      BY <1>2, <2>5, <3>1 DEF StoreSetting, QualityIsOfBatch
    <3>2. CASE setting = "fps"
      BY <1>2, <2>3, <2>4, <2>5, <3>2 DEF StoreSetting, QualityIsOfBatch
    <3> QED
      BY <3>1, <3>2
  <2> QED
    BY <2>6, <2>7, <2>8
<1>3. ASSUME NEW c \in Clients, ConfirmConfig(c) PROVE BatchInv'
  <2>1. /\ storing'[c] = None /\ storing[c].left = {}
        /\ \A d \in Clients \ {c} : storing'[d] = storing[d]
        /\ UNCHANGED <<fps, quality, batch>>
    BY <1>3 DEF ConfirmConfig, TypeOK, history
  <2> QED
    BY <2>1 DEF StoringIsOfBatch, FpsIsOfBatch, QualityIsOfBatch
<1>4. CASE UNCHANGED <<fps, quality, storing, batch>>
  BY <1>4 DEF StoringIsOfBatch, FpsIsOfBatch, QualityIsOfBatch
<1> HIDE DEF IInv, BatchInv
<1> QED
  BY <1>1, <1>2, <1>3, <1>4
  DEF Next, ClientStep, Accept, Reject, Authenticate, FetchAdd, SetStreaming,
      LeaveLoop, FetchSub, SetIdle, vars, history

\* However config messages of parallel clients interleave: when all are handled
\* each setting is one that was asked for since nobody was storing, so a message
\* handled alone is in force whole (handle_control_message, the two stores).
THEOREM ConfigWhole == Spec => []ConfigIsWhole
<1>1. Init => BatchInv
  BY DEF Init, BatchInv, StoringIsOfBatch, FpsIsOfBatch, QualityIsOfBatch
<1>2. BatchInv => ConfigIsWhole
  BY DEF BatchInv, FpsIsOfBatch, QualityIsOfBatch, ConfigIsWhole, NobodyStores
<1> QED
  BY <1>1, <1>2, NextBatch, Invariance, PTL DEF Spec
=============================================================================
