-------------------------- MODULE AgentClient_proofs --------------------------
(***************************************************************************)
(* Proofs about the backend's connection to an agent, for every pool of    *)
(* connections and however REST calls and events overlap: what holds of    *)
(* any number of them, and what holds of one that follows another.         *)
(***************************************************************************)
EXTENDS AgentFrames, SequenceTheorems, FiniteSetTheorems, TLAPS

-----------------------------------------------------------------------------
(* Any use                                                                   *)

\* A connection has an answer pending or received only while its socket lives.
AnswersNeedSocket ==
    \A c \in Conns : auth[c] # "unsent" => ws[c] \in {"open", "closing"}

TimersAfterClose == \A c \in armed : ws[c] = "closed"
LiveNotClosed == \A c \in Conns : ws[c] # "closing" => closeCode[c] = 1006
OnlineNeedsSocket == notified = "online" => \E c \in Conns : ws[c] # "closed"

UseInv ==
    /\ TypeOK
    /\ AnswersNeedSocket
    /\ StatusIsTruthful
    /\ TimerEntryIsArmed
    /\ TimersAfterClose
    /\ LiveNotClosed
    /\ OnlineNeedsSocket
    /\ NeverGivesUp

\* The service starts without connections.
LEMMA InitUse == Init => UseInv
<1> SUFFICES ASSUME Init PROVE UseInv
  OBVIOUS
<1> USE AgentClientAssumption DEF Init
<1>1. TypeOK
  <2>1. /\ isDestroying \in BOOLEAN /\ overtaken \in BOOLEAN
        /\ unheard \in BOOLEAN /\ dismissed \in BOOLEAN
    BY Zenon
  <2> QED
    BY <2>1 DEF TypeOK
<1>2. AnswersNeedSocket /\ StatusIsTruthful /\ TimerEntryIsArmed
  BY DEF AnswersNeedSocket, StatusIsTruthful, TimerEntryIsArmed, Connected
<1>3. TimersAfterClose /\ LiveNotClosed /\ OnlineNeedsSocket /\ NeverGivesUp
  BY DEF TimersAfterClose, LiveNotClosed, OnlineNeedsSocket, NeverGivesUp, Wanted
<1> QED
  BY <1>1, <1>2, <1>3 DEF UseInv

\* Each handler keeps the map, the sockets and the timers in step.
LEMMA NextUse == UseInv /\ [Next]_vars => UseInv'
<1> SUFFICES ASSUME UseInv, [Next]_vars PROVE UseInv'
  OBVIOUS
<1> USE AgentClientAssumption
<1> USE DEF UseInv, TypeOK, AnswersNeedSocket, StatusIsTruthful, TimerEntryIsArmed,
            TimersAfterClose, LiveNotClosed, OnlineNeedsSocket, NeverGivesUp,
            Connected, Live, Due, Wanted
<1>1. CASE Connect
  <2>1. CASE session # None
    <3>1. /\ unheard' = FALSE /\ dismissed' = FALSE /\ lastCall' = "connect"
          /\ UNCHANGED <<auth, reconnectTimer, armed, isDestroying, notified>>
          /\ UNCHANGED <<session, ws, closeCode, overtaken>>
      BY <1>1, <2>1 DEF Connect, ConnectCalled
    <3>2. session \in Conns /\ Live(session)
      BY <2>1
    <3>3. Live(session)' /\ NeverGivesUp'
      BY <3>1, <3>2
    <3>4. TypeOK'
      <4>1. unheard' \in BOOLEAN /\ dismissed' \in BOOLEAN
        BY <3>1, Zenon
      <4> QED
        BY <3>1, <4>1
    <3> QED
      BY <3>1, <3>3, <3>4
  <2>2. CASE session = None
    <3>1. PICK d \in Conns : OpenConnection(d)
      BY <1>1, <2>2 DEF Connect
    <3>2. overtaken' \in BOOLEAN
      BY <1>1, <2>2 DEF Connect, AtRest
    <3>3. /\ unheard' \in BOOLEAN /\ dismissed' \in BOOLEAN /\ lastCall' = "connect"
          /\ UNCHANGED <<auth, reconnectTimer, armed, isDestroying, notified>>
      BY <1>1 DEF Connect, ConnectCalled
    <3>4. /\ session' = d /\ ws[d] = "closed" /\ d \notin armed
          /\ ws' = [ws EXCEPT ![d] = "connecting"] /\ closeCode' = closeCode
      BY <3>1, <3>3 DEF OpenConnection, Unused
    <3>5. ws' \in [Conns -> {"connecting", "open", "closing", "closed"}] /\ ws'[d] = "connecting"
          /\ \A e \in Conns \ {d} : ws'[e] = ws[e]
      BY <3>4
    <3>6. closeCode[d] = 1006
      BY <3>4
    <3> QED
      BY <3>2, <3>3, <3>4, <3>5, <3>6
  <2> QED
    BY <2>1, <2>2
<1>2. CASE Disconnect
  BY <1>2 DEF Disconnect, CloseSockets
<1>3. CASE OnModuleDestroy
  BY <1>3 DEF OnModuleDestroy, CloseSockets, history
<1>4. ASSUME NEW c \in Conns, WsOpen(c) PROVE UseInv'
  BY <1>4 DEF WsOpen, history
<1>5. ASSUME NEW c \in Conns, AuthOk(c) PROVE UseInv'
  BY <1>5 DEF AuthOk, AwaitsAuth, history
<1>6. ASSUME NEW c \in Conns, AuthError(c) PROVE UseInv'
  BY <1>6 DEF AuthError, AwaitsAuth, CloseSockets, history
<1>7. ASSUME NEW c \in Conns, NEW code \in {1000, 1006, 1008}, Close(c, code)
      PROVE  UseInv'
  <2>1. /\ ws[c] # "closed" /\ ws' = [ws EXCEPT ![c] = "closed"]
        /\ auth' = [auth EXCEPT ![c] = "unsent"]
        /\ closeCode' = [closeCode EXCEPT ![c] = 1006]
        /\ session' = None /\ notified' = "offline"
        /\ isDestroying' = isDestroying /\ lastCall' = lastCall /\ overtaken' = overtaken
    BY <1>7 DEF Close, SocketCloses
  <2>2. unheard' \in BOOLEAN /\ dismissed' \in BOOLEAN
    <3>1. unheard \in BOOLEAN /\ dismissed \in BOOLEAN
      OBVIOUS
    <3>2. /\ unheard' = (IF closeCode[c] = 1000 /\ code # 1000 /\ ~isDestroying
                         THEN TRUE ELSE unheard)
          /\ dismissed' = (IF closeCode[c] # 1000 /\ code = 1000 /\ Wanted
                           THEN TRUE ELSE dismissed)
      BY <1>7 DEF Close, SocketCloses
    <3> HIDE DEF UseInv, TypeOK, Wanted
    <3>3. unheard' \in BOOLEAN
      BY <3>1, <3>2, Zenon
    <3>4. dismissed' \in BOOLEAN
      BY <3>1, <3>2, Zenon
    <3> QED
      BY <3>3, <3>4
  <2>3. \/ armed' = armed /\ reconnectTimer' = reconnectTimer /\ (code = 1000 \/ isDestroying)
        \/ armed' = armed \cup {c} /\ reconnectTimer' = c
    BY <1>7 DEF Close
  <2>4. TypeOK'
    BY <2>1, <2>2, <2>3
  <2>5. NeverGivesUp'
    <3>1. dismissed' = IF closeCode[c] # 1000 /\ code = 1000 /\ Wanted THEN TRUE ELSE dismissed
      BY <1>7 DEF Close, SocketCloses
    <3> QED
      BY <2>1, <2>3, <3>1
  <2> QED
    BY <2>1, <2>3, <2>4, <2>5
<1>8. ASSUME NEW c \in Conns, TimerFires(c) PROVE UseInv'
  <2>1. PICK d \in Conns : OpenConnection(d)
    BY <1>8 DEF TimerFires
  <2>2. /\ armed' = armed \ {c} /\ reconnectTimer' = None
        /\ UNCHANGED <<auth, isDestroying, lastCall, notified, overtaken, unheard, dismissed>>
    BY <1>8 DEF TimerFires, history
  <2>3. /\ session' = d /\ ws[d] = "closed" /\ d \notin armed'
        /\ ws' = [ws EXCEPT ![d] = "connecting"] /\ closeCode' = closeCode
    BY <2>1 DEF OpenConnection, Unused
  <2>4. /\ ws' \in [Conns -> {"connecting", "open", "closing", "closed"}]
        /\ ws'[d] = "connecting" /\ \A e \in Conns \ {d} : ws'[e] = ws[e]
        /\ closeCode[d] = 1006
    BY <2>3
  <2> QED
    BY <2>2, <2>3, <2>4
<1>9. CASE UNCHANGED vars
  BY <1>9 DEF vars, history
<1> HIDE DEF UseInv
<1> QED
  BY <1>1, <1>2, <1>3, <1>4, <1>5, <1>6, <1>7, <1>8, <1>9 DEF Next

\* What holds of the service however the REST calls are timed.
THEOREM UseIsInvariant == Spec => []UseInv
  BY InitUse, NextUse, PTL DEF Spec

\* The variables of the service keep their types.
THEOREM TypeCorrect == Spec => []TypeOK
<1>1. UseInv => TypeOK
  BY DEF UseInv
<1> QED
  BY <1>1, UseIsInvariant, PTL

\* GET :id/status never reports a connection that is gone.
THEOREM StatusCorrect == Spec => []StatusIsTruthful
<1>1. UseInv => StatusIsTruthful
  BY DEF UseInv
<1> QED
  BY <1>1, UseIsInvariant, PTL

\* Clearing the timer in the map cancels a reconnection.
THEOREM TimerEntryCorrect == Spec => []TimerEntryIsArmed
<1>1. UseInv => TimerEntryIsArmed
  BY DEF UseInv
<1> QED
  BY <1>1, UseIsInvariant, PTL

-----------------------------------------------------------------------------
(* One connection after another                                              *)

\* The connection under way, or the one a reconnection is due for.
Busy(c) == ws[c] # "closed" \/ c \in armed

\* While no connect call has overtaken anything, there is one such connection;
\* the map, the timer entry and the subscribers know of it; and a disconnect
\* that was heard leaves a clean close at most.
OneBusy == ~overtaken => \A c, d \in Conns : Busy(c) /\ Busy(d) => c = d
LiveIsInMap == ~overtaken /\ ~isDestroying => \A c \in Conns : Live(c) => session = c
TimersInMap == ~overtaken => armed \subseteq {reconnectTimer}
HeardIsClean == ~overtaken /\ ~Wanted /\ ~unheard =>
    /\ armed = {}
    /\ ~isDestroying => \A c \in Conns :
          ws[c] = "closed" \/ (ws[c] = "closing" /\ closeCode[c] = 1000)

ChainInv ==
    /\ OneBusy
    /\ LiveIsInMap
    /\ TimersInMap
    /\ TeardownCancelsTimers
    /\ HeardIsClean
    /\ SubscribersAgree

\* The service starts with nothing under way.
LEMMA InitChain == Init => ChainInv
  BY DEF Init, ChainInv, OneBusy, Busy, LiveIsInMap, Live, TimersInMap,
         TeardownCancelsTimers, HeardIsClean, SubscribersAgree, Connected

\* A connection is followed by another when it is closed and its timer has
\* fired, or when a call finds nothing left of it: then all of this begins anew.
LEMMA NextChain == UseInv /\ ChainInv /\ [Next]_vars => ChainInv'
<1> SUFFICES ASSUME UseInv, ChainInv, [Next]_vars PROVE ChainInv'
  OBVIOUS
<1> USE AgentClientAssumption
<1> USE DEF UseInv, TypeOK, AnswersNeedSocket, StatusIsTruthful, TimersAfterClose,
            LiveNotClosed, OnlineNeedsSocket, ChainInv, OneBusy, Busy, LiveIsInMap,
            Live, TimersInMap, TeardownCancelsTimers, HeardIsClean,
            SubscribersAgree, Connected, Wanted
<1>1. CASE Connect
  <2>1. CASE session # None
    BY <1>1, <2>1 DEF Connect, ConnectCalled
  <2>2. CASE session = None /\ ~AtRest
    BY <1>1, <2>2 DEF Connect, ConnectCalled
  <2>3. CASE session = None /\ AtRest
    <3>1. /\ armed' = {} /\ isDestroying' = isDestroying /\ notified' = notified
          /\ auth' = auth /\ lastCall' = "connect"
      BY <1>1, <2>3 DEF Connect, ConnectCalled, AtRest
    <3>2. PICK d \in Conns : OpenConnection(d)
      BY <1>1, <2>3 DEF Connect
    <3>3. session' = d /\ \A e \in Conns : Busy(e)' => e = d
      BY <2>3, <3>1, <3>2 DEF OpenConnection, AtRest
    <3>4. notified # "online" /\ \A e \in Conns : ~Connected(e)
      BY <2>3 DEF AtRest
    <3> QED
      BY <3>1, <3>3, <3>4
  <2> QED
    BY <2>1, <2>2, <2>3
<1>2. CASE Disconnect
  BY <1>2 DEF Disconnect, CloseSockets, Due
<1>3. CASE OnModuleDestroy
  BY <1>3 DEF OnModuleDestroy, CloseSockets, history
<1>4. ASSUME NEW c \in Conns, WsOpen(c) PROVE ChainInv'
  BY <1>4 DEF WsOpen, history
<1>5. ASSUME NEW c \in Conns, AuthOk(c) PROVE ChainInv'
  BY <1>5 DEF AuthOk, AwaitsAuth, history
<1>6. ASSUME NEW c \in Conns, AuthError(c) PROVE ChainInv'
  BY <1>6 DEF AuthError, AwaitsAuth, CloseSockets, history
<1>7. ASSUME NEW c \in Conns, NEW code \in {1000, 1006, 1008}, Close(c, code)
      PROVE  ChainInv'
  <2>1. /\ ws[c] # "closed" /\ ws' = [ws EXCEPT ![c] = "closed"]
        /\ auth' = [auth EXCEPT ![c] = "unsent"]
        /\ closeCode' = [closeCode EXCEPT ![c] = 1006]
        /\ session' = None /\ notified' = "offline"
        /\ isDestroying' = isDestroying /\ lastCall' = lastCall /\ overtaken' = overtaken
    BY <1>7 DEF Close, SocketCloses
  <2>2. \/ armed' = armed /\ reconnectTimer' = reconnectTimer
        \/ armed' = armed \cup {c} /\ reconnectTimer' = c /\ code # 1000 /\ ~isDestroying
    BY <1>7 DEF Close
  <2>3. unheard' =
            IF closeCode[c] = 1000 /\ code # 1000 /\ ~isDestroying THEN TRUE ELSE unheard
    BY <1>7 DEF Close, SocketCloses
  <2>4. CASE ~overtaken
    <3>1. \A e \in Conns : Busy(e) => e = c
      BY <2>1, <2>4
    <3>2. \A e \in Conns : ws'[e] = "closed" /\ ~Connected(e)'
      BY <2>1, <3>1
    <3>3. armed \subseteq {c} /\ c \notin armed
      BY <2>1, <3>1
    <3>4. OneBusy' /\ LiveIsInMap' /\ TimersInMap' /\ TeardownCancelsTimers'
      BY <2>1, <2>2, <3>2, <3>3
    <3>5. HeardIsClean'
      BY <2>1, <2>2, <2>3, <2>4, <3>2
    <3>6. SubscribersAgree'
      BY <2>1, <3>2
    <3> QED
      BY <3>4, <3>5, <3>6
  <2> QED
    BY <2>1, <2>4
<1>8. ASSUME NEW c \in Conns, TimerFires(c) PROVE ChainInv'
  <2>1. PICK d \in Conns : OpenConnection(d)
    BY <1>8 DEF TimerFires
  <2>2. /\ overtaken' = overtaken /\ unheard' = unheard /\ lastCall' = lastCall
        /\ isDestroying' = isDestroying /\ notified' = notified /\ auth' = auth
    BY <1>8 DEF TimerFires, history
  <2>3. CASE overtaken
    BY <2>2, <2>3
  <2>4. CASE ~overtaken
    <3>1. armed' = {} /\ \A e \in Conns : ws[e] = "closed"
      BY <1>8, <2>4 DEF TimerFires
    <3>2. session' = d /\ \A e \in Conns : Busy(e)' => e = d
      BY <2>1, <3>1 DEF OpenConnection
    <3>3. armed # {}
      BY <1>8 DEF TimerFires
    <3> QED
      BY <2>2, <2>4, <3>1, <3>2, <3>3
  <2> QED
    BY <2>3, <2>4
<1>9. CASE UNCHANGED vars
  BY <1>9 DEF vars, history
<1> HIDE DEF ChainInv
<1> QED
  BY <1>1, <1>2, <1>3, <1>4, <1>5, <1>6, <1>7, <1>8, <1>9 DEF Next

LEMMA ChainIsInvariant == Spec => [](UseInv /\ ChainInv)
<1>1. UseInv /\ ChainInv /\ [Next]_vars => (UseInv /\ ChainInv)'
  BY NextUse, NextChain
<1> QED
  BY <1>1, InitUse, InitChain, PTL DEF Spec

\* An agent has one connection at a time: no disconnect, refused password,
\* lost close or teardown makes two, only a connect call that overtakes one.
THEOREM OneConnection == Spec => []OneLiveConnection
<1>1. ChainInv => OneLiveConnection
  BY DEF ChainInv, OneBusy, Busy, Live, OneLiveConnection
<1> QED
  BY <1>1, ChainIsInvariant, PTL

\* GET :id/status reports the authenticated connection there is.
THEOREM StatusComplete == Spec => []StatusIsComplete
<1>1. ChainInv => StatusIsComplete
  BY DEF ChainInv, LiveIsInMap, Live, StatusIsComplete
<1> QED
  BY <1>1, ChainIsInvariant, PTL

\* A wanted connection that was lost has a successor under way, however the
\* calls overlap.
THEOREM Persistent == Spec => []NeverGivesUp
<1>1. UseInv => NeverGivesUp
  BY DEF UseInv
<1> QED
  BY <1>1, UseIsInvariant, PTL

\* Subscribers know whether the agent is connected.
THEOREM SubscribersInformed == Spec => []SubscribersAgree
<1>1. ChainInv => SubscribersAgree
  BY DEF ChainInv
<1> QED
  BY <1>1, ChainIsInvariant, PTL

\* Nothing is opened after a disconnect that was heard: no timer is armed, none
\* will be, and a connect call makes the connection wanted again.
THEOREM DisconnectWorks == Spec => DisconnectIsObeyed
<1> DEFINE Obeyed == \A c \in Conns : Opens(c) => Wanted' \/ unheard \/ overtaken
<1>1. UseInv /\ ChainInv /\ [Next]_vars =>
          [\A c \in Conns : Opens(c) => Wanted' \/ unheard \/ overtaken]_vars
  <2> SUFFICES ASSUME UseInv, ChainInv, Next PROVE Obeyed
    OBVIOUS
  <2> USE DEF Opens, Live, Wanted
  <2>1. CASE Connect
    BY <2>1 DEF Connect, ConnectCalled
  <2>2. CASE Disconnect
    BY <2>2 DEF Disconnect, CloseSockets, UseInv, TypeOK
  <2>3. CASE OnModuleDestroy
    BY <2>3 DEF OnModuleDestroy, CloseSockets, UseInv, TypeOK
  <2>4. ASSUME NEW c \in Conns, WsOpen(c) PROVE Obeyed
    BY <2>4 DEF WsOpen, UseInv, TypeOK
  <2>5. ASSUME NEW c \in Conns, AuthOk(c) PROVE Obeyed
    BY <2>5 DEF AuthOk
  <2>6. ASSUME NEW c \in Conns, AuthError(c) PROVE Obeyed
    BY <2>6 DEF AuthError, CloseSockets, UseInv, TypeOK
  <2>7. ASSUME NEW c \in Conns, NEW code \in {1000, 1006, 1008}, Close(c, code)
        PROVE  Obeyed
    BY <2>7 DEF Close, SocketCloses, UseInv, TypeOK
  <2>8. ASSUME NEW c \in Conns, TimerFires(c) PROVE Obeyed
    BY <2>8 DEF TimerFires, ChainInv, HeardIsClean
  <2> QED
    BY <2>1, <2>2, <2>3, <2>4, <2>5, <2>6, <2>7, <2>8 DEF Next
<1> QED
  BY <1>1, ChainIsInvariant, PTL DEF DisconnectIsObeyed, Spec

\* No reconnection survives the teardown of the module.
THEOREM TeardownComplete == Spec => []TeardownCancelsTimers
<1>1. ChainInv => TeardownCancelsTimers
  BY DEF ChainInv
<1> QED
  BY <1>1, ChainIsInvariant, PTL

\* The status of the REST API and the connections agree.
THEOREM StatusAgreement == Spec => []StatusAgrees
BY StatusCorrect, StatusComplete, PTL DEF StatusAgrees

\* Every reconnection can be cancelled, and teardown cancels it.
THEOREM TimersCancelled == Spec => []TimersAreCancelled
BY TimerEntryCorrect, TeardownComplete, PTL DEF TimersAreCancelled

-----------------------------------------------------------------------------
(* The pictures that are kept                                                *)

\* What the pictures do leaves the connections alone, so all that holds of
\* them, and of their timers, holds while pictures are saved: of handleMessage
\* only the auth messages touch the maps (agent-client.service.ts).
THEOREM FramesKeepClient == FramesSpec => FairSpec
<1>1. FramesInit => Init
  BY DEF FramesInit
<1>2. [FramesNext]_allVars => [Next]_vars
  BY DEF FramesNext, ClientStep, Frame, SaveStep, Advance, Saved, Fails, allVars, vars
<1> QED
  BY <1>1, <1>2, PTL DEF FramesSpec, FairSpec, Spec

Ats == Awaiting \cup {"saved", "failed"}
Call == [at : Ats, name : Nat, number : Nat, alone : BOOLEAN]

\* The i-th call of a session that has counted n pictures: what it has taken
\* from the count is not beyond it, and is still the count if it is alone; and
\* alone means that none before it is on its way, nor has come since.
CallOk(calls, n, i) ==
    /\ calls[i].alone => \A j \in 1..(i - 1) : calls[j].at \notin Awaiting
    /\ calls[i].alone /\ calls[i].at \in Awaiting => i = Len(calls)
    /\ calls[i].at \in {"writeFile", "save"} =>
          calls[i].name <= n /\ (calls[i].alone => calls[i].name = n)
    /\ calls[i].at = "save" =>
          /\ calls[i].name <= calls[i].number /\ calls[i].number <= n
          /\ calls[i].alone => calls[i].number = n
    /\ calls[i].at = "saved" =>
          /\ calls[i].name <= calls[i].number
          /\ calls[i].number <= Others(calls, i)
          /\ calls[i].alone => /\ calls[i].number = Before(calls, i)
                               /\ calls[i].name = calls[i].number

InStep(calls, n) ==
    /\ calls \in Seq(Call)
    /\ n = Before(calls, Len(calls) + 1)
    /\ \A i \in 1..Len(calls) : CallOk(calls, n, i)

FramesInv ==
    /\ persist \in BOOLEAN
    /\ seq \in [Conns -> Nat]
    /\ frames \in [Conns -> Seq(Call)]
    /\ ~persist => \A c \in Conns : frames[c] = <<>>
    /\ persist => \A c \in Conns : InStep(frames[c], seq[c])

\* The count looks at the calls before only.
LEMMA BeforeIsLocal ==
    ASSUME NEW p, NEW q, NEW i \in Nat, \A j \in 1..(i - 1) : p[j].at = "saved" <=> q[j].at = "saved"
    PROVE  Before(p, i) = Before(q, i)
<1>1. {j \in 1..(i - 1) : p[j].at = "saved"} = {j \in 1..(i - 1) : q[j].at = "saved"}
  OBVIOUS
<1> QED
  BY <1>1 DEF Before

\* It is a number, and goes up by one with a call that is saved.
LEMMA BeforeCounts ==
    ASSUME NEW p, NEW i \in Nat \ {0}
    PROVE  /\ Before(p, i) \in Nat
           /\ Before(p, i + 1) = IF p[i].at = "saved" THEN Before(p, i) + 1 ELSE Before(p, i)
<1> DEFINE B == {j \in 1..(i - 1) : p[j].at = "saved"}
           C == {j \in 1..(i + 1 - 1) : p[j].at = "saved"}
<1>1. IsFiniteSet(B)
  <2>1. IsFiniteSet(1..(i - 1))
    BY FS_Interval
  <2>2. B \in SUBSET (1..(i - 1))
    OBVIOUS
  <2> QED
    BY <2>1, <2>2, FS_Subset
<1>2. i \notin B
  OBVIOUS
<1>3. C = IF p[i].at = "saved" THEN B \cup {i} ELSE B
  <2>1. 1..(i + 1 - 1) = (1..(i - 1)) \cup {i}
    OBVIOUS
  <2> QED
    BY <2>1
<1>4. Before(p, i) = Cardinality(B) /\ Before(p, i + 1) = Cardinality(C)
  BY DEF Before
<1> HIDE DEF B, C
<1>5. Cardinality(B) \in Nat
  BY <1>1, FS_CardinalityType
<1>6. Cardinality(B \cup {i}) = Cardinality(B) + 1
  BY <1>1, <1>2, FS_AddElement
<1> QED
  BY <1>3, <1>4, <1>5, <1>6

\* No picture yet.
LEMMA NoCalls == InStep(<<>>, 0)
<1>1. <<>> \in Seq(Call) /\ Len(<<>>) = 0
  OBVIOUS
<1>2. {j \in 1..(0 + 1 - 1) : <<>>[j].at = "saved"} = {}
  OBVIOUS
<1>3. Before(<<>>, 0 + 1) = 0
  BY <1>2, FS_EmptySet DEF Before
<1> QED
  BY <1>1, <1>3 DEF InStep

\* A call that joins those on their way.
LEMMA JoinedCalls ==
    ASSUME NEW calls \in Seq(Call)
    PROVE  LET q == Joined(calls)
               m == Len(calls)
           IN  /\ q \in Seq(Call) /\ m \in Nat /\ Len(q) = m + 1
               /\ q[m + 1].at = "mkdir"
               /\ q[m + 1].alone => \A j \in 1..m : calls[j].at \notin Awaiting
               /\ \A i \in 1..m :
                     /\ q[i].at = calls[i].at /\ q[i].name = calls[i].name
                     /\ q[i].number = calls[i].number
                     /\ q[i].alone => calls[i].alone /\ calls[i].at \notin Awaiting
<1> DEFINE m == Len(calls)
           p == [i \in DOMAIN calls |-> IF calls[i].at \in Awaiting
                                        THEN [calls[i] EXCEPT !.alone = FALSE] ELSE calls[i]]
           new == NewCall(\A i \in DOMAIN calls : calls[i].at \notin Awaiting)
<1>1. m \in Nat /\ DOMAIN calls = 1..m /\ \A i \in 1..m : calls[i] \in Call
  BY LenProperties, ElementOfSeq
<1>2. \A i \in 1..m : /\ p[i] \in Call
                      /\ p[i].at = calls[i].at /\ p[i].name = calls[i].name
                      /\ p[i].number = calls[i].number
                      /\ p[i].alone => calls[i].alone /\ calls[i].at \notin Awaiting
  <2> SUFFICES ASSUME NEW i \in 1..m
               PROVE  /\ p[i] \in Call
                      /\ p[i].at = calls[i].at /\ p[i].name = calls[i].name
                      /\ p[i].number = calls[i].number
                      /\ p[i].alone => calls[i].alone /\ calls[i].at \notin Awaiting
    OBVIOUS
  <2>1. calls[i] \in Call /\ i \in DOMAIN calls
    BY <1>1
  <2> QED
    BY <2>1 DEF Call
<1>3. p \in Seq(Call) /\ Len(p) = m
  <2>1. p \in [1..m -> Call]
    BY <1>1, <1>2
  <2> HIDE DEF p
  <2> QED
    BY <1>1, <2>1, LenProperties, IsASeq
<1>4. /\ new \in Call /\ new.at = "mkdir"
      /\ new.alone => \A j \in 1..m : calls[j].at \notin Awaiting
  <2>1. (\A i \in DOMAIN calls : calls[i].at \notin Awaiting) \in BOOLEAN
    OBVIOUS
  <2> QED
    BY <1>1, <2>1 DEF NewCall, Call, Ats, Awaiting
<1>5. Joined(calls) = Append(p, new)
  BY DEF Joined
<1> HIDE DEF p, new
<1>6. /\ Append(p, new) \in Seq(Call) /\ Len(Append(p, new)) = m + 1
      /\ Append(p, new)[m + 1] = new
      /\ \A i \in 1..m : Append(p, new)[i] = p[i]
  BY <1>3, <1>4, AppendProperties
<1> QED
  BY <1>1, <1>2, <1>4, <1>5, <1>6

\* A picture comes.
LEMMA CallBegins ==
    ASSUME NEW calls, NEW n, InStep(calls, n)
    PROVE  InStep(Joined(calls), n)
<1> DEFINE q == Joined(calls)
           m == Len(calls)
<1>1. calls \in Seq(Call) /\ n = Before(calls, m + 1)
  BY DEF InStep
<1>2. /\ q \in Seq(Call) /\ m \in Nat /\ Len(q) = m + 1
      /\ q[m + 1].at = "mkdir"
      /\ q[m + 1].alone => \A j \in 1..m : calls[j].at \notin Awaiting
      /\ \A i \in 1..m :
            /\ q[i].at = calls[i].at /\ q[i].name = calls[i].name
            /\ q[i].number = calls[i].number
            /\ q[i].alone => calls[i].alone /\ calls[i].at \notin Awaiting
  BY <1>1, JoinedCalls
<1> HIDE DEF q
<1>3. \A i \in 1..(m + 1) : Before(q, i) = Before(calls, i)
  <2> SUFFICES ASSUME NEW i \in 1..(m + 1) PROVE Before(q, i) = Before(calls, i)
    OBVIOUS
  <2>1. i \in Nat /\ \A j \in 1..(i - 1) : j \in 1..m
    BY <1>2
  <2> QED
    BY <1>2, <2>1, BeforeIsLocal
<1>4. \A i \in 1..m : Others(q, i) = Others(calls, i)
  <2> SUFFICES ASSUME NEW i \in 1..m PROVE Others(q, i) = Others(calls, i)
    OBVIOUS
  <2>1. 1..(m + 1) = (1..m) \cup {m + 1}
    BY <1>2
  <2>2. {j \in (1..(m + 1)) \ {i} : q[j].at = "saved"} = {j \in (1..m) \ {i} : calls[j].at = "saved"}
    BY <1>2, <2>1
  <2> QED
    BY <1>2, <2>2 DEF Others
<1>5. n = Before(q, Len(q) + 1)
  <2>1. m + 1 \in Nat \ {0} /\ m + 1 \in 1..(m + 1)
    BY <1>2
  <2>2. Before(q, m + 1 + 1) = Before(q, m + 1)
    BY <1>2, <2>1, BeforeCounts
  <2> QED
    BY <1>1, <1>2, <1>3, <2>1, <2>2
<1>6. ASSUME NEW i \in 1..(m + 1)
      PROVE  CallOk(q, n, i)
  <2>1. CASE i = m + 1
    <3>1. q[i].alone => \A j \in 1..(i - 1) : q[j].at \notin Awaiting
      BY <1>2, <2>1
    <3> QED
      BY <1>2, <2>1, <3>1 DEF CallOk
  <2>2. CASE i \in 1..m
    <3>1. /\ q[i].at = calls[i].at /\ q[i].name = calls[i].name
          /\ q[i].number = calls[i].number
          /\ q[i].alone => calls[i].alone /\ calls[i].at \notin Awaiting
          /\ Before(q, i) = Before(calls, i) /\ Others(q, i) = Others(calls, i)
      BY <1>2, <1>3, <1>4, <2>2
    <3>2. CallOk(calls, n, i)
      BY <2>2 DEF InStep
    <3>3. calls[i].alone => \A j \in 1..(i - 1) : q[j].at \notin Awaiting
      <4>1. \A j \in 1..(i - 1) : j \in 1..m
        BY <1>2, <2>2
      <4> QED
        BY <1>2, <3>2, <4>1 DEF CallOk
    <3> QED
      BY <3>1, <3>2, <3>3 DEF CallOk
  <2> QED
    BY <1>2, <1>6, <2>1, <2>2
<1> QED
  BY <1>2, <1>5, <1>6 DEF InStep, q

\* A call on its way goes on: it takes the count, or gives up, or has its row.
LEMMA CallGoesOn ==
    ASSUME NEW calls, NEW n \in Nat, InStep(calls, n),
           NEW k \in 1..Len(calls), calls[k].at \in Awaiting,
           NEW f \in Call, f.alone = calls[k].alone,
           f.at \in {"writeFile", "save", "saved"} =>
               f.name <= n /\ (f.alone => f.name = n),
           f.at \in {"save", "saved"} =>
               f.name <= f.number /\ f.number <= n /\ (f.alone => f.number = n),
           NEW m, m = IF f.at = "saved" THEN n + 1 ELSE n
    PROVE  InStep([calls EXCEPT ![k] = f], m)
<1> DEFINE q == [calls EXCEPT ![k] = f]
           l == Len(calls)
<1>1. calls \in Seq(Call) /\ l \in Nat /\ k \in Nat \ {0}
  BY LenProperties DEF InStep
<1>2. /\ q \in Seq(Call) /\ Len(q) = l /\ q[k] = f
      /\ \A i \in 1..l : i # k => q[i] = calls[i]
  BY <1>1, ExceptSeq
<1> HIDE DEF q
<1> DEFINE T == {j \in 1..l : calls[j].at = "saved"}
           U == {j \in 1..l : q[j].at = "saved"}
<1>3. /\ k \notin T /\ U = (IF f.at = "saved" THEN T \cup {k} ELSE T)
      /\ T \subseteq U /\ IsFiniteSet(T) /\ IsFiniteSet(U)
  <2>1. IsFiniteSet(1..l)
    BY <1>1, FS_Interval
  <2>2. T \in SUBSET (1..l) /\ U \in SUBSET (1..l)
    OBVIOUS
  <2>3. k \notin T
    BY DEF Awaiting
  <2>4. U = IF f.at = "saved" THEN T \cup {k} ELSE T
    BY <1>2, <2>3
  <2> QED
    BY <2>1, <2>2, <2>3, <2>4, FS_Subset
<1>4. n = Cardinality(T)
  <2>1. 1..(l + 1 - 1) = 1..l
    BY <1>1
  <2> QED
    BY <2>1 DEF InStep, Before
<1>5. m = Before(q, l + 1)
  <2>1. 1..(l + 1 - 1) = 1..l
    BY <1>1
  <2>2. Before(q, l + 1) = Cardinality(U)
    BY <2>1 DEF Before
  <2> HIDE DEF T, U
  <2>3. Cardinality(T \cup {k}) = Cardinality(T) + 1
    BY <1>3, FS_AddElement
  <2> QED
    BY <1>3, <1>4, <2>2, <2>3
<1>6. Others(q, k) = n
  <2>1. (1..l) \ {k} = {j \in 1..l : j # k}
    OBVIOUS
  <2>2. {j \in (1..l) \ {k} : q[j].at = "saved"} = T
    BY <1>2, <1>3
  <2> QED
    BY <1>2, <1>4, <2>2 DEF Others
<1>7. \A i \in 1..l : /\ Others(calls, i) <= Others(q, i)
                      /\ Others(calls, i) \in Nat /\ Others(q, i) \in Nat
  <2> SUFFICES ASSUME NEW i \in 1..l
               PROVE  /\ Others(calls, i) <= Others(q, i)
                      /\ Others(calls, i) \in Nat /\ Others(q, i) \in Nat
    OBVIOUS
  <2>1. Others(calls, i) = Cardinality(T \ {i}) /\ Others(q, i) = Cardinality(U \ {i})
    <3>1. {j \in (1..l) \ {i} : calls[j].at = "saved"} = T \ {i}
      OBVIOUS
    <3>2. {j \in (1..l) \ {i} : q[j].at = "saved"} = U \ {i}
      OBVIOUS
    <3> QED
      BY <1>2, <3>1, <3>2 DEF Others
  <2> HIDE DEF T, U
  <2>2. T \ {i} \in SUBSET (U \ {i}) /\ U \ {i} \in SUBSET U
    BY <1>3
  <2>3. /\ IsFiniteSet(U \ {i}) /\ IsFiniteSet(T \ {i})
        /\ Cardinality(T \ {i}) <= Cardinality(U \ {i})
    BY <1>3, <2>2, FS_Subset
  <2> QED
    BY <2>1, <2>3, FS_CardinalityType
<1>8. \A i \in 1..k : Before(q, i) = Before(calls, i)
  <2> SUFFICES ASSUME NEW i \in 1..k PROVE Before(q, i) = Before(calls, i)
    OBVIOUS
  <2>1. i \in Nat /\ \A j \in 1..(i - 1) : j \in 1..l /\ j # k
    BY <1>1
  <2> QED
    BY <1>2, <2>1, BeforeIsLocal
<1>9. \A i \in 1..l : q[i].at \in Awaiting => calls[i].at \in Awaiting
  BY <1>2
<1>10. f.alone => k = l /\ n = Before(calls, k)
  <2> SUFFICES ASSUME f.alone PROVE k = l /\ n = Before(calls, k)
    OBVIOUS
  <2>1. k = l
    BY DEF InStep, CallOk
  <2>2. n = Before(calls, k + 1) /\ calls[k].at # "saved"
    BY <2>1 DEF InStep, Awaiting
  <2> QED
    BY <1>1, <2>1, <2>2, BeforeCounts
<1>11. ASSUME NEW i \in 1..l
       PROVE  CallOk(q, m, i)
  <2>1. CallOk(calls, n, i) /\ calls[i] \in Call
    BY <1>1, <1>11, ElementOfSeq DEF InStep
  <2>2. i \in Nat /\ \A j \in 1..(i - 1) : j \in 1..l
    BY <1>1
  <2>3. calls[i].alone => \A j \in 1..(i - 1) : q[j].at \notin Awaiting
    BY <1>9, <2>1, <2>2 DEF CallOk
  <2>4. CASE i = k
    <3>1. q[i] = f /\ f.alone = calls[i].alone
      BY <1>2, <2>4
    <3>2. f.alone /\ f.at \in Awaiting => i = Len(q)
      BY <1>2, <1>10, <2>4
    <3>3. f.at \in {"writeFile", "save"} => f.name <= m /\ (f.alone => f.name = m)
      OBVIOUS
    <3>4. f.at = "save" => /\ f.name <= f.number /\ f.number <= m
                           /\ f.alone => f.number = m
      OBVIOUS
    <3>5. f.at = "saved" => /\ f.name <= f.number /\ f.number <= Others(q, i)
                            /\ f.alone => /\ f.number = Before(q, i)
                                          /\ f.name = f.number
      BY <1>1, <1>6, <1>8, <1>10, <2>4
    <3> QED
      BY <2>3, <3>1, <3>2, <3>3, <3>4, <3>5 DEF CallOk
  <2>5. CASE i # k
    <3>1. q[i] = calls[i]
      BY <1>2, <2>5
    <3>2. calls[i].alone /\ calls[i].at \in Awaiting => FALSE
      <4>1. calls[i].alone /\ calls[i].at \in Awaiting => i = l /\ k \in 1..(i - 1)
        BY <1>1, <2>1, <2>5 DEF CallOk
      <4> QED
        BY <2>1, <4>1 DEF CallOk
    <3>3. calls[i].alone => i \in 1..k
      <4>1. ~(i \in 1..k) => k \in 1..(i - 1)
        BY <1>1, <2>2
      <4> QED
        BY <2>1, <4>1 DEF CallOk
    <3>4. m \in Nat /\ n <= m /\ calls[i].name \in Nat /\ calls[i].number \in Nat
      BY <2>1 DEF Call
    <3>5. calls[i].at \in {"writeFile", "save"} => calls[i].name <= m /\ ~calls[i].alone
      BY <2>1, <3>2, <3>4 DEF CallOk, Awaiting
    <3>6. calls[i].at = "save" => calls[i].name <= calls[i].number /\ calls[i].number <= m
      BY <2>1, <3>4 DEF CallOk
    <3>7. calls[i].at = "saved" =>
              /\ calls[i].name <= calls[i].number
              /\ calls[i].number <= Others(q, i)
              /\ calls[i].alone => /\ calls[i].number = Before(q, i)
                                   /\ calls[i].name = calls[i].number
      BY <1>7, <1>8, <2>1, <3>3, <3>4 DEF CallOk
    <3>8. calls[i].alone /\ calls[i].at \in Awaiting => i = Len(q)
      BY <3>2
    <3> QED
      BY <2>3, <3>1, <3>5, <3>6, <3>7, <3>8 DEF CallOk
  <2> QED
    BY <2>4, <2>5
<1> QED
  BY <1>2, <1>5, <1>11 DEF InStep, q

LEMMA FramesInitInv == FramesInit => FramesInv
<1> SUFFICES ASSUME FramesInit PROVE FramesInv
  OBVIOUS
<1>1. /\ persist \in BOOLEAN /\ seq = [c \in Conns |-> 0] /\ frames = [c \in Conns |-> <<>>]
  BY DEF FramesInit
<1>2. <<>> \in Seq(Call)
  OBVIOUS
<1>3. seq \in [Conns -> Nat] /\ frames \in [Conns -> Seq(Call)]
  BY <1>1, <1>2
<1>4. \A c \in Conns : frames[c] = <<>> /\ InStep(frames[c], seq[c])
  BY <1>1, NoCalls
<1> QED
  BY <1>1, <1>3, <1>4 DEF FramesInv

\* A step of the call k on connection c: only there is anything disturbed.
LEMMA StepOfCall ==
    ASSUME FramesInv, persist, persist' = persist,
           NEW c \in Conns, NEW q \in Seq(Call), NEW n \in Nat, InStep(q, n),
           frames' = [frames EXCEPT ![c] = q], seq' = [seq EXCEPT ![c] = n]
    PROVE  FramesInv'
<1>1. seq \in [Conns -> Nat] /\ frames \in [Conns -> Seq(Call)] /\ persist' \in BOOLEAN
  BY DEF FramesInv
<1>2. seq' \in [Conns -> Nat]
  BY <1>1
<1>3. frames' \in [Conns -> Seq(Call)]
  BY <1>1
<1>4. ASSUME NEW d \in Conns
      PROVE  InStep(frames'[d], seq'[d])
  <2>1. CASE d = c
    <3>1. frames'[d] = q /\ seq'[d] = n
      BY <1>1, <2>1
    <3> QED
      BY <3>1
  <2>2. CASE d # c
    <3>1. frames'[d] = frames[d] /\ seq'[d] = seq[d]
      BY <1>1, <2>2
    <3>2. InStep(frames[d], seq[d])
      BY DEF FramesInv
    <3> QED
      BY <3>1, <3>2
  <2> QED
    BY <2>1, <2>2
<1> QED
  BY <1>1, <1>2, <1>3, <1>4 DEF FramesInv

LEMMA FramesNextInv == FramesInv /\ [FramesNext]_allVars => FramesInv'
<1> SUFFICES ASSUME FramesInv, [FramesNext]_allVars PROVE FramesInv'
  OBVIOUS
<1>1. seq \in [Conns -> Nat] /\ frames \in [Conns -> Seq(Call)] /\ persist \in BOOLEAN
  BY DEF FramesInv
<1>2. CASE UNCHANGED allVars
  BY <1>2 DEF FramesInv, allVars, frameVars
<1>3. CASE ClientStep
  <2>1. /\ seq' = [c \in Conns |-> IF Begins(c) THEN 0 ELSE seq[c]]
        /\ frames' = [c \in Conns |-> IF Begins(c) THEN <<>> ELSE frames[c]]
        /\ persist' = persist
    BY <1>3 DEF ClientStep
  <2>2. <<>> \in Seq(Call)
    OBVIOUS
  <2>3. seq' \in [Conns -> Nat] /\ frames' \in [Conns -> Seq(Call)]
    BY <1>1, <2>1, <2>2
  <2>4. ASSUME NEW c \in Conns
        PROVE  \/ frames'[c] = <<>> /\ seq'[c] = 0
               \/ frames'[c] = frames[c] /\ seq'[c] = seq[c]
    BY <2>1
  <2>5. persist => \A c \in Conns : InStep(frames'[c], seq'[c])
    BY <2>4, NoCalls DEF FramesInv
  <2>6. ~persist => \A c \in Conns : frames'[c] = <<>>
    BY <2>4 DEF FramesInv
  <2> QED
    BY <1>1, <2>1, <2>3, <2>5, <2>6 DEF FramesInv
<1>4. ASSUME NEW c \in Conns, Frame(c)
      PROVE  FramesInv'
  <2>1. CASE persist
    <3> DEFINE q == Joined(frames[c])
    <3>1. frames' = [frames EXCEPT ![c] = q] /\ seq' = seq /\ persist' = persist
      BY <1>4, <2>1 DEF Frame
    <3>2. seq' = [seq EXCEPT ![c] = seq[c]] /\ seq[c] \in Nat
      BY <1>1, <3>1
    <3>3. InStep(frames[c], seq[c])
      BY <2>1 DEF FramesInv
    <3>5. InStep(q, seq[c])
      BY <3>3, CallBegins
    <3>6. q \in Seq(Call)
      BY <3>5 DEF InStep
    <3> HIDE DEF q
    <3> QED
      BY <2>1, <3>1, <3>2, <3>5, <3>6, StepOfCall
  <2>2. CASE ~persist
    <3>1. seq' = [seq EXCEPT ![c] = seq[c] + 1] /\ frames' = frames /\ persist' = persist
      BY <1>4, <2>2 DEF Frame
    <3>2. seq' \in [Conns -> Nat]
      BY <1>1, <3>1
    <3> QED
      BY <1>1, <2>2, <3>1, <3>2 DEF FramesInv
  <2> QED
    BY <2>1, <2>2
<1>5. ASSUME NEW c \in Conns, SaveStep(c)
      PROVE  FramesInv'
  <2>1. PICK k \in DOMAIN frames[c] : Advance(c, k) \/ Saved(c, k) \/ Fails(c, k)
    BY <1>5 DEF SaveStep
  <2>2. /\ frames[c] \in Seq(Call) /\ k \in 1..Len(frames[c])
        /\ frames[c][k] \in Call /\ seq[c] \in Nat
    BY <1>1, <2>1, LenProperties, ElementOfSeq
  <2>3. frames[c][k].at \in Awaiting /\ persist' = persist
    BY <2>1 DEF Advance, Saved, Fails, Awaiting
  <2>4. persist
    <3>1. frames[c] # <<>>
      BY <2>2, EmptySeq
    <3> QED
      BY <1>1, <3>1 DEF FramesInv
  <2>5. InStep(frames[c], seq[c])
    BY <2>4 DEF FramesInv
  <2> DEFINE g == frames[c][k]
             Named == [g EXCEPT !.at = "writeFile", !.name = seq[c]]
             Counted == [g EXCEPT !.at = "save", !.number = seq[c]]
             Kept == [g EXCEPT !.at = "saved"]
             Lost == [g EXCEPT !.at = "failed"]
  <2>6. /\ Named \in Call /\ Named.at = "writeFile" /\ Named.name = seq[c]
        /\ Counted \in Call /\ Counted.at = "save" /\ Counted.name = g.name
        /\ Counted.number = seq[c]
        /\ Kept \in Call /\ Kept.at = "saved" /\ Kept.name = g.name /\ Kept.number = g.number
        /\ Lost \in Call /\ Lost.at = "failed"
        /\ Named.alone = g.alone /\ Counted.alone = g.alone
        /\ Kept.alone = g.alone /\ Lost.alone = g.alone
    BY <2>2 DEF Call, Ats, Awaiting
  <2>7. /\ g.at \in {"writeFile", "save"} => g.name <= seq[c] /\ (g.alone => g.name = seq[c])
        /\ g.at = "save" => /\ g.name <= g.number /\ g.number <= seq[c]
                            /\ g.alone => g.number = seq[c]
    BY <2>2, <2>5 DEF InStep, CallOk
  <2>8. ASSUME NEW f \in Call, NEW m \in Nat, f.alone = g.alone,
               frames' = [frames EXCEPT ![c] = [frames[c] EXCEPT ![k] = f]],
               seq' = [seq EXCEPT ![c] = m],
               f.at \in {"writeFile", "save", "saved"} =>
                   f.name <= seq[c] /\ (f.alone => f.name = seq[c]),
               f.at \in {"save", "saved"} =>
                   /\ f.name <= f.number /\ f.number <= seq[c]
                   /\ f.alone => f.number = seq[c],
               m = IF f.at = "saved" THEN seq[c] + 1 ELSE seq[c]
        PROVE  FramesInv'
    <3>1. InStep([frames[c] EXCEPT ![k] = f], m)
      BY <2>2, <2>3, <2>5, <2>8, CallGoesOn
    <3>2. [frames[c] EXCEPT ![k] = f] \in Seq(Call)
      BY <3>1 DEF InStep
    <3> QED
      BY <2>3, <2>4, <2>8, <3>1, <3>2, StepOfCall
  <2>9. seq = [seq EXCEPT ![c] = seq[c]]
    BY <1>1
  <2>10. CASE Advance(c, k) /\ g.at = "mkdir"
    <3>1. seq' = [seq EXCEPT ![c] = seq[c]]
      BY <2>9, <2>10 DEF Advance
    <3>2. frames' = [frames EXCEPT ![c] = [frames[c] EXCEPT ![k] = Named]]
      BY <1>1, <2>10 DEF Advance
    <3>3. Named.name <= seq[c]
      BY <2>2, <2>6
    <3> HIDE DEF Named
    <3> QED
      BY <2>2, <2>6, <2>8, <3>1, <3>2, <3>3
  <2>11. CASE Advance(c, k) /\ g.at = "writeFile"
    <3>1. seq' = [seq EXCEPT ![c] = seq[c]]
      BY <2>9, <2>11 DEF Advance
    <3>2. frames' = [frames EXCEPT ![c] = [frames[c] EXCEPT ![k] = Counted]]
      BY <1>1, <2>11 DEF Advance
    <3>3. /\ Counted.name <= seq[c] /\ (Counted.alone => Counted.name = seq[c])
          /\ Counted.name <= Counted.number /\ Counted.number <= seq[c]
      BY <2>2, <2>6, <2>7, <2>11
    <3> HIDE DEF Counted
    <3> QED
      BY <2>2, <2>6, <2>8, <3>1, <3>2, <3>3
  <2>12. CASE Saved(c, k)
    <3>1. seq' = [seq EXCEPT ![c] = seq[c] + 1] /\ seq[c] + 1 \in Nat /\ g.at = "save"
      BY <2>2, <2>12 DEF Saved
    <3>2. frames' = [frames EXCEPT ![c] = [frames[c] EXCEPT ![k] = Kept]]
      BY <1>1, <2>12 DEF Saved
    <3>3. /\ Kept.name <= seq[c] /\ (Kept.alone => Kept.name = seq[c])
          /\ Kept.name <= Kept.number /\ Kept.number <= seq[c]
          /\ Kept.alone => Kept.number = seq[c]
      BY <2>6, <2>7, <3>1
    <3> HIDE DEF Kept
    <3> QED
      BY <2>6, <2>8, <3>1, <3>2, <3>3
  <2>13. CASE Fails(c, k)
    <3>1. seq' = [seq EXCEPT ![c] = seq[c]]
      BY <2>9, <2>13 DEF Fails
    <3>2. frames' = [frames EXCEPT ![c] = [frames[c] EXCEPT ![k] = Lost]]
      BY <1>1, <2>13 DEF Fails
    <3> HIDE DEF Lost
    <3> QED
      BY <2>2, <2>6, <2>8, <3>1, <3>2
  <2>14. Advance(c, k) => g.at \in {"mkdir", "writeFile"}
    BY DEF Advance
  <2> QED
    BY <2>1, <2>10, <2>11, <2>12, <2>13, <2>14
<1> QED
  BY <1>2, <1>3, <1>4, <1>5 DEF FramesNext

\* However pictures come together or fail, the row of one saved alone has the
\* next number and its file the same, and no row is numbered beyond the rows
\* there are: saveFrame (agent-client.service.ts).
THEOREM RowsNumbered == FramesSpec => []RowsAreNumbered
<1>1. FramesInv => RowsAreNumbered
  <2> SUFFICES ASSUME FramesInv, NEW c \in Conns, NEW i \in 1..Len(frames[c]),
                      frames[c][i].at = "saved"
               PROVE  /\ frames[c][i].name <= frames[c][i].number
                      /\ frames[c][i].number <= Others(frames[c], i)
                      /\ frames[c][i].alone => /\ frames[c][i].number = Before(frames[c], i)
                                               /\ frames[c][i].name = frames[c][i].number
    BY DEF RowsAreNumbered
  <2>1. CASE persist
    <3>1. CallOk(frames[c], seq[c], i)
      BY <2>1 DEF FramesInv, InStep
    <3> QED
      BY <3>1 DEF CallOk
  <2>2. CASE ~persist
    <3>1. Len(frames[c]) = 0
      BY <2>2 DEF FramesInv
    <3> QED
      BY <3>1
  <2> QED
    BY <2>1, <2>2
<1> QED
  BY <1>1, FramesInitInv, FramesNextInv, PTL DEF FramesSpec

=============================================================================
