-------------------------- MODULE DirectViewer_proofs --------------------------
(***************************************************************************)
(* Proofs about the pages of agents that are reached directly, for any     *)
(* number of attempts, agents and visits and for queues of any length.     *)
(***************************************************************************)
EXTENDS DirectViewer, SequenceTheorems, TLAPS

-----------------------------------------------------------------------------
(* The session *)

\* A session that was let in streams or is paused, and what the agent heard
\* last, or will hear last, is what its state says.
AuthedIsOpen == s.authed => s.sock = "open" /\ s.state \in {"streaming", "paused"}

LastHeard ==
    IF toAgent = <<>> THEN agentPaused ELSE toAgent[Len(toAgent)] = "pause"

AgentIsTold == s.authed => (LastHeard <=> s.state = "paused")

\* Nothing is said before the session is let in.
QuietBefore == ~s.authed =>
    /\ toAgent = <<>> /\ ~agentPaused
    /\ s.sock = "open" => s.state = "authenticating"

SessionInv ==
    /\ SessionTypeOK /\ shown \in States /\ has \in BOOLEAN
    /\ OneThingPending
    /\ AuthedIsOpen /\ AgentIsTold /\ QuietBefore

\* The last message of a queue stays the last until it is the only one.
LEMMA LastOfTail ==
    ASSUME NEW S, NEW q \in Seq(S), q # <<>>
    PROVE  /\ Tail(q) \in Seq(S) /\ Head(q) = q[1]
           /\ Tail(q) = <<>> => Len(q) = 1
           /\ Tail(q) # <<>> => Tail(q)[Len(Tail(q))] = q[Len(q)]
<1>1. Len(q) \in Nat \ {0}
  BY EmptySeq
<1>2. /\ Head(q) = q[1] /\ Tail(q) \in Seq(S) /\ Len(Tail(q)) = Len(q) - 1
      /\ \A i \in 1..Len(Tail(q)) : Tail(q)[i] = q[i + 1]
  BY HeadTailProperties
<1>3. Tail(q) # <<>> => Len(Tail(q)) \in 1..Len(Tail(q))
  BY <1>2, EmptySeq
<1>4. Tail(q) = <<>> => Len(Tail(q)) = 0
  BY EmptySeq
<1> QED
  BY <1>1, <1>2, <1>3, <1>4

\* What a session waits for.
OnePending(x) ==
    /\ ~x.stopped => \/ x.sock # "none" /\ ~x.timer /\ x.state # "degraded"
                     \/ x.sock = "none" /\ x.timer /\ x.state # "degraded"
                     \/ x.sock = "none" /\ ~x.timer /\ x.state = "degraded"
    /\ x.stopped => x.sock = "none" /\ ~x.timer

\* scheduleReconnect arms the timer, or gives up and says so.
LEMMA ScheduledFacts ==
    ASSUME NEW x \in Sessions, x.sock = "none", ~x.timer, x.state # "degraded"
    PROVE  /\ Scheduled(x) \in Sessions
           /\ OnePending(Scheduled(x))
           /\ Scheduled(x).sock = "none" /\ Scheduled(x).authed = x.authed
           /\ Scheduled(x).stopped = x.stopped
<1>0. x.attempts + 1 \in Nat
  BY DEF Sessions
<1>1. CASE x.stopped
  BY <1>1 DEF Scheduled, OnePending
<1>2. CASE ~x.stopped /\ x.attempts >= MaxAttempts
  <2>1. Scheduled(x) = [x EXCEPT !.attempts = x.attempts + 1, !.state = "degraded"]
    BY <1>2 DEF Scheduled
  <2>2. /\ Scheduled(x) \in Sessions /\ Scheduled(x).state = "degraded"
        /\ Scheduled(x).timer = x.timer /\ Scheduled(x).sock = x.sock
        /\ Scheduled(x).authed = x.authed /\ Scheduled(x).stopped = x.stopped
    BY <1>0, <2>1 DEF Sessions, States
  <2> QED
    BY <1>2, <2>2 DEF OnePending
<1>3. CASE ~x.stopped /\ ~(x.attempts >= MaxAttempts)
  <2>1. Scheduled(x) = [x EXCEPT !.attempts = x.attempts + 1, !.timer = TRUE]
    BY <1>3 DEF Scheduled
  <2>2. /\ Scheduled(x) \in Sessions /\ Scheduled(x).state = x.state
        /\ Scheduled(x).timer = TRUE /\ Scheduled(x).sock = x.sock
        /\ Scheduled(x).authed = x.authed /\ Scheduled(x).stopped = x.stopped
    BY <1>0, <2>1 DEF Sessions, States
  <2> QED
    BY <1>3, <2>2 DEF OnePending
<1> QED
  BY <1>1, <1>2, <1>3

\* connect, whether or not the constructor throws.
LEMMA ConnectingFacts ==
    ASSUME NEW x \in Sessions, x.sock = "none", ~x.stopped, NEW y \in Connecting(x)
    PROVE  /\ y \in Sessions /\ OnePending(y)
           /\ y.sock # "open" /\ y.authed = x.authed /\ ~y.stopped
<1> DEFINE z == [x EXCEPT !.state = "connecting", !.timer = FALSE]
<1>1. /\ z \in Sessions /\ z.sock = "none" /\ ~z.timer /\ z.state = "connecting"
      /\ z.authed = x.authed /\ ~z.stopped
  BY DEF Sessions, States
<1>2. y = [z EXCEPT !.sock = "connecting"] \/ y = Scheduled(z)
  BY DEF Connecting
<1> HIDE DEF z
<1>3. CASE y = [z EXCEPT !.sock = "connecting"]
  BY <1>1, <1>3 DEF Sessions, States, OnePending
<1>4. CASE y = Scheduled(z)
  BY <1>1, <1>4, ScheduledFacts
<1> QED
  BY <1>2, <1>3, <1>4

LEMMA ClosedFacts ==
    ASSUME NEW x \in Sessions
    PROVE  /\ Closed(x) \in Sessions /\ OnePending(Closed(x))
           /\ Closed(x).stopped /\ ~Closed(x).authed
           /\ Closed(x).sock = "none" /\ Closed(x).state = "closed"
BY DEF Closed, Sessions, States, OnePending

\* A session that has just been made, lost or closed keeps the invariant.
LEMMA UnheardSession ==
    ASSUME s' \in Sessions, OnePending(s'), ~s'.authed, s'.sock # "open", Disconnected,
           shown' \in States, has' \in BOOLEAN,
           has' => shown' = s'.state, ~has' => s'.stopped /\ shown' \in {"idle", "closed"}
    PROVE  SessionInv'
<1>1. <<>> \in Seq({"pause", "resume"})
  OBVIOUS
<1> QED
  BY <1>1 DEF SessionInv, SessionTypeOK, OneThingPending, OnePending, AuthedIsOpen, AgentIsTold,
              QuietBefore, Disconnected

\* What the session sets, the page that has it shows.
LEMMA EmittedShows ==
    ASSUME SessionInv, Emitted, has' = has, s' \in Sessions, has \/ s'.stopped
    PROVE  /\ shown' \in States /\ has' \in BOOLEAN
           /\ has' => shown' = s'.state
           /\ ~has' => s'.stopped /\ shown' \in {"idle", "closed"}
BY DEF SessionInv, Emitted, OneThingPending, Sessions

\* A session is awake only on a page that has it.
LEMMA AwakeIsHeld ==
    ASSUME SessionInv
    PROVE  /\ s \in Sessions /\ OnePending(s)
           /\ ~s.stopped => has
           /\ has => shown = s.state
           /\ s.authed => ~s.stopped
BY DEF SessionInv, SessionTypeOK, OneThingPending, OnePending, AuthedIsOpen

\* pause and resume: the state and the message change together.
LEMMA TellAgent ==
    ASSUME SessionInv, has, NEW m \in {"pause", "resume"}, NEW st \in {"streaming", "paused"},
           s.state \in {"streaming", "paused"},
           m = "pause" <=> st = "paused",
           s' = [s EXCEPT !.state = st], Sending(m), UNCHANGED <<agentPaused, has>>, Emitted
    PROVE  SessionInv'
<1>1. s \in Sessions /\ toAgent \in Seq({"pause", "resume"}) /\ agentPaused \in BOOLEAN
  BY DEF SessionInv, SessionTypeOK
<1>2. /\ s' \in Sessions /\ s'.state = st /\ s'.sock = s.sock /\ s'.authed = s.authed
      /\ s'.stopped = s.stopped /\ s'.timer = s.timer
  BY <1>1 DEF Sessions, States
<1>3. s.sock = "open" => s.authed
  BY DEF SessionInv, QuietBefore
<1>4. toAgent' = IF s.authed THEN Append(toAgent, m) ELSE toAgent
  BY <1>3 DEF Sending, SessionInv, AuthedIsOpen
<1>5. toAgent' \in Seq({"pause", "resume"})
  BY <1>1, <1>4
<1>6. s.authed => toAgent' # <<>> /\ toAgent'[Len(toAgent')] = m
  BY <1>1, <1>4
<1>7. shown' = st /\ shown' \in States
  BY <1>2 DEF Emitted, States
<1>8. SessionTypeOK' /\ shown' \in States /\ has' \in BOOLEAN
  BY <1>1, <1>2, <1>5, <1>7 DEF SessionTypeOK, SessionInv
<1>9. OneThingPending'
  BY <1>2, <1>7 DEF SessionInv, OneThingPending
<1>10. AuthedIsOpen' /\ QuietBefore'
  BY <1>2, <1>3, <1>4 DEF SessionInv, AuthedIsOpen, QuietBefore
<1>11. AgentIsTold'
  BY <1>2, <1>6 DEF AgentIsTold, LastHeard
<1> QED
  BY <1>8, <1>9, <1>10, <1>11 DEF SessionInv

LEMMA SessionInit == Init => SessionInv
<1> SUFFICES ASSUME Init PROVE SessionInv
  OBVIOUS
<1>1. s \in Sessions /\ OnePending(s) /\ s.stopped /\ ~s.authed /\ s.sock = "none"
  BY DEF Init, NewSession, Sessions, States, OnePending
<1>2. <<>> \in Seq({"pause", "resume"})
  OBVIOUS
<1> QED
  BY <1>1, <1>2 DEF Init, SessionInv, SessionTypeOK, OneThingPending, OnePending,
                    AuthedIsOpen, AgentIsTold, QuietBefore, States

LEMMA ConnectionNext ==
    ASSUME SessionInv, Connection, Emitted, UNCHANGED has
    PROVE  SessionInv'
<1>1. s \in Sessions /\ OnePending(s) /\ (~s.stopped => has) /\ (has => shown = s.state)
  BY AwakeIsHeld
<1>2. CASE Retry
  <2>1. ~s.stopped /\ s.sock = "none" /\ s' \in Connecting(s) /\ ~s.authed
    BY <1>1, <1>2 DEF Retry, OnePending, SessionInv, AuthedIsOpen
  <2>2. s' \in Sessions /\ OnePending(s') /\ s'.sock # "open" /\ ~s'.authed
    BY <1>1, <2>1, ConnectingFacts
  <2>3. Disconnected
    BY <1>2, <2>1 DEF Retry, SessionInv, QuietBefore, Disconnected
  <2> QED
    BY <1>1, <2>1, <2>2, <2>3, EmittedShows, UnheardSession
<1>3. CASE Opens
  <2>1. ~s.stopped /\ ~s.timer /\ ~s.authed
    BY <1>1, <1>3 DEF Opens, OnePending, SessionInv, AuthedIsOpen
  <2>2. /\ s' \in Sessions /\ s'.sock = "open" /\ s'.state = "authenticating"
        /\ ~s'.timer /\ ~s'.authed /\ ~s'.stopped
    BY <1>1, <1>3, <2>1 DEF Opens, Sessions, States
  <2>3. toAgent' = <<>> /\ agentPaused' = FALSE /\ <<>> \in Seq({"pause", "resume"})
    BY <1>3 DEF Opens, Disconnected
  <2>4. /\ shown' \in States /\ has' \in BOOLEAN
        /\ has' => shown' = s'.state
        /\ ~has' => s'.stopped /\ shown' \in {"idle", "closed"}
    BY <1>1, <2>1, <2>2, EmittedShows
  <2> QED
    BY <2>2, <2>3, <2>4 DEF SessionInv, SessionTypeOK, OneThingPending, AuthedIsOpen,
                            AgentIsTold, QuietBefore
<1>4. CASE Lost
  <2> DEFINE x == [s EXCEPT !.sock = "none", !.authed = FALSE]
  <2>1. ~s.stopped /\ ~s.timer /\ s.state # "degraded"
    BY <1>1, <1>4 DEF Lost, OnePending
  <2>2. /\ x \in Sessions /\ x.sock = "none" /\ ~x.timer /\ x.state # "degraded"
        /\ ~x.authed /\ ~x.stopped
    BY <1>1, <2>1 DEF Sessions, States
  <2>3. s' = Scheduled(x) /\ Disconnected
    BY <1>4 DEF Lost
  <2> HIDE DEF x
  <2>4. s' \in Sessions /\ OnePending(s') /\ s'.sock = "none" /\ ~s'.authed
    BY <2>2, <2>3, ScheduledFacts
  <2> QED
    BY <1>1, <2>1, <2>3, <2>4, EmittedShows, UnheardSession
<1>5. CASE AuthOk
  <2>1. ~s.stopped /\ ~s.timer /\ toAgent = <<>> /\ ~agentPaused
    BY <1>1, <1>5 DEF AuthOk, OnePending, SessionInv, QuietBefore
  <2>2. /\ s' \in Sessions /\ s'.sock = "open" /\ s'.state = "streaming"
        /\ ~s'.timer /\ s'.authed /\ ~s'.stopped
    BY <1>1, <1>5, <2>1 DEF AuthOk, Sessions, States
  <2>3. UNCHANGED <<toAgent, agentPaused>>
    BY <1>5 DEF AuthOk
  <2>4. /\ shown' \in States /\ has' \in BOOLEAN
        /\ has' => shown' = s'.state
        /\ ~has' => s'.stopped /\ shown' \in {"idle", "closed"}
    BY <1>1, <2>1, <2>2, EmittedShows
  <2> QED
    BY <2>1, <2>2, <2>3, <2>4
       DEF SessionInv, SessionTypeOK, OneThingPending, AuthedIsOpen, AgentIsTold, QuietBefore,
           LastHeard
<1>6. CASE AuthError
  <2>1. s' = Closed(s) /\ Disconnected
    BY <1>6 DEF AuthError
  <2> QED
    BY <1>1, <2>1, ClosedFacts, EmittedShows, UnheardSession
<1>7. CASE AgentHears
  <2>1. toAgent \in Seq({"pause", "resume"}) /\ toAgent # <<>>
    BY <1>7 DEF AgentHears, SessionInv, SessionTypeOK
  <2>2. /\ Tail(toAgent) \in Seq({"pause", "resume"})
        /\ Head(toAgent) = toAgent[1]
        /\ Tail(toAgent) = <<>> => Len(toAgent) = 1
        /\ Tail(toAgent) # <<>> => Tail(toAgent)[Len(Tail(toAgent))] = toAgent[Len(toAgent)]
    BY <2>1, LastOfTail
  <2>3. toAgent' = Tail(toAgent) /\ agentPaused' = (Head(toAgent) = "pause") /\ UNCHANGED s
    BY <1>7 DEF AgentHears
  <2>4. s.authed
    BY <2>1 DEF SessionInv, QuietBefore
  <2>5. shown' = shown
    BY <1>1, <2>3 DEF Emitted
  <2>6. SessionTypeOK' /\ shown' \in States /\ has' \in BOOLEAN
    BY <2>2, <2>3, <2>5 DEF SessionInv, SessionTypeOK
  <2>7. AgentIsTold'
    BY <2>1, <2>2, <2>3, <2>4 DEF SessionInv, AgentIsTold, LastHeard
  <2> QED
    BY <2>3, <2>4, <2>5, <2>6, <2>7 DEF SessionInv, OneThingPending, AuthedIsOpen, QuietBefore
<1> QED
  BY <1>2, <1>3, <1>4, <1>5, <1>6, <1>7 DEF Connection

LEMMA SessionNext == SessionInv /\ [Next]_vars => SessionInv'
<1> SUFFICES ASSUME SessionInv, [Next]_vars PROVE SessionInv'
  OBVIOUS
<1>1. s \in Sessions /\ OnePending(s) /\ (~s.stopped => has) /\ (has => shown = s.state)
  BY AwakeIsHeld
<1>2. CASE UNCHANGED <<sessionVars, pageVars>>
  BY <1>2 DEF sessionVars, pageVars, SessionInv, SessionTypeOK, OneThingPending, AuthedIsOpen,
              AgentIsTold, LastHeard, QuietBefore
<1>3. CASE HandleSubmit
  <2>1. /\ NewSession \in Sessions /\ NewSession.sock = "none"
        /\ ~NewSession.stopped /\ ~NewSession.authed
    BY DEF NewSession, Sessions, States
  <2>2. has' = TRUE /\ s' \in Connecting(NewSession) /\ Disconnected /\ shown' = s'.state
    BY <1>3 DEF HandleSubmit, StartSession
  <2>3. s' \in Sessions /\ OnePending(s') /\ ~s'.authed /\ s'.sock # "open"
    BY <2>1, <2>2, ConnectingFacts
  <2>4. shown' \in States
    BY <2>2, <2>3 DEF Sessions
  <2> QED
    BY <2>2, <2>3, <2>4, UnheardSession
<1>4. CASE HandleDisconnect
  <2>1. CASE has
    <3>1. has' = FALSE /\ shown' = "closed" /\ s' = Closed(s) /\ Disconnected
      BY <1>4, <2>1 DEF HandleDisconnect
    <3> QED
      BY <1>1, <3>1, ClosedFacts, UnheardSession DEF States
  <2>2. CASE ~has
    <3>1. has' = FALSE /\ shown' = "idle" /\ UNCHANGED sessionVars
      BY <1>4, <2>2 DEF HandleDisconnect
    <3> QED
      BY <2>2, <3>1 DEF sessionVars, SessionInv, SessionTypeOK, OneThingPending, AuthedIsOpen,
                        AgentIsTold, LastHeard, QuietBefore, States
  <2> QED
    BY <2>1, <2>2
<1>5. CASE GoBack
  <2>1. has' = FALSE /\ shown' = "idle" /\ s' = (IF has THEN Closed(s) ELSE s) /\ Disconnected
    BY <1>5 DEF GoBack
  <2>2. s' \in Sessions /\ OnePending(s') /\ ~s'.authed /\ s'.sock = "none" /\ s'.stopped
    BY <1>1, <2>1, ClosedFacts DEF SessionInv, OnePending, AuthedIsOpen
  <2> QED
    BY <2>1, <2>2, UnheardSession DEF States
<1>6. CASE PauseClicked /\ UNCHANGED has
  BY <1>1, <1>6, TellAgent DEF PauseClicked, Pause
<1>7. CASE ResumeClicked /\ UNCHANGED has
  BY <1>1, <1>7, TellAgent DEF ResumeClicked, Resume
<1>8. CASE Connection /\ Emitted /\ UNCHANGED has
  BY <1>8, ConnectionNext
<1>9. CASE OpenPage
  BY <1>2, <1>9 DEF OpenPage
<1>10. CASE UNCHANGED vars
  BY <1>2, <1>10 DEF vars
<1> QED
  BY <1>2, <1>3, <1>4, <1>5, <1>6, <1>7, <1>8, <1>9, <1>10 DEF Next, Controls

LEMMA SessionAlways == Spec => []SessionInv
BY SessionInit, SessionNext, PTL DEF Spec

\* Whatever connects, fails, times out or is clicked, a session waits for its
\* socket or its timer, has told the page that it gave up, or is closed with
\* nothing left behind: agent-ws.ts, scheduleReconnect and close.
THEOREM OnePendingAlways == Spec => []OneThingPending
<1>1. SessionInv => OneThingPending
  BY DEF SessionInv
<1> QED
  BY <1>1, SessionAlways, PTL

\* Once nothing is on its way, the agent is paused exactly when the page says
\* so, although states are set before messages arrive and both may be lost.
THEOREM PausesAgree == Spec => []PauseAgrees
<1>1. SessionInv => PauseAgrees
  BY DEF SessionInv, PauseAgrees, AgentIsTold, LastHeard, AuthedIsOpen, OneThingPending,
         SessionTypeOK
<1> QED
  BY <1>1, SessionAlways, PTL

-----------------------------------------------------------------------------
(* The player *)

PlayerInv == PlayerTypeOK /\ FragmentsAreKept

\* What leaves the head of the queue for the buffer keeps its place.
LEMMA MoveHead ==
    ASSUME NEW a \in Seq(Nat), NEW q \in Seq(Nat), q # <<>>
    PROVE  /\ Append(a, Head(q)) \in Seq(Nat) /\ Tail(q) \in Seq(Nat)
           /\ Append(a, Head(q)) \o Tail(q) = a \o q
<1> DEFINE b == Append(a, Head(q))
<1>1. /\ Head(q) = q[1] /\ Head(q) \in Nat /\ Tail(q) \in Seq(Nat)
      /\ Len(Tail(q)) = Len(q) - 1
      /\ \A i \in 1..Len(Tail(q)) : Tail(q)[i] = q[i + 1]
  BY HeadTailProperties
<1>2. /\ b \in Seq(Nat) /\ Len(b) = Len(a) + 1
      /\ \A i \in 1..Len(a) : b[i] = a[i]
      /\ b[Len(a) + 1] = Head(q)
  BY <1>1, AppendProperties
<1>3. Len(q) \in Nat \ {0} /\ Len(a) \in Nat
  BY EmptySeq, LenProperties
<1> HIDE DEF b
<1>4. /\ b \o Tail(q) \in Seq(Nat)
      /\ Len(b \o Tail(q)) = Len(b) + Len(Tail(q))
      /\ \A i \in 1..(Len(b) + Len(Tail(q))) :
            (b \o Tail(q))[i] = IF i <= Len(b) THEN b[i] ELSE Tail(q)[i - Len(b)]
  BY <1>1, <1>2, ConcatProperties
<1>5. /\ a \o q \in Seq(Nat)
      /\ Len(a \o q) = Len(a) + Len(q)
      /\ \A i \in 1..(Len(a) + Len(q)) :
            (a \o q)[i] = IF i <= Len(a) THEN a[i] ELSE q[i - Len(a)]
  BY ConcatProperties
<1>6. Len(b \o Tail(q)) = Len(a \o q)
  BY <1>1, <1>2, <1>3, <1>4, <1>5
<1>7. ASSUME NEW i \in 1..Len(b \o Tail(q))
      PROVE  (b \o Tail(q))[i] = (a \o q)[i]
  <2>0. i <= Len(a) \/ i = Len(a) + 1 \/ i > Len(a) + 1
    BY <1>3
  <2>1. CASE i <= Len(a)
    BY <1>2, <1>3, <1>4, <1>5, <1>6, <2>1
  <2>2. CASE i = Len(a) + 1
    BY <1>1, <1>2, <1>3, <1>4, <1>5, <1>6, <2>2
  <2>3. CASE i > Len(a) + 1
    <3>1. i - Len(b) \in 1..Len(Tail(q)) /\ (i - Len(b)) + 1 = i - Len(a)
      BY <1>1, <1>2, <1>3, <1>5, <1>6, <2>3
    <3> QED
      BY <1>1, <1>2, <1>3, <1>4, <1>5, <1>6, <2>3, <3>1
  <2> QED
    BY <2>0, <2>1, <2>2, <2>3
<1>8. b \o Tail(q) = a \o q
  BY <1>4, <1>5, <1>6, <1>7, SeqEqual
<1> QED
  BY <1>1, <1>2, <1>8 DEF b

\* The fragment that comes next takes the next number.
LEMMA NextNumber ==
    ASSUME NEW a \in Seq(Nat), NEW q \in Seq(Nat), NEW n \in Nat,
           a \o q = [i \in 1..n |-> i]
    PROVE  a \o Append(q, n + 1) = [i \in 1..(n + 1) |-> i]
<1> DEFINE r == Append(q, n + 1)
<1>1. /\ r \in Seq(Nat) /\ Len(r) = Len(q) + 1 /\ r[Len(q) + 1] = n + 1
      /\ \A i \in 1..Len(q) : r[i] = q[i]
  BY AppendProperties
<1>2. Len(a) \in Nat /\ Len(q) \in Nat
  BY LenProperties
<1>3. /\ Len(a \o q) = Len(a) + Len(q)
      /\ \A i \in 1..(Len(a) + Len(q)) :
            (a \o q)[i] = IF i <= Len(a) THEN a[i] ELSE q[i - Len(a)]
  BY ConcatProperties
<1>4. Len(a) + Len(q) = n
  BY <1>2, <1>3
<1> HIDE DEF r
<1>5. /\ a \o r \in Seq(Nat) /\ Len(a \o r) = n + 1
      /\ \A i \in 1..(n + 1) :
            (a \o r)[i] = IF i <= Len(a) THEN a[i] ELSE r[i - Len(a)]
  BY <1>1, <1>2, <1>4, ConcatProperties
<1>6. ASSUME NEW i \in 1..(n + 1)
      PROVE  (a \o r)[i] = i
  <2>1. i \in Nat /\ (i <= n \/ i = n + 1)
    OBVIOUS
  <2>2. CASE i <= n
    <3>1. i > Len(a) => i - Len(a) \in 1..Len(q)
      BY <1>2, <1>4, <2>1, <2>2
    <3>2. (a \o q)[i] = i
      BY <2>1, <2>2
    <3>3. (a \o q)[i] = IF i <= Len(a) THEN a[i] ELSE q[i - Len(a)]
      BY <1>3, <1>4, <2>1, <2>2
    <3>4. (a \o r)[i] = IF i <= Len(a) THEN a[i] ELSE r[i - Len(a)]
      BY <1>5
    <3>5. i > Len(a) => r[i - Len(a)] = q[i - Len(a)]
      BY <1>1, <3>1
    <3>6. i <= Len(a) \/ i > Len(a)
      BY <1>2, <2>1
    <3> QED
      BY <3>2, <3>3, <3>4, <3>5, <3>6
  <2>3. CASE i = n + 1
    <3>1. i - Len(a) = Len(q) + 1 /\ ~(i <= Len(a))
      BY <1>2, <1>4, <2>3
    <3> QED
      BY <1>1, <1>5, <2>3, <3>1
  <2> QED
    BY <2>1, <2>2, <2>3
<1>7. a \o r \in [1..(n + 1) -> Nat]
  BY <1>5, LenProperties
<1>8. a \o r = [i \in 1..(n + 1) |-> i]
  BY <1>6, <1>7
<1> QED
  BY <1>8 DEF r

LEMMA FlushKeeps ==
    ASSUME appended \in Seq(Nat), NEW q \in Seq(Nat), q # <<>>, torn \in BOOLEAN, Flush(q)
    PROVE  /\ updating' \in BOOLEAN /\ torn' \in BOOLEAN
           /\ queue' \in Seq(Nat) /\ appended' \in Seq(Nat)
           /\ ~torn' => ~torn /\ appended' \o queue' = appended \o q
<1>1. CASE updating' = TRUE /\ queue' = q /\ UNCHANGED <<appended, torn>>
  BY <1>1
<1>2. CASE /\ updating' = TRUE /\ queue' = Tail(q)
           /\ appended' = Append(appended, Head(q)) /\ UNCHANGED torn
  BY <1>2, MoveHead
<1>3. CASE updating' = FALSE /\ queue' = Tail(q) /\ torn' = TRUE /\ UNCHANGED appended
  BY <1>3, HeadTailProperties
<1> QED
  BY <1>1, <1>2, <1>3 DEF Flush

LEMMA PlayerFresh ==
    ASSUME NEW next \in {"none", "opening"}, Fresh(next)
    PROVE  PlayerInv'
<1>1. <<>> \in Seq(Nat) /\ <<>> \o <<>> = <<>> /\ <<>> = [i \in 1..0 |-> i]
  OBVIOUS
<1> QED
  BY <1>1 DEF Fresh, PlayerInv, PlayerTypeOK, FragmentsAreKept

LEMMA PlayerNext == PlayerInv /\ [Next]_vars => PlayerInv'
<1> SUFFICES ASSUME PlayerInv, [Next]_vars PROVE PlayerInv'
  OBVIOUS
<1> USE DEF PlayerInv, PlayerTypeOK, FragmentsAreKept
<1>1. CASE UNCHANGED playerVars
  BY <1>1 DEF playerVars
<1>2. CASE SetupMse \/ EndMse
  BY <1>2, PlayerFresh DEF SetupMse, EndMse
<1>3. CASE SourceOpens
  BY <1>3 DEF SourceOpens
<1>4. CASE Fragment
  <2> DEFINE q == Append(queue, received + 1)
  <2>1. q \in Seq(Nat) /\ q # <<>>
    BY AppendProperties
  <2>2. received' = received + 1 /\ received' \in Nat /\ UNCHANGED source
    BY <1>4 DEF Fragment
  <2>3. \/ Flush(q)
        \/ queue' = q /\ UNCHANGED <<updating, appended, torn>>
    BY <1>4, <2>2 DEF Fragment
  <2>4. ~torn => appended \o q = [i \in 1..received' |-> i]
    BY <2>2, NextNumber
  <2> HIDE DEF q
  <2> QED
    BY <2>1, <2>2, <2>3, <2>4, FlushKeeps
<1>5. CASE UpdateEnds
  BY <1>5, FlushKeeps DEF UpdateEnds
<1>6. CASE OpenPage \/ HandleSubmit \/ HandleDisconnect \/ GoBack
  BY <1>1, <1>2, <1>6 DEF OpenPage, HandleSubmit, StartSession, HandleDisconnect, GoBack
<1>7. CASE Streamed
  BY <1>2, <1>4, <1>7 DEF Streamed
<1>8. CASE UNCHANGED vars
  BY <1>1, <1>8 DEF vars
<1> HIDE DEF PlayerInv
<1> QED
  BY <1>1, <1>3, <1>5, <1>6, <1>7, <1>8 DEF Next

\* The queue in front of the SourceBuffer neither loses nor repeats nor
\* reorders a fragment, and keeps none over a reinit, unless appendBuffer
\* throws: useMseViewer.ts, flushQueue, appendFrame and setupMse.
THEOREM FragmentsKept == Spec => []FragmentsAreKept
<1>1. Init => PlayerInv
  <2> SUFFICES ASSUME Off PROVE PlayerInv
    BY DEF Init
  <2>1. <<>> \in Seq(Nat) /\ <<>> \o <<>> = <<>> /\ <<>> = [i \in 1..0 |-> i]
    OBVIOUS
  <2> QED
    BY <2>1 DEF Off, PlayerInv, PlayerTypeOK, FragmentsAreKept
<1>2. PlayerInv => FragmentsAreKept
  BY DEF PlayerInv
<1> QED
  BY <1>1, <1>2, PlayerNext, PTL DEF Spec

-----------------------------------------------------------------------------
(* The history *)

\* Who asked from the directory can be answered there only.
LiveIsHere ==
    /\ \A f \in fetching : f[2] => route = None
    /\ \A a \in Agents : prompt = <<a, TRUE>> => route = None

VisitsCounted == \A a \in Agents : visits[a] <= lastVisit

HistoryInv == DirectoryTypeOK /\ HistoryIsRecent /\ LiveIsHere /\ VisitsCounted

\* What comes before what in r does so in q.
InOrder(r, q) == \A i, j \in 1..Len(r) : i < j =>
    \E k, l \in 1..Len(q) : k < l /\ r[i] = q[k] /\ r[j] = q[l]

\* The row of an agent goes, the others stay in order.
LEMMA RowGoes ==
    ASSUME NEW q \in Seq(Agents), IsInjective(q), NEW a
    PROVE  /\ RemoveFirst(q, a) \in Seq(Agents)
           /\ Len(RemoveFirst(q, a)) <= Len(q)
           /\ \A i \in 1..Len(RemoveFirst(q, a)) : RemoveFirst(q, a)[i] # a
           /\ InOrder(RemoveFirst(q, a), q)
<1>1. Len(q) \in Nat /\ DOMAIN q = 1..Len(q)
  BY LenProperties
<1>2. CASE \A i \in 1..Len(q) : q[i] # a
  <2>1. RemoveFirst(q, a) = q
    BY <1>2 DEF RemoveFirst
  <2> QED
    BY <1>1, <1>2, <2>1 DEF InOrder
<1>3. ASSUME NEW k \in 1..Len(q), q[k] = a
      PROVE  /\ RemoveFirst(q, a) \in Seq(Agents)
             /\ Len(RemoveFirst(q, a)) <= Len(q)
             /\ \A i \in 1..Len(RemoveFirst(q, a)) : RemoveFirst(q, a)[i] # a
             /\ InOrder(RemoveFirst(q, a), q)
  <2> DEFINE u == SubSeq(q, 1, k - 1)
             v == SubSeq(q, k + 1, Len(q))
             r == u \o v
  <2>1. {i \in 1..Len(q) : q[i] = a} = {k}
    BY <1>1, <1>3 DEF IsInjective
  <2>2. Min({k}) = k
    BY DEF Min
  <2>3. RemoveFirst(q, a) = r
    BY <1>3, <2>1, <2>2 DEF RemoveFirst, RemoveAt, SelectInSeq
  <2>4. /\ u \in Seq(Agents) /\ Len(u) = k - 1
        /\ \A i \in 1..(k - 1) : u[i] = q[i]
    <3>1. \A i \in 1..(k - 1) : q[i] \in Agents
      BY <1>1, ElementOfSeq
    <3> QED
      BY <1>1, <3>1, SubSeqProperties
  <2>5. /\ v \in Seq(Agents) /\ Len(v) = Len(q) - k
        /\ \A i \in 1..(Len(q) - k) : v[i] = q[k + i]
    <3>1. \A i \in (k + 1)..Len(q) : q[i] \in Agents
      BY <1>1, ElementOfSeq
    <3>2. /\ v \in Seq(Agents)
          /\ Len(v) = IF k + 1 <= Len(q) THEN Len(q) - (k + 1) + 1 ELSE 0
          /\ \A i \in 1..(Len(q) - (k + 1) + 1) : v[i] = q[(k + 1) + i - 1]
      BY <1>1, <3>1, SubSeqProperties
    <3> DEFINE n == Len(q)
    <3>n. n \in Int /\ k \in Int /\ k <= n /\ n = Len(q)
      BY <1>1
    <3> HIDE DEF n
    <3>3. n - (k + 1) + 1 = n - k /\ \A i \in Int : (k + 1) + i - 1 = k + i
      BY <3>n
    <3>4. Len(v) = n - k
      <4>1. CASE k + 1 <= n
        BY <3>n, <3>2, <3>3, <4>1
      <4>2. CASE ~(k + 1 <= n)
        <5>1. n = k /\ n - k = 0
          BY <3>n, <4>2
        <5> QED
          BY <3>n, <3>2, <4>2, <5>1
      <4> QED
        BY <4>1, <4>2
    <3>5. ASSUME NEW i \in 1..(Len(q) - k)
          PROVE  v[i] = q[k + i]
      BY <3>n, <3>2, <3>3
    <3> QED
      BY <3>n, <3>2, <3>4, <3>5
  <2> HIDE DEF u, v
  <2>6. /\ r \in Seq(Agents) /\ Len(r) = Len(q) - 1
        /\ \A i \in 1..(Len(q) - 1) :
              r[i] = IF i <= k - 1 THEN u[i] ELSE v[i - (k - 1)]
    <3>1. Len(u) + Len(v) = Len(q) - 1
      BY <1>1, <2>4, <2>5
    <3>2. /\ r \in Seq(Agents) /\ Len(r) = Len(u) + Len(v)
          /\ \A i \in 1..(Len(u) + Len(v)) :
                r[i] = IF i <= Len(u) THEN u[i] ELSE v[i - Len(u)]
      BY <2>4, <2>5, ConcatProperties
    <3> QED
      BY <2>4, <3>1, <3>2
  <2> HIDE DEF r
  <2>7. \A i \in 1..(Len(q) - 1) : r[i] = IF i < k THEN q[i] ELSE q[i + 1]
    <3> SUFFICES ASSUME NEW i \in 1..(Len(q) - 1)
                 PROVE  r[i] = IF i < k THEN q[i] ELSE q[i + 1]
      OBVIOUS
    <3>1. CASE i < k
      BY <1>1, <2>4, <2>6, <3>1
    <3>2. CASE ~(i < k)
      <4>1. i - (k - 1) \in 1..(Len(q) - k) /\ k + (i - (k - 1)) = i + 1 /\ ~(i <= k - 1)
        BY <1>1, <3>2
      <4> QED
        BY <2>5, <2>6, <3>2, <4>1
    <3> QED
      BY <3>1, <3>2
  <2>8. \A i \in 1..(Len(q) - 1) : r[i] # a
    BY <1>1, <1>3, <2>7 DEF IsInjective
  <2>9. InOrder(r, q)
    <3> SUFFICES ASSUME NEW i \in 1..Len(r), NEW j \in 1..Len(r), i < j
                 PROVE  \E x, y \in 1..Len(q) : x < y /\ r[i] = q[x] /\ r[j] = q[y]
      BY DEF InOrder
    <3> DEFINE x == IF i < k THEN i ELSE i + 1
               y == IF j < k THEN j ELSE j + 1
    <3>1. x \in 1..Len(q) /\ y \in 1..Len(q) /\ x < y
      BY <1>1, <2>6
    <3>2. r[i] = q[x] /\ r[j] = q[y]
      BY <1>1, <2>6, <2>7
    <3> HIDE DEF x, y
    <3> QED
      BY <3>1, <3>2
  <2> QED
    BY <1>1, <2>3, <2>6, <2>8, <2>9
<1> QED
  BY <1>2, <1>3

\* The agent that is visited is put first, the others keep their order.
LEMMA VisitedIsFirst ==
    ASSUME entries \in Seq(Agents), IsInjective(entries), NEW a \in Agents
    PROVE  /\ AddEntry(a) \in Seq(Agents)
           /\ Len(AddEntry(a)) \in 1..MaxEntries
           /\ AddEntry(a)[1] = a
           /\ \A i \in 2..Len(AddEntry(a)) : AddEntry(a)[i] # a
           /\ \A i, j \in 2..Len(AddEntry(a)) : i < j =>
                 \E k, l \in 1..Len(entries) :
                    k < l /\ AddEntry(a)[i] = entries[k] /\ AddEntry(a)[j] = entries[l]
<1> DEFINE r == RemoveFirst(entries, a)
           next == <<a>> \o r
           n == IF Len(next) < MaxEntries THEN Len(next) ELSE MaxEntries
           e == SubSeq(next, 1, n)
<1>1. /\ r \in Seq(Agents) /\ InOrder(r, entries)
      /\ \A i \in 1..Len(r) : r[i] # a
  BY RowGoes
<1> HIDE DEF r
<1>2. Len(r) \in Nat /\ Len(entries) \in Nat
  BY <1>1, LenProperties
<1>3. <<a>> \in Seq(Agents) /\ Len(<<a>>) = 1 /\ <<a>>[1] = a
  OBVIOUS
<1>4. /\ next \in Seq(Agents) /\ Len(next) = Len(r) + 1
      /\ \A i \in 1..(Len(r) + 1) : next[i] = IF i <= 1 THEN <<a>>[i] ELSE r[i - 1]
  BY <1>1, <1>2, <1>3, ConcatProperties
<1>5. next[1] = a /\ \A i \in 2..(Len(r) + 1) : next[i] = r[i - 1]
  BY <1>2, <1>3, <1>4
<1> HIDE DEF next
<1>6. n \in 1..MaxEntries /\ n <= Len(r) + 1
  BY <1>2, <1>4, MaxEntriesAssumption
<1> HIDE DEF n
<1>7. e \in Seq(Agents) /\ Len(e) = n /\ \A i \in 1..n : e[i] = next[i]
  <2>1. \A i \in 1..n : next[i] \in Agents
    BY <1>2, <1>4, <1>6, ElementOfSeq
  <2> QED
    BY <1>6, <2>1, SubSeqProperties
<1>8. AddEntry(a) = e
  BY DEF AddEntry, e, n, next, r
<1> HIDE DEF e
<1>9. e[1] = a /\ \A i \in 2..n : e[i] = r[i - 1] /\ i - 1 \in 1..Len(r)
  BY <1>2, <1>5, <1>6, <1>7
<1>10. ASSUME NEW i \in 2..n, NEW j \in 2..n, i < j
       PROVE  \E k, l \in 1..Len(entries) : k < l /\ e[i] = entries[k] /\ e[j] = entries[l]
  <2>1. i - 1 \in 1..Len(r) /\ j - 1 \in 1..Len(r) /\ i - 1 < j - 1
    BY <1>2, <1>6, <1>9, <1>10
  <2>2. PICK k, l \in 1..Len(entries) : k < l /\ r[i - 1] = entries[k] /\ r[j - 1] = entries[l]
    BY <1>1, <2>1 DEF InOrder
  <2> QED
    BY <1>9, <2>2
<1>11. ASSUME NEW i \in 2..n
       PROVE  e[i] # a
  BY <1>1, <1>9
<1>12. Len(e) = n
  BY <1>7
<1>13. /\ e \in Seq(Agents) /\ Len(e) \in 1..MaxEntries /\ e[1] = a
       /\ \A i \in 2..Len(e) : e[i] # a
  BY <1>6, <1>7, <1>9, <1>11, <1>12
<1>14. \A i, j \in 2..Len(e) : i < j =>
          \E k, l \in 1..Len(entries) : k < l /\ e[i] = entries[k] /\ e[j] = entries[l]
  BY <1>10, <1>12
<1> QED
  BY <1>8, <1>13, <1>14

LEMMA HistoryInit == Init => HistoryInv
<1> SUFFICES ASSUME DirectoryInit PROVE HistoryInv
  BY DEF Init
<1>1. <<>> \in Seq(Agents) /\ Len(<<>>) = 0 /\ DOMAIN <<>> = {}
  OBVIOUS
<1>2. [a \in Agents |-> 0] \in [Agents -> Nat] /\ MaxEntries \in Nat
  BY MaxEntriesAssumption
<1> QED
  <2>1. DirectoryTypeOK
    BY <1>1, <1>2 DEF DirectoryInit, DirectoryTypeOK
  <2>2. HistoryIsRecent
    BY <1>1, <1>2, MaxEntriesAssumption DEF DirectoryInit, HistoryIsRecent, IsInjective
  <2>3. LiveIsHere
    BY DEF DirectoryInit, LiveIsHere
  <2>4. VisitsCounted
    BY DEF DirectoryInit, VisitsCounted
  <2> QED
    BY <2>1, <2>2, <2>3, <2>4 DEF HistoryInv

\* A row is removed from what is shown, which is what is stored.
LEMMA RemoveKeeps ==
    ASSUME HistoryInv, NEW a \in Agents, RemoveEntry(a)
    PROVE  HistoryInv'
<1>1. /\ entries \in Seq(Agents) /\ entries = stored /\ IsInjective(stored)
      /\ Len(stored) <= MaxEntries /\ MaxEntries \in Nat /\ Len(stored) \in Nat
      /\ route = None
  BY MaxEntriesAssumption, LenProperties
     DEF RemoveEntry, HistoryInv, DirectoryTypeOK, HistoryIsRecent
<1>2. /\ stored' = RemoveFirst(stored, a) /\ entries' = stored' /\ updated' = TRUE
      /\ UNCHANGED <<route, fetching, prompt, visits, lastVisit, forgotten>>
  BY <1>1 DEF RemoveEntry
<1>3. /\ stored' \in Seq(Agents) /\ Len(stored') <= Len(stored) /\ InOrder(stored', stored)
  BY <1>1, <1>2, RowGoes
<1>4. DOMAIN stored' = 1..Len(stored') /\ DOMAIN stored = 1..Len(stored) /\ Len(stored') \in Nat
  BY <1>1, <1>3, LenProperties
<1>5. IsInjective(stored')
  <2>1. ASSUME NEW i \in 1..Len(stored'), NEW j \in 1..Len(stored'), i < j
        PROVE  stored'[i] # stored'[j]
    <3>1. PICK k, l \in 1..Len(stored) :
              k < l /\ stored'[i] = stored[k] /\ stored'[j] = stored[l]
      BY <1>3, <2>1 DEF InOrder
    <3> QED
      BY <1>1, <1>4, <3>1 DEF IsInjective
  <2>2. \A i, j \in 1..Len(stored') : i < j \/ j < i \/ i = j
    BY <1>4
  <2> QED
    BY <1>4, <2>1, <2>2 DEF IsInjective
<1>6. ASSUME ~forgotten', NEW i \in 1..Len(stored'), NEW j \in 1..Len(stored'), i < j
      PROVE  visits'[stored'[i]] > visits'[stored'[j]]
  <2>1. PICK k, l \in 1..Len(stored) :
            k < l /\ stored'[i] = stored[k] /\ stored'[j] = stored[l]
    BY <1>3, <1>6 DEF InOrder
  <2> QED
    BY <1>2, <1>4, <1>6, <2>1 DEF HistoryInv, HistoryIsRecent
<1>7. HistoryIsRecent'
  BY <1>1, <1>2, <1>3, <1>4, <1>5, <1>6 DEF HistoryIsRecent
<1> QED
  BY <1>2, <1>3, <1>7 DEF HistoryInv, DirectoryTypeOK, LiveIsHere, VisitsCounted

\* A visit is remembered at the head, or is forgotten.
LEMMA SubmitKeeps ==
    ASSUME HistoryInv, NEW a \in Agents, NEW live \in BOOLEAN, Submit(a, live)
    PROVE  HistoryInv'
<1>1. DirectoryTypeOK /\ HistoryIsRecent /\ LiveIsHere /\ VisitsCounted /\ a # None
  BY AgentsAssumption DEF HistoryInv
<1>2. /\ prompt' = None /\ route' = a /\ lastVisit' = lastVisit + 1
      /\ visits' = [visits EXCEPT ![a] = lastVisit + 1]
      /\ entries' = <<>> /\ updated' = FALSE
      /\ fetching' = {<<f[1], FALSE>> : f \in fetching}
  BY DEF Submit
<1>3. lastVisit \in Nat /\ \A b \in Agents : visits[b] \in Nat /\ visits[b] <= lastVisit
  BY <1>1 DEF DirectoryTypeOK, VisitsCounted
<1>4. /\ \A b \in Agents : visits'[b] = IF b = a THEN lastVisit + 1 ELSE visits[b]
      /\ visits' \in [Agents -> Nat]
  <2>1. visits \in [Agents -> Nat] /\ lastVisit + 1 \in Nat
    BY <1>1, <1>3 DEF DirectoryTypeOK
  <2>2. visits' \in [Agents -> Nat]
    BY <1>2, <2>1
  <2>3. \A b \in Agents : visits'[b] = IF b = a THEN lastVisit + 1 ELSE visits[b]
    BY <1>2, <2>1
  <2> QED
    BY <2>2, <2>3
<1>5. fetching' \subseteq Agents \X BOOLEAN /\ \A f \in fetching' : ~f[2]
  <2>1. fetching \subseteq Agents \X BOOLEAN
    BY <1>1 DEF DirectoryTypeOK
  <2>2. ASSUME NEW g \in fetching'
        PROVE  g \in Agents \X BOOLEAN /\ ~g[2]
    <3>1. PICK f \in fetching : g = <<f[1], FALSE>>
      BY <1>2, <2>2
    <3>2. f[1] \in Agents
      BY <2>1, <3>1
    <3> QED
      BY <3>1, <3>2
  <2> QED
    BY <2>2
<1>6. /\ <<>> \in Seq(Agents)
      /\ stored' \in Seq(Agents) /\ forgotten' \in BOOLEAN => DirectoryTypeOK'
      /\ LiveIsHere' /\ VisitsCounted'
  <2>1. <<>> \in Seq(Agents)
    OBVIOUS
  <2>2. VisitsCounted'
    BY <1>2, <1>3, <1>4 DEF VisitsCounted
  <2>3. \A b \in Agents : prompt' # <<b, TRUE>>
    <3>1. \A b \in Agents : <<b, TRUE>> \in Agents \X BOOLEAN
      OBVIOUS
    <3> QED
      BY <1>2, <3>1, AgentsAssumption
  <2>4. LiveIsHere'
    BY <1>5, <2>3 DEF LiveIsHere
  <2>5. route' \in Agents \cup {None} /\ updated' \in BOOLEAN /\ lastVisit' \in Nat
    <3>1. lastVisit + 1 \in Nat
      BY <1>3
    <3> QED
      BY <1>2, <3>1
  <2>6. prompt' \in (Agents \X BOOLEAN) \cup {None}
    BY <1>2
  <2>7. stored' \in Seq(Agents) /\ forgotten' \in BOOLEAN => DirectoryTypeOK'
    BY <1>2, <1>4, <1>5, <2>1, <2>5, <2>6 DEF DirectoryTypeOK
  <2> QED
    BY <2>1, <2>2, <2>4, <2>7
<1>7. CASE live /\ ~updated
  <2>1. stored' = AddEntry(a) /\ forgotten' = forgotten
    BY <1>7 DEF Submit
  <2>2. route = None /\ entries = stored /\ entries \in Seq(Agents) /\ IsInjective(entries)
    <3>1. prompt = <<a, TRUE>>
      BY <1>7 DEF Submit
    <3> QED
      BY <1>1, <3>1 DEF LiveIsHere, HistoryIsRecent, DirectoryTypeOK
  <2>3. /\ stored' \in Seq(Agents) /\ Len(stored') \in 1..MaxEntries /\ stored'[1] = a
        /\ \A i \in 2..Len(stored') : stored'[i] # a
        /\ \A i, j \in 2..Len(stored') : i < j =>
              \E k, l \in 1..Len(stored) :
                 k < l /\ stored'[i] = stored[k] /\ stored'[j] = stored[l]
    <3> DEFINE e == AddEntry(a)
    <3>1. /\ e \in Seq(Agents) /\ Len(e) \in 1..MaxEntries /\ e[1] = a
          /\ \A i \in 2..Len(e) : e[i] # a
          /\ \A i, j \in 2..Len(e) : i < j =>
                \E k, l \in 1..Len(entries) : k < l /\ e[i] = entries[k] /\ e[j] = entries[l]
      BY <2>2, VisitedIsFirst
    <3> HIDE DEF e
    <3>2. stored' = e /\ entries = stored
      BY <2>1, <2>2 DEF e
    <3> QED
      BY <3>1, <3>2
  <2>4. /\ DOMAIN stored' = 1..Len(stored') /\ DOMAIN stored = 1..Len(stored)
        /\ Len(stored') \in Nat /\ MaxEntries \in Nat
        /\ \A i \in 1..Len(stored') : i = 1 \/ i \in 2..Len(stored')
        /\ \A i \in 1..Len(stored') : stored'[i] \in Agents
    BY <2>2, <2>3, LenProperties, ElementOfSeq, MaxEntriesAssumption
  <2>5. IsInjective(stored')
    <3>1. ASSUME NEW i \in 1..Len(stored'), NEW j \in 1..Len(stored'), i < j
          PROVE  stored'[i] # stored'[j]
      <4>1. CASE i = 1
        BY <2>3, <2>4, <3>1, <4>1
      <4>2. CASE i # 1
        BY <2>2, <2>3, <2>4, <3>1, <4>2 DEF IsInjective
      <4> QED
        BY <4>1, <4>2
    <3> QED
      BY <2>4, <3>1 DEF IsInjective
  <2>6. ASSUME ~forgotten', NEW i \in 1..Len(stored'), NEW j \in 1..Len(stored'), i < j
        PROVE  visits'[stored'[i]] > visits'[stored'[j]]
    <3>1. j \in 2..Len(stored') /\ stored'[j] # a /\ stored'[j] \in Agents
      BY <2>3, <2>4, <2>6
    <3>2. CASE i = 1
      BY <1>3, <1>4, <2>3, <3>1, <3>2
    <3>3. CASE i # 1
      <4>1. i \in 2..Len(stored') /\ stored'[i] # a /\ stored'[i] \in Agents
        BY <2>3, <2>4, <3>3
      <4>2. PICK k, l \in 1..Len(stored) :
                k < l /\ stored'[i] = stored[k] /\ stored'[j] = stored[l]
        BY <2>3, <2>6, <3>1, <4>1
      <4>3. visits[stored[k]] > visits[stored[l]]
        BY <1>1, <2>1, <2>4, <2>6, <4>2 DEF HistoryIsRecent
      <4> QED
        BY <1>4, <3>1, <4>1, <4>2, <4>3
    <3> QED
      BY <3>2, <3>3
  <2>7. stored' # <<>> /\ Head(stored') = a /\ Len(stored') <= MaxEntries
    BY <2>3, <2>4
  <2>8. HistoryIsRecent'
    BY <1>1, <1>2, <2>4, <2>5, <2>6, <2>7 DEF HistoryIsRecent
  <2>9. forgotten' \in BOOLEAN
    BY <1>1, <2>1 DEF DirectoryTypeOK
  <2> QED
    BY <1>6, <2>3, <2>8, <2>9 DEF HistoryInv
<1>8. CASE ~(live /\ ~updated)
  <2>1. forgotten' = TRUE /\ stored' = stored
    BY <1>8 DEF Submit
  <2>2. stored' \in Seq(Agents)
    BY <1>1, <2>1 DEF DirectoryTypeOK
  <2>3. HistoryIsRecent'
    BY <1>1, <1>2, <2>1 DEF HistoryIsRecent
  <2> QED
    BY <1>6, <2>1, <2>2, <2>3 DEF HistoryInv
<1> QED
  BY <1>7, <1>8

LEMMA HistoryNext == HistoryInv /\ [Next]_vars => HistoryInv'
<1> SUFFICES ASSUME HistoryInv, [Next]_vars PROVE HistoryInv'
  OBVIOUS
<1> USE DEF HistoryInv
<1>1. CASE UNCHANGED directoryVars
  BY <1>1 DEF directoryVars, DirectoryTypeOK, HistoryIsRecent, LiveIsHere, VisitsCounted
<1>2. ASSUME NEW a \in Agents, HandleConnect(a)
      PROVE  HistoryInv'
  <2>1. /\ route = None /\ fetching' = fetching \cup {<<a, TRUE>>}
        /\ UNCHANGED <<route, entries, stored, updated, prompt, visits, lastVisit, forgotten>>
    BY <1>2 DEF HandleConnect
  <2>2. DirectoryTypeOK'
    <3>1. <<a, TRUE>> \in Agents \X BOOLEAN
      OBVIOUS
    <3>2. fetching' \subseteq Agents \X BOOLEAN
      BY <2>1, <3>1 DEF DirectoryTypeOK
    <3> QED
      BY <2>1, <3>2 DEF DirectoryTypeOK
  <2>3. HistoryIsRecent'
    BY <2>1 DEF HistoryIsRecent
  <2>4. LiveIsHere'
    BY <2>1 DEF LiveIsHere
  <2>5. VisitsCounted'
    BY <2>1 DEF VisitsCounted
  <2> QED
    BY <2>2, <2>3, <2>4, <2>5
<1>3. ASSUME NEW f \in fetching, Fetched(f)
      PROVE  HistoryInv'
  <2>1. /\ fetching' = fetching \ {f} /\ prompt' \in {f, prompt}
        /\ UNCHANGED <<route, entries, stored, updated, visits, lastVisit, forgotten>>
    BY <1>3 DEF Fetched
  <2>2. DirectoryTypeOK'
    <3>1. prompt' \in (Agents \X BOOLEAN) \cup {None}
      BY <1>3, <2>1 DEF DirectoryTypeOK
    <3>2. fetching' \subseteq Agents \X BOOLEAN
      BY <2>1 DEF DirectoryTypeOK
    <3> QED
      BY <2>1, <3>1, <3>2 DEF DirectoryTypeOK
  <2>3. HistoryIsRecent'
    BY <2>1 DEF HistoryIsRecent
  <2>4. LiveIsHere'
    <3>1. \A b \in Agents : f = <<b, TRUE>> => f[2]
      OBVIOUS
    <3>2. \A b \in Agents : prompt' = <<b, TRUE>> => route = None
      BY <1>3, <2>1, <3>1 DEF LiveIsHere
    <3>3. \A g \in fetching' : g[2] => route = None
      BY <2>1 DEF LiveIsHere
    <3> QED
      BY <2>1, <3>2, <3>3 DEF LiveIsHere
  <2>5. VisitsCounted'
    BY <2>1 DEF VisitsCounted
  <2> QED
    BY <2>2, <2>3, <2>4, <2>5
<1>4. CASE ClosePrompt \/ Rendered
  <2>1. /\ prompt' \in {None, prompt} /\ updated' \in {FALSE, updated}
        /\ UNCHANGED <<route, entries, stored, fetching, visits, lastVisit, forgotten>>
    BY <1>4 DEF ClosePrompt, Rendered
  <2>2. DirectoryTypeOK'
    BY <2>1 DEF DirectoryTypeOK
  <2>3. HistoryIsRecent'
    BY <2>1 DEF HistoryIsRecent
  <2>4. LiveIsHere'
    <3>1. \A a \in Agents : <<a, TRUE>> \in Agents \X BOOLEAN
      OBVIOUS
    <3>2. \A a \in Agents : None # <<a, TRUE>>
      BY <3>1, AgentsAssumption
    <3> QED
      BY <2>1, <3>2 DEF LiveIsHere
  <2>5. VisitsCounted'
    BY <2>1 DEF VisitsCounted
  <2> QED
    BY <2>2, <2>3, <2>4, <2>5
<1>5. CASE BackToDirectory
  BY <1>5 DEF BackToDirectory, DirectoryTypeOK, HistoryIsRecent, LiveIsHere, VisitsCounted
<1> HIDE DEF HistoryInv
<1>6. CASE DirectoryStep
  BY <1>2, <1>3, <1>4, <1>6, RemoveKeeps DEF DirectoryStep, HistoryRow
<1>7. CASE OpenPage
  BY <1>7, SubmitKeeps DEF OpenPage
<1>8. CASE GoBack
  BY <1>5, <1>8 DEF GoBack
<1>9. CASE HandleSubmit \/ HandleDisconnect
  BY <1>1, <1>9 DEF HandleSubmit, StartSession, HandleDisconnect
<1>10. CASE UNCHANGED vars
  BY <1>1, <1>10 DEF vars
<1> QED
  BY <1>1, <1>6, <1>7, <1>8, <1>9, <1>10 DEF Next

\* The history holds no agent twice, the one visited last first, and what is
\* stored is what the directory shows, whatever prompts and fetches cross a
\* change of page: useAgentHistory.ts, addEntry and removeEntry.
THEOREM HistoryRecent == Spec => []HistoryIsRecent
<1>1. HistoryInv => HistoryIsRecent
  BY DEF HistoryInv
<1> QED
  BY <1>1, HistoryInit, HistoryNext, PTL DEF Spec
=============================================================================
