-------------------------- MODULE AgentStream_proofs --------------------------
(***************************************************************************)
(* Proofs about the agent's stream, for any clients, any capacities of the *)
(* channels, any number of encoders and an environment that does its worst.*)
(***************************************************************************)
EXTENDS AgentStream, TLAPS

-----------------------------------------------------------------------------
(* Sequences of events                                                       *)

\* What follows an event in order: nothing older, and a Reinit only if newer.
Follows(e, f) == e.gen <= f.gen /\ (f.kind = "reinit" => e.gen < f.gen)

Elems(q) == {q[i] : i \in DOMAIN q}

\* All events are numbered.
LEMMA EventFields == \A e \in Event : e.gen \in Nat
BY AgentStreamAssumption DEF Event, Gens

\* What a channel holds after its first event was taken.
LEMMA TailOf ==
    ASSUME NEW q \in Seq(Event), q # <<>>
    PROVE  /\ Tail(q) \in Seq(Event) /\ Len(Tail(q)) = Len(q) - 1 /\ Len(q) > 0
           /\ Head(q) \in Elems(q)
           /\ Head(q) \in Event
           /\ \A i \in DOMAIN Tail(q) : i + 1 \in DOMAIN q /\ Tail(q)[i] = q[i + 1]
           /\ Elems(Tail(q)) \subseteq Elems(q)
BY DEF Elems

\* What a channel holds after an event was put in.
LEMMA AppendOf ==
    ASSUME NEW q \in Seq(Event), NEW e \in Event
    PROVE  /\ Append(q, e) \in Seq(Event) /\ Len(Append(q, e)) = Len(q) + 1
           /\ \A i \in DOMAIN Append(q, e) :
                 \/ i = Len(q) + 1 /\ Append(q, e)[i] = e
                 \/ i \in DOMAIN q /\ Append(q, e)[i] = q[i]
           /\ Elems(Append(q, e)) \subseteq Elems(q) \cup {e}
BY DEF Elems

\* Order is a matter of the members that precede a member.
LEMMA TailInOrder ==
    ASSUME NEW q \in Seq(Event), q # <<>>, InOrder(q)
    PROVE  InOrder(Tail(q)) /\ \A f \in Elems(Tail(q)) : Follows(Head(q), f)
BY TailOf, SMTT(30) DEF InOrder, Follows, Elems

\* What follows every member may be put behind them.
LEMMA AppendInOrder ==
    ASSUME NEW q \in Seq(Event), NEW e \in Event, InOrder(q),
           \A f \in Elems(q) : Follows(f, e)
    PROVE  InOrder(Append(q, e))
BY AppendOf DEF InOrder, Follows, Elems

\* A receiver that may lose its oldest event keeps its order and its bound.
LEMMA PushInOrder ==
    ASSUME NEW q \in Seq(Event), NEW e \in Event, InOrder(q), Len(q) <= RingCap,
           \A f \in Elems(q) : Follows(f, e)
    PROVE  /\ Push(q, e) \in Seq(Event) /\ Len(Push(q, e)) <= RingCap
           /\ InOrder(Push(q, e))
           /\ Elems(Push(q, e)) \subseteq Elems(q) \cup {e}
<1>1. RingCap \in Nat \ {0}
  BY AgentStreamAssumption
<1>2. CASE Len(q) = RingCap
  <2>1. q # <<>>
    BY <1>1, <1>2
  <2>2. /\ Tail(q) \in Seq(Event) /\ Len(Tail(q)) = Len(q) - 1
        /\ Elems(Tail(q)) \subseteq Elems(q) /\ InOrder(Tail(q))
    BY <2>1, TailOf, TailInOrder
  <2>3. Push(q, e) = Append(Tail(q), e)
    BY <1>2 DEF Push
  <2>4. \A f \in Elems(Tail(q)) : Follows(f, e)
    BY <2>2
  <2>5. InOrder(Append(Tail(q), e))
    BY <2>2, <2>4, AppendInOrder
  <2>6. /\ Append(Tail(q), e) \in Seq(Event)
        /\ Len(Append(Tail(q), e)) = Len(Tail(q)) + 1
        /\ Elems(Append(Tail(q), e)) \subseteq Elems(Tail(q)) \cup {e}
    BY <2>2, AppendOf
  <2>7. Len(Append(Tail(q), e)) <= RingCap
    BY <2>2, <2>6, <1>1, <1>2
  <2>. QED
    BY <2>2, <2>3, <2>5, <2>6, <2>7
<1>3. CASE Len(q) # RingCap
  <2>1. Push(q, e) = Append(q, e)
    BY <1>3 DEF Push
  <2>. QED
    BY <2>1, <1>1, <1>3, AppendOf, AppendInOrder
<1>. QED
  BY <1>2, <1>3

-----------------------------------------------------------------------------
(* The inductive invariant                                                   *)

\* The generation of the latest Reinit, or else of the encoder.
Latest == IF pump = "done" /\ phase \in {"building", "ended"} THEN gen + 1 ELSE gen

\* While Reinit is announced and the encoder is built no pump is running.
PumpGone == phase \in {"announcing", "building"} => pump = "done"

Bounds ==
    /\ phase \in {"stabilising", "joining", "announcing", "building"} => gen < MaxGen
    /\ pump \in {"init", "first"} => fed > 0

\* Nothing sent is newer than the latest generation.
NoneNewer ==
    /\ \A e \in Elems(mpsc) : e.gen <= Latest
    /\ \A c \in Clients : \A e \in Elems(rx[c]) : e.gen <= Latest

\* What is broadcast precedes what waits for it.
Precedes == \A c \in Clients : \A e \in Elems(rx[c]), f \in Elems(mpsc) : Follows(e, f)

Inv ==
    /\ TypeOK /\ ReinitParts
    /\ PumpGone /\ Bounds /\ NoneNewer /\ Precedes

\* Nothing was sent at the start.
LEMMA InitInv == Init => Inv
<1>. SUFFICES ASSUME Init PROVE Inv
  OBVIOUS
<1>1. TypeOK
  <2>1. Fresh \in Views
    BY DEF Fresh, Views
  <2>2. <<>> \in Seq(Event) /\ Len(<<>>) = 0
    OBVIOUS
  <2>3. 1 \in Gens /\ 0 \in 0..PipeCap /\ 0 <= QueueCap /\ 0 <= RingCap
    BY AgentStreamAssumption DEF Gens
  <2>4. rx \in [Clients -> Seq(Event)] /\ \A c \in Clients : Len(rx[c]) <= RingCap
    BY <2>2, <2>3 DEF Init
  <2>5. missed \in [Clients -> BOOLEAN] /\ torn \in BOOLEAN
    BY DEF Init
  <2>. QED
    BY <2>1, <2>2, <2>3, <2>4, <2>5 DEF Init, TypeOK
<1>2. ReinitParts /\ NoneNewer /\ Precedes
  BY DEF Init, ReinitParts, InOrder, NoneNewer, Precedes, Elems
<1>. QED
  BY <1>1, <1>2 DEF Init, Inv, PumpGone, Bounds

\* The capture, the encoder and the pump move, and nothing is sent.
LEMMA ControlInv ==
    ASSUME Inv,
           \/ CaptureFrame \/ WriteFails \/ DisplayChanges \/ DropEncoder \/ JoinPump
           \/ BuildEncoder \/ BuildFails \/ FfmpegDies \/ FindMoof \/ PumpEof
    PROVE  Inv'
<1>1. TypeOK'
  <2>1. UNCHANGED <<mpsc, clientVars>>
    BY DEF CaptureFrame, WriteFails, DisplayChanges, DropEncoder, JoinPump,
           BuildEncoder, StartEncoder, BuildFails, FfmpegDies, FindMoof, PumpEof
  <2>2. /\ phase' \in {"polling", "stabilising", "joining", "announcing", "building", "ended"}
        /\ ffmpeg' \in {"running", "gone"}
        /\ pump' \in {"head", "init", "first", "frames", "done"}
        /\ mid' \in BOOLEAN /\ torn' = torn
    BY DEF Inv, TypeOK, captureVars, pumpVars,
           CaptureFrame, WriteFails, DisplayChanges, DropEncoder, JoinPump,
           BuildEncoder, StartEncoder, BuildFails, FfmpegDies, FindMoof, PumpEof
  <2>3. gen \in Gens /\ fed \in 0..PipeCap /\ (phase = "building" => gen < MaxGen)
    BY DEF Inv, TypeOK, Bounds
  <2>4. gen' \in Gens
    BY <2>3, AgentStreamAssumption
       DEF Gens, captureVars,
           CaptureFrame, WriteFails, DisplayChanges, DropEncoder, JoinPump,
           BuildEncoder, StartEncoder, BuildFails, FfmpegDies, FindMoof, PumpEof
  <2>5. fed' \in 0..PipeCap
    BY <2>3, AgentStreamAssumption
       DEF pumpVars,
           CaptureFrame, WriteFails, DisplayChanges, DropEncoder, JoinPump,
           BuildEncoder, StartEncoder, BuildFails, FfmpegDies, FindMoof, PumpEof
  <2>. QED
    BY <2>1, <2>2, <2>4, <2>5 DEF Inv, TypeOK, clientVars
<1>2. UNCHANGED <<mpsc, rx>>
  BY DEF clientVars,
         CaptureFrame, WriteFails, DisplayChanges, DropEncoder, JoinPump,
         BuildEncoder, StartEncoder, BuildFails, FfmpegDies, FindMoof, PumpEof
<1>3. ReinitParts' /\ Precedes'
  BY <1>2 DEF Inv, ReinitParts, Precedes
<1>4. PumpGone' /\ Bounds'
  BY DEF Inv, TypeOK, PumpGone, Bounds, captureVars, pumpVars, clientVars,
         CaptureFrame, WriteFails, DisplayChanges, DropEncoder, JoinPump,
         BuildEncoder, StartEncoder, BuildFails, FfmpegDies, FindMoof, PumpEof
<1>5. Latest <= Latest' /\ Latest \in Nat /\ Latest' \in Nat
  <2>1. gen \in Nat /\ gen' \in Nat
    BY <1>1, AgentStreamAssumption DEF Inv, TypeOK, Gens
  <2>2. CASE BuildEncoder
    BY <2>1, <2>2 DEF Inv, PumpGone, Latest, BuildEncoder, StartEncoder
  <2>3. CASE ~BuildEncoder
    <3>1. /\ gen' = gen
          /\ pump = "done" => pump' = "done"
          /\ phase \in {"building", "ended"} => phase' \in {"building", "ended"}
      BY <2>3 DEF captureVars, pumpVars,
             CaptureFrame, WriteFails, DisplayChanges, DropEncoder, JoinPump,
             BuildFails, FfmpegDies, FindMoof, PumpEof
    <3>. QED
      BY <2>1, <3>1 DEF Latest
  <2>. QED
    BY <2>2, <2>3
<1>6. NoneNewer'
  <2>1. /\ \A e \in Elems(mpsc) : e \in Event
        /\ \A c \in Clients : \A e \in Elems(rx[c]) : e \in Event
    BY DEF Inv, TypeOK, Elems
  <2>. QED
    BY <1>2, <1>5, <2>1, EventFields DEF Inv, NoneNewer
<1>. QED
  BY <1>1, <1>3, <1>4, <1>6 DEF Inv

\* An event is sent that no event in the channels follows.
LEMMA SendInv ==
    ASSUME Inv, NEW e \in Event, mpsc' = Append(mpsc, e), Len(mpsc) < QueueCap,
           UNCHANGED clientVars, TypeOK', PumpGone', Bounds',
           Latest \in Nat, Latest' \in Nat, Latest <= Latest', e.gen <= Latest',
           Latest <= e.gen, e.kind = "reinit" => Latest < e.gen
    PROVE  Inv'
<1>1. mpsc \in Seq(Event) /\ \A c \in Clients : rx[c] \in Seq(Event)
  BY DEF Inv, TypeOK
<1>2. rx' = rx
  BY DEF clientVars
<1>3. /\ \A f \in Elems(mpsc) : f \in Event
      /\ \A c \in Clients : \A f \in Elems(rx[c]) : f \in Event
  BY <1>1 DEF Elems
<1>4. \A f \in Event : f.gen <= Latest => Follows(f, e)
  BY EventFields DEF Follows
<1>5. InOrder(mpsc') /\ Elems(mpsc') \subseteq Elems(mpsc) \cup {e}
  <2>1. \A f \in Elems(mpsc) : Follows(f, e)
    BY <1>3, <1>4 DEF Inv, NoneNewer
  <2>2. InOrder(mpsc)
    BY DEF Inv, ReinitParts
  <2>. QED
    BY <1>1, <2>1, <2>2, AppendInOrder, AppendOf
<1>6. ReinitParts'
  BY <1>2, <1>5 DEF Inv, ReinitParts
<1>7. Precedes'
  BY <1>2, <1>3, <1>4, <1>5 DEF Inv, Precedes, NoneNewer
<1>8. NoneNewer'
  BY <1>2, <1>3, <1>5, EventFields DEF Inv, NoneNewer
<1>. QED
  BY <1>6, <1>7, <1>8 DEF Inv

\* The capture thread announces the next generation.
LEMMA SendReinitInv == ASSUME Inv, SendReinit PROVE Inv'
<1>. DEFINE e == [kind |-> "reinit", gen |-> gen + 1]
<1>1. gen \in Gens /\ gen < MaxGen /\ pump = "done"
  BY DEF Inv, TypeOK, PumpGone, Bounds, SendReinit
<1>2. gen \in Nat /\ gen + 1 \in Gens
  BY <1>1, AgentStreamAssumption DEF Gens
<1>3. e \in Event
  BY <1>2 DEF Event
<1>4. /\ phase = "announcing" /\ phase' = "building" /\ Len(mpsc) < QueueCap
      /\ mpsc' = Append(mpsc, e) /\ torn' = FALSE
      /\ UNCHANGED <<gen, ffmpeg, fed, pump, mid, clientVars>>
  BY DEF SendReinit
<1>5. TypeOK'
  <2>1. mpsc' \in Seq(Event) /\ Len(mpsc') <= QueueCap
    <3>1. mpsc \in Seq(Event)
      BY DEF Inv, TypeOK
    <3>2. /\ Append(mpsc, e) \in Seq(Event) /\ Len(Append(mpsc, e)) = Len(mpsc) + 1
      BY <1>3, <3>1, AppendOf
    <3>. QED
      BY <1>4, <3>1, <3>2, AgentStreamAssumption
  <2>2. torn' \in BOOLEAN
    BY <1>4, Zenon
  <2>. QED
    BY <1>4, <2>1, <2>2 DEF Inv, TypeOK, clientVars
<1>6. PumpGone' /\ Bounds'
  BY <1>1, <1>4 DEF Inv, PumpGone, Bounds
<1>7. Latest = gen /\ Latest' = gen + 1
  BY <1>1, <1>4 DEF Latest
<1>8. UNCHANGED clientVars
  BY <1>4
<1>. HIDE DEF e
<1>9. e.gen = gen + 1
  BY DEF e
<1>. QED
  BY <1>2, <1>3, <1>4, <1>5, <1>6, <1>7, <1>8, <1>9, SendInv

\* The pump sends an event of its encoder, or drops it.
LEMMA PumpSendInv == ASSUME Inv, SendInit \/ SendFirst \/ PumpRead PROVE Inv'
<1>1. gen \in Gens /\ gen \in Nat /\ fed \in 1..PipeCap /\ mid \in BOOLEAN
      /\ pump # "done" /\ phase \notin {"announcing", "building"}
  <2>1. gen \in Gens /\ fed \in 0..PipeCap /\ mid \in BOOLEAN
    BY DEF Inv, TypeOK
  <2>2. pump \in {"init", "first", "frames"}
    BY DEF SendInit, SendFirst, PumpRead
  <2>3. fed > 0
    BY <2>2 DEF Inv, Bounds, SendInit, SendFirst, PumpRead
  <2>4. phase \notin {"announcing", "building"}
    BY <2>2 DEF Inv, PumpGone
  <2>5. gen \in Nat /\ fed \in 1..PipeCap
    BY <2>1, <2>3, AgentStreamAssumption DEF Gens
  <2>. QED
    BY <2>1, <2>2, <2>4, <2>5
<1>2. UNCHANGED <<captureVars, clientVars>>
  BY DEF SendInit, SendFirst, PumpRead
<1>3. /\ pump' \in {"first", "frames"} /\ fed' \in 0..PipeCap /\ mid' \in BOOLEAN
      /\ pump' = "first" => fed' > 0
  <2>1. fed \in 0..PipeCap /\ fed - 1 \in 0..PipeCap /\ fed > 0
    BY <1>1, AgentStreamAssumption
  <2>2. CASE SendInit
    BY <1>1, <2>1, <2>2 DEF SendInit
  <2>3. CASE SendFirst \/ PumpRead
    <3>1. pump' = "frames"
      BY <2>3, <1>1 DEF SendFirst, PumpRead
    <3>2. PICK to \in BOOLEAN : mid' = to /\ fed' = IF to THEN fed ELSE fed - 1
      BY <2>3 DEF SendFirst, PumpRead, SendChunk
    <3>. QED
      BY <2>1, <3>1, <3>2
  <2>. QED
    BY <2>2, <2>3
<1>4. PICK e \in Event : /\ e.gen = gen /\ e.kind # "reinit"
                         /\ \/ mpsc' = mpsc
                            \/ mpsc' = Append(mpsc, e) /\ Len(mpsc) < QueueCap
  <2>1. CASE SendInit
    <3>1. [kind |-> "init", gen |-> gen] \in Event
      BY <1>1 DEF Event
    <3>. QED
      BY <2>1, <3>1 DEF SendInit
  <2>2. CASE SendFirst \/ PumpRead
    <3>1. PICK from \in BOOLEAN : SendChunk(from)
      BY <1>1, <2>2 DEF SendFirst, PumpRead
    <3>2. PICK to \in BOOLEAN :
             TrySend([kind |-> "frame", gen |-> gen, from |-> from, to |-> to, gap |-> torn])
      BY <3>1 DEF SendChunk
    <3>3. torn \in BOOLEAN
      BY DEF Inv, TypeOK
    <3>4. [kind |-> "frame", gen |-> gen, from |-> from, to |-> to, gap |-> torn] \in Event
      BY <1>1, <3>3 DEF Event
    <3>. QED
      BY <3>2, <3>4 DEF TrySend
  <2>. QED
    BY <2>1, <2>2
<1>5. Latest = gen /\ Latest' = gen
  BY <1>1, <1>2, <1>3 DEF Latest, captureVars
<1>6. PumpGone' /\ Bounds'
  BY <1>1, <1>2, <1>3 DEF Inv, PumpGone, Bounds, captureVars
<1>7. mpsc \in Seq(Event) /\ mpsc' \in Seq(Event) /\ Len(mpsc') <= QueueCap
  <2>1. mpsc \in Seq(Event) /\ Len(mpsc) <= QueueCap
    BY DEF Inv, TypeOK
  <2>2. Append(mpsc, e) \in Seq(Event) /\ Len(Append(mpsc, e)) = Len(mpsc) + 1
    BY <2>1, AppendOf
  <2>. QED
    BY <1>4, <2>1, <2>2, AgentStreamAssumption
<1>11. torn' \in BOOLEAN
  <2>1. torn' = torn \/ \E f : torn' = ~Whole(f) \/ torn' = FALSE
    BY DEF SendInit, SendFirst, PumpRead, SendChunk, TrySend
  <2>2. torn \in BOOLEAN /\ \A f : (~Whole(f)) \in BOOLEAN
    BY DEF Inv, TypeOK, Whole
  <2>. QED
    BY <2>1, <2>2, Zenon
<1>8. TypeOK'
  BY <1>1, <1>2, <1>3, <1>7, <1>11 DEF Inv, TypeOK, captureVars, clientVars
<1>9. CASE mpsc' = mpsc
  <2>1. rx' = rx
    BY <1>2 DEF clientVars
  <2>. QED
    BY <1>5, <1>6, <1>8, <1>9, <2>1 DEF Inv, ReinitParts, NoneNewer, Precedes
<1>10. CASE mpsc' = Append(mpsc, e) /\ Len(mpsc) < QueueCap
  <2>1. UNCHANGED clientVars
    BY <1>2
  <2>. QED
    BY <1>1, <1>4, <1>5, <1>6, <1>8, <1>10, <2>1, SendInv
<1>. QED
  BY <1>4, <1>9, <1>10

\* The fan-out task broadcasts the first event that waits.
LEMMA FanoutInv == ASSUME Inv, Fanout PROVE Inv'
<1>. DEFINE e == Head(mpsc)
            Got(c) == rx'[c] = IF stage[c] = "away" THEN rx[c] ELSE Push(rx[c], e)
<1>1. /\ mpsc \in Seq(Event) /\ mpsc # <<>> /\ Len(mpsc) <= QueueCap /\ InOrder(mpsc)
      /\ mpsc' = Tail(mpsc)
      /\ UNCHANGED <<captureVars, pumpVars, stage, paused, view>>
  BY DEF Inv, TypeOK, ReinitParts, Fanout
<1>2. /\ e \in Event /\ e \in Elems(mpsc)
      /\ mpsc' \in Seq(Event) /\ Len(mpsc') = Len(mpsc) - 1
      /\ Elems(mpsc') \subseteq Elems(mpsc) /\ InOrder(mpsc')
      /\ \A f \in Elems(mpsc') : Follows(e, f)
  BY <1>1, TailOf, TailInOrder
<1>3. Len(mpsc') <= QueueCap
  BY <1>1, <1>2, AgentStreamAssumption
<1>4. DOMAIN rx' = Clients /\ \A c \in Clients : Got(c)
  BY DEF Fanout
<1>. HIDE DEF e
<1>5. ASSUME NEW c \in Clients
      PROVE  /\ rx'[c] \in Seq(Event) /\ Len(rx'[c]) <= RingCap /\ InOrder(rx'[c])
             /\ Elems(rx'[c]) \subseteq Elems(rx[c]) \cup {e}
  <2>1. /\ rx[c] \in Seq(Event) /\ Len(rx[c]) <= RingCap /\ InOrder(rx[c])
        /\ \A f \in Elems(rx[c]) : Follows(f, e)
    BY <1>2 DEF Inv, TypeOK, ReinitParts, Precedes
  <2>2. CASE stage[c] = "away"
    BY <1>4, <2>1, <2>2
  <2>3. CASE stage[c] # "away"
    <3>1. rx'[c] = Push(rx[c], e)
      BY <1>4, <2>3
    <3>2. /\ Push(rx[c], e) \in Seq(Event) /\ Len(Push(rx[c], e)) <= RingCap
          /\ InOrder(Push(rx[c], e))
          /\ Elems(Push(rx[c], e)) \subseteq Elems(rx[c]) \cup {e}
      BY <1>2, <2>1, PushInOrder
    <3>. QED
      BY <3>1, <3>2
  <2>. QED
    BY <2>2, <2>3
<1>6. rx' \in [Clients -> Seq(Event)]
  <2>1. rx' = [c \in Clients |-> rx'[c]]
    BY DEF Fanout
  <2>. QED
    BY <2>1, <1>5
<1>10. missed' \in [Clients -> BOOLEAN]
  <2>1. \A c \in Clients : missed[c] \in BOOLEAN
    BY DEF Inv, TypeOK
  <2>. QED
    BY <2>1 DEF Fanout, Whole
<1>7. TypeOK'
  BY <1>1, <1>2, <1>3, <1>5, <1>6, <1>10 DEF Inv, TypeOK, captureVars, pumpVars
<1>8. PumpGone' /\ Bounds' /\ Latest' = Latest
  BY <1>1 DEF Inv, PumpGone, Bounds, Latest, captureVars, pumpVars
<1>9. NoneNewer' /\ Precedes' /\ ReinitParts'
  BY <1>2, <1>5, <1>8 DEF Inv, NoneNewer, Precedes, ReinitParts
<1>. QED
  BY <1>7, <1>8, <1>9 DEF Inv

\* A client comes, goes, pauses or receives.
LEMMA ClientInv == ASSUME Inv, NEW c \in Clients, ClientStep(c) PROVE Inv'
<1>1. UNCHANGED <<captureVars, pumpVars, mpsc>>
  BY DEF ClientStep, Accept, Serve, Leave, SetPaused, Receive
<1>2. /\ \A d \in Clients : rx[d] \in Seq(Event) /\ Len(rx[d]) <= RingCap /\ InOrder(rx[d])
      /\ rx \in [Clients -> Seq(Event)]
  BY DEF Inv, TypeOK, ReinitParts
<1>3. \/ rx' = rx
      \/ rx' = [rx EXCEPT ![c] = <<>>]
      \/ rx' = [rx EXCEPT ![c] = Tail(@)] /\ rx[c] # <<>>
  BY DEF ClientStep, Accept, Serve, Leave, SetPaused, Receive
<1>4. /\ rx' \in [Clients -> Seq(Event)]
      /\ \A d \in Clients : /\ Len(rx'[d]) <= RingCap /\ InOrder(rx'[d])
                            /\ Elems(rx'[d]) \subseteq Elems(rx[d])
  <2>1. CASE rx' = rx
    BY <1>2, <2>1
  <2>2. CASE rx' = [rx EXCEPT ![c] = <<>>]
    <3>1. <<>> \in Seq(Event) /\ Len(<<>>) <= RingCap /\ InOrder(<<>>) /\ Elems(<<>>) = {}
      BY AgentStreamAssumption DEF InOrder, Elems
    <3>. QED
      BY <1>2, <2>2, <3>1
  <2>3. CASE rx' = [rx EXCEPT ![c] = Tail(@)] /\ rx[c] # <<>>
    <3>1. /\ Tail(rx[c]) \in Seq(Event) /\ Len(Tail(rx[c])) <= RingCap
          /\ InOrder(Tail(rx[c])) /\ Elems(Tail(rx[c])) \subseteq Elems(rx[c])
      BY <1>2, <2>3, TailOf, TailInOrder, AgentStreamAssumption
    <3>. QED
      BY <1>2, <2>3, <3>1
  <2>. QED
    BY <1>3, <2>1, <2>2, <2>3
<1>5. /\ stage' \in [Clients -> {"away", "greeting", "serving"}]
      /\ paused' \in [Clients -> BOOLEAN]
  BY DEF Inv, TypeOK, ClientStep, Accept, Serve, Leave, SetPaused, Receive
<1>6. view' \in [Clients -> Views]
  <2>1. view \in [Clients -> Views]
    BY DEF Inv, TypeOK
  <2>2. CASE Receive(c)
    <3>1. Head(rx[c]) \in Event
      BY <1>2, <2>2, TailOf DEF Receive
    <3>2. ASSUME NEW v \in Views PROVE Decode(v, Head(rx[c])) \in Views
      BY <3>1 DEF Decode, Views, Event, Fresh, Garbled
    <3>. QED
      BY <2>1, <2>2, <3>2 DEF Receive
  <2>3. CASE Leave(c)
    <3>1. Fresh \in Views
      BY DEF Fresh, Views
    <3>. QED
      BY <2>1, <2>3, <3>1 DEF Leave
  <2>4. CASE Accept(c) \/ Serve(c) \/ SetPaused(c)
    BY <2>1, <2>4 DEF Accept, Serve, SetPaused
  <2>. QED
    BY <2>2, <2>3, <2>4 DEF ClientStep
<1>10. missed' \in [Clients -> BOOLEAN]
  <2>1. missed \in [Clients -> BOOLEAN]
    BY DEF Inv, TypeOK
  <2>2. CASE Receive(c)
    <3>1. PICK b \in BOOLEAN : missed' = [missed EXCEPT ![c] = b]
      BY <2>2, Zenon DEF Receive
    <3>. QED
      BY <2>1, <3>1
  <2>3. CASE Accept(c)
    <3>1. (~BeforeInit) \in BOOLEAN /\ missed' = [missed EXCEPT ![c] = ~BeforeInit]
      BY <2>3 DEF Accept
    <3>. QED
      BY <2>1, <3>1
  <2>4. CASE Leave(c) \/ Serve(c) \/ SetPaused(c)
    BY <2>1, <2>4 DEF Leave, Serve, SetPaused
  <2>. QED
    BY <2>2, <2>3, <2>4 DEF ClientStep
<1>7. TypeOK'
  BY <1>1, <1>4, <1>5, <1>6, <1>10 DEF Inv, TypeOK, captureVars, pumpVars
<1>8. PumpGone' /\ Bounds' /\ Latest' = Latest
  BY <1>1 DEF Inv, PumpGone, Bounds, Latest, captureVars, pumpVars
<1>9. NoneNewer' /\ Precedes' /\ ReinitParts'
  BY <1>1, <1>4, <1>8 DEF Inv, NoneNewer, Precedes, ReinitParts
<1>. QED
  BY <1>7, <1>8, <1>9 DEF Inv

\* Inv is about nothing but the variables.
LEMMA StutterInv == ASSUME Inv, UNCHANGED vars PROVE Inv'
<1>1. TypeOK' /\ PumpGone' /\ Bounds' /\ Latest' = Latest
  BY DEF Inv, TypeOK, PumpGone, Bounds, Latest, vars, captureVars, pumpVars, clientVars
<1>2. ReinitParts' /\ NoneNewer' /\ Precedes'
  BY <1>1 DEF Inv, ReinitParts, NoneNewer, Precedes, vars, clientVars
<1>. QED
  BY <1>1, <1>2 DEF Inv

-----------------------------------------------------------------------------

\* Inv is an invariant of the agent, whatever its clients, its encoder and its
\* display do.
THEOREM Invariance == Spec => []Inv
<1>1. Init => Inv
  BY InitInv
<1>2. Inv /\ [Next]_vars => Inv'
  <2>. SUFFICES ASSUME Inv, [Next]_vars PROVE Inv'
    OBVIOUS
  <2>1. CASE CaptureStep
    BY <2>1, ControlInv, SendReinitInv DEF CaptureStep
  <2>2. CASE FfmpegDies
    BY <2>2, ControlInv
  <2>3. CASE PumpStep
    BY <2>3, ControlInv, PumpSendInv DEF PumpStep
  <2>4. CASE Fanout
    BY <2>4, FanoutInv
  <2>5. ASSUME NEW c \in Clients, ClientStep(c) PROVE Inv'
    BY <2>5, ClientInv
  <2>6. CASE UNCHANGED vars
    BY <2>6, StutterInv
  <2>. QED
    BY <2>1, <2>2, <2>3, <2>4, <2>5, <2>6 DEF Next
<1>. QED
  BY <1>1, <1>2, PTL DEF Spec

\* The variables keep their types, and the channels their capacities.
THEOREM TypeCorrect == Spec => []TypeOK
<1>1. Inv => TypeOK
  BY DEF Inv
<1>. QED
  BY <1>1, Invariance, PTL

\* Behind the Reinit of a generation no channel holds anything of an earlier
\* one, in whatever places the mpsc and the broadcast channel drop events.
THEOREM ReinitsPart == Spec => []ReinitParts
<1>1. Inv => ReinitParts
  BY DEF Inv
<1>. QED
  BY <1>1, Invariance, PTL

-----------------------------------------------------------------------------
(* What a client is sent can be decoded                                      *)

\* Where a decoder can stand that was given what it could use, and the place of
\* a decoder of which nothing is known.
Started(g) == [at |-> "started", gen |-> g]
Boundary(g) == [at |-> "boundary", gen |-> g]
Within(g) == [at |-> "mid", gen |-> g]
Anywhere == [at |-> "anywhere"]
Between == {"fresh", "started", "boundary"}

\* Where an event leaves the decoder that could use it.
Mark(e) ==
    CASE e.kind = "reinit" -> Fresh
      [] e.kind = "init" -> Started(e.gen)
      [] e.kind = "frame" -> IF e.to THEN Within(e.gen) ELSE Boundary(e.gen)

\* At the place p the event e can be used, or it tells that a part is missing.
Link(p, e) ==
    \/ p = Anywhere \/ e.kind = "reinit"
    \/ e.kind = "init" /\ p.at \in Between
    \/ e.kind = "frame" /\ (e.gap \/ IF e.from THEN p = Within(e.gen)
                                               ELSE p \in {Started(e.gen), Boundary(e.gen)})

Chain(q) == \A i \in DOMAIN q : i > 1 => Link(Mark(q[i - 1]), q[i])
Fit(v, q) == Chain(q) /\ (q # <<>> => Link(v, q[1]))
End(v, q) == IF q = <<>> THEN v ELSE Mark(q[Len(q)])

\* What the pump or the capture thread sends next can be used at p.
Tip(p) ==
    \/ p = Anywhere \/ torn
    \/ /\ pump \in {"head", "init"} => p.at \in Between
       /\ pump = "first" => p = Started(gen)
       /\ pump = "frames" => IF mid THEN p = Within(gen) ELSE p \in {Started(gen), Boundary(gen)}
       /\ phase = "building" => p = Fresh

\* What can be used at p can be used at r.
Stands(r, p) == r = p \/ r = Anywhere \/ \E g : p = Boundary(g) /\ r = Started(g)

LEMMA AppendFit ==
    ASSUME NEW q \in Seq(Event), NEW e \in Event, NEW v
    PROVE  /\ End(v, Append(q, e)) = Mark(e)
           /\ Chain(q) /\ (q # <<>> => Link(End(v, q), e)) => Chain(Append(q, e))
           /\ Fit(v, q) /\ Link(End(v, q), e) => Fit(v, Append(q, e))
<1>1. /\ Append(q, e) # <<>> /\ Len(Append(q, e)) = Len(q) + 1 /\ Len(q) \in Nat
      /\ Append(q, e)[Len(q) + 1] = e
      /\ \A i \in 1..Len(q) : Append(q, e)[i] = q[i]
      /\ q = <<>> <=> Len(q) = 0
  OBVIOUS
<1>2. DOMAIN q = 1..Len(q) /\ DOMAIN Append(q, e) = 1..(Len(q) + 1)
  BY <1>1
<1>3. End(v, Append(q, e)) = Mark(e)
  BY <1>1 DEF End
<1>4. ASSUME Chain(q), q # <<>> => Link(End(v, q), e)
      PROVE  Chain(Append(q, e))
  <2>1. ASSUME NEW i \in 1..(Len(q) + 1), i > 1
        PROVE  Link(Mark(Append(q, e)[i - 1]), Append(q, e)[i])
    <3>1. CASE i = Len(q) + 1
      <4>1. q # <<>> /\ Len(q) \in 1..Len(q) /\ i - 1 = Len(q)
        BY <1>1, <2>1, <3>1
      <4>2. Append(q, e)[i - 1] = q[Len(q)] /\ Append(q, e)[i] = e
        BY <1>1, <3>1, <4>1
      <4>. QED
        BY <1>4, <4>1, <4>2 DEF End
    <3>2. CASE i # Len(q) + 1
      <4>1. i \in 1..Len(q) /\ i - 1 \in 1..Len(q)
        BY <1>1, <2>1, <3>2
      <4>2. Append(q, e)[i - 1] = q[i - 1] /\ Append(q, e)[i] = q[i]
        BY <1>1, <4>1
      <4>3. Link(Mark(q[i - 1]), q[i])
        BY <1>2, <1>4, <2>1, <4>1 DEF Chain
      <4>. QED
        BY <4>2, <4>3
    <3>. QED
      BY <3>1, <3>2
  <2>. QED
    BY <1>2, <2>1 DEF Chain
<1>5. ASSUME Fit(v, q), Link(End(v, q), e)
      PROVE  Fit(v, Append(q, e))
  <2>1. Chain(Append(q, e))
    BY <1>4, <1>5 DEF Fit
  <2>2. CASE q = <<>>
    <3>1. Append(q, e)[1] = e
      BY <1>1, <2>2
    <3>. QED
      BY <1>5, <2>1, <2>2, <3>1 DEF Fit, End
  <2>3. CASE q # <<>>
    <3>1. Append(q, e)[1] = q[1]
      BY <1>1, <2>3
    <3>. QED
      BY <1>5, <2>1, <2>3, <3>1 DEF Fit
  <2>. QED
    BY <2>2, <2>3
<1>. QED
  BY <1>3, <1>4, <1>5

LEMMA TailFit ==
    ASSUME NEW q \in Seq(Event), q # <<>>, Chain(q)
    PROVE  /\ Fit(Mark(Head(q)), Tail(q))
           /\ \A v : End(Mark(Head(q)), Tail(q)) = End(v, q)
           /\ \A v : Fit(v, q) => Link(v, Head(q))
<1>1. PICK t \in Seq(Event), n \in Nat :
         /\ t = Tail(q) /\ Len(t) = n /\ Len(q) = n + 1 /\ Head(q) = q[1]
         /\ t = <<>> <=> n = 0
         /\ \A i \in 1..n : t[i] = q[i + 1]
  <2>1. /\ Tail(q) \in Seq(Event) /\ Len(Tail(q)) = Len(q) - 1 /\ Len(q) > 0
        /\ Head(q) = q[1] /\ \A i \in 1..Len(Tail(q)) : Tail(q)[i] = q[i + 1]
    OBVIOUS
  <2>2. \A t \in Seq(Event) : t = <<>> <=> Len(t) = 0
    OBVIOUS
  <2>3. Tail(q) = <<>> <=> Len(Tail(q)) = 0
    BY <2>1, <2>2, Zenon
  <2>4. PICK t, n : t = Tail(q) /\ n = Len(q) - 1
    OBVIOUS
  <2>5. Len(t) = n /\ (t = <<>> <=> Len(t) = 0) /\ \A i \in 1..Len(t) : t[i] = q[i + 1]
    BY <2>1, <2>3, <2>4, Zenon
  <2>6. t \in Seq(Event) /\ n \in Nat /\ Len(q) = n + 1
    BY <2>1, <2>4
  <2>. QED
    BY <2>1, <2>4, <2>5, <2>6
<1>2. DOMAIN t = 1..n /\ DOMAIN q = 1..(n + 1)
  BY <1>1
<1>3. Chain(t)
  <2>1. ASSUME NEW i \in 1..n, i > 1
        PROVE  Link(Mark(t[i - 1]), t[i])
    <3>1. i + 1 \in 1..(n + 1) /\ i + 1 > 1 /\ i - 1 \in 1..n /\ (i - 1) + 1 = i
          /\ (i + 1) - 1 = i
      BY <2>1
    <3>2. t[i - 1] = q[i] /\ t[i] = q[i + 1]
      BY <1>1, <3>1
    <3>3. Link(Mark(q[(i + 1) - 1]), q[i + 1])
      BY <1>2, <3>1 DEF Chain
    <3>. QED
      BY <3>1, <3>2, <3>3
  <2>. QED
    BY <1>2, <2>1 DEF Chain
<1>4. t # <<>> => Link(Mark(q[1]), t[1])
  <2>1. SUFFICES ASSUME n > 0 PROVE Link(Mark(q[1]), t[1])
    BY <1>1
  <2>2. 2 \in DOMAIN q /\ t[1] = q[2]
    BY <1>1, <1>2, <2>1
  <2>3. \A i \in DOMAIN q : i = 2 => Link(Mark(q[1]), q[i])
    <3>1. \A i \in DOMAIN q : i = 2 => i > 1 /\ i - 1 = 1
      BY SMT
    <3>. QED
      BY <3>1, Zenon DEF Chain
  <2>. QED
    BY <2>2, <2>3
<1>5. t # <<>> => t[Len(t)] = q[Len(q)]
  BY <1>1
<1>6. t = <<>> => q[1] = q[Len(q)]
  BY <1>1
<1>7. Fit(Mark(Head(q)), t) /\ \A v : End(Mark(Head(q)), t) = End(v, q)
  BY <1>1, <1>3, <1>4, <1>5, <1>6 DEF Fit, End
<1>8. \A v : Fit(v, q) => Link(v, Head(q))
  BY <1>1 DEF Fit
<1>. QED
  BY <1>1, <1>7, <1>8

\* A place that stands for another does so for all that follows.
LEMMA StandsFor ==
    ASSUME NEW p, NEW r, Stands(r, p), NEW q \in Seq(Event)
    PROVE  /\ Tip(p) => Tip(r)
           /\ Fit(p, q) => Fit(r, q)
           /\ Stands(End(r, q), End(p, q))
<1>1. CASE r = p \/ r = Anywhere
  BY <1>1 DEF Stands, Tip, Fit, Link, End
<1>2. CASE \E g : p = Boundary(g) /\ r = Started(g)
  <2>1. PICK g : p = Boundary(g) /\ r = Started(g)
    BY <1>2
  <2>2. /\ p.at = "boundary" /\ r.at = "started" /\ p # Anywhere /\ p # Fresh
        /\ \A h : p # Started(h) /\ p # Within(h) /\ (p = Boundary(h) => r = Started(h))
    BY <2>1 DEF Boundary, Started, Within, Anywhere, Fresh
  <2>3. Tip(p) => Tip(r)
    BY <2>2 DEF Tip, Between
  <2>4. \A e : Link(p, e) => Link(r, e)
    BY <2>2 DEF Link, Between
  <2>5. Stands(End(r, q), End(p, q))
    BY DEF Stands, End
  <2>. QED
    BY <2>3, <2>4, <2>5 DEF Fit
<1>. QED
  BY <1>1, <1>2 DEF Stands

\* A whole fragment can be left out.
LEMMA Skipped ==
    ASSUME NEW p, NEW e \in Event, Link(p, e), Whole(e)
    PROVE  Stands(p, Mark(e))
BY DEF Link, Whole, Mark, Stands

\* An event that can be used leaves the decoder at its mark.
LEMMA Decoded ==
    ASSUME NEW v \in Views, v # Garbled, NEW e \in Event, Link(v, e),
           ~(e.kind = "frame" /\ e.gap)
    PROVE  Decode(v, e) = Mark(e)
<1>1. v # Anywhere
  BY DEF Views, Anywhere
<1>2. CASE e.kind = "reinit"
  BY <1>2 DEF Decode, Mark
<1>3. CASE e.kind = "init"
  BY <1>1, <1>3 DEF Decode, Mark, Link, Between, Started
<1>4. CASE e.kind = "frame"
  <2>1. IF e.from THEN v = Within(e.gen) ELSE v \in {Started(e.gen), Boundary(e.gen)}
    BY <1>1, <1>4 DEF Link
  <2>2. e.gen \in Gens
    BY DEF Event
  <2>3. v \in [at : IF e.from THEN {"mid"} ELSE {"started", "boundary"}, gen : {e.gen}]
    BY <2>1 DEF Within, Started, Boundary
  <2>. QED
    BY <1>4, <2>3 DEF Decode, Mark, Within, Boundary
<1>. QED
  BY <1>2, <1>3, <1>4 DEF Event

LEMMA MarkKnown == \A e \in Event : Mark(e) # Garbled
BY DEF Mark, Event, Garbled, Fresh, Started, Boundary, Within

\* What is known of a client's decoder.
Known(c) == IF missed[c] THEN Anywhere ELSE view[c]

\* From where a client stands, through what waits for it and what will be
\* broadcast, to what is sent next, everything can be used.
Ready(p, r, m) == Fit(p, r) /\ Fit(End(p, r), m) /\ Tip(End(End(p, r), m))
ClientFits(c) == Known(c) # Garbled /\ Ready(Known(c), rx[c], mpsc)

StreamInv ==
    /\ torn => pump \in {"frames", "done"} /\ phase # "building"
    /\ Fit(Anywhere, mpsc) /\ Tip(End(Anywhere, mpsc))
    /\ \A c \in Clients : IF stage[c] = "away" THEN rx[c] = <<>> /\ view[c] = Fresh
                           ELSE ClientFits(c)

\* The first event is taken away, and the decoder stands where it leads or at a
\* place that stands for it.
LEMMA Taken ==
    ASSUME NEW p, NEW r, NEW q \in Seq(Event), q # <<>>, NEW m \in Seq(Event),
           Ready(p, q, m), Stands(r, Mark(Head(q)))
    PROVE  Ready(r, Tail(q), m)
<1>1. /\ Fit(Mark(Head(q)), Tail(q)) /\ End(Mark(Head(q)), Tail(q)) = End(p, q)
  BY TailFit DEF Ready, Fit
<1>2. Tail(q) \in Seq(Event)
  OBVIOUS
<1>3. Fit(r, Tail(q)) /\ Stands(End(r, Tail(q)), End(p, q))
  BY <1>1, <1>2, StandsFor
<1>4. /\ Fit(End(r, Tail(q)), m)
      /\ Stands(End(End(r, Tail(q)), m), End(End(p, q), m))
  BY <1>3, StandsFor DEF Ready
<1>5. Tip(End(End(r, Tail(q)), m))
  BY <1>4, StandsFor DEF Ready
<1>. QED
  BY <1>3, <1>4, <1>5 DEF Ready

LEMMA StreamInit == Init => StreamInv
BY DEF Init, StreamInv, Fit, Chain, End, Tip, Anywhere

\* Nothing is sent and no client moves.
LEMMA StreamQuiet ==
    ASSUME StreamInv, UNCHANGED <<mpsc, clientVars>>, \A p : Tip(p) => Tip(p)',
           torn' => pump' \in {"frames", "done"} /\ phase' # "building"
    PROVE  StreamInv'
<1>1. mpsc' = mpsc /\ stage' = stage /\ rx' = rx /\ view' = view /\ missed' = missed
  BY DEF clientVars
<1>2. \A c \in Clients : ClientFits(c) => ClientFits(c)'
  BY <1>1 DEF ClientFits, Ready, Known
<1>. QED
  BY <1>1, <1>2 DEF StreamInv

\* An event is sent that can be used wherever what was sent before it leads.
LEMMA StreamSend ==
    ASSUME Inv, StreamInv, NEW e \in Event, mpsc' = Append(mpsc, e), UNCHANGED clientVars,
           \A p : Tip(p) => Link(p, e), Tip(Mark(e))',
           torn' => pump' \in {"frames", "done"} /\ phase' # "building"
    PROVE  StreamInv'
<1>1. mpsc \in Seq(Event) /\ stage' = stage /\ rx' = rx /\ view' = view /\ missed' = missed
  BY DEF Inv, TypeOK, clientVars
<1>2. ASSUME NEW p, Fit(p, mpsc), Tip(End(p, mpsc))
      PROVE  Fit(p, mpsc') /\ Tip(End(p, mpsc))'
  <2>1. Fit(p, mpsc') /\ End(p, mpsc') = Mark(e)
    BY <1>1, <1>2, AppendFit
  <2>. QED
    BY <2>1
<1>3. ASSUME NEW c \in Clients, ClientFits(c)
      PROVE  ClientFits(c)'
  <2>1. PICK p : p = End(Known(c), rx[c])
    OBVIOUS
  <2>2. p = End(Known(c), rx[c])' /\ Known(c)' = Known(c) /\ rx'[c] = rx[c]
    BY <1>1, <2>1 DEF Known
  <2>3. Fit(p, mpsc') /\ Tip(End(p, mpsc))'
    BY <1>2, <1>3, <2>1 DEF ClientFits, Ready
  <2>. QED
    BY <1>3, <2>2, <2>3 DEF ClientFits, Ready
<1>4. Fit(Anywhere, mpsc') /\ Tip(End(Anywhere, mpsc))'
  BY <1>2 DEF StreamInv
<1>. QED
  BY <1>1, <1>3, <1>4 DEF StreamInv

LEMMA StreamPump ==
    ASSUME Inv, StreamInv, SendInit \/ SendFirst \/ PumpRead
    PROVE  StreamInv'
<1>1. /\ gen \in Gens /\ gen' = gen /\ phase' = phase /\ UNCHANGED clientVars
      /\ torn \in BOOLEAN /\ mid \in BOOLEAN /\ phase # "building"
  BY DEF Inv, TypeOK, PumpGone, SendInit, SendFirst, PumpRead, captureVars
<1>2. CASE SendInit
  <2>5. PICK e : e = [kind |-> "init", gen |-> gen]
    OBVIOUS
  <2>1. e \in Event /\ e.kind = "init" /\ Mark(e) = Started(gen)
    BY <1>1, <2>5 DEF Event, Mark
  <2>2. mpsc' = Append(mpsc, e) /\ pump = "init" /\ pump' = "first" /\ torn' = torn /\ ~torn
    BY <1>2, <2>5 DEF SendInit, StreamInv
  <2>3. \A p : Tip(p) => Link(p, e)
    BY <2>1, <2>2 DEF Tip, Link
  <2>4. Tip(Mark(e))'
    BY <1>1, <2>1, <2>2 DEF Tip
  <2>. QED
    BY <1>1, <2>1, <2>2, <2>3, <2>4, StreamSend
<1>3. CASE SendFirst \/ PumpRead
  <2>1. PICK from \in BOOLEAN :
           /\ SendChunk(from) /\ pump' = "frames" /\ pump \in {"first", "frames"}
           /\ pump = "first" => ~from /\ ~torn
           /\ pump = "frames" => from = mid
    BY <1>1, <1>3 DEF SendFirst, PumpRead, StreamInv
  <2>2. PICK to \in BOOLEAN :
           /\ TrySend([kind |-> "frame", gen |-> gen, from |-> from, to |-> to, gap |-> torn])
           /\ mid' = to
    BY <2>1 DEF SendChunk
  <2>3. PICK e : e = [kind |-> "frame", gen |-> gen, from |-> from, to |-> to, gap |-> torn]
    OBVIOUS
  <2>4. /\ e \in Event /\ e.kind = "frame" /\ e.from = from /\ e.to = to /\ e.gap = torn
        /\ e.gen = gen
    BY <1>1, <2>1, <2>2, <2>3 DEF Event
  <2>5. Mark(e) = IF to THEN Within(gen) ELSE Boundary(gen)
    BY <2>4 DEF Mark
  <2>6. \A p : Tip(p) => Link(p, e)
    BY <2>1, <2>4 DEF Tip, Link
  <2>7. CASE mpsc' = Append(mpsc, e) /\ torn' = FALSE
    <3>1. Tip(Mark(e))'
      BY <1>1, <2>1, <2>2, <2>5 DEF Tip
    <3>. QED
      BY <1>1, <2>4, <2>6, <2>7, <3>1, StreamSend
  <2>8. CASE mpsc' = mpsc /\ torn' = ~Whole(e)
    <3>1. ASSUME NEW p, Tip(p) PROVE Tip(p)'
      <4>1. CASE p = Anywhere \/ ~Whole(e)
        BY <2>8, <4>1 DEF Tip
      <4>2. CASE p # Anywhere /\ Whole(e)
        <5>1. ~from /\ ~to /\ ~torn
          BY <2>4, <4>2 DEF Whole
        <5>2. p \in {Started(gen), Boundary(gen)}
          BY <2>1, <3>1, <4>2, <5>1 DEF Tip
        <5>. QED
          BY <1>1, <2>1, <2>2, <5>1, <5>2 DEF Tip
      <4>. QED
        BY <4>1, <4>2
    <3>. QED
      BY <1>1, <2>1, <2>8, <3>1, StreamQuiet
  <2>. QED
    BY <2>2, <2>3, <2>7, <2>8 DEF TrySend
<1>. QED
  BY <1>2, <1>3

\* An event is broadcast: a receiver that is behind by a full channel loses one.
LEMMA StreamFanout ==
    ASSUME Inv, StreamInv, Fanout
    PROVE  StreamInv'
<1>1. PICK e : e = Head(mpsc)
  OBVIOUS
<1>2. /\ mpsc \in Seq(Event) /\ mpsc # <<>> /\ mpsc' = Tail(mpsc)
      /\ UNCHANGED <<captureVars, pumpVars, stage, view>>
      /\ \A c \in Clients : rx[c] \in Seq(Event) /\ Len(rx[c]) \in Nat
      /\ RingCap \in Nat \ {0}
  BY AgentStreamAssumption DEF Inv, TypeOK, Fanout
<1>3. e \in Event /\ Tail(mpsc) \in Seq(Event)
  BY <1>1, <1>2, TailOf
<1>4. /\ Fit(Mark(e), mpsc')
      /\ \A v : End(Mark(e), mpsc') = End(v, mpsc)
      /\ \A v : Fit(v, mpsc) => Link(v, e)
  BY <1>1, <1>2, TailFit DEF StreamInv, Fit
<1>5. /\ phase' = phase /\ pump' = pump /\ gen' = gen /\ mid' = mid /\ torn' = torn
      /\ stage' = stage /\ view' = view
  BY <1>2 DEF captureVars, pumpVars
<1>6. \A p : Tip(p) <=> Tip(p)'
  BY <1>5 DEF Tip
<1>7. ASSUME NEW c \in Clients, stage[c] # "away"
      PROVE  ClientFits(c)'
  <2>1. ClientFits(c)
    BY <1>7 DEF StreamInv
  <2>2. PICK p : p = Known(c)
    OBVIOUS
  <2>3. PICK r, q : /\ r = Known(c)' /\ r # Garbled /\ q \in Seq(Event)
                    /\ rx'[c] = Append(q, e) /\ Ready(r, q, mpsc)
    <3>1. CASE Len(rx[c]) # RingCap
      <4>1. Known(c)' = Known(c)
        BY <1>5, <3>1 DEF Known, Fanout
      <4>2. rx'[c] = Append(rx[c], e)
        BY <1>1, <1>7, <3>1 DEF Fanout, Push
      <4>. QED
        BY <1>2, <2>1, <4>1, <4>2 DEF ClientFits
    <3>2. CASE Len(rx[c]) = RingCap
      <4>1. rx[c] # <<>>
        BY <1>2, <3>2
      <4>2. PICK d : d = Head(rx[c])
        OBVIOUS
      <4>3. d \in Event /\ Tail(rx[c]) \in Seq(Event)
        BY <1>2, <4>1, <4>2, TailOf
      <4>4. rx'[c] = Append(Tail(rx[c]), e)
        BY <1>1, <1>7, <3>2 DEF Fanout, Push
      <4>5. missed'[c] = (missed[c] \/ ~Whole(d))
        BY <1>7, <3>2, <4>2 DEF Fanout
      <4>6. Link(p, d)
        BY <1>2, <2>1, <2>2, <4>1, <4>2, TailFit DEF ClientFits, Ready, Fit
      <4>7. /\ Known(c)' = Anywhere \/ (Known(c)' = p /\ Whole(d))
            /\ Known(c)' # Garbled
        <5>1. CASE missed[c] \/ ~Whole(d)
          BY <4>5, <5>1 DEF Known, Anywhere, Garbled
        <5>2. CASE ~missed[c] /\ Whole(d)
          BY <1>5, <2>1, <2>2, <4>5, <5>2 DEF Known, ClientFits
        <5>. QED
          BY <5>1, <5>2
      <4>8. Stands(Known(c)', Mark(d))
        <5>1. CASE Known(c)' = Anywhere
          BY <5>1 DEF Stands
        <5>2. CASE Known(c)' = p /\ Whole(d)
          BY <4>3, <4>6, <5>2, Skipped
        <5>. QED
          BY <4>7, <5>1, <5>2
      <4>9. Ready(p, rx[c], mpsc)
        BY <2>1, <2>2 DEF ClientFits
      <4>10. PICK r : r = Known(c)'
        OBVIOUS
      <4>11. Ready(r, Tail(rx[c]), mpsc)
        BY <1>2, <4>1, <4>2, <4>8, <4>9, <4>10, Taken
      <4>. QED
        BY <4>3, <4>4, <4>7, <4>10, <4>11
    <3>. QED
      BY <3>1, <3>2
  <2>4. Link(End(r, q), e)
    BY <1>4, <2>3 DEF Ready
  <2>5. Fit(r, rx'[c]) /\ End(r, rx'[c]) = Mark(e)
    BY <1>3, <2>3, <2>4, AppendFit DEF Ready
  <2>6. PICK v : v = End(Mark(e), mpsc')
    OBVIOUS
  <2>7. Tip(v)
    BY <1>4, <2>3, <2>6 DEF Ready
  <2>8. Tip(v)'
    BY <1>6, <2>7
  <2>9. (Tip(End(Mark(e), mpsc)))'
    BY <2>6, <2>8
  <2>10. Fit(r, rx[c])' /\ (End(r, rx[c]))' = Mark(e) /\ Fit(Mark(e), mpsc)'
    BY <1>4, <2>5
  <2>11. Ready(r, rx[c], mpsc)'
    BY <2>9, <2>10 DEF Ready
  <2>. QED
    BY <2>3, <2>11 DEF ClientFits
<1>8. Fit(Anywhere, mpsc)' /\ Tip(End(Anywhere, mpsc))'
  <2>1. Fit(Anywhere, mpsc)'
    BY <1>4 DEF Fit, Link
  <2>2. CASE mpsc' = <<>>
    BY <2>1, <2>2 DEF End, Tip
  <2>3. CASE mpsc' # <<>>
    <3>1. PICK v : v = End(Anywhere, mpsc)'
      OBVIOUS
    <3>2. v = End(Anywhere, mpsc)
      <4>1. End(Mark(e), mpsc') = End(Anywhere, mpsc)
        BY <1>4
      <4>2. End(Mark(e), mpsc') = End(Anywhere, mpsc')
        BY <2>3 DEF End
      <4>. QED
        BY <3>1, <4>1, <4>2
    <3>3. Tip(v)'
      BY <1>6, <3>2 DEF StreamInv
    <3>. QED
      BY <2>1, <3>1, <3>3
  <2>. QED
    BY <2>1, <2>2, <2>3
<1>9. \A c \in Clients : stage[c] = "away" => rx'[c] = rx[c]
  BY DEF Fanout
<1>. QED
  BY <1>5, <1>7, <1>8, <1>9 DEF StreamInv

\* A client comes, goes, pauses or receives.
LEMMA StreamClient ==
    ASSUME Inv, StreamInv, NEW c \in Clients, ClientStep(c)
    PROVE  StreamInv'
<1>1. UNCHANGED <<captureVars, pumpVars, mpsc>>
  BY DEF ClientStep, Accept, Serve, Leave, SetPaused, Receive
<1>2. /\ gen' = gen /\ mid' = mid /\ mpsc' = mpsc /\ pump' = pump /\ phase' = phase
      /\ torn' = torn
  BY <1>1 DEF captureVars, pumpVars
<1>3. /\ \A d \in Clients : rx[d] \in Seq(Event)
      /\ stage \in [Clients -> {"away", "greeting", "serving"}]
      /\ rx \in [Clients -> Seq(Event)] /\ missed \in [Clients -> BOOLEAN]
      /\ view \in [Clients -> Views]
      /\ mpsc \in Seq(Event)
  BY DEF Inv, TypeOK
<1>4. \A p : Tip(p) <=> Tip(p)'
  BY <1>2 DEF Tip
<1>5. \A d \in Clients \ {c} :
         stage'[d] = stage[d] /\ rx'[d] = rx[d] /\ view'[d] = view[d] /\ missed'[d] = missed[d]
  BY <1>3 DEF ClientStep, Accept, Serve, Leave, SetPaused, Receive
<1>6. \A p, r : Ready(p, r, mpsc) => Ready(p, r, mpsc)'
  BY <1>2, <1>4 DEF Ready
<1>7. ASSUME NEW d \in Clients, ClientFits(d), rx'[d] = rx[d], Known(d)' = Known(d)
      PROVE  ClientFits(d)'
  <2>1. PICK p, r : p = Known(d) /\ r = rx[d]
    OBVIOUS
  <2>. QED
    BY <1>6, <1>7, <2>1 DEF ClientFits, Ready
<1>8. \A d \in Clients \ {c} : ClientFits(d) => ClientFits(d)'
  BY <1>5, <1>7 DEF Known
<1>9. IF stage'[c] = "away" THEN rx'[c] = <<>> /\ view'[c] = Fresh ELSE ClientFits(c)'
  <2>1. CASE Accept(c)
    <3>1. /\ stage'[c] = "greeting" /\ rx'[c] = <<>> /\ view'[c] = Fresh
          /\ missed'[c] = ~BeforeInit
      BY <1>3, <2>1 DEF Accept, StreamInv
    <3>2. PICK p : p = Known(c)'
      OBVIOUS
    <3>3. Fit(p, <<>>) /\ End(p, <<>>) = p
      BY DEF Fit, Chain, End
    <3>4. CASE ~BeforeInit
      <4>1. p = Anywhere /\ p # Garbled
        BY <3>1, <3>2, <3>4 DEF Known, Anywhere, Garbled
      <4>. QED
        BY <1>6, <3>1, <3>2, <3>3, <4>1 DEF ClientFits, Ready, StreamInv
    <3>5. CASE BeforeInit
      <4>1. p = Fresh /\ p # Garbled /\ p.at \in Between
        <5>1. ~missed'[c]
          BY <3>1, <3>5, Zenon
        <5>2. p = Fresh
          BY <3>1, <3>2, <5>1 DEF Known
        <5>. QED
          BY <5>2 DEF Fresh, Garbled, Between
      <4>2. mpsc # <<>> => Link(p, mpsc[1])
        <5>1. mpsc # <<>> => mpsc[1] \in Event /\ mpsc[1] = Head(mpsc)
          BY <1>3, TailOf
        <5>. QED
          BY <3>5, <4>1, <5>1 DEF BeforeInit, Link, Event
      <4>3. Fit(p, mpsc)
        BY <4>2 DEF Fit, StreamInv
      <4>4. Tip(End(p, mpsc))
        <5>1. CASE mpsc = <<>>
          BY <3>5, <4>1, <5>1 DEF BeforeInit, End, Tip
        <5>2. CASE mpsc # <<>>
          <6>1. End(p, mpsc) = End(Anywhere, mpsc)
            BY <5>2 DEF End
          <6>. QED
            BY <6>1 DEF StreamInv
        <5>. QED
          BY <5>1, <5>2
      <4>. QED
        BY <1>6, <3>1, <3>2, <3>3, <4>1, <4>3, <4>4 DEF ClientFits, Ready
    <3>. QED
      BY <3>4, <3>5
  <2>2. CASE Serve(c) \/ SetPaused(c)
    <3>1. /\ stage[c] # "away" /\ stage'[c] # "away" /\ rx'[c] = rx[c] /\ view'[c] = view[c]
          /\ missed'[c] = missed[c]
      BY <1>3, <2>2 DEF Serve, SetPaused
    <3>. QED
      BY <1>7, <3>1 DEF Known, StreamInv
  <2>3. CASE Leave(c)
    BY <1>3, <2>3 DEF Leave
  <2>4. CASE Receive(c)
    <3>1. PICK e, p : e = Head(rx[c]) /\ p = Known(c)
      OBVIOUS
    <3>2. /\ stage[c] = "serving" /\ stage'[c] = "serving" /\ rx[c] # <<>>
          /\ rx'[c] = Tail(rx[c])
          /\ view'[c] = IF HeldBack(c) THEN view[c] ELSE Decode(view[c], e)
          /\ missed'[c] = (e.kind # "reinit" /\ (missed[c] \/ Misses(c, e)))
          /\ HeldBack(c) => e.kind # "reinit"
      BY <1>3, <2>4, <3>1 DEF Receive, HeldBack
    <3>3. p # Garbled /\ Ready(p, rx[c], mpsc)
      BY <3>1, <3>2 DEF StreamInv, ClientFits
    <3>4. e \in Event /\ Tail(rx[c]) \in Seq(Event)
      BY <1>3, <3>1, <3>2, TailOf
    <3>5. Link(p, e)
      BY <1>3, <3>1, <3>2, <3>3, TailFit DEF Ready, Fit
    <3>6. PICK r : r = Known(c)'
      OBVIOUS
    <3>7. r # Garbled /\ Stands(r, Mark(e))
      <4>1. CASE e.kind = "reinit"
        <5>1. r = Fresh /\ Mark(e) = Fresh
          BY <3>2, <3>6, <4>1 DEF Known, Decode, Mark
        <5>. QED
          BY <5>1 DEF Stands, Fresh, Garbled
      <4>2. CASE e.kind # "reinit" /\ (missed[c] \/ Misses(c, e))
        BY <3>2, <3>6, <4>2 DEF Known, Stands, Anywhere, Garbled
      <4>3. CASE e.kind # "reinit" /\ ~missed[c] /\ ~Misses(c, e)
        <5>1. r = view'[c] /\ p = view[c] /\ view[c] \in Views
          BY <1>3, <3>1, <3>2, <3>6, <4>3 DEF Known
        <5>2. CASE HeldBack(c)
          <6>1. Whole(e) /\ r = p
            BY <3>2, <4>3, <5>1, <5>2 DEF Misses
          <6>. QED
            BY <3>3, <3>4, <3>5, <6>1, Skipped
        <5>3. CASE ~HeldBack(c)
          <6>1. r = Decode(p, e) /\ ~(e.kind = "frame" /\ e.gap)
            BY <3>2, <4>3, <5>1, <5>3 DEF Misses
          <6>2. r = Mark(e)
            BY <3>3, <3>4, <3>5, <5>1, <6>1, Decoded
          <6>. QED
            BY <3>4, <6>2, MarkKnown DEF Stands
        <5>. QED
          BY <5>2, <5>3
      <4>. QED
        BY <4>1, <4>2, <4>3
    <3>8. Ready(r, Tail(rx[c]), mpsc)
      BY <1>3, <3>1, <3>2, <3>3, <3>7, Taken
    <3>. QED
      BY <1>6, <3>2, <3>6, <3>7, <3>8 DEF ClientFits, Ready
  <2>. QED
    BY <2>1, <2>2, <2>3, <2>4 DEF ClientStep
<1>10. Fit(Anywhere, mpsc)' /\ Tip(End(Anywhere, mpsc))'
  BY <1>2, <1>4 DEF StreamInv
<1>. QED
  BY <1>2, <1>5, <1>8, <1>9, <1>10 DEF StreamInv

LEMMA StreamNext == ASSUME Inv, StreamInv, [Next]_vars PROVE StreamInv'
<1>1. CASE \/ CaptureFrame \/ WriteFails \/ DisplayChanges \/ DropEncoder \/ JoinPump
           \/ BuildEncoder \/ BuildFails \/ FfmpegDies \/ FindMoof \/ PumpEof
           \/ UNCHANGED vars
  <2>1. UNCHANGED <<mpsc, clientVars>> /\ torn' = torn
    BY <1>1
       DEF CaptureFrame, WriteFails, DisplayChanges, DropEncoder, JoinPump, BuildEncoder,
           StartEncoder, BuildFails, FfmpegDies, FindMoof, PumpEof, vars, captureVars,
           pumpVars, clientVars
  <2>2. \/ pump' = pump /\ gen' = gen /\ mid' = mid /\ (phase' = "building" => phase = "building")
        \/ BuildEncoder \/ FindMoof \/ PumpEof
    BY <1>1
       DEF CaptureFrame, WriteFails, DisplayChanges, DropEncoder, JoinPump,
           BuildFails, FfmpegDies, vars, captureVars, pumpVars
  <2>3. CASE pump' = pump /\ gen' = gen /\ mid' = mid /\ (phase' = "building" => phase = "building")
    <3>1. \A p : Tip(p) => Tip(p)'
      BY <2>1, <2>3 DEF Tip
    <3>2. torn' => pump' \in {"frames", "done"} /\ phase' # "building"
      BY <2>1, <2>3 DEF StreamInv
    <3>. QED
      BY <2>1, <3>1, <3>2, StreamQuiet
  <2>4. CASE BuildEncoder
    <3>1. phase = "building" /\ ~torn /\ pump' = "head" /\ phase' = "polling"
      BY <2>4 DEF BuildEncoder, StartEncoder, StreamInv
    <3>2. \A p : Tip(p) => Tip(p)'
      BY <2>1, <3>1 DEF Tip, Fresh, Between
    <3>. QED
      BY <2>1, <3>1, <3>2, StreamQuiet
  <2>5. CASE FindMoof \/ PumpEof
    <3>1. /\ phase' = phase /\ phase # "building"
          /\ \/ pump = "head" /\ pump' = "init"
             \/ pump \in {"head", "frames"} /\ pump' = "done"
      BY <2>5 DEF Inv, PumpGone, FindMoof, PumpEof, captureVars
    <3>2. \A p : Tip(p) => Tip(p)'
      BY <2>1, <3>1 DEF Tip
    <3>3. torn' => pump' \in {"frames", "done"} /\ phase' # "building"
      BY <2>1, <3>1 DEF StreamInv
    <3>. QED
      BY <2>1, <3>2, <3>3, StreamQuiet
  <2>. QED
    BY <2>2, <2>3, <2>4, <2>5
<1>2. CASE SendReinit
  <2>1. PICK e : e = [kind |-> "reinit", gen |-> gen + 1]
    OBVIOUS
  <2>2. gen \in Gens /\ gen < MaxGen /\ pump = "done"
    BY <1>2 DEF Inv, TypeOK, PumpGone, Bounds, SendReinit
  <2>3. e \in Event /\ e.kind = "reinit" /\ Mark(e) = Fresh
    BY <2>1, <2>2, AgentStreamAssumption DEF Gens, Event, Mark
  <2>4. mpsc' = Append(mpsc, e) /\ UNCHANGED clientVars /\ pump' = "done" /\ torn' = FALSE
    BY <1>2, <2>1, <2>2 DEF SendReinit
  <2>5. Tip(Mark(e))' /\ \A p : Link(p, e)
    BY <2>3, <2>4 DEF Tip, Link
  <2>. QED
    BY <2>3, <2>4, <2>5, StreamSend
<1>3. CASE SendInit \/ SendFirst \/ PumpRead
  BY <1>3, StreamPump
<1>4. CASE Fanout
  BY <1>4, StreamFanout
<1>5. CASE \E c \in Clients : ClientStep(c)
  BY <1>5, StreamClient
<1>. QED
  BY <1>1, <1>2, <1>3, <1>4, <1>5 DEF Next, CaptureStep, PumpStep

\* Everything a client is sent can be decoded, or the client has missed, since
\* its last Reinit, an init segment or a part of a fragment: nothing else breaks
\* the stream of encoders/h264.rs and server.rs off, wherever ffmpeg's output is
\* cut, whatever full channels drop, and whenever displays change, processes die
\* and clients come, pause and go.
THEOREM Decodable == Spec => []StreamIsDecodable
<1>1. Inv /\ StreamInv /\ [Next]_vars => StreamInv'
  BY StreamNext
<1>2. StreamInv => StreamIsDecodable
  <2>. SUFFICES ASSUME StreamInv, NEW c \in Clients, ~missed[c] PROVE view[c] # Garbled
    BY DEF StreamIsDecodable
  <2>1. CASE stage[c] = "away"
    BY <2>1 DEF StreamInv, Fresh, Garbled
  <2>2. CASE stage[c] # "away"
    BY <2>2 DEF StreamInv, ClientFits, Known
  <2>. QED
    BY <2>1, <2>2
<1>3. Spec => []Inv
  BY Invariance
<1>. QED
  BY <1>1, <1>2, <1>3, StreamInit, PTL DEF Spec
=============================================================================
