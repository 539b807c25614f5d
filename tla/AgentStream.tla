----------------------------- MODULE AgentStream -----------------------------
(***************************************************************************)
(* The way of a picture through the Rust agent, with the H.264 encoder:    *)
(* apps/agent/src/encoders/mod.rs, encoders/h264.rs, services/ffmpeg.rs    *)
(* and the broadcast of apps/agent/src/server.rs.                          *)
(*                                                                         *)
(*   capture thread -> ffmpeg -> pump thread -> mpsc -> fan-out task       *)
(*     -> broadcast -> one handle_client task per client -> its decoder    *)
(*                                                                         *)
(* An encoder lives until the display changes, then a new generation of it *)
(* is built.  A generation begins with one Init event (ftyp, moov) and     *)
(* goes on with Frame events, each whatever one read of ffmpeg's output    *)
(* returned: it may start and end in the middle of a fragment.  The        *)
(* capture runs while a client is served; how the tasks maintain that is   *)
(* module AgentServer, and here it is taken as done.                       *)
(***************************************************************************)
EXTENDS Naturals, Sequences

CONSTANTS
    Clients,
    QueueCap,       \* capacity of the mpsc channel (4)
    RingCap,        \* capacity of the broadcast channel (16)
    PipeCap,        \* pictures ffmpeg and its pipes hold
    MaxGen          \* bound: encoders built in a run

ASSUME AgentStreamAssumption ==
    /\ QueueCap \in Nat \ {0} /\ RingCap \in Nat \ {0}
    /\ PipeCap \in Nat \ {0} /\ MaxGen \in Nat \ {0}

VARIABLES
    phase,   \* where the capture thread is
    gen,     \* the encoder it uses
    ffmpeg,  \* that encoder's process
    fed,     \* pictures written to it whose fragment was not read completely
    pump,    \* where that encoder's pump thread is
    mid,     \* the pump's last read ended inside a fragment
    mpsc,    \* the mpsc channel
    stage,   \* each client's connection
    rx,      \* what each client's broadcast receiver has not received yet
    paused,  \* each client's own flag
    view,    \* what each client's decoder stands at
    \* History, which no action reads: what is lost on the way.
    torn,    \* a part of a fragment was dropped, and nothing sent since
    missed   \* each client has missed, since its last Reinit, what it needs
             \* to decode what follows

captureVars == <<phase, gen, ffmpeg>>
pumpVars == <<fed, pump, mid, torn>>
clientVars == <<stage, rx, paused, view, missed>>
vars == <<captureVars, pumpVars, mpsc, clientVars>>

Gens == 1..MaxGen
Event == [kind : {"init"}, gen : Gens]
    \cup [kind : {"reinit"}, gen : Gens]
    \cup [kind : {"frame"}, gen : Gens, from : BOOLEAN, to : BOOLEAN, gap : BOOLEAN]

\* A decoder expects an init segment ("fresh"), or has one ("started"), or has
\* decoded up to the end of a fragment or into a fragment of a generation, or
\* was sent what does not follow.
Views == [at : {"fresh", "garbled"}] \cup [at : {"started", "boundary", "mid"}, gen : Gens]

TypeOK ==
    /\ phase \in {"polling", "stabilising", "joining", "announcing", "building", "ended"}
    /\ gen \in Gens
    /\ ffmpeg \in {"running", "gone"}
    /\ fed \in 0..PipeCap
    /\ pump \in {"head", "init", "first", "frames", "done"}
    /\ mid \in BOOLEAN
    /\ mpsc \in Seq(Event) /\ Len(mpsc) <= QueueCap
    /\ stage \in [Clients -> {"away", "greeting", "serving"}]
    /\ rx \in [Clients -> Seq(Event)]
    /\ \A c \in Clients : Len(rx[c]) <= RingCap
    /\ paused \in [Clients -> BOOLEAN]
    /\ view \in [Clients -> Views]
    /\ torn \in BOOLEAN
    /\ missed \in [Clients -> BOOLEAN]

Fresh == [at |-> "fresh"]
Garbled == [at |-> "garbled"]

Init ==
    /\ phase = "polling" /\ gen = 1 /\ ffmpeg = "running"
    /\ fed = 0 /\ pump = "head" /\ mid = FALSE
    /\ mpsc = <<>>
    /\ stage = [c \in Clients |-> "away"]
    /\ rx = [c \in Clients |-> <<>>]
    /\ paused = [c \in Clients |-> FALSE]
    /\ view = [c \in Clients |-> Fresh]
    /\ torn = FALSE
    /\ missed = [c \in Clients |-> FALSE]

ShouldCapture == \E c \in Clients : stage[c] = "serving"

-----------------------------------------------------------------------------
(* The capture thread: run_capture_loop                                      *)

\* A picture is written to ffmpeg; the write blocks while its pipe is full.
CaptureFrame ==
    /\ phase = "polling" /\ ShouldCapture /\ ffmpeg = "running"
    /\ fed < PipeCap
    /\ fed' = fed + 1
    /\ UNCHANGED <<captureVars, pump, mid, torn, mpsc, clientVars>>

\* The write fails: the loop, and with it the capture, ends.
WriteFails ==
    /\ phase = "polling" /\ ShouldCapture /\ ffmpeg = "gone"
    /\ phase' = "ended"
    /\ UNCHANGED <<gen, ffmpeg, pumpVars, mpsc, clientVars>>

DisplayChanges ==
    /\ phase = "polling" /\ ShouldCapture
    /\ gen < MaxGen
    /\ phase' = "stabilising"
    /\ UNCHANGED <<gen, ffmpeg, pumpVars, mpsc, clientVars>>

\* Fault: the child is neither killed nor left without input.
DropEncoder_KeepsChild ==
    /\ phase = "stabilising"
    /\ phase' = "joining"
    /\ UNCHANGED <<gen, ffmpeg, pumpVars, mpsc, clientVars>>

\* wait_for_stable_display returns; dropping the encoder kills ffmpeg.
DropEncoder ==
    /\ phase = "stabilising"
    /\ phase' = "joining" /\ ffmpeg' = "gone"
    /\ UNCHANGED <<gen, pumpVars, mpsc, clientVars>>

\* Fault: Reinit is sent while the old pump is still reading.
JoinPump_Detached ==
    /\ phase = "joining"
    /\ phase' = "announcing"
    /\ UNCHANGED <<gen, ffmpeg, pumpVars, mpsc, clientVars>>

\* Dropping the encoder also waits for the pump thread.
JoinPump ==
    /\ phase = "joining" /\ pump = "done"
    /\ phase' = "announcing"
    /\ UNCHANGED <<gen, ffmpeg, pumpVars, mpsc, clientVars>>

SendReinit ==
    /\ phase = "announcing"
    /\ Len(mpsc) < QueueCap
    /\ mpsc' = Append(mpsc, [kind |-> "reinit", gen |-> gen + 1])
    /\ phase' = "building"
    /\ torn' = FALSE
    /\ UNCHANGED <<gen, ffmpeg, fed, pump, mid, clientVars>>

\* H264StreamEncoder::start: a process and a pump thread.
StartEncoder == ffmpeg' = "running" /\ pump' = "head" /\ mid' = FALSE

\* The new encoder is started and given the stable picture.
BuildEncoder ==
    /\ phase = "building"
    /\ gen' = gen + 1
    /\ phase' = "polling"
    /\ StartEncoder
    /\ fed' = 1
    /\ UNCHANGED <<torn, mpsc, clientVars>>

\* ffmpeg cannot be spawned.
BuildFails ==
    /\ phase = "building"
    /\ phase' = "ended"
    /\ UNCHANGED <<gen, ffmpeg, pumpVars, mpsc, clientVars>>

\* External: the ffmpeg process dies.
FfmpegDies ==
    /\ ffmpeg = "running"
    /\ ffmpeg' = "gone"
    /\ UNCHANGED <<phase, gen, pumpVars, mpsc, clientVars>>

-----------------------------------------------------------------------------
(* The pump thread: run_stdout_pump                                          *)

\* A whole fragment can be left out; without anything else what follows cannot
\* be decoded.
Whole(event) == event.kind = "frame" /\ ~event.from /\ ~event.to /\ ~event.gap

\* send_frame: a full channel drops the event.
TrySend(event) ==
    IF Len(mpsc) < QueueCap
    THEN mpsc' = Append(mpsc, event) /\ torn' = FALSE
    ELSE mpsc' = mpsc /\ torn' = ~Whole(event)

\* One read is handed on, up to a fragment's end or into a fragment.
SendChunk(from) ==
    \E to \in BOOLEAN :
       /\ TrySend([kind |-> "frame", gen |-> gen, from |-> from, to |-> to, gap |-> torn])
       /\ mid' = to
       /\ fed' = IF to THEN fed ELSE fed - 1

\* Enough was read to find the first moof.
FindMoof ==
    /\ pump = "head" /\ fed > 0
    /\ pump' = "init"
    /\ UNCHANGED <<captureVars, fed, mid, torn, mpsc, clientVars>>

\* Fault: the init segment is sent like a frame, and dropped like one.
SendInit_TrySend ==
    /\ pump = "init"
    /\ mpsc' = IF Len(mpsc) < QueueCap
               THEN Append(mpsc, [kind |-> "init", gen |-> gen]) ELSE mpsc
    /\ pump' = "first"
    /\ UNCHANGED <<captureVars, fed, mid, torn, clientVars>>

\* blocking_send of what precedes the moof.
SendInit ==
    /\ pump = "init"
    /\ Len(mpsc) < QueueCap
    /\ mpsc' = Append(mpsc, [kind |-> "init", gen |-> gen])
    /\ pump' = "first"
    /\ UNCHANGED <<captureVars, fed, mid, torn, clientVars>>

SendFirst ==
    /\ pump = "first"
    /\ SendChunk(FALSE)
    /\ pump' = "frames"
    /\ UNCHANGED <<captureVars, clientVars>>

PumpRead ==
    /\ pump = "frames" /\ fed > 0
    /\ SendChunk(mid)
    /\ UNCHANGED <<captureVars, pump, clientVars>>

\* End of file: what the dead process had not written is lost.
PumpEof ==
    /\ pump \in {"head", "frames"} /\ ffmpeg = "gone"
    /\ pump' = "done" /\ fed' = 0 /\ mid' = FALSE
    /\ UNCHANGED <<captureVars, torn, mpsc, clientVars>>

-----------------------------------------------------------------------------
(* The fan-out task and the clients                                          *)

\* A receiver that is a full channel behind loses its oldest event.
Push(q, event) == Append(IF Len(q) = RingCap THEN Tail(q) ELSE q, event)

Fanout ==
    /\ mpsc # <<>>
    /\ mpsc' = Tail(mpsc)
    /\ rx' = [c \in Clients |->
          IF stage[c] = "away" THEN rx[c] ELSE Push(rx[c], Head(mpsc))]
    /\ missed' = [c \in Clients |->
          missed[c] \/ (stage[c] # "away" /\ Len(rx[c]) = RingCap /\ ~Whole(Head(rx[c])))]
    /\ UNCHANGED <<captureVars, pumpVars, stage, paused, view>>

\* The next thing broadcast is the beginning of a generation.
BeforeInit ==
    IF mpsc # <<>> THEN Head(mpsc).kind # "frame" ELSE pump \in {"head", "init", "done"}

\* The receiver exists before the handshake and the authentication.  It gets
\* what is broadcast from now on.
Accept(c) ==
    /\ stage[c] = "away"
    /\ stage' = [stage EXCEPT ![c] = "greeting"]
    /\ missed' = [missed EXCEPT ![c] = ~BeforeInit]
    /\ UNCHANGED <<captureVars, pumpVars, mpsc, rx, paused, view>>

Serve(c) ==
    /\ stage[c] = "greeting"
    /\ stage' = [stage EXCEPT ![c] = "serving"]
    /\ UNCHANGED <<captureVars, pumpVars, mpsc, rx, paused, view, missed>>

Leave(c) ==
    /\ stage[c] # "away"
    /\ stage' = [stage EXCEPT ![c] = "away"]
    /\ rx' = [rx EXCEPT ![c] = <<>>]
    /\ paused' = [paused EXCEPT ![c] = FALSE]
    /\ view' = [view EXCEPT ![c] = Fresh]
    /\ missed' = [missed EXCEPT ![c] = FALSE]
    /\ UNCHANGED <<captureVars, pumpVars, mpsc>>

SetPaused(c) ==
    /\ stage[c] = "serving"
    /\ paused' = [paused EXCEPT ![c] = ~@]
    /\ UNCHANGED <<captureVars, pumpVars, mpsc, stage, rx, view, missed>>

\* A decoder (useMseViewer) that stands at v is given an event.
Decode(v, event) ==
    CASE event.kind = "reinit" -> Fresh
      [] event.kind = "init" ->
            IF v.at \in {"fresh", "started", "boundary"}
            THEN [at |-> "started", gen |-> event.gen] ELSE Garbled
      [] event.kind = "frame" ->
            IF v \in [at : IF event.from THEN {"mid"} ELSE {"started", "boundary"},
                      gen : {event.gen}]
            THEN [at |-> IF event.to THEN "mid" ELSE "boundary", gen |-> event.gen]
            ELSE Garbled

\* Pausing holds back everything but Reinit.
HeldBack(c) == paused[c] /\ Head(rx[c]).kind # "reinit"
Misses(c, event) ==
    \/ event.kind = "frame" /\ event.gap
    \/ HeldBack(c) /\ ~Whole(event)
Receive(c) ==
    /\ stage[c] = "serving" /\ rx[c] # <<>>
    /\ rx' = [rx EXCEPT ![c] = Tail(@)]
    /\ view' = [view EXCEPT ![c] = IF HeldBack(c) THEN @ ELSE Decode(@, Head(rx[c]))]
    /\ missed' = [missed EXCEPT ![c] =
          Head(rx[c]).kind # "reinit" /\ (@ \/ Misses(c, Head(rx[c])))]
    /\ UNCHANGED <<captureVars, pumpVars, mpsc, stage, paused>>

-----------------------------------------------------------------------------

CaptureStep ==
    \/ CaptureFrame \/ WriteFails \/ DisplayChanges \/ DropEncoder \/ JoinPump
    \/ SendReinit \/ BuildEncoder \/ BuildFails
PumpStep == FindMoof \/ SendInit \/ SendFirst \/ PumpRead \/ PumpEof
ClientStep(c) == Accept(c) \/ Serve(c) \/ Leave(c) \/ SetPaused(c) \/ Receive(c)

Next ==
    \/ CaptureStep
    \/ FfmpegDies
    \/ PumpStep
    \/ Fanout
    \/ \E c \in Clients : ClientStep(c)

Spec == Init /\ [][Next]_vars

\* Threads and tasks are scheduled, the display settles after a change, a
\* fragment has an end, and clients authenticate and read what they are sent.
Fairness ==
    /\ WF_vars(CaptureFrame) /\ WF_vars(WriteFails) /\ WF_vars(DropEncoder)
    /\ WF_vars(JoinPump) /\ WF_vars(SendReinit) /\ WF_vars(BuildEncoder)
    /\ WF_vars(FindMoof) /\ WF_vars(SendInit) /\ WF_vars(SendFirst)
    /\ WF_vars(PumpRead) /\ WF_vars(PumpRead /\ ~mid') /\ WF_vars(PumpEof)
    /\ WF_vars(Fanout)
    /\ \A c \in Clients : WF_vars(Serve(c)) /\ WF_vars(Receive(c))

FairSpec == Spec /\ Fairness

-----------------------------------------------------------------------------
(* Properties *)

\* Generations pass in order, and Reinit parts them: behind the Reinit of a
\* generation there is nothing of an earlier one (h264.rs, Drop joins the pump
\* before encoders/mod.rs:64 sends Reinit).
InOrder(q) == \A i, j \in DOMAIN q : i < j =>
    /\ q[i].gen <= q[j].gen
    /\ q[j].kind = "reinit" => q[i].gen < q[j].gen
ReinitParts == InOrder(mpsc) /\ \A c \in Clients : InOrder(rx[c])

\* stream.ts:7, "The first binary frame is the init segment", and
\* useMseViewer.ts:84, "next binary frame is a new init segment": what a client
\* is sent can be decoded, although full channels drop fragments, unless an init
\* segment or a part of a fragment passed it by: it came too late, paused, fell
\* behind, or a part was dropped.  The next Reinit makes up for it.
StreamIsDecodable == \A c \in Clients : view[c] = Garbled => missed[c]

\* A client that stays gets a picture, a whole fragment it can decode, at first
\* and after every Reinit, unless it pauses, has missed what it needs for it, or
\* the capture has ended.
AwaitsPicture(c) ==
    stage[c] = "serving" /\ ~paused[c] /\ ~missed[c] /\ view[c].at \in {"fresh", "started"}
PictureComes == \A c \in Clients : AwaitsPicture(c) ~>
    \/ view[c].at = "boundary"
    \/ stage[c] # "serving" \/ paused[c] \/ missed[c] \/ phase = "ended"
=============================================================================
