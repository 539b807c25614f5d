----------------------------- MODULE AgentFrames -----------------------------
(* What the backend does with the pictures of the agent it is connected to:
   saveFrame of the agent client, a call per picture, cut at its awaits, and
   the rows of FramesService.  A connection object is used again when its
   last session has nothing left to save. *)
EXTENDS AgentClient, Sequences, FiniteSets

CONSTANT MaxFrames  \* bound: pictures of a session

ASSUME AgentFramesAssumption == MaxFrames \in Nat

VARIABLES persist,  \* PERSIST_FRAMES, or what connect was told
          seq,      \* session.seq
          frames    \* the calls of saveFrame, in the order of their pictures

frameVars == <<persist, seq, frames>>
allVars == <<vars, frameVars>>

\* A call waits for its directory, its file or its row.  History, which no
\* action reads: whether no other call was on its way with it.
Awaiting == {"mkdir", "writeFile", "save"}
Calls == [at : Awaiting \cup {"saved", "failed"}, name : 0..MaxFrames,
          number : 0..MaxFrames, alone : BOOLEAN]
FramesTypeOK ==
    /\ persist \in BOOLEAN
    /\ seq \in [Conns -> 0..MaxFrames]
    /\ frames \in [Conns -> Seq(Calls)]

FramesInit ==
    /\ Init
    /\ persist \in BOOLEAN
    /\ seq = [c \in Conns |-> 0]
    /\ frames = [c \in Conns |-> <<>>]

Idle(c) == \A i \in DOMAIN frames[c] : frames[c][i].at \notin Awaiting

NewCall(alone) == [at |-> "mkdir", name |-> 0, number |-> 0, alone |-> alone]
\* A call joins those on their way, if any.
Joined(calls) == Append(
    [i \in DOMAIN calls |-> IF calls[i].at \in Awaiting
                            THEN [calls[i] EXCEPT !.alone = FALSE] ELSE calls[i]],
    NewCall(\A i \in DOMAIN calls : calls[i].at \notin Awaiting))

\* A picture comes at any time.  That of an agent that is not let in yet is
\* dropped; one that is not to be kept is counted.
Frame(c) ==
    /\ ws[c] # "closed" /\ Connected(c)
    /\ IF persist
       THEN /\ Len(frames[c]) < MaxFrames
            /\ frames' = [frames EXCEPT ![c] = Joined(@)]
            /\ UNCHANGED seq
       ELSE /\ seq[c] < MaxFrames
            /\ seq' = [seq EXCEPT ![c] = @ + 1]
            /\ UNCHANGED frames
    /\ UNCHANGED <<vars, persist>>

\* The file is named after the count of this moment, and the row after that of
\* a later one.
Advance(c, i) ==
    /\ \/ /\ frames[c][i].at = "mkdir"
          /\ frames' = [frames EXCEPT ![c][i].at = "writeFile", ![c][i].name = seq[c]]
       \/ /\ frames[c][i].at = "writeFile"
          /\ frames' = [frames EXCEPT ![c][i].at = "save", ![c][i].number = seq[c]]
    /\ UNCHANGED <<vars, persist, seq>>

Saved(c, i) ==
    /\ frames[c][i].at = "save"
    /\ frames' = [frames EXCEPT ![c][i].at = "saved"]
    /\ seq' = [seq EXCEPT ![c] = @ + 1]
    /\ UNCHANGED <<vars, persist>>

\* Fault: a picture counts although it could not be saved.
Fails_Counts(c, i) ==
    /\ frames[c][i].at \in Awaiting
    /\ frames' = [frames EXCEPT ![c][i].at = "failed"]
    /\ seq' = [seq EXCEPT ![c] = @ + 1]
    /\ UNCHANGED <<vars, persist>>

\* The directory, the file or the database refuses.
Fails(c, i) ==
    /\ frames[c][i].at \in Awaiting
    /\ frames' = [frames EXCEPT ![c][i].at = "failed"]
    /\ UNCHANGED <<vars, persist, seq>>

SaveStep(c) == \E i \in DOMAIN frames[c] : Advance(c, i) \/ Saved(c, i) \/ Fails(c, i)

\* A session begins with nothing counted.
Begins(c) == ws[c] = "closed" /\ ws'[c] = "connecting"
ClientStep ==
    /\ Next
    /\ \A c \in Conns : Begins(c) => Idle(c)
    /\ seq' = [c \in Conns |-> IF Begins(c) THEN 0 ELSE seq[c]]
    /\ frames' = [c \in Conns |-> IF Begins(c) THEN <<>> ELSE frames[c]]
    /\ UNCHANGED persist

FramesNext == ClientStep \/ \E c \in Conns : Frame(c) \/ SaveStep(c)

\* Disk and database answer.
FramesSpec ==
    /\ FramesInit /\ [][FramesNext]_allVars
    /\ Fairness
    /\ \A c \in Conns : WF_allVars(SaveStep(c))

(* ---- properties ---- *)

\* How many of the pictures before the i-th have a row, and how many others.
Before(calls, i) == Cardinality({j \in 1..(i - 1) : calls[j].at = "saved"})
Others(calls, i) == Cardinality({j \in (1..Len(calls)) \ {i} : calls[j].at = "saved"})

\* However many pictures failed or came together before it, the row of one that
\* was saved alone has the number of the rows before it, and its file the same;
\* the row of any other is numbered neither beyond the rows there are nor below
\* its file.
RowsAreNumbered == \A c \in Conns : \A i \in 1..Len(frames[c]) :
    frames[c][i].at = "saved" =>
        /\ frames[c][i].name <= frames[c][i].number
        /\ frames[c][i].number <= Others(frames[c], i)
        /\ frames[c][i].alone => /\ frames[c][i].number = Before(frames[c], i)
                                 /\ frames[c][i].name = frames[c][i].number
=============================================================================
