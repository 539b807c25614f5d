----------------------------- MODULE MsePlayer -----------------------------
(* useMseViewer: H.264 fragments go through a queue into the SourceBuffer of a
   MediaSource that opens when it likes.  Fragments are numbered from the last
   reinit; the first is the init segment. *)
EXTENDS Naturals, Sequences

CONSTANT MaxFrames  \* bound: fragments of a generation

VARIABLES source,    \* "none", "opening", "open": the MediaSource; ready with the last
          updating,  \* the SourceBuffer works on a buffer or a removal
          queue,
          appended,  \* the fragments this SourceBuffer was given
          received,  \* fragments since the source was set up
          torn       \* a buffer was lost in appendBuffer since

playerVars == <<source, updating, queue, appended, received, torn>>

PlayerTypeOK ==
    /\ source \in {"none", "opening", "open"}
    /\ updating \in BOOLEAN /\ torn \in BOOLEAN
    /\ queue \in Seq(Nat) /\ appended \in Seq(Nat) /\ received \in Nat

Off == source = "none" /\ updating = FALSE /\ queue = <<>> /\ appended = <<>> /\ received = 0 /\ torn = FALSE

Fresh(next) ==
    /\ source' = next
    /\ updating' = FALSE /\ queue' = <<>> /\ appended' = <<>>
    /\ received' = 0 /\ torn' = FALSE

\* Fault: the queue outlives the source.
SetupMse_KeepsQueue ==
    /\ source' = "opening"
    /\ updating' = FALSE /\ appended' = <<>>
    /\ received' = 0 /\ torn' = FALSE
    /\ UNCHANGED queue

\* setupMse, for a session and after every reinit.
SetupMse == Fresh("opening")
EndMse == Fresh("none")

\* sourceopen; what was queued waits for the next fragment.
SourceOpens ==
    /\ source = "opening"
    /\ source' = "open"
    /\ UNCHANGED <<updating, queue, appended, received, torn>>

\* flushQueue of the queue q: old content is removed first, a buffer is
\* appended, or appendBuffer throws and the buffer is lost.
Flush(q) ==
    \/ updating' = TRUE /\ queue' = q /\ UNCHANGED <<appended, torn>>
    \/ updating' = TRUE /\ queue' = Tail(q) /\ appended' = Append(appended, Head(q)) /\ UNCHANGED torn
    \/ updating' = FALSE /\ queue' = Tail(q) /\ torn' = TRUE /\ UNCHANGED appended

\* appendFrame
Fragment ==
    /\ source # "none"
    /\ received < MaxFrames
    /\ received' = received + 1
    /\ LET q == Append(queue, received')
       IN  IF source = "open" /\ ~updating
           THEN Flush(q)
           ELSE queue' = q /\ UNCHANGED <<updating, appended, torn>>
    /\ UNCHANGED source

UpdateEnds ==
    /\ updating
    /\ IF queue = <<>>
       THEN updating' = FALSE /\ UNCHANGED <<queue, appended, torn>>
       ELSE Flush(queue)
    /\ UNCHANGED <<source, received>>
=============================================================================
