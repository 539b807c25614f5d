------------------------- MODULE SignalingAdmission -------------------------
(***************************************************************************)
(* The gateway implements Admission, for any clients, as long as the ids   *)
(* of two requests of a viewer do not collide.                             *)
(***************************************************************************)
EXTENDS Signaling

Verdict == [q \in Requests |->
    IF stage[q] \in {"granted", "refused", "dropped"} THEN stage[q] ELSE "none"]

\* The seats are the (agent, viewer) pairs; a seat is taken by the socket
\* registered for it.
Seat == [meta \in ViewerMeta |->
    IF \E s \in Sockets : viewerSockets[s] = meta
    THEN CHOOSE s \in Sockets : viewerSockets[s] = meta ELSE None]

AsksForSeat == [q \in Requests |-> IF Dto[q].type = "viewer" THEN Meta(q) ELSE None]

Abstract == INSTANCE Admission WITH
    Callers <- Sockets,
    Seats <- ViewerMeta,
    Caller <- [q \in Requests |-> Client(q)],
    SeatOf <- AsksForSeat,
    verdict <- Verdict,
    seat <- Seat

\* Every step of the gateway, through its awaits, timers, evictions and close
\* events, is one decision, one departure or nothing to whoever only looks at
\* verdicts and seats (session.manager.ts, signaling.service.ts).
ImplementsAdmission == Abstract!Spec
=============================================================================
