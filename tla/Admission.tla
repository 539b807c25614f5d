------------------------------ MODULE Admission ------------------------------
(***************************************************************************)
(* What the signaling gateway promises, without sockets closing under it,  *)
(* databases, timers or maps: a request is decided once, a viewer has one  *)
(* seat at an agent, the seat belongs to the caller granted last, and it   *)
(* is only lost by leaving or to a newer grant.                            *)
(***************************************************************************)
CONSTANTS Requests, Callers, Seats,
          Caller,   \* [Requests -> Callers]
          SeatOf,   \* [Requests -> Seats \cup {None}]: None asks for no seat
          None

VARIABLES verdict, seat

TypeOK ==
    /\ verdict \in [Requests -> {"none", "granted", "refused", "dropped"}]
    /\ seat \in [Seats -> Callers \cup {None}]

Init ==
    /\ verdict = [q \in Requests |-> "none"]
    /\ seat = [x \in Seats |-> None]

\* The undecided requests of a caller.
Open(c) == {q \in Requests : Caller[q] = c /\ verdict[q] = "none"}

Refuse(q) ==
    /\ verdict[q] = "none"
    /\ verdict' = [verdict EXCEPT ![q] = "refused"]
    /\ UNCHANGED seat

Grant(q) ==
    /\ SeatOf[q] = None
    /\ verdict[q] = "none"
    /\ verdict' = [verdict EXCEPT ![q] = "granted"]
    /\ UNCHANGED seat

\* A grant of a seat: the caller gives up any seat it had, and whoever sat
\* there may lose requests it still had open.
Seated(q) == [x \in Seats |->
    IF x = SeatOf[q] THEN Caller[q]
    ELSE IF seat[x] = Caller[q] THEN None ELSE seat[x]]

Admit(q) ==
    /\ SeatOf[q] # None
    /\ verdict[q] = "none"
    /\ seat' = Seated(q)
    /\ \E D \in SUBSET (Open(seat[SeatOf[q]]) \ {q}) :
          verdict' = [p \in Requests |->
              IF p = q THEN "granted" ELSE IF p \in D THEN "dropped" ELSE verdict[p]]

\* A caller leaves: it loses its seat and its open requests, all or some.
Leave(c) ==
    /\ seat' = [x \in Seats |-> IF seat[x] = c THEN None ELSE seat[x]]
    /\ \E D \in SUBSET Open(c) :
          verdict' = [p \in Requests |-> IF p \in D THEN "dropped" ELSE verdict[p]]

Next ==
    \/ \E q \in Requests : Refuse(q) \/ Grant(q) \/ Admit(q)
    \/ \E c \in Callers : Leave(c)

Spec == Init /\ [][Next]_<<verdict, seat>>
=============================================================================
