----------------------------- MODULE MCSignaling -----------------------------
(***************************************************************************)
(* Small instances of Signaling.                                           *)
(*                                                                         *)
(* h1 and h2 are two connections of the page that hosts a1, h3 hosts a2,   *)
(* s1 and s2 are two connections of the browser of viewer v1 (a reload or  *)
(* a second tab), s3 is one of viewer v2.                                  *)
(***************************************************************************)
EXTENDS SignalingAdmission, TLC

CONSTANTS a1, a2, v1, v2, h1, h2, h3, s1, s2, s3, q1, q2, q3

Request(s, type, a, v) == [client |-> s, type |-> type, agentId |-> a, viewerId |-> v]

\* The clients of the repository: one request per socket, one agent per host.
WebDto == q1 :> Request(s1, "viewer", a1, v1) @@
          q2 :> Request(s2, "viewer", a1, v1) @@
          q3 :> Request(s3, "access", a2, v2)

WebHosts == [s \in Sockets |->
    IF s \in {h1, h2} THEN {a1} ELSE IF s = h3 THEN {a2} ELSE {}]

\* A client that sends all its requests on one socket, as two viewers and a
\* device, and a host that hosts two agents on one socket and watches as well.
AnyDto == q1 :> Request(s1, "viewer", a1, v1) @@
          q2 :> Request(s1, "viewer", a1, v2) @@
          q3 :> Request(h1, "viewer", a1, v1)

AnyHosts == [s \in Sockets |->
    IF s = h1 THEN {a1, a2} ELSE IF s = h2 THEN {a1} ELSE {}]
=============================================================================
