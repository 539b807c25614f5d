---------------------------- MODULE AccessCheck ----------------------------
(* useWhitelistCheck in the form that connects to an agent: the two checks of
   the lists, and the request for the host's approval on a socket of its own. *)

VARIABLES status,    \* "unmounted", or WhitelistStatus
          asking,    \* the checks of the lists are not answered yet
          conn,      \* the socket of the request: "none", "connecting", "open", "closed"
          forsaken,  \* a socket closed while it was connecting has an error to tell
          dropped    \* the socket of the request was closed by the other side

checkVars == <<status, asking, conn, forsaken, dropped>>

CheckTypeOK ==
    /\ status \in {"unmounted", "checking", "allowed", "denied", "pending", "blacklisted", "error"}
    /\ conn \in {"none", "connecting", "open", "closed"}
    /\ asking \in BOOLEAN /\ forsaken \in BOOLEAN /\ dropped \in BOOLEAN

Mounted == status # "unmounted"

Mount ==
    /\ status' = "checking" /\ asking' = TRUE
    /\ conn' = "none" /\ forsaken' = FALSE /\ dropped' = FALSE

\* The socket of a request is closed.
Unmount ==
    /\ status' = "unmounted" /\ asking' = FALSE
    /\ conn' = "none" /\ forsaken' = FALSE /\ dropped' = FALSE

\* The effect runs again when another agent is shown; the status stays.
CheckAgain == asking' = Mounted /\ UNCHANGED <<status, conn, forsaken, dropped>>

\* Both lists have answered, the blacklist first in rank, or a call has failed.
Checked ==
    /\ asking
    /\ asking' = FALSE
    /\ status' \in {"blacklisted", "allowed", "denied", "error"}
    /\ UNCHANGED <<conn, forsaken, dropped>>

\* The button of "not authorized", which stays until the socket is open.
RequestAccess ==
    /\ status = "denied"
    /\ forsaken' = (forsaken \/ conn = "connecting")
    /\ conn' = "connecting"
    /\ dropped' = FALSE
    /\ UNCHANGED <<status, asking>>

RequestOpens ==
    /\ conn = "connecting"
    /\ conn' = "open"
    /\ status' = "pending"
    /\ UNCHANGED <<asking, forsaken, dropped>>

\* onerror, of this socket or of the one before.
RequestFails ==
    /\ conn \in {"connecting", "open"}
    /\ conn' = "closed"
    /\ status' = "error"
    /\ UNCHANGED <<asking, forsaken, dropped>>

ForsakenFails ==
    /\ forsaken
    /\ forsaken' = FALSE
    /\ status' = "error"
    /\ UNCHANGED <<asking, conn, dropped>>

\* A clean close of the gateway: there is no onclose.
RequestDropped ==
    /\ conn = "open"
    /\ conn' = "closed"
    /\ dropped' = TRUE
    /\ UNCHANGED <<status, asking, forsaken>>

\* Fault: "host_not_available" sets the message alone.
Verdict_NoStatus ==
    /\ conn = "open"
    /\ conn' = "closed"
    /\ status' \in {"allowed", "blacklisted", "denied", status}
    /\ UNCHANGED <<asking, forsaken, dropped>>

\* ACCESS_GRANTED; ACCESS_DENIED of a blacklisted device, without a host, or plain.
Verdict ==
    /\ conn = "open"
    /\ conn' = "closed"
    /\ status' \in {"allowed", "blacklisted", "error", "denied"}
    /\ UNCHANGED <<asking, forsaken, dropped>>

CheckStep ==
    Checked \/ RequestAccess \/ RequestOpens \/ RequestFails \/ ForsakenFails
    \/ RequestDropped \/ Verdict

MayConnect == status \in {"checking", "allowed", "denied", "error"}
=============================================================================
