--------------------------- MODULE AccessControl ---------------------------
(* How the host answers access requests and edits its lists: the cards of
   DeviceContext, the panel of useAccessControl, and the service's lists. *)
EXTENDS AccessLists, Sequences

CONSTANTS None,
          MaxLoads  \* bound: loads of the panel under way

VARIABLES ws,       \* the host's signaling socket: "connecting", "open", "closed"
          joined,   \* does the gateway know a host?
          cards,    \* requests shown as notifications
          missed,   \* requests told to, or answered on, a socket that was gone
          shown,    \* lists of the panel that show the device
          loads,    \* loads under way: list -> Sent, or is the device on it?
          loading,
          removing  \* <<list, "sent" | "ok" | "missing">>: the removal under way

Sent == "sent"
pageVars == <<ws, joined, cards, missed, shown, loads, loading, removing>>
vars == <<listVars, pageVars>>

TypeOK ==
    /\ ListTypeOK
    /\ ws \in {"connecting", "open", "closed"} /\ joined \in BOOLEAN
    /\ cards \subseteq Requests /\ missed \subseteq Requests
    /\ shown \subseteq Lists
    /\ loads \in Seq([Lists -> {Sent, "on", "off"}]) /\ loading \in BOOLEAN
    /\ removing \in (Lists \X {"sent", "ok", "missing"}) \cup {None}

Load == [l \in Lists |-> Sent]

\* The panel loads when it is opened.
Init ==
    /\ ListInit
    /\ ws = "open" /\ joined = TRUE
    /\ cards = {} /\ missed = {}
    /\ shown = {} /\ loads = <<Load>> /\ loading = TRUE /\ removing = None

Reload == loads' = Append(loads, Load) /\ loading' = TRUE
MayLoad == Len(loads) < MaxLoads

\* Fault: cards are named after the device, and a second takes the first's place.
Request_OneCard(r) ==
    /\ joined
    /\ Ask(r)
    /\ cards' = IF ws = "open" THEN {r} ELSE cards
    /\ missed' = IF ws = "open" THEN missed ELSE missed \cup {r}
    /\ UNCHANGED <<ws, joined, shown, loads, loading, removing>>

\* ACCESS_REQUESTED adds a card; ACCESS_CANCELLED is ignored.
Request(r) ==
    /\ joined
    /\ Ask(r)
    /\ cards' = IF ws = "open" THEN cards \cup {r} ELSE cards
    /\ missed' = IF ws = "open" THEN missed ELSE missed \cup {r}
    /\ UNCHANGED <<ws, joined, shown, loads, loading, removing>>

\* grantAccess and denyAccess: a socket that is closed takes it in silence.
Tell(r, next) ==
    IF ws = "open" THEN Settle(r, next) /\ UNCHANGED missed
                   ELSE missed' = missed \cup {r} /\ UNCHANGED stage

\* A button of the card.  On a socket that is connecting, send throws before
\* the card is removed.
Answer(r, next) ==
    /\ r \in cards
    /\ ws # "connecting"
    /\ cards' = cards \ {r}
    /\ Tell(r, next)
    /\ UNCHANGED <<rows, removed, crossed, ws, joined, shown, removing>>

\* whitelistVersion is raised with the click, before the lists change.
Accept(r) == MayLoad /\ Answer(r, <<"look", "white">>) /\ Reload
Reject(r) == Answer(r, Over) /\ UNCHANGED <<loads, loading>>
Block(r)  == MayLoad /\ Answer(r, <<"look", "black">>) /\ Reload

\* The refresh button
Refresh ==
    /\ ~loading /\ MayLoad /\ Reload
    /\ UNCHANGED <<listVars, ws, joined, cards, missed, shown, removing>>

\* The service reads a list.
Read(i, l) ==
    /\ loads[i][l] = Sent
    /\ loads' = [loads EXCEPT ![i][l] = IF OnList(l) THEN "on" ELSE "off"]
    /\ UNCHANGED <<listVars, ws, joined, cards, missed, shown, loading, removing>>

Without(i) == SubSeq(loads, 1, i - 1) \o SubSeq(loads, i + 1, Len(loads))

\* A load is answered, in any order, or fails and changes nothing.
Loaded(i) ==
    /\ \A l \in Lists : loads[i][l] # Sent
    /\ loads' = Without(i)
    /\ loading' = FALSE
    /\ shown' \in {{l \in Lists : loads[i][l] = "on"}, shown}
    /\ UNCHANGED <<listVars, ws, joined, cards, missed, removing>>

\* The bin of a row, disabled for a device that is being removed; while the
\* panel is loading there are no rows.
Remove(l) ==
    /\ l \in shown /\ ~loading
    /\ removing = None
    /\ removing' = <<l, "sent">>
    /\ UNCHANGED <<listVars, ws, joined, cards, missed, shown, loads, loading>>

RemoveAtService ==
    /\ removing # None /\ removing[2] = "sent"
    /\ removing' = [removing EXCEPT ![2] = IF OnList(removing[1]) THEN "ok" ELSE "missing"]
    /\ IF OnList(removing[1]) THEN Delete(removing[1]) ELSE UNCHANGED listVars
    /\ UNCHANGED <<ws, joined, cards, missed, shown, loads, loading>>

\* The answer; the panel loads again either way.
Removed ==
    /\ removing # None /\ removing[2] # "sent"
    /\ MayLoad /\ Reload
    /\ shown' = IF removing[2] = "ok" THEN shown \ {removing[1]} ELSE shown
    /\ removing' = None
    /\ UNCHANGED <<listVars, ws, joined, cards, missed>>

HostLost ==
    /\ ws # "closed" /\ ws' = "closed"
    /\ UNCHANGED <<listVars, joined, cards, missed, shown, loads, loading, removing>>

HostReopens ==
    /\ ws = "closed" /\ ws' = "connecting"
    /\ UNCHANGED <<listVars, joined, cards, missed, shown, loads, loading, removing>>

HostOpens ==
    /\ ws = "connecting" /\ ws' = "open" /\ joined' = TRUE
    /\ UNCHANGED <<listVars, cards, missed, shown, loads, loading, removing>>

GatewayForgets ==
    /\ ws # "open" /\ joined /\ joined' = FALSE
    /\ UNCHANGED <<listVars, ws, cards, missed, shown, loads, loading, removing>>

Next ==
    \/ ListStep /\ UNCHANGED pageVars
    \/ \E r \in Requests : Request(r) \/ Accept(r) \/ Reject(r) \/ Block(r)
    \/ Refresh \/ \E i \in DOMAIN loads : Loaded(i) \/ \E l \in Lists : Read(i, l)
    \/ \E l \in Lists : Remove(l)
    \/ RemoveAtService \/ Removed
    \/ HostLost \/ HostReopens \/ HostOpens \/ GatewayForgets

Spec == Init /\ [][Next]_vars

(* ---- properties ---- *)

\* agents.service.ts, addToWhitelist ("Returns existing entry if already
\* present") to removeFromBlacklist: a removal that is answered takes the device
\* off the list, but for one entry for each addition that crossed another (both
\* looked before either inserted).
RemovalHolds == \A l \in removed : rows[l] <= crossed[l]

\* The host can answer whatever the gateway still waits for, unless it was told
\* or answered on a socket that was gone.
AskedIsShown == \A r \in Requests \ missed : stage[r] = Asked => r \in cards
=============================================================================
