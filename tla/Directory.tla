----------------------------- MODULE Directory -----------------------------
(* The way to an agent's page: the form and the history that fetch the agent,
   the password prompt, the route, and the history that remembers it. *)
EXTENDS Naturals, Sequences, SequencesExt

CONSTANTS Agents,      \* agents that are reached directly
          MaxEntries,  \* MAX_HISTORY_ENTRIES
          MaxVisits,   \* bound: agents opened
          None

ASSUME AgentsAssumption == None \notin Agents /\ None \notin Agents \X BOOLEAN
ASSUME MaxEntriesAssumption == MaxEntries \in Nat \ {0}

VARIABLES route,     \* the agent of the viewer's page, None on the directory
          entries,   \* useAgentHistory of the directory page that is mounted
          stored,    \* localStorage
          updated,   \* React has rendered an update of entries last, not a plain render
          fetching,  \* <<agent, is the page that asked still mounted?>>
          prompt,    \* the modal: such a pair, or None
          visits,    \* agent -> the number of its last visit
          lastVisit, \* how many there were
          forgotten  \* a visit was not stored

directoryVars == <<route, entries, stored, updated, fetching, prompt, visits, lastVisit, forgotten>>

DirectoryTypeOK ==
    /\ route \in Agents \cup {None}
    /\ entries \in Seq(Agents) /\ stored \in Seq(Agents)
    /\ updated \in BOOLEAN /\ forgotten \in BOOLEAN
    /\ fetching \subseteq Agents \X BOOLEAN
    /\ prompt \in (Agents \X BOOLEAN) \cup {None}
    /\ visits \in [Agents -> Nat] /\ lastVisit \in Nat

DirectoryInit ==
    /\ route = None
    /\ entries = <<>> /\ stored = <<>> /\ updated = FALSE
    /\ fetching = {} /\ prompt = None
    /\ visits = [a \in Agents |-> 0] /\ lastVisit = 0 /\ forgotten = FALSE

\* Go, or Connect: getAgent is awaited.
HandleConnect(a) ==
    /\ route = None /\ prompt = None
    /\ fetching' = fetching \cup {<<a, TRUE>>}
    /\ UNCHANGED <<route, entries, stored, updated, prompt, visits, lastVisit, forgotten>>

\* The answer opens the prompt over whatever is shown, in the place of another;
\* an agent that is not found opens none.
Fetched(f) ==
    /\ fetching' = fetching \ {f}
    /\ prompt' \in {f, prompt}
    /\ UNCHANGED <<route, entries, stored, updated, visits, lastVisit, forgotten>>

ClosePrompt ==
    /\ prompt # None
    /\ prompt' = None
    /\ UNCHANGED <<route, entries, stored, updated, fetching, visits, lastVisit, forgotten>>

\* Fault: an agent that is known keeps its place.
AddEntry_InPlace(a) ==
    IF Contains(entries, a) THEN entries
    ELSE SubSeq(<<a>> \o entries, 1, IF Len(entries) < MaxEntries THEN Len(entries) + 1 ELSE MaxEntries)

\* addEntry: the most recent first, the oldest dropped.  No agent is listed
\* twice, so its one row is all that a filter takes away.
AddEntry(a) ==
    LET next == <<a>> \o RemoveFirst(entries, a)
    IN  SubSeq(next, 1, IF Len(next) < MaxEntries THEN Len(next) ELSE MaxEntries)

\* The prompt is submitted: addEntry, then the route.  The updater of addEntry
\* stores the list; React runs it at once only if it has nothing of this state
\* left to settle, and else with a render this page does not live to see.
Submit(a, live) ==
    /\ prompt = <<a, live>>
    /\ lastVisit < MaxVisits
    /\ prompt' = None
    /\ route' = a
    /\ lastVisit' = lastVisit + 1
    /\ visits' = [visits EXCEPT ![a] = lastVisit']
    /\ IF live /\ ~updated
       THEN /\ stored' = AddEntry(a)
            /\ UNCHANGED forgotten
       ELSE forgotten' = TRUE /\ UNCHANGED stored
    /\ entries' = <<>> /\ updated' = FALSE
    /\ fetching' = {<<f[1], FALSE>> : f \in fetching}

RemoveEntry(a) ==
    /\ route = None
    /\ entries' = RemoveFirst(entries, a)
    /\ stored' = entries'
    /\ updated' = TRUE
    /\ UNCHANGED <<route, fetching, prompt, visits, lastVisit, forgotten>>

\* A render of the page for another reason.
Rendered ==
    /\ updated
    /\ updated' = FALSE
    /\ UNCHANGED <<route, entries, stored, fetching, prompt, visits, lastVisit, forgotten>>

\* onBack: the directory is mounted anew and loads what is stored.
BackToDirectory ==
    /\ route # None
    /\ route' = None
    /\ entries' = stored
    /\ updated' = FALSE
    /\ UNCHANGED <<stored, fetching, prompt, visits, lastVisit, forgotten>>

\* The buttons of a row.
HistoryRow(a) == Contains(entries, a) /\ (HandleConnect(a) \/ RemoveEntry(a))

DirectoryStep ==
    \/ \E a \in Agents : HandleConnect(a) \/ HistoryRow(a)
    \/ \E f \in fetching : Fetched(f)
    \/ ClosePrompt \/ Rendered
=============================================================================
