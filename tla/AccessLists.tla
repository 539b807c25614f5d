---------------------------- MODULE AccessLists ----------------------------
(* The whitelist and the blacklist of an agent, for one device (entries of
   different devices share nothing), and the access requests of that device as
   the gateway settles them.  addToWhitelist and addToBlacklist look for an
   entry, await, and insert. *)
EXTENDS Integers, FiniteSets

CONSTANT Requests

ASSUME RequestsAssumption == IsFiniteSet(Requests)

Lists == {"white", "black"}

VARIABLES rows,    \* list -> how many entries the device has
          stage,   \* request -> <<step, list it is put on>>
          removed, \* lists the device was removed from and not added to since
          crossed  \* list -> how many additions found no entry while the entry
                   \* of another was awaited, since one last found nobody adding

listVars == <<rows, stage, removed, crossed>>

New == <<"new", "none">>
Asked == <<"asked", "none">>
Over == <<"over", "none">>

ListTypeOK ==
    /\ rows \in [Lists -> Nat]
    /\ stage \in [Requests -> {New, Asked, Over} \cup ({"look", "insert"} \X Lists)]
    /\ removed \subseteq Lists
    /\ crossed \in [Lists -> Nat]

ListInit ==
    /\ rows \in [Lists -> {0, 1}]
    /\ stage = [r \in Requests |-> New]
    /\ removed = {}
    /\ crossed = [l \in Lists |-> 0]

\* isWhitelisted, isBlacklisted
OnList(l) == rows[l] > 0

\* A device on no list is put to the host.
Ask(r) ==
    /\ stage[r] = New
    /\ \A l \in Lists : ~OnList(l)
    /\ stage' = [stage EXCEPT ![r] = Asked]
    /\ UNCHANGED <<rows, removed, crossed>>

\* access:grant and access:deny; a request that is over is not found.
Settle(r, next) == stage' = IF stage[r] = Asked THEN [stage EXCEPT ![r] = next] ELSE stage

\* The approval timer, or the requester's socket closes.  The host's card stays.
Expire(r) ==
    /\ stage[r] = Asked
    /\ stage' = [stage EXCEPT ![r] = Over]
    /\ UNCHANGED <<rows, removed, crossed>>

\* The additions that are awaited.
Adding(l) == {r \in Requests : stage[r] = <<"insert", l>>}

\* Fault: an entry is made whether there is one or not.
Look_Always(r, l) ==
    /\ stage[r] = <<"look", l>>
    /\ stage' = [stage EXCEPT ![r] = <<"insert", l>>]
    /\ crossed' = [crossed EXCEPT ![l] = IF Adding(l) = {} THEN 0 ELSE @ + 1]
    /\ UNCHANGED <<rows, removed>>

\* findOne of the agent and of the entry; what fails is swallowed, and the
\* request is granted or denied all the same.
Look(r, l) ==
    /\ stage[r] = <<"look", l>>
    /\ \/ /\ ~OnList(l)
          /\ stage' = [stage EXCEPT ![r] = <<"insert", l>>]
          /\ crossed' = [crossed EXCEPT ![l] = IF Adding(l) = {} THEN 0 ELSE @ + 1]
       \/ stage' = [stage EXCEPT ![r] = Over] /\ UNCHANGED crossed
    /\ UNCHANGED <<rows, removed>>

Insert(r, l) ==
    /\ stage[r] = <<"insert", l>>
    /\ stage' = [stage EXCEPT ![r] = Over]
    /\ rows' = [rows EXCEPT ![l] = @ + 1]
    /\ removed' = removed \ {l}
    /\ UNCHANGED crossed

\* removeFromWhitelist, removeFromBlacklist: of the entry found.
Delete(l) ==
    /\ rows' = [rows EXCEPT ![l] = @ - 1]
    /\ removed' = removed \cup {l}
    /\ UNCHANGED <<stage, crossed>>

ListStep == \E r \in Requests : Expire(r) \/ \E l \in Lists : Look(r, l) \/ Insert(r, l)
=============================================================================
