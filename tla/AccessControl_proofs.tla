------------------------- MODULE AccessControl_proofs -------------------------
(***************************************************************************)
(* Proofs about the lists of an agent and the answers of its host, for     *)
(* any number of requests.                                                 *)
(***************************************************************************)
EXTENDS AccessControl, FiniteSetTheorems, TLAPS

LEMMA TypeInit == Init => TypeOK
<1> SUFFICES ASSUME Init PROVE TypeOK
  OBVIOUS
<1>1. loads \in Seq([Lists -> {Sent, "on", "off"}])
  BY DEF Init, Load
<1> QED
  BY <1>1 DEF Init, TypeOK, ListInit, ListTypeOK

\* What is asked, read or loaded again is of its type.
LEMMA ReloadType == ASSUME TypeOK, Reload
    PROVE  loads' \in Seq([Lists -> {Sent, "on", "off"}]) /\ loading' = TRUE
<1>1. Load \in [Lists -> {Sent, "on", "off"}]
  BY DEF Load
<1> QED
  BY <1>1 DEF Reload, TypeOK

LEMMA AnswerTypes ==
    ASSUME TypeOK, NEW r \in Requests, NEW next \in {Over} \cup ({"look"} \X Lists),
           Answer(r, next)
    PROVE  /\ ListTypeOK'
           /\ cards' \subseteq Requests /\ missed' \subseteq Requests
           /\ UNCHANGED <<ws, joined, shown, removing>>
BY DEF TypeOK, ListTypeOK, Answer, Tell, Settle

\* The steps of the service keep the types of the lists.
LEMMA ListTypes == ASSUME ListTypeOK, ListStep PROVE ListTypeOK'
<1>1. ASSUME NEW r \in Requests, Expire(r)
      PROVE  ListTypeOK'
  BY <1>1 DEF ListTypeOK, Expire
<1>2. ASSUME NEW r \in Requests, NEW l \in Lists, Look(r, l)
      PROVE  ListTypeOK'
  BY <1>2 DEF ListTypeOK, Look
<1>3. ASSUME NEW r \in Requests, NEW l \in Lists, Insert(r, l)
      PROVE  ListTypeOK'
  BY <1>3 DEF ListTypeOK, Insert
<1> QED
  BY <1>1, <1>2, <1>3 DEF ListStep

LEMMA TypeNext == TypeOK /\ [Next]_vars => TypeOK'
<1> SUFFICES ASSUME TypeOK, [Next]_vars PROVE TypeOK'
  OBVIOUS
<1>1. CASE ListStep /\ UNCHANGED pageVars
  BY <1>1, ListTypes DEF TypeOK, pageVars
<1>2. ASSUME NEW r \in Requests, Request(r)
      PROVE  TypeOK'
  BY <1>2 DEF TypeOK, ListTypeOK, Request, Ask
<1>3. ASSUME NEW r \in Requests, Accept(r) \/ Block(r)
      PROVE  TypeOK'
  BY <1>3, AnswerTypes, ReloadType DEF TypeOK, Accept, Block, Lists
<1>4. ASSUME NEW r \in Requests, Reject(r)
      PROVE  TypeOK'
  BY <1>4, AnswerTypes DEF TypeOK, Reject
<1>5. CASE Refresh
  BY <1>5, ReloadType DEF TypeOK, ListTypeOK, Refresh, listVars
<1>6. ASSUME NEW i \in DOMAIN loads, NEW l \in Lists, Read(i, l)
      PROVE  TypeOK'
  <2>1. loads' \in Seq([Lists -> {Sent, "on", "off"}])
    BY <1>6 DEF TypeOK, Read
  <2> QED
    BY <1>6, <2>1 DEF TypeOK, ListTypeOK, Read, listVars
<1>7. ASSUME NEW i \in DOMAIN loads, Loaded(i)
      PROVE  TypeOK'
  <2> DEFINE T == [Lists -> {Sent, "on", "off"}]
  <2>1. loads \in Seq(T) /\ i \in 1..Len(loads)
    BY DEF TypeOK
  <2> HIDE DEF T
  <2>2. /\ SubSeq(loads, 1, i - 1) \in Seq(T)
        /\ SubSeq(loads, i + 1, Len(loads)) \in Seq(T)
    BY <2>1
  <2>3. loads' \in Seq(T)
    BY <1>7, <2>2 DEF Loaded, Without
  <2>4. shown' \subseteq Lists
    BY <1>7 DEF Loaded, TypeOK
  <2> QED
    BY <1>7, <2>3, <2>4 DEF TypeOK, ListTypeOK, Loaded, listVars, T
<1>8. ASSUME NEW l \in Lists, Remove(l)
      PROVE  TypeOK'
  BY <1>8 DEF TypeOK, ListTypeOK, Remove, listVars
<1>9. CASE RemoveAtService
  <2>1. removing \in Lists \X {"sent", "ok", "missing"} /\ removing[1] \in Lists
    BY <1>9 DEF TypeOK, RemoveAtService
  <2>2. removing' \in Lists \X {"sent", "ok", "missing"}
    BY <1>9, <2>1 DEF RemoveAtService
  <2>3. ListTypeOK'
    BY <1>9, <2>1 DEF TypeOK, ListTypeOK, RemoveAtService, OnList, Delete, listVars
  <2> QED
    BY <1>9, <2>2, <2>3 DEF TypeOK, RemoveAtService
<1>10. CASE Removed
  BY <1>10, ReloadType DEF TypeOK, ListTypeOK, Removed, listVars
<1>11. CASE HostLost \/ HostReopens \/ HostOpens \/ GatewayForgets
  BY <1>11 DEF TypeOK, ListTypeOK, HostLost, HostReopens, HostOpens, GatewayForgets, listVars
<1>12. CASE UNCHANGED vars
  BY <1>12 DEF TypeOK, ListTypeOK, vars, listVars, pageVars
<1> QED
  BY <1>1, <1>2, <1>3, <1>4, <1>5, <1>6, <1>7, <1>8, <1>9, <1>10, <1>11, <1>12 DEF Next

\* Lists, requests and panel keep their types.
THEOREM TypeCorrect == Spec => []TypeOK
BY TypeInit, TypeNext, PTL DEF Spec

-----------------------------------------------------------------------------
(* The cards of the host *)

\* What a step does to the requests that wait for the host: ask one, settle one
\* whose card was used, or let one go.
LEMMA AskedNext == TypeOK /\ AskedIsShown /\ [Next]_vars => AskedIsShown'
<1> SUFFICES ASSUME TypeOK, AskedIsShown, [Next]_vars PROVE AskedIsShown'
  OBVIOUS
<1> USE DEF AskedIsShown, TypeOK, ListTypeOK, Asked, Over
<1>1. CASE ListStep /\ UNCHANGED pageVars
  <2>1. \A r \in Requests : stage'[r] = Asked => stage[r] = Asked
    BY <1>1 DEF ListStep, Expire, Look, Insert
  <2> QED
    BY <1>1, <2>1 DEF pageVars
<1>2. ASSUME NEW r \in Requests, Request(r)
      PROVE  AskedIsShown'
  BY <1>2 DEF Request, Ask
<1>3. ASSUME NEW r \in Requests, NEW next, next # Asked, Answer(r, next)
      PROVE  AskedIsShown'
  BY <1>3 DEF Answer, Tell, Settle
<1>4. ASSUME NEW r \in Requests, Accept(r) \/ Reject(r) \/ Block(r)
      PROVE  AskedIsShown'
  BY <1>3, <1>4 DEF Accept, Reject, Block
<1>5. CASE UNCHANGED <<stage, cards, missed>>
  BY <1>5
<1>6. CASE \/ Refresh \/ Removed \/ RemoveAtService
           \/ \E i \in DOMAIN loads : Loaded(i) \/ \E l \in Lists : Read(i, l)
           \/ \E l \in Lists : Remove(l)
  BY <1>5, <1>6 DEF Refresh, Removed, RemoveAtService, Delete, Loaded, Read, Remove, listVars
<1>7. CASE HostLost \/ HostReopens \/ HostOpens \/ GatewayForgets \/ UNCHANGED vars
  BY <1>5, <1>7
     DEF HostLost, HostReopens, HostOpens, GatewayForgets, vars, listVars, pageVars
<1> HIDE DEF AskedIsShown, TypeOK, ListTypeOK, Asked, Over
<1> QED
  BY <1>1, <1>2, <1>4, <1>6, <1>7 DEF Next

\* A request that still waits for the host has its card, however many requests
\* come and go, unless it met a socket that was gone: DeviceContext.tsx, the
\* notifications of ACCESS_REQUESTED.
THEOREM CardsShown == Spec => []AskedIsShown
<1>1. Init => AskedIsShown
  BY DEF Init, ListInit, AskedIsShown, New, Asked
<1> QED
  BY <1>1, AskedNext, TypeCorrect, PTL DEF Spec

-----------------------------------------------------------------------------
(* The rows of the lists *)

\* A list has no more entries, made or awaited, than the first addition of a
\* row and those that crossed it.
RowsAreFew == \A l \in Lists : rows[l] + Cardinality(Adding(l)) <= 1 + crossed[l]

RowInv == TypeOK /\ RowsAreFew /\ RemovalHolds

LEMMA AddingFinite == \A l : IsFiniteSet(Adding(l)) /\ Cardinality(Adding(l)) \in Nat
BY RequestsAssumption, FS_Subset, FS_CardinalityType DEF Adding

\* What does not begin or end an addition or change the rows keeps the invariant.
LEMMA RowsKept ==
    ASSUME RowInv, TypeOK', UNCHANGED <<rows, removed, crossed>>,
           \A l \in Lists : Adding(l)' = Adding(l)
    PROVE  RowInv'
BY DEF RowInv, RowsAreFew, RemovalHolds

LEMMA RowNext == ASSUME RowInv, [Next]_vars PROVE RowInv'
<1>1. TypeOK /\ TypeOK'
  BY TypeNext DEF RowInv
<1>2. /\ stage \in [Requests -> {New, Asked, Over} \cup ({"look", "insert"} \X Lists)]
      /\ rows \in [Lists -> Nat] /\ crossed \in [Lists -> Nat]
      /\ rows' \in [Lists -> Nat] /\ crossed' \in [Lists -> Nat]
  BY <1>1 DEF TypeOK, ListTypeOK
<1>3. \A l \in Lists : rows[l] \in Nat /\ crossed[l] \in Nat /\ Cardinality(Adding(l)) \in Nat
  BY <1>2, AddingFinite
<1> DEFINE Kept == /\ UNCHANGED <<rows, removed, crossed>>
                   /\ \A r \in Requests, l \in Lists :
                         stage'[r] = <<"insert", l>> <=> stage[r] = <<"insert", l>>
<1>4. ASSUME Kept PROVE RowInv'
  <2>1. \A l \in Lists : Adding(l)' = Adding(l)
    BY <1>4 DEF Adding
  <2> QED
    BY <1>1, <1>4, <2>1, RowsKept
<1>5. ASSUME NEW r \in Requests, Expire(r)
      PROVE  Kept
  BY <1>2, <1>5 DEF Expire, Asked, Over
<1>6. ASSUME NEW r \in Requests, NEW l \in Lists, Look(r, l)
      PROVE  RowInv'
  <2>1. CASE stage' = [stage EXCEPT ![r] = Over] /\ UNCHANGED crossed
    <3>1. Kept
      BY <1>2, <1>6, <2>1 DEF Look, Over
    <3> QED
      BY <1>4, <3>1
  <2>2. CASE /\ ~OnList(l) /\ stage' = [stage EXCEPT ![r] = <<"insert", l>>]
             /\ crossed' = [crossed EXCEPT ![l] = IF Adding(l) = {} THEN 0 ELSE @ + 1]
    <3>1. rows[l] = 0 /\ UNCHANGED <<rows, removed>> /\ stage[r] = <<"look", l>>
      BY <1>3, <1>6, <2>2 DEF Look, OnList
    <3>2. r \notin Adding(l) /\ Adding(l)' = Adding(l) \cup {r}
      BY <1>2, <2>2, <3>1 DEF Adding
    <3>3. \A k \in Lists \ {l} : Adding(k)' = Adding(k) /\ crossed'[k] = crossed[k]
      BY <1>2, <2>2, <3>1 DEF Adding
    <3>4. Cardinality(Adding(l)') = Cardinality(Adding(l)) + 1
      BY <3>2, AddingFinite, FS_AddElement
    <3>5. ASSUME rows'[l] + Cardinality(Adding(l)') <= 1 + crossed'[l],
                 rows'[l] <= crossed'[l]
          PROVE  RowInv'
      <4>1. RowsAreFew'
        BY <3>1, <3>3, <3>5 DEF RowInv, RowsAreFew
      <4>2. removed \subseteq Lists
        BY <1>1 DEF TypeOK, ListTypeOK
      <4>3. RemovalHolds'
        BY <3>1, <3>3, <3>5, <4>2 DEF RowInv, RemovalHolds
      <4> QED
        BY <1>1, <4>1, <4>3 DEF RowInv
    <3>6. CASE Adding(l) = {}
      <4>1. Cardinality(Adding(l)) = 0 /\ crossed'[l] = 0
        BY <1>2, <2>2, <3>6, FS_EmptySet
      <4>2. rows'[l] + Cardinality(Adding(l)') <= 1 + crossed'[l] /\ rows'[l] <= crossed'[l]
        BY <3>1, <3>4, <4>1
      <4> QED
        BY <3>5, <4>2
    <3>7. CASE Adding(l) # {}
      <4>1. crossed'[l] = crossed[l] + 1
        BY <1>2, <2>2, <3>7
      <4>2. rows[l] + Cardinality(Adding(l)) <= 1 + crossed[l]
        BY DEF RowInv, RowsAreFew
      <4>3. rows'[l] + Cardinality(Adding(l)') <= 1 + crossed'[l] /\ rows'[l] <= crossed'[l]
        BY <1>3, <3>1, <3>4, <4>1, <4>2
      <4> QED
        BY <3>5, <4>3
    <3> QED
      BY <3>6, <3>7
  <2> QED
    BY <1>6, <2>1, <2>2 DEF Look
<1>7. ASSUME NEW r \in Requests, NEW l \in Lists, Insert(r, l)
      PROVE  RowInv'
  <2>1. /\ stage[r] = <<"insert", l>> /\ stage' = [stage EXCEPT ![r] = Over]
        /\ rows' = [rows EXCEPT ![l] = @ + 1] /\ removed' = removed \ {l}
        /\ crossed' = crossed
    BY <1>7 DEF Insert
  <2>2. rows'[l] = rows[l] + 1 /\ \A k \in Lists \ {l} : rows'[k] = rows[k]
    BY <1>2, <2>1
  <2>3. r \in Adding(l) /\ Adding(l)' = Adding(l) \ {r}
    BY <1>2, <2>1 DEF Adding, Over
  <2>4. \A k \in Lists \ {l} : Adding(k)' = Adding(k)
    BY <1>2, <2>1 DEF Adding, Over
  <2>5. Cardinality(Adding(l)') = Cardinality(Adding(l)) - 1
    BY <2>3, AddingFinite, FS_RemoveElement
  <2>6. RowsAreFew'
    BY <1>3, <2>1, <2>2, <2>4, <2>5 DEF RowInv, RowsAreFew
  <2>7. RemovalHolds'
    BY <1>1, <2>1, <2>2 DEF RowInv, RemovalHolds, TypeOK, ListTypeOK
  <2> QED
    BY <1>1, <2>6, <2>7 DEF RowInv
<1>8. ASSUME NEW r \in Requests, Request(r)
      PROVE  Kept
  BY <1>2, <1>8 DEF Request, Ask, Asked, New
<1>9. ASSUME NEW r \in Requests, Accept(r) \/ Reject(r) \/ Block(r)
      PROVE  Kept
  BY <1>2, <1>9 DEF Accept, Reject, Block, Answer, Tell, Settle, Over, Asked
<1>10. CASE RemoveAtService
  <2>1. removing[1] \in Lists
    BY <1>1, <1>10 DEF TypeOK, RemoveAtService
  <2>2. CASE OnList(removing[1])
    <3> DEFINE l == removing[1]
    <3>1. /\ rows' = [rows EXCEPT ![l] = @ - 1] /\ removed' = removed \cup {l}
          /\ stage' = stage /\ crossed' = crossed
      BY <1>10, <2>2 DEF RemoveAtService, Delete
    <3>2. rows'[l] = rows[l] - 1 /\ \A k \in Lists \ {l} : rows'[k] = rows[k]
      BY <1>2, <2>1, <3>1
    <3>3. \A k \in Lists : Adding(k)' = Adding(k)
      BY <3>1 DEF Adding
    <3>4. /\ l \in Lists
          /\ rows[l] + Cardinality(Adding(l)) <= 1 + crossed[l]
      BY <2>1 DEF RowInv, RowsAreFew
    <3> HIDE DEF l
    <3>5. /\ rows'[l] + Cardinality(Adding(l)) <= 1 + crossed[l]
          /\ rows'[l] <= crossed[l]
      BY <1>3, <3>2, <3>4
    <3>6. RowsAreFew'
      BY <3>1, <3>2, <3>3, <3>5 DEF RowInv, RowsAreFew
    <3>7. RemovalHolds'
      BY <3>1, <3>2, <3>5 DEF RowInv, RemovalHolds
    <3> QED
      BY <1>1, <3>6, <3>7 DEF RowInv
  <2>3. CASE ~OnList(removing[1])
    <3>1. Kept
      BY <1>10, <2>3 DEF RemoveAtService, listVars
    <3> QED
      BY <1>4, <3>1
  <2> QED
    BY <2>2, <2>3
<1>11. CASE \/ Refresh \/ Removed
            \/ \E i \in DOMAIN loads : Loaded(i) \/ \E l \in Lists : Read(i, l)
            \/ \E l \in Lists : Remove(l)
            \/ HostLost \/ HostReopens \/ HostOpens \/ GatewayForgets \/ UNCHANGED vars
  <2>1. Kept
    BY <1>11 DEF Refresh, Removed, Loaded, Read, Remove, HostLost, HostReopens, HostOpens,
                 GatewayForgets, vars, listVars
  <2> QED
    BY <1>4, <2>1
<1> HIDE DEF Kept
<1> QED
  BY <1>4, <1>5, <1>6, <1>7, <1>8, <1>9, <1>10, <1>11 DEF Next, ListStep

\* Whatever additions cross: a removal that is answered leaves no more entries
\* of the device than additions crossed one another; with none it is off the
\* list (agents.service.ts, addToWhitelist to removeFromBlacklist).
THEOREM RemovalsHold == Spec => []RemovalHolds
<1>1. Init => RowInv
  <2> SUFFICES ASSUME Init PROVE RowInv
    OBVIOUS
  <2>1. \A l \in Lists : Adding(l) = {}
    BY DEF Init, ListInit, Adding, New
  <2>2. \A l \in Lists : Cardinality(Adding(l)) = 0
    BY <2>1, FS_EmptySet
  <2>3. \A l \in Lists : rows[l] \in {0, 1} /\ crossed[l] = 0
    BY DEF Init, ListInit
  <2>4. RowsAreFew
    BY <2>2, <2>3 DEF RowsAreFew
  <2> QED
    BY <2>4, TypeInit DEF Init, ListInit, RowInv, RemovalHolds
<1>2. RowInv /\ [Next]_vars => RowInv'
  BY RowNext
<1>3. RowInv => RemovalHolds
  BY DEF RowInv
<1> QED
  BY <1>1, <1>2, <1>3, PTL DEF Spec
=============================================================================
