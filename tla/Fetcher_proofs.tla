--------------------------- MODULE Fetcher_proofs ---------------------------
(***************************************************************************)
(* Proofs about a data fetcher, for any tabs, any users and any bounds.    *)
(***************************************************************************)
EXTENDS Fetcher, FiniteSetTheorems, TLAPS

FlightsFinite == \A t \in Tab : IsFiniteSet(flights[t])

IInv == TypeOK /\ FlightsFinite /\ RightOwner

\* There is an id that no request uses and _promise does not name.
LEMMA FreeIdType ==
  ASSUME IInv, NEW t \in Tab
  PROVE  FreeId(t) \in Nat /\ FreeId(t) # promise[t]
<1> DEFINE F == flights[t]
           ids == {f.id : f \in F}
           map == [f \in F |-> f.id]
           n == Cardinality(F)
<1>1. IsFiniteSet(F)  BY DEF IInv, FlightsFinite
<1>2. n \in Nat  BY <1>1, FS_CardinalityType
<1>3. map \in Surjection(F, ids)  BY DEF Surjection
<1>4. IsFiniteSet(ids) /\ Cardinality(ids) <= n  BY <1>1, <1>3, FS_Surjection
<1> HIDE DEF ids, n
<1>5. /\ IsFiniteSet(ids \cup {promise[t]})
      /\ Cardinality(ids \cup {promise[t]}) <= n + 1
  <2>1. Cardinality(ids) \in Nat  BY <1>4, FS_CardinalityType
  <2>2. /\ IsFiniteSet(ids \cup {promise[t]})
        /\ Cardinality(ids \cup {promise[t]}) \in {Cardinality(ids), Cardinality(ids) + 1}
    BY <1>4, FS_AddElement
  <2>. QED  BY <1>2, <1>4, <2>1, <2>2
<1>6. Cardinality(1..(n + 2)) = n + 2  BY <1>2, FS_Interval
<1>7. ~ 1..(n + 2) \subseteq ids \cup {promise[t]}
  <2>1. SUFFICES ASSUME 1..(n + 2) \subseteq ids \cup {promise[t]} PROVE FALSE
    OBVIOUS
  <2>2. Cardinality(1..(n + 2)) <= Cardinality(ids \cup {promise[t]})
    BY <1>5, <2>1, FS_Subset
  <2>3. Cardinality(ids \cup {promise[t]}) \in Nat  BY <1>5, FS_CardinalityType
  <2>. QED  BY <1>2, <1>5, <1>6, <2>2, <2>3
<1>8. \E i \in 1..(n + 2) : i \notin IdsInUse(t)  BY <1>7 DEF IdsInUse, ids
<1>9. FreeId(t) \in 1..(n + 2) /\ FreeId(t) \notin IdsInUse(t)  BY <1>8 DEF FreeId, n
<1>. QED  BY <1>2, <1>9 DEF IdsInUse

\* Joining a request or starting one keeps the types and the finiteness.
LEMMA FetchDataType ==
  ASSUME IInv, NEW t \in Tab, NEW init \in BOOLEAN, FetchData(t, init)
  PROVE  /\ promise' \in [Tab -> Nat]
         /\ flights' \in [Tab -> SUBSET Flight]
         /\ \A s \in Tab : IsFiniteSet(flights'[s])
<1>0. /\ flights \in [Tab -> SUBSET Flight] /\ promise \in [Tab -> Nat]
      /\ owner[t] \in User \cup {Nobody} /\ \A s \in Tab : IsFiniteSet(flights[s])
  BY DEF IInv, TypeOK, FlightsFinite
<1>1. CASE promise[t] # 0
  <2> DEFINE G(f) == IF f.id = promise[t] THEN [f EXCEPT !.init = @ \/ init] ELSE f
             F == flights[t]
             S == {G(f) : f \in F}
             map == [f \in F |-> G(f)]
  <2>1. flights' = [flights EXCEPT ![t] = S] /\ UNCHANGED promise
    BY <1>1 DEF FetchData
  <2>2. \A f \in F : G(f) \in Flight  BY <1>0 DEF Flight
  <2>3. map \in Surjection(F, S)  BY DEF Surjection
  <2>4. IsFiniteSet(S)  BY <1>0, <2>3, FS_Surjection
  <2>5. S \subseteq Flight  BY <2>2
  <2> HIDE DEF S
  <2>. QED  BY <1>0, <2>1, <2>4, <2>5
<1>2. CASE promise[t] = 0
  <2> DEFINE f == [id |-> FreeId(t), owner |-> owner[t], init |-> init]
  <2>1. /\ flights' = [flights EXCEPT ![t] = @ \cup {f}]
        /\ promise' = [promise EXCEPT ![t] = FreeId(t)]
    BY <1>2 DEF FetchData
  <2>2. FreeId(t) \in Nat  BY FreeIdType
  <2>3. f \in Flight  BY <1>0, <2>2 DEF Flight
  <2>4. IsFiniteSet(flights[t] \cup {f})  BY <1>0, FS_AddElement
  <2> HIDE DEF f
  <2>. QED  BY <1>0, <2>1, <2>2, <2>3, <2>4
<1>. QED  BY <1>1, <1>2

LEMMA CountedType ==
  ASSUME TypeOK, NEW k \in Kind, Counted(k)
  PROVE  count' \in [Kind -> Nat]
BY DEF TypeOK, Counted

LEMMA CleanedType ==
  ASSUME IInv, NEW u \in User
  PROVE  /\ Cleaned(u) \in [User -> Item]
         /\ \A v \in User : Cleaned(u)[v].data \in {v, Null}
<1>1. cell \in [User -> Item] /\ \A v \in User : cell[v].data \in {v, Null}
  BY DEF IInv, TypeOK, RightOwner
<1>. QED  BY <1>1 DEF Cleaned, Item

-----------------------------------------------------------------------------
(* Initially, and in every step. *)

LEMMA InitIInv == Init => IInv
<1>1. Init => TypeOK
  BY FetcherAssumption DEF Init, TypeOK, Empty, Item, Kind, Stamp
<1>2. Init => FlightsFinite  BY FS_EmptySet DEF Init, FlightsFinite
<1>3. Init => RightOwner
  BY FetcherAssumption DEF Init, RightOwner, Empty
<1>. QED  BY <1>1, <1>2, <1>3 DEF IInv

LEMMA NextIInv == IInv /\ [Next]_vars => IInv'
<1> SUFFICES ASSUME IInv, [Next]_vars PROVE IInv'
  OBVIOUS
<1>p. polling' = polling  BY DEF Next, vars
<1> USE FetcherAssumption, <1>p
<1>0. TypeOK /\ FlightsFinite /\ RightOwner  BY DEF IInv
<1>1. ASSUME NEW t \in Tab, Initialize(t) PROVE IInv'
  <2>1. CASE ShouldFetch(t)
    <3>1. FetchData(t, TRUE)  BY <1>1, <2>1 DEF Initialize
    <3>2. /\ promise' \in [Tab -> Nat] /\ flights' \in [Tab -> SUBSET Flight]
          /\ \A s \in Tab : IsFiniteSet(flights'[s])
      BY <3>1, FetchDataType
    <3>. QED  BY <1>0, <1>1, <2>1, <3>2
              DEF IInv, TypeOK, FlightsFinite, RightOwner, Initialize, envVars
  <2>2. CASE ~ShouldFetch(t)
    BY <1>0, <1>1, <2>2
       DEF IInv, TypeOK, FlightsFinite, RightOwner, Initialize, envVars
  <2>. QED  BY <2>1, <2>2
<1>2. ASSUME NEW t \in Tab, TurnReady(t) PROVE IInv'
  BY <1>0, <1>2 DEF IInv, TypeOK, FlightsFinite, RightOwner, TurnReady, envVars
<1>3. ASSUME NEW t \in Tab, Reset(t) PROVE IInv'
  <2>1. owner[t] \in User  BY <1>0, <1>3 DEF TypeOK, Reset
  <2>2. /\ cell' \in [User -> Item]
        /\ \A u \in User : cell'[u].data \in {u, Null}
    BY <1>3, <2>1, CleanedType DEF Reset
  <2>3. copy' \in [Tab -> Item]  BY <1>0, <1>3 DEF TypeOK, Reset, Item
  <2>4. \A s \in Tab : owner'[s] # Nobody => copy'[s].data \in {owner'[s], Null}
    BY <1>0, <1>3 DEF TypeOK, RightOwner, Reset, Item, envVars
  <2>. QED  BY <1>0, <1>3, <2>2, <2>3, <2>4
            DEF IInv, TypeOK, FlightsFinite, RightOwner, Reset, Forget, envVars
<1>4. ASSUME NEW t \in Tab, Succeed(t) PROVE IInv'
  <2>1. PICK f \in flights[t] :
          /\ f.owner # Nobody
          /\ flights' = [flights EXCEPT ![t] = @ \ {f}]
          /\ IF SameOwner(t, f)
             THEN /\ copy' = [copy EXCEPT ![t] = [data |-> f.owner, stamp |-> "fresh"]]
                  /\ cell' = [cell EXCEPT ![owner[t]] =
                                [data |-> f.owner, stamp |-> "fresh"]]
                  /\ timer' = IF polling THEN [timer EXCEPT ![t] = "poll"] ELSE timer
                  /\ promise' = [promise EXCEPT ![t] = 0]
             ELSE UNCHANGED <<copy, cell, timer, promise>>
    BY <1>4 DEF Succeed
  <2>2. UNCHANGED <<owner, freshLogin, deps, active, status, count>>
    BY <1>4 DEF Succeed, envVars
  <2>3. IsFiniteSet(flights[t] \ {f})  BY <1>0, FS_RemoveElement DEF FlightsFinite
  <2>4. flights' \in [Tab -> SUBSET Flight] /\ FlightsFinite'
    BY <1>0, <2>1, <2>3 DEF TypeOK, FlightsFinite
  <2>5. CASE SameOwner(t, f)
    <3>1. f.owner \in User /\ owner[t] = f.owner
      BY <1>0, <2>1, <2>5 DEF TypeOK, Flight, SameOwner
    <3> DEFINE new == [data |-> f.owner, stamp |-> "fresh"]
    <3>2. /\ copy' = [copy EXCEPT ![t] = new]
          /\ cell' = [cell EXCEPT ![owner[t]] = new]
          /\ timer' = IF polling THEN [timer EXCEPT ![t] = "poll"] ELSE timer
          /\ promise' = [promise EXCEPT ![t] = 0]
      BY <2>1, <2>5
    <3>3. new \in Item /\ new.data = owner[t]  BY <3>1 DEF Item, Stamp
    <3> HIDE DEF new
    <3>4. TypeOK'  BY <1>0, <2>2, <2>4, <3>1, <3>2, <3>3 DEF TypeOK
    <3>5. RightOwner'
      BY <1>0, <2>2, <3>1, <3>2, <3>3 DEF TypeOK, RightOwner
    <3>. QED  BY <2>4, <3>4, <3>5 DEF IInv
  <2>6. CASE ~SameOwner(t, f)
    BY <1>0, <2>1, <2>2, <2>4, <2>6 DEF IInv, TypeOK, RightOwner
  <2>. QED  BY <2>5, <2>6
<1>5. ASSUME NEW t \in Tab, Fail(t) PROVE IInv'
  <2>1. PICK f \in flights[t] :
          /\ Counted("error") \/ UNCHANGED count
          /\ flights' = [flights EXCEPT ![t] = @ \ {f}]
          /\ IF SameOwner(t, f)
             THEN /\ promise' = [promise EXCEPT ![t] = 0]
                  /\ timer' = [timer EXCEPT ![t] = AfterError(f)]
             ELSE UNCHANGED <<promise, timer>>
    BY <1>5 DEF Fail
  <2>2. UNCHANGED <<cell, copy, owner, freshLogin, deps, active, status>>
    BY <1>5 DEF Fail, envVars
  <2>3. count' \in [Kind -> Nat]
    BY <1>0, <2>1, CountedType DEF TypeOK, Kind
  <2>4. IsFiniteSet(flights[t] \ {f})  BY <1>0, FS_RemoveElement DEF FlightsFinite
  <2>5. flights' \in [Tab -> SUBSET Flight] /\ FlightsFinite'
    BY <1>0, <2>1, <2>4 DEF TypeOK, FlightsFinite
  <2>6. AfterError(f) \in {"off", "poll", "retry"}  BY DEF AfterError
  <2>7. promise' \in [Tab -> Nat] /\ timer' \in [Tab -> {"off", "poll", "retry"}]
    BY <1>0, <2>1, <2>6 DEF TypeOK
  <2>. QED  BY <1>0, <2>2, <2>3, <2>5, <2>7 DEF IInv, TypeOK, RightOwner
<1>6. ASSUME NEW t \in Tab, Refresh(t) PROVE IInv'
  <2>1. FetchData(t, FALSE) /\ Counted("refresh")  BY <1>6 DEF Refresh
  <2>2. /\ promise' \in [Tab -> Nat] /\ flights' \in [Tab -> SUBSET Flight]
        /\ \A s \in Tab : IsFiniteSet(flights'[s])
    BY <2>1, FetchDataType
  <2>3. count' \in [Kind -> Nat]  BY <1>0, <2>1, CountedType DEF Kind
  <2>. QED  BY <1>0, <1>6, <2>2, <2>3
            DEF IInv, TypeOK, FlightsFinite, RightOwner, Refresh, envVars
<1>7. ASSUME NEW t \in Tab, Poll(t) \/ Retry(t) PROVE IInv'
  <2>1. FetchData(t, FALSE) \/ UNCHANGED <<promise, flights>>
    BY <1>7 DEF Poll, Retry
  <2>2. /\ promise' \in [Tab -> Nat] /\ flights' \in [Tab -> SUBSET Flight]
        /\ \A s \in Tab : IsFiniteSet(flights'[s])
    BY <1>0, <2>1, FetchDataType DEF TypeOK, FlightsFinite
  <2>3. timer' \in [Tab -> {"off", "poll", "retry"}]
    BY <1>0, <1>7 DEF TypeOK, Poll, Retry
  <2>4. UNCHANGED <<cell, copy, owner, freshLogin, deps, active, status, count>>
    BY <1>7 DEF Poll, Retry, envVars
  <2>. QED  BY <1>0, <2>2, <2>3, <2>4 DEF IInv, TypeOK, FlightsFinite, RightOwner
<1>8. ASSUME NEW t \in Tab, NEW u \in User, Login(t, u) PROVE IInv'
  <2>1. count' \in [Kind -> Nat]  BY <1>0, <1>8, CountedType DEF Kind, Login
  <2>2. TypeOK'  BY <1>0, <1>8, <2>1 DEF TypeOK, Login
  <2>3. RightOwner'  BY <1>0, <1>8 DEF TypeOK, RightOwner, Login
  <2>4. FlightsFinite'  BY <1>0, <1>8 DEF FlightsFinite, Login
  <2>. QED  BY <2>2, <2>3, <2>4 DEF IInv
<1>9. ASSUME NEW t \in Tab, Logout(t) PROVE IInv'
  <2>1. owner[t] \in User  BY <1>0, <1>9 DEF TypeOK, Logout
  <2>2. count' \in [Kind -> Nat]  BY <1>0, <1>9, CountedType DEF Kind, Logout
  <2>3. /\ cell' \in [User -> Item]
        /\ \A u \in User : cell'[u].data \in {u, Null}
    BY <1>0, <1>9, <2>1, CleanedType DEF TypeOK, RightOwner, Logout
  <2>4. /\ copy' \in [Tab -> Item]
        /\ \A s \in Tab : owner'[s] # Nobody => copy'[s].data \in {owner'[s], Null}
    BY <1>0, <1>9 DEF TypeOK, RightOwner, Logout, Empty, Item, Stamp
  <2>5. /\ timer' \in [Tab -> {"off", "poll", "retry"}]
        /\ promise' \in [Tab -> Nat]
        /\ status' \in [Tab -> {"pending", "initializing", "ready"}]
    BY <1>0, <1>9 DEF TypeOK, Logout, Forget
  <2>6. TypeOK' /\ RightOwner'
    BY <1>0, <1>9, <2>2, <2>3, <2>4, <2>5 DEF TypeOK, RightOwner, Logout
  <2>. QED  BY <1>0, <1>9, <2>6 DEF IInv, FlightsFinite, Logout
<1>10. ASSUME NEW t \in Tab, Reload(t) PROVE IInv'
  <2>1. count' \in [Kind -> Nat]  BY <1>0, <1>10, CountedType DEF Kind, Reload
  <2>2. TypeOK'
    BY <1>0, <1>10, <2>1 DEF TypeOK, Reload, Forget, Empty, Item, Stamp
  <2>3. RightOwner'
    BY <1>0, <1>10 DEF TypeOK, RightOwner, Reload, Empty
  <2>4. FlightsFinite'
    BY <1>0, <1>10, FS_EmptySet DEF TypeOK, FlightsFinite, Reload
  <2>. QED  BY <2>2, <2>3, <2>4 DEF IInv
<1>11. ASSUME NEW t \in Tab, DepsReady(t) \/ DepsReset(t) PROVE IInv'
  <2>1. count' \in [Kind -> Nat]
    BY <1>0, <1>11, CountedType DEF TypeOK, Kind, DepsReady, DepsReset
  <2>2. TypeOK'  BY <1>0, <1>11, <2>1 DEF TypeOK, DepsReady, DepsReset
  <2>. QED  BY <1>0, <1>11, <2>2
            DEF IInv, RightOwner, FlightsFinite, DepsReady, DepsReset
<1>12. ASSUME NEW t \in Tab, SyncData(t) \/ SyncStamp(t) PROVE IInv'
  <2>1. owner[t] \in User  BY <1>0, <1>12 DEF TypeOK, SyncData, SyncStamp
  <2>2. TypeOK'
    BY <1>0, <1>12, <2>1 DEF TypeOK, SyncData, SyncStamp, Item, envVars
  <2>3. RightOwner'
    BY <1>0, <1>12, <2>1 DEF TypeOK, RightOwner, SyncData, SyncStamp, Item, envVars
  <2>. QED  BY <1>0, <1>12, <2>2, <2>3 DEF IInv, FlightsFinite, SyncData, SyncStamp
<1>13. CASE Switch
  <2>1. count' \in [Kind -> Nat]  BY <1>0, <1>13, CountedType DEF Kind, Switch
  <2>. QED  BY <1>0, <1>13, <2>1 DEF IInv, TypeOK, RightOwner, FlightsFinite, Switch
<1>14. CASE Expire
  <2>1. count' \in [Kind -> Nat]  BY <1>0, <1>14, CountedType DEF Kind, Expire
  <2>2. \A i \in Item : Aged(i) \in Item /\ Aged(i).data = i.data
    BY DEF Aged, Item, Stamp
  <2>3. /\ cell' \in [User -> Item] /\ copy' \in [Tab -> Item]
        /\ \A u \in User : cell'[u].data = cell[u].data
        /\ \A t \in Tab : copy'[t].data = copy[t].data
    BY <1>0, <1>14, <2>2 DEF TypeOK, Expire
  <2>. QED  BY <1>0, <1>14, <2>1, <2>3
            DEF IInv, TypeOK, RightOwner, FlightsFinite, Expire, envVars
<1>15. CASE UNCHANGED vars
  BY <1>0, <1>15 DEF IInv, TypeOK, RightOwner, FlightsFinite, vars
<1>. QED
  BY <1>1, <1>2, <1>3, <1>4, <1>5, <1>6, <1>7, <1>8, <1>9, <1>10, <1>11, <1>12,
     <1>13, <1>14, <1>15 DEF Next, Internal

\* The state of the fetcher keeps its types: in particular there is always an id
\* for the next request, and a logout in the middle of one leaves none undefined.
THEOREM TypeCorrect == Spec => []TypeOK
BY InitIInv, NextIInv, PTL DEF Spec, IInv

\* For any number of tabs and users: whatever a request returned is stored and
\* shown for the user whose session made it only (DataFetcher._fetchData).
THEOREM OwnersKeepTheirData == Spec => []RightOwner
BY InitIInv, NextIInv, PTL DEF Spec, IInv

-----------------------------------------------------------------------------
(* Without cleanOnReset a ready fetcher has data.  What a tab shows must be *)
(* in the storage too, or another tab's event could take it away.           *)

Shown(t) == copy[t].data # Null

DataKept ==
  \A t \in Tab :
    /\ status[t] = "ready" => Shown(t)
    /\ Shown(t) => owner[t] # Nobody /\ cell[owner[t]].data # Null

LEMMA NextDataKept ==
  ASSUME CleanOnReset = FALSE, IInv, DataKept, [Next]_vars
  PROVE  DataKept'
<1> USE FetcherAssumption
<1>0. TypeOK  BY DEF IInv
<1>1. ASSUME NEW t \in Tab, Initialize(t) \/ TurnReady(t) PROVE DataKept'
  BY <1>0, <1>1 DEF TypeOK, DataKept, Shown, Initialize, TurnReady, IsDataReady, envVars
<1>2. ASSUME NEW t \in Tab, Reset(t) PROVE DataKept'
  BY <1>0, <1>2 DEF TypeOK, DataKept, Shown, Reset, Cleaned, Forget, envVars
<1>3. ASSUME NEW t \in Tab, Succeed(t) PROVE DataKept'
  <2>1. PICK f \in flights[t] :
          /\ f.owner # Nobody
          /\ IF SameOwner(t, f)
             THEN /\ copy' = [copy EXCEPT ![t] = [data |-> f.owner, stamp |-> "fresh"]]
                  /\ cell' = [cell EXCEPT ![owner[t]] =
                                [data |-> f.owner, stamp |-> "fresh"]]
             ELSE UNCHANGED <<copy, cell>>
    BY <1>3 DEF Succeed
  <2>2. UNCHANGED <<owner, status>>  BY <1>3 DEF Succeed, envVars
  <2>3. CASE SameOwner(t, f)
    <3>1. f.owner \in User /\ owner[t] = f.owner
      BY <1>0, <2>1, <2>3 DEF TypeOK, Flight, SameOwner
    <3> DEFINE new == [data |-> f.owner, stamp |-> "fresh"]
    <3>2. /\ copy' = [copy EXCEPT ![t] = new]
          /\ cell' = [cell EXCEPT ![owner[t]] = new]
      BY <2>1, <2>3
    <3>3. new.data \in User /\ new.data # Null  BY <3>1
    <3> HIDE DEF new
    <3>. QED  BY <1>0, <2>2, <3>1, <3>2, <3>3 DEF TypeOK, DataKept, Shown
  <2>4. CASE ~SameOwner(t, f)  BY <2>1, <2>2, <2>4 DEF DataKept, Shown
  <2>. QED  BY <2>3, <2>4
<1>4. ASSUME NEW t \in Tab, Fail(t) \/ Refresh(t) \/ Poll(t) \/ Retry(t)
      PROVE DataKept'
  BY <1>4 DEF DataKept, Shown, Fail, Refresh, Poll, Retry, envVars
<1>5. ASSUME NEW t \in Tab, NEW u \in User, Login(t, u) PROVE DataKept'
  <2>1. /\ owner' = [owner EXCEPT ![t] = u] /\ copy' = [copy EXCEPT ![t] = cell[u]]
        /\ UNCHANGED <<cell, status>> /\ owner[t] = Nobody
    BY <1>5 DEF Login
  <2>2. status[t] # "ready"  BY <2>1 DEF DataKept
  <2>. QED  BY <1>0, <2>1, <2>2 DEF TypeOK, DataKept, Shown
<1>6. ASSUME NEW t \in Tab, Logout(t) PROVE DataKept'
  <2>1. /\ owner' = [owner EXCEPT ![t] = Nobody]
        /\ copy' = [copy EXCEPT ![t] = Empty]
        /\ status' = [status EXCEPT ![t] = IF status[t] = "ready" THEN "pending" ELSE @]
        /\ UNCHANGED cell
    BY <1>0, <1>6 DEF TypeOK, Logout, Forget, Cleaned
  <2>. QED  BY <1>0, <2>1 DEF TypeOK, DataKept, Shown, Empty
<1>7. ASSUME NEW t \in Tab, Reload(t) PROVE DataKept'
  BY <1>0, <1>7 DEF TypeOK, DataKept, Shown, Reload, Forget, Empty
<1>8. ASSUME NEW t \in Tab, DepsReady(t) \/ DepsReset(t) PROVE DataKept'
  BY <1>8 DEF DataKept, Shown, DepsReady, DepsReset
<1>9. ASSUME NEW t \in Tab, SyncData(t) \/ SyncStamp(t) PROVE DataKept'
  BY <1>0, <1>9 DEF TypeOK, Item, DataKept, Shown, SyncData, SyncStamp, envVars
<1>10. CASE Switch  BY <1>10 DEF DataKept, Shown, Switch
<1>11. CASE Expire
  <2>1. /\ \A u \in User : cell'[u].data = cell[u].data
        /\ \A t \in Tab : copy'[t].data = copy[t].data
    BY <1>0, <1>11 DEF TypeOK, Item, Expire, Aged
  <2>. QED  BY <1>0, <1>11, <2>1 DEF TypeOK, DataKept, Shown, Expire, envVars
<1>12. CASE UNCHANGED vars  BY <1>12 DEF DataKept, Shown, vars
<1>. QED
  BY <1>1, <1>2, <1>3, <1>4, <1>5, <1>6, <1>7, <1>8, <1>9, <1>10, <1>11, <1>12
     DEF Next, Internal

\* For any tabs and users: unless cleanOnReset drops it, the data of a ready
\* fetcher stays, through the resets, logouts and fetches of every tab.
THEOREM ReadyFetchersHaveData ==
  ASSUME CleanOnReset = FALSE PROVE Spec => []ReadyHasData
<1>1. Init => DataKept
  BY FetcherAssumption DEF Init, DataKept, Shown, Empty
<1>2. IInv /\ DataKept /\ [Next]_vars => DataKept'  BY NextDataKept
<1>3. DataKept => ReadyHasData  BY DEF DataKept, ReadyHasData, Shown
<1>. QED  BY <1>1, <1>2, <1>3, InitIInv, NextIInv, PTL DEF Spec

-----------------------------------------------------------------------------
(* Until a session ends, what a fetcher waits for is going to come.         *)

\* The request that _promise stands for is under way, for the user of the session.
Requested(t) == \E f \in flights[t] : f.id = promise[t]

\* Something is under way that brings data or goes on trying: a timeout, a request, or
\* another tab's data, which Storage is about to bring.
Comes(t) ==
  \/ Shown(t)
  \/ timer[t] # "off"
  \/ promise[t] # 0 /\ Requested(t)
  \/ owner[t] # Nobody /\ cell[owner[t]].data # Null

\* The safety that EventuallyReady rests on.
DataComes ==
  count["logout"] = 0 => \A t \in Tab : status[t] = "initializing" => Comes(t)

\* A timestamp is stored and kept with data.
Stamped ==
  /\ \A u \in User : cell[u].stamp # "none" => cell[u].data # Null
  /\ \A t \in Tab : copy[t].stamp # "none" => owner[t] # Nobody /\ cell[owner[t]].data # Null

\* In a first session all requests are of its user, and _promise stands for one of them.
FirstSession ==
  count["logout"] = 0 =>
    \A t \in Tab :
      /\ owner[t] = Nobody => status[t] = "pending" /\ timer[t] = "off" /\ flights[t] = {}
      /\ \A f \in flights[t] : f.owner = owner[t]
      /\ promise[t] # 0 => Requested(t)

ComesInv == Stamped /\ FirstSession /\ DataComes

\* An ended session is not forgotten.
LEMMA LogoutStays ==
  ASSUME IInv, [Next]_vars, count'["logout"] = 0
  PROVE  count["logout"] = 0
<1>1. UNCHANGED count \/ \E k \in Kind : Counted(k)
  BY DEF Next, Internal, vars, Initialize, TurnReady, Reset, Succeed, Fail, Poll, Retry, SyncData,
     SyncStamp, DepsReady, Login, Logout, Reload, DepsReset, Refresh, Switch, Expire, Kind
<1>. QED  BY <1>1 DEF IInv, TypeOK, Counted, Kind

\* After fetchData a request is under way.
LEMMA FetchDataComes ==
  ASSUME IInv, NEW t \in Tab, NEW init \in BOOLEAN, FetchData(t, init),
         \A f \in flights[t] : f.owner = owner[t],
         promise[t] # 0 => Requested(t)
  PROVE  /\ promise'[t] # 0 /\ \E f \in flights'[t] : f.id = promise'[t]
         /\ \A f \in flights'[t] : f.owner = owner[t]
         /\ \A s \in Tab : s # t => promise'[s] = promise[s] /\ flights'[s] = flights[s]
<1>0. /\ flights \in [Tab -> SUBSET Flight] /\ promise \in [Tab -> Nat]
  BY DEF IInv, TypeOK
<1>1. CASE promise[t] # 0
  <2>. DEFINE G(f) == IF f.id = promise[t] THEN [f EXCEPT !.init = @ \/ init] ELSE f
  <2>1. flights' = [flights EXCEPT ![t] = {G(f) : f \in @}] /\ UNCHANGED promise
    BY <1>1 DEF FetchData
  <2>2. \A f \in flights[t] : G(f).id = f.id /\ G(f).owner = f.owner
    BY <1>0 DEF Flight
  <2>. HIDE DEF G
  <2>3. flights'[t] = {G(f) : f \in flights[t]}
    BY <1>0, <2>1
  <2>4. PICK f \in flights[t] : f.id = promise[t]
    BY <1>1 DEF Requested
  <2>5. G(f) \in flights'[t] /\ G(f).id = promise'[t]
    BY <2>1, <2>2, <2>3, <2>4
  <2>. QED  BY <1>0, <1>1, <2>1, <2>2, <2>3, <2>5
<1>2. CASE promise[t] = 0
  <2>. DEFINE f == [id |-> FreeId(t), owner |-> owner[t], init |-> init]
  <2>1. /\ flights' = [flights EXCEPT ![t] = @ \cup {f}]
        /\ promise' = [promise EXCEPT ![t] = FreeId(t)]
    BY <1>2 DEF FetchData
  <2>2. FreeId(t) # 0
    BY <1>2, FreeIdType
  <2>3. f.id = FreeId(t) /\ f.owner = owner[t]
    OBVIOUS
  <2>. HIDE DEF f
  <2>. QED  BY <1>0, <2>1, <2>2, <2>3
<1>. QED  BY <1>1, <1>2

LEMMA FetchDataInFirst ==
  ASSUME IInv, ComesInv, count["logout"] = 0, NEW t \in Tab, NEW init \in BOOLEAN, FetchData(t, init)
  PROVE  /\ promise'[t] # 0 /\ \E f \in flights'[t] : f.id = promise'[t]
         /\ \A f \in flights'[t] : f.owner = owner[t]
         /\ \A s \in Tab : s # t => promise'[s] = promise[s] /\ flights'[s] = flights[s]
<1>1. \A f \in flights[t] : f.owner = owner[t]
  BY DEF ComesInv, FirstSession
<1>2. promise[t] # 0 => Requested(t)
  BY DEF ComesInv, FirstSession
<1>. QED  BY <1>1, <1>2, FetchDataComes

LEMMA NextComes ==
  ASSUME CleanOnReset = FALSE, IInv, DataKept, ComesInv, [Next]_vars
  PROVE  ComesInv'
<1>0. TypeOK /\ Stamped /\ (count'["logout"] = 0 => count["logout"] = 0)
  BY LogoutStays DEF IInv, ComesInv
<1> USE FetcherAssumption DEF envVars
<1>1. ASSUME NEW t \in Tab, Initialize(t) PROVE ComesInv'
  <2>0. /\ UNCHANGED <<cell, copy, owner, count>> /\ owner[t] # Nobody
        /\ status' = [status EXCEPT ![t] = "initializing"]
    BY <1>1 DEF Initialize, ShouldInit, CanRun
  <2>1. CASE ShouldFetch(t)
    <3>1. FetchData(t, TRUE) /\ UNCHANGED timer
      BY <1>1, <2>1 DEF Initialize
    <3>2. count["logout"] = 0 =>
           /\ promise'[t] # 0 /\ \E f \in flights'[t] : f.id = promise'[t]
           /\ \A f \in flights'[t] : f.owner = owner[t]
           /\ \A s \in Tab : s # t => promise'[s] = promise[s] /\ flights'[s] = flights[s]
      BY <3>1, FetchDataInFirst
    <3>. QED  BY <1>0, <2>0, <3>1, <3>2
              DEF TypeOK, ComesInv, Stamped, FirstSession, DataComes, Comes, Requested, Shown
  <2>2. CASE ~ShouldFetch(t)
    <3>1. /\ timer' = [timer EXCEPT ![t] = IF polling THEN "poll" ELSE "retry"]
          /\ UNCHANGED <<promise, flights>>
      BY <1>1, <2>2 DEF Initialize
    <3>. QED  BY <1>0, <2>0, <3>1
              DEF TypeOK, ComesInv, Stamped, FirstSession, DataComes, Comes, Requested, Shown
  <2>. QED  BY <2>1, <2>2
<1>2. ASSUME NEW t \in Tab, TurnReady(t) PROVE ComesInv'
  <2>1. owner[t] # Nobody
    BY <1>2 DEF TurnReady, IsDataReady, DataKept, Shown
  <2>. QED  BY <1>0, <1>2, <2>1
            DEF TypeOK, ComesInv, Stamped, FirstSession, DataComes, Comes, Requested, Shown, TurnReady
<1>3. ASSUME NEW t \in Tab, Reset(t) PROVE ComesInv'
  BY <1>0, <1>3 DEF TypeOK, ComesInv, Stamped, FirstSession, DataComes, Comes, Requested, Shown,
                    Reset, Forget, Cleaned
<1>4. ASSUME NEW t \in Tab, Succeed(t) PROVE ComesInv'
  <2>1. PICK f \in flights[t] :
          /\ f.owner # Nobody
          /\ flights' = [flights EXCEPT ![t] = @ \ {f}]
          /\ IF SameOwner(t, f)
             THEN /\ copy' = [copy EXCEPT ![t] = [data |-> f.owner, stamp |-> "fresh"]]
                  /\ cell' = [cell EXCEPT ![owner[t]] = [data |-> f.owner, stamp |-> "fresh"]]
                  /\ timer' = IF polling THEN [timer EXCEPT ![t] = "poll"] ELSE timer
                  /\ promise' = [promise EXCEPT ![t] = 0]
             ELSE UNCHANGED <<copy, cell, timer, promise>>
    BY <1>4 DEF Succeed
  <2>2. UNCHANGED <<owner, status, count>>  BY <1>4 DEF Succeed
  <2>3. CASE SameOwner(t, f)
    <3>1. f.owner \in User /\ owner[t] = f.owner
      BY <1>0, <2>1, <2>3 DEF TypeOK, Flight, SameOwner
    <3> DEFINE new == [data |-> f.owner, stamp |-> "fresh"]
    <3>2. /\ copy' = [copy EXCEPT ![t] = new] /\ cell' = [cell EXCEPT ![owner[t]] = new]
          /\ timer' = IF polling THEN [timer EXCEPT ![t] = "poll"] ELSE timer
          /\ promise' = [promise EXCEPT ![t] = 0]
      BY <2>1, <2>3
    <3>3. new.data # Null  BY <3>1
    <3> HIDE DEF new
    <3>4. \A u \in User : cell[u].data # Null => cell'[u].data # Null
      BY <1>0, <3>1, <3>2, <3>3 DEF TypeOK
    <3>5. copy'[t].data # Null /\ cell'[owner[t]].data # Null
      BY <1>0, <3>1, <3>2, <3>3 DEF TypeOK
    <3>6. \A s \in Tab : owner[s] # Nobody => owner[s] \in User
      BY <1>0 DEF TypeOK
    <3>7. Stamped'
      BY <1>0, <2>2, <3>1, <3>2, <3>3, <3>4, <3>5, <3>6 DEF TypeOK, Stamped
    <3>8. FirstSession'
      BY <1>0, <2>1, <2>2, <3>1, <3>2 DEF TypeOK, ComesInv, FirstSession, Requested
    <3>9. DataComes'
      BY <1>0, <2>1, <2>2, <3>2, <3>4, <3>5, <3>6 DEF TypeOK, ComesInv, DataComes, Comes, Requested, Shown
    <3>. QED  BY <3>7, <3>8, <3>9 DEF ComesInv
  <2>4. CASE ~SameOwner(t, f)
    <3>1. count["logout"] # 0
      BY <2>1, <2>4 DEF ComesInv, FirstSession, SameOwner
    <3>. QED  BY <1>0, <2>1, <2>2, <2>4, <3>1 DEF ComesInv, Stamped, FirstSession, DataComes
  <2>. QED  BY <2>3, <2>4
<1>5. ASSUME NEW t \in Tab, Fail(t) PROVE ComesInv'
  <2>1. PICK f \in flights[t] :
          /\ flights' = [flights EXCEPT ![t] = @ \ {f}]
          /\ IF SameOwner(t, f)
             THEN /\ promise' = [promise EXCEPT ![t] = 0]
                  /\ timer' = [timer EXCEPT ![t] = AfterError(f)]
             ELSE UNCHANGED <<promise, timer>>
    BY <1>5 DEF Fail
  <2>2. UNCHANGED <<cell, copy, owner, status>>  BY <1>5 DEF Fail
  <2>3. AfterError(f) # "off"  BY DEF AfterError
  <2>4. count["logout"] = 0 => SameOwner(t, f) /\ owner[t] # Nobody
    BY <2>1 DEF ComesInv, FirstSession, SameOwner
  <2>. QED  BY <1>0, <2>1, <2>2, <2>3, <2>4
            DEF TypeOK, ComesInv, Stamped, FirstSession, DataComes, Comes, Requested, Shown
<1>6. ASSUME NEW t \in Tab, Refresh(t) PROVE ComesInv'
  <2>1. /\ FetchData(t, FALSE) /\ UNCHANGED <<cell, copy, owner, status, timer>>
        /\ status[t] = "ready"
    BY <1>6 DEF Refresh
  <2>2. count["logout"] = 0 =>
         /\ promise'[t] # 0 /\ \E f \in flights'[t] : f.id = promise'[t]
         /\ \A f \in flights'[t] : f.owner = owner[t]
         /\ \A s \in Tab : s # t => promise'[s] = promise[s] /\ flights'[s] = flights[s]
    BY <2>1, FetchDataInFirst
  <2>. QED  BY <1>0, <2>1, <2>2
            DEF TypeOK, ComesInv, Stamped, FirstSession, DataComes, Comes, Requested, Shown
<1>7. ASSUME NEW t \in Tab, Poll(t) \/ Retry(t) PROVE ComesInv'
  <2>1. UNCHANGED <<cell, copy, owner, status, count>> /\ timer[t] # "off"
    BY <1>7 DEF Poll, Retry
  <2>2. CASE FetchData(t, FALSE)
    <3>1. \A s \in Tab : s # t => timer'[s] = timer[s]
      BY <1>0, <1>7 DEF TypeOK, Poll, Retry
    <3>2. count["logout"] = 0 =>
           /\ promise'[t] # 0 /\ \E f \in flights'[t] : f.id = promise'[t]
           /\ \A f \in flights'[t] : f.owner = owner[t]
           /\ \A s \in Tab : s # t => promise'[s] = promise[s] /\ flights'[s] = flights[s]
      BY <2>2, FetchDataInFirst
    <3>. QED  BY <1>0, <2>1, <2>2, <3>1, <3>2
              DEF TypeOK, ComesInv, Stamped, FirstSession, DataComes, Comes, Requested, Shown
  <2>3. CASE ~FetchData(t, FALSE)
    <3>1. UNCHANGED <<promise, flights>>
      BY <1>7, <2>3 DEF Poll, Retry
    <3>2. timer'[t] # "off" \/ copy[t].stamp = "fresh"
      BY <1>0, <1>7, <2>3 DEF TypeOK, Poll, Retry, PollsOn, KeepsTrying
    <3>3. \A s \in Tab : s # t => timer'[s] = timer[s]
      BY <1>0, <1>7 DEF TypeOK, Poll, Retry
    <3>. QED  BY <1>0, <2>1, <3>1, <3>2, <3>3
              DEF TypeOK, ComesInv, Stamped, FirstSession, DataComes, Comes, Requested, Shown
  <2>. QED  BY <2>2, <2>3
<1>8. ASSUME NEW t \in Tab, NEW u \in User, Login(t, u) PROVE ComesInv'
  <2>1. status[t] # "ready"
    BY <1>8 DEF Login, Settled, ShouldReset, CanRun
  <2>. QED  BY <1>0, <1>8, <2>1
            DEF TypeOK, ComesInv, Stamped, FirstSession, DataComes, Comes, Requested, Shown, Login
<1>9. ASSUME NEW t \in Tab, Logout(t) \/ Reload(t) PROVE ComesInv'
  <2>1. count'["logout"] # 0
    BY <1>0, <1>9 DEF Logout, Reload, Counted, TypeOK, Kind
  <2>2. /\ owner' = [owner EXCEPT ![t] = Nobody] /\ copy' = [copy EXCEPT ![t] = Empty]
        /\ UNCHANGED cell
    BY <1>9 DEF Logout, Reload, Cleaned
  <2>3. Stamped'
    BY <1>0, <2>2 DEF TypeOK, Stamped, Empty
  <2>. QED  BY <2>1, <2>3 DEF ComesInv, FirstSession, DataComes
<1>10. ASSUME NEW t \in Tab, DepsReady(t) \/ DepsReset(t) PROVE ComesInv'
  BY <1>0, <1>10 DEF TypeOK, ComesInv, Stamped, FirstSession, DataComes, Comes, Requested, Shown,
                     DepsReady, DepsReset
<1>11. ASSUME NEW t \in Tab, SyncData(t) \/ SyncStamp(t) PROVE ComesInv'
  <2>1. owner[t] \in User /\ UNCHANGED <<cell, owner, status, promise, flights, timer, count>>
    BY <1>0, <1>11 DEF TypeOK, SyncData, SyncStamp
  <2>2. /\ copy'[t].stamp \in {copy[t].stamp, cell[owner[t]].stamp}
        /\ \A s \in Tab : s # t => copy'[s] = copy[s]
    BY <1>0, <1>11, <2>1 DEF TypeOK, Item, SyncData, SyncStamp
  <2>3. Shown(t) => cell[owner[t]].data # Null
    BY DEF DataKept
  <2>4. Stamped'
    BY <1>0, <2>1, <2>2 DEF Stamped
  <2>5. FirstSession'
    BY <2>1 DEF ComesInv, FirstSession, Requested
  <2>6. DataComes'
    BY <2>1, <2>2, <2>3 DEF ComesInv, DataComes, Comes, Requested, Shown
  <2>. QED  BY <2>4, <2>5, <2>6 DEF ComesInv
<1>12. CASE Switch
  BY <1>0, <1>12 DEF ComesInv, Stamped, FirstSession, DataComes, Comes, Requested, Shown, Switch
<1>13. CASE Expire
  <2>1. \A i \in Item : Aged(i).data = i.data /\ (Aged(i).stamp = "none" <=> i.stamp = "none")
    BY DEF Aged, Item, Stamp
  <2>2. /\ \A u \in User : /\ cell'[u].data = cell[u].data
                           /\ cell'[u].stamp = "none" <=> cell[u].stamp = "none"
        /\ \A t \in Tab : /\ copy'[t].data = copy[t].data
                          /\ copy'[t].stamp = "none" <=> copy[t].stamp = "none"
        /\ UNCHANGED <<owner, status, promise, flights, timer>>
    BY <1>0, <1>13, <2>1 DEF TypeOK, Expire
  <2>3. \A t \in Tab : owner[t] # Nobody => owner[t] \in User
    BY <1>0 DEF TypeOK
  <2>. QED  BY <1>0, <2>2, <2>3
            DEF ComesInv, Stamped, FirstSession, DataComes, Comes, Requested, Shown
<1>14. CASE UNCHANGED vars
  BY <1>0, <1>14 DEF ComesInv, Stamped, FirstSession, DataComes, Comes, Requested, Shown, vars
<1>. QED
  BY <1>1, <1>2, <1>3, <1>4, <1>5, <1>6, <1>7, <1>8, <1>9, <1>10, <1>11, <1>12, <1>13, <1>14
     DEF Next, Internal

\* For any tabs, users and bounds: until a session ends, a fetcher that initializes has data, or
\* waits for a request or a timeout, or for the data another tab has stored for its user
\* (DataFetcher, Pollable); unless cleanOnReset dropped those.
THEOREM FetchersGetTheirData ==
  ASSUME CleanOnReset = FALSE PROVE Spec => []DataComes
<1>1. Init => DataKept /\ ComesInv
  BY FetcherAssumption
     DEF Init, DataKept, Shown, Empty, ComesInv, Stamped, FirstSession, DataComes
<1>2. IInv /\ DataKept /\ ComesInv /\ [Next]_vars => DataKept' /\ ComesInv'
  BY NextDataKept, NextComes
<1>3. ComesInv => DataComes  BY DEF ComesInv
<1>. QED  BY <1>1, <1>2, <1>3, InitIInv, NextIInv, PTL DEF Spec
=============================================================================
