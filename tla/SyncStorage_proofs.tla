------------------------- MODULE SyncStorage_proofs -------------------------
(***************************************************************************)
(* Proofs about SyncStorage, for any tabs, users, keys and bounds.         *)
(*                                                                         *)
(* Converged does not stand alone: a step keeps it because storedData      *)
(* follows data (StoredIsData), so a save writes only what the reducers    *)
(* just made, and because a timeout that is still heard was started for    *)
(* the user of the session (TimersMatch).  NeverGoesBack needs that the    *)
(* cell is never behind a tab that shows it (NotBehind).                   *)
(***************************************************************************)
EXTENDS SyncStorage, TLAPS

\* storedData agrees with the data, except for substates that were dropped
\* because the tab has no reducer for them.
Follows(t) ==
  \A k \in Key : \/ stored[t][k] = data[t][k]
                 \/ k \notin Registered[t] /\ data[t][k] = Undefined

StoredIsData == \A t \in Tab : session[t] # Nobody => Follows(t)

TimersMatch ==
  \A t \in Tab : \A m \in timers[t] :
    /\ m.login <= login[t]
    /\ session[t] # Nobody /\ m.login = login[t] => m.user = session[t]

Numbered ==
  /\ \A u \in User, k \in Key : cells[u][k] \in Made => cells[u][k].n <= writes
  /\ \A t \in Tab, k \in Key : data[t][k] \in Made => data[t][k].n <= writes

NotBehind ==
  \A t \in Tab : session[t] # Nobody =>
    \A k \in Key :
      cells[session[t]][k] \in Made /\ data[t][k] \in Made
        => cells[session[t]][k].n >= data[t][k].n

IInv == /\ TypeOK /\ StoredIsData /\ TimersMatch /\ Converged
        /\ UserIsolation /\ Numbered /\ NotBehind

\* A data object the reducers may have made of the data of tab t.
Computed(t, d) ==
  /\ d \in [Key -> Value \cup {Undefined}]
  /\ \A k \in Key :
       \/ d[k] = data[t][k]
       \/ k \in Registered[t] /\ d[k] = Initial
       \/ k \in Registered[t] /\ d[k] = Fresh(t) /\ writes' = writes + 1
       \/ k \notin Registered[t] /\ d[k] = Undefined

-----------------------------------------------------------------------------
(* Typing. *)

LEMMA ItemType ==
  ASSUME TypeOK, NEW u \in User, NEW k \in Key
  PROVE  /\ Item(u, k) \in Value \cup {Undefined}
         /\ cells[u][k] # Absent => Item(u, k) = cells[u][k]
         /\ Item(u, k) \in Made => Item(u, k) = cells[u][k]
BY ValuesAssumption DEF Item, TypeOK, Value

LEMMA InitialType ==
  ASSUME NEW t \in Tab
  PROVE  /\ InitialData(t) \in [Key -> Value \cup {Undefined}]
         /\ \A k \in Key : InitialData(t)[k] \notin Made
BY ValuesAssumption DEF InitialData, Value

LEMMA FreshType ==
  ASSUME TypeOK, NEW t \in Tab
  PROVE  Fresh(t) \in Made /\ Fresh(t).n = writes + 1 /\ Fresh(t).user = session[t]
BY DEF Fresh, Made, TypeOK

LEMMA LoadedType ==
  ASSUME TypeOK, NEW t \in Tab, NEW u \in User
  PROVE  Loaded(t, u) \in [Key -> Value \cup {Undefined}]
BY ItemType DEF Loaded

LEMMA SaveType ==
  ASSUME TypeOK, NEW t \in Tab, NEW u \in User,
         NEW s \in [Key -> Value \cup {Undefined}],
         NEW d \in [Key -> Value \cup {Undefined}], Save(t, u, s, d)
  PROVE  /\ cells' \in [User -> [Key -> Value \cup {Absent}]]
         /\ notices' \in [Tab -> SUBSET Notice]
         /\ stored' \in [Tab -> [Key -> Value \cup {Undefined}]]
<1>1. cells' \in [User -> [Key -> Value \cup {Absent}]]
  <2>1. [k \in Key |-> IF k \in Changed(s, d) THEN d[k] ELSE cells[u][k]]
          \in [Key -> Value \cup {Absent}]
    BY DEF Changed, TypeOK
  <2>. QED  BY <2>1 DEF Save, TypeOK
<1>2. notices' \in [Tab -> SUBSET Notice]
  <2>1. {[user |-> u, key |-> k] : k \in Changed(s, d)} \subseteq Notice
    BY DEF Changed, Notice
  <2>. QED  BY <2>1 DEF Save, TypeOK
<1>3. stored' \in [Tab -> [Key -> Value \cup {Undefined}]]
  <2>1. [k \in Key |-> IF k \in Changed(s, d) THEN d[k] ELSE s[k]]
          \in [Key -> Value \cup {Undefined}]
    OBVIOUS
  <2>. QED  BY <2>1 DEF Save, TypeOK
<1>. QED  BY <1>1, <1>2, <1>3

LEMMA ReducedComputed ==
  ASSUME TypeOK, NEW t \in Tab, NEW K \in SUBSET Registered[t],
         K # {} => writes' = writes + 1
  PROVE  Computed(t, Reduced(t, K))
<1>1. Fresh(t) \in Value /\ Initial \in Value
  BY FreshType DEF Value
<1>2. Reduced(t, K) \in [Key -> Value \cup {Undefined}]
  <2>1. \A k \in Key : data[t][k] \in Value \cup {Undefined}
    BY DEF TypeOK
  <2>. QED  BY <1>1, <2>1 DEF Reduced
<1>3. ASSUME NEW k \in Key
      PROVE  \/ Reduced(t, K)[k] = data[t][k]
             \/ k \in Registered[t] /\ Reduced(t, K)[k] = Initial
             \/ k \in Registered[t] /\ Reduced(t, K)[k] = Fresh(t) /\ writes' = writes + 1
             \/ k \notin Registered[t] /\ Reduced(t, K)[k] = Undefined
  BY DEF Reduced
<1>. QED  BY <1>2, <1>3 DEF Computed

LEMMA ClearedComputed ==
  ASSUME TypeOK, NEW t \in Tab, NEW K \in SUBSET Registered[t]
  PROVE  Computed(t, Cleared(t, K))
BY DEF Computed, Cleared, TypeOK, Value

LEMMA SyncedType ==
  ASSUME TypeOK, NEW t \in Tab, NEW k \in Key, NEW v \in Value \cup {Undefined}
  PROVE  /\ Synced(t, k, v) \in [Key -> Value \cup {Undefined}]
         /\ Noted(t, k, v) \in [Key -> Value \cup {Undefined}]
BY DEF Synced, Noted, TypeOK

LEMMA NextTypeOK ==
  ASSUME TypeOK, Next
  PROVE  TypeOK'
<1>1. PICK t \in Tab : \/ \E u \in User : Login(t, u)
                       \/ Reduce(t) \/ Deliver(t) \/ Fire(t) \/ Logout(t) \/ Reload(t)
  BY DEF Next
<1>2. ASSUME NEW u \in User, Login(t, u)
      PROVE  TypeOK'
  <2>1. [k \in Key |-> IF k \in Registered[t] THEN cells[u][k] ELSE Absent]
          \in [Key -> Value \cup {Absent}]
    BY DEF TypeOK
  <2>2. cells' \in [User -> [Key -> Value \cup {Absent}]]
    BY <1>2, <2>1 DEF Login, TypeOK
  <2>3. /\ data' \in [Tab -> [Key -> Value \cup {Undefined}]]
        /\ stored' \in [Tab -> [Key -> Value \cup {Undefined}]]
    BY <1>2, LoadedType DEF Login, TypeOK
  <2>4. session' \in [Tab -> User \cup {Nobody}] /\ login' \in [Tab -> Nat]
        /\ logins' \in Nat
    BY <1>2 DEF Login, TypeOK
  <2>. QED  BY <1>2, <2>2, <2>3, <2>4 DEF Login, TypeOK
<1>3. ASSUME Reduce(t)
      PROVE  TypeOK'
  <2>1. PICK K \in AtMostOne(t) :
          /\ writes' = IF K = {} THEN writes ELSE writes + 1
          /\ data' = [data EXCEPT ![t] = Reduced(t, K)]
          /\ IF session[t] = Nobody
             THEN UNCHANGED <<cells, notices, stored>>
             ELSE Save(t, session[t], stored[t], Reduced(t, K))
          /\ UNCHANGED <<timers, session, login, logins>>
    BY <1>3 DEF Reduce
  <2>2. K \in SUBSET Registered[t]
    BY DEF AtMostOne
  <2>3. Reduced(t, K) \in [Key -> Value \cup {Undefined}]
    BY <2>1, <2>2, ReducedComputed DEF Computed
  <2>4. data' \in [Tab -> [Key -> Value \cup {Undefined}]] /\ writes' \in Nat
    BY <2>1, <2>3 DEF TypeOK
  <2>5. CASE session[t] = Nobody
    BY <2>1, <2>4, <2>5 DEF TypeOK
  <2>6. CASE session[t] # Nobody
    <3>1. session[t] \in User /\ stored[t] \in [Key -> Value \cup {Undefined}]
      BY <2>6 DEF TypeOK
    <3>. QED  BY <2>1, <2>3, <2>4, <2>6, <3>1, SaveType DEF TypeOK
  <2>. QED  BY <2>5, <2>6
<1>4. ASSUME Deliver(t)
      PROVE  TypeOK'
  <2>1. PICK e \in notices[t] :
          /\ notices' = [notices EXCEPT ![t] = @ \ {e}]
          /\ timers' = IF e.user = session[t]
                       THEN [timers EXCEPT ![t] = @ \cup
                               {[login |-> login[t], user |-> e.user, key |-> e.key]}]
                       ELSE timers
          /\ UNCHANGED <<cells, session, login, data, stored, writes, logins>>
    BY <1>4 DEF Deliver
  <2>2. [login |-> login[t], user |-> e.user, key |-> e.key] \in Timer
    BY <2>1 DEF TypeOK, Notice, Timer
  <2>3. timers' \in [Tab -> SUBSET Timer] /\ notices' \in [Tab -> SUBSET Notice]
    BY <2>1, <2>2 DEF TypeOK
  <2>. QED  BY <2>1, <2>3 DEF TypeOK
<1>5. ASSUME Fire(t)
      PROVE  TypeOK'
  <2>1. PICK m \in timers[t] :
          /\ timers' = [timers EXCEPT ![t] = @ \ {m}]
          /\ IF Heard(t, m)
             THEN /\ data' = [data EXCEPT ![t] = Synced(t, m.key, Item(m.user, m.key))]
                  /\ Save(t, session[t], Noted(t, m.key, Item(m.user, m.key)),
                          Synced(t, m.key, Item(m.user, m.key)))
             ELSE UNCHANGED <<cells, notices, data, stored>>
          /\ UNCHANGED <<session, login, writes, logins>>
    BY <1>5 DEF Fire
  <2>2. m.user \in User /\ m.key \in Key
    BY DEF TypeOK, Timer
  <2> DEFINE v == Item(m.user, m.key)
  <2>3. /\ Synced(t, m.key, v) \in [Key -> Value \cup {Undefined}]
        /\ Noted(t, m.key, v) \in [Key -> Value \cup {Undefined}]
    BY <2>2, ItemType, SyncedType
  <2> HIDE DEF v
  <2>4. timers' \in [Tab -> SUBSET Timer]
    BY <2>1 DEF TypeOK
  <2>5. CASE Heard(t, m)
    <3>1. session[t] \in User
      BY <2>5 DEF Heard, TypeOK
    <3>2. data' \in [Tab -> [Key -> Value \cup {Undefined}]]
      BY <2>1, <2>3, <2>5 DEF TypeOK, v
    <3>3. Save(t, session[t], Noted(t, m.key, v), Synced(t, m.key, v))
      BY <2>1, <2>5 DEF v
    <3>. QED  BY <2>1, <2>3, <2>4, <3>1, <3>2, <3>3, SaveType DEF TypeOK
  <2>6. CASE ~Heard(t, m)
    BY <2>1, <2>4, <2>6 DEF TypeOK
  <2>. QED  BY <2>5, <2>6
<1>6. ASSUME Logout(t)
      PROVE  TypeOK'
  <2>1. PICK K \in SUBSET Registered[t] :
          /\ session[t] # Nobody
          /\ Save(t, session[t], stored[t], Cleared(t, K))
          /\ session' = [session EXCEPT ![t] = Nobody]
          /\ data' = [data EXCEPT ![t] = InitialData(t)]
          /\ UNCHANGED <<timers, login, writes, logins>>
    BY <1>6 DEF Logout
  <2>2. /\ session[t] \in User /\ stored[t] \in [Key -> Value \cup {Undefined}]
        /\ Cleared(t, K) \in [Key -> Value \cup {Undefined}]
    BY <2>1, ClearedComputed DEF Computed, TypeOK
  <2>3. /\ data' \in [Tab -> [Key -> Value \cup {Undefined}]]
        /\ session' \in [Tab -> User \cup {Nobody}]
    BY <2>1, InitialType DEF TypeOK
  <2>. QED  BY <2>1, <2>2, <2>3, SaveType DEF TypeOK
<1>7. ASSUME Reload(t)
      PROVE  TypeOK'
  <2>1. /\ data' \in [Tab -> [Key -> Value \cup {Undefined}]]
        /\ stored' \in [Tab -> [Key -> Value \cup {Undefined}]]
        /\ session' \in [Tab -> User \cup {Nobody}]
    BY <1>7, InitialType DEF Reload, TypeOK
  <2>. QED  BY <1>7, <2>1 DEF Reload, TypeOK
<1>. QED  BY <1>1, <1>2, <1>3, <1>4, <1>5, <1>6, <1>7

LEMMA InitTypeOK == Init => TypeOK
BY InitialType DEF Init, TypeOK

\* The state keeps its types: no cell ever holds undefined, and nothing a tab
\* shows is the absence of a cell.
THEOREM TypeCorrect == Spec => []TypeOK
<1>1. TypeOK /\ [Next]_vars => TypeOK'
  <2>1. CASE Next
    BY <2>1, NextTypeOK
  <2>2. CASE UNCHANGED vars
    BY <2>2 DEF vars, TypeOK
  <2>. QED  BY <2>1, <2>2
<1>. QED  BY InitTypeOK, <1>1, PTL DEF Spec

-----------------------------------------------------------------------------
(* What a save does, given that storedData follows the data. *)

LEMMA SaveFacts ==
  ASSUME TypeOK, NEW t \in Tab, session[t] # Nobody, Follows(t),
         NEW d, Computed(t, d), Save(t, session[t], stored[t], d)
  PROVE  /\ notices'[t] = notices[t]
         /\ \A o \in Tab : notices[o] \subseteq notices'[o]
         /\ \A o \in Tab \ {t} : stored'[o] = stored[o]
         /\ \A u \in User, k \in Key :
              \/ cells'[u][k] = cells[u][k]
              \/ /\ u = session[t] /\ cells'[u][k] = d[k]
                 /\ d[k] = Initial \/ (d[k] = Fresh(t) /\ writes' = writes + 1)
                 /\ \A o \in Tab \ {t} : [user |-> u, key |-> k] \in notices'[o]
         /\ \A k \in Key :
              \/ stored'[t][k] = d[k]
              \/ k \notin Registered[t] /\ d[k] = Undefined
         /\ \A k \in Key :
              \/ cells'[session[t]][k] = d[k]
              \/ cells'[session[t]][k] = cells[session[t]][k] /\ d[k] = data[t][k]
              \/ k \notin Registered[t] /\ d[k] = Undefined
<1> DEFINE C == Changed(stored[t], d)
<1>1. session[t] \in User
  BY DEF TypeOK
<1>2. \A u \in User, k \in Key :
        cells'[u][k] = IF u = session[t] /\ k \in C THEN d[k] ELSE cells[u][k]
  BY <1>1 DEF Save, TypeOK
<1>3. \A o \in Tab : notices'[o] =
        IF o = t THEN notices[o]
        ELSE notices[o] \cup {[user |-> session[t], key |-> k] : k \in C}
  BY DEF Save
<1>4. /\ \A o \in Tab \ {t} : stored'[o] = stored[o]
      /\ \A k \in Key : stored'[t][k] = IF k \in C THEN d[k] ELSE stored[t][k]
  BY DEF Save, TypeOK
<1>5. \A k \in Key : k \in C <=> d[k] # Undefined /\ stored[t][k] # d[k]
  BY DEF Changed
<1> HIDE DEF C
<1>6. \A k \in Key :
        \/ stored[t][k] = data[t][k]
        \/ k \notin Registered[t] /\ data[t][k] = Undefined
  BY DEF Follows
<1>7. \A k \in Key :
        \/ d[k] = data[t][k]
        \/ k \in Registered[t] /\ d[k] = Initial
        \/ k \in Registered[t] /\ d[k] = Fresh(t) /\ writes' = writes + 1
        \/ k \notin Registered[t] /\ d[k] = Undefined
  BY DEF Computed
<1>8. ASSUME NEW k \in Key, k \in C
      PROVE  d[k] = Initial \/ (d[k] = Fresh(t) /\ writes' = writes + 1)
  BY <1>5, <1>6, <1>7, <1>8
<1>9. ASSUME NEW k \in Key, k \notin C
      PROVE  \/ stored[t][k] = d[k] /\ d[k] = data[t][k]
             \/ k \notin Registered[t] /\ d[k] = Undefined
  <2>1. Initial # Undefined /\ Fresh(t) # Undefined
    BY FreshType, ValuesAssumption
  <2>. QED  BY <1>5, <1>6, <1>7, <1>9, <2>1
<1>10. notices'[t] = notices[t] /\ \A o \in Tab : notices[o] \subseteq notices'[o]
  BY <1>3
<1>11. ASSUME NEW u \in User, NEW k \in Key
       PROVE  \/ cells'[u][k] = cells[u][k]
              \/ /\ u = session[t] /\ cells'[u][k] = d[k]
                 /\ d[k] = Initial \/ (d[k] = Fresh(t) /\ writes' = writes + 1)
                 /\ \A o \in Tab \ {t} : [user |-> u, key |-> k] \in notices'[o]
  <2>1. CASE u = session[t] /\ k \in C
    <3>1. \A o \in Tab \ {t} : [user |-> u, key |-> k] \in notices'[o]
      BY <1>3, <2>1
    <3>2. cells'[u][k] = d[k]
      BY <1>2, <2>1
    <3>. QED  BY <1>8, <2>1, <3>1, <3>2
  <2>2. CASE ~(u = session[t] /\ k \in C)
    BY <1>2, <2>2
  <2>. QED  BY <2>1, <2>2
<1>12. ASSUME NEW k \in Key
       PROVE  /\ \/ stored'[t][k] = d[k]
                 \/ k \notin Registered[t] /\ d[k] = Undefined
              /\ \/ cells'[session[t]][k] = d[k]
                 \/ cells'[session[t]][k] = cells[session[t]][k] /\ d[k] = data[t][k]
                 \/ k \notin Registered[t] /\ d[k] = Undefined
  <2>1. CASE k \in C
    BY <1>1, <1>2, <1>4, <2>1
  <2>2. CASE k \notin C
    BY <1>1, <1>2, <1>4, <1>9, <2>2
  <2>. QED  BY <2>1, <2>2
<1>. QED  BY <1>4, <1>10, <1>11, <1>12

\* The save after a sync action finds nothing to write.
LEMMA SyncSavesNothing ==
  ASSUME TypeOK, NEW t \in Tab, session[t] # Nobody, Follows(t),
         NEW k \in Key, NEW v \in Value \cup {Undefined},
         Save(t, session[t], Noted(t, k, v), Synced(t, k, v))
  PROVE  /\ cells' = cells /\ notices' = notices
         /\ stored' = [stored EXCEPT ![t] = Noted(t, k, v)]
<1> DEFINE C == Changed(Noted(t, k, v), Synced(t, k, v))
<1>1. C = {}
  BY DEF Changed, Noted, Synced, Follows, TypeOK
<1>2. cells' = [cells EXCEPT ![session[t]] = [j \in Key |-> cells[session[t]][j]]]
  BY <1>1 DEF Save
<1>3. [j \in Key |-> cells[session[t]][j]] = cells[session[t]]
  BY DEF TypeOK
<1>4. cells' = cells
  BY <1>2, <1>3 DEF TypeOK
<1>5. notices' = [o \in Tab |-> IF o = t THEN notices[t] ELSE notices[o] \cup {}]
  BY <1>1 DEF Save
<1>6. notices' = notices
  BY <1>5 DEF TypeOK
<1>7. stored' = [stored EXCEPT ![t] = [j \in Key |-> Noted(t, k, v)[j]]]
  BY <1>1 DEF Save
<1>8. [j \in Key |-> Noted(t, k, v)[j]] = Noted(t, k, v)
  BY SyncedType
<1>. QED  BY <1>4, <1>6, <1>7, <1>8

-----------------------------------------------------------------------------
(* Converged and NotBehind tab by tab. *)

ConvergedAt(t) ==
  session[t] # Nobody =>
    \A k \in Registered[t] :
      cells[session[t]][k] # Absent /\ ~Pending(t, k)
        => data[t][k] = cells[session[t]][k]

NotBehindAt(t) ==
  session[t] # Nobody =>
    \A k \in Key :
      cells[session[t]][k] \in Made /\ data[t][k] \in Made
        => cells[session[t]][k].n >= data[t][k].n

OwnData(t) ==
  \A k \in Key :
    session[t] # Nobody /\ data[t][k] \in Made => data[t][k].user = session[t]

OwnTimers(t) ==
  \A m \in timers[t] :
    /\ m.login <= login[t]
    /\ session[t] # Nobody /\ m.login = login[t] => m.user = session[t]

NumberedData(t) == \A k \in Key : data[t][k] \in Made => data[t][k].n <= writes

OwnCells ==
  \A u \in User, k \in Key :
    cells[u][k] \in Made => cells[u][k].user = u /\ cells[u][k].n <= writes

TabInv(t) == /\ session[t] # Nobody => Follows(t)
             /\ ConvergedAt(t) /\ NotBehindAt(t) /\ OwnData(t)
             /\ OwnTimers(t) /\ NumberedData(t)

LEMMA ByTab == IInv <=> TypeOK /\ OwnCells /\ \A t \in Tab : TabInv(t)
BY DEF IInv, StoredIsData, TimersMatch, Converged, UserIsolation, Numbered, NotBehind,
       TabInv, ConvergedAt, NotBehindAt, OwnData, OwnTimers, NumberedData, OwnCells

\* A save of tab t, as the other tabs see it.
LEMMA OthersAfterSave ==
  ASSUME TypeOK, OwnCells, \A o \in Tab : TabInv(o),
         NEW t \in Tab, session[t] # Nobody,
         NEW d, Computed(t, d), Save(t, session[t], stored[t], d),
         writes' = writes \/ writes' = writes + 1, timers' = timers, login' = login
  PROVE  /\ OwnCells'
         /\ \A o \in Tab \ {t} : session'[o] = session[o] /\ data'[o] = data[o]
              => TabInv(o)'
<1>1. Follows(t)
  BY DEF TabInv
<1> DEFINE New(u, k) == /\ u = session[t] /\ cells'[u][k] = d[k]
                        /\ \/ d[k] = Initial
                           \/ d[k] = Fresh(t) /\ writes' = writes + 1
                        /\ \A o \in Tab \ {t} : [user |-> u, key |-> k] \in notices'[o]
<1>2. /\ \A o \in Tab : notices[o] \subseteq notices'[o]
      /\ \A o \in Tab \ {t} : stored'[o] = stored[o]
      /\ \A u \in User, k \in Key : cells'[u][k] = cells[u][k] \/ New(u, k)
  BY <1>1, SaveFacts
<1>3. /\ Fresh(t) \in Made /\ Fresh(t).n = writes + 1 /\ Fresh(t).user = session[t]
      /\ Initial \notin Made
  BY FreshType, ValuesAssumption
<1>4. writes \in Nat
  BY DEF TypeOK
<1>5. OwnCells'
  <2>1. ASSUME NEW u \in User, NEW k \in Key, cells'[u][k] \in Made
        PROVE  cells'[u][k].user = u /\ cells'[u][k].n <= writes'
    <3>1. CASE cells'[u][k] = cells[u][k]
      <4>1. cells[u][k].user = u /\ cells[u][k].n <= writes /\ cells[u][k].n \in Nat
        BY <2>1, <3>1 DEF OwnCells, Made
      <4>. QED  BY <1>4, <3>1, <4>1
    <3>2. CASE New(u, k)
      BY <1>3, <1>4, <2>1, <3>2
    <3>. QED  BY <1>2, <3>1, <3>2
  <2>. QED  BY <2>1 DEF OwnCells
<1>6. ASSUME NEW o \in Tab \ {t}, session'[o] = session[o], data'[o] = data[o]
      PROVE  TabInv(o)'
  <2>1. (session[o] # Nobody => Follows(o))' /\ OwnData(o)' /\ OwnTimers(o)'
    BY <1>2, <1>6 DEF TabInv, Follows, OwnData, OwnTimers
  <2>2. NumberedData(o)'
    <3>1. ASSUME NEW k \in Key, data'[o][k] \in Made
          PROVE  data'[o][k].n <= writes'
      <4>1. data[o][k].n <= writes /\ data[o][k].n \in Nat
        BY <1>6, <3>1 DEF TabInv, NumberedData, Made
      <4>. QED  BY <1>4, <1>6, <4>1
    <3>. QED  BY <3>1 DEF NumberedData
  <2>3. ConvergedAt(o)'
    <3>1. ASSUME session[o] # Nobody, NEW k \in Registered[o],
                 cells'[session[o]][k] # Absent, ~Pending(o, k)'
          PROVE  data[o][k] = cells'[session[o]][k]
      <4>1. session[o] \in User /\ k \in Key
        BY <3>1, RegisteredAssumption DEF TypeOK
      <4>2. [user |-> session[o], key |-> k] \notin notices'[o]
        BY <1>6, <3>1 DEF Pending
      <4>3. ~Pending(o, k)
        BY <1>2, <1>6, <3>1, <4>2 DEF Pending
      <4>4. cells'[session[o]][k] = cells[session[o]][k]
        BY <1>2, <1>6, <4>1, <4>2
      <4>. QED  BY <3>1, <4>3, <4>4 DEF TabInv, ConvergedAt
    <3>. QED  BY <1>6, <3>1 DEF ConvergedAt
  <2>4. NotBehindAt(o)'
    <3>1. ASSUME session[o] # Nobody, NEW k \in Key,
                 cells'[session[o]][k] \in Made, data[o][k] \in Made
          PROVE  cells'[session[o]][k].n >= data[o][k].n
      <4>1. session[o] \in User
        BY <3>1 DEF TypeOK
      <4>2. data[o][k].n <= writes /\ data[o][k].n \in Nat
        BY <3>1 DEF TabInv, NumberedData, Made
      <4>3. CASE cells'[session[o]][k] = cells[session[o]][k]
        BY <3>1, <4>3 DEF TabInv, NotBehindAt
      <4>4. CASE New(session[o], k)
        BY <1>3, <1>4, <3>1, <4>2, <4>4
      <4>. QED  BY <1>2, <4>1, <4>3, <4>4
    <3>. QED  BY <1>6, <3>1 DEF NotBehindAt
  <2>. QED  BY <2>1, <2>2, <2>3, <2>4 DEF TabInv
<1>. QED  BY <1>5, <1>6

-----------------------------------------------------------------------------
(* One lemma per action. *)

LEMMA LoginStep ==
  ASSUME TypeOK, OwnCells, \A o \in Tab : TabInv(o),
         NEW t \in Tab, NEW u \in User, Login(t, u)
  PROVE  OwnCells' /\ \A o \in Tab : TabInv(o)'
<1>1. /\ session[t] = Nobody /\ session' = [session EXCEPT ![t] = u]
      /\ login' = [login EXCEPT ![t] = login[t] + 1]
      /\ data' = [data EXCEPT ![t] = Loaded(t, u)]
      /\ stored' = [stored EXCEPT ![t] = Loaded(t, u)]
      /\ UNCHANGED <<notices, timers, writes>>
  BY DEF Login
<1>2. \A v \in User, k \in Key :
        \/ cells'[v][k] = cells[v][k]
        \/ v = u /\ k \notin Registered[t] /\ cells'[v][k] = Absent
  BY DEF Login, TypeOK
<1>3. Absent \notin Made /\ u # Nobody
  BY ValuesAssumption, NobodyAssumption
<1>4. OwnCells'
  BY <1>1, <1>2, <1>3 DEF OwnCells
<1>5. \A k \in Key :
        \/ Loaded(t, u)[k] = cells[u][k] /\ k \in Registered[t]
        \/ Loaded(t, u)[k] = Undefined /\ cells[u][k] = Absent
        \/ Loaded(t, u)[k] = Undefined /\ k \notin Registered[t]
  BY DEF Loaded, Item
<1>6. \A k \in Registered[t] : k \in Key /\ cells'[u][k] = cells[u][k]
  BY <1>2, RegisteredAssumption DEF Login, TypeOK
<1>7. TabInv(t)'
  <2>1. /\ session'[t] = u /\ login'[t] = login[t] + 1 /\ login[t] \in Nat
        /\ data'[t] = Loaded(t, u) /\ stored'[t] = Loaded(t, u)
        /\ Undefined \notin Made
    BY <1>1, ValuesAssumption DEF TypeOK
  <2>2. Follows(t)'
    BY <2>1 DEF Follows
  <2>3. ConvergedAt(t)'
    BY <1>5, <1>6, <2>1 DEF ConvergedAt
  <2>4. \A k \in Key : data'[t][k] \in Made =>
          data'[t][k] = cells[u][k] /\ k \in Registered[t]
    BY <1>5, <2>1
  <2>5. ASSUME NEW k \in Key, data'[t][k] \in Made
        PROVE  /\ data'[t][k].user = u /\ data'[t][k].n <= writes'
               /\ cells'[u][k] = data'[t][k] /\ data'[t][k].n \in Nat
    BY <1>1, <1>6, <2>4, <2>5 DEF OwnCells, Made
  <2>6. OwnData(t)' /\ NumberedData(t)' /\ NotBehindAt(t)'
    BY <2>1, <2>5 DEF OwnData, NumberedData, NotBehindAt
  <2>7. OwnTimers(t)'
    <3>1. ASSUME NEW m \in timers[t]
          PROVE  m.login <= login[t] + 1 /\ m.login # login[t] + 1
      <4>1. m.login \in Nat /\ m.login <= login[t]
        BY <3>1 DEF TabInv, OwnTimers, TypeOK, Timer
      <4>. QED  BY <2>1, <4>1
    <3>. QED  BY <1>1, <2>1, <3>1 DEF OwnTimers
  <2>. QED  BY <2>2, <2>3, <2>6, <2>7 DEF TabInv
<1>8. ASSUME NEW o \in Tab \ {t}
      PROVE  TabInv(o)'
  <2>1. /\ session'[o] = session[o] /\ login'[o] = login[o] /\ data'[o] = data[o]
        /\ stored'[o] = stored[o] /\ timers'[o] = timers[o] /\ notices'[o] = notices[o]
        /\ writes' = writes
    BY <1>1 DEF TypeOK
  <2>2. (session[o] # Nobody => Follows(o))' /\ OwnData(o)' /\ OwnTimers(o)'
        /\ NumberedData(o)'
    BY <2>1 DEF TabInv, Follows, OwnData, OwnTimers, NumberedData
  <2>3. \A k \in Key : session[o] # Nobody =>
          \/ cells'[session[o]][k] = cells[session[o]][k]
          \/ cells'[session[o]][k] = Absent
    BY <1>2 DEF TypeOK
  <2>4. \A k \in Registered[o] : k \in Key
    BY RegisteredAssumption
  <2>5. ConvergedAt(o)'
    BY <2>1, <2>3, <2>4 DEF TabInv, ConvergedAt, Pending
  <2>6. NotBehindAt(o)'
    BY <1>3, <2>1, <2>3 DEF TabInv, NotBehindAt
  <2>. QED  BY <2>2, <2>5, <2>6 DEF TabInv
<1>. QED  BY <1>4, <1>7, <1>8

LEMMA ReduceStep ==
  ASSUME TypeOK, OwnCells, \A o \in Tab : TabInv(o), NEW t \in Tab, Reduce(t)
  PROVE  OwnCells' /\ \A o \in Tab : TabInv(o)'
<1>1. PICK K \in AtMostOne(t) :
        /\ writes' = IF K = {} THEN writes ELSE writes + 1
        /\ data' = [data EXCEPT ![t] = Reduced(t, K)]
        /\ IF session[t] = Nobody
           THEN UNCHANGED <<cells, notices, stored>>
           ELSE Save(t, session[t], stored[t], Reduced(t, K))
        /\ UNCHANGED <<timers, session, login, logins>>
  BY DEF Reduce
<1> DEFINE d == Reduced(t, K)
<1>2. Computed(t, d)
  BY <1>1, ReducedComputed DEF AtMostOne
<1>3. writes \in Nat /\ (writes' = writes \/ writes' = writes + 1)
  BY <1>1 DEF TypeOK
<1>4. /\ data'[t] = d /\ \A o \in Tab \ {t} : data'[o] = data[o]
      /\ session' = session /\ timers' = timers /\ login' = login
      /\ session[t] # Nobody => Save(t, session[t], stored[t], d)
      /\ session[t] = Nobody => UNCHANGED <<cells, notices, stored>>
  BY <1>1 DEF TypeOK
<1> HIDE DEF d
<1>5. /\ Fresh(t) \in Made /\ Fresh(t).n = writes + 1 /\ Fresh(t).user = session[t]
      /\ Initial \notin Made /\ Undefined \notin Made
  BY FreshType, ValuesAssumption
<1>6. ASSUME NEW k \in Key, d[k] \in Made
      PROVE  \/ d[k] = data[t][k]
             \/ d[k].n = writes' /\ d[k].user = session[t] /\ writes' = writes + 1
  BY <1>2, <1>3, <1>5, <1>6 DEF Computed
<1>7. OwnData(t)' /\ NumberedData(t)' /\ OwnTimers(t)'
  <2>1. ASSUME NEW k \in Key, d[k] \in Made
        PROVE  d[k].n <= writes' /\ (session[t] # Nobody => d[k].user = session[t])
    <3>1. CASE d[k] = data[t][k]
      <4>1. data[t][k].n <= writes /\ data[t][k].n \in Nat
            /\ (session[t] # Nobody => data[t][k].user = session[t])
        BY <2>1, <3>1 DEF TabInv, OwnData, NumberedData, Made
      <4>. QED  BY <1>3, <3>1, <4>1
    <3>2. CASE d[k].n = writes' /\ d[k].user = session[t]
      BY <1>3, <3>2
    <3>. QED  BY <1>6, <2>1, <3>1, <3>2
  <2>. QED  BY <1>4, <2>1 DEF TabInv, OwnData, NumberedData, OwnTimers
<1>8. CASE session[t] = Nobody
  <2>1. TabInv(t)'
    BY <1>4, <1>7, <1>8 DEF TabInv, ConvergedAt, NotBehindAt
  <2>2. ASSUME NEW v \in Made, v.n <= writes
        PROVE  v.n <= writes'
    BY <1>3, <2>2 DEF Made
  <2>3. OwnCells'
    BY <1>4, <1>8, <2>2 DEF OwnCells
  <2>4. ASSUME NEW o \in Tab \ {t}
        PROVE  TabInv(o)'
    BY <1>4, <1>8, <2>2, <2>4
       DEF TabInv, Follows, ConvergedAt, NotBehindAt, OwnData, OwnTimers,
           NumberedData, Pending
  <2>. QED  BY <2>1, <2>3, <2>4
<1>9. CASE session[t] # Nobody
  <2>1. Follows(t) /\ Save(t, session[t], stored[t], d)
    BY <1>4, <1>9 DEF TabInv
  <2>2. OwnCells' /\ \A o \in Tab \ {t} : TabInv(o)'
    BY <1>2, <1>3, <1>4, <1>9, <2>1, OthersAfterSave
  <2>3. /\ notices'[t] = notices[t]
        /\ \A k \in Key : \/ stored'[t][k] = d[k]
                          \/ k \notin Registered[t] /\ d[k] = Undefined
        /\ \A k \in Key :
             \/ cells'[session[t]][k] = d[k]
             \/ cells'[session[t]][k] = cells[session[t]][k] /\ d[k] = data[t][k]
             \/ k \notin Registered[t] /\ d[k] = Undefined
    BY <1>2, <1>9, <2>1, SaveFacts
  <2>4. Follows(t)'
    BY <1>4, <2>3 DEF Follows
  <2>5. ConvergedAt(t)'
    BY <1>4, <2>3, RegisteredAssumption DEF TabInv, ConvergedAt, Pending
  <2>6. NotBehindAt(t)'
    <3>1. ASSUME NEW k \in Key, cells'[session[t]][k] \in Made, d[k] \in Made
          PROVE  cells'[session[t]][k].n >= d[k].n
      <4>1. CASE cells'[session[t]][k] = d[k]
        BY <3>1, <4>1 DEF Made
      <4>2. CASE cells'[session[t]][k] = cells[session[t]][k] /\ d[k] = data[t][k]
        BY <1>9, <3>1, <4>2 DEF TabInv, NotBehindAt
      <4>. QED  BY <1>5, <2>3, <3>1, <4>1, <4>2
    <3>. QED  BY <1>4, <3>1 DEF NotBehindAt
  <2>. QED  BY <1>7, <2>2, <2>4, <2>5, <2>6 DEF TabInv
<1>. QED  BY <1>8, <1>9

LEMMA DeliverStep ==
  ASSUME TypeOK, OwnCells, \A o \in Tab : TabInv(o), NEW t \in Tab, Deliver(t)
  PROVE  OwnCells' /\ \A o \in Tab : TabInv(o)'
<1>1. PICK e \in notices[t] :
        /\ notices' = [notices EXCEPT ![t] = @ \ {e}]
        /\ timers' = IF e.user = session[t]
                     THEN [timers EXCEPT ![t] = @ \cup
                             {[login |-> login[t], user |-> e.user, key |-> e.key]}]
                     ELSE timers
        /\ UNCHANGED <<cells, session, login, data, stored, writes, logins>>
  BY DEF Deliver
<1>2. e \in Notice /\ e = [user |-> e.user, key |-> e.key]
  BY DEF TypeOK, Notice
<1>3. OwnCells'
  BY <1>1 DEF OwnCells
<1>4. ASSUME NEW o \in Tab
      PROVE  TabInv(o)'
  <2>1. (session[o] # Nobody => Follows(o))' /\ OwnData(o)' /\ NumberedData(o)'
        /\ NotBehindAt(o)'
    BY <1>1 DEF TabInv, Follows, OwnData, NumberedData, NotBehindAt
  <2>2. OwnTimers(o)'
    <3>1. ASSUME NEW m \in timers'[o], m \notin timers[o]
          PROVE  o = t /\ m.login = login[t] /\ m.user = session[t]
      BY <1>1, <3>1 DEF TypeOK
    <3>2. login[o] \in Nat
      BY DEF TypeOK
    <3>. QED  BY <1>1, <3>1, <3>2 DEF TabInv, OwnTimers
  <2>3. ConvergedAt(o)'
    <3>1. ASSUME session[o] # Nobody, NEW k \in Registered[o], Pending(o, k)
          PROVE  Pending(o, k)'
      <4>1. CASE [login |-> login[o], user |-> session[o], key |-> k] \in timers[o]
        BY <1>1, <4>1 DEF Pending, TypeOK
      <4>2. CASE [user |-> session[o], key |-> k] \in notices[o]
        <5>1. CASE o = t /\ e = [user |-> session[o], key |-> k]
          <6>1. e.user = session[t] /\ e.key = k
            BY <5>1
          <6>. QED  BY <1>1, <5>1, <6>1 DEF Pending, TypeOK
        <5>2. CASE ~(o = t /\ e = [user |-> session[o], key |-> k])
          BY <1>1, <4>2, <5>2 DEF Pending, TypeOK
        <5>. QED  BY <5>1, <5>2
      <4>. QED  BY <3>1, <4>1, <4>2 DEF Pending
    <3>. QED  BY <1>1, <3>1 DEF TabInv, ConvergedAt
  <2>. QED  BY <2>1, <2>2, <2>3 DEF TabInv
<1>. QED  BY <1>3, <1>4

LEMMA FireStep ==
  ASSUME TypeOK, OwnCells, \A o \in Tab : TabInv(o), NEW t \in Tab, Fire(t)
  PROVE  /\ OwnCells' /\ \A o \in Tab : TabInv(o)'
         /\ cells' = cells /\ notices' = notices
<1>1. PICK m \in timers[t] :
        /\ timers' = [timers EXCEPT ![t] = @ \ {m}]
        /\ IF Heard(t, m)
           THEN /\ data' = [data EXCEPT ![t] = Synced(t, m.key, Item(m.user, m.key))]
                /\ Save(t, session[t], Noted(t, m.key, Item(m.user, m.key)),
                        Synced(t, m.key, Item(m.user, m.key)))
           ELSE UNCHANGED <<cells, notices, data, stored>>
        /\ UNCHANGED <<session, login, writes, logins>>
  BY DEF Fire
<1>2. m \in Timer /\ m.user \in User /\ m.key \in Key
      /\ m = [login |-> m.login, user |-> m.user, key |-> m.key]
  BY DEF TypeOK, Timer
<1> DEFINE v == Item(m.user, m.key)
<1>3. v \in Value \cup {Undefined} /\ (v \in Made => v = cells[m.user][m.key])
      /\ (cells[m.user][m.key] # Absent => v = cells[m.user][m.key])
  BY <1>2, ItemType
<1> HIDE DEF v
<1>4. timers'[t] = timers[t] \ {m} /\ \A o \in Tab \ {t} : timers'[o] = timers[o]
  BY <1>1 DEF TypeOK
<1>5. CASE ~Heard(t, m)
  <2>1. UNCHANGED <<cells, notices, data, stored, session, login, writes>>
    BY <1>1, <1>5
  <2>2. ASSUME NEW o \in Tab
        PROVE  TabInv(o)'
    <3>1. ASSUME session[o] # Nobody, NEW k \in Registered[o], Pending(o, k)
          PROVE  Pending(o, k)'
      BY <1>4, <1>5, <2>1, <3>1 DEF Pending, Heard
    <3>2. OwnTimers(o)'
      BY <1>4, <2>1 DEF TabInv, OwnTimers
    <3>3. ConvergedAt(o)'
      BY <2>1, <3>1 DEF TabInv, ConvergedAt
    <3>. QED  BY <2>1, <3>2, <3>3 DEF TabInv, Follows, NotBehindAt, OwnData, NumberedData
  <2>. QED  BY <2>1, <2>2 DEF OwnCells
<1>6. CASE Heard(t, m)
  <2>1. session[t] # Nobody /\ m.login = login[t] /\ m.user = session[t] /\ Follows(t)
    BY <1>6 DEF Heard, TabInv, OwnTimers
  <2>2. data' = [data EXCEPT ![t] = Synced(t, m.key, v)]
        /\ Save(t, session[t], Noted(t, m.key, v), Synced(t, m.key, v))
        /\ UNCHANGED <<session, login, writes>>
    BY <1>1, <1>6 DEF v
  <2>3. cells' = cells /\ notices' = notices
        /\ stored' = [stored EXCEPT ![t] = Noted(t, m.key, v)]
    BY <1>2, <1>3, <2>1, <2>2, SyncSavesNothing
  <2>4. /\ \A k \in Key : data'[t][k] = IF k = m.key THEN v ELSE data[t][k]
        /\ \A k \in Key : stored'[t][k] = IF k = m.key THEN v ELSE stored[t][k]
        /\ \A o \in Tab \ {t} : data'[o] = data[o] /\ stored'[o] = stored[o]
    BY <1>2, <2>2, <2>3 DEF Synced, Noted, TypeOK
  <2>5. ASSUME NEW o \in Tab \ {t}
        PROVE  TabInv(o)'
    BY <1>4, <2>2, <2>3, <2>4
       DEF TabInv, Follows, ConvergedAt, NotBehindAt, OwnData, OwnTimers,
           NumberedData, Pending
  <2>6. Follows(t)'
    BY <2>1, <2>4 DEF Follows
  <2>7. OwnTimers(t)'
    BY <1>4, <2>2 DEF TabInv, OwnTimers
  <2>8. v \in Made => v.user = session[t] /\ v.n <= writes /\ v.n \in Nat
    BY <1>2, <1>3, <2>1 DEF OwnCells, Made
  <2>9. OwnData(t)' /\ NumberedData(t)'
    BY <2>2, <2>4, <2>8 DEF TabInv, OwnData, NumberedData
  <2>10. NotBehindAt(t)'
    <3>1. ASSUME NEW k \in Key, cells[session[t]][k] \in Made, data'[t][k] \in Made
          PROVE  cells[session[t]][k].n >= data'[t][k].n
      <4>1. CASE k = m.key
        BY <1>3, <2>1, <2>4, <2>8, <3>1, <4>1
      <4>2. CASE k # m.key
        BY <2>1, <2>4, <3>1, <4>2 DEF TabInv, NotBehindAt
      <4>. QED  BY <4>1, <4>2
    <3>. QED  BY <2>2, <2>3, <3>1 DEF NotBehindAt
  <2>11. ConvergedAt(t)'
    <3>1. ASSUME NEW k \in Registered[t], cells[session[t]][k] # Absent, ~Pending(t, k)'
          PROVE  data'[t][k] = cells[session[t]][k]
      <4>1. k \in Key
        BY RegisteredAssumption
      <4>2. CASE k = m.key
        BY <1>3, <2>1, <2>4, <3>1, <4>1, <4>2
      <4>3. CASE k # m.key
        <5>1. ~Pending(t, k)
          BY <1>2, <1>4, <2>2, <2>3, <3>1, <4>3 DEF Pending
        <5>. QED  BY <2>1, <2>4, <3>1, <4>1, <4>3, <5>1 DEF TabInv, ConvergedAt
      <4>. QED  BY <4>2, <4>3
    <3>. QED  BY <2>2, <2>3, <3>1 DEF ConvergedAt
  <2>12. OwnCells'
    BY <2>2, <2>3 DEF OwnCells
  <2>. QED  BY <2>3, <2>5, <2>6, <2>7, <2>9, <2>10, <2>11, <2>12 DEF TabInv
<1>. QED  BY <1>5, <1>6

\* A tab without a session owes nothing but its timers and its numbers.
LEMMA NoSession ==
  ASSUME NEW t \in Tab, session[t] = Nobody, OwnTimers(t), NumberedData(t)
  PROVE  TabInv(t)
BY DEF TabInv, ConvergedAt, NotBehindAt, OwnData

LEMMA LogoutStep ==
  ASSUME TypeOK, OwnCells, \A o \in Tab : TabInv(o), NEW t \in Tab, Logout(t)
  PROVE  OwnCells' /\ \A o \in Tab : TabInv(o)'
<1>1. PICK K \in SUBSET Registered[t] :
        /\ session[t] # Nobody
        /\ Save(t, session[t], stored[t], Cleared(t, K))
        /\ session' = [session EXCEPT ![t] = Nobody]
        /\ data' = [data EXCEPT ![t] = InitialData(t)]
        /\ UNCHANGED <<timers, login, writes, logins>>
  BY DEF Logout
<1>2. /\ \A o \in Tab \ {t} : session'[o] = session[o] /\ data'[o] = data[o]
      /\ session'[t] = Nobody /\ data'[t] = InitialData(t)
  BY <1>1 DEF TypeOK
<1>3. OwnCells' /\ \A o \in Tab \ {t} : TabInv(o)'
  <2>1. Computed(t, Cleared(t, K))
    BY ClearedComputed
  <2>2. /\ writes' = writes \/ writes' = writes + 1
        /\ timers' = timers /\ login' = login
    BY <1>1
  <2>. QED  BY <1>1, <1>2, <2>1, <2>2, OthersAfterSave
<1>4. OwnTimers(t)' /\ NumberedData(t)'
  BY <1>1, <1>2, InitialType DEF TabInv, OwnTimers, NumberedData
<1>5. TabInv(t)'
  BY <1>2, <1>4 DEF TabInv, ConvergedAt, NotBehindAt, OwnData
<1>. QED  BY <1>3, <1>5

LEMMA ReloadStep ==
  ASSUME TypeOK, OwnCells, \A o \in Tab : TabInv(o), NEW t \in Tab, Reload(t)
  PROVE  OwnCells' /\ \A o \in Tab : TabInv(o)'
<1>1. /\ session'[t] = Nobody /\ data'[t] = InitialData(t) /\ timers'[t] = {}
      /\ UNCHANGED <<cells, login, writes>>
      /\ \A o \in Tab \ {t} :
           /\ session'[o] = session[o] /\ data'[o] = data[o] /\ timers'[o] = timers[o]
           /\ stored'[o] = stored[o] /\ notices'[o] = notices[o]
  BY DEF Reload, TypeOK
<1>2. TabInv(t)'
  BY <1>1, InitialType
     DEF TabInv, ConvergedAt, NotBehindAt, OwnData, OwnTimers, NumberedData
<1>3. ASSUME NEW o \in Tab \ {t}
      PROVE  TabInv(o)'
  BY <1>1 DEF TabInv, Follows, ConvergedAt, NotBehindAt, OwnData, OwnTimers,
              NumberedData, Pending
<1>4. OwnCells'
  BY <1>1 DEF OwnCells
<1>. QED  BY <1>2, <1>3, <1>4

LEMMA InitInv == Init => IInv
<1> SUFFICES ASSUME Init PROVE IInv
  OBVIOUS
<1>1. TypeOK
  BY InitTypeOK
<1>2. OwnCells
  BY ValuesAssumption DEF Init, OwnCells
<1>3. ASSUME NEW t \in Tab
      PROVE  TabInv(t)
  <2>1. session[t] = Nobody /\ timers[t] = {} /\ data[t] = InitialData(t)
    BY DEF Init
  <2>. QED  BY <2>1, InitialType, NoSession DEF OwnTimers, NumberedData
<1>. QED  BY <1>1, <1>2, <1>3, ByTab

LEMMA NextInv ==
  ASSUME IInv, Next
  PROVE  IInv'
<1>1. TypeOK /\ OwnCells /\ (\A t \in Tab : TabInv(t)) /\ TypeOK'
  BY ByTab, NextTypeOK
<1>2. OwnCells' /\ \A t \in Tab : TabInv(t)'
  BY <1>1, LoginStep, ReduceStep, DeliverStep, FireStep, LogoutStep, ReloadStep
     DEF Next
<1>. QED
  BY <1>1, <1>2
     DEF IInv, StoredIsData, TimersMatch, Converged, UserIsolation, Numbered, NotBehind,
         TabInv, ConvergedAt, NotBehindAt, OwnData, OwnTimers, NumberedData, OwnCells

LEMMA StutterInv ==
  ASSUME IInv, UNCHANGED vars
  PROVE  IInv'
BY DEF IInv, vars, TypeOK, StoredIsData, Follows, TimersMatch, Converged, Pending,
       UserIsolation, Numbered, NotBehind

LEMMA Inductive == Spec => []IInv
<1>1. IInv /\ [Next]_vars => IInv'
  BY NextInv, StutterInv
<1>. QED  BY InitInv, <1>1, PTL DEF Spec

\* A tab that has handled the events of a key shows what the cell holds.
THEOREM TabsConverge == Spec => []Converged
<1>1. IInv => Converged
  BY DEF IInv
<1>. QED  BY Inductive, <1>1, PTL

\* Data of one user never shows in the session of another, nor is it stored
\* under the other's keys.
THEOREM UsersIsolated == Spec => []UserIsolation
<1>1. IInv => UserIsolation
  BY DEF IInv
<1>. QED  BY Inductive, <1>1, PTL

\* A tab that follows the write of another tab writes nothing itself.
THEOREM FollowersAreSilent == Spec => NoEcho
<1>1. IInv /\ [Next]_vars => [\A t \in Tab : Fire(t) => UNCHANGED <<cells, notices>>]_vars
  <2>1. ASSUME IInv, NEW t \in Tab, Fire(t)
        PROVE  cells' = cells /\ notices' = notices
    BY <2>1, ByTab, FireStep
  <2>. QED  BY <2>1
<1>. QED  BY Inductive, <1>1, PTL DEF Spec, NoEcho

\* While a session lasts a key never returns to an earlier value.
THEOREM ValuesMoveForward == Spec => NeverGoesBack
<1> DEFINE Forward ==
      \A t \in Tab, k \in Key :
        /\ session[t] # Nobody /\ session'[t] = session[t]
        /\ data[t][k] \in Made /\ data'[t][k] \in Made
        => data'[t][k].n >= data[t][k].n
<1>1. ASSUME IInv, Next
      PROVE  Forward
  <2>1. TypeOK /\ OwnCells /\ (\A t \in Tab : TabInv(t))
    BY <1>1, ByTab
  <2> SUFFICES ASSUME NEW o \in Tab, NEW k \in Key,
                      session[o] # Nobody, session'[o] = session[o],
                      data[o][k] \in Made, data'[o][k] \in Made
               PROVE  data'[o][k].n >= data[o][k].n
    OBVIOUS
  <2>2. data[o][k].n <= writes /\ data[o][k].n \in Nat /\ writes \in Nat
    BY <2>1 DEF TabInv, NumberedData, Made, TypeOK
  <2>3. CASE data'[o] = data[o]
    BY <2>2, <2>3
  <2>4. CASE Reduce(o)
    <3>1. PICK K \in AtMostOne(o) :
            /\ writes' = IF K = {} THEN writes ELSE writes + 1
            /\ data' = [data EXCEPT ![o] = Reduced(o, K)]
      BY <2>4 DEF Reduce
    <3>2. Computed(o, Reduced(o, K)) /\ data'[o] = Reduced(o, K)
      BY <2>1, <3>1, ReducedComputed DEF AtMostOne, TypeOK
    <3>3. /\ Fresh(o) \in Made /\ Fresh(o).n = writes + 1
          /\ Initial \notin Made /\ Undefined \notin Made
      BY <2>1, FreshType, ValuesAssumption
    <3>4. data'[o][k] = data[o][k] \/ data'[o][k] = Fresh(o)
      BY <3>2, <3>3 DEF Computed
    <3>. QED  BY <2>2, <3>3, <3>4
  <2>5. CASE Fire(o)
    <3>1. PICK m \in timers[o] :
            /\ IF Heard(o, m)
               THEN data' = [data EXCEPT ![o] = Synced(o, m.key, Item(m.user, m.key))]
               ELSE UNCHANGED data
      BY <2>5 DEF Fire
    <3>2. CASE ~Heard(o, m)
      BY <2>2, <3>1, <3>2
    <3>3. CASE Heard(o, m)
      <4>1. m.user = session[o] /\ m.key \in Key /\ m.user \in User
        BY <2>1, <3>3 DEF Heard, TabInv, OwnTimers, TypeOK, Timer
      <4>2. data'[o][k] = IF k = m.key THEN Item(m.user, m.key) ELSE data[o][k]
        BY <2>1, <3>1, <3>3, <4>1 DEF Synced, TypeOK
      <4>3. k = m.key => data'[o][k] = cells[session[o]][k]
        BY <2>1, <4>1, <4>2, ItemType
      <4>4. k = m.key => data'[o][k].n >= data[o][k].n
        BY <2>1, <4>3 DEF TabInv, NotBehindAt
      <4>. QED  BY <2>2, <4>2, <4>4
    <3>. QED  BY <3>2, <3>3
  <2>6. PICK t \in Tab : \/ \E u \in User : Login(t, u)
                         \/ Reduce(t) \/ Deliver(t) \/ Fire(t) \/ Logout(t) \/ Reload(t)
    BY <1>1 DEF Next
  <2>7. CASE t = o /\ ((\E u \in User : Login(t, u)) \/ Logout(t) \/ Reload(t))
    <3>1. session'[o] # session[o]
      BY <2>1, <2>7, NobodyAssumption DEF Login, Logout, Reload, TypeOK
    <3>. QED  BY <3>1
  <2>8. CASE t # o \/ Deliver(t)
    <3>1. data'[o] = data[o]
      BY <2>1, <2>6, <2>8 DEF Login, Reduce, Deliver, Fire, Logout, Reload, TypeOK
    <3>. QED  BY <2>3, <3>1
  <2>. QED  BY <2>4, <2>5, <2>6, <2>7, <2>8
<1>2. IInv /\ [Next]_vars => [Forward]_vars
  BY <1>1
<1>. QED  BY Inductive, <1>2, PTL DEF Spec, NeverGoesBack
=============================================================================
