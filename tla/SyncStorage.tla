---------------------------- MODULE SyncStorage ----------------------------
(***************************************************************************)
(* Persisted state shared by the tabs of one browser (modules/Storage over *)
(* lib/StorageBase and lib/SynchronizedStorage).  Every tab keeps a copy   *)
(* of the cells of the user it is logged in as, computes it with the       *)
(* reducers that are registered in that tab, writes what changed to        *)
(* localStorage and follows the writes of the other tabs by their storage  *)
(* events.                                                                 *)
(*                                                                         *)
(* One action is one event loop turn of one tab: redux and localStorage    *)
(* are synchronous, so the store listener of Storage has saved the new     *)
(* data before the turn ends.  A value is named by the user whose session  *)
(* produced it and by a number no other value has.                         *)
(***************************************************************************)
EXTENDS Integers

CONSTANTS
  Tab, User, Key,
  Registered,   \* the keys with a reducer, by tab: tabs may run two versions
  Nobody, Initial, Undefined, Absent,
  MaxChanges    \* bound: changes made by reducers, and logins of all tabs

ASSUME RegisteredAssumption == Registered \in [Tab -> SUBSET Key]
ASSUME NobodyAssumption == Nobody \notin User

VARIABLES
  cells,    \* localStorage: the value under each user's key, or Absent
  notices,  \* storage events the browser has not delivered to a tab
  timers,   \* setTimeout(0) calls of a tab's storage handlers
  session,  \* the user the Storage of a tab is ready for, or Nobody
  login,    \* number of the SynchronizedStorage instance of a tab
  data,     \* redux state data of a tab
  stored,   \* storedData of the closure in initialize
  writes, logins

vars == <<cells, notices, timers, session, login, data, stored, writes, logins>>

Made    == [user : User \cup {Nobody}, n : Nat]   \* values reducers make
Value   == Made \cup {Initial}
Notice  == [user : User, key : Key]
Timer   == [login : Nat, user : User, key : Key]

ASSUME ValuesAssumption ==
  /\ Undefined # Absent /\ Undefined # Initial /\ Absent # Initial
  /\ {Undefined, Absent, Initial} \cap Made = {}

TypeOK ==
  /\ cells \in [User -> [Key -> Value \cup {Absent}]]
  /\ notices \in [Tab -> SUBSET Notice]
  /\ timers \in [Tab -> SUBSET Timer]
  /\ session \in [Tab -> User \cup {Nobody}]
  /\ login \in [Tab -> Nat]
  /\ data \in [Tab -> [Key -> Value \cup {Undefined}]]
  /\ stored \in [Tab -> [Key -> Value \cup {Undefined}]]
  /\ writes \in Nat
  /\ logins \in Nat

\* What the reducers make of no state at all.
InitialData(t) == [k \in Key |-> IF k \in Registered[t] THEN Initial ELSE Undefined]

Init ==
  /\ cells = [u \in User |-> [k \in Key |-> Absent]]
  /\ notices = [t \in Tab |-> {}]
  /\ timers = [t \in Tab |-> {}]
  /\ session = [t \in Tab |-> Nobody]
  /\ login = [t \in Tab |-> 0]
  /\ data = [t \in Tab |-> InitialData(t)]
  /\ stored = [t \in Tab |-> [k \in Key |-> Undefined]]
  /\ writes = 0 /\ logins = 0

-----------------------------------------------------------------------------
(* The cells. *)

\* SynchronizedStorage.getItem: undefined when the item is missing.
Item_Null(u, k) == cells[u][k]
Item(u, k) == IF cells[u][k] = Absent THEN Undefined ELSE cells[u][k]

\* The keys the store listener writes when data is d and storedData is s.
Changed_All(s, d) == {k \in Key : d[k] # Undefined}
Changed(s, d) == {k \in Key : d[k] # Undefined /\ s[k] # d[k]}

\* The save loop of tab t: every write is an event in all the other tabs.
Save(t, u, s, d) ==
  /\ cells' = [cells EXCEPT ![u] =
                 [k \in Key |-> IF k \in Changed(s, d) THEN d[k] ELSE @[k]]]
  /\ notices' = [o \in Tab |->
       IF o = t THEN notices[t]
       ELSE notices[o] \cup {[user |-> u, key |-> k] : k \in Changed(s, d)}]
  /\ stored' = [stored EXCEPT ![t] =
                  [k \in Key |-> IF k \in Changed(s, d) THEN d[k] ELSE s[k]]]

-----------------------------------------------------------------------------
(* The tabs. *)

\* The store listener sees the user logged in: a new instance reads the cells
\* and removes those of keys nobody registered.  The event of a removal has no
\* new value: the handlers of the other tabs ignore it.
Loaded(t, u) ==
  [k \in Key |-> IF k \in Registered[t] THEN Item(u, k) ELSE Undefined]

Login(t, u) ==
  /\ session[t] = Nobody
  /\ writes + logins < MaxChanges
  /\ logins' = logins + 1
  /\ session' = [session EXCEPT ![t] = u]
  /\ login' = [login EXCEPT ![t] = @ + 1]
  /\ data' = [data EXCEPT ![t] = Loaded(t, u)]
  /\ stored' = [stored EXCEPT ![t] = Loaded(t, u)]
  /\ cells' = [cells EXCEPT ![u] =
                 [k \in Key |-> IF k \in Registered[t] THEN @[k] ELSE Absent]]
  /\ UNCHANGED <<notices, timers, writes>>

\* The data reducer on an action that is not its own, whose reducers give the
\* keys in K a new value: substates that were undefined get their initial
\* state, and a new data object has only the keys that are registered.
Fresh(t) == [user |-> session[t], n |-> writes + 1]

Reduced(t, K) ==
  LET new == [k \in Key |-> IF k \in K THEN Fresh(t)
                            ELSE IF data[t][k] = Undefined THEN Initial
                            ELSE data[t][k]]
      hasChange == \E k \in Registered[t] : new[k] # data[t][k]
  IN  [k \in Key |-> IF ~hasChange THEN data[t][k]
                     ELSE IF k \in Registered[t] THEN new[k] ELSE Undefined]

AtMostOne(t) == {{}} \cup {{k} : k \in Registered[t]}

Reduce(t) == \E K \in AtMostOne(t) :
  /\ K # {} => writes + logins < MaxChanges
  /\ writes' = IF K = {} THEN writes ELSE writes + 1
  /\ data' = [data EXCEPT ![t] = Reduced(t, K)]
  /\ IF session[t] = Nobody
     THEN UNCHANGED <<cells, notices, stored>>
     ELSE Save(t, session[t], stored[t], Reduced(t, K))
  /\ UNCHANGED <<timers, session, login, logins>>

\* A storage event reaches the tab: the handler of the instance in use waits
\* for a zero timeout when the event is for its user.
Deliver(t) == \E e \in notices[t] :
  /\ notices' = [notices EXCEPT ![t] = @ \ {e}]
  /\ timers' = IF e.user = session[t]
               THEN [timers EXCEPT ![t] = @ \cup
                       {[login |-> login[t], user |-> e.user, key |-> e.key]}]
               ELSE timers
  /\ UNCHANGED <<cells, session, login, data, stored, writes, logins>>

\* Does the instance that started timer m still have Storage's handler?
Heard_FirstLogin(t, m) == session[t] # Nobody /\ m.login = login[t] /\ m.login = 1
Heard_NotOff(t, m) == session[t] # Nobody
Heard(t, m) == session[t] # Nobody /\ m.login = login[t]

\* The data after the sync action, and storedData after the handler.  (If it
\* kept its own object instead, that would never be the one just parsed.)
Synced(t, k, v) == [data[t] EXCEPT ![k] = v]
Noted_OwnObject(t, k, v) == [stored[t] EXCEPT ![k] = Undefined]
Noted(t, k, v) == [stored[t] EXCEPT ![k] = v]

\* The timeout: read the item now, note it in storedData and dispatch sync,
\* after which the listener saves as after any other action.
Fire(t) == \E m \in timers[t] :
  LET v == Item(m.user, m.key) IN
  /\ timers' = [timers EXCEPT ![t] = @ \ {m}]
  /\ IF Heard(t, m)
     THEN /\ data' = [data EXCEPT ![t] = Synced(t, m.key, v)]
          /\ Save(t, session[t], Noted(t, m.key, v), Synced(t, m.key, v))
     ELSE UNCHANGED <<cells, notices, data, stored>>
  /\ UNCHANGED <<session, login, writes, logins>>

\* The store listener sees the user logged out: the modules that reset with
\* the storage may put the keys in K back to their initial state, which is
\* saved; then the handler is off, the instance destroyed, the data initial.
Cleared(t, K) == [k \in Key |-> IF k \in K THEN Initial ELSE data[t][k]]

Logout(t) == \E K \in SUBSET Registered[t] :
  /\ session[t] # Nobody
  /\ Save(t, session[t], stored[t], Cleared(t, K))
  /\ session' = [session EXCEPT ![t] = Nobody]
  /\ data' = [data EXCEPT ![t] = InitialData(t)]
  /\ UNCHANGED <<timers, login, writes, logins>>

\* The page goes away and another one loads in the tab.
Reload(t) ==
  /\ session[t] # Nobody
  /\ notices' = [notices EXCEPT ![t] = {}]
  /\ timers' = [timers EXCEPT ![t] = {}]
  /\ session' = [session EXCEPT ![t] = Nobody]
  /\ data' = [data EXCEPT ![t] = InitialData(t)]
  /\ stored' = [stored EXCEPT ![t] = [k \in Key |-> Undefined]]
  /\ UNCHANGED <<cells, login, writes, logins>>

Next == \E t \in Tab :
  \/ \E u \in User : Login(t, u)
  \/ Reduce(t) \/ Deliver(t) \/ Fire(t) \/ Logout(t) \/ Reload(t)

Spec == Init /\ [][Next]_vars

\* The browser delivers the events and runs the timeouts.
FairSpec == Spec /\ \A t \in Tab : WF_vars(Deliver(t)) /\ WF_vars(Fire(t))

-----------------------------------------------------------------------------
(* Properties. *)

\* A tab has yet to hear of a write to key k of its user.
Pending(t, k) ==
  \/ [user |-> session[t], key |-> k] \in notices[t]
  \/ [login |-> login[t], user |-> session[t], key |-> k] \in timers[t]

\* A tab that has handled the events of a key shows what the cell holds, as
\* long as the cell is there: no other order of writes, events, timeouts,
\* logouts and reloads may leave a tab with another value for good
\* (SynchronizedStorage's handler re-reads the item, Storage:55-63).
Converged ==
  \A t \in Tab : session[t] # Nobody =>
    \A k \in Registered[t] :
      cells[session[t]][k] # Absent /\ ~Pending(t, k)
        => data[t][k] = cells[session[t]][k]

\* What was made in the session of one user never shows in the session of
\* another and is never stored under the other's keys, though timeouts of the
\* earlier session are still to fire (Storage:66-84 takes the handler off).
UserIsolation ==
  /\ \A u \in User, k \in Key : cells[u][k] \in Made => cells[u][k].user = u
  /\ \A t \in Tab, k \in Key :
       session[t] # Nobody /\ data[t][k] \in Made => data[t][k].user = session[t]

\* While a session lasts a key never returns to an earlier value: an event
\* that is late never brings an older write back, here or in another tab.
NeverGoesBack ==
  [][\A t \in Tab, k \in Key :
       /\ session[t] # Nobody /\ session'[t] = session[t]
       /\ data[t][k] \in Made /\ data'[t][k] \in Made
       => data'[t][k].n >= data[t][k].n]_vars

\* A tab that follows the write of another tab writes nothing itself
\* (Storage:57 notes the value it syncs, so that the save loop of the same
\* dispatch finds nothing changed).
NoEcho == [][\A t \in Tab : Fire(t) => UNCHANGED <<cells, notices>>]_vars

\* Tabs do not answer a write with another one for ever: when the reducers
\* stop making values, the events stop (Storage:57 notes the value it syncs).
Settles == <>[](\A t \in Tab : notices[t] = {} /\ timers[t] = {})
=============================================================================
