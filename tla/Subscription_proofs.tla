------------------------ MODULE Subscription_proofs ------------------------
(***************************************************************************)
(* Proofs about Subscription, for any users, filters and bounds.           *)
(***************************************************************************)
EXTENDS Subscription, TLAPS

\* 0 stands for null: no request and no registration is one of no object.
RealObjects == \A r \in flights \cup listening : r.id # 0

IInv == TypeOK /\ RealObjects /\ OneListener

LEMMA CountedType ==
  ASSUME TypeOK, NEW k \in Kind, Counted(k)
  PROVE  count' \in [Kind -> Nat]
BY DEF TypeOK, Counted

LEMMA CountedForType ==
  ASSUME TypeOK, NEW u, CountedFor(u)
  PROVE  count' \in [Kind -> Nat]
BY CountedType DEF TypeOK, CountedFor, Kind

\* After reset() of the current object nothing listens.
LEMMA AllDeaf == IInv => Deaf(sub) = {}
BY DEF IInv, OneListener, Deaf

\* No object, so nothing listens.
LEMMA NoneListens == IInv /\ sub = 0 => listening = {}
BY DEF IInv, OneListener, RealObjects

LEMMA SubscribeType ==
  ASSUME IInv, Subscribe, UNCHANGED listening
  PROVE  /\ sub' \in Nat /\ objects' \in Nat /\ registerTimer' \in BOOLEAN
         /\ OneListener'
<1>1. sub \in Nat /\ objects \in Nat /\ OneListener  BY DEF IInv, TypeOK
<1>2. CASE sub = 0
  <2>1. listening' = {}  BY <1>2, NoneListens
  <2>. QED  BY <1>1, <1>2, <2>1 DEF Subscribe, OneListener
<1>3. CASE sub # 0
  BY <1>1, <1>3 DEF Subscribe, OneListener
<1>. QED  BY <1>2, <1>3

LEMMA ResetType ==
  ASSUME IInv, Reset
  PROVE  /\ status' \in {"pending", "ready", "resetting"}
         /\ filters' \subseteq Filter /\ message' \in User \cup {Nobody}
         /\ sub' \in Nat /\ objects' \in Nat /\ removing' \in Nat
         /\ waiters' \subseteq {"sleep", "reset"}
         /\ resetPromise' \in {"null", "running", "resolved"}
         /\ registerTimer' \in BOOLEAN /\ retryTimer' \in BOOLEAN
         /\ sleepTimer' \in BOOLEAN
         /\ listening' \subseteq listening /\ OneListener'
<1>1. TypeOK /\ OneListener  BY DEF IInv
<1>2. CASE sub # 0 /\ LoggedIn
  BY <1>1, <1>2 DEF TypeOK, Reset, Remove, OneListener
<1>3. CASE sub # 0 /\ ~LoggedIn
  <2>1. listening' = {} /\ sub' = 0  BY <1>3, AllDeaf DEF Reset, Dropped
  <2>. QED  BY <1>1, <1>3, <2>1 DEF TypeOK, Reset, Cleared, OneListener
<1>4. CASE sub = 0
  <2>1. UNCHANGED <<sub, listening>>  BY <1>4 DEF Reset
  <2>. QED  BY <1>1, <1>4, <2>1 DEF TypeOK, Reset, Cleared, OneListener
<1>. QED  BY <1>2, <1>3, <1>4

-----------------------------------------------------------------------------
LEMMA InitIInv == Init => IInv
<1> SUFFICES ASSUME Init PROVE IInv
  OBVIOUS
<1>1. count \in [Kind -> Nat]  BY DEF Init
<1>2. TypeOK  BY <1>1 DEF Init, TypeOK
<1>3. RealObjects /\ OneListener  BY DEF Init, RealObjects, OneListener
<1>. QED  BY <1>2, <1>3 DEF IInv

LEMMA NextIInv == IInv /\ [Next]_vars => IInv'
<1> SUFFICES ASSUME IInv, [Next]_vars PROVE IInv'
  OBVIOUS
<1>0. TypeOK /\ RealObjects /\ OneListener  BY DEF IInv
<1> USE DEF authVars, stateVars, subVars, waitVars, timers
<1>1. CASE Start
  BY <1>0, <1>1 DEF IInv, TypeOK, RealObjects, OneListener, Start
<1>2. CASE Stop
  <2>1. Reset /\ UNCHANGED <<authVars, flights, count>>  BY <1>2 DEF Stop
  <2>2. TypeOK'  BY <1>0, <2>1, ResetType DEF TypeOK
  <2>3. RealObjects' /\ OneListener'  BY <1>0, <2>1, ResetType DEF RealObjects
  <2>. QED  BY <2>2, <2>3 DEF IInv
<1>3. CASE Register
  <2>0. count' \in [Kind -> Nat]
    <3>1. count \in [Kind -> Nat]  BY <1>0 DEF TypeOK
    <3>2. UNCHANGED count \/ Counted("overlap")  BY <1>3 DEF Register
    <3>. QED  BY <1>0, <3>1, <3>2, CountedType DEF Kind
  <2>1. CASE sub = 0
    <3>1. UNCHANGED <<sub, listening, flights>>  BY <1>3, <2>1 DEF Register
    <3>2. TypeOK'  BY ZenonT(40), <1>0, <1>3, <2>0, <3>1 DEF TypeOK, Register
    <3>. QED  BY <1>0, <3>1, <3>2 DEF IInv, RealObjects, OneListener
  <2>2. CASE sub # 0
    <3> DEFINE r == [id |-> sub, user |-> user, filters |-> filters]
    <3>1. flights' = flights \cup {r}  BY <1>3, <2>2 DEF Register
    <3>2. r \in Registration /\ r.id # 0  BY <1>0, <2>2 DEF TypeOK, Registration
    <3> HIDE DEF r
    <3>3. TypeOK'  BY ZenonT(40), <1>0, <1>3, <2>0, <3>1, <3>2 DEF TypeOK, Register
    <3>4. UNCHANGED <<sub, listening>>  BY <1>3 DEF Register
    <3>. QED  BY <1>0, <3>1, <3>2, <3>3, <3>4 DEF IInv, RealObjects, OneListener
  <2>. QED  BY <2>1, <2>2
<1>4. CASE Registered
  <2>1. PICK r \in flights :
          /\ flights' = flights \ {r}
          /\ listening' = IF r.id = sub THEN Deaf(sub) \cup {r} ELSE listening
    BY <1>4 DEF Registered
  <2>2. OneListener'
    BY <1>0, <1>4, <2>1, AllDeaf DEF Registered, OneListener
  <2>3. RealObjects' /\ listening' \subseteq Registration
    BY <1>0, <2>1, AllDeaf DEF RealObjects, TypeOK
  <2>. QED  BY <1>0, <1>4, <2>1, <2>2, <2>3 DEF IInv, TypeOK, Registered
<1>5. CASE SubscribeError
  <2>1. PICK r \in flights :
          /\ CountedFor(r.user)
          /\ flights' = flights \ {r} /\ listening' = Deaf(r.id)
    BY <1>5 DEF SubscribeError
  <2>2. count' \in [Kind -> Nat]  BY <1>0, <2>1, CountedForType
  <2>3. TypeOK'
    BY <1>0, <1>5, <2>1, <2>2 DEF TypeOK, SubscribeError, RetryLater, Deaf
  <2>. QED  BY <1>0, <1>5, <2>1, <2>3
            DEF IInv, RealObjects, OneListener, SubscribeError, Deaf
<1>6. CASE RenewError
  <2>1. count' \in [Kind -> Nat]  BY <1>0, <1>6, CountedForType DEF RenewError
  <2>2. flights' \subseteq flights  BY <1>6 DEF RenewError
  <2>3. /\ sub' \in Nat /\ listening' \subseteq listening /\ OneListener'
    BY <1>0, <1>6, AllDeaf DEF RenewError, Dropped, OneListener, TypeOK
  <2>4. retryTimer' \in BOOLEAN  BY <1>0, <1>6 DEF TypeOK, RenewError, RetryLater
  <2>5. TypeOK'  BY <1>0, <1>6, <2>1, <2>2, <2>3, <2>4 DEF TypeOK, RenewError
  <2>. QED  BY <1>0, <2>2, <2>3, <2>5 DEF IInv, RealObjects
<1>7. CASE Retry
  <2>1. CASE Ready
    <3>1. Subscribe /\ UNCHANGED listening  BY <1>7, <2>1 DEF Retry
    <3>2. TypeOK'  BY ZenonT(40), <1>0, <1>7, <3>1, SubscribeType DEF TypeOK, Retry
    <3>3. OneListener'  BY <3>1, SubscribeType
    <3>4. UNCHANGED <<flights, listening>>  BY <1>7 DEF Retry
    <3>. QED  BY <1>0, <3>2, <3>3, <3>4 DEF IInv, RealObjects
  <2>2. CASE ~Ready
    <3>1. UNCHANGED <<sub, flights, listening>>  BY <1>7, <2>2 DEF Retry
    <3>2. TypeOK'  BY ZenonT(40), <1>0, <1>7, <2>2 DEF TypeOK, Retry
    <3>. QED  BY <1>0, <3>1, <3>2 DEF IInv, RealObjects, OneListener
  <2>. QED  BY <2>1, <2>2
<1>8. CASE Notification
  <2>1. message' \in User \cup {Nobody}
    BY <1>0, <1>8 DEF TypeOK, Notification, Registration
  <2>2. UNCHANGED <<sub, flights, listening>>  BY <1>8 DEF Notification
  <2>3. TypeOK'  BY <1>0, <1>8, <2>1 DEF TypeOK, Notification
  <2>. QED  BY <1>0, <2>2, <2>3 DEF IInv, RealObjects, OneListener
<1>9. CASE Wake
  <2>1. count' \in [Kind -> Nat]  BY <1>0, <1>9, CountedType DEF Wake, Kind
  <2>. QED  BY ZenonT(40), <1>0, <1>9, <2>1
            DEF IInv, TypeOK, RealObjects, OneListener, Wake, Remove
<1>10. CASE Removed
  <2>1. listening' = {}  BY <1>10, AllDeaf DEF Removed
  <2>2. /\ sub' \in Nat /\ objects' \in Nat
        /\ registerTimer' \in BOOLEAN /\ sleepTimer' \in BOOLEAN
    <3>1. CASE "sleep" \in waiters
      BY <1>0, <1>10, <3>1 DEF TypeOK, Removed, Resubscribe
    <3>2. CASE "sleep" \notin waiters
      BY <1>0, <1>10, <3>2 DEF TypeOK, Removed
    <3>. QED  BY <3>1, <3>2
  <2>3. TypeOK'
    BY <1>0, <1>10, <2>1, <2>2 DEF TypeOK, Removed, Cleared
  <2>. QED  BY <1>0, <1>10, <2>1, <2>3 DEF IInv, RealObjects, OneListener, Removed
<1>11. ASSUME NEW f \in Filter, Ask(f) PROVE IInv'
  <2>1. Subscribe /\ UNCHANGED listening  BY <1>11 DEF Ask
  <2>2. filters' \subseteq Filter  BY <1>0, <1>11 DEF TypeOK, Ask, WithFilter
  <2>3. TypeOK'  BY <1>0, <1>11, <2>1, <2>2, SubscribeType DEF TypeOK, Ask
  <2>4. OneListener'  BY <2>1, SubscribeType
  <2>5. UNCHANGED <<flights, listening>>  BY <1>11 DEF Ask
  <2>. QED  BY <1>0, <2>3, <2>4, <2>5 DEF IInv, RealObjects
<1>12. ASSUME NEW u \in User, Login(u) PROVE IInv'
  <2>1. count' \in [Kind -> Nat]  BY <1>0, <1>12 DEF TypeOK, Login, Kind
  <2>. QED  BY <1>0, <1>12, <2>1 DEF IInv, TypeOK, RealObjects, OneListener, Login
<1>13. CASE Expire
  <2>1. count' \in [Kind -> Nat]  BY <1>0, <1>13, CountedType DEF Expire, Kind
  <2>. QED  BY <1>0, <1>13, <2>1 DEF IInv, TypeOK, RealObjects, OneListener, Expire
<1>14. CASE BeginLogout
  <2>1. count' \in [Kind -> Nat]  BY <1>0, <1>14, CountedType DEF BeginLogout, Kind
  <2>. QED  BY <1>0, <1>14, <2>1 DEF IInv, TypeOK, RealObjects, OneListener, BeginLogout
<1>15. CASE Handler
  <2>1. CASE Ready /\ resetPromise = "null"
    <3>1. Reset /\ logoutStep' \in {"awaiting", "handled"}
      BY <1>15, <2>1 DEF Handler
    <3>2. TypeOK'  BY <1>0, <1>15, <3>1, ResetType DEF TypeOK, Handler
    <3>3. RealObjects' /\ OneListener'
      BY <1>0, <1>15, <3>1, ResetType DEF RealObjects, Handler
    <3>. QED  BY <3>2, <3>3 DEF IInv
  <2>2. CASE ~(Ready /\ resetPromise = "null")
    <3>1. logoutStep' \in {"awaiting", "handled"}
          /\ UNCHANGED <<stateVars, sub, objects, listening, waitVars, timers>>
      BY <1>15, <2>2 DEF Handler
    <3>. QED  BY <1>0, <1>15, <3>1 DEF IInv, TypeOK, RealObjects, OneListener, Handler
  <2>. QED  BY <2>1, <2>2
<1>16. CASE CancelLogout
  <2>1. count' \in [Kind -> Nat]  BY <1>0, <1>16, CountedType DEF CancelLogout, Kind
  <2>. QED  BY <1>0, <1>16, <2>1 DEF IInv, TypeOK, RealObjects, OneListener, CancelLogout
<1>17. CASE Logout
  BY <1>0, <1>17 DEF IInv, TypeOK, RealObjects, OneListener, Logout
<1>18. CASE LoggedOut
  BY <1>0, <1>18 DEF IInv, TypeOK, RealObjects, OneListener, LoggedOut
<1>19. CASE UNCHANGED vars
  BY <1>0, <1>19 DEF IInv, TypeOK, RealObjects, OneListener, vars
<1>. QED
  BY <1>1, <1>2, <1>3, <1>4, <1>5, <1>6, <1>7, <1>8, <1>9, <1>10, <1>11, <1>12,
     <1>13, <1>14, <1>15, <1>16, <1>17, <1>18, <1>19 DEF Next

\* The module's state, its requests and its promises keep their types.
THEOREM TypeCorrect == Spec => []TypeOK
BY InitIInv, NextIInv, PTL DEF Spec, IInv

\* For any users and filters: through errors, sleep, removals and resets no
\* object but the one _subscription holds gets notifications.
THEOREM OneObjectListens == Spec => []OneListener
BY InitIInv, NextIInv, PTL DEF Spec, IInv

-----------------------------------------------------------------------------
(* Without sleep, messages stay with their user.                             *)

\* Auth, and what a removal means when only _reset starts one.
Phases ==
  /\ LoggedIn => user # Nobody
  /\ auth = "notLoggedIn" => user = Nobody
  /\ status = "resetting" <=> resetPromise = "running"
  /\ removing # 0 => status = "resetting" /\ "reset" \in waiters
  /\ "sleep" \notin waiters
  /\ sub <= objects /\ \A r \in flights : r.id <= objects

\* All that a ready module holds is its user's, and a pending one holds nothing.
Owned ==
  resetPromise # "resolved" =>
    /\ Ready /\ user = Nobody => auth = "notLoggedIn"
    /\ Ready /\ user # Nobody =>
         /\ message \in {user, Nobody}
         /\ \A r \in listening : r.user = user
         /\ \A r \in flights : r.id = sub => r.user = user
    /\ status = "pending" => sub = 0 /\ message = Nobody

LEMMA ResetPhases ==
  ASSUME IInv, Phases, Owned, Reset, resetPromise = "null", Ready,
         UNCHANGED <<auth, user, flights>>
  PROVE  Phases' /\ Owned'
<1>0. TypeOK  BY DEF IInv
<1>1. removing = 0  BY DEF Phases, Ready
<1>2. CASE sub # 0 /\ LoggedIn
  <2>1. /\ waiters' = waiters \cup {"reset"} /\ resetPromise' = "running"
        /\ status' = "resetting" /\ UNCHANGED <<sub, listening, message, objects>>
    BY <1>2 DEF Reset, Remove
  <2>. QED  BY <1>0, <2>1 DEF Phases, Owned, Ready, LoggedIn, TypeOK
<1>3. CASE ~(sub # 0 /\ LoggedIn)
  <2>1. /\ resetPromise' = "resolved" /\ status' = "pending"
        /\ UNCHANGED <<removing, waiters, objects>> /\ sub' \in {sub, 0}
    BY <1>3 DEF Reset, Cleared, Dropped
  <2>. QED  BY <1>0, <1>1, <2>1 DEF Phases, Owned, LoggedIn, TypeOK
<1>. QED  BY <1>2, <1>3

LEMMA SubscribeOwned ==
  ASSUME IInv, Phases, Owned, Subscribe, Ready,
         UNCHANGED <<auth, user, status, message, listening, flights, removing, waiters,
                     resetPromise>>
  PROVE  Phases' /\ Owned'
<1>0. TypeOK /\ RealObjects  BY DEF IInv
<1>1. CASE sub = 0
  <2>1. sub' = objects + 1 /\ objects' = objects + 1  BY <1>1 DEF Subscribe
  <2>2. \A r \in flights : r.id # sub'
    BY <1>0, <2>1 DEF Phases, TypeOK, Registration
  <2>3. listening = {}  BY <1>1, NoneListens
  <2>. QED  BY <1>0, <2>1, <2>2, <2>3
            DEF Phases, Owned, Ready, LoggedIn, TypeOK, Registration
<1>2. CASE sub # 0
  <2>1. UNCHANGED <<sub, objects>>  BY <1>2 DEF Subscribe
  <2>. QED  BY <2>1 DEF Phases, Owned, Ready, LoggedIn
<1>. QED  BY <1>1, <1>2

LEMMA NextOwned ==
  ASSUME count'["sleep"] = 0, IInv, Phases, Owned, [Next]_vars
  PROVE  Phases' /\ Owned'
<1>0. TypeOK /\ RealObjects /\ OneListener  BY DEF IInv
<1> USE SubscriptionAssumption DEF authVars, stateVars, subVars, waitVars, timers
<1>1. CASE Start
  <2>1. auth = "loggedIn" /\ user # Nobody /\ status = "pending"
    BY <1>1 DEF Start, NeedsInit, Phases, LoggedIn
  <2>2. resetPromise # "resolved" => sub = 0 /\ message = Nobody /\ listening = {}
    BY <2>1, NoneListens DEF Owned
  <2>. QED  BY <1>0, <1>1, <2>1, <2>2
            DEF Phases, Owned, Start, Ready, LoggedIn, RealObjects
<1>2. CASE Stop  BY <1>2, ResetPhases DEF Stop, NeedsReset
<1>3. CASE Register
  <2>1. CASE sub = 0
    BY <1>3, <2>1 DEF Phases, Owned, Ready, LoggedIn, Register
  <2>2. CASE sub # 0
    <3> DEFINE r == [id |-> sub, user |-> user, filters |-> filters]
    <3>1. flights' = flights \cup {r} /\ r.id = sub /\ r.user = user
      BY <1>3, <2>2 DEF Register
    <3> HIDE DEF r
    <3>. QED  BY <1>3, <3>1 DEF Phases, Owned, Ready, LoggedIn, Register
  <2>. QED  BY <2>1, <2>2
<1>4. CASE Registered
  <2>1. PICK r \in flights :
          /\ flights' = flights \ {r}
          /\ listening' = IF r.id = sub THEN Deaf(sub) \cup {r} ELSE listening
    BY <1>4 DEF Registered
  <2>. QED  BY <1>4, <2>1, AllDeaf DEF Phases, Owned, Ready, LoggedIn, Registered
<1>5. CASE SubscribeError
  <2>1. listening' \subseteq listening /\ flights' \subseteq flights
    BY <1>5 DEF SubscribeError, Deaf
  <2>. QED  BY <1>5, <2>1 DEF Phases, Owned, Ready, LoggedIn, SubscribeError
<1>6. CASE RenewError
  <2>1. /\ listening' \subseteq listening /\ flights' \subseteq flights
        /\ sub' = 0 /\ UNCHANGED objects
    BY <1>6 DEF RenewError, Dropped, Deaf
  <2>2. \A r \in flights' : r.id # sub'  BY <1>0, <2>1 DEF RealObjects
  <2>. QED  BY <1>0, <1>6, <2>1, <2>2
            DEF Phases, Owned, Ready, LoggedIn, RenewError, TypeOK
<1>7. CASE Retry
  <2>1. CASE Ready  BY <1>7, <2>1, SubscribeOwned DEF Retry
  <2>2. CASE ~Ready
    BY <1>7, <2>2 DEF Phases, Owned, Ready, LoggedIn, Retry
  <2>. QED  BY <2>1, <2>2
<1>8. CASE Notification
  <2>1. \/ Settled /\ status # "pending"
        \/ listening = {} \/ resetPromise = "resolved"
    BY <1>0, <1>8, NoneListens DEF Notification, Owned, TypeOK
  <2>. QED  BY <1>0, <1>8, <2>1 DEF Phases, Owned, Ready, LoggedIn, Notification
<1>9. CASE Wake
  <2>1. FALSE  BY <1>0, <1>9 DEF Wake, Counted, TypeOK, Kind
  <2>. QED  BY <2>1
<1>10. CASE Removed
  <2>1. /\ "reset" \in waiters /\ "sleep" \notin waiters
    BY <1>10 DEF Removed, Phases
  <2>2. /\ removing' = 0 /\ waiters' = {} /\ sub' = 0
        /\ UNCHANGED <<auth, user, flights, objects>>
        /\ status' = "pending" /\ message' = Nobody /\ resetPromise' = "null"
    BY <1>10, <2>1 DEF Removed, Cleared
  <2>. QED  BY <1>0, <2>2 DEF Phases, Owned, Ready, LoggedIn, TypeOK
<1>11. ASSUME NEW f \in Filter, Ask(f) PROVE Phases' /\ Owned'
  BY <1>11, SubscribeOwned DEF Ask
<1>12. ASSUME NEW u \in User, Login(u) PROVE Phases' /\ Owned'
  <2>1. resetPromise # "resolved" => ~Ready
    BY <1>0, <1>12 DEF Login, Settled, NeedsReset, Phases, Ready, TypeOK
  <2>. QED  BY <1>0, <1>12, <2>1 DEF Phases, Owned, Ready, LoggedIn, Login
<1>13. CASE Expire  BY <1>13 DEF Phases, Owned, Ready, LoggedIn, Expire
<1>14. CASE BeginLogout  BY <1>14 DEF Phases, Owned, Ready, LoggedIn, BeginLogout
<1>15. CASE Handler
  <2>1. CASE Ready /\ resetPromise = "null"
    BY <1>15, <2>1, ResetPhases DEF Handler
  <2>2. CASE ~(Ready /\ resetPromise = "null")
    BY <1>15, <2>2 DEF Phases, Owned, Ready, LoggedIn, Handler
  <2>. QED  BY <2>1, <2>2
<1>16. CASE CancelLogout
  BY <1>16 DEF Phases, Owned, Ready, LoggedIn, CancelLogout
<1>17. CASE Logout
  <2>1. Ready /\ user = Nobody => resetPromise = "resolved"
    BY <1>0, <1>17 DEF Logout, Settled, NeedsReset, Phases, Owned, Ready, TypeOK
  <2>. QED  BY <1>17, <2>1 DEF Phases, Owned, Ready, LoggedIn, Logout
<1>18. CASE LoggedOut  BY <1>18 DEF Phases, Owned, Ready, LoggedIn, LoggedOut
<1>19. CASE UNCHANGED vars
  BY <1>19 DEF Phases, Owned, Ready, LoggedIn, vars
<1>. QED
  BY <1>1, <1>2, <1>3, <1>4, <1>5, <1>6, <1>7, <1>8, <1>9, <1>10, <1>11, <1>12,
     <1>13, <1>14, <1>15, <1>16, <1>17, <1>18, <1>19 DEF Next

\* Sleep is not forgotten.
LEMMA SleepStays ==
  ASSUME IInv, [Next]_vars, count'["sleep"] = 0
  PROVE  count["sleep"] = 0
<1>1. TypeOK  BY DEF IInv
<1>2. UNCHANGED count \/ (\E k \in Kind : Counted(k)) \/ \E u \in User : Login(u)
  BY DEF Next, vars, Start, Stop, Register, Registered, SubscribeError, RenewError,
     CountedFor, Retry, Notification, Wake, Removed, Ask, Expire, BeginLogout,
     Handler, CancelLogout, Logout, LoggedOut, Kind
<1>. QED  BY <1>1, <1>2 DEF TypeOK, Counted, Login, Kind

\* For any users, filters and errors: as long as the machine does not sleep, whoever
\* is logged in sees no message of an earlier session, until a reset was lost.
THEOREM MessagesStayWithTheirUser == Spec => []OwnMessages
<1> DEFINE Inv == count["sleep"] = 0 => Phases /\ Owned
<1>1. Init => Inv
  BY SubscriptionAssumption DEF Init, Phases, Owned, Ready, LoggedIn
<1>2. IInv /\ Inv /\ [Next]_vars => Inv'  BY NextOwned, SleepStays
<1>3. Inv => OwnMessages  BY DEF Owned, OwnMessages
<1>. QED  BY <1>1, <1>2, <1>3, InitIInv, NextIInv, PTL DEF Spec

-----------------------------------------------------------------------------
(* What has to be registered is going to be.                                 *)

\* The registration the server should have.
Current == [id |-> sub, user |-> user, filters |-> filters]

\* Something is under way that registers it, or ends in something that does.
Coming ==
  \/ registerTimer /\ sub # 0
  \/ retryTimer
  \/ removing # 0 /\ waiters # {}
  \/ Current \in flights

\* The safety that FiltersRegistered rests on: while it may be expected, what was asked for
\* is registered or something is under way that leads there.
RegistrationComes ==
  Undisturbed /\ auth = "loggedIn" /\ filters # {} => Current \in listening \/ Coming

\* Only a ready module has filters to register, but for one that is about to clear them.
Clearing ==
  /\ status = "pending" => filters = {}
  /\ status = "resetting" => removing # 0 /\ "reset" \in waiters
  /\ removing # 0 => waiters # {}

\* No answer to an older request replaces the registration that was asked for last.
InTurn ==
  Undisturbed =>
    /\ \A r, q \in flights : r = q
    /\ auth = "loggedIn" /\ Ready /\ filters # {} =>
         \A r \in flights : r.id = sub => registerTimer \/ r = Current

ComingInv == Clearing /\ InTurn /\ RegistrationComes

\* What disturbed a session is not forgotten.
LEMMA DisturbedStays ==
  ASSUME IInv, [Next]_vars, Undisturbed'
  PROVE  Undisturbed
<1>1. TypeOK  BY DEF IInv
<1>2. UNCHANGED count \/ (\E k \in Kind : Counted(k)) \/ \E u \in User : Login(u)
  BY DEF Next, vars, Start, Stop, Register, Registered, SubscribeError, RenewError,
     CountedFor, Retry, Notification, Wake, Removed, Ask, Expire, BeginLogout,
     Handler, CancelLogout, Logout, LoggedOut, Kind
<1>3. \A k \in Kind : count[k] \in Nat /\ (count'[k] = 0 => count[k] = 0)
  BY <1>1, <1>2 DEF TypeOK, Counted, Login
<1>. QED  BY <1>3 DEF Undisturbed, Kind

\* A reset that begins clears the filters, or awaits a removal that will.
LEMMA ResetComing ==
  ASSUME IInv, ComingInv, Reset, Ready, UNCHANGED <<auth, user, flights, count>>
  PROVE  ComingInv'
<1>0. TypeOK  BY DEF IInv
<1>1. CASE sub # 0 /\ LoggedIn
  <2>1. /\ removing' # 0 /\ "reset" \in waiters' /\ status' = "resetting"
        /\ UNCHANGED <<filters, sub>>
    BY <1>1 DEF Reset, Remove
  <2>. QED  BY <2>1 DEF ComingInv, Clearing, InTurn, RegistrationComes, Coming, Ready, Undisturbed
<1>2. CASE ~(sub # 0 /\ LoggedIn)
  <2>1. filters' = {} /\ status' = "pending" /\ UNCHANGED <<removing, waiters>>
    BY <1>2 DEF Reset, Cleared
  <2>. QED  BY <2>1 DEF ComingInv, Clearing, InTurn, RegistrationComes, Ready, Undisturbed
<1>. QED  BY <1>1, <1>2

LEMMA SubscribeComing ==
  ASSUME IInv, ComingInv, Subscribe, Ready, Undisturbed' => Undisturbed,
         UNCHANGED <<auth, status, flights, removing, waiters>>
  PROVE  ComingInv'
<1>1. registerTimer' /\ sub' # 0
  BY DEF IInv, TypeOK, Subscribe
<1>. QED  BY <1>1 DEF ComingInv, Clearing, InTurn, RegistrationComes, Coming, Ready

LEMMA NextComing ==
  ASSUME IInv, ComingInv, [Next]_vars
  PROVE  ComingInv'
<1>0. TypeOK /\ RealObjects /\ OneListener  BY DEF IInv
<1>u. Undisturbed' => Undisturbed  BY DisturbedStays
<1> USE DEF authVars, stateVars, subVars, waitVars, timers
<1>1. CASE Start
  BY <1>1, <1>u DEF ComingInv, Clearing, InTurn, RegistrationComes, Start, NeedsInit
<1>2. CASE Stop  BY <1>2, ResetComing DEF Stop, NeedsReset
<1>3. CASE Register
  <2>1. CASE sub = 0
    <3>1. UNCHANGED <<auth, user, status, filters, sub, listening, flights, removing, waiters,
                      retryTimer>>
      BY <1>3, <2>1 DEF Register
    <3>2. Clearing' /\ Current' = Current
      BY <3>1 DEF ComingInv, Clearing, Current
    <3>3. InTurn'
      BY <1>0, <1>u, <2>1, <3>1 DEF ComingInv, InTurn, RealObjects
    <3>4. RegistrationComes'
      BY <1>u, <2>1, <3>1, <3>2 DEF ComingInv, RegistrationComes, Coming
    <3>. QED  BY <3>2, <3>3, <3>4 DEF ComingInv
  <2>2. CASE sub # 0
    <3>1. /\ flights' = flights \cup {Current}
          /\ IF flights # {} THEN Counted("overlap") ELSE UNCHANGED count
          /\ UNCHANGED <<auth, user, status, filters, sub, removing, waiters>>
      BY <1>3, <2>2 DEF Register, Current
    <3>2. Current' = Current  BY <3>1 DEF Current
    <3>3. Undisturbed' => flights' = {Current}
      <4>1. Counted("overlap") => ~Undisturbed'
        BY <1>0 DEF TypeOK, Counted, Kind, Undisturbed
      <4>. QED  BY <3>1, <4>1
    <3>. QED  BY <3>1, <3>2, <3>3
              DEF ComingInv, Clearing, InTurn, RegistrationComes, Coming
  <2>. QED  BY <2>1, <2>2
<1>4. CASE Registered
  <2>1. PICK r \in flights :
          /\ flights' = flights \ {r}
          /\ listening' = IF r.id = sub THEN Deaf(sub) \cup {r} ELSE listening
    BY <1>4 DEF Registered
  <2>2. UNCHANGED <<auth, user, status, filters, sub, removing, waiters, registerTimer,
                    retryTimer, count>>
    BY <1>4 DEF Registered
  <2>3. Current' = Current /\ Undisturbed' = Undisturbed
    BY <2>2 DEF Current, Undisturbed
  <2>4. Clearing' /\ InTurn'
    BY <2>1, <2>2, <2>3 DEF ComingInv, Clearing, InTurn, Ready
  <2>5. ASSUME Undisturbed, auth = "loggedIn", filters # {}
        PROVE  Current \in listening' \/ Coming'
    <3>1. Current \in listening \/ Coming
      BY <2>5 DEF ComingInv, RegistrationComes
    <3>2. CASE r = Current
      BY <2>1, <3>2 DEF Current
    <3>3. CASE r # Current /\ r.id = sub
      <4>1. CASE Ready
        <5>1. registerTimer /\ sub # 0
          BY <1>0, <2>5, <3>3, <4>1 DEF ComingInv, InTurn, RealObjects
        <5>. QED  BY <2>2, <5>1 DEF Coming
      <4>2. CASE ~Ready
        <5>1. removing # 0 /\ waiters # {}
          BY <1>0, <2>5, <4>2 DEF ComingInv, Clearing, Ready, TypeOK
        <5>. QED  BY <2>2, <5>1 DEF Coming
      <4>. QED  BY <4>1, <4>2
    <3>4. CASE r # Current /\ r.id # sub
      BY <2>1, <2>2, <2>3, <3>1, <3>4 DEF Coming
    <3>. QED  BY <3>2, <3>3, <3>4
  <2>. QED  BY <2>2, <2>3, <2>4, <2>5 DEF ComingInv, RegistrationComes
<1>5. CASE SubscribeError \/ RenewError
  <2>1. /\ flights' \subseteq flights /\ sub' \in {sub, 0} /\ RetryLater
        /\ UNCHANGED <<auth, user, status, filters, removing, waiters, registerTimer>>
    BY <1>5 DEF SubscribeError, RenewError, Dropped
  <2>2. auth = "loggedIn" => retryTimer'
    BY <2>1 DEF RetryLater, StorageReady
  <2>3. InTurn'
    <3>1. sub' = sub => Current' = Current
      BY <2>1 DEF Current
    <3>2. \A r \in flights' : r.id # 0
      BY <1>0, <2>1 DEF RealObjects
    <3>. QED  BY <1>u, <2>1, <3>1, <3>2 DEF ComingInv, InTurn, Ready
  <2>. QED  BY <2>1, <2>2, <2>3 DEF ComingInv, Clearing, RegistrationComes, Coming
<1>6. CASE Retry
  <2>1. CASE Ready  BY <1>6, <1>u, <2>1, SubscribeComing DEF Retry
  <2>2. CASE ~Ready
    <3>1. UNCHANGED <<auth, user, status, filters, sub, listening, flights, removing, waiters,
                      registerTimer, count>>
      BY <1>6, <2>2 DEF Retry
    <3>2. filters # {} => removing # 0 /\ waiters # {}
      BY <1>0, <2>2 DEF ComingInv, Clearing, Ready, TypeOK
    <3>. QED  BY <2>2, <3>1, <3>2
              DEF ComingInv, Clearing, InTurn, RegistrationComes, Coming, Ready, Undisturbed
  <2>. QED  BY <2>1, <2>2
<1>7. CASE Notification
  <2>1. UNCHANGED <<auth, user, status, filters, sub, listening, flights, removing, waiters,
                    registerTimer, retryTimer, count>>
    BY <1>7 DEF Notification
  <2>. QED  BY <2>1 DEF ComingInv, Clearing, InTurn, RegistrationComes, Coming, Current, Ready,
                        Undisturbed
<1>8. CASE Wake
  <2>1. /\ removing' # 0 /\ waiters' = waiters \cup {"sleep"}
        /\ UNCHANGED <<auth, user, status, filters, sub, flights, registerTimer>>
    BY <1>8 DEF Wake, Remove
  <2>2. Clearing' /\ RegistrationComes'
    BY <1>0, <1>8, <2>1 DEF ComingInv, Clearing, RegistrationComes, Coming, Wake, Ready
  <2>3. InTurn'
    BY <1>u, <2>1 DEF ComingInv, InTurn, Current, Ready
  <2>. QED  BY <2>2, <2>3 DEF ComingInv
<1>9. CASE Removed
  <2>1. UNCHANGED <<auth, user, flights, count>> /\ removing' = 0 /\ waiters # {}
    BY <1>9 DEF Removed, ComingInv, Clearing
  <2>2. CASE "reset" \in waiters
    <3>1. status' = "pending" /\ filters' = {}
      BY <1>9, <2>2 DEF Removed, Cleared
    <3>. QED  BY <1>u, <2>1, <3>1 DEF ComingInv, Clearing, InTurn, RegistrationComes
  <2>3. CASE "reset" \notin waiters
    <3>1. registerTimer' /\ sub' # 0 /\ UNCHANGED <<status, filters>>
      <4>1. "sleep" \in waiters  BY <1>0, <2>1, <2>3 DEF TypeOK
      <4>. QED  BY <1>0, <1>9, <2>3, <4>1 DEF Removed, Resubscribe, TypeOK
    <3>. QED  BY <1>u, <2>1, <2>3, <3>1
              DEF ComingInv, Clearing, InTurn, RegistrationComes, Coming
  <2>. QED  BY <2>2, <2>3
<1>10. ASSUME NEW f \in Filter, Ask(f) PROVE ComingInv'
  BY <1>10, <1>u, SubscribeComing DEF Ask
<1>11. ASSUME NEW u \in User, Login(u) PROVE ComingInv'
  <2>1. UNCHANGED <<status, filters, flights, removing, waiters>>
    BY <1>11 DEF Login
  <2>2. Undisturbed' => ~Ready
    BY <1>0, <1>11 DEF Login, Undisturbed, TypeOK, Kind
  <2>. QED  BY <1>0, <1>u, <2>1, <2>2
            DEF ComingInv, Clearing, InTurn, RegistrationComes, Coming, Ready, TypeOK
<1>12. CASE Expire \/ BeginLogout \/ Logout \/ LoggedOut
  <2>1. auth' # "loggedIn" /\ UNCHANGED <<status, filters, flights, removing, waiters>>
    BY <1>12 DEF Expire, BeginLogout, Logout, LoggedOut
  <2>. QED  BY <1>u, <2>1 DEF ComingInv, Clearing, InTurn, RegistrationComes
<1>13. CASE Handler
  <2>1. CASE Ready /\ resetPromise = "null"
    BY <1>13, <2>1, ResetComing DEF Handler
  <2>2. CASE ~(Ready /\ resetPromise = "null")
    <3>1. UNCHANGED <<auth, user, status, filters, sub, listening, flights, removing, waiters,
                      registerTimer, retryTimer, count>>
      BY <1>13, <2>2 DEF Handler
    <3>. QED  BY <3>1 DEF ComingInv, Clearing, InTurn, RegistrationComes, Coming, Current, Ready,
                          Undisturbed
  <2>. QED  BY <2>1, <2>2
<1>14. CASE CancelLogout
  <2>1. ~Undisturbed' /\ UNCHANGED <<status, filters, removing, waiters>>
    BY <1>0, <1>14 DEF CancelLogout, Counted, Undisturbed, TypeOK, Kind
  <2>. QED  BY <2>1 DEF ComingInv, Clearing, InTurn, RegistrationComes
<1>15. CASE UNCHANGED vars
  BY <1>15 DEF ComingInv, Clearing, InTurn, RegistrationComes, Coming, Current, Ready, Undisturbed,
               vars
<1>. QED
  BY <1>1, <1>2, <1>3, <1>4, <1>5, <1>6, <1>7, <1>8, <1>9, <1>10, <1>11, <1>12, <1>13, <1>14,
     <1>15 DEF Next

\* For any users, filters and bounds: whatever fails, sleeps or ends, in an undisturbed session
\* what the modules asked for is registered, or a timeout, a request or a removal is under way
\* that leads to it.
THEOREM RegistrationsCome == Spec => []RegistrationComes
<1>1. Init => ComingInv
  BY DEF Init, ComingInv, Clearing, InTurn, RegistrationComes
<1>2. ComingInv => RegistrationComes  BY DEF ComingInv
<1>. QED  BY <1>1, <1>2, NextComing, InitIInv, NextIInv, PTL DEF Spec
=============================================================================
