----------------------------- MODULE Telephony_proofs -----------------------------
(***************************************************************************)
(* Proofs about the components of the session, of calls, of matches and of *)
(* the connection, and the injector: each has an inductive invariant,      *)
(* XxIInv for the instance Xx, that its initial states have, its steps     *)
(* keep, and that implies what its module says of it; the specification of *)
(* Telephony keeps that of the component that runs.                        *)
(***************************************************************************)
EXTENDS Telephony, Sequences, FiniteSetTheorems, WellFoundedInduction, TLAPS

-----------------------------------------------------------------------------
(***************************************************************************)
(* Proofs about who is logged in: for any tabs and users, the calls behind *)
(* each login status, and the agreement of the tabs and their tokens while *)
(* no two changes of the session overlap.                                  *)
(***************************************************************************)

AuBounds == none \notin Owner

(* The session: what every tab will know once it has read its events.          *)

\* What tab t takes the login for after the last event it was sent.
AuView(t) == IF inbox[t] = <<>> THEN loggedIn[t] ELSE inbox[t][Len(inbox[t])]

\* What it takes the login for before it reads event i.
AuBefore(t, i) == IF i = 1 THEN loggedIn[t] ELSE inbox[t][i - 1]

\* Somebody is logged in, and nobody is about to.
AuSession == cache # none /\ \A s \in AuTab : logins[s] = {}

\* A page that is still opening has no calls under way.
AuLoading ==
  \A t \in AuTab :
    /\ status[t] # "ready" =>
         /\ loginStatus[t] = "null" /\ logins[t] = {} /\ waiting[t] = 0
         /\ leaving[t] = 0 /\ refreshing[t] = none
    /\ status[t] = "pending" => inbox[t] = <<>>

\* The listener has nothing left to do.
AuFollowed ==
  \A t \in AuTab : /\ loginStatus[t] = "loggedIn" => loggedIn[t]
                   /\ loginStatus[t] = "notLoggedIn" => ~loggedIn[t]

AuOneLogin == \A s, t \in AuTab : \A u \in logins[s], v \in logins[t] : s = t /\ u = v
AuLoginCache == \A t \in AuTab : \A u \in logins[t] : cache = IF isImplicit THEN u ELSE none
AuViews == \A t \in AuTab : status[t] = "ready" => (AuView(t) <=> AuSession)
AuTokens == \A t \in AuTab : Au!Known(t) /\ loggedIn[t] => token[t] = cache

\* No tab is told twice in a row that the user has logged in.
AuNoTwice ==
  \A t \in AuTab : status[t] = "ready" =>
    \A i \in 1..Len(inbox[t]) : inbox[t][i] => ~AuBefore(t, i)

AuTakes(t) == Au!Known(t) /\ loggedIn[t] /\ fresh[t]
AuOneTakes == \A s, t \in AuTab : AuTakes(s) /\ AuTakes(t) => s = t

AuCore == AuOneLogin /\ AuLoginCache /\ AuViews /\ AuTokens /\ AuNoTwice /\ AuOneTakes
AuSessions == AuLoading /\ AuFollowed /\ (Au!Calm => AuCore)

AuIInv == Au!TypeOK /\ Au!StatusHasCall /\ AuSessions

--------------------
(* Types. *)

\* One more event of kind k.
LEMMA AuCountedType ==
  ASSUME Au!TypeOK, NEW k \in Au!Kind, Au!Counted(k)
  PROVE  /\ count' \in [Au!Kind -> Nat]
         /\ \A j \in Au!Kind : count[j] <= count'[j]
         /\ count'[k] # 0
  BY DEF Au!TypeOK, Au!Counted

LEMMA AuCountBefore ==
  ASSUME Au!TypeOK, NEW k \in Au!Kind, Au!Counted(k), NEW j \in Au!Kind, count'[j] = 0
  PROVE  count[j] = 0
<1>1. count[j] \in Nat  BY DEF Au!TypeOK
<1>2. count[j] <= count'[j]  BY AuCountedType
<1>. QED  BY <1>1, <1>2

\* The inboxes and the listener's variable after an action of tab t.
LEMMA AuFollowType ==
  ASSUME Au!TypeOK, NEW t \in AuTab, NEW ls, Au!Follow(t, ls)
  PROVE  loggedIn' \in [AuTab -> BOOLEAN] /\ inbox' \in [AuTab -> Seq(BOOLEAN)]
<1>1. \A q \in Seq(BOOLEAN), b \in BOOLEAN : Append(q, b) \in Seq(BOOLEAN)
  OBVIOUS
<1>2. (~loggedIn[t]) \in BOOLEAN  OBVIOUS
<1>3. Au!Tell(t, ~loggedIn[t]) \in [AuTab -> Seq(BOOLEAN)]
  BY <1>1, <1>2 DEF Au!TypeOK, Au!Tell
<1>. QED  BY <1>3 DEF Au!TypeOK, Au!Follow

\* Every step keeps the types.
LEMMA AuStepType == Au!TypeOK /\ [Au!Next]_(Au!vars) => Au!TypeOK'
<1>. SUFFICES ASSUME Au!TypeOK, [Au!Next]_(Au!vars) PROVE Au!TypeOK'
  OBVIOUS
<1>. USE DEF Au!LoginStatus
<1>1. CASE UNCHANGED Au!vars  BY <1>1 DEF Au!TypeOK, Au!vars, Au!local, Au!calls
<1>2. ASSUME UNCHANGED isImplicit, NEW t \in AuTab, Au!Step(t) PROVE Au!TypeOK'
  <2>. USE <1>2
  <2>1. CASE Au!StartInit(t)  BY <2>1 DEF Au!TypeOK, Au!StartInit, Au!calls
  <2>2. CASE Au!Opened(t)  BY <2>2 DEF Au!TypeOK, Au!Opened, Au!EndInit, Au!calls
  <2>3. CASE Au!OpenedOffline(t)
    <3>1. count' \in [Au!Kind -> Nat]  BY <2>3, AuCountedType DEF Au!OpenedOffline, Au!Kind
    <3>. QED  BY <2>3, <3>1 DEF Au!TypeOK, Au!OpenedOffline, Au!EndInit, Au!calls
  <2>4. CASE Au!Reload(t)
    <3>1. count' \in [Au!Kind -> Nat]  BY <2>4, AuCountedType DEF Au!Reload, Au!Kind
    <3>2. <<>> \in Seq(BOOLEAN)  OBVIOUS
    <3>. QED  BY <2>4, <3>1, <3>2 DEF Au!TypeOK, Au!Reload
  <2>5. ASSUME NEW u \in Owner, Au!Login(t, u) PROVE Au!TypeOK'
    <3>1. count' \in [Au!Kind -> Nat]  BY <2>5, AuCountedType DEF Au!Login, Au!Kind
    <3>2. loggedIn' \in [AuTab -> BOOLEAN] /\ inbox' \in [AuTab -> Seq(BOOLEAN)]
      BY <2>5, AuFollowType DEF Au!Login, Au!Set
    <3>. QED  BY <2>5, <3>1, <3>2 DEF Au!TypeOK, Au!Login, Au!Set
  <2>6. ASSUME NEW u \in Owner, Au!LoginSuccess(t, u) PROVE Au!TypeOK'
    <3>2. loggedIn' \in [AuTab -> BOOLEAN] /\ inbox' \in [AuTab -> Seq(BOOLEAN)]
      BY <2>6, AuFollowType DEF Au!LoginSuccess, Au!Enter
    <3>. QED  BY <2>6, <3>2 DEF Au!TypeOK, Au!LoginSuccess, Au!Enter
  <2>7. ASSUME NEW u \in Owner, Au!LoginError(t, u) PROVE Au!TypeOK'
    <3>2. loggedIn' \in [AuTab -> BOOLEAN] /\ inbox' \in [AuTab -> Seq(BOOLEAN)]
      BY <2>7, AuFollowType DEF Au!LoginError, Au!Leave
    <3>. QED  BY <2>7, <3>2 DEF Au!TypeOK, Au!LoginError, Au!Leave
  <2>8. ASSUME NEW u \in Owner, Au!OwnerError(t, u) PROVE Au!TypeOK'
    <3>1. count' \in [Au!Kind -> Nat]  BY <2>8, AuCountedType DEF Au!OwnerError, Au!Kind
    <3>. QED  BY <2>8, <3>1 DEF Au!TypeOK, Au!OwnerError, Au!local
  <2>9. CASE Au!Logout(t)
    <3>1. count' \in [Au!Kind -> Nat]  BY <2>9, AuCountedType DEF Au!Logout, Au!Kind
    <3>2. loggedIn' \in [AuTab -> BOOLEAN] /\ inbox' \in [AuTab -> Seq(BOOLEAN)]
      BY <2>9, AuFollowType DEF Au!Logout, Au!Set
    <3>3. waiting' \in [AuTab -> Nat]  BY <2>9 DEF Au!TypeOK, Au!Logout
    <3>. QED  BY <2>9, <3>1, <3>2, <3>3 DEF Au!TypeOK, Au!Logout, Au!Set
  <2>10. CASE Au!CancelLogout(t)
    <3>1. count' \in [Au!Kind -> Nat]  BY <2>10, AuCountedType DEF Au!CancelLogout, Au!Kind
    <3>2. loggedIn' \in [AuTab -> BOOLEAN] /\ inbox' \in [AuTab -> Seq(BOOLEAN)]
      BY <2>10, AuFollowType DEF Au!CancelLogout, Au!Set
    <3>3. waiting' \in [AuTab -> Nat]  BY <2>10 DEF Au!TypeOK, Au!CancelLogout
    <3>. QED  BY <2>10, <3>1, <3>2, <3>3 DEF Au!TypeOK, Au!CancelLogout, Au!Set
  <2>11. CASE Au!HandlersDone(t)
    <3>2. loggedIn' \in [AuTab -> BOOLEAN] /\ inbox' \in [AuTab -> Seq(BOOLEAN)]
      BY <2>11, AuFollowType DEF Au!HandlersDone, Au!Leave, Au!Set
    <3>3. waiting' \in [AuTab -> Nat] /\ leaving' \in [AuTab -> Nat]
      BY <2>11 DEF Au!TypeOK, Au!HandlersDone
    <3>4. CASE isImplicit
      BY <2>11, <3>2, <3>3, <3>4 DEF Au!TypeOK, Au!HandlersDone, Au!Leave
    <3>5. CASE ~isImplicit
      BY <2>11, <3>2, <3>3, <3>5 DEF Au!TypeOK, Au!HandlersDone, Au!Set
    <3>. QED  BY <3>4, <3>5
  <2>12. CASE Au!LoggedOut(t)
    <3>2. loggedIn' \in [AuTab -> BOOLEAN] /\ inbox' \in [AuTab -> Seq(BOOLEAN)]
      BY <2>12, AuFollowType DEF Au!LoggedOut, Au!Leave
    <3>3. leaving' \in [AuTab -> Nat]  BY <2>12 DEF Au!TypeOK, Au!LoggedOut
    <3>. QED  BY <2>12, <3>2, <3>3 DEF Au!TypeOK, Au!LoggedOut, Au!Leave
  <2>13. CASE Au!Refresh(t)
    <3>1. count' \in [Au!Kind -> Nat]  BY <2>13, AuCountedType DEF Au!Refresh, Au!Kind
    <3>. QED  BY <2>13, <3>1 DEF Au!TypeOK, Au!Refresh, Au!local
  <2>14. CASE Au!Refreshed(t)
    <3>1. CASE isImplicit /\ token[t] # refreshing[t]
      BY <2>14, <3>1 DEF Au!TypeOK, Au!Refreshed, Au!local
    <3>2. CASE ~(isImplicit /\ token[t] # refreshing[t])
      <4>1. loggedIn' \in [AuTab -> BOOLEAN] /\ inbox' \in [AuTab -> Seq(BOOLEAN)]
        BY <2>14, <3>2, AuFollowType DEF Au!Refreshed, Au!Enter
      <4>. QED  BY <2>14, <3>2, <4>1 DEF Au!TypeOK, Au!Refreshed, Au!Enter
    <3>. QED  BY <3>1, <3>2
  <2>15. CASE Au!RefreshFailed(t)  BY <2>15 DEF Au!TypeOK, Au!RefreshFailed
  <2>16. CASE Au!RefreshRefused(t)
    <3>2. loggedIn' \in [AuTab -> BOOLEAN] /\ inbox' \in [AuTab -> Seq(BOOLEAN)]
      BY <2>16, AuFollowType DEF Au!RefreshRefused, Au!Leave
    <3>. QED  BY <2>16, <3>2 DEF Au!TypeOK, Au!RefreshRefused, Au!Leave
  <2>17. CASE Au!NoToken(t)
    <3>2. loggedIn' \in [AuTab -> BOOLEAN] /\ inbox' \in [AuTab -> Seq(BOOLEAN)]
      BY <2>17, AuFollowType DEF Au!NoToken, Au!Leave
    <3>. QED  BY <2>17, <3>2 DEF Au!TypeOK, Au!NoToken, Au!Leave, Au!calls
  <2>18. CASE Au!Hear(t)
    <3>1. Head(inbox[t]) \in BOOLEAN /\ Tail(inbox[t]) \in Seq(BOOLEAN)
      BY <2>18 DEF Au!TypeOK, Au!Hear
    <3>2. inbox' \in [AuTab -> Seq(BOOLEAN)]  BY <2>18, <3>1 DEF Au!TypeOK, Au!Hear
    <3>3. CASE Au!Heeds(t)
      <4>1. Au!Sync(t, Head(inbox[t]))  BY <2>18, <3>3 DEF Au!Hear
      <4>2. /\ loggedIn' \in [AuTab -> BOOLEAN] /\ fresh' \in [AuTab -> BOOLEAN]
            /\ loginStatus' \in [AuTab -> Au!LoginStatus] /\ token' \in [AuTab -> Owner \cup {none}]
        BY <3>1, <4>1 DEF Au!TypeOK, Au!Sync
      <4>. QED  BY <2>18, <3>2, <4>2 DEF Au!TypeOK, Au!Hear, Au!calls
    <3>4. CASE ~Au!Heeds(t)  BY <2>18, <3>2, <3>4 DEF Au!TypeOK, Au!Hear, Au!calls
    <3>. QED  BY <3>3, <3>4
  <2>. QED  BY <2>1, <2>2, <2>3, <2>4, <2>5, <2>6, <2>7, <2>8, <2>9, <2>10, <2>11, <2>12,
               <2>13, <2>14, <2>15, <2>16, <2>17, <2>18 DEF Au!Step
<1>. QED  BY <1>1, <1>2 DEF Au!Next

LEMMA AuInitType == Au!Init => Au!TypeOK
<1>. SUFFICES ASSUME Au!Init PROVE Au!TypeOK
  OBVIOUS
<1>1. /\ waiting \in [AuTab -> Nat] /\ leaving \in [AuTab -> Nat]
      /\ count \in [Au!Kind -> Nat]
  BY DEF Au!Init
<1>2. inbox \in [AuTab -> Seq(BOOLEAN)]
  BY DEF Au!Init
<1>3. /\ fresh \in [AuTab -> BOOLEAN] /\ loggedIn \in [AuTab -> BOOLEAN]
      /\ raced \in BOOLEAN /\ isImplicit \in BOOLEAN
  BY DEF Au!Init
<1>4. /\ status \in [AuTab -> {"pending", "initializing", "ready"}]
      /\ loginStatus \in [AuTab -> Au!LoginStatus]
  BY DEF Au!Init, Au!LoginStatus
<1>5. /\ cache \in Owner \cup {none} /\ token \in [AuTab -> Owner \cup {none}]
      /\ logins \in [AuTab -> SUBSET Owner] /\ refreshing \in [AuTab -> Owner \cup {none}]
  BY DEF Au!Init
<1>. QED  BY <1>1, <1>2, <1>3, <1>4, <1>5 DEF Au!TypeOK

--------------------
(* No login status without the call that ends it. *)

LEMMA AuStepHasCall == Au!TypeOK /\ Au!StatusHasCall /\ [Au!Next]_(Au!vars) => Au!StatusHasCall'
<1>. SUFFICES ASSUME Au!TypeOK, Au!StatusHasCall, [Au!Next]_(Au!vars), count'["ownerError"] = 0
              PROVE  Au!StatusHasCall'
  BY DEF Au!StatusHasCall
<1>. USE DEF Au!LoginStatus, Au!Kind
<1>1. CASE UNCHANGED Au!vars  BY <1>1 DEF Au!StatusHasCall, Au!vars, Au!local, Au!calls
<1>2. ASSUME NEW t \in AuTab, Au!Step(t) PROVE Au!StatusHasCall'
  <2>. USE <1>2
  <2>0. count["ownerError"] = 0
    <3>1. ASSUME NEW k \in Au!Kind, Au!Counted(k) PROVE count["ownerError"] = 0
      <4>. HIDE DEF Au!Kind
      <4>1. "ownerError" \in Au!Kind  BY DEF Au!Kind
      <4>. QED  BY <3>1, <4>1, AuCountBefore
    <3>2. CASE UNCHANGED count  BY <3>2
    <3>. QED  BY <3>1, <3>2 DEF Au!Step, Au!StartInit, Au!Opened, Au!OpenedOffline, Au!Reload, Au!Login,
           Au!LoginSuccess, Au!LoginError, Au!OwnerError, Au!Logout, Au!CancelLogout, Au!HandlersDone,
           Au!LoggedOut, Au!Refresh, Au!Refreshed, Au!RefreshFailed, Au!RefreshRefused, Au!NoToken, Au!Hear
  <2>. USE <2>0 DEF Au!StatusHasCall, Au!TypeOK
  <2>1. CASE Au!StartInit(t)  BY <2>1 DEF Au!StartInit, Au!calls
  <2>2. CASE Au!Opened(t) \/ Au!OpenedOffline(t)
    BY <2>2 DEF Au!Opened, Au!OpenedOffline, Au!EndInit, Au!calls
  <2>3. CASE Au!Reload(t)  BY <2>3 DEF Au!Reload
  <2>4. ASSUME NEW u \in Owner, Au!Login(t, u) PROVE Au!StatusHasCall'
    BY <2>4 DEF Au!Login, Au!Set
  <2>5. ASSUME NEW u \in Owner, Au!LoginSuccess(t, u) PROVE Au!StatusHasCall'
    BY <2>5 DEF Au!LoginSuccess, Au!Enter
  <2>6. ASSUME NEW u \in Owner, Au!LoginError(t, u) PROVE Au!StatusHasCall'
    BY <2>6 DEF Au!LoginError, Au!Leave
  <2>7. ASSUME NEW u \in Owner, Au!OwnerError(t, u) PROVE Au!StatusHasCall'
    <3>1. FALSE  BY <2>7, AuCountedType DEF Au!OwnerError
    <3>. QED  BY <3>1
  <2>8. CASE Au!Logout(t)  BY <2>8 DEF Au!Logout, Au!Set
  <2>9. CASE Au!CancelLogout(t)  BY <2>9 DEF Au!CancelLogout, Au!Set
  <2>10. CASE Au!HandlersDone(t)  BY <2>10 DEF Au!HandlersDone, Au!Leave, Au!Set
  <2>11. CASE Au!LoggedOut(t)  BY <2>11 DEF Au!LoggedOut, Au!Leave
  <2>12. CASE Au!Refresh(t)  BY <2>12 DEF Au!Refresh, Au!local
  <2>13. CASE Au!Refreshed(t)  BY <2>13 DEF Au!Refreshed, Au!Enter, Au!local
  <2>14. CASE Au!RefreshFailed(t)  BY <2>14 DEF Au!RefreshFailed
  <2>15. CASE Au!RefreshRefused(t)  BY <2>15 DEF Au!RefreshRefused, Au!Leave
  <2>16. CASE Au!NoToken(t)  BY <2>16 DEF Au!NoToken, Au!Leave, Au!calls
  <2>17. CASE Au!Hear(t)
    <3>1. \/ UNCHANGED loginStatus
          \/ \E b \in {"loggedIn", "notLoggedIn"} :
               loginStatus' = [loginStatus EXCEPT ![t] = b]
      BY <2>17 DEF Au!Hear, Au!Sync
    <3>2. UNCHANGED Au!calls  BY <2>17 DEF Au!Hear
    <3>. QED  BY <3>1, <3>2 DEF Au!calls
  <2>. QED  BY <2>1, <2>2, <2>3, <2>4, <2>5, <2>6, <2>7, <2>8, <2>9, <2>10, <2>11, <2>12,
               <2>13, <2>14, <2>15, <2>16, <2>17 DEF Au!Step
<1>. QED  BY <1>1, <1>2 DEF Au!Next

--------------------
(* Sequences. *)

LEMMA AuAppended ==
  ASSUME NEW q \in Seq(BOOLEAN), NEW b \in BOOLEAN
  PROVE  /\ Append(q, b) # <<>>
         /\ Len(Append(q, b)) = Len(q) + 1
         /\ Append(q, b)[Len(q) + 1] = b
         /\ \A i \in 1..Len(q) : Append(q, b)[i] = q[i]
OBVIOUS

LEMMA AuNotEmpty ==
  ASSUME NEW q \in Seq(BOOLEAN)
  PROVE  Len(q) \in Nat /\ (q = <<>> <=> Len(q) = 0)
OBVIOUS

LEMMA AuTailed ==
  ASSUME NEW q \in Seq(BOOLEAN), q # <<>>
  PROVE  /\ Len(q) \in Nat /\ Len(q) # 0
         /\ Head(q) = q[1]
         /\ Tail(q) \in Seq(BOOLEAN)
         /\ Len(Tail(q)) = Len(q) - 1
         /\ (Tail(q) = <<>>) <=> (Len(q) = 1)
         /\ \A i \in 1..(Len(q) - 1) : Tail(q)[i] = q[i + 1]
<1>1. Len(q) \in Nat /\ Len(q) # 0  BY AuNotEmpty
<1>2. Tail(q) \in Seq(BOOLEAN) /\ Len(Tail(q)) = Len(q) - 1  BY <1>1
<1>3. (Tail(q) = <<>>) <=> (Len(q) = 1)
  <2>1. (Tail(q) = <<>>) <=> (Len(Tail(q)) = 0)  BY <1>2, AuNotEmpty
  <2>2. (Len(Tail(q)) = 0) <=> (Len(q) = 1)  BY <1>1, <1>2
  <2>. QED  BY <2>1, <2>2
<1>4. Head(q) = q[1]  OBVIOUS
<1>5. \A i \in 1..(Len(q) - 1) : Tail(q)[i] = q[i + 1]  BY <1>1, <1>2
<1>. QED  BY <1>1, <1>2, <1>3, <1>4, <1>5

\* Tab t tells the others b.
LEMMA AuTold ==
  ASSUME Au!TypeOK, NEW t \in AuTab, NEW b \in BOOLEAN, UNCHANGED status,
         loggedIn' = [loggedIn EXCEPT ![t] = b], inbox' = Au!Tell(t, b)
  PROVE  /\ AuView(t)' = IF inbox[t] = <<>> THEN b ELSE AuView(t)
         /\ inbox'[t] = inbox[t] /\ loggedIn'[t] = b
         /\ \A s \in AuTab \ {t} :
              /\ loggedIn'[s] = loggedIn[s]
              /\ status[s] = "ready" => /\ inbox'[s] = Append(inbox[s], b)
                                        /\ inbox'[s] # <<>> /\ AuView(s)' = b
              /\ status[s] = "pending" => inbox'[s] = inbox[s]
<1>1. inbox'[t] = inbox[t] /\ loggedIn'[t] = b
  BY DEF Au!Tell, Au!Listening, Au!TypeOK
<1>2. AuView(t)' = IF inbox[t] = <<>> THEN b ELSE AuView(t)
  BY <1>1 DEF AuView
<1>3. ASSUME NEW s \in AuTab \ {t}
      PROVE  /\ loggedIn'[s] = loggedIn[s]
             /\ status[s] = "ready" => /\ inbox'[s] = Append(inbox[s], b)
                                       /\ inbox'[s] # <<>> /\ AuView(s)' = b
             /\ status[s] = "pending" => inbox'[s] = inbox[s]
  <2>1. loggedIn'[s] = loggedIn[s]  BY DEF Au!TypeOK
  <2>2. status[s] = "pending" => inbox'[s] = inbox[s]  BY DEF Au!Tell, Au!Listening
  <2>3. ASSUME status[s] = "ready"
        PROVE  inbox'[s] = Append(inbox[s], b) /\ inbox'[s] # <<>> /\ AuView(s)' = b
    <3>1. inbox'[s] = Append(inbox[s], b)  BY <2>3 DEF Au!Tell, Au!Listening
    <3>2. inbox[s] \in Seq(BOOLEAN)  BY DEF Au!TypeOK
    <3>3. inbox'[s] # <<>> /\ inbox'[s][Len(inbox'[s])] = b
      BY <3>1, <3>2, AuAppended
    <3>. QED  BY <3>1, <3>3 DEF AuView
  <2>. QED  BY <2>1, <2>2, <2>3
<1>. QED  BY <1>1, <1>2, <1>3

--------------------
(* Opening pages and the listener. *)

LEMMA AuFollowKeepsPending ==
  ASSUME Au!TypeOK, NEW t \in AuTab, NEW ls, Au!Follow(t, ls)
  PROVE  \A s \in AuTab : status[s] = "pending" => inbox'[s] = inbox[s]
BY DEF Au!TypeOK, Au!Follow, Au!Tell, Au!Listening

\* After a status that means logged in or not, the listener agrees with it.
LEMMA AuFollowAgrees ==
  ASSUME Au!TypeOK, AuFollowed, NEW t \in AuTab, NEW ls \in Au!LoginStatus, Au!Follow(t, ls),
         loginStatus' = [loginStatus EXCEPT ![t] = ls]
  PROVE  AuFollowed'
<1>1. \A s \in AuTab \ {t} : loginStatus'[s] = loginStatus[s] /\ loggedIn'[s] = loggedIn[s]
  BY DEF Au!TypeOK, Au!Follow
<1>2. loginStatus'[t] = ls  BY DEF Au!TypeOK
<1>3. (ls = "loggedIn" => loggedIn'[t]) /\ (ls = "notLoggedIn" => ~loggedIn'[t])
  BY DEF Au!TypeOK, Au!Follow
<1>. QED  BY <1>1, <1>2, <1>3 DEF AuFollowed

LEMMA AuStepOpening == Au!TypeOK /\ AuLoading /\ AuFollowed /\ [Au!Next]_(Au!vars) => AuLoading' /\ AuFollowed'
<1>. SUFFICES ASSUME Au!TypeOK, AuLoading, AuFollowed, [Au!Next]_(Au!vars) PROVE AuLoading' /\ AuFollowed'
  OBVIOUS
<1>1. CASE UNCHANGED Au!vars  BY <1>1 DEF AuLoading, AuFollowed, Au!vars, Au!local, Au!calls
<1>2. ASSUME NEW t \in AuTab, Au!Step(t) PROVE AuLoading' /\ AuFollowed'
  <2>. USE <1>2
  <2>1. CASE Au!StartInit(t)  BY <2>1 DEF AuLoading, AuFollowed, Au!StartInit, Au!calls, Au!TypeOK
  <2>2. CASE Au!Opened(t) \/ Au!OpenedOffline(t)
    <3>1. PICK b \in BOOLEAN : Au!EndInit(t, b)
      BY <2>2 DEF Au!Opened, Au!OpenedOffline
    <3>2. AuLoading'  BY <3>1 DEF AuLoading, Au!EndInit, Au!calls, Au!TypeOK
    <3>3. AuFollowed'
      <4>1. loggedIn'[t] = b /\ loginStatus'[t] = IF b THEN "loggedIn" ELSE "notLoggedIn"
        BY <3>1 DEF Au!EndInit, Au!TypeOK
      <4>2. \A s \in AuTab \ {t} : loginStatus'[s] = loginStatus[s] /\ loggedIn'[s] = loggedIn[s]
        BY <3>1 DEF Au!EndInit, Au!TypeOK
      <4>. QED  BY <4>1, <4>2 DEF AuFollowed
    <3>. QED  BY <3>2, <3>3
  <2>3. CASE Au!Reload(t)  BY <2>3 DEF AuLoading, AuFollowed, Au!Reload, Au!TypeOK
  <2>4. ASSUME NEW u \in Owner, Au!Login(t, u) PROVE AuLoading' /\ AuFollowed'
    <3>1. AuLoading'
      BY <2>4, AuFollowKeepsPending DEF AuLoading, Au!Login, Au!Set, Au!TypeOK
    <3>2. AuFollowed'  BY <2>4, AuFollowAgrees DEF Au!Login, Au!Set, Au!LoginStatus
    <3>. QED  BY <3>1, <3>2
  <2>5. ASSUME NEW u \in Owner, Au!LoginSuccess(t, u) PROVE AuLoading' /\ AuFollowed'
    <3>1. AuLoading'
      BY <2>5, AuFollowKeepsPending DEF AuLoading, Au!LoginSuccess, Au!Enter, Au!TypeOK
    <3>2. AuFollowed'  BY <2>5, AuFollowAgrees DEF Au!LoginSuccess, Au!Enter, Au!LoginStatus
    <3>. QED  BY <3>1, <3>2
  <2>6. ASSUME NEW u \in Owner, Au!LoginError(t, u) PROVE AuLoading' /\ AuFollowed'
    <3>1. AuLoading'
      BY <2>6, AuFollowKeepsPending DEF AuLoading, Au!LoginError, Au!Leave, Au!TypeOK
    <3>2. AuFollowed'  BY <2>6, AuFollowAgrees DEF Au!LoginError, Au!Leave, Au!LoginStatus
    <3>. QED  BY <3>1, <3>2
  <2>7. ASSUME NEW u \in Owner, Au!OwnerError(t, u) PROVE AuLoading' /\ AuFollowed'
    BY <2>7 DEF AuLoading, AuFollowed, Au!OwnerError, Au!local, Au!TypeOK
  <2>8. CASE Au!Logout(t)
    <3>1. AuLoading'  BY <2>8, AuFollowKeepsPending DEF AuLoading, Au!Logout, Au!Set, Au!TypeOK
    <3>2. AuFollowed'  BY <2>8, AuFollowAgrees DEF Au!Logout, Au!Set, Au!LoginStatus
    <3>. QED  BY <3>1, <3>2
  <2>9. CASE Au!CancelLogout(t)
    <3>1. AuLoading'  BY <2>9, AuFollowKeepsPending DEF AuLoading, Au!CancelLogout, Au!Set, Au!TypeOK
    <3>2. AuFollowed'  BY <2>9, AuFollowAgrees DEF Au!CancelLogout, Au!Set, Au!LoginStatus
    <3>. QED  BY <3>1, <3>2
  <2>10. CASE Au!HandlersDone(t)
    <3>1. AuLoading'
      BY <2>10, AuFollowKeepsPending DEF AuLoading, Au!HandlersDone, Au!Leave, Au!Set, Au!TypeOK
    <3>2. AuFollowed'  BY <2>10, AuFollowAgrees DEF Au!HandlersDone, Au!Leave, Au!Set, Au!LoginStatus
    <3>. QED  BY <3>1, <3>2
  <2>11. CASE Au!LoggedOut(t)
    <3>1. AuLoading'  BY <2>11, AuFollowKeepsPending DEF AuLoading, Au!LoggedOut, Au!Leave, Au!TypeOK
    <3>2. AuFollowed'  BY <2>11, AuFollowAgrees DEF Au!LoggedOut, Au!Leave, Au!LoginStatus
    <3>. QED  BY <3>1, <3>2
  <2>12. CASE Au!Refresh(t)  BY <2>12 DEF AuLoading, AuFollowed, Au!Refresh, Au!local, Au!TypeOK
  <2>13. CASE Au!Refreshed(t) /\ isImplicit /\ token[t] # refreshing[t]
    BY <2>13 DEF AuLoading, AuFollowed, Au!Refreshed, Au!local, Au!TypeOK
  <2>14. CASE Au!Refreshed(t) /\ ~(isImplicit /\ token[t] # refreshing[t])
    <3>1. AuLoading'  BY <2>14, AuFollowKeepsPending DEF AuLoading, Au!Refreshed, Au!Enter, Au!TypeOK
    <3>2. AuFollowed'  BY <2>14, AuFollowAgrees DEF Au!Refreshed, Au!Enter, Au!LoginStatus
    <3>. QED  BY <3>1, <3>2
  <2>15. CASE Au!RefreshFailed(t)  BY <2>15 DEF AuLoading, AuFollowed, Au!RefreshFailed, Au!TypeOK
  <2>16. CASE Au!RefreshRefused(t)
    <3>1. AuLoading'  BY <2>16, AuFollowKeepsPending DEF AuLoading, Au!RefreshRefused, Au!Leave, Au!TypeOK
    <3>2. AuFollowed'  BY <2>16, AuFollowAgrees DEF Au!RefreshRefused, Au!Leave, Au!LoginStatus
    <3>. QED  BY <3>1, <3>2
  <2>17. CASE Au!NoToken(t)
    <3>1. AuLoading'  BY <2>17, AuFollowKeepsPending DEF AuLoading, Au!NoToken, Au!Leave, Au!calls, Au!TypeOK
    <3>2. AuFollowed'  BY <2>17, AuFollowAgrees DEF Au!NoToken, Au!Leave, Au!LoginStatus
    <3>. QED  BY <3>1, <3>2
  <2>18. CASE Au!Hear(t)
    <3>1. AuLoading'  BY <2>18 DEF AuLoading, Au!Hear, Au!Heeds, Au!Sync, Au!calls, Au!TypeOK
    <3>2. Head(inbox[t]) \in BOOLEAN  BY <2>18 DEF Au!Hear, Au!TypeOK
    <3>3. AuFollowed'
      <4>1. CASE ~Au!Heeds(t)  BY <2>18, <4>1 DEF AuFollowed, Au!Hear
      <4>2. CASE Au!Heeds(t)
        <5>1. /\ loggedIn'[t] = Head(inbox[t])
              /\ loginStatus'[t] = IF Head(inbox[t]) THEN "loggedIn" ELSE "notLoggedIn"
          BY <2>18, <4>2 DEF Au!Hear, Au!Sync, Au!TypeOK
        <5>2. \A s \in AuTab \ {t} : loginStatus'[s] = loginStatus[s] /\ loggedIn'[s] = loggedIn[s]
          BY <2>18, <4>2 DEF Au!Hear, Au!Sync, Au!TypeOK
        <5>. QED  BY <3>2, <5>1, <5>2 DEF AuFollowed
      <4>. QED  BY <4>1, <4>2
    <3>. QED  BY <3>1, <3>3
  <2>. QED  BY <2>1, <2>2, <2>3, <2>4, <2>5, <2>6, <2>7, <2>8, <2>9, <2>10, <2>11, <2>12,
               <2>13, <2>14, <2>15, <2>16, <2>17, <2>18 DEF Au!Step
<1>. QED  BY <1>1, <1>2 DEF Au!Next

--------------------
(* One step while nothing overlaps. *)

\* Calm cannot come back.
LEMMA AuCalmBefore == Au!TypeOK /\ [Au!Next]_(Au!vars) /\ Au!Calm' => Au!Calm
<1>. SUFFICES ASSUME Au!TypeOK, [Au!Next]_(Au!vars), Au!Calm' PROVE Au!Calm
  OBVIOUS
<1>1. CASE UNCHANGED Au!vars
  <2>1. raced' = raced /\ count' = count  BY <1>1 DEF Au!vars
  <2>. QED  BY <2>1 DEF Au!Calm
<1>2. ASSUME NEW t \in AuTab, Au!Step(t) PROVE Au!Calm
  <2>1. ~raced
    BY <1>2 DEF Au!Calm, Au!TypeOK, Au!Step, Au!StartInit, Au!Opened, Au!OpenedOffline, Au!EndInit, Au!Reload,
       Au!Login, Au!LoginSuccess, Au!LoginError, Au!OwnerError, Au!Logout, Au!CancelLogout, Au!HandlersDone,
       Au!LoggedOut, Au!Refresh, Au!Refreshed, Au!RefreshFailed, Au!RefreshRefused, Au!NoToken, Au!Hear
  <2>2. ASSUME NEW k \in Au!Kind, Au!Counted(k) PROVE count["offline"] = 0
    <3>1. "offline" \in Au!Kind /\ count'["offline"] = 0  BY DEF Au!Kind, Au!Calm
    <3>. QED  BY <2>2, <3>1, AuCountBefore
  <2>3. UNCHANGED count => count["offline"] = 0  BY DEF Au!Calm
  <2>. QED
    BY <1>2, <2>1, <2>2, <2>3 DEF Au!Calm, Au!Kind, Au!Step, Au!StartInit, Au!Opened, Au!OpenedOffline, Au!Reload,
       Au!Login, Au!LoginSuccess, Au!LoginError, Au!OwnerError, Au!Logout, Au!CancelLogout, Au!HandlersDone,
       Au!LoggedOut, Au!Refresh, Au!Refreshed, Au!RefreshFailed, Au!RefreshRefused, Au!NoToken, Au!Hear
<1>. QED  BY <1>1, <1>2 DEF Au!Next

\* What an overlap-free action of tab t may rely on.
LEMMA AuAlone ==
  ASSUME Au!TypeOK, AuCore, NEW t \in AuTab, NEW own, ~Au!Overlap(t, own)
  PROVE  /\ inbox[t] = <<>>
         /\ \A s \in AuTab : logins[s] \subseteq own
         /\ \A s \in AuTab \ {t} : logins[s] = {}
BY DEF Au!Overlap, Au!TypeOK

\* The user is out, and tab t tells the others unless it knew already.
LEMMA AuLeaveCore ==
  ASSUME Au!TypeOK, AuCore, NEW t \in AuTab, status[t] = "ready", Au!Leave(t),
         cache' = none, inbox[t] = <<>> \/ ~AuSession
  PROVE  AuViews' /\ AuTokens' /\ AuNoTwice' /\ AuOneTakes'
<1>1. ~AuSession'  BY DEF AuSession
<1>. DEFINE Out(s) == status[s] = "ready" => AuView(s)' = FALSE
            Once(s) == status[s] = "ready" =>
                         \A i \in 1..Len(inbox'[s]) : inbox'[s][i] => ~AuBefore(s, i)'
<1>2. CASE loggedIn[t]
  <2>1. loggedIn' = [loggedIn EXCEPT ![t] = FALSE] /\ inbox' = Au!Tell(t, FALSE)
    BY <1>2 DEF Au!Leave, Au!Follow, Au!TypeOK
  <2>2. UNCHANGED status  BY DEF Au!Leave
  <2>3. /\ AuView(t)' = IF inbox[t] = <<>> THEN FALSE ELSE AuView(t)
        /\ inbox'[t] = inbox[t] /\ loggedIn'[t] = FALSE
        /\ \A s \in AuTab \ {t} :
             /\ loggedIn'[s] = loggedIn[s]
             /\ status[s] = "ready" => /\ inbox'[s] = Append(inbox[s], FALSE)
                                       /\ inbox'[s] # <<>> /\ AuView(s)' = FALSE
    BY <2>1, <2>2, AuTold
  <2>4. Out(t)
    <3>1. CASE inbox[t] = <<>>  BY <2>3, <3>1
    <3>2. CASE inbox[t] # <<>>
      <4>1. ~AuView(t)  BY <3>2 DEF AuCore, AuViews
      <4>2. AuView(t) \in BOOLEAN  BY AuNotEmpty DEF AuView, Au!TypeOK
      <4>. QED  BY <2>3, <3>2, <4>1, <4>2
    <3>. QED  BY <3>1, <3>2
  <2>5. Once(t)
    BY <2>3 DEF AuCore, AuNoTwice, AuBefore, Au!TypeOK
  <2>6. ASSUME NEW s \in AuTab \ {t} PROVE Once(s)
    <3>. SUFFICES ASSUME status[s] = "ready", NEW i \in 1..Len(inbox'[s]), inbox'[s][i]
                  PROVE  ~AuBefore(s, i)'
      OBVIOUS
    <3>1. inbox[s] \in Seq(BOOLEAN) /\ Len(inbox[s]) \in Nat  BY AuNotEmpty DEF Au!TypeOK
    <3>2. inbox'[s] = Append(inbox[s], FALSE)  BY <2>3
    <3>3. i \in 1..Len(inbox[s]) /\ inbox[s][i]  BY <3>1, <3>2, AuAppended
    <3>4. ~AuBefore(s, i)  BY <3>3 DEF AuCore, AuNoTwice
    <3>5. ASSUME i # 1 PROVE inbox'[s][i - 1] = inbox[s][i - 1]
      <4>1. i - 1 \in 1..Len(inbox[s])  BY <3>1, <3>3, <3>5
      <4>2. \A j \in 1..Len(inbox[s]) : Append(inbox[s], FALSE)[j] = inbox[s][j]
        BY <3>1, AuAppended
      <4>. QED  BY <3>2, <4>1, <4>2
    <3>. QED  BY <2>3, <3>4, <3>5 DEF AuBefore
  <2>. QED  BY <2>2, <2>3, <2>4, <2>5, <2>6 DEF AuViews, AuNoTwice, AuTokens, AuOneTakes, AuTakes, Au!Known, AuView, AuSession
<1>3. CASE ~loggedIn[t]
  <2>1. UNCHANGED <<loggedIn, inbox, status>>
    BY <1>3 DEF Au!Leave, Au!Follow, Au!TypeOK
  <2>2. ~AuSession
    <3>1. CASE inbox[t] = <<>>  BY <1>3, <3>1 DEF AuCore, AuViews, AuView
    <3>. QED  BY <3>1
  <2>3. \A s \in AuTab : status[s] = "ready" => ~AuView(s)  BY <2>2 DEF AuCore, AuViews
  <2>. QED  BY <1>1, <2>1, <2>3 DEF AuCore, AuViews, AuNoTwice, AuTokens, AuOneTakes, AuTakes, Au!Known, AuView, AuBefore
<1>. QED  BY <1>2, <1>3

\* An action that leaves the session alone.
LEMMA AuFrameCore ==
  ASSUME AuCore, UNCHANGED <<isImplicit, cache, status, loggedIn, inbox, token, logins>>,
         \A s \in AuTab : fresh'[s] => fresh[s]
  PROVE  AuCore'
<1>1. AuOneLogin' /\ AuLoginCache'  BY DEF AuCore, AuOneLogin, AuLoginCache
<1>2. AuViews' /\ AuTokens'  BY DEF AuCore, AuViews, AuView, AuSession, AuTokens, Au!Known
<1>3. AuNoTwice' /\ AuOneTakes'
  BY DEF AuCore, AuNoTwice, AuBefore, AuOneTakes, AuTakes, Au!Known
<1>. QED  BY <1>1, <1>2, <1>3 DEF AuCore

\* A login ends.
LEMMA AuLoginSuccessCore ==
  ASSUME AuBounds, Au!TypeOK, AuLoading, AuCore, UNCHANGED isImplicit,
         NEW t \in AuTab, NEW u \in Owner, Au!LoginSuccess(t, u), ~raced'
  PROVE  AuCore'
<1>1. /\ inbox[t] = <<>>
      /\ \A s \in AuTab : logins'[s] = {}
  <2>1. ~Au!Overlap(t, {u})  BY DEF Au!LoginSuccess
  <2>. QED  BY <2>1, AuAlone DEF Au!LoginSuccess, Au!TypeOK
<1>2. u \in logins[t] /\ status[t] = "ready"  BY DEF Au!LoginSuccess, AuLoading, Au!TypeOK
<1>3. ~AuSession  BY <1>2 DEF AuSession
<1>4. \A s \in AuTab : status[s] = "ready" => ~AuView(s)  BY <1>3 DEF AuCore, AuViews
<1>5. ~loggedIn[t]  BY <1>1, <1>2, <1>4 DEF AuView
<1>6. /\ loggedIn' = [loggedIn EXCEPT ![t] = TRUE]
      /\ inbox' = Au!Tell(t, TRUE)
      /\ UNCHANGED status
  BY <1>5 DEF Au!LoginSuccess, Au!Enter, Au!Follow, Au!TypeOK
<1>7. /\ AuView(t)' = TRUE
      /\ inbox'[t] = <<>> /\ loggedIn'[t] = TRUE
      /\ \A s \in AuTab \ {t} :
           /\ loggedIn'[s] = loggedIn[s]
           /\ status[s] = "ready" => /\ inbox'[s] = Append(inbox[s], TRUE)
                                     /\ inbox'[s] # <<>> /\ AuView(s)' = TRUE
  BY <1>1, <1>6, AuTold
<1>8. AuSession'  BY <1>1 DEF AuBounds, AuSession, Au!LoginSuccess
<1>9. AuViews'  BY <1>6, <1>7, <1>8 DEF AuViews
<1>10. token'[t] = cache'  BY DEF Au!LoginSuccess, Au!Enter, Au!TypeOK
<1>11. AuTokens' /\ AuOneTakes'
  BY <1>6, <1>7, <1>10 DEF AuTokens, AuOneTakes, AuTakes, Au!Known
<1>12. AuNoTwice'
  <2>0. \A i \in 1..Len(inbox'[t]) : FALSE  BY <1>7
  <2>. SUFFICES ASSUME NEW s \in AuTab \ {t}, status[s] = "ready",
                       NEW i \in 1..Len(inbox'[s]), inbox'[s][i]
                PROVE  ~AuBefore(s, i)'
    BY <1>6, <2>0 DEF AuNoTwice
  <2>1. inbox[s] \in Seq(BOOLEAN) /\ Len(inbox[s]) \in Nat  BY AuNotEmpty DEF Au!TypeOK
  <2>2. inbox'[s] = Append(inbox[s], TRUE)  BY <1>7
  <2>3. Len(inbox'[s]) = Len(inbox[s]) + 1  BY <2>1, <2>2, AuAppended
  <2>4. ASSUME i # 1 PROVE inbox'[s][i - 1] = inbox[s][i - 1]
    <3>1. i - 1 \in 1..Len(inbox[s])  BY <2>1, <2>3, <2>4
    <3>2. \A j \in 1..Len(inbox[s]) : Append(inbox[s], TRUE)[j] = inbox[s][j]
      BY <2>1, AuAppended
    <3>. QED  BY <2>2, <3>1, <3>2
  <2>5. ~AuBefore(s, i)
    <3>1. CASE i = Len(inbox[s]) + 1
      <4>1. ~AuView(s)  BY <1>4
      <4>2. CASE inbox[s] = <<>>  BY <3>1, <4>1, <4>2 DEF AuView, AuBefore
      <4>3. CASE inbox[s] # <<>>
        <5>1. i # 1 /\ i - 1 = Len(inbox[s])  BY <2>1, <3>1, <4>3, AuNotEmpty
        <5>. QED  BY <4>1, <4>3, <5>1 DEF AuView, AuBefore
      <4>. QED  BY <4>2, <4>3
    <3>2. CASE i # Len(inbox[s]) + 1
      <4>1. i \in 1..Len(inbox[s])  BY <2>1, <2>3, <3>2
      <4>2. inbox[s][i]  BY <2>1, <2>2, <4>1, AuAppended
      <4>. QED  BY <4>1, <4>2 DEF AuCore, AuNoTwice
    <3>. QED  BY <3>1, <3>2
  <2>. QED  BY <1>7, <2>4, <2>5 DEF AuBefore
<1>13. AuOneLogin' /\ AuLoginCache'  BY <1>1 DEF AuOneLogin, AuLoginCache
<1>. QED  BY <1>9, <1>11, <1>12, <1>13 DEF AuCore

\* A tab reads an event.
LEMMA AuHearCore ==
  ASSUME Au!TypeOK, AuLoading, AuCore, UNCHANGED isImplicit, NEW t \in AuTab, Au!Hear(t)
  PROVE  AuCore'
<1>1. UNCHANGED <<cache, status, logins>>  BY DEF Au!Hear, Au!calls
<1>2. AuOneLogin' /\ AuLoginCache'  BY <1>1 DEF AuCore, AuOneLogin, AuLoginCache
<1>3. AuSession' <=> AuSession  BY <1>1 DEF AuSession
<1>4. /\ inbox[t] \in Seq(BOOLEAN) /\ inbox[t] # <<>>
      /\ inbox'[t] = Tail(inbox[t]) /\ Head(inbox[t]) = inbox[t][1]
      /\ Len(inbox[t]) \in Nat /\ Len(inbox[t]) # 0
      /\ Len(inbox'[t]) = Len(inbox[t]) - 1
      /\ (inbox'[t] = <<>>) <=> (Len(inbox[t]) = 1)
      /\ \A i \in 1..(Len(inbox[t]) - 1) : inbox'[t][i] = inbox[t][i + 1]
  BY AuTailed DEF Au!Hear, Au!TypeOK
<1>5. inbox[t][1] \in BOOLEAN  BY <1>4
<1>6. \A s \in AuTab \ {t} : /\ inbox'[s] = inbox[s] /\ loggedIn'[s] = loggedIn[s]
                             /\ token'[s] = token[s] /\ fresh'[s] = fresh[s]
  BY DEF Au!Hear, Au!Sync, Au!TypeOK
<1>7. CASE status[t] # "ready"
  <2>1. status'[t] # "ready"  BY <1>1, <1>7
  <2>. QED
    BY <1>1, <1>2, <1>3, <1>6, <2>1
       DEF AuCore, AuViews, AuView, AuTokens, AuNoTwice, AuBefore, AuOneTakes, AuTakes, Au!Known
<1>8. CASE status[t] = "ready"
  <2>1. loggedIn'[t] = inbox[t][1]
    BY <1>4, <1>5, <1>8 DEF Au!Hear, Au!Heeds, Au!Sync, Au!TypeOK
  <2>2. AuView(t)' = AuView(t)
    <3>1. CASE Len(inbox[t]) = 1  BY <1>4, <2>1, <3>1 DEF AuView
    <3>2. CASE Len(inbox[t]) # 1
      <4>1. Len(inbox[t]) - 1 \in 1..(Len(inbox[t]) - 1)  BY <1>4, <3>2
      <4>2. inbox'[t][Len(inbox'[t])] = inbox[t][Len(inbox[t])]  BY <1>4, <4>1
      <4>. QED  BY <1>4, <3>2, <4>2 DEF AuView
    <3>. QED  BY <3>1, <3>2
  <2>3. \A s \in AuTab \ {t} : AuView(s)' = AuView(s)  BY <1>6 DEF AuView
  <2>4. AuViews'  BY <1>1, <1>3, <2>2, <2>3 DEF AuCore, AuViews
  <2>5. ASSUME inbox'[t] = <<>>, loggedIn'[t]
        PROVE  token'[t] = cache' /\ ~fresh'[t]
    <3>1. inbox[t][1]  BY <2>1, <2>5
    <3>2. ~loggedIn[t]
      <4>1. 1 \in 1..Len(inbox[t])  BY <1>4
      <4>2. ~AuBefore(t, 1)  BY <1>8, <3>1, <4>1 DEF AuCore, AuNoTwice
      <4>. QED  BY <4>2 DEF AuBefore
    <3>3. Au!Heeds(t)  BY <1>4, <1>8, <3>1, <3>2 DEF Au!Heeds
    <3>. QED  BY <1>1, <1>4, <3>1, <3>3 DEF Au!Hear, Au!Sync, Au!TypeOK
  <2>6. AuTokens' /\ AuOneTakes'
    BY <1>1, <1>6, <2>5 DEF AuCore, AuTokens, AuOneTakes, AuTakes, Au!Known
  <2>7. AuNoTwice'
    <3>. SUFFICES ASSUME NEW i \in 1..Len(inbox'[t]), inbox'[t][i] PROVE ~AuBefore(t, i)'
      BY <1>1, <1>6 DEF AuCore, AuNoTwice, AuBefore
    <3>1. i + 1 \in 1..Len(inbox[t]) /\ inbox[t][i + 1]  BY <1>4
    <3>2. ~AuBefore(t, i + 1)  BY <1>8, <3>1 DEF AuCore, AuNoTwice
    <3>3. ~inbox[t][i]
      <4>1. i + 1 # 1 /\ (i + 1) - 1 = i  OBVIOUS
      <4>. QED  BY <3>2, <4>1 DEF AuBefore
    <3>4. CASE i = 1  BY <2>1, <3>3, <3>4 DEF AuBefore
    <3>5. CASE i # 1
      <4>1. i - 1 \in 1..(Len(inbox[t]) - 1) /\ (i - 1) + 1 = i  BY <1>4, <3>5
      <4>2. inbox'[t][i - 1] = inbox[t][i]  BY <1>4, <4>1
      <4>. QED  BY <3>3, <3>5, <4>2 DEF AuBefore
    <3>. QED  BY <3>4, <3>5
  <2>. QED  BY <1>2, <2>4, <2>6, <2>7 DEF AuCore
<1>. QED  BY <1>7, <1>8

\* Tab t logs the user out while nobody logs in.
LEMMA AuOutCore ==
  ASSUME Au!TypeOK, AuCore, NEW t \in AuTab, status[t] = "ready", Au!Leave(t),
         ~Au!Overlap(t, {}), cache' = none, UNCHANGED <<isImplicit, logins>>
  PROVE  AuCore'
<1>1. inbox[t] = <<>> /\ \A s \in AuTab : logins[s] = {}
  BY AuAlone DEF Au!TypeOK
<1>2. AuViews' /\ AuTokens' /\ AuNoTwice' /\ AuOneTakes'  BY <1>1, AuLeaveCore
<1>3. AuOneLogin' /\ AuLoginCache'  BY <1>1 DEF AuOneLogin, AuLoginCache
<1>. QED  BY <1>2, <1>3 DEF AuCore

LEMMA AuLoginErrorCore ==
  ASSUME Au!TypeOK, AuLoading, AuCore, UNCHANGED isImplicit,
         NEW t \in AuTab, NEW u \in Owner, Au!LoginError(t, u)
  PROVE  AuCore'
<1>1. u \in logins[t] /\ status[t] = "ready"  BY DEF Au!LoginError, AuLoading, Au!TypeOK
<1>2. ~AuSession  BY <1>1 DEF AuSession
<1>3. AuViews' /\ AuTokens' /\ AuNoTwice' /\ AuOneTakes'
  BY <1>1, <1>2, AuLeaveCore DEF Au!LoginError
<1>4. \A s \in AuTab : logins'[s] = {}
  <2>1. \A s \in AuTab : \A v \in logins[s] : s = t /\ v = u
    BY <1>1 DEF AuCore, AuOneLogin
  <2>. QED  BY <2>1 DEF Au!LoginError, Au!TypeOK
<1>. QED  BY <1>3, <1>4 DEF AuCore, AuOneLogin, AuLoginCache

LEMMA AuLoginCore ==
  ASSUME Au!TypeOK, AuLoading, AuFollowed, AuCore, UNCHANGED isImplicit,
         NEW t \in AuTab, NEW u \in Owner, Au!Login(t, u), ~raced'
  PROVE  AuCore'
<1>1. /\ inbox[t] = <<>>
      /\ \A s \in AuTab : logins[s] = {}
  <2>1. ~Au!Overlap(t, {})  BY DEF Au!Login
  <2>. QED  BY <2>1, AuAlone DEF Au!TypeOK
<1>2. status[t] = "ready" /\ ~loggedIn[t]  BY DEF Au!Login, AuLoading, AuFollowed
<1>3. ~AuSession  BY <1>1, <1>2 DEF AuCore, AuViews, AuView
<1>4. cache = none  BY <1>1, <1>3 DEF AuSession
<1>5. UNCHANGED <<status, loggedIn, inbox, token>>
  BY DEF Au!Login, Au!Set, Au!Follow
<1>6. u \in logins'[t]  BY DEF Au!Login, Au!TypeOK
<1>7. ~AuSession'  BY <1>6 DEF AuSession
<1>8. AuViews'  BY <1>3, <1>5, <1>7 DEF AuCore, AuViews, AuView
<1>9. \A s \in AuTab : Au!Known(s) => ~loggedIn[s]
  BY <1>3 DEF AuCore, AuViews, AuView, Au!Known
<1>10. AuTokens' /\ AuOneTakes'
  BY <1>5, <1>9 DEF AuTokens, AuOneTakes, AuTakes, Au!Known
<1>11. AuNoTwice'  BY <1>5 DEF AuCore, AuNoTwice, AuBefore
<1>12. \A s \in AuTab : logins'[s] = IF s = t THEN {u} ELSE {}
  BY <1>1 DEF Au!Login, Au!TypeOK
<1>13. AuOneLogin' /\ AuLoginCache'
  BY <1>4, <1>12 DEF AuOneLogin, AuLoginCache, Au!Login
<1>. QED  BY <1>8, <1>10, <1>11, <1>13 DEF AuCore

LEMMA AuRefreshedCore ==
  ASSUME Au!TypeOK, AuLoading, AuCore, UNCHANGED isImplicit, NEW t \in AuTab, Au!Refreshed(t), ~raced'
  PROVE  AuCore'
<1>1. CASE isImplicit /\ token[t] # refreshing[t]
  BY <1>1, AuFrameCore DEF Au!Refreshed, Au!local
<1>2. CASE ~(isImplicit /\ token[t] # refreshing[t])
  <2>1. /\ cache' = refreshing[t] /\ cache = refreshing[t] /\ refreshing[t] # none
        /\ Au!Enter(t, refreshing[t]) /\ ~Au!Overlap(t, {}) /\ UNCHANGED logins
    BY <1>2 DEF Au!Refreshed
  <2>2. inbox[t] = <<>> /\ AuSession
    BY <2>1, AuAlone DEF AuSession, Au!TypeOK
  <2>3. status[t] = "ready"  BY <2>1 DEF AuLoading
  <2>4. loggedIn[t]  BY <2>2, <2>3 DEF AuCore, AuViews, AuView
  <2>5. UNCHANGED <<cache, status, loggedIn, inbox, fresh>>
    BY <2>1, <2>4 DEF Au!Enter, Au!Follow
  <2>6. token' = [token EXCEPT ![t] = cache]  BY <2>1 DEF Au!Enter
  <2>7. AuTokens'  BY <2>5, <2>6 DEF AuCore, AuTokens, Au!Known, Au!TypeOK
  <2>8. AuOneLogin' /\ AuLoginCache'  BY <2>1, <2>5 DEF AuCore, AuOneLogin, AuLoginCache
  <2>9. AuViews' /\ AuNoTwice' /\ AuOneTakes'
    BY <2>1, <2>5 DEF AuCore, AuViews, AuView, AuSession, AuNoTwice, AuBefore, AuOneTakes, AuTakes, Au!Known
  <2>. QED  BY <2>7, <2>8, <2>9 DEF AuCore
<1>. QED  BY <1>1, <1>2

LEMMA AuOpenedCore ==
  ASSUME Au!TypeOK, AuCore, UNCHANGED isImplicit, NEW t \in AuTab, Au!Opened(t), ~raced'
  PROVE  AuCore'
<1>1. /\ inbox[t] = <<>>
      /\ \A s \in AuTab : logins[s] = {}
  <2>1. ~Au!Overlap(t, {})  BY DEF Au!Opened, Au!EndInit
  <2>. QED  BY <2>1, AuAlone DEF Au!TypeOK
<1>2. UNCHANGED <<cache, inbox, logins>>  BY DEF Au!Opened, Au!EndInit, Au!calls
<1>3. AuSession' <=> cache # none  BY <1>1, <1>2 DEF AuSession
<1>4. /\ loggedIn'[t] = (cache # none) /\ ~fresh'[t]
      /\ cache # none => token'[t] = cache
  BY DEF Au!Opened, Au!EndInit, Au!TypeOK
<1>5. \A s \in AuTab \ {t} :
        /\ loggedIn'[s] = loggedIn[s] /\ status'[s] = status[s]
        /\ token'[s] = token[s] /\ fresh'[s] = fresh[s]
  BY DEF Au!Opened, Au!EndInit, Au!TypeOK
<1>6. AuSession' <=> AuSession  BY <1>2 DEF AuSession
<1>7. AuViews'
  <2>1. AuView(t)' <=> AuSession'  BY <1>1, <1>2, <1>3, <1>4 DEF AuView
  <2>2. \A s \in AuTab \ {t} : AuView(s)' = AuView(s)  BY <1>2, <1>5 DEF AuView
  <2>. QED  BY <1>5, <1>6, <2>1, <2>2 DEF AuCore, AuViews
<1>8. AuTokens' /\ AuOneTakes'
  <2>1. AuTokens'  BY <1>2, <1>4, <1>5 DEF AuCore, AuTokens, Au!Known
  <2>2. AuOneTakes'  BY <1>2, <1>4, <1>5 DEF AuCore, AuOneTakes, AuTakes, Au!Known
  <2>. QED  BY <2>1, <2>2
<1>9. AuNoTwice'
  <2>1. \A i \in 1..Len(inbox'[t]) : FALSE  BY <1>1, <1>2
  <2>. QED  BY <1>2, <1>5, <2>1 DEF AuCore, AuNoTwice, AuBefore
<1>10. AuOneLogin' /\ AuLoginCache'  BY <1>2 DEF AuCore, AuOneLogin, AuLoginCache
<1>. QED  BY <1>7, <1>8, <1>9, <1>10 DEF AuCore

LEMMA AuReloadCore ==
  ASSUME Au!TypeOK, AuCore, UNCHANGED isImplicit, NEW t \in AuTab, Au!Reload(t), ~raced'
  PROVE  AuCore'
<1>1. UNCHANGED cache /\ status'[t] = "pending"  BY DEF Au!Reload, Au!TypeOK
<1>2. \A s \in AuTab \ {t} :
        /\ loggedIn'[s] = loggedIn[s] /\ status'[s] = status[s] /\ inbox'[s] = inbox[s]
        /\ token'[s] = token[s] /\ fresh'[s] = fresh[s] /\ logins'[s] = logins[s]
  BY DEF Au!Reload, Au!TypeOK
<1>3. logins'[t] = {}  BY DEF Au!Reload, Au!TypeOK
<1>4. AuSession' <=> AuSession
  <2>1. CASE logins[t] = {}  BY <1>1, <1>2, <1>3, <2>1 DEF AuSession
  <2>2. CASE logins[t] # {}
    <3>1. ~isImplicit  BY <2>2 DEF Au!Reload
    <3>2. cache = none  BY <2>2, <3>1 DEF AuCore, AuLoginCache
    <3>. QED  BY <1>1, <3>2 DEF AuSession
  <2>. QED  BY <2>1, <2>2
<1>5. AuViews'  BY <1>1, <1>2, <1>4 DEF AuCore, AuViews, AuView
<1>6. AuTokens' /\ AuOneTakes'
  BY <1>1, <1>2 DEF AuCore, AuTokens, AuOneTakes, AuTakes, Au!Known
<1>7. AuNoTwice'  BY <1>1, <1>2 DEF AuCore, AuNoTwice, AuBefore
<1>8. AuOneLogin' /\ AuLoginCache'  BY <1>1, <1>2, <1>3 DEF AuCore, AuOneLogin, AuLoginCache
<1>. QED  BY <1>5, <1>6, <1>7, <1>8 DEF AuCore

LEMMA AuStepCore == ASSUME AuBounds PROVE Au!TypeOK /\ AuSessions /\ [Au!Next]_(Au!vars) => AuSessions'
<1>. SUFFICES ASSUME Au!TypeOK, AuSessions, [Au!Next]_(Au!vars), Au!Calm' PROVE AuCore'
  BY AuStepOpening DEF AuSessions
<1>0. AuLoading /\ AuFollowed /\ AuCore  BY AuCalmBefore DEF AuSessions
<1>. USE <1>0
<1>00. ~raced' /\ count'["offline"] = 0  BY DEF Au!Calm
<1>1. CASE UNCHANGED Au!vars
  BY <1>1, AuFrameCore DEF Au!vars, Au!local, Au!calls
<1>2. ASSUME UNCHANGED isImplicit, NEW t \in AuTab, Au!Step(t) PROVE AuCore'
  <2>. USE <1>2, <1>00
  <2>1. CASE Au!StartInit(t)
    <3>1. /\ \A s \in AuTab \ {t} : status'[s] = status[s]
          /\ status'[t] = "initializing"
          /\ UNCHANGED <<cache, loggedIn, inbox, token, fresh, logins>>
      BY <2>1 DEF Au!StartInit, Au!calls, Au!TypeOK
    <3>. QED  BY <3>1 DEF AuCore, AuOneLogin, AuLoginCache, AuViews, AuView, AuSession, AuTokens,
                          AuNoTwice, AuBefore, AuOneTakes, AuTakes, Au!Known
  <2>2. CASE Au!Opened(t)  BY <2>2, AuOpenedCore
  <2>3. CASE Au!OpenedOffline(t)
    <3>1. FALSE  BY <2>3, AuCountedType DEF Au!OpenedOffline, Au!Kind
    <3>. QED  BY <3>1
  <2>4. CASE Au!Reload(t)  BY <2>4, AuReloadCore
  <2>5. ASSUME NEW u \in Owner, Au!Login(t, u) PROVE AuCore'
    BY <2>5, AuLoginCore
  <2>6. ASSUME NEW u \in Owner, Au!LoginSuccess(t, u) PROVE AuCore'
    BY <2>6, AuLoginSuccessCore
  <2>7. ASSUME NEW u \in Owner, Au!LoginError(t, u) PROVE AuCore'
    BY <2>7, AuLoginErrorCore
  <2>8. ASSUME NEW u \in Owner, Au!OwnerError(t, u) PROVE AuCore'
    BY <2>8 DEF Au!OwnerError
  <2>9. CASE Au!Logout(t)  BY <2>9, AuFrameCore DEF Au!Logout, Au!Set, Au!Follow
  <2>10. CASE Au!CancelLogout(t)
    BY <2>10, AuFrameCore DEF Au!CancelLogout, Au!Set, Au!Follow
  <2>11. CASE Au!HandlersDone(t) /\ ~isImplicit
    BY <2>11, AuFrameCore DEF Au!HandlersDone, Au!Set, Au!Follow
  <2>12. CASE Au!HandlersDone(t) /\ isImplicit
    <3>1. status[t] = "ready"  BY <2>12 DEF Au!HandlersDone, AuLoading, Au!TypeOK
    <3>. QED  BY <2>12, <3>1, AuOutCore DEF Au!HandlersDone
  <2>13. CASE Au!LoggedOut(t)
    <3>1. status[t] = "ready"  BY <2>13 DEF Au!LoggedOut, AuLoading, Au!TypeOK
    <3>. QED  BY <2>13, <3>1, AuOutCore DEF Au!LoggedOut
  <2>14. CASE Au!Refresh(t)  BY <2>14, AuFrameCore DEF Au!Refresh, Au!local
  <2>15. CASE Au!Refreshed(t)  BY <2>15, AuRefreshedCore
  <2>16. CASE Au!RefreshFailed(t)
    <3>1. \A s \in AuTab : fresh'[s] => fresh[s]  BY <2>16 DEF Au!RefreshFailed, Au!TypeOK
    <3>. QED  BY <2>16, <3>1, AuFrameCore DEF Au!RefreshFailed
  <2>17. CASE Au!RefreshRefused(t)
    <3>1. status[t] = "ready"  BY <2>17 DEF Au!RefreshRefused, AuLoading
    <3>. QED  BY <2>17, <3>1, AuOutCore DEF Au!RefreshRefused
  <2>18. CASE Au!NoToken(t)
    <3>1. /\ status[t] = "ready" /\ cache' = none /\ ~AuSession
          /\ UNCHANGED <<cache, logins>> /\ Au!Leave(t)
      BY <2>18 DEF Au!NoToken, AuLoading, AuSession, Au!calls
    <3>2. AuViews' /\ AuTokens' /\ AuNoTwice' /\ AuOneTakes'  BY <3>1, AuLeaveCore
    <3>3. AuOneLogin' /\ AuLoginCache'  BY <3>1 DEF AuCore, AuOneLogin, AuLoginCache
    <3>. QED  BY <3>2, <3>3 DEF AuCore
  <2>19. CASE Au!Hear(t)  BY <2>19, AuHearCore
  <2>. QED  BY <2>1, <2>2, <2>3, <2>4, <2>5, <2>6, <2>7, <2>8, <2>9, <2>10, <2>11, <2>12,
               <2>13, <2>14, <2>15, <2>16, <2>17, <2>18, <2>19 DEF Au!Step
<1>. QED  BY <1>1, <1>2 DEF Au!Next

--------------------
(* The invariant. *)

LEMMA AuInitIInv == ASSUME AuBounds PROVE Au!Init => AuIInv
<1>. SUFFICES ASSUME Au!Init PROVE AuIInv
  OBVIOUS
<1>1. Au!TypeOK  BY AuInitType
<1>2. Au!StatusHasCall  BY DEF Au!Init, Au!StatusHasCall
<1>3. AuSessions
  BY DEF Au!Init, AuSessions, AuLoading, AuFollowed, AuCore, AuOneLogin, AuLoginCache, AuViews, AuView,
         AuSession, AuTokens, AuNoTwice, AuBefore, AuOneTakes, AuTakes, Au!Known
<1>. QED  BY <1>1, <1>2, <1>3 DEF AuIInv

LEMMA AuNextIInv == ASSUME AuBounds PROVE AuIInv /\ [Au!Next]_(Au!vars) => AuIInv'
  BY AuStepType, AuStepHasCall, AuStepCore DEF AuIInv

\* Among tabs that have read their events, one at most has the fresh login.
LEMMA AuFreshLogin == AuIInv => Au!OneFreshLogin
  BY DEF AuIInv, AuSessions, Au!OneFreshLogin, AuFollowed, AuCore, AuOneTakes, AuTakes

\* A status that is to end has its call.
LEMMA AuHasCall == AuIInv => Au!StatusHasCall
  BY DEF AuIInv

\* Their tokens are the SDK's.
LEMMA AuTokensFit == AuIInv => Au!TokenIsTheSdks
  BY DEF AuIInv, AuSessions, Au!TokenIsTheSdks, AuFollowed, AuCore, AuViews, AuView, AuSession, AuTokens, Au!Known

\* Tabs that have read their events agree whether the user is logged in.
LEMMA AuTabsWillAgree == ASSUME AuBounds PROVE AuIInv => Au!TabsAgree
<1>. SUFFICES ASSUME Au!TypeOK, AuCore, NEW s \in AuTab, NEW t \in AuTab, Au!Known(s), Au!Known(t)
              PROVE  loggedIn[s] = loggedIn[t]
  BY DEF AuIInv, AuSessions, Au!TabsAgree
<1>1. loggedIn[s] \in BOOLEAN /\ loggedIn[t] \in BOOLEAN  BY DEF Au!TypeOK
<1>2. loggedIn[s] <=> loggedIn[t]  BY DEF AuCore, AuViews, AuView, Au!Known
<1>. QED  BY <1>1, <1>2

-----------------------------------------------------------------------------
(***************************************************************************)
(* Proofs about the presence: for any users and bounds nobody sees another *)
(* one's, and a module that is ready has one to show.                      *)
(***************************************************************************)

PrUsers == none \notin Owner

\* A request is of the login that sent it, which is this one's user's if it is this one, and an
\* answer or a message is a version that the server has had; and only the first one is sent
\* before the module is ready.
PrRequestsFit ==
  /\ \A r \in requests :
       /\ r.at <= Len(real[r.of])
       /\ r.login <= logins
       /\ r.login = logins /\ owner # none => owner = r.of /\ (r.first \/ status = "ready")
       /\ r.first => r.op = "get"
  /\ message # 0 => owner # none /\ message <= Len(real[owner])

\* The first request's promise is pending only while the module initializes.
PrPromiseFits == promise = "pending" => status = "initializing"

\* What is shown is the user's, or is about to be reset; and is there when the module is ready.
PrOwn ==
  crossed \/
    /\ shown.of # none => status = "ready" /\ owner \in {none, shown.of}
    /\ status = "ready" /\ owner # none /\ Pr!hasPresencePermission
         => shown.of = owner /\ activeCalls > 0

\* A connection is restored only for a user, who cannot log out before that is heard.
PrOnlineFits == ~online => owner # none /\ status = "ready" /\ Pr!Detailed

PrIInv ==
  /\ Pr!TypeOK /\ PrRequestsFit /\ PrPromiseFits /\ PrOnlineFits /\ PrOwn
  /\ remembered # "DoNotAcceptAnyCalls"

--------------------
(* What the operators of the model return. *)

LEMMA PrSentType ==
  ASSUME Pr!TypeOK, owner # none,
         NEW op \in {"get", "put"}, NEW first \in BOOLEAN, NEW put \in Pr!State
  PROVE  /\ Pr!Sent(op, first, put) \in Pr!Request
         /\ Pr!Sent(op, first, put).at = 0 /\ Pr!Sent(op, first, put).login = logins
         /\ Pr!Sent(op, first, put).of = owner /\ Pr!Sent(op, first, put).first = first
         /\ Pr!Sent(op, first, put).op = op
  BY DEF Pr!TypeOK, Pr!Sent, Pr!Request

\* A version that was shown is a state, and Do Not Disturb is not remembered.
LEMMA PrShowsType ==
  ASSUME Pr!TypeOK, NEW o \in Owner, NEW at \in 1..Len(real[o]), NEW dnd \in Pr!Dnd \cup {Pr!Null},
         remembered # "DoNotAcceptAnyCalls", Pr!Shows(o, at, dnd)
  PROVE  /\ shown' \in [of : Owner \cup {none}, at : Nat, state : Pr!State]
         /\ shown'.of = o
         /\ remembered' \in (Pr!Dnd \cup {Pr!Null}) \ {"DoNotAcceptAnyCalls"}
<1>1. real[o] \in Seq(Pr!State)
  BY DEF Pr!TypeOK
<1>2. real[o][at] \in Pr!State /\ at \in Nat
  BY <1>1
<1>. QED  BY <1>2 DEF Pr!TypeOK, Pr!Shows, Pr!Remembers, Pr!State

LEMMA PrStartType == Pr!Start \in Pr!State
  BY DEF Pr!Start, Pr!State, Pr!Dnd, Pr!Chosen

LEMMA PrDndType == ASSUME Pr!TypeOK PROVE Pr!dndStatus \in Pr!Dnd \cup {Pr!Null}
  BY DEF Pr!TypeOK, Pr!dndStatus, Pr!State

--------------------
(* The inductive invariant. *)

LEMMA PrInitIInv == ASSUME PrUsers PROVE Pr!Init => PrIInv
<1>. SUFFICES ASSUME Pr!Init PROVE PrIInv
  OBVIOUS
<1>1. real \in [Owner -> Seq(Pr!State)]
  BY PrStartType DEF Pr!Init
<1>2. shown \in [of : Owner \cup {none}, at : Nat, state : Pr!State] /\ shown.of = none
  BY DEF Pr!Init, Pr!Blank, Pr!State
<1>. QED  BY <1>1, <1>2 DEF Pr!Init, PrIInv, Pr!TypeOK, PrRequestsFit, PrPromiseFits, PrOnlineFits, Pr!Detailed, PrOwn, Pr!Dnd, Pr!Null

\* A request that is sent, and everything else as it was.
LEMMA PrSendKeeps ==
  ASSUME PrIInv, owner # none,
         NEW op \in {"get", "put"}, NEW first \in BOOLEAN, NEW put \in Pr!State,
         first => op = "get",
         requests' = requests \cup {Pr!Sent(op, first, put)},
         first \/ status = "ready", status = "ready" => status' = "ready",
         UNCHANGED <<real, owner, logins, message>>
  PROVE  PrRequestsFit' /\ requests' \subseteq Pr!Request
<1>1. Len(real[owner]) \in Nat
  BY DEF PrIInv, Pr!TypeOK
<1>. QED  BY <1>1, PrSentType DEF PrIInv, Pr!TypeOK, PrRequestsFit

\* What leaves the state of the client alone.
LEMMA PrClientKept ==
  ASSUME PrIInv, UNCHANGED <<variant, owner, Pr!client, crossed>>
  PROVE  status' = status /\ PrPromiseFits' /\ PrOwn' /\ remembered' # "DoNotAcceptAnyCalls"
  BY DEF PrIInv, Pr!client, PrPromiseFits, PrOnlineFits, Pr!Detailed,
           PrOwn, Pr!hasPresencePermission

LEMMA PrInitializeKeeps == ASSUME PrUsers, PrIInv, Pr!Initialize PROVE PrIInv'
<1>1. owner # none /\ status = "pending" /\ promise # "pending"
  BY DEF Pr!Initialize, Pr!ShouldInit, PrIInv, PrPromiseFits
<1>2. crossed \/ shown.of = none
  BY <1>1 DEF PrIInv, PrOwn
<1>3. CASE Pr!hasPresencePermission /\ promise = "none"
  <2>1. PrRequestsFit' /\ requests' \subseteq Pr!Request
    BY <1>1, <1>3, PrSendKeeps, PrStartType DEF Pr!Initialize, Pr!server
  <2>. QED  BY <1>1, <1>2, <1>3, <2>1
       DEF Pr!Initialize, Pr!server, PrIInv, Pr!TypeOK, PrPromiseFits, PrOnlineFits, Pr!Detailed,
           PrOwn, Pr!hasPresencePermission
<1>4. CASE ~(Pr!hasPresencePermission /\ promise = "none")
  <2>1. promise = "dead" \/ ~Pr!hasPresencePermission \/ promise = "none"
    BY <1>1 DEF PrIInv, Pr!TypeOK
  <2>. QED  BY <1>1, <1>2, <1>4, <2>1
       DEF Pr!Initialize, Pr!server, PrIInv, Pr!TypeOK, PrRequestsFit, PrPromiseFits, PrOnlineFits, Pr!Detailed,
           PrOwn, Pr!hasPresencePermission
<1>. QED  BY <1>3, <1>4

LEMMA PrResetKeeps == ASSUME PrUsers, PrIInv, Pr!Reset PROVE PrIInv'
<1>1. shown' \in [of : Owner \cup {none}, at : Nat, state : Pr!State] /\ shown'.of = none
  BY DEF Pr!Reset, Pr!Blank, Pr!State
<1>. QED  BY <1>1 DEF Pr!Reset, Pr!ShouldReset, Pr!server, PrIInv, Pr!TypeOK, PrRequestsFit, PrPromiseFits, PrOnlineFits, Pr!Detailed, PrOwn, Pr!Null

LEMMA PrHearKeeps == ASSUME PrUsers, PrIInv, Pr!Hear PROVE PrIInv'
<1>1. owner \in Owner /\ message \in 1..Len(real[owner]) /\ status = "ready"
  BY DEF Pr!Hear, Pr!ShouldHear, PrIInv, Pr!TypeOK, PrRequestsFit
<1>. message \in Nat /\ message > 0
  BY DEF Pr!Hear, Pr!ShouldHear, PrIInv, Pr!TypeOK
<1>2. UNCHANGED <<real, owner, logins, events, message, status, promise, online, requests,
                  crossed, variant>> /\ unheard' = FALSE
  BY DEF Pr!Hear, Pr!server
<1>3. CASE Pr!Newer
  <2>1. /\ lastSequence' = message /\ activeCalls' = message
        /\ Pr!Shows(owner, message, IF Pr!Detailed THEN Pr!dndStatus ELSE remembered)
    BY <1>3 DEF Pr!Hear
  <2>2. (IF Pr!Detailed THEN Pr!dndStatus ELSE remembered) \in Pr!Dnd \cup {Pr!Null}
    BY PrDndType DEF PrIInv, Pr!TypeOK
  <2>3. /\ shown' \in [of : Owner \cup {none}, at : Nat, state : Pr!State]
        /\ shown'.of = owner
        /\ remembered' \in (Pr!Dnd \cup {Pr!Null}) \ {"DoNotAcceptAnyCalls"}
    BY <1>1, <2>1, <2>2, PrShowsType DEF PrIInv
  <2>4. PrOwn'
    BY <1>1, <1>2, <2>1, <2>3 DEF PrIInv, PrOwn, Pr!hasPresencePermission
  <2>5. Pr!TypeOK'
    BY <1>1, <1>2, <2>1, <2>3 DEF PrIInv, Pr!TypeOK
  <2>. QED  BY <1>2, <2>3, <2>4, <2>5 DEF PrIInv, PrRequestsFit, PrPromiseFits, PrOnlineFits, Pr!Detailed
<1>4. CASE ~Pr!Newer
  <2>1. UNCHANGED Pr!client
    BY <1>2, <1>4 DEF Pr!Hear, Pr!client
  <2>2. PrPromiseFits' /\ PrOwn' /\ remembered' # "DoNotAcceptAnyCalls"
    BY <1>2, <2>1, PrClientKept
  <2>3. Pr!TypeOK'
    BY <1>2, <2>1 DEF Pr!client, PrIInv, Pr!TypeOK
  <2>4. PrRequestsFit' /\ PrOnlineFits'
    BY <1>2, <2>1 DEF Pr!client, PrIInv, PrRequestsFit, PrOnlineFits, Pr!Detailed
  <2>. QED  BY <2>2, <2>3, <2>4 DEF PrIInv
<1>. QED  BY <1>3, <1>4

LEMMA PrRefetchKeeps == ASSUME PrUsers, PrIInv, Pr!Refetch PROVE PrIInv'
<1>. owner # none /\ status = "ready"
  BY DEF Pr!Refetch, Pr!ShouldFetch, PrIInv, PrOnlineFits
<1>1. PrRequestsFit' /\ requests' \subseteq Pr!Request
  <2>1. CASE Pr!hasPresencePermission
    BY <2>1, PrSendKeeps, PrStartType DEF Pr!Refetch, Pr!server, Pr!client
  <2>2. CASE ~Pr!hasPresencePermission
    BY <2>2 DEF Pr!Refetch, Pr!server, Pr!client, PrIInv, Pr!TypeOK, PrRequestsFit
  <2>. QED  BY <2>1, <2>2
<1>. QED  BY <1>1, PrClientKept DEF Pr!Refetch, Pr!server, Pr!client, PrIInv, Pr!TypeOK, PrOnlineFits, Pr!Detailed

LEMMA PrBecomesKeeps ==
  ASSUME PrIInv, NEW o \in Owner, NEW state \in Pr!State, Pr!Becomes(o, state)
  PROVE  /\ real' \in [Owner -> Seq(Pr!State)]
         /\ \A p \in Owner : Len(real'[p]) \in Nat /\ Len(real[p]) <= Len(real'[p])
<1>1. /\ \A p \in Owner : real[p] \in Seq(Pr!State) /\ Len(real[p]) \in Nat
      /\ Append(real[o], state) \in Seq(Pr!State)
      /\ Len(Append(real[o], state)) = Len(real[o]) + 1
  BY DEF PrIInv, Pr!TypeOK
<1>2. real' = [real EXCEPT ![o] = Append(real[o], state)]
  BY DEF Pr!Becomes
<1>3. real' \in [Owner -> Seq(Pr!State)]
  BY <1>1, <1>2 DEF PrIInv, Pr!TypeOK
<1>4. ASSUME NEW p \in Owner
      PROVE  Len(real'[p]) \in Nat /\ Len(real[p]) <= Len(real'[p])
  BY <1>1, <1>2 DEF PrIInv, Pr!TypeOK
<1>. QED  BY <1>3, <1>4

LEMMA PrChangeKeeps ==
  ASSUME PrUsers, PrIInv, NEW o \in Owner, NEW s \in Pr!State, Pr!Change(o, s) PROVE PrIInv'
<1>1. /\ real' \in [Owner -> Seq(Pr!State)]
      /\ \A p \in Owner : Len(real[p]) \in Nat /\ Len(real'[p]) \in Nat
                          /\ Len(real[p]) <= Len(real'[p])
  BY PrBecomesKeeps DEF Pr!Change, PrIInv, Pr!TypeOK
<1>2. UNCHANGED <<variant, owner, logins, events, message, unheard, Pr!client, online, requests,
                  crossed>>
  BY DEF Pr!Change
<1>3. PrRequestsFit'
  <2>1. \A r \in requests : r.of \in Owner /\ r.at \in Nat
    BY DEF PrIInv, Pr!TypeOK, Pr!Request
  <2>2. \A r \in requests : r.at <= Len(real'[r.of])
    BY <1>1, <2>1 DEF PrIInv, PrRequestsFit
  <2>3. message # 0 => owner # none /\ message <= Len(real'[owner])
    BY <1>1 DEF PrIInv, Pr!TypeOK, PrRequestsFit
  <2>. QED  BY <1>2, <2>2, <2>3 DEF Pr!client, PrIInv, PrRequestsFit
<1>. QED  BY <1>1, <1>2, <1>3, PrClientKept DEF PrIInv, Pr!TypeOK, Pr!client, PrOnlineFits, Pr!Detailed

LEMMA PrServeKeeps ==
  ASSUME PrUsers, PrIInv, NEW r \in requests, Pr!Serve(r) PROVE PrIInv'
<1>1. /\ real' \in [Owner -> Seq(Pr!State)]
      /\ \A p \in Owner : Len(real[p]) \in Nat /\ Len(real'[p]) \in Nat
                          /\ Len(real[p]) <= Len(real'[p])
  <2>1. r.of \in Owner /\ r.put \in Pr!State
    BY DEF PrIInv, Pr!TypeOK, Pr!Request
  <2>2. CASE r.op = "put"
    BY <2>1, <2>2, PrBecomesKeeps DEF Pr!Serve, PrIInv, Pr!TypeOK
  <2>3. CASE r.op # "put"
    BY <2>3 DEF Pr!Serve, PrIInv, Pr!TypeOK
  <2>. QED  BY <2>2, <2>3
<1>2. UNCHANGED <<variant, owner, logins, events, message, unheard, Pr!client, online, crossed>>
  BY DEF Pr!Serve
<1>3. requests' = (requests \ {r}) \cup {[r EXCEPT !.at = Len(real'[r.of])]}
  BY DEF Pr!Serve
<1>4. /\ [r EXCEPT !.at = Len(real'[r.of])] \in Pr!Request
      /\ [r EXCEPT !.at = Len(real'[r.of])].at = Len(real'[r.of])
      /\ [r EXCEPT !.at = Len(real'[r.of])].of = r.of
      /\ [r EXCEPT !.at = Len(real'[r.of])].login = r.login
      /\ [r EXCEPT !.at = Len(real'[r.of])].first = r.first
      /\ [r EXCEPT !.at = Len(real'[r.of])].op = r.op
  BY <1>1 DEF PrIInv, Pr!TypeOK, Pr!Request
<1>5. PrRequestsFit'
  <2>1. \A q \in requests : q.of \in Owner /\ q.at \in Nat
    BY DEF PrIInv, Pr!TypeOK, Pr!Request
  <2>2. ASSUME NEW q \in requests' PROVE q.at <= Len(real'[q.of])
    <3>1. CASE q \in requests
      BY <1>1, <2>1, <3>1 DEF PrIInv, PrRequestsFit
    <3>2. CASE q = [r EXCEPT !.at = Len(real'[r.of])]
      BY <1>1, <1>4, <2>1, <3>2
    <3>. QED  BY <1>3, <3>1, <3>2
  <2>3. message # 0 => owner # none /\ message <= Len(real'[owner])
    BY <1>1 DEF PrIInv, Pr!TypeOK, PrRequestsFit
  <2>4. \A q \in requests' : /\ q.login <= logins
                             /\ q.login = logins /\ owner # none
                                  => owner = q.of /\ (q.first \/ status = "ready")
                             /\ q.first => q.op = "get"
    BY <1>3, <1>4 DEF PrIInv, PrRequestsFit
  <2>. QED  BY <1>2, <2>2, <2>3, <2>4 DEF Pr!client, PrRequestsFit
<1>6. PrPromiseFits' /\ PrOwn' /\ remembered' # "DoNotAcceptAnyCalls"
  BY <1>2, PrClientKept
<1>7. Pr!TypeOK'
  BY <1>1, <1>2, <1>3, <1>4 DEF PrIInv, Pr!TypeOK, Pr!client
<1>8. PrOnlineFits'
  BY <1>2, <1>3, <1>4 DEF PrIInv, Pr!client, PrOnlineFits, Pr!Detailed
<1>. QED  BY <1>5, <1>6, <1>7, <1>8 DEF PrIInv

\* A request that is over: the module is ready if that was the first one and it may be.
LEMMA PrOverKeeps ==
  ASSUME PrIInv, NEW r \in requests, NEW ready \in BOOLEAN, Pr!Over(r, ready), r.first => ready \/ crossed',
         UNCHANGED <<real, owner, logins, message>>
  PROVE  /\ PrRequestsFit' /\ requests' \subseteq Pr!Request
         /\ promise' \in {"none", "pending", "dead"}
         /\ status' \in {"pending", "initializing", "ready"}
         /\ PrPromiseFits'
         /\ status' = "ready" => status = "ready" \/ r.first
         /\ status = "ready" \/ (r.first /\ ready) => status' = "ready"
<1>1. requests' \subseteq requests
  BY DEF Pr!Over
<1>2. r.op = "get" \/ r.op = "put"
  BY DEF PrIInv, Pr!TypeOK, Pr!Request
<1>. QED  BY <1>1, <1>2 DEF Pr!Over, PrIInv, Pr!TypeOK, PrRequestsFit, PrPromiseFits

LEMMA PrAnswerKeeps ==
  ASSUME PrUsers, PrIInv, NEW r \in requests, Pr!Answer(r) PROVE PrIInv'
<1>1. /\ r.of \in Owner /\ r.at \in 1..Len(real[r.of]) /\ r.first \in BOOLEAN
      /\ r.first => r.op = "get"
      /\ r.login = logins /\ owner # none => owner = r.of /\ (r.first \/ status = "ready")
  BY DEF Pr!Answer, PrIInv, Pr!TypeOK, Pr!Request, PrRequestsFit
<1>2. /\ PrRequestsFit' /\ requests' \subseteq Pr!Request
      /\ promise' \in {"none", "pending", "dead"}
      /\ status' \in {"pending", "initializing", "ready"}
      /\ PrPromiseFits'
      /\ status' = "ready" => status = "ready" \/ r.first
      /\ status = "ready" \/ r.first => status' = "ready"
  BY PrOverKeeps DEF Pr!Answer, Pr!server
<1>3. /\ UNCHANGED <<variant, real, events, owner, logins, message, unheard, lastSequence, online>>
      /\ crossed' = (crossed \/ (r.login # logins /\ (r.of = owner \/ r.first)))
  BY DEF Pr!Answer, Pr!server
<1>4. CASE Pr!SameOwner(r)
  <2>1. owner = r.of
    BY <1>4 DEF Pr!SameOwner
  <2>2. /\ Pr!Shows(r.of, r.at, IF Pr!Detailed /\ r.op = "get" THEN remembered ELSE Pr!dndStatus)
        /\ activeCalls' = IF r.op = "get" THEN r.at ELSE activeCalls
    BY <1>4 DEF Pr!Answer
  <2>3. (IF Pr!Detailed /\ r.op = "get" THEN remembered ELSE Pr!dndStatus) \in Pr!Dnd \cup {Pr!Null}
    BY PrDndType DEF PrIInv, Pr!TypeOK
  <2>4. /\ shown' \in [of : Owner \cup {none}, at : Nat, state : Pr!State]
        /\ shown'.of = owner
        /\ remembered' \in (Pr!Dnd \cup {Pr!Null}) \ {"DoNotAcceptAnyCalls"}
    BY <1>1, <2>1, <2>2, <2>3, PrShowsType DEF PrIInv
  <2>5. activeCalls' \in Nat /\ (activeCalls > 0 \/ r.first => activeCalls' > 0)
    BY <1>1, <2>2 DEF PrIInv, Pr!TypeOK
  <2>6. PrOwn'
    BY <1>1, <1>2, <1>3, <2>1, <2>4, <2>5 DEF PrIInv, PrOwn, Pr!hasPresencePermission
  <2>. QED  BY <1>2, <1>3, <2>4, <2>5, <2>6 DEF PrIInv, Pr!TypeOK, PrOnlineFits, Pr!Detailed
<1>5. CASE ~Pr!SameOwner(r)
  <2>1. owner # r.of
    BY <1>5 DEF Pr!SameOwner
  <2>2. UNCHANGED <<shown, activeCalls, remembered>>
    BY <1>5 DEF Pr!Answer
  <2>3. PrOwn'
    <3>1. CASE crossed'
      BY <3>1 DEF PrOwn
    <3>2. CASE ~crossed'
      <4>1. ~crossed /\ (r.login = logins \/ ~r.first)
        BY <1>3, <3>2
      <4>. QED  BY <1>1, <1>2, <1>3, <2>1, <2>2, <4>1 DEF PrIInv, PrOwn, Pr!hasPresencePermission
    <3>. QED  BY <3>1, <3>2
  <2>. QED  BY <1>2, <1>3, <2>2, <2>3 DEF PrIInv, Pr!TypeOK, PrOnlineFits, Pr!Detailed
<1>. QED  BY <1>4, <1>5

LEMMA PrFailKeeps ==
  ASSUME PrUsers, PrIInv, NEW r \in requests, Pr!Fail(r) PROVE PrIInv'
<1>1. r.first \in BOOLEAN /\ Pr!Detailed \in BOOLEAN
  BY DEF PrIInv, Pr!TypeOK, Pr!Request, Pr!Detailed
<1>2. /\ UNCHANGED <<variant, real, owner, logins, message, unheard, lastSequence, shown,
                     activeCalls, remembered, online>>
      /\ crossed' = (crossed \/ r.first) /\ events' = events + 1
  BY DEF Pr!Fail
<1>3. /\ PrRequestsFit' /\ requests' \subseteq Pr!Request
      /\ promise' \in {"none", "pending", "dead"}
      /\ status' \in {"pending", "initializing", "ready"}
      /\ PrPromiseFits'
      /\ status' = "ready" => status = "ready" \/ r.first
      /\ status = "ready" => status' = "ready"
  BY <1>1, <1>2, PrOverKeeps DEF Pr!Fail
<1>4. PrOwn'
  BY <1>2, <1>3 DEF PrIInv, PrOwn, Pr!hasPresencePermission
<1>. QED  BY <1>1, <1>2, <1>3, <1>4 DEF PrIInv, Pr!TypeOK, PrOnlineFits, Pr!Detailed

LEMMA PrNotifyKeeps ==
  ASSUME PrUsers, PrIInv, NEW at \in Nat, Pr!Notify(at) PROVE PrIInv'
  BY PrClientKept DEF Pr!Notify, Pr!server, Pr!client, PrIInv, Pr!TypeOK, PrOnlineFits, Pr!Detailed, PrRequestsFit

LEMMA PrUpdateParamsType ==
  ASSUME Pr!TypeOK, NEW user \in Pr!Chosen
  PROVE  Pr!UpdateStatusParams(user) \in Pr!State
  BY DEF Pr!TypeOK, Pr!UpdateStatusParams, Pr!dndStatus, Pr!State, Pr!Dnd

LEMMA PrUpdateKeeps == ASSUME PrUsers, PrIInv, Pr!Update PROVE PrIInv'
<1>. owner # none /\ status = "ready"
  BY DEF Pr!Update, Pr!Settled, Pr!ShouldReset
<1>1. PICK put \in Pr!State : requests' = requests \cup {Pr!Sent("put", FALSE, put)}
  <2>1. CASE \E user \in Pr!Chosen : Pr!Set(user)
    BY <2>1, PrUpdateParamsType DEF Pr!Set, PrIInv
  <2>2. CASE Pr!setDoNotDisturb
    BY <2>2 DEF Pr!setDoNotDisturb, Pr!State, Pr!Dnd, Pr!Chosen
  <2>3. CASE Pr!toggleAcceptCallQueueCalls
    <3>1. PICK dnd \in Pr!Dnd :
            requests' = requests \cup {Pr!Sent("put", FALSE, [user |-> shown.state.user, dnd |-> dnd])}
      BY <2>3 DEF Pr!toggleAcceptCallQueueCalls, Pr!Dnd
    <3>2. [user |-> shown.state.user, dnd |-> dnd] \in Pr!State
      BY DEF PrIInv, Pr!TypeOK, Pr!State
    <3>. QED  BY <3>1, <3>2
  <2>. QED  BY <2>1, <2>2, <2>3 DEF Pr!Update
<1>2. PrRequestsFit' /\ requests' \subseteq Pr!Request
  BY <1>1, PrSendKeeps DEF Pr!Update, Pr!client
<1>. QED  BY <1>2, PrClientKept DEF Pr!Update, Pr!client, PrIInv, Pr!TypeOK, PrOnlineFits, Pr!Detailed

\* A user logs in only when what was shown of the last one is gone.
LEMMA PrLoginKeeps == ASSUME PrUsers, PrIInv, NEW o \in Owner, Pr!Login(o) PROVE PrIInv'
<1>1. owner = none /\ status # "ready" /\ owner' = o /\ logins' = logins + 1
  BY DEF Pr!Login, Pr!Settled, Pr!ShouldReset
<1>2. UNCHANGED <<variant, Pr!server, message, unheard, Pr!client, online, requests, crossed>>
  BY DEF Pr!Login
<1>3. PrRequestsFit'
  <2>1. \A r \in requests : r.login \in Nat
    BY DEF PrIInv, Pr!TypeOK, Pr!Request
  <2>. QED  BY <1>1, <1>2, <2>1 DEF Pr!server, PrIInv, Pr!TypeOK, PrRequestsFit
<1>. QED  BY <1>1, <1>2, <1>3 DEF Pr!server, Pr!client, PrIInv, Pr!TypeOK, PrOnlineFits, Pr!Detailed, PrPromiseFits, PrOwn

LEMMA PrLogoutKeeps == ASSUME PrUsers, PrIInv, Pr!Logout PROVE PrIInv'
<1>1. owner' = none /\ message' = 0 /\ unheard' = FALSE /\ Pr!Settled /\ owner # none
  BY DEF Pr!Logout
<1>2. UNCHANGED <<variant, Pr!server, logins, Pr!client, online, requests, crossed>>
  BY DEF Pr!Logout
<1>. QED  BY <1>1, <1>2 DEF Pr!server, Pr!client, PrIInv, Pr!TypeOK, PrOnlineFits, Pr!Detailed, PrRequestsFit, PrPromiseFits, PrOwn, Pr!Settled,
       Pr!ShouldFetch

LEMMA PrReconnectKeeps == ASSUME PrUsers, PrIInv, Pr!Reconnect PROVE PrIInv'
<1>1. owner # none /\ status = "ready" /\ Pr!Detailed /\ online' = FALSE /\ events' = events + 1
  BY DEF Pr!Reconnect, Pr!Settled, Pr!ShouldReset
<1>2. UNCHANGED <<variant, real, owner, logins, message, unheard, Pr!client, requests, crossed>>
  BY DEF Pr!Reconnect
<1>3. PrPromiseFits' /\ PrOwn' /\ remembered' # "DoNotAcceptAnyCalls"
  BY <1>2, PrClientKept
<1>4. Pr!TypeOK'
  <2>1. online' \in BOOLEAN
    BY DEF Pr!Reconnect
  <2>2. events' \in Nat
    BY DEF Pr!Reconnect, PrIInv, Pr!TypeOK
  <2>. QED  BY <1>2, <2>1, <2>2 DEF Pr!client, PrIInv, Pr!TypeOK
<1>6. PrRequestsFit'
  BY <1>2 DEF Pr!client, PrIInv, PrRequestsFit
<1>5. PrOnlineFits'
  BY <1>1, <1>2 DEF Pr!client, PrOnlineFits, Pr!Detailed
<1>. QED  BY <1>3, <1>4, <1>6, <1>5 DEF PrIInv

LEMMA PrNextIInv == ASSUME PrUsers PROVE PrIInv /\ [Pr!Next]_(Pr!vars) => PrIInv'
<1>. SUFFICES ASSUME PrIInv, [Pr!Next]_(Pr!vars) PROVE PrIInv'
  OBVIOUS
<1>1. CASE UNCHANGED Pr!vars
  BY <1>1, PrClientKept DEF Pr!vars, Pr!server, Pr!client, PrIInv, Pr!TypeOK, PrOnlineFits, Pr!Detailed, PrRequestsFit
<1>2. CASE Pr!Initialize
  BY <1>2, PrInitializeKeeps
<1>3. CASE Pr!Reset
  BY <1>3, PrResetKeeps
<1>4. CASE Pr!Hear
  BY <1>4, PrHearKeeps
<1>5. CASE Pr!Refetch
  BY <1>5, PrRefetchKeeps
<1>6. CASE \E o \in Owner, s \in [dnd : Pr!Dnd, user : {"Available"}] : Pr!Change(o, s)
  <2>1. [dnd : Pr!Dnd, user : {"Available"}] \subseteq Pr!State
    BY DEF Pr!State, Pr!Chosen
  <2>. QED  BY <1>6, <2>1, PrChangeKeeps
<1>7. CASE \E r \in requests : Pr!Serve(r) \/ Pr!Answer(r) \/ Pr!Fail(r)
  BY <1>7, PrServeKeeps, PrAnswerKeeps, PrFailKeeps
<1>8. CASE \E at \in 2..PrMaxVersions : Pr!Notify(at)
  BY <1>8, PrNotifyKeeps
<1>9. CASE Pr!Update
  BY <1>9, PrUpdateKeeps
<1>10. CASE \E o \in Owner : Pr!Login(o)
  BY <1>10, PrLoginKeeps
<1>11. CASE Pr!Logout \/ Pr!Reconnect
  BY <1>11, PrLogoutKeeps, PrReconnectKeeps
<1>. QED  BY <1>1, <1>2, <1>3, <1>4, <1>5, <1>6, <1>7, <1>8, <1>9, <1>10, <1>11 DEF Pr!Next

\* For any users and bounds: nobody sees another one's presence, a module that is ready has
\* one to show, and Do Not Disturb is never what is restored.
LEMMA PrPresenceIsOwn == ASSUME PrUsers PROVE PrIInv => Pr!OwnPresence
<1>. SUFFICES ASSUME PrIInv PROVE Pr!OwnPresence
  OBVIOUS
<1>1. Pr!Settled /\ status = "ready" => owner # none
  BY DEF Pr!Settled, Pr!ShouldReset
<1>. QED  BY <1>1 DEF PrIInv, PrOwn, Pr!OwnPresence

-----------------------------------------------------------------------------
(***************************************************************************)
(* Proofs about the copy of the call log: for any users and calls it is    *)
(* the user's own and complete up to its token, and there is one sync at a *)
(* time, unless a sync of an earlier login got into this one.              *)
(***************************************************************************)

ClBounds == none \notin Owner /\ ClRecordCount \in Nat /\ ClPolling \in BOOLEAN

\* Runs are told apart by their ids, and _promise stands for one of them.
ClIdentified ==
  /\ IsFiniteSet(runs)
  /\ \A r, s \in runs : r.id = s.id => r = s
  /\ promise # 0 => \E r \in runs : r.id = promise
  /\ \A r \in runs : r.login <= logins

\* No change is numbered ahead of the clock.
ClClocked == \A o \in Owner, c \in ClCall : log[o][c] <= clock

ClOf(l) == {r \in runs : r.login = l}

\* Before it is initialized, a login has no runs.
ClPendingIdle == owner # none /\ status = "pending" => ClOf(logins) = {}

\* What a run has been told: all that changed before its second answer, but for what a
\* token covers and what is still to come.
ClTold(r) ==
  /\ r.of \in Owner /\ r.till <= clock + 1
  /\ r.left # {} => r.type = "fSync"
  /\ r.left # {} /\ r.phase = "served" => Cardinality({c \in ClCall : r.got[c] # 0}) >= ClRecordCount
  /\ \A c \in ClCall :
       /\ r.got[c] <= log[r.of][c]
       /\ log[r.of][c] < r.till => \/ r.got[c] = log[r.of][c]
                                   \/ r.type = "iSync" /\ log[r.of][c] < r.token /\ r.got[c] = 0
                                   \/ c \in r.left /\ r.phase \in {"served", "more"}
ClAllTold == \A r \in runs : r.phase \in {"served", "more", "complete"} => ClTold(r)

\* Data that may be those of o: they have all that their token covers.
ClCovers(o, d) ==
  /\ d.of \in {o, none} /\ d.token <= clock + 1
  /\ \A c \in ClCall : d.known[c] <= log[o][c] /\ (log[o][c] < d.token => d.known[c] = log[o][c])
ClKeptCover == \A o \in Owner : ClCovers(o, kept[o]) /\ (~cached => kept[o] = Cl!Blank)
ClDataCover == /\ owner # none => ClCovers(owner, data)
               /\ owner = none => data = Cl!Blank \/ status = "ready"
               /\ ~cached /\ status # "ready" => data = Cl!Blank

\* A login has one run, the one _promise stands for, and its token is that of the data.
ClOneRun == /\ \A r, s \in ClOf(logins) : r = s
            /\ owner # none \/ status # "pending" => \A r \in ClOf(logins) : r.id = promise
ClTokenKept == owner # none => \A r \in ClOf(logins) : r.type = "iSync" /\ r.phase # "delay" =>
                                 r.token = data.token
\* _init waits for a run of its own, or for one that ends the agreement.
ClAwaited == status = "initializing" =>
               \E r \in runs : r.id = promise /\ (r.login # logins \/ r.first)

ClOrderly == ClKeptCover /\ ClDataCover /\ ClOneRun /\ ClTokenKept /\ ClAwaited
ClIInv == Cl!TypeOK /\ ClIdentified /\ ClClocked /\ ClPendingIdle /\ ClAllTold /\ (crossed \/ ClOrderly)

--------------------
(* Ids and syncs. *)

\* Its cardinality is that of the sets here.
LEMMA ClCardinality == ASSUME NEW S PROVE Cl!Cardinality(S) = Cardinality(S)
  BY DEF Cl!Cardinality, Cardinality

\* There is an id that no run has.
LEMMA ClNewIdFresh ==
  ASSUME ClIInv PROVE Cl!NewId \in Nat \ {0} /\ \A r \in runs : r.id # Cl!NewId
<1>. DEFINE n == Cardinality(runs)
            Ids == {r.id : r \in runs}
<1>1. IsFiniteSet(runs) /\ n \in Nat
  BY FS_CardinalityType DEF ClIInv, ClIdentified
<1>2. IsFiniteSet(Ids) /\ Cardinality(Ids) <= n
  <2>. DEFINE id == [r \in runs |-> r.id]
  <2>1. id \in [runs -> Ids] /\ \A i \in Ids : \E r \in runs : id[r] = i
    OBVIOUS
  <2>2. id \in Surjection(runs, Ids)
    BY <2>1 DEF Surjection
  <2>. QED  BY <1>1, <2>2, FS_Surjection
<1>3. IsFiniteSet(1..(n + 1)) /\ Cardinality(1..(n + 1)) = n + 1
  BY <1>1, FS_Interval
<1>. HIDE DEF n
<1>4. ~(1..(n + 1) \subseteq Ids)
  <2>. SUFFICES ASSUME 1..(n + 1) \subseteq Ids PROVE FALSE
    OBVIOUS
  <2>1. Cardinality(1..(n + 1)) <= Cardinality(Ids)
    BY <1>2, FS_Subset
  <2>2. Cardinality(Ids) \in Nat
    BY <1>2, FS_CardinalityType
  <2>. QED  BY <1>1, <1>2, <1>3, <2>1, <2>2
<1>5. \E i \in 1..(n + 1) : \A r \in runs : r.id # i
  BY <1>4
<1>6. Cl!NewId \in 1..(n + 1) /\ \A r \in runs : r.id # Cl!NewId
  BY <1>5, ClCardinality DEF Cl!NewId, n
<1>. QED  BY <1>1, <1>6

LEMMA ClSentType ==
  ASSUME ClIInv, NEW id \in Nat \ {0}, NEW type \in {"iSync", "fSync"}, NEW first \in BOOLEAN
  PROVE  /\ Cl!Sent(id, type, first) \in Cl!Run
         /\ Cl!Sent(id, type, first).id = id /\ Cl!Sent(id, type, first).login = logins
         /\ Cl!Sent(id, type, first).first = first /\ Cl!Sent(id, type, first).phase = "sent"
         /\ Cl!Sent(id, type, first).type = type
         /\ type = "iSync" => Cl!Sent(id, type, first).token = data.token
<1>1. Cl!Nothing \in Cl!Records
  BY DEF Cl!Nothing, Cl!Records
<1>2. data.token \in Nat /\ logins \in Nat /\ owner \in Owner \cup {none}
  BY DEF ClIInv, Cl!TypeOK, Cl!Data
<1>. QED  BY <1>1, <1>2 DEF Cl!Sent, Cl!Run

\* A sync begins, or is queued behind the one there is.
ClBegins(s) == /\ promise = 0 /\ promise' = s.id /\ runs' = runs \cup {s}
               /\ \A r \in runs : r.id # s.id

LEMMA ClSyncBegins ==
  ASSUME ClIInv, NEW first \in BOOLEAN, Cl!Sync(first)
  PROVE  /\ queue' \in [after : Nat, type : {"iSync", "fSync"}, first : BOOLEAN] \cup {none}
         /\ \/ promise # 0 /\ UNCHANGED <<runs, promise>>
            \/ \E s \in Cl!Run : /\ ClBegins(s) /\ s.login = logins /\ s.first = first
                                 /\ s.phase = "sent" /\ (s.type = "iSync" => s.token = data.token)
<1>. Cl!SyncType \in {"iSync", "fSync"}
  BY DEF Cl!SyncType
<1>1. CASE promise = 0
  <2>1. /\ runs' = runs \cup {Cl!Sent(Cl!NewId, Cl!SyncType, first)} /\ promise' = Cl!NewId /\ queue' = queue
    BY <1>1 DEF Cl!Sync, Cl!Free
  <2>. DEFINE s == Cl!Sent(Cl!NewId, Cl!SyncType, first)
  <2>2. /\ s \in Cl!Run /\ s.id = Cl!NewId /\ s.login = logins /\ s.first = first
        /\ s.phase = "sent" /\ (s.type = "iSync" => s.token = data.token)
    BY ClNewIdFresh, ClSentType
  <2>3. ClBegins(s)
    BY <1>1, <2>1, <2>2, ClNewIdFresh DEF ClBegins
  <2>. QED  BY <2>1, <2>2, <2>3 DEF ClIInv, Cl!TypeOK
<1>2. CASE promise # 0
  <2>1. /\ UNCHANGED <<runs, promise>>
        /\ queue' = IF queue = none
                    THEN [after |-> promise, type |-> Cl!SyncType, first |-> first]
                    ELSE [queue EXCEPT !.first = @ \/ first]
    BY <1>2 DEF Cl!Sync, Cl!Free
  <2>2. promise \in Nat
    BY DEF ClIInv, Cl!TypeOK
  <2>. DEFINE Queued == [after : Nat, type : {"iSync", "fSync"}, first : BOOLEAN]
              longer == queue.first \/ first
  <2>3. ASSUME queue = none PROVE queue' \in Queued
    BY <2>1, <2>2, <2>3
  <2>4. ASSUME queue # none PROVE queue' \in Queued
    <3>1. queue \in Queued
      BY <2>4 DEF ClIInv, Cl!TypeOK
    <3>2. longer \in BOOLEAN /\ queue' = [queue EXCEPT !.first = longer]
      BY <2>1, <2>4
    <3>. HIDE DEF longer
    <3>. QED  BY <3>1, <3>2
  <2>. QED  BY <1>2, <2>1, <2>3, <2>4
<1>. QED  BY <1>1, <1>2 DEF ClIInv, Cl!TypeOK

--------------------
(* What the runs keep. *)

\* A new run of this login, which had none, that _promise now stands for.
LEMMA ClBeginsKeeps ==
  ASSUME ClIInv, NEW s \in Cl!Run, ClBegins(s), s.login = logins, s.phase = "sent",
         s.type = "iSync" => s.token = data'.token,
         owner # none \/ status # "pending", status' # "pending",
         UNCHANGED <<log, clock, owner, logins, crossed>>
  PROVE  /\ runs' \subseteq Cl!Run /\ promise' \in Nat
         /\ ClIdentified' /\ ClAllTold' /\ ClPendingIdle'
         /\ ~crossed => ClOneRun' /\ ClTokenKept' /\ status # "initializing"
         /\ \E r \in runs' : r.id = promise' /\ r = s
<1>1. s.id \in Nat \ {0} /\ runs \subseteq Cl!Run
  BY DEF Cl!Run, ClIInv, Cl!TypeOK
<1>2. runs' \subseteq Cl!Run /\ promise' \in Nat
  BY <1>1 DEF ClBegins
<1>3. ClIdentified'
  <2>1. IsFiniteSet(runs')
    BY FS_AddElement DEF ClBegins, ClIInv, ClIdentified
  <2>2. logins \in Nat
    BY DEF ClIInv, Cl!TypeOK
  <2>. QED  BY <2>1, <2>2 DEF ClBegins, ClIInv, ClIdentified
<1>4. ClAllTold'
  <2>. SUFFICES ASSUME NEW r \in runs', r.phase \in {"served", "more", "complete"} PROVE ClTold(r)'
    BY DEF ClAllTold
  <2>1. r \in runs
    BY DEF ClBegins
  <2>. QED  BY <2>1 DEF ClIInv, ClAllTold, ClTold
<1>5. ASSUME ~crossed PROVE ClOneRun' /\ ClTokenKept' /\ status # "initializing"
  <2>1. ClOrderly
    BY <1>5 DEF ClIInv
  <2>2. ClOf(logins) = {}
    BY <2>1 DEF ClIInv, ClPendingIdle, ClOrderly, ClOneRun, ClBegins, ClOf, ClIdentified, Cl!TypeOK, Cl!Run
  <2>3. ClOf(logins)' = {s}
    BY <2>2 DEF ClBegins, ClOf
  <2>4. status # "initializing"
    BY <2>1, <1>1 DEF ClOrderly, ClAwaited, ClBegins, Cl!Run
  <2>. QED  BY <2>3, <2>4 DEF ClOneRun, ClTokenKept, ClBegins
<1>. QED  BY <1>2, <1>3, <1>4, <1>5 DEF ClBegins, ClPendingIdle

\* A run becomes another one.
LEMMA ClReplacedKeeps ==
  ASSUME ClIInv, Cl!Settled, NEW r \in runs, NEW s \in Cl!Run,
         s.id = r.id, s.login \in {r.login, logins}, runs' = (runs \ {r}) \cup {s},
         s.phase \in {"served", "more", "complete"} => ClTold(s),
         UNCHANGED <<log, clock, owner, logins, status, promise>>
  PROVE  runs' \subseteq Cl!Run /\ ClIdentified' /\ ClAllTold' /\ ClPendingIdle'
<1>0. runs \subseteq Cl!Run /\ r \in Cl!Run
  BY DEF ClIInv, Cl!TypeOK
<1>1. runs' \subseteq Cl!Run
  BY <1>0
<1>2. ClIdentified'
  <2>1. IsFiniteSet(runs')
    BY FS_AddElement, FS_RemoveElement DEF ClIInv, ClIdentified
  <2>2. logins \in Nat /\ r.login <= logins
    BY DEF ClIInv, Cl!TypeOK, ClIdentified
  <2>3. \A t \in runs' : t.login <= logins'
    BY <2>2 DEF ClIInv, ClIdentified
  <2>4. \A t, u \in runs' : t.id = u.id => t = u
    BY DEF ClIInv, ClIdentified
  <2>5. promise' # 0 => \E t \in runs' : t.id = promise'
    BY DEF ClIInv, ClIdentified
  <2>. QED  BY <2>1, <2>3, <2>4, <2>5 DEF ClIdentified
<1>3. ClAllTold'
  <2>. SUFFICES ASSUME NEW t \in runs', t.phase \in {"served", "more", "complete"} PROVE ClTold(t)'
    BY DEF ClAllTold
  <2>1. ClTold(t)
    BY DEF ClIInv, ClAllTold
  <2>. QED  BY <2>1 DEF ClTold
<1>4. ClPendingIdle'
  BY DEF Cl!Settled, Cl!ShouldInit, ClPendingIdle
<1>. QED  BY <1>1, <1>2, <1>3, <1>4

LEMMA ClBecomesKeeps ==
  ASSUME ClIInv, Cl!Settled, NEW r \in runs, NEW s \in Cl!Run, Cl!Becomes(r, s),
         s.id = r.id, s.login = r.login, s.first = r.first,
         s.phase \in {"served", "more", "complete"} => ClTold(s),
         s.type = "iSync" /\ s.phase # "delay" =>
           \/ s.token = data.token
           \/ r.type = "iSync" /\ r.phase # "delay" /\ s.token = r.token,
         UNCHANGED <<Cl!world, owner, logins, events, data, kept, unheard, naps, crossed>>
  PROVE  ClIInv'
<1>1. /\ runs' = (runs \ {r}) \cup {s} /\ UNCHANGED <<promise, queue, timer, status>>
      /\ UNCHANGED <<log, clock, cached, mayRead>>
  BY DEF Cl!Becomes, Cl!world
<1>2. runs' \subseteq Cl!Run /\ ClIdentified' /\ ClAllTold' /\ ClPendingIdle'
  BY <1>1, ClReplacedKeeps
<1>3. Cl!TypeOK'
  BY <1>1, <1>2 DEF ClIInv, Cl!TypeOK
<1>4. ASSUME ~crossed PROVE ClOrderly'
  <2>1. ClOrderly
    BY <1>4 DEF ClIInv
  <2>2. ClKeptCover' /\ ClDataCover'
    BY <1>1, <2>1 DEF ClOrderly, ClKeptCover, ClDataCover, ClCovers
  <2>3. ClOneRun' /\ ClTokenKept'
    BY <1>1, <2>1 DEF ClOrderly, ClOneRun, ClTokenKept, ClOf
  <2>4. ClAwaited'
    BY <1>1, <2>1 DEF ClOrderly, ClAwaited
  <2>. QED  BY <2>2, <2>3, <2>4 DEF ClOrderly
<1>5. ClClocked'
  BY <1>1 DEF ClIInv, ClClocked
<1>. QED  BY <1>2, <1>3, <1>4, <1>5 DEF ClIInv

\* A run is over, whatever becomes of the data.
LEMMA ClOverKeeps ==
  ASSUME ClIInv, Cl!Settled, NEW r \in runs, NEW ready \in BOOLEAN, Cl!Over(r, ready),
         UNCHANGED <<log, clock, owner, logins>>
  PROVE  /\ runs' \subseteq Cl!Run /\ promise' \in Nat /\ timer' \in BOOLEAN
         /\ queue' \in [after : Nat, type : {"iSync", "fSync"}, first : BOOLEAN] \cup {none}
         /\ status' \in {"initializing", "pending", "ready"}
         /\ ClIdentified' /\ ClAllTold' /\ ClPendingIdle'
         /\ crossed' \in BOOLEAN /\ (crossed => crossed')
         /\ ~crossed' => r.login = logins /\ ClOneRun' /\ ClTokenKept' /\ ClAwaited'
<1>. DEFINE follows == queue # none /\ queue.after = r.id
            s == [Cl!Sent(r.id, queue.type, queue.first) EXCEPT !.phase = "delay"]
<1>0. runs \subseteq Cl!Run /\ r \in Cl!Run /\ r.id \in Nat \ {0} /\ logins \in Nat
  BY DEF ClIInv, Cl!TypeOK, Cl!Run
<1>1. /\ runs' = (runs \ {r}) \cup (IF follows THEN {s} ELSE {})
      /\ promise' = IF follows THEN r.id ELSE 0
      /\ queue' = IF follows THEN none ELSE queue
      /\ timer' = (timer \/ ready)
      /\ status' = IF r.first THEN "ready" ELSE status
      /\ crossed' = (crossed \/ r.login # logins)
  BY DEF Cl!Over
<1>2. follows => /\ s \in Cl!Run /\ s.id = r.id /\ s.login = logins /\ s.phase = "delay"
  <2>. SUFFICES ASSUME follows
                PROVE  s \in Cl!Run /\ s.id = r.id /\ s.login = logins /\ s.phase = "delay"
    OBVIOUS
  <2>1. queue.type \in {"iSync", "fSync"} /\ queue.first \in BOOLEAN
    BY DEF ClIInv, Cl!TypeOK
  <2>2. Cl!Sent(r.id, queue.type, queue.first) \in Cl!Run /\ Cl!Sent(r.id, queue.type, queue.first).id = r.id
        /\ Cl!Sent(r.id, queue.type, queue.first).login = logins
    BY <1>0, <2>1, ClSentType
  <2>. QED  BY <2>2 DEF Cl!Run
<1>. HIDE DEF s
<1>3. /\ runs' \subseteq Cl!Run /\ promise' \in Nat
      /\ queue' \in [after : Nat, type : {"iSync", "fSync"}, first : BOOLEAN] \cup {none}
  BY <1>0, <1>1, <1>2 DEF ClIInv, Cl!TypeOK
<1>4. timer' \in BOOLEAN /\ crossed' \in BOOLEAN /\ (crossed => crossed')
  BY <1>1
<1>5. status' \in {"initializing", "pending", "ready"} /\ ClPendingIdle'
  BY <1>1 DEF ClIInv, Cl!TypeOK, Cl!Settled, Cl!ShouldInit, ClPendingIdle
<1>6. ClIdentified'
  <2>1. IsFiniteSet(runs')
    <3>1. IsFiniteSet(runs \ {r}) /\ IsFiniteSet((runs \ {r}) \cup {s})
      BY FS_AddElement, FS_RemoveElement DEF ClIInv, ClIdentified
    <3>. QED  BY <1>1, <3>1
  <2>2. \A t \in runs' : t.login <= logins'
    BY <1>0, <1>1, <1>2 DEF ClIInv, ClIdentified
  <2>3. \A t, u \in runs' : t.id = u.id => t = u
    BY <1>1, <1>2 DEF ClIInv, ClIdentified
  <2>4. promise' # 0 => \E t \in runs' : t.id = promise'
    BY <1>1, <1>2 DEF ClIInv, ClIdentified
  <2>. QED  BY <2>1, <2>2, <2>3, <2>4 DEF ClIdentified
<1>7. ClAllTold'
  <2>. SUFFICES ASSUME NEW t \in runs', t.phase \in {"served", "more", "complete"} PROVE ClTold(t)'
    BY DEF ClAllTold
  <2>1. t \in runs
    BY <1>1, <1>2
  <2>2. ClTold(t)
    BY <2>1 DEF ClIInv, ClAllTold
  <2>. QED  BY <2>2 DEF ClTold
<1>8. ASSUME ~crossed' PROVE r.login = logins /\ ClOneRun' /\ ClTokenKept' /\ ClAwaited'
  <2>1. r.login = logins /\ ClOrderly
    BY <1>1, <1>8 DEF ClIInv
  <2>2. \A t \in ClOf(logins)' : follows /\ t = s
    BY <1>1, <1>2, <2>1 DEF ClOf, ClOrderly, ClOneRun
  <2>3. ClOneRun' /\ ClTokenKept'
    BY <1>1, <1>2, <2>2 DEF ClOneRun, ClTokenKept
  <2>4. ClAwaited'
    <3>. SUFFICES ASSUME status' = "initializing" PROVE FALSE
      BY DEF ClAwaited
    <3>1. ~r.first /\ status = "initializing"
      BY <1>1
    <3>2. PICK t \in runs : t.id = promise /\ (t.login # logins \/ t.first)
      BY <2>1, <3>1 DEF ClOrderly, ClAwaited
    <3>3. r.id = promise
      BY <2>1, <3>1 DEF ClOrderly, ClOneRun, ClOf
    <3>. QED  BY <2>1, <3>1, <3>2, <3>3 DEF ClIInv, ClIdentified
  <2>. QED  BY <2>1, <2>3, <2>4
<1>. QED  BY <1>3, <1>4, <1>5, <1>6, <1>7, <1>8

--------------------
(* The inductive invariant. *)

LEMMA ClInitIInv == ASSUME ClBounds PROVE Cl!Init => ClIInv
<1>. SUFFICES ASSUME Cl!Init PROVE ClIInv
  OBVIOUS
<1>0. Cl!Nothing \in Cl!Records /\ Cl!Blank \in Cl!Data
  BY DEF Cl!Nothing, Cl!Records, Cl!Blank, Cl!Data
<1>1. Cl!TypeOK
  <2>1. log \in [Owner -> Cl!Records]
    BY DEF Cl!Init, Cl!Records
  <2>. QED  BY <1>0, <2>1 DEF Cl!Init, Cl!TypeOK
<1>2. IsFiniteSet(runs)
  BY FS_EmptySet DEF Cl!Init
<1>3. \A o \in Owner, c \in ClCall : log[o][c] \in {0, 1}
  BY DEF Cl!Init
<1>4. ClIdentified /\ ClClocked /\ ClPendingIdle /\ ClAllTold
  BY <1>2, <1>3 DEF Cl!Init, ClIdentified, ClClocked, ClPendingIdle, ClAllTold
<1>5. ClKeptCover
  <2>1. clock = 1 /\ \A o \in Owner : kept[o] = Cl!Blank
    BY DEF Cl!Init
  <2>2. Cl!Blank.of = none /\ Cl!Blank.token = 0 /\ \A c \in ClCall : Cl!Blank.known[c] = 0
    BY DEF Cl!Blank, Cl!Nothing
  <2>3. ASSUME NEW o \in Owner PROVE ClCovers(o, Cl!Blank)
    <3>1. \A c \in ClCall : log[o][c] >= 0 /\ ~(log[o][c] < 0)
      BY <1>3
    <3>. QED  BY <2>1, <2>2, <3>1 DEF ClCovers
  <2>. QED  BY <2>1, <2>3 DEF ClKeptCover
<1>6. ClDataCover /\ ClOneRun /\ ClTokenKept /\ ClAwaited
  BY DEF Cl!Init, ClDataCover, ClOneRun, ClOf, ClTokenKept, ClAwaited
<1>. QED  BY <1>1, <1>4, <1>5, <1>6 DEF ClIInv, ClOrderly

\* What leaves the runs and the data alone.
LEMMA ClRestKeeps ==
  ASSUME ClIInv, Cl!TypeOK', UNCHANGED <<cached, clock, log, owner, logins, status, data, kept, runs,
                                         promise, crossed>>
  PROVE  ClIInv'
<1>1. ClIdentified' /\ ClClocked' /\ ClPendingIdle'
  BY DEF ClIInv, ClIdentified, ClClocked, ClPendingIdle, ClOf
<1>2. ClAllTold'
  BY DEF ClIInv, ClAllTold, ClTold
<1>3. ClOrderly => ClOrderly'
  BY DEF ClOrderly, ClKeptCover, ClDataCover, ClCovers, ClOneRun, ClTokenKept, ClAwaited, ClOf
<1>. QED  BY <1>1, <1>2, <1>3 DEF ClIInv

LEMMA ClHearKeeps == ASSUME ClIInv, ClBounds, Cl!Hear PROVE ClIInv'
<1>1. UNCHANGED <<cached, clock, log, owner, logins, status, data, kept, runs, promise, crossed>>
  BY DEF Cl!Hear, Cl!world
<1>2. Cl!TypeOK'
  BY DEF ClIInv, Cl!TypeOK, Cl!Hear, Cl!world, Cl!ShouldHear
<1>. QED  BY <1>1, <1>2, ClRestKeeps

\* Another module, the timer or a handler that wakes up asks for a sync.
LEMMA ClSyncKeeps ==
  ASSUME ClIInv, Cl!Settled, owner # none \/ status # "pending", Cl!Sync(FALSE),
         UNCHANGED <<Cl!world, owner, logins, status, data, kept, unheard, crossed>>,
         events' \in Nat, timer' \in BOOLEAN, naps' \subseteq Owner
  PROVE  ClIInv'
<1>1. UNCHANGED <<cached, mayRead, clock, log>> /\ status # "pending"
  BY DEF Cl!world, Cl!Settled, Cl!ShouldInit
<1>2. /\ queue' \in [after : Nat, type : {"iSync", "fSync"}, first : BOOLEAN] \cup {none}
      /\ \/ promise # 0 /\ UNCHANGED <<runs, promise>>
         \/ \E s \in Cl!Run : /\ ClBegins(s) /\ s.login = logins /\ s.first = FALSE
                              /\ s.phase = "sent" /\ (s.type = "iSync" => s.token = data.token)
  BY ClSyncBegins
<1>3. CASE UNCHANGED <<runs, promise>>
  <2>1. Cl!TypeOK'
    BY <1>1, <1>2, <1>3 DEF ClIInv, Cl!TypeOK
  <2>. QED  BY <1>1, <1>3, <2>1, ClRestKeeps
<1>4. ASSUME NEW s \in Cl!Run, ClBegins(s), s.login = logins, s.phase = "sent",
             s.type = "iSync" => s.token = data.token
      PROVE  ClIInv'
  <2>1. /\ runs' \subseteq Cl!Run /\ promise' \in Nat
        /\ ClIdentified' /\ ClAllTold' /\ ClPendingIdle'
        /\ ~crossed => ClOneRun' /\ ClTokenKept' /\ status # "initializing"
    BY <1>1, <1>4, ClBeginsKeeps
  <2>2. Cl!TypeOK'
    BY <1>1, <1>2, <2>1 DEF ClIInv, Cl!TypeOK
  <2>3. ClClocked'
    BY <1>1 DEF ClIInv, ClClocked
  <2>4. ~crossed => ClKeptCover' /\ ClDataCover' /\ ClAwaited'
    BY <1>1, <2>1 DEF ClIInv, ClOrderly, ClKeptCover, ClDataCover, ClCovers, ClAwaited
  <2>. QED  BY <2>1, <2>2, <2>3, <2>4 DEF ClIInv, ClOrderly
<1>. QED  BY <1>2, <1>3, <1>4

LEMMA ClAsksKeep ==
  ASSUME ClIInv, ClBounds, Cl!TimerFires \/ Cl!Ask \/ \E o \in Owner : Cl!Wake(o) PROVE ClIInv'
<1>. events \in Nat /\ timer \in BOOLEAN /\ naps \subseteq Owner
  BY DEF ClIInv, Cl!TypeOK
<1>1. CASE Cl!TimerFires
  BY <1>1, ClSyncKeeps DEF Cl!TimerFires
<1>2. CASE Cl!Ask
  BY <1>2, ClSyncKeeps DEF Cl!Ask, Cl!Counted
<1>3. ASSUME NEW o \in Owner, Cl!Wake(o) PROVE ClIInv'
  <2>1. /\ UNCHANGED <<Cl!world, owner, logins, events, status, data, kept, timer, unheard, crossed>>
        /\ naps' \subseteq Owner /\ Cl!Settled
    BY <1>3 DEF Cl!Wake
  <2>2. CASE o = owner
    BY <1>3, <2>1, <2>2, ClSyncKeeps DEF Cl!Wake, ClBounds
  <2>3. CASE o # owner
    <3>1. UNCHANGED <<runs, promise, queue>>
      BY <1>3, <2>3 DEF Cl!Wake
    <3>2. Cl!TypeOK'
      BY <2>1, <3>1 DEF ClIInv, Cl!TypeOK, Cl!world
    <3>. QED  BY <2>1, <3>1, <3>2, ClRestKeeps DEF Cl!world
  <2>. QED  BY <2>2, <2>3
<1>. QED  BY <1>1, <1>2, <1>3

LEMMA ClInitializeKeeps == ASSUME ClIInv, ClBounds, Cl!Initialize PROVE ClIInv'
<1>1. /\ owner # none /\ status = "pending" /\ owner \in Owner
      /\ UNCHANGED <<cached, mayRead, clock, log, owner, logins, events, timer, unheard, naps, crossed>>
  BY DEF Cl!Initialize, Cl!ShouldInit, Cl!world, ClIInv, Cl!TypeOK
<1>2. /\ data' \in Cl!Data /\ (data' = data \/ data' = [data EXCEPT !.token = 0])
      /\ data' # data => data.token # 0
      /\ kept' = IF cached THEN [kept EXCEPT ![owner] = data'] ELSE kept
  BY <1>1 DEF Cl!Initialize, Cl!Holds, ClIInv, Cl!TypeOK, Cl!Data
<1>3. kept' \in [Owner -> Cl!Data]
  BY <1>1, <1>2 DEF ClIInv, Cl!TypeOK
<1>4. ASSUME ~crossed PROVE ClKeptCover' /\ ClDataCover'
  <2>1. ClOrderly /\ ClCovers(owner, data)
    BY <1>1, <1>4 DEF ClIInv, ClOrderly, ClDataCover
  <2>2. data'.of = data.of /\ data'.known = data.known /\ data'.token \in {0, data.token}
    BY <1>2 DEF ClIInv, Cl!TypeOK, Cl!Data
  <2>3. \A o \in Owner, c \in ClCall : log[o][c] \in Nat
    BY DEF ClIInv, Cl!TypeOK, Cl!Records
  <2>4. ClCovers(owner, data)'
    BY <1>1, <2>1, <2>2, <2>3 DEF ClCovers, ClIInv, Cl!TypeOK
  <2>5. ~cached => data' = data /\ data = Cl!Blank /\ kept' = kept
    BY <1>1, <1>2, <2>1 DEF ClOrderly, ClDataCover, Cl!Blank
  <2>6. ASSUME NEW o \in Owner PROVE ClCovers(o, kept[o])' /\ (~cached => kept'[o] = Cl!Blank)
    <3>1. ClCovers(o, kept[o]) /\ (~cached => kept[o] = Cl!Blank)
      BY <2>1 DEF ClOrderly, ClKeptCover
    <3>2. kept'[o] = kept[o] \/ (o = owner /\ kept'[o] = data')
      BY <1>1, <1>2 DEF ClIInv, Cl!TypeOK
    <3>3. ClCovers(o, kept[o])'
      BY <1>1, <2>4, <3>1, <3>2 DEF ClCovers
    <3>. QED  BY <2>5, <3>1, <3>3
  <2>7. ClKeptCover'
    BY <1>1, <2>6 DEF ClKeptCover
  <2>8. ClDataCover'
    BY <1>1, <2>4, <2>5 DEF ClDataCover
  <2>. QED  BY <2>7, <2>8
<1>5. ClOf(logins) = {} /\ ClClocked'
  BY <1>1 DEF ClIInv, ClPendingIdle, ClClocked
<1>6. CASE ~mayRead
  <2>1. status' = "ready" /\ UNCHANGED <<runs, promise, queue>>
    BY <1>6 DEF Cl!Initialize
  <2>2. Cl!TypeOK'
    BY <1>1, <1>2, <1>3, <2>1 DEF ClIInv, Cl!TypeOK
  <2>3. ClIdentified' /\ ClAllTold' /\ ClPendingIdle'
    BY <1>1, <2>1 DEF ClIInv, ClIdentified, ClAllTold, ClTold, ClPendingIdle
  <2>4. ClOneRun' /\ ClTokenKept' /\ ClAwaited'
    BY <1>1, <1>5, <2>1 DEF ClOneRun, ClTokenKept, ClAwaited, ClOf
  <2>. QED  BY <1>1, <1>4, <1>5, <2>2, <2>3, <2>4 DEF ClIInv, ClOrderly
<1>7. CASE mayRead /\ promise = 0
  <2>. DEFINE type == IF data'.token # 0 THEN "iSync" ELSE "fSync"
              s == [Cl!Sent(Cl!NewId, type, TRUE) EXCEPT !.token = data'.token]
  <2>1. /\ status' = "initializing" /\ runs' = runs \cup {s}
        /\ promise' = Cl!NewId /\ queue' = queue
    BY <1>7 DEF Cl!Initialize, Cl!Free
  <2>2. /\ s \in Cl!Run /\ s.id = Cl!NewId /\ s.login = logins /\ s.first = TRUE
        /\ s.phase = "sent" /\ s.token = data'.token
    <3>1. type \in {"iSync", "fSync"} /\ data'.token \in Nat
      BY <1>2 DEF Cl!Data
    <3>2. /\ Cl!Sent(Cl!NewId, type, TRUE) \in Cl!Run /\ Cl!Sent(Cl!NewId, type, TRUE).id = Cl!NewId
          /\ Cl!Sent(Cl!NewId, type, TRUE).login = logins /\ Cl!Sent(Cl!NewId, type, TRUE).first = TRUE
          /\ Cl!Sent(Cl!NewId, type, TRUE).phase = "sent"
      <4>1. Cl!NewId \in Nat \ {0} /\ type \in {"iSync", "fSync"}
        BY <3>1, ClNewIdFresh
      <4>. HIDE DEF s, type
      <4>2. \A f \in BOOLEAN :
              /\ Cl!Sent(Cl!NewId, type, f) \in Cl!Run /\ Cl!Sent(Cl!NewId, type, f).id = Cl!NewId
              /\ Cl!Sent(Cl!NewId, type, f).login = logins /\ Cl!Sent(Cl!NewId, type, f).first = f
              /\ Cl!Sent(Cl!NewId, type, f).phase = "sent"
        BY <4>1, ClSentType
      <4>. QED  BY <4>2, Zenon
    <3>. DEFINE b == Cl!Sent(Cl!NewId, type, TRUE)
    <3>3. /\ b \in Cl!Run /\ b.id = Cl!NewId /\ b.login = logins /\ b.first = TRUE /\ b.phase = "sent"
          /\ s = [b EXCEPT !.token = data'.token]
      BY <3>2
    <3>. HIDE DEF b, s, type
    <3>. QED  BY <3>1, <3>3 DEF Cl!Run
  <2>. HIDE DEF s
  <2>3. ClBegins(s)
    BY <1>7, <2>1, <2>2, ClNewIdFresh DEF ClBegins
  <2>4. /\ runs' \subseteq Cl!Run /\ promise' \in Nat
        /\ ClIdentified' /\ ClAllTold' /\ ClPendingIdle'
        /\ ~crossed => ClOneRun' /\ ClTokenKept'
    BY <1>1, <2>1, <2>2, <2>3, ClBeginsKeeps
  <2>5. Cl!TypeOK'
    BY <1>1, <1>2, <1>3, <2>1, <2>4 DEF ClIInv, Cl!TypeOK
  <2>6. ClAwaited'
    BY <2>1, <2>2 DEF ClAwaited
  <2>. QED  BY <1>1, <1>4, <1>5, <2>4, <2>5, <2>6 DEF ClIInv, ClOrderly
<1>8. CASE mayRead /\ promise # 0
  <2>1. status' = "initializing" /\ Cl!Sync(TRUE)
    BY <1>8 DEF Cl!Initialize, Cl!Free
  <2>2. /\ queue' \in [after : Nat, type : {"iSync", "fSync"}, first : BOOLEAN] \cup {none}
        /\ UNCHANGED <<runs, promise>>
    BY <1>8, <2>1, ClSyncBegins DEF ClBegins
  <2>3. Cl!TypeOK'
    BY <1>1, <1>2, <1>3, <2>1, <2>2 DEF ClIInv, Cl!TypeOK
  <2>4. ClIdentified' /\ ClAllTold' /\ ClPendingIdle'
    BY <1>1, <2>1, <2>2 DEF ClIInv, ClIdentified, ClAllTold, ClTold, ClPendingIdle
  <2>5. ClOneRun' /\ ClTokenKept'
    BY <1>1, <1>5, <2>2 DEF ClOneRun, ClTokenKept, ClOf
  <2>6. ClAwaited'
    BY <1>1, <1>5, <1>8, <2>2 DEF ClIInv, ClIdentified, ClAwaited, ClOf
  <2>. QED  BY <1>1, <1>4, <1>5, <2>3, <2>4, <2>5, <2>6 DEF ClIInv, ClOrderly
<1>. QED  BY <1>6, <1>7, <1>8

LEMMA ClResetKeeps == ASSUME ClIInv, ClBounds, Cl!Reset PROVE ClIInv'
<1>1. /\ owner = none /\ status' = "pending" /\ data' = Cl!Blank /\ kept' = kept
      /\ timer' = FALSE /\ promise' = 0
      /\ UNCHANGED <<cached, mayRead, clock, log, owner, logins, events, runs, queue, unheard,
                     naps, crossed>>
  BY DEF Cl!Reset, Cl!ShouldReset, Cl!Holds, Cl!world
<1>2. Cl!Blank \in Cl!Data
  BY DEF Cl!Blank, Cl!Data, Cl!Nothing, Cl!Records
<1>3. Cl!TypeOK'
  BY <1>1, <1>2 DEF ClIInv, Cl!TypeOK
<1>4. ClIdentified' /\ ClClocked' /\ ClPendingIdle' /\ ClAllTold'
  BY <1>1 DEF ClIInv, ClIdentified, ClClocked, ClPendingIdle, ClAllTold, ClTold
<1>5. ClOrderly => ClOrderly'
  BY <1>1 DEF ClOrderly, ClKeptCover, ClDataCover, ClCovers, ClOneRun, ClTokenKept, ClAwaited, ClOf
<1>. QED  BY <1>1, <1>3, <1>4, <1>5 DEF ClIInv

LEMMA ClChangeKeeps == ASSUME ClIInv, ClBounds, NEW o \in Owner, NEW c \in ClCall, Cl!Change(o, c) PROVE ClIInv'
<1>1. /\ clock' = clock + 1 /\ log' = [log EXCEPT ![o][c] = clock + 1] /\ unheard' \in BOOLEAN
      /\ UNCHANGED <<cached, mayRead, owner, logins, events, status, data, kept, runs, promise,
                     queue, timer, naps, crossed>>
  BY DEF Cl!Change, ClIInv, Cl!TypeOK
<1>2. /\ clock \in Nat
      /\ \A p \in Owner, d \in ClCall :
           /\ log[p][d] \in Nat /\ log[p][d] <= clock
           /\ log'[p][d] = IF p = o /\ d = c THEN clock + 1 ELSE log[p][d]
  BY <1>1 DEF ClIInv, Cl!TypeOK, ClClocked, Cl!Records
<1>3. Cl!TypeOK'
  <2>1. log' \in [Owner -> Cl!Records]
    BY <1>1, <1>2 DEF ClIInv, Cl!TypeOK, Cl!Records
  <2>. QED  BY <1>1, <1>2, <2>1 DEF ClIInv, Cl!TypeOK
<1>4. ClIdentified' /\ ClPendingIdle'
  BY <1>1 DEF ClIInv, ClIdentified, ClPendingIdle, ClOf
<1>5. ClClocked'
  BY <1>1, <1>2 DEF ClClocked
<1>6. ClAllTold'
  <2>. SUFFICES ASSUME NEW r \in runs, r.phase \in {"served", "more", "complete"} PROVE ClTold(r)'
    BY <1>1 DEF ClAllTold
  <2>1. ClTold(r) /\ r.till \in Nat /\ r.got \in Cl!Records /\ r.token \in Nat
    BY DEF ClIInv, ClAllTold, Cl!TypeOK, Cl!Run
  <2>2. \A d \in ClCall : r.got[d] \in Nat
    BY <2>1 DEF Cl!Records
  <2>3. \A d \in ClCall : r.got[d] <= log'[r.of][d]
    BY <1>2, <2>1, <2>2 DEF ClTold
  <2>4. ASSUME NEW d \in ClCall, log'[r.of][d] < r.till
        PROVE  \/ r.got[d] = log'[r.of][d]
               \/ r.type = "iSync" /\ log'[r.of][d] < r.token /\ r.got[d] = 0
               \/ d \in r.left /\ r.phase \in {"served", "more"}
    <3>1. log'[r.of][d] = log[r.of][d]
      BY <1>2, <2>1, <2>4 DEF ClTold
    <3>. QED  BY <2>1, <2>4, <3>1 DEF ClTold
  <2>5. r.of \in Owner /\ r.till <= clock' + 1
    BY <1>1, <1>2, <2>1 DEF ClTold
  <2>. QED  BY <2>1, <2>3, <2>4, <2>5 DEF ClTold
<1>7. ASSUME NEW p \in Owner, NEW d \in Cl!Data, ClCovers(p, d)
      PROVE  /\ d.of \in {p, none} /\ d.token <= clock' + 1
             /\ \A e \in ClCall : /\ d.known[e] <= log'[p][e]
                                  /\ log'[p][e] < d.token => d.known[e] = log'[p][e]
  <2>1. d.token \in Nat /\ \A e \in ClCall : d.known[e] \in Nat
    BY DEF Cl!Data, Cl!Records
  <2>2. d.token <= clock + 1
    BY <1>7 DEF ClCovers
  <2>3. ASSUME NEW e \in ClCall
        PROVE  d.known[e] <= log'[p][e] /\ (log'[p][e] < d.token => d.known[e] = log'[p][e])
    BY <1>2, <1>7, <2>1, <2>2 DEF ClCovers
  <2>. QED  BY <1>1, <1>2, <1>7, <2>1, <2>2, <2>3 DEF ClCovers
<1>8. ClOrderly => ClOrderly'
  <2>. SUFFICES ASSUME ClOrderly PROVE ClOrderly'
    OBVIOUS
  <2>1. ClKeptCover'
    <3>1. ASSUME NEW p \in Owner PROVE ClCovers(p, kept[p])' /\ (~cached => kept'[p] = Cl!Blank)
      <4>1. kept[p] \in Cl!Data /\ ClCovers(p, kept[p])
        BY DEF ClIInv, Cl!TypeOK, ClOrderly, ClKeptCover
      <4>2. ClCovers(p, kept[p])'
        BY <1>1, <1>7, <4>1 DEF ClCovers
      <4>. QED  BY <1>1, <4>2 DEF ClOrderly, ClKeptCover
    <3>. QED  BY <1>1, <3>1 DEF ClKeptCover
  <2>2. ClDataCover'
    <3>1. ASSUME owner # none PROVE ClCovers(owner, data)'
      <4>1. owner \in Owner /\ data \in Cl!Data /\ ClCovers(owner, data)
        BY <3>1 DEF ClIInv, Cl!TypeOK, ClOrderly, ClDataCover
      <4>. QED  BY <1>1, <1>7, <4>1 DEF ClCovers
    <3>. QED  BY <1>1, <3>1 DEF ClOrderly, ClDataCover
  <2>3. ClOneRun' /\ ClTokenKept' /\ ClAwaited'
    BY <1>1 DEF ClOrderly, ClOneRun, ClTokenKept, ClAwaited, ClOf
  <2>. QED  BY <2>1, <2>2, <2>3 DEF ClOrderly
<1>. QED  BY <1>1, <1>3, <1>4, <1>5, <1>6, <1>8 DEF ClIInv

LEMMA ClServeKeeps == ASSUME ClIInv, ClBounds, NEW r \in runs, Cl!Serve(r) PROVE ClIInv'
<1>0. /\ r \in Cl!Run /\ r.phase = "sent" /\ Cl!Settled /\ ~Cl!Refused(r) /\ r.of \in Owner
      /\ UNCHANGED <<Cl!world, owner, logins, events, data, kept, unheard, naps, crossed>>
  BY DEF Cl!Serve, Cl!Refused, ClIInv, Cl!TypeOK, Cl!Run
<1>1. \A c \in ClCall : log[r.of][c] \in Nat /\ log[r.of][c] <= clock
  BY <1>0 DEF ClIInv, Cl!TypeOK, Cl!Records, ClClocked
<1>. DEFINE s(page) ==
       [r EXCEPT !.phase = "served", !.till = clock + 1,
          !.got = [c \in ClCall |-> IF c \in page THEN log[r.of][c] ELSE 0],
          !.left = IF r.type = "fSync" THEN Cl!Exists(r.of) \ page ELSE {}]
<1>2. PICK page \in SUBSET Cl!Exists(r.of) :
        /\ IF r.type = "iSync" THEN page = {c \in Cl!Exists(r.of) : Cl!Since(c, r)}
           ELSE \/ page = Cl!Exists(r.of) /\ Cardinality(page) <= ClRecordCount
                \/ page # Cl!Exists(r.of) /\ Cardinality(page) = ClRecordCount
        /\ Cl!Becomes(r, s(page))
  BY ClCardinality DEF Cl!Serve
<1>3. page \subseteq ClCall /\ \A c \in page : log[r.of][c] # 0
  BY DEF Cl!Exists
<1>. DEFINE t == s(page)
<1>4. /\ t.id = r.id /\ t.login = r.login /\ t.first = r.first /\ t.type = r.type
      /\ t.token = r.token /\ t.of = r.of /\ t.phase = "served" /\ t.till = clock + 1
      /\ t.got = [c \in ClCall |-> IF c \in page THEN log[r.of][c] ELSE 0]
      /\ t.left = IF r.type = "fSync" THEN Cl!Exists(r.of) \ page ELSE {}
  BY <1>0 DEF Cl!Run
<1>5. t \in Cl!Run
  <2>1. t.got \in Cl!Records /\ t.left \subseteq ClCall /\ t.till \in Nat
    BY <1>1, <1>4 DEF Cl!Records, Cl!Exists, ClIInv, Cl!TypeOK
  <2>. QED  BY <1>0, <1>4, <2>1 DEF Cl!Run
<1>6. Cl!Becomes(r, t)
  BY <1>2
<1>. HIDE DEF t
<1>7. ClTold(t)
  <2>1. t.of \in Owner /\ t.till <= clock + 1 /\ (t.left # {} => t.type = "fSync")
    BY <1>0, <1>4 DEF ClIInv, Cl!TypeOK
  <2>2. ASSUME t.left # {} PROVE Cardinality({c \in ClCall : t.got[c] # 0}) >= ClRecordCount
    <3>1. {c \in ClCall : t.got[c] # 0} = page
      BY <1>3, <1>4
    <3>2. Cardinality(page) = ClRecordCount
      BY <1>0, <1>2, <1>4, <2>2 DEF Cl!Run
    <3>. QED  BY <3>1, <3>2 DEF ClBounds
  <2>3. ASSUME NEW c \in ClCall
        PROVE  /\ t.got[c] <= log[t.of][c]
               /\ \/ t.got[c] = log[t.of][c]
                  \/ t.type = "iSync" /\ log[t.of][c] < t.token /\ t.got[c] = 0
                  \/ c \in t.left
    <3>1. CASE c \in page
      BY <1>1, <1>4, <3>1
    <3>2. CASE c \notin page
      <4>1. t.got[c] = 0
        BY <1>4, <3>2
      <4>2. r.token \in Nat /\ log[r.of][c] \in Nat /\ r.type \in {"iSync", "fSync"}
        BY <1>0, <1>1 DEF Cl!Run
      <4>3. CASE r.type = "iSync"
        BY <1>2, <1>4, <3>2, <4>1, <4>2, <4>3 DEF Cl!Exists, Cl!Since
      <4>4. CASE r.type = "fSync"
        BY <1>4, <3>2, <4>1, <4>2, <4>4 DEF Cl!Exists
      <4>. QED  BY <4>2, <4>3, <4>4
    <3>. QED  BY <3>1, <3>2
  <2>. QED  BY <1>4, <2>1, <2>2, <2>3 DEF ClTold
<1>. QED  BY <1>0, <1>4, <1>5, <1>6, <1>7, ClBecomesKeeps

LEMMA ClServeMoreKeeps == ASSUME ClIInv, ClBounds, NEW r \in runs, Cl!ServeMore(r) PROVE ClIInv'
<1>. DEFINE t == [r EXCEPT !.phase = "complete",
                    !.got = [c \in ClCall |-> IF c \in r.left THEN log[r.of][c] ELSE @[c]]]
<1>1. /\ Cl!Becomes(r, t) /\ Cl!Settled /\ r.phase = "more"
      /\ UNCHANGED <<Cl!world, owner, logins, events, data, kept, unheard, naps, crossed>>
  BY DEF Cl!ServeMore
<1>2. r \in Cl!Run /\ ClTold(r)
  BY <1>1 DEF ClIInv, Cl!TypeOK, ClAllTold
<1>3. /\ t.id = r.id /\ t.login = r.login /\ t.first = r.first /\ t.type = r.type
      /\ t.token = r.token /\ t.of = r.of /\ t.phase = "complete" /\ t.till = r.till
      /\ t.got = [c \in ClCall |-> IF c \in r.left THEN log[r.of][c] ELSE r.got[c]]
      /\ t.left = r.left
  BY <1>2 DEF Cl!Run
<1>4. r.of \in Owner /\ \A c \in ClCall : log[r.of][c] \in Nat /\ r.got[c] \in Nat
  BY <1>2 DEF ClIInv, Cl!TypeOK, Cl!Records, ClTold, Cl!Run
<1>5. t \in Cl!Run
  <2>1. t.got \in Cl!Records
    BY <1>3, <1>4 DEF Cl!Records
  <2>. QED  BY <1>2, <1>3, <2>1 DEF Cl!Run
<1>. HIDE DEF t
<1>6. ClTold(t)
  <2>1. ASSUME NEW c \in ClCall
        PROVE  /\ t.got[c] <= log[t.of][c]
               /\ log[t.of][c] < t.till =>
                    \/ t.got[c] = log[t.of][c]
                    \/ t.type = "iSync" /\ log[t.of][c] < t.token /\ t.got[c] = 0
    BY <1>2, <1>3, <1>4 DEF ClTold
  <2>. QED  BY <1>2, <1>3, <2>1 DEF ClTold
<1>7. t.type = "iSync" => r.phase # "delay" /\ t.token = r.token
  BY <1>1, <1>3
<1>. QED  BY <1>1, <1>3, <1>5, <1>6, <1>7, ClBecomesKeeps

LEMMA ClSupplementKeeps == ASSUME ClIInv, ClBounds, NEW r \in runs, Cl!Supplement(r) PROVE ClIInv'
<1>. DEFINE t == [r EXCEPT !.phase = "more"]
<1>1. /\ Cl!Becomes(r, t) /\ Cl!Settled /\ r.phase = "served" /\ r.type = "fSync"
      /\ UNCHANGED <<Cl!world, owner, logins, events, data, kept, unheard, naps, crossed>>
  BY DEF Cl!Supplement
<1>2. r \in Cl!Run /\ ClTold(r)
  BY <1>1 DEF ClIInv, Cl!TypeOK, ClAllTold
<1>3. t \in Cl!Run /\ t = [r EXCEPT !.phase = "more"]
  BY <1>2 DEF Cl!Run
<1>4. /\ t.id = r.id /\ t.login = r.login /\ t.first = r.first /\ t.type = r.type
      /\ t.token = r.token /\ t.of = r.of /\ t.phase = "more" /\ t.till = r.till
      /\ t.got = r.got /\ t.left = r.left
  BY <1>2 DEF Cl!Run
<1>. HIDE DEF t
<1>5. ClTold(t)
  BY <1>1, <1>2, <1>4 DEF ClTold
<1>. QED  BY <1>1, <1>3, <1>4, <1>5, ClBecomesKeeps

\* What comes of an answer: data with all that its token covers.
LEMMA ClMergedCovers ==
  ASSUME ClIInv, ClBounds, ~crossed, NEW r \in runs, Cl!Settled, Cl!Answered(r), Cl!SameOwner(r),
         r.login = logins
  PROVE  ClCovers(owner, Cl!Merged(r))
<1>1. r \in Cl!Run /\ ClTold(r) /\ r.phase \in {"served", "complete"}
  BY DEF Cl!Answered, ClIInv, Cl!TypeOK, ClAllTold
<1>2. ClOrderly /\ owner \in Owner /\ owner # none /\ r.of = owner
  BY <1>1 DEF ClIInv, Cl!SameOwner, ClTold, ClBounds
<1>3. ClCovers(owner, data)
  BY <1>2 DEF ClOrderly, ClDataCover
<1>4. r.type = "iSync" => r.token = data.token
  BY <1>1, <1>2 DEF ClOrderly, ClTokenKept, ClOf
<1>5. r.phase = "served" => r.left = {}
  BY <1>1, <1>2, ClCardinality DEF Cl!Answered, ClTold, ClBounds
<1>6. ASSUME NEW c \in ClCall
      PROVE  /\ Cl!Merged(r).known[c] <= log[owner][c]
             /\ log[owner][c] < r.till => Cl!Merged(r).known[c] = log[owner][c]
  <2>1. /\ r.got[c] \in Nat /\ data.known[c] \in Nat /\ log[owner][c] \in Nat
        /\ r.till \in Nat /\ r.token \in Nat
    BY <1>1, <1>2 DEF Cl!Run, Cl!Records, ClIInv, Cl!TypeOK, Cl!Data
  <2>2. Cl!Merged(r).known[c] = IF r.got[c] # 0 THEN r.got[c] ELSE data.known[c]
    BY DEF Cl!Merged
  <2>3. /\ r.got[c] <= log[owner][c]
        /\ log[owner][c] < r.till =>
             \/ r.got[c] = log[owner][c]
             \/ r.type = "iSync" /\ log[owner][c] < r.token /\ r.got[c] = 0
    BY <1>1, <1>2, <1>5 DEF ClTold
  <2>4. /\ data.known[c] <= log[owner][c]
        /\ log[owner][c] < data.token => data.known[c] = log[owner][c]
    BY <1>3 DEF ClCovers
  <2>. QED  BY <1>4, <2>1, <2>2, <2>3, <2>4
<1>7. Cl!Merged(r).of = owner /\ Cl!Merged(r).token = r.till /\ r.till <= clock + 1
  BY <1>1 DEF Cl!Merged, ClTold
<1>. QED  BY <1>6, <1>7 DEF ClCovers

LEMMA ClAnswerKeeps == ASSUME ClIInv, ClBounds, NEW r \in runs, Cl!Answer(r) PROVE ClIInv'
<1>1. /\ Cl!Settled /\ Cl!Answered(r) /\ Cl!Over(r, ClPolling)
      /\ UNCHANGED <<cached, mayRead, clock, log, owner, logins, events, unheard, naps>>
      /\ IF Cl!SameOwner(r) THEN Cl!Holds(Cl!Merged(r)) ELSE UNCHANGED <<data, kept>>
  BY DEF Cl!Answer, Cl!world
<1>2. /\ runs' \subseteq Cl!Run /\ promise' \in Nat /\ timer' \in BOOLEAN
      /\ queue' \in [after : Nat, type : {"iSync", "fSync"}, first : BOOLEAN] \cup {none}
      /\ status' \in {"initializing", "pending", "ready"}
      /\ ClIdentified' /\ ClAllTold' /\ ClPendingIdle'
      /\ crossed' \in BOOLEAN /\ (crossed => crossed')
      /\ ~crossed' => r.login = logins /\ ClOneRun' /\ ClTokenKept' /\ ClAwaited'
  BY <1>1, ClOverKeeps DEF ClBounds
<1>3. r \in Cl!Run /\ ClTold(r)
  BY <1>1 DEF Cl!Answered, ClIInv, Cl!TypeOK, ClAllTold
<1>4. data' \in Cl!Data /\ kept' \in [Owner -> Cl!Data]
  <2>1. Cl!Merged(r) \in Cl!Data
    <3>1. \A c \in ClCall : r.got[c] \in Nat /\ data.known[c] \in Nat
      BY <1>3 DEF Cl!Run, Cl!Records, ClIInv, Cl!TypeOK, Cl!Data
    <3>2. r.till \in Nat /\ owner \in Owner \cup {none}
      BY <1>3 DEF Cl!Run, ClIInv, Cl!TypeOK
    <3>. QED  BY <3>1, <3>2 DEF Cl!Merged, Cl!Data, Cl!Records
  <2>2. owner = none \/ owner \in Owner
    BY DEF ClIInv, Cl!TypeOK
  <2>. QED  BY <1>1, <2>1, <2>2 DEF Cl!Holds, ClIInv, Cl!TypeOK
<1>5. Cl!TypeOK' /\ ClClocked'
  BY <1>1, <1>2, <1>4 DEF ClIInv, Cl!TypeOK, ClClocked
<1>6. ASSUME ~crossed' PROVE ClKeptCover' /\ ClDataCover'
  <2>1. ~crossed /\ ClOrderly /\ r.login = logins
    BY <1>2, <1>6 DEF ClIInv
  <2>2. CASE ~Cl!SameOwner(r)
    <3>1. UNCHANGED <<data, kept, cached, log, clock, owner>>
      BY <1>1, <2>2
    <3>2. status' \in {status, "ready"}
      BY <1>1 DEF Cl!Over
    <3>. QED  BY <2>1, <3>1, <3>2 DEF ClOrderly, ClKeptCover, ClDataCover, ClCovers
  <2>3. CASE Cl!SameOwner(r)
    <3>1. ClCovers(owner, Cl!Merged(r)) /\ owner \in Owner /\ owner # none
      BY <1>1, <1>3, <2>1, <2>3, ClMergedCovers DEF Cl!SameOwner, ClTold, ClBounds
    <3>2. /\ data' = Cl!Merged(r)
          /\ kept' = IF cached THEN [kept EXCEPT ![owner] = Cl!Merged(r)] ELSE kept
      BY <1>1, <2>3, <3>1 DEF Cl!Holds
    <3>3. ClCovers(owner, data)'
      BY <1>1, <3>1, <3>2 DEF ClCovers
    <3>4. ClKeptCover'
      <4>. SUFFICES ASSUME NEW o \in Owner PROVE ClCovers(o, kept[o])' /\ (~cached => kept'[o] = Cl!Blank)
        BY <1>1 DEF ClKeptCover
      <4>1. kept'[o] = kept[o] \/ (cached /\ o = owner /\ kept'[o] = data')
        BY <3>2 DEF ClIInv, Cl!TypeOK
      <4>. QED  BY <1>1, <2>1, <3>3, <4>1 DEF ClOrderly, ClKeptCover, ClCovers
    <3>5. status' = "ready" \/ status = "ready"
      <4>1. status # "pending"
        BY <1>1, <3>1 DEF Cl!Settled, Cl!ShouldInit
      <4>2. ASSUME status = "initializing" PROVE r.first
        <5>1. PICK s \in runs : s.id = promise /\ (s.login # logins \/ s.first)
          BY <2>1, <4>2 DEF ClOrderly, ClAwaited
        <5>2. r.id = promise
          BY <2>1, <3>1 DEF ClOrderly, ClOneRun, ClOf
        <5>. QED  BY <2>1, <5>1, <5>2 DEF ClIInv, ClIdentified
      <4>. QED  BY <1>1, <4>1, <4>2 DEF Cl!Over, ClIInv, Cl!TypeOK
    <3>6. status' = "ready"
      BY <1>1, <3>5 DEF Cl!Over
    <3>7. ClDataCover'
      BY <1>1, <3>1, <3>3, <3>6 DEF ClDataCover
    <3>. QED  BY <3>4, <3>7
  <2>. QED  BY <2>2, <2>3
<1>. QED  BY <1>2, <1>5, <1>6 DEF ClIInv, ClOrderly

LEMMA ClFailKeeps == ASSUME ClIInv, ClBounds, NEW r \in runs, Cl!Fail(r) PROVE ClIInv'
<1>1. /\ Cl!Settled /\ r.phase # "delay" /\ events' \in Nat
      /\ UNCHANGED <<Cl!world, owner, logins, data, kept, unheard, naps>>
      /\ UNCHANGED <<cached, mayRead, clock, log>>
  BY DEF Cl!Fail, Cl!Counted, ClIInv, Cl!TypeOK, Cl!world
<1>2. CASE r.type = "iSync" /\ r.of = owner
  <2>. DEFINE s == [Cl!Sent(r.id, "fSync", r.first) EXCEPT !.login = r.login]
  <2>1. Cl!Becomes(r, s) /\ crossed' = crossed
    BY <1>2 DEF Cl!Fail
  <2>2. r \in Cl!Run /\ r.id \in Nat \ {0} /\ r.first \in BOOLEAN
    BY DEF ClIInv, Cl!TypeOK, Cl!Run
  <2>3. /\ s \in Cl!Run /\ s.id = r.id /\ s.login = r.login /\ s.first = r.first /\ s.phase = "sent"
        /\ s.type = "fSync"
    <3>1. /\ Cl!Sent(r.id, "fSync", r.first) \in Cl!Run /\ Cl!Sent(r.id, "fSync", r.first).id = r.id
          /\ Cl!Sent(r.id, "fSync", r.first).first = r.first /\ Cl!Sent(r.id, "fSync", r.first).phase = "sent"
          /\ Cl!Sent(r.id, "fSync", r.first).type = "fSync"
      BY <2>2, ClSentType
    <3>2. r.login \in Nat
      BY <2>2 DEF Cl!Run
    <3>. QED  BY <3>1, <3>2 DEF Cl!Run
  <2>. HIDE DEF s
  <2>4. /\ runs' = (runs \ {r}) \cup {s} /\ UNCHANGED <<promise, queue, timer, status>>
    BY <2>1 DEF Cl!Becomes
  <2>5. runs' \subseteq Cl!Run /\ ClIdentified' /\ ClAllTold' /\ ClPendingIdle'
    BY <1>1, <2>3, <2>4, ClReplacedKeeps
  <2>6. Cl!TypeOK' /\ ClClocked'
    BY <1>1, <2>1, <2>4, <2>5 DEF ClIInv, Cl!TypeOK, ClClocked
  <2>7. ClOrderly => ClOrderly'
    <3>1. ClKeptCover /\ ClDataCover => ClKeptCover' /\ ClDataCover'
      BY <1>1, <2>4 DEF ClKeptCover, ClDataCover, ClCovers
    <3>2. ClOneRun /\ ClTokenKept /\ ClAwaited => ClOneRun' /\ ClTokenKept' /\ ClAwaited'
      BY <1>1, <2>3, <2>4 DEF ClOneRun, ClTokenKept, ClAwaited, ClOf
    <3>. QED  BY <3>1, <3>2 DEF ClOrderly
  <2>. QED  BY <2>1, <2>5, <2>6, <2>7 DEF ClIInv
<1>3. CASE ~(r.type = "iSync" /\ r.of = owner)
  <2>. DEFINE ready == ClPolling \/ r.of = owner
  <2>0. Cl!Over(r, ready)
    BY <1>3 DEF Cl!Fail
  <2>1. ready \in BOOLEAN
    OBVIOUS
  <2>. HIDE DEF ready
  <2>2. /\ runs' \subseteq Cl!Run /\ promise' \in Nat /\ timer' \in BOOLEAN
        /\ queue' \in [after : Nat, type : {"iSync", "fSync"}, first : BOOLEAN] \cup {none}
        /\ status' \in {"initializing", "pending", "ready"}
        /\ ClIdentified' /\ ClAllTold' /\ ClPendingIdle'
        /\ crossed' \in BOOLEAN /\ (crossed => crossed')
        /\ ~crossed' => r.login = logins /\ ClOneRun' /\ ClTokenKept' /\ ClAwaited'
    BY <1>1, <2>0, <2>1, ClOverKeeps
  <2>3. Cl!TypeOK' /\ ClClocked'
    BY <1>1, <2>2 DEF ClIInv, Cl!TypeOK, ClClocked
  <2>4. status' \in {status, "ready"}
    BY <2>0 DEF Cl!Over
  <2>5. ClKeptCover /\ ClDataCover => ClKeptCover' /\ ClDataCover'
    BY <1>1, <2>4 DEF ClKeptCover, ClDataCover, ClCovers
  <2>. QED  BY <2>2, <2>3, <2>5 DEF ClIInv, ClOrderly
<1>. QED  BY <1>2, <1>3

LEMMA ClBeginKeeps == ASSUME ClIInv, ClBounds, NEW r \in runs, Cl!Begin(r) PROVE ClIInv'
<1>. DEFINE s == Cl!Sent(r.id, r.type, r.first)
<1>1. /\ Cl!Settled /\ Cl!Becomes(r, s) /\ crossed' = (crossed \/ r.login # logins)
      /\ UNCHANGED <<Cl!world, owner, logins, events, data, kept, unheard, naps>>
      /\ UNCHANGED <<cached, mayRead, clock, log>>
  BY DEF Cl!Begin, Cl!world
<1>2. r \in Cl!Run /\ r.id \in Nat \ {0} /\ r.first \in BOOLEAN /\ r.type \in {"iSync", "fSync"}
  BY DEF ClIInv, Cl!TypeOK, Cl!Run
<1>3. /\ s \in Cl!Run /\ s.id = r.id /\ s.login = logins /\ s.first = r.first /\ s.phase = "sent"
      /\ s.type = r.type /\ (s.type = "iSync" => s.token = data.token)
  BY <1>2, ClSentType
<1>. HIDE DEF s
<1>4. /\ runs' = (runs \ {r}) \cup {s} /\ UNCHANGED <<promise, queue, timer, status>>
  BY <1>1 DEF Cl!Becomes
<1>5. runs' \subseteq Cl!Run /\ ClIdentified' /\ ClAllTold' /\ ClPendingIdle'
  BY <1>1, <1>3, <1>4, ClReplacedKeeps
<1>6. Cl!TypeOK' /\ ClClocked'
  <2>1. crossed' \in BOOLEAN
    BY <1>1
  <2>. QED  BY <1>1, <1>4, <1>5, <2>1 DEF ClIInv, Cl!TypeOK, ClClocked
<1>7. ASSUME ~crossed' PROVE ClOrderly'
  <2>1. ClOrderly /\ r.login = logins
    BY <1>1, <1>7 DEF ClIInv
  <2>2. ClKeptCover' /\ ClDataCover'
    BY <1>1, <1>4, <2>1 DEF ClOrderly, ClKeptCover, ClDataCover, ClCovers
  <2>3. ClOneRun' /\ ClTokenKept'
    BY <1>1, <1>3, <1>4, <2>1 DEF ClOrderly, ClOneRun, ClTokenKept, ClOf
  <2>4. ClAwaited'
    BY <1>1, <1>3, <1>4, <2>1 DEF ClOrderly, ClAwaited
  <2>. QED  BY <2>2, <2>3, <2>4 DEF ClOrderly
<1>. QED  BY <1>5, <1>6, <1>7 DEF ClIInv

LEMMA ClLoginKeeps == ASSUME ClIInv, ClBounds, NEW o \in Owner, Cl!Login(o) PROVE ClIInv'
<1>1. /\ Cl!Settled /\ owner = none /\ owner' = o /\ o # none /\ logins' = logins + 1
      /\ data' = IF cached THEN kept[o] ELSE data
      /\ UNCHANGED <<cached, mayRead, clock, log, events, status, kept, runs, promise, queue,
                     timer, unheard, naps, crossed>>
  BY DEF Cl!Login, Cl!world, ClBounds
<1>2. Cl!TypeOK' /\ ClClocked'
  BY <1>1 DEF ClIInv, Cl!TypeOK, ClClocked
<1>3. /\ logins \in Nat /\ \A r \in runs : r.login <= logins /\ r.login \in Nat
  BY DEF ClIInv, Cl!TypeOK, ClIdentified, Cl!Run
<1>4. ClOf(logins)' = {}
  BY <1>1, <1>3 DEF ClOf
<1>5. ClIdentified' /\ ClPendingIdle' /\ ClAllTold'
  BY <1>1, <1>3, <1>4 DEF ClIInv, ClIdentified, ClPendingIdle, ClAllTold, ClTold
<1>6. ClOrderly => ClOrderly'
  <2>. SUFFICES ASSUME ClOrderly PROVE ClOrderly'
    OBVIOUS
  <2>1. ~cached => data = Cl!Blank
    BY <1>1 DEF ClOrderly, ClDataCover, Cl!Settled, Cl!ShouldReset
  <2>2. ClCovers(o, data') /\ (~cached => data' = Cl!Blank)
    BY <1>1, <2>1 DEF ClOrderly, ClKeptCover
  <2>3. ClKeptCover' /\ ClDataCover'
    BY <1>1, <2>2 DEF ClOrderly, ClKeptCover, ClDataCover, ClCovers
  <2>4. ClOneRun' /\ ClTokenKept'
    BY <1>4 DEF ClOneRun, ClTokenKept
  <2>5. ClAwaited'
    BY <1>1, <1>3 DEF ClOrderly, ClAwaited
  <2>. QED  BY <2>3, <2>4, <2>5 DEF ClOrderly
<1>. QED  BY <1>1, <1>2, <1>5, <1>6 DEF ClIInv

LEMMA ClLogoutKeeps == ASSUME ClIInv, ClBounds, Cl!Logout PROVE ClIInv'
<1>1. /\ Cl!Settled /\ owner # none /\ owner' = none /\ unheard' = FALSE
      /\ data' = IF cached THEN Cl!Blank ELSE data
      /\ UNCHANGED <<cached, mayRead, clock, log, logins, events, status, kept, runs, promise,
                     queue, timer, naps, crossed>>
  BY DEF Cl!Logout, Cl!world
<1>2. Cl!Blank \in Cl!Data
  BY DEF Cl!Blank, Cl!Data, Cl!Nothing, Cl!Records
<1>3. Cl!TypeOK' /\ ClClocked'
  BY <1>1, <1>2 DEF ClIInv, Cl!TypeOK, ClClocked
<1>4. ClIdentified' /\ ClPendingIdle' /\ ClAllTold'
  BY <1>1 DEF ClIInv, ClIdentified, ClPendingIdle, ClAllTold, ClTold
<1>5. ClOrderly => ClOrderly'
  BY <1>1 DEF ClOrderly, ClKeptCover, ClDataCover, ClCovers, ClOneRun, ClTokenKept, ClAwaited, ClOf
<1>. QED  BY <1>1, <1>3, <1>4, <1>5 DEF ClIInv

LEMMA ClReloadKeeps == ASSUME ClIInv, ClBounds, Cl!Reload PROVE ClIInv'
<1>1. /\ owner # none /\ owner \in Owner /\ status' = "pending" /\ data' = kept[owner]
      /\ runs' = {} /\ promise' = 0 /\ queue' = none /\ timer' = FALSE /\ unheard' = FALSE
      /\ naps' = {} /\ events' \in Nat
      /\ UNCHANGED <<cached, mayRead, clock, log, owner, logins, kept, crossed>>
  BY DEF Cl!Reload, Cl!Counted, Cl!world, ClIInv, Cl!TypeOK
<1>2. Cl!TypeOK' /\ ClClocked'
  BY <1>1 DEF ClIInv, Cl!TypeOK, ClClocked
<1>3. ClIdentified' /\ ClPendingIdle' /\ ClAllTold'
  BY <1>1, FS_EmptySet DEF ClIdentified, ClPendingIdle, ClAllTold, ClOf
<1>4. ClOrderly => ClOrderly'
  <2>1. ClKeptCover => ClKeptCover' /\ ClDataCover'
    BY <1>1 DEF ClKeptCover, ClDataCover, ClCovers
  <2>2. ClOneRun' /\ ClTokenKept' /\ ClAwaited'
    BY <1>1 DEF ClOneRun, ClTokenKept, ClAwaited, ClOf
  <2>. QED  BY <2>1, <2>2 DEF ClOrderly
<1>. QED  BY <1>1, <1>2, <1>3, <1>4 DEF ClIInv

LEMMA ClNextIInv == ASSUME ClBounds PROVE ClIInv /\ [Cl!Next]_(Cl!vars) => ClIInv'
<1>. SUFFICES ASSUME ClIInv, [Cl!Next]_(Cl!vars) PROVE ClIInv'
  OBVIOUS
<1>1. CASE UNCHANGED Cl!vars
  <2>1. Cl!TypeOK'
    BY <1>1 DEF Cl!vars, Cl!world, ClIInv, Cl!TypeOK
  <2>. QED  BY <1>1, <2>1, ClRestKeeps DEF Cl!vars, Cl!world
<1>2. CASE Cl!Next
  BY <1>2, ClHearKeeps, ClAsksKeep, ClInitializeKeeps, ClResetKeeps, ClChangeKeeps, ClServeKeeps,
     ClServeMoreKeeps, ClSupplementKeeps, ClAnswerKeeps, ClFailKeeps, ClBeginKeeps, ClLoginKeeps,
     ClLogoutKeeps, ClReloadKeeps DEF Cl!Next
<1>. QED  BY <1>1, <1>2

\* For any users, calls, bounds and size of a page, the log is that of the user and complete
\* up to its token, and a login has one sync at a time, unless one of an earlier login got in.
LEMMA ClLogIsComplete == ASSUME ClBounds PROVE ClIInv => Cl!LogComplete
<1>. SUFFICES ASSUME ClIInv, ~crossed, Cl!Settled
              PROVE  /\ data.of \in {owner, none}
                     /\ owner # none => \A c \in ClCall : log[owner][c] < data.token =>
                                           data.known[c] = log[owner][c]
                     /\ \A r, s \in runs : r.login = logins /\ s.login = logins => r = s
  BY DEF Cl!LogComplete
<1>1. ClOrderly
  BY DEF ClIInv
<1>2. owner = none => data = Cl!Blank
  BY <1>1 DEF ClOrderly, ClDataCover, Cl!Settled, Cl!ShouldReset
<1>3. owner # none => ClCovers(owner, data)
  BY <1>1 DEF ClOrderly, ClDataCover
<1>. QED  BY <1>1, <1>2, <1>3 DEF ClCovers, Cl!Blank, ClOrderly, ClOneRun, ClOf

-----------------------------------------------------------------------------
(***************************************************************************)
(* Proofs about the calls on the screen: for any sessions and RingOut      *)
(* calls, and in whatever order the listeners run, no call gets lost.      *)
(***************************************************************************)

ChSets ==
  /\ ChRingOut \subseteq ChSession \X ChSession
  /\ none \notin SUBSET ChSession /\ none \notin SUBSET Ch!Item

\* The other leg of the session is in the log, which hides that of the session.
ChOtherLeg(session) == \E pair \in ChRingOut : session = pair[2] /\ <<pair[1], "Outbound">> \in records

\* What was seen active was active when the history last looked, or has ended, or is logged.
ChSeenFound ==
  /\ ~history.ready => seen = {} /\ history.last = none
  /\ history.last = none => seen = {}
  /\ history.ready /\ readiness["log"] =>
       \A session \in seen :
         session \in history.last \cup endedCalls \cup Ch!Logged \/ ChOtherLeg(session)

ChEndedUnlogged == history.log # none => endedCalls \cap history.log = {}

\* What a module has looked at since it last changed, the matchers were asked about.
ChMonitorMatched ==
  monitor.ready /\ Ch!MonitorMay /\ monitor.last # none /\ Ch!Sessions(monitor.last) = Ch!Active
    => Ch!Active \subseteq matched

ChHistoryMatched ==
  history.ready /\ Ch!HistoryMay /\ history.ids = Ch!Listed => Ch!Listed \subseteq matched

\* Before the listeners have run only one thing has changed: the presence or the log.
ChOneChange ==
  history.ready /\ Ch!HistoryMay /\ history.last # none =>
    history.last = Ch!Active \/ (history.log = Ch!Logged /\ history.ids = Ch!Listed)

ChMonitorFirst == history.ready => monitor.ready \/ ~Ch!MonitorMay

ChIInv == /\ Ch!TypeOK /\ ChSeenFound /\ ChEndedUnlogged /\ ChMonitorMatched /\ ChHistoryMatched
          /\ ChOneChange /\ ChMonitorFirst

--------------------
(* What the selectors return. *)

LEMMA ChMergedType == ASSUME NEW legs PROVE Ch!Merged(legs) \subseteq legs
  BY DEF Ch!Merged

LEMMA ChLoggedType == ASSUME Ch!TypeOK PROVE Ch!Logged \subseteq ChSession /\ Ch!Listed \subseteq ChSession
<1>1. Ch!Merged(records) \subseteq Ch!Leg
  BY ChMergedType DEF Ch!TypeOK
<1>2. \A leg \in Ch!Leg : leg[1] \in ChSession
  BY DEF Ch!Leg
<1>. QED  BY <1>1, <1>2 DEF Ch!TypeOK, Ch!Logged, Ch!Listed

LEMMA ChCallsType == ASSUME Ch!TypeOK PROVE Ch!monitorCalls \subseteq Ch!Item /\ Ch!Active \subseteq ChSession
<1>1. ASSUME NEW leg \in Ch!Merged(Ch!Legs)
      PROVE  /\ leg[1] \in ChSession /\ leg[2] \in Ch!Direction
             /\ Ch!MergedStatus(leg) \in Ch!Status
  <2>1. leg \in Ch!Leg /\ presence[leg] # none
    BY <1>1, ChMergedType DEF Ch!Legs
  <2>2. presence[leg] \in Ch!Status
    BY <2>1 DEF Ch!TypeOK
  <2>3. Ch!MergedStatus(leg) \in {"OnHold", presence[leg]}
    BY DEF Ch!MergedStatus
  <2>. QED  BY <2>1, <2>2, <2>3 DEF Ch!Leg, Ch!Status
<1>2. Ch!monitorCalls \subseteq Ch!Item
  <2>. SUFFICES ASSUME NEW leg \in Ch!Merged(Ch!Legs)
                PROVE  [session |-> leg[1], direction |-> leg[2],
                        status |-> Ch!MergedStatus(leg)] \in Ch!Item
    BY DEF Ch!monitorCalls
  <2>. QED  BY <1>1 DEF Ch!Item
<1>. QED  BY <1>2 DEF Ch!Active, Ch!Sessions, Ch!Item

\* A call that is logged stays so, by its other leg if that is logged too: outbound legs are
\* never hidden.
LEMMA ChLoggedStays ==
  ASSUME records \subseteq records', NEW session,
         session \in Ch!Logged \/ ChOtherLeg(session)
  PROVE  session \in Ch!Logged' \/ ChOtherLeg(session)'
<1>1. CASE ChOtherLeg(session)
  BY <1>1 DEF ChOtherLeg
<1>2. CASE session \in Ch!Logged
  <2>1. PICK leg \in Ch!Merged(records) : session = leg[1]
    BY <1>2 DEF Ch!Logged
  <2>2. leg \in records'
    BY <2>1, ChMergedType
  <2>3. CASE leg \in Ch!Merged(records')
    BY <2>1, <2>3 DEF Ch!Logged
  <2>4. CASE leg \notin Ch!Merged(records')
    <3>1. PICK pair \in ChRingOut : leg = <<pair[2], "Inbound">> /\ <<pair[1], "Outbound">> \in records'
      BY <2>2, <2>4 DEF Ch!Merged
    <3>. QED  BY <2>1, <3>1 DEF ChOtherLeg
  <2>. QED  BY <2>3, <2>4
<1>. QED  BY <1>1, <1>2

\* The other leg is in the log for all to see.
LEMMA ChOtherLegLogged ==
  ASSUME NEW session, ChOtherLeg(session)
  PROVE  \E pair \in ChRingOut : session = pair[2] /\ pair[1] \in Ch!Logged
<1>1. PICK pair \in ChRingOut : session = pair[2] /\ <<pair[1], "Outbound">> \in records
  BY DEF ChOtherLeg
<1>2. <<pair[1], "Outbound">> \in Ch!Merged(records)
  <2>1. \A p \in ChRingOut : <<pair[1], "Outbound">> # <<p[2], "Inbound">>
    OBVIOUS
  <2>. QED  BY <1>1, <2>1 DEF Ch!Merged
<1>3. <<pair[1], "Outbound">>[1] = pair[1]
  OBVIOUS
<1>4. pair[1] \in Ch!Logged
  BY <1>2, <1>3 DEF Ch!Logged
<1>. QED  BY <1>1, <1>4

LEMMA ChSelectorsKept ==
  /\ presence' = presence => Ch!monitorCalls' = Ch!monitorCalls /\ Ch!Active' = Ch!Active
  /\ records' = records => Ch!Logged' = Ch!Logged /\ \A s : ChOtherLeg(s)' <=> ChOtherLeg(s)
  /\ records' = records /\ endedCalls' = endedCalls => Ch!Listed' = Ch!Listed
  BY DEF Ch!monitorCalls, Ch!Active, Ch!Legs, Ch!MergedStatus, Ch!Logged, Ch!Listed, ChOtherLeg

--------------------
(* The inductive invariant. *)

LEMMA ChInitIInv == Ch!Init => ChIInv
<1>. SUFFICES ASSUME Ch!Init PROVE ChIInv
  OBVIOUS
<1>1. Ch!TypeOK
  BY DEF Ch!Init, Ch!TypeOK, Ch!Leg
<1>2. ~monitor.ready /\ ~history.ready /\ seen = {} /\ history.last = none /\ history.log = none
  BY DEF Ch!Init
<1>. QED  BY <1>1, <1>2 DEF ChIInv, ChSeenFound, ChEndedUnlogged, ChMonitorMatched, ChHistoryMatched,
                            ChOneChange, ChMonitorFirst

LEMMA ChMonitorReadyKeeps == ASSUME ChSets, ChIInv, Ch!MonitorReady PROVE ChIInv'
<1>1. /\ monitor' = [ready |-> Ch!MonitorMay, last |-> none] /\ monitor.ready # Ch!MonitorMay
      /\ UNCHANGED <<presence, records, readiness, history, endedCalls, matched, seen, changes>>
  BY DEF Ch!MonitorReady, Ch!MonitorTurns
<1>2. /\ monitor'.ready = Ch!MonitorMay /\ monitor'.last = none /\ Ch!MonitorMay' = Ch!MonitorMay
      /\ Ch!MonitorMay \in BOOLEAN /\ monitor.ready \in BOOLEAN /\ history.ready \in BOOLEAN
  BY <1>1 DEF Ch!MonitorMay, ChIInv, Ch!TypeOK, Ch!Part
<1>3. Ch!TypeOK'
  BY <1>1, <1>2 DEF ChIInv, Ch!TypeOK
<1>4. history.ready => ~Ch!HistoryMay'
  BY <1>1, <1>2 DEF ChIInv, ChMonitorFirst, Ch!HistoryMay
<1>5. ChSeenFound' /\ ChEndedUnlogged'
  BY <1>1, ChSelectorsKept DEF ChIInv, ChSeenFound, ChEndedUnlogged
<1>. QED  BY <1>1, <1>2, <1>3, <1>4, <1>5
     DEF ChIInv, ChMonitorMatched, ChHistoryMatched, ChOneChange, ChMonitorFirst

LEMMA ChQueriesType ==
  ASSUME Ch!TypeOK, NEW gone \in SUBSET ChSession
  PROVE  /\ Ch!Queries(gone) \subseteq ChSession
         /\ readiness["presence"] => Ch!Active \subseteq Ch!Queries(gone)
         /\ readiness["log"] /\ monitor.ready => Ch!Logged \cup gone \subseteq Ch!Queries(gone)
  BY ChCallsType, ChLoggedType DEF Ch!Queries

LEMMA ChMonitorCallsKeeps == ASSUME ChSets, ChIInv, Ch!MonitorCalls PROVE ChIInv'
<1>1. /\ monitor' = [monitor EXCEPT !.last = Ch!monitorCalls]
      /\ UNCHANGED <<presence, records, readiness, history, endedCalls, seen, changes>>
      /\ monitor.ready /\ Ch!MonitorMay
  BY DEF Ch!MonitorCalls, Ch!MonitorChanged
<1>2. monitor'.ready = monitor.ready /\ monitor'.last = Ch!monitorCalls
  BY <1>1 DEF ChIInv, Ch!TypeOK
<1>3. /\ Ch!Active' = Ch!Active /\ Ch!Logged' = Ch!Logged /\ Ch!Listed' = Ch!Listed /\ Ch!MonitorMay' = Ch!MonitorMay
      /\ Ch!HistoryMay' = Ch!HistoryMay
  BY <1>1, <1>2, ChSelectorsKept DEF Ch!MonitorMay, Ch!HistoryMay
<1>4. /\ matched' \subseteq ChSession /\ Ch!Active \subseteq matched'
      /\ matched' = matched \/ (Ch!HistoryMay => Ch!Listed \subseteq matched')
  <2>1. CASE monitor.last # none /\ Ch!Sessions(monitor.last) = Ch!Active
    <3>1. matched' = matched
      BY <2>1 DEF Ch!MonitorCalls
    <3>. QED  BY <1>1, <2>1, <3>1 DEF ChIInv, Ch!TypeOK, ChMonitorMatched
  <2>2. CASE ~(monitor.last # none /\ Ch!Sessions(monitor.last) = Ch!Active)
    <3>1. matched' = Ch!Queries(endedCalls) /\ endedCalls \in SUBSET ChSession
      BY <2>2 DEF Ch!MonitorCalls, ChIInv, Ch!TypeOK
    <3>. QED  BY <1>1, <3>1, ChQueriesType DEF ChIInv, Ch!MonitorMay, Ch!HistoryMay, Ch!Listed
  <2>. QED  BY <2>1, <2>2
<1>5. Ch!TypeOK'
  BY <1>1, <1>4, ChCallsType DEF ChIInv, Ch!TypeOK
<1>6. ChSeenFound' /\ ChEndedUnlogged'
  BY <1>1, ChSelectorsKept DEF ChIInv, ChSeenFound, ChEndedUnlogged
<1>7. ChMonitorMatched' /\ ChHistoryMatched'
  BY <1>1, <1>2, <1>3, <1>4 DEF ChIInv, ChMonitorMatched, ChHistoryMatched
<1>8. ChOneChange' /\ ChMonitorFirst'
  BY <1>1, <1>2, <1>3 DEF ChIInv, ChOneChange, ChMonitorFirst
<1>. QED  BY <1>5, <1>6, <1>7, <1>8 DEF ChIInv

LEMMA ChHistoryReadyKeeps == ASSUME ChSets, ChIInv, Ch!HistoryReady PROVE ChIInv'
<1>1. /\ history' = [ready |-> Ch!HistoryMay, last |-> none, log |-> none, ids |-> none]
      /\ endedCalls' = IF Ch!HistoryMay THEN endedCalls ELSE {}
      /\ seen' = {}
      /\ UNCHANGED <<presence, records, readiness, monitor, matched, changes>>
  BY DEF Ch!HistoryReady
<1>2. Ch!HistoryMay \in BOOLEAN /\ (Ch!HistoryMay => monitor.ready)
  BY DEF Ch!HistoryMay, ChIInv, Ch!TypeOK, Ch!Part
<1>3. /\ history'.ready = Ch!HistoryMay /\ history'.last = none /\ history'.log = none
      /\ history'.ids = none /\ Ch!Listed' # none
  <2>1. Ch!Listed' \subseteq ChSession
    BY <1>1, ChLoggedType, ChSelectorsKept DEF ChIInv, Ch!TypeOK, Ch!Listed
  <2>. QED  BY <1>1, <2>1 DEF ChSets
<1>4. Ch!TypeOK'
  BY <1>1, <1>2 DEF ChIInv, Ch!TypeOK
<1>5. Ch!Active' = Ch!Active /\ Ch!MonitorMay' = Ch!MonitorMay
  BY <1>1, ChSelectorsKept DEF Ch!MonitorMay
<1>. QED  BY <1>1, <1>2, <1>3, <1>4, <1>5
     DEF ChIInv, ChSeenFound, ChEndedUnlogged, ChMonitorMatched, ChHistoryMatched, ChOneChange, ChMonitorFirst

LEMMA ChEndedType ==
  ASSUME ChSets, ChIInv
  PROVE  /\ Ch!Ended \subseteq ChSession \ (Ch!Active \cup Ch!Logged)
         /\ history.last # none => history.last \subseteq Ch!Active \cup Ch!Logged \cup Ch!Ended
  BY DEF Ch!Ended, ChIInv, Ch!TypeOK

LEMMA ChProcessKeeps == ASSUME ChSets, ChIInv, Ch!ProcessCallHistory PROVE ChIInv'
<1>1. /\ endedCalls' = (endedCalls \cup Ch!Ended) \ Ch!ShouldRemove(endedCalls \cup Ch!Ended)
      /\ history' = [history EXCEPT !.last = Ch!Active, !.log = Ch!Logged,
                                    !.ids = Ch!Logged \cup endedCalls']
      /\ matched' = IF history.ids = Ch!Logged \cup endedCalls' THEN matched
                    ELSE Ch!Queries(endedCalls')
      /\ seen' = seen \cup Ch!Active
      /\ UNCHANGED <<presence, records, readiness, monitor, changes>>
      /\ history.ready /\ Ch!HistoryMay
  BY DEF Ch!ProcessCallHistory, Ch!HistoryChanged
<1>2. /\ Ch!Active' = Ch!Active /\ Ch!Logged' = Ch!Logged /\ Ch!MonitorMay' = Ch!MonitorMay
      /\ Ch!HistoryMay' = Ch!HistoryMay /\ Ch!Listed' = Ch!Logged \cup endedCalls'
      /\ Ch!monitorCalls' = Ch!monitorCalls
  BY <1>1, ChSelectorsKept DEF Ch!MonitorMay, Ch!HistoryMay, Ch!Listed
<1>3. /\ history'.ready = history.ready /\ history'.last = Ch!Active /\ history'.log = Ch!Logged
      /\ history'.ids = Ch!Listed'
  BY <1>1, <1>2 DEF ChIInv, Ch!TypeOK
<1>4. endedCalls' \subseteq ChSession
  BY <1>1, ChEndedType DEF ChIInv, Ch!TypeOK
<1>5. endedCalls' \cap Ch!Logged = {} /\ endedCalls \cup Ch!Ended \subseteq endedCalls' \cup Ch!Logged
  <2>1. CASE history.log = Ch!Logged
    <3>1. endedCalls' = endedCalls \cup Ch!Ended
      BY <1>1, <2>1 DEF Ch!ShouldRemove
    <3>2. history.log # none
      BY <2>1, ChLoggedType DEF ChIInv, ChSets
    <3>. QED  BY <2>1, <3>1, <3>2, ChEndedType DEF ChIInv, ChEndedUnlogged
  <2>2. CASE history.log # Ch!Logged
    BY <1>1, <2>2 DEF Ch!ShouldRemove
  <2>. QED  BY <2>1, <2>2
<1>6. matched' \subseteq ChSession /\ Ch!Listed' \subseteq matched'
      /\ (matched' = matched \/ (readiness["presence"] => Ch!Active \subseteq matched'))
  <2>1. CASE history.ids = Ch!Listed'
    <3>1. matched' = matched
      BY <1>1, <1>2, <2>1
    <3>2. history.ids = Ch!Listed
      <4>1. CASE history.last = none \/ history.last = Ch!Active
        <5>1. Ch!Ended = {}
          BY <4>1 DEF Ch!Ended
        <5>2. Ch!Listed' = Ch!Listed
          BY <1>1, <1>2, <1>5, <5>1 DEF Ch!Listed
        <5>. QED  BY <2>1, <5>2
      <4>2. CASE history.last # none /\ history.last # Ch!Active
        BY <1>1, <4>2 DEF ChIInv, ChOneChange
      <4>. QED  BY <4>1, <4>2
    <3>3. Ch!Listed \subseteq matched
      BY <1>1, <3>2 DEF ChIInv, ChHistoryMatched
    <3>. QED  BY <2>1, <3>1, <3>2, <3>3 DEF ChIInv, Ch!TypeOK
  <2>2. CASE history.ids # Ch!Listed'
    <3>1. matched' = Ch!Queries(endedCalls')
      BY <1>1, <1>2, <2>2
    <3>. QED  BY <1>1, <1>2, <1>4, <3>1, ChQueriesType DEF ChIInv, Ch!HistoryMay
  <2>. QED  BY <2>1, <2>2
<1>7. Ch!TypeOK'
  <2>1. Ch!Active \in SUBSET ChSession /\ Ch!Logged \in SUBSET ChSession /\ Ch!Logged \cup endedCalls' \in SUBSET ChSession
    BY <1>4, ChCallsType, ChLoggedType DEF ChIInv
  <2>2. history' \in [ready : BOOLEAN, last : (SUBSET ChSession) \cup {none},
                      log : (SUBSET ChSession) \cup {none}, ids : (SUBSET ChSession) \cup {none}]
    BY <1>1, <2>1 DEF ChIInv, Ch!TypeOK
  <2>3. seen' \subseteq ChSession
    BY <1>1, <2>1 DEF ChIInv, Ch!TypeOK
  <2>. QED  BY <1>1, <1>4, <1>6, <2>2, <2>3 DEF ChIInv, Ch!TypeOK
<1>8. ChSeenFound'
  <2>1. Ch!Active # none
    BY ChCallsType DEF ChIInv, ChSets
  <2>2. ASSUME readiness["log"], NEW session \in seen'
        PROVE  session \in Ch!Active \cup endedCalls' \cup Ch!Logged \/ ChOtherLeg(session)
    <3>1. CASE session \in Ch!Active
      BY <3>1
    <3>2. CASE session \in seen
      <4>1. history.last # none
        BY <3>2 DEF ChIInv, ChSeenFound
      <4>2. session \in history.last \cup endedCalls \cup Ch!Logged \/ ChOtherLeg(session)
        BY <1>1, <2>2, <3>2 DEF ChIInv, ChSeenFound
      <4>. QED  BY <1>5, <4>1, <4>2, ChEndedType
    <3>. QED  BY <1>1, <3>1, <3>2
  <2>. QED  BY <1>1, <1>2, <1>3, <2>1, <2>2, ChSelectorsKept DEF ChSeenFound
<1>9. ChEndedUnlogged' /\ ChOneChange' /\ ChHistoryMatched'
  BY <1>2, <1>3, <1>5, <1>6 DEF ChEndedUnlogged, ChOneChange, ChHistoryMatched
<1>10. ChMonitorMatched'
  BY <1>1, <1>2, <1>6 DEF ChIInv, ChMonitorMatched, Ch!MonitorMay
<1>11. ChMonitorFirst'
  BY <1>1, <1>2, <1>3 DEF ChIInv, ChMonitorFirst
<1>. QED  BY <1>7, <1>8, <1>9, <1>10, <1>11 DEF ChIInv

\* Between turns: the modules are ready if they may be, and have looked at all there is.
LEMMA ChSettledFacts ==
  ASSUME ChSets, ChIInv, Ch!Settled
  PROVE  /\ monitor.ready <=> Ch!MonitorMay
         /\ history.ready <=> Ch!HistoryMay
         /\ monitor.ready => monitor.last = Ch!monitorCalls /\ Ch!Active \subseteq matched
         /\ history.ready => /\ history.last = Ch!Active /\ history.log = Ch!Logged
                             /\ history.ids = Ch!Listed /\ Ch!Listed \subseteq matched
                             /\ monitor.ready /\ readiness["log"]
<1>1. monitor.ready = Ch!MonitorMay /\ history.ready = Ch!HistoryMay
  BY DEF Ch!Settled, Ch!MonitorTurns, Ch!HistoryTurns
<1>2. ASSUME monitor.ready PROVE monitor.last = Ch!monitorCalls /\ Ch!Active \subseteq matched
  <2>1. monitor.last = Ch!monitorCalls /\ Ch!MonitorMay
    BY <1>1, <1>2 DEF Ch!Settled, Ch!MonitorChanged
  <2>2. monitor.last # none
    BY <2>1, ChCallsType DEF ChIInv, ChSets
  <2>. QED  BY <1>2, <2>1, <2>2 DEF ChIInv, ChMonitorMatched, Ch!Active
<1>3. ASSUME history.ready
      PROVE  /\ history.last = Ch!Active /\ history.log = Ch!Logged
             /\ history.ids = Ch!Listed /\ Ch!Listed \subseteq matched
             /\ monitor.ready /\ readiness["log"]
  <2>1. Ch!HistoryMay
    BY <1>1, <1>3
  <2>2. history.last = Ch!Active /\ history.log = Ch!Logged /\ history.ids = Ch!Listed
    BY <1>3, <2>1 DEF Ch!Settled, Ch!HistoryChanged
  <2>. QED  BY <1>3, <2>1, <2>2 DEF ChIInv, ChHistoryMatched, Ch!HistoryMay
<1>. QED  BY <1>1, <1>2, <1>3

LEMMA ChNotifyKeeps == ASSUME ChSets, ChIInv, Ch!Notify PROVE ChIInv'
<1>1. /\ Ch!Settled /\ changes' = changes + 1
      /\ UNCHANGED <<records, readiness, monitor, history, endedCalls, matched, seen>>
  BY DEF Ch!Notify, Ch!Counted
<1>2. PICK legs \in Ch!Told, told \in Ch!Status \cup {none} :
        presence' = [leg \in Ch!Leg |-> IF leg \in legs THEN told ELSE presence[leg]]
  BY DEF Ch!Notify
<1>3. Ch!TypeOK'
  BY <1>1, <1>2 DEF ChIInv, Ch!TypeOK
<1>4. Ch!Logged' = Ch!Logged /\ Ch!Listed' = Ch!Listed /\ Ch!MonitorMay' = Ch!MonitorMay /\ Ch!HistoryMay' = Ch!HistoryMay
  BY <1>1, ChSelectorsKept DEF Ch!MonitorMay, Ch!HistoryMay
<1>5. ChSeenFound' /\ ChEndedUnlogged' /\ ChMonitorFirst'
  BY <1>1, <1>4, ChSelectorsKept DEF ChIInv, ChSeenFound, ChEndedUnlogged, ChMonitorFirst
<1>6. ChHistoryMatched' /\ ChOneChange'
  BY <1>1, <1>4, ChSettledFacts DEF ChHistoryMatched, ChOneChange
<1>7. ChMonitorMatched'
  BY <1>1, <1>4, ChSettledFacts DEF ChMonitorMatched, Ch!Active
<1>. QED  BY <1>3, <1>5, <1>6, <1>7 DEF ChIInv

LEMMA ChLogSyncKeeps == ASSUME ChSets, ChIInv, Ch!LogSync PROVE ChIInv'
<1>1. /\ Ch!Settled /\ changes' = changes + 1
      /\ UNCHANGED <<presence, readiness, monitor, history, endedCalls, matched, seen>>
  BY DEF Ch!LogSync, Ch!Counted
<1>2. PICK legs \in Ch!Told : records' = records \cup legs
  BY DEF Ch!LogSync
<1>3. Ch!TypeOK'
  <2>1. legs \subseteq Ch!Leg
    BY DEF Ch!Told, Ch!Leg, Ch!Direction, ChSets
  <2>. QED  BY <1>1, <1>2, <2>1 DEF ChIInv, Ch!TypeOK
<1>4. Ch!Active' = Ch!Active /\ Ch!MonitorMay' = Ch!MonitorMay /\ Ch!HistoryMay' = Ch!HistoryMay
  BY <1>1, ChSelectorsKept DEF Ch!MonitorMay, Ch!HistoryMay
<1>5. ChSeenFound'
  <2>1. ASSUME history.ready, readiness["log"], NEW session \in seen
        PROVE  session \in history.last \cup endedCalls \cup Ch!Logged' \/ ChOtherLeg(session)'
    <3>1. session \in history.last \cup endedCalls \cup Ch!Logged \/ ChOtherLeg(session)
      BY <2>1 DEF ChIInv, ChSeenFound
    <3>. QED  BY <1>2, <3>1, ChLoggedStays
  <2>. QED  BY <1>1, <2>1 DEF ChIInv, ChSeenFound
<1>6. ChEndedUnlogged' /\ ChMonitorFirst' /\ ChMonitorMatched'
  BY <1>1, <1>4 DEF ChIInv, ChEndedUnlogged, ChMonitorFirst, ChMonitorMatched
<1>7. ChHistoryMatched' /\ ChOneChange'
  BY <1>1, <1>4, ChSettledFacts DEF ChHistoryMatched, ChOneChange
<1>. QED  BY <1>3, <1>5, <1>6, <1>7 DEF ChIInv

LEMMA ChTurnKeeps == ASSUME ChSets, ChIInv, NEW part \in Ch!Part, Ch!Turn(part) PROVE ChIInv'
<1>1. /\ Ch!Settled /\ changes' \in Nat
      /\ readiness' = [readiness EXCEPT ![part] = ~@]
      /\ UNCHANGED <<monitor, history, endedCalls, matched, seen>>
  BY DEF Ch!Turn, Ch!Counted, ChIInv, Ch!TypeOK
<1>2. /\ presence' = presence \/ presence' = [leg \in Ch!Leg |-> none]
      /\ records' = records \/ records' = {}
  BY DEF Ch!Turn
<1>3. Ch!TypeOK'
  BY <1>1, <1>2 DEF ChIInv, Ch!TypeOK
<1>4. /\ readiness[part] \in BOOLEAN
      /\ \A p \in Ch!Part : readiness'[p] = IF p = part THEN ~readiness[part] ELSE readiness[p]
  BY <1>1 DEF ChIInv, Ch!TypeOK
<1>5. /\ history.ready => monitor.ready /\ readiness["log"] /\ Ch!HistoryMay
      /\ monitor.ready => Ch!MonitorMay
  BY <1>1, ChSettledFacts
<1>6. CASE part = "presence"
  <2>1. records' = records
    BY <1>6 DEF Ch!Turn
  <2>2. Ch!Logged' = Ch!Logged /\ Ch!Listed' = Ch!Listed /\ readiness'["log"] = readiness["log"]
    BY <1>1, <1>4, <1>6, <2>1, ChSelectorsKept DEF Ch!Part
  <2>3. monitor.ready => ~Ch!MonitorMay'
    BY <1>4, <1>5, <1>6 DEF Ch!MonitorMay, Ch!Part
  <2>4. ChSeenFound' /\ ChEndedUnlogged'
    BY <1>1, <2>1, <2>2, ChSelectorsKept DEF ChIInv, ChSeenFound, ChEndedUnlogged
  <2>5. ChHistoryMatched' /\ ChOneChange'
    BY <1>1, <2>2, ChSettledFacts DEF ChHistoryMatched, ChOneChange
  <2>6. ChMonitorMatched' /\ ChMonitorFirst'
    BY <1>1, <1>5, <2>3 DEF ChMonitorMatched, ChMonitorFirst
  <2>. QED  BY <1>3, <2>4, <2>5, <2>6 DEF ChIInv
<1>7. CASE part # "presence"
  <2>1. presence' = presence /\ Ch!Active' = Ch!Active
    BY <1>7, ChSelectorsKept DEF Ch!Turn
  <2>2. history.ready => ~Ch!HistoryMay'
    BY <1>1, <1>4, <1>5, <1>7 DEF Ch!HistoryMay, Ch!Part
  <2>3. history.ready /\ readiness'["log"] => part = "others" /\ records' = records
    BY <1>4, <1>5, <1>7 DEF Ch!Turn, Ch!Part
  <2>4. ChSeenFound' /\ ChEndedUnlogged'
    BY <1>1, <1>5, <2>3, ChSelectorsKept DEF ChIInv, ChSeenFound, ChEndedUnlogged
  <2>5. ChHistoryMatched' /\ ChOneChange' /\ ChMonitorFirst'
    BY <1>1, <1>5, <2>2 DEF ChHistoryMatched, ChOneChange, ChMonitorFirst
  <2>6. ChMonitorMatched'
    BY <1>1, <2>1, ChSettledFacts DEF ChMonitorMatched
  <2>. QED  BY <1>3, <2>4, <2>5, <2>6 DEF ChIInv
<1>. QED  BY <1>6, <1>7

LEMMA ChNextIInv == ASSUME ChSets PROVE ChIInv /\ [Ch!Next]_(Ch!vars) => ChIInv'
<1>. SUFFICES ASSUME ChIInv, [Ch!Next]_(Ch!vars) PROVE ChIInv'
  OBVIOUS
<1>1. CASE UNCHANGED Ch!vars
  <2>1. UNCHANGED <<presence, records, readiness, monitor, history, endedCalls, matched, seen,
                    changes>>
    BY <1>1 DEF Ch!vars
  <2>2. /\ Ch!Active' = Ch!Active /\ Ch!Logged' = Ch!Logged /\ Ch!Listed' = Ch!Listed /\ Ch!MonitorMay' = Ch!MonitorMay
        /\ Ch!HistoryMay' = Ch!HistoryMay
    BY <2>1, ChSelectorsKept DEF Ch!MonitorMay, Ch!HistoryMay
  <2>. QED  BY <2>1, <2>2, ChSelectorsKept
       DEF ChIInv, Ch!TypeOK, ChSeenFound, ChEndedUnlogged, ChMonitorMatched, ChHistoryMatched, ChOneChange,
           ChMonitorFirst
<1>2. CASE Ch!Next
  BY <1>2, ChMonitorReadyKeeps, ChMonitorCallsKeeps, ChHistoryReadyKeeps, ChProcessKeeps, ChNotifyKeeps,
     ChLogSyncKeeps, ChTurnKeeps DEF Ch!Next
<1>. QED  BY <1>1, <1>2

\* For any sessions and RingOut calls, and in whatever order the listeners run: a call that
\* was seen active is on the screen until the module is reset, it is listed as ended only as
\* long as the log does not have it, and the matchers were asked for all calls on the screen.
LEMMA ChNoCallLost == ASSUME ChSets PROVE ChIInv => Ch!CallsAccountedFor
<1>. SUFFICES ASSUME ChIInv, Ch!Settled, history.ready
     PROVE  /\ seen \subseteq Ch!Active \cup Ch!Listed
                 \cup {pair[2] : pair \in {p \in ChRingOut : p[1] \in Ch!Active \cup Ch!Listed}}
            /\ endedCalls \cap Ch!Logged = {}
            /\ Ch!Active \cup Ch!Listed \subseteq matched
  BY DEF Ch!CallsAccountedFor
<1>1. /\ history.last = Ch!Active /\ history.log = Ch!Logged /\ history.last # none /\ history.log # none
      /\ Ch!Listed \subseteq matched /\ Ch!Active \subseteq matched
      /\ readiness["log"]
  BY ChSettledFacts, ChCallsType, ChLoggedType DEF ChSets, ChIInv
<1>2. ASSUME NEW session \in seen
      PROVE  \/ session \in Ch!Active \cup Ch!Listed
             \/ \E pair \in ChRingOut : session = pair[2] /\ pair[1] \in Ch!Logged
  <2>1. session \in history.last \cup endedCalls \cup Ch!Logged \/ ChOtherLeg(session)
    BY <1>1 DEF ChIInv, ChSeenFound
  <2>. QED  BY <1>1, <2>1, ChOtherLegLogged DEF Ch!Listed
<1>3. Ch!Logged \subseteq Ch!Listed
  BY DEF Ch!Listed
<1>. QED  BY <1>1, <1>2, <1>3 DEF ChIInv, ChEndedUnlogged

-----------------------------------------------------------------------------
(***************************************************************************)
(* Proofs about the recording of calls: for any calls and bounds, and      *)
(* however handlers, logs, options, logins and failures cross, the record  *)
(* of a call is about what was shown of it last, or about to be.           *)
(***************************************************************************)

CgBounds == IsFiniteSet(CgThing) /\ CgMaxEvents \in Nat

\* Logs are told apart; one waits for one at logFunction, of the same thing; the one in
\* _logPromises is at logFunction, and no other one of its thing is, unless logs overlapped.
CgLogsFit ==
  /\ IsFiniteSet(logs)
  /\ \A k, l \in logs : k.id = l.id => k = l
  /\ \A w \in logs : w.after # 0 => \E l \in logs : l.id = w.after /\ l.of = w.of /\ l.after = 0
  /\ \A t \in CgThing : logPromises[t] # 0 =>
       \E l \in logs : l.id = logPromises[t] /\ l.of = t /\ l.after = 0
  /\ \A l \in logs : l.after = 0 /\ l.of \notin disturbed => l.id = logPromises[l.of]

CgLogIInv == Cg!LoggerTypeOK /\ CgLogsFit /\ Cg!OnlyLogging

\* What the record of a thing will be when its logs are done.
CgLastLogged(t, v) ==
  \/ \E l \in logs : l.of = t /\ l.after # 0 /\ l.version = v
  \/ /\ \A l \in logs : l.of = t => l.after = 0 /\ l.version = v
     /\ (\A l \in logs : l.of # t) => recorded[t] = v

--------------------
(* Logs. *)

\* Its cardinality is that of the sets here.
LEMMA CgCardinality == ASSUME NEW S PROVE Cg!Cardinality(S) = Cardinality(S)
  BY DEF Cg!Cardinality, Cardinality

LEMMA CgNewLogFree == ASSUME CgLogIInv PROVE Cg!NewLog \in Nat \ {0} /\ \A l \in logs : l.id # Cg!NewLog
<1>. DEFINE n == Cardinality(logs)
            Ids == {l.id : l \in logs}
<1>1. IsFiniteSet(logs) /\ n \in Nat
  BY FS_CardinalityType DEF CgLogIInv, CgLogsFit
<1>2. IsFiniteSet(Ids) /\ Cardinality(Ids) <= n
  <2>. DEFINE id == [l \in logs |-> l.id]
  <2>1. id \in [logs -> Ids] /\ \A i \in Ids : \E l \in logs : id[l] = i
    OBVIOUS
  <2>2. id \in Surjection(logs, Ids)
    BY <2>1 DEF Surjection
  <2>. QED  BY <1>1, <2>2, FS_Surjection
<1>3. IsFiniteSet(1..(n + 1)) /\ Cardinality(1..(n + 1)) = n + 1
  BY <1>1, FS_Interval
<1>4. Cg!NewLog = CHOOSE i \in 1..(n + 1) : \A l \in logs : l.id # i
  BY CgCardinality DEF Cg!NewLog
<1>. HIDE DEF n
<1>5. ~(1..(n + 1) \subseteq Ids)
  <2>. SUFFICES ASSUME 1..(n + 1) \subseteq Ids PROVE FALSE
    OBVIOUS
  <2>1. Cardinality(1..(n + 1)) <= Cardinality(Ids)
    BY <1>2, FS_Subset
  <2>2. Cardinality(Ids) \in Nat
    BY <1>2, FS_CardinalityType
  <2>. QED  BY <1>1, <1>2, <1>3, <2>1, <2>2
<1>6. \E i \in 1..(n + 1) : \A l \in logs : l.id # i
  BY <1>5
<1>7. Cg!NewLog \in 1..(n + 1) /\ \A l \in logs : l.id # Cg!NewLog
  BY <1>4, <1>6
<1>. QED  BY <1>1, <1>7

\* A new log is the last of its thing, of which nothing that is undisturbed is at logFunction
\* when it is itself.
LEMMA CgBeginLogKeeps ==
  ASSUME CgLogIInv, NEW t \in CgThing, NEW v \in Nat, Cg!BeginLog(t, v)
  PROVE  /\ CgLogIInv'
         /\ disturbed \subseteq disturbed' /\ recorded' = recorded
         /\ \E k \in logs' : k.of = t /\ k.version = v /\ logs' = logs \cup {k}
         /\ t \notin disturbed' => CgLastLogged(t, v)'
         /\ \A s \in CgThing \ {t}, u \in Nat : CgLastLogged(s, u) => CgLastLogged(s, u)'
<1>0. Cg!LoggerTypeOK /\ CgLogsFit /\ Cg!OnlyLogging
  BY DEF CgLogIInv
<1>1. PICK n : n = Cg!NewLog /\ n \in Nat \ {0} /\ \A l \in logs : l.id # n
  BY CgNewLogFree
<1>2. PICK a \in Nat : a = logPromises[t]
  BY <1>0 DEF Cg!LoggerTypeOK
<1>3. PICK k : k = [id |-> n, of |-> t, version |-> v, after |-> a]
  OBVIOUS
<1>4. k \in Cg!Log /\ k.id = n /\ k.of = t /\ k.version = v /\ k.after = a
  BY <1>1, <1>2, <1>3 DEF Cg!Log
<1>5. /\ logs' = logs \cup {k}
      /\ logPromises' = IF a = 0 THEN [logPromises EXCEPT ![t] = n] ELSE logPromises
      /\ loggingList' = IF a = 0 THEN loggingList \cup {t} ELSE loggingList
      /\ disturbed' = IF a = 0 /\ Cg!Running(t) # {} THEN disturbed \cup {t} ELSE disturbed
      /\ recorded' = recorded
  BY <1>1, <1>2, <1>3, <1>4 DEF Cg!BeginLog, Cg!Awaited
<1>. HIDE DEF Cg!NewLog
<1>6. Cg!LoggerTypeOK'
  BY <1>0, <1>1, <1>4, <1>5 DEF Cg!LoggerTypeOK
<1>7. IsFiniteSet(logs')
  BY <1>0, <1>5, FS_AddElement DEF CgLogsFit
<1>8. \A l, m \in logs' : l.id = m.id => l = m
  BY <1>0, <1>1, <1>4, <1>5 DEF CgLogsFit
<1>9. a # 0 => \E l \in logs : l.id = a /\ l.of = t /\ l.after = 0
  BY <1>0, <1>2 DEF CgLogsFit
<1>10. \A w \in logs' : w.after # 0 => \E l \in logs' : l.id = w.after /\ l.of = w.of /\ l.after = 0
  BY <1>0, <1>4, <1>5, <1>9 DEF CgLogsFit
<1>11. \A s \in CgThing : logPromises'[s] # 0 =>
         \E l \in logs' : l.id = logPromises'[s] /\ l.of = s /\ l.after = 0
  <2>. SUFFICES ASSUME NEW s \in CgThing, logPromises'[s] # 0
                PROVE  \E l \in logs' : l.id = logPromises'[s] /\ l.of = s /\ l.after = 0
    OBVIOUS
  <2>1. CASE a = 0 /\ s = t
    <3>1. logPromises'[s] = n
      BY <1>0, <1>5, <2>1 DEF Cg!LoggerTypeOK
    <3>. QED  BY <1>4, <1>5, <2>1, <3>1
  <2>2. CASE ~(a = 0 /\ s = t)
    <3>1. logPromises'[s] = logPromises[s]
      BY <1>0, <1>5, <2>2 DEF Cg!LoggerTypeOK
    <3>. QED  BY <1>0, <1>5, <3>1 DEF CgLogsFit
  <2>. QED  BY <2>1, <2>2
<1>12. ASSUME NEW l \in logs', l.after = 0, l.of \notin disturbed' PROVE l.id = logPromises'[l.of]
  <2>1. CASE l = k
    BY <1>0, <1>4, <1>5, <1>12, <2>1 DEF Cg!LoggerTypeOK
  <2>2. CASE l # k
    <3>1. l \in logs /\ l.of \in CgThing /\ l.of \notin disturbed
      BY <1>0, <1>5, <1>12, <2>2 DEF Cg!LoggerTypeOK, Cg!Log
    <3>2. l.id = logPromises[l.of]
      BY <1>0, <1>12, <3>1 DEF CgLogsFit
    <3>3. ~(a = 0 /\ l.of = t)
      BY <1>5, <1>12, <3>1 DEF Cg!Running
    <3>. QED  BY <1>0, <1>5, <3>1, <3>2, <3>3 DEF Cg!LoggerTypeOK
  <2>. QED  BY <2>1, <2>2
<1>13. CgLogsFit'
  BY <1>7, <1>8, <1>10, <1>11, <1>12 DEF CgLogsFit
<1>14. Cg!OnlyLogging'
  BY <1>0, <1>4, <1>5 DEF Cg!OnlyLogging, Cg!Running
<1>15. CgLogIInv'
  BY <1>6, <1>13, <1>14 DEF CgLogIInv
<1>16. ASSUME t \notin disturbed' PROVE CgLastLogged(t, v)'
  <2>1. CASE a # 0
    BY <1>4, <1>5, <2>1 DEF CgLastLogged
  <2>2. CASE a = 0
    <3>1. \A l \in logs : l.of = t => l.after # 0
      BY <1>5, <1>16, <2>2 DEF Cg!Running
    <3>2. \A l \in logs : l.of # t
      BY <1>0, <3>1 DEF CgLogsFit
    <3>. QED  BY <1>4, <1>5, <2>2, <3>2 DEF CgLastLogged
  <2>. QED  BY <2>1, <2>2
<1>17. ASSUME NEW s \in CgThing \ {t}, NEW u \in Nat, CgLastLogged(s, u) PROVE CgLastLogged(s, u)'
  BY <1>4, <1>5, <1>17 DEF CgLastLogged
<1>. QED  BY <1>4, <1>5, <1>15, <1>16, <1>17

\* A log that ends leaves the logs of other things; what is undisturbed has its last one still.
LEMMA CgLogDoneKeeps ==
  ASSUME CgLogIInv, NEW l \in logs, Cg!LogDone(l)
  PROVE  /\ CgLogIInv'
         /\ disturbed \subseteq disturbed'
         /\ \A k \in logs' : \E m \in logs : m.of = k.of /\ m.version = k.version
         /\ \A m \in logs : m.of # l.of => m \in logs'
         /\ recorded' = [recorded EXCEPT ![l.of] = l.version]
         /\ \A t \in CgThing \ disturbed', v \in Nat : CgLastLogged(t, v) => CgLastLogged(t, v)'
<1>0. Cg!LoggerTypeOK /\ CgLogsFit /\ Cg!OnlyLogging
  BY DEF CgLogIInv
<1>1. l \in Cg!Log /\ l.after = 0 /\ l.of \in CgThing /\ l.id \in Nat \ {0} /\ l.version \in Nat
  BY <1>0 DEF Cg!LoggerTypeOK, Cg!Log, Cg!LogDone
<1>. DEFINE On(w) == [w EXCEPT !.after = 0]
<1>2. PICK W : W = Cg!Waiting(l)
  OBVIOUS
<1>3. /\ W \subseteq logs /\ l \notin W
      /\ \A w \in logs : w \in W <=> w.after = l.id
      /\ \A w \in W : /\ w.of = l.of /\ w \in Cg!Log
                      /\ On(w) \in Cg!Log /\ On(w).id = w.id /\ On(w).of = w.of
                      /\ On(w).version = w.version /\ On(w).after = 0
  <2>1. W \subseteq logs /\ l \notin W /\ \A w \in logs : w \in W <=> w.after = l.id
    BY <1>1, <1>2 DEF Cg!Waiting
  <2>2. \A w \in W : w \in Cg!Log /\ w.after # 0 /\ w.after = l.id
    BY <1>0, <1>1, <2>1 DEF Cg!LoggerTypeOK
  <2>3. \A w \in W : w.of = l.of
    BY <1>0, <2>1, <2>2 DEF CgLogsFit
  <2>4. \A w \in W : /\ On(w) \in Cg!Log /\ On(w).id = w.id /\ On(w).of = w.of
                     /\ On(w).version = w.version /\ On(w).after = 0
    BY <2>2 DEF Cg!Log
  <2>. QED  BY <2>1, <2>2, <2>3, <2>4
<1>4. /\ recorded' = [recorded EXCEPT ![l.of] = l.version]
      /\ logs' = (logs \ ({l} \cup W)) \cup {On(w) : w \in W}
      /\ \E heir \in IF W = {} THEN {0} ELSE {w.id : w \in W} :
           logPromises' = [logPromises EXCEPT ![l.of] = heir]
      /\ loggingList' = IF W = {} THEN loggingList \ {l.of} ELSE loggingList \cup {l.of}
      /\ disturbed' = IF Cardinality(W) > 1 \/ Cg!Running(l.of) # {l}
                      THEN disturbed \cup {l.of} ELSE disturbed
  BY <1>2, CgCardinality DEF Cg!LogDone
<1>5. PICK heir \in IF W = {} THEN {0} ELSE {w.id : w \in W} :
        logPromises' = [logPromises EXCEPT ![l.of] = heir]
  BY <1>4
<1>6. heir \in Nat
  <2>1. \A w \in W : w.id \in Nat
    BY <1>3 DEF Cg!Log
  <2>. QED  BY <1>5, <2>1
<1>. HIDE DEF On
<1>7. /\ \A k \in logs' : (k \in logs /\ k # l /\ k \notin W) \/ \E w \in W : k = On(w)
      /\ \A k \in logs : k # l /\ k \notin W => k \in logs'
      /\ \A w \in W : On(w) \in logs'
  BY <1>4
<1>8. Cg!LoggerTypeOK'
  <2>1. logs' \subseteq Cg!Log
    BY <1>0, <1>3, <1>7 DEF Cg!LoggerTypeOK
  <2>2. logPromises' \in [CgThing -> Nat] /\ recorded' \in [CgThing -> Nat]
    BY <1>0, <1>1, <1>4, <1>5, <1>6 DEF Cg!LoggerTypeOK
  <2>3. loggingList' \subseteq CgThing /\ disturbed' \subseteq CgThing
    BY <1>0, <1>1, <1>4 DEF Cg!LoggerTypeOK
  <2>. QED  BY <2>1, <2>2, <2>3 DEF Cg!LoggerTypeOK
<1>9. IsFiniteSet(logs')
  <2>1. IsFiniteSet(logs) /\ IsFiniteSet(W)
    BY <1>0, <1>3, FS_Subset DEF CgLogsFit
  <2>2. IsFiniteSet({On(w) : w \in W})
    <3>. DEFINE on == [w \in W |-> On(w)]
    <3>1. on \in Surjection(W, {On(w) : w \in W})
      BY DEF Surjection
    <3>. QED  BY <2>1, <3>1, FS_Surjection
  <2>3. IsFiniteSet(logs \ ({l} \cup W))
    BY <2>1, FS_Subset
  <2>. QED  BY <1>4, <2>2, <2>3, FS_Union
<1>10. ASSUME NEW k \in logs', NEW m \in logs', k.id = m.id PROVE k = m
  <2>1. \A x \in logs' : \E y \in logs : y.id = x.id /\ (x = y \/ (y \in W /\ x = On(y)))
                                       /\ (y \in W => x = On(y))
    BY <1>3, <1>7
  <2>2. PICK y \in logs : y.id = k.id /\ (k = y \/ (y \in W /\ k = On(y))) /\ (y \in W => k = On(y))
    BY <2>1
  <2>3. PICK z \in logs : z.id = m.id /\ (m = z \/ (z \in W /\ m = On(z))) /\ (z \in W => m = On(z))
    BY <2>1
  <2>4. y = z
    BY <1>0, <1>10, <2>2, <2>3 DEF CgLogsFit
  <2>. QED  BY <2>2, <2>3, <2>4
<1>11. ASSUME NEW w \in logs', w.after # 0
       PROVE  \E k \in logs' : k.id = w.after /\ k.of = w.of /\ k.after = 0
  <2>1. w \in logs /\ w \notin W
    BY <1>3, <1>7, <1>11
  <2>2. PICK k \in logs : k.id = w.after /\ k.of = w.of /\ k.after = 0
    BY <1>0, <1>11, <2>1 DEF CgLogsFit
  <2>3. k # l /\ k \notin W
    BY <1>1, <1>3, <2>1, <2>2
  <2>. QED  BY <1>7, <2>2, <2>3
<1>12. ASSUME NEW t \in CgThing, logPromises'[t] # 0
       PROVE  \E k \in logs' : k.id = logPromises'[t] /\ k.of = t /\ k.after = 0
  <2>1. CASE t = l.of
    <3>1. logPromises'[t] = heir
      BY <1>0, <1>5, <2>1 DEF Cg!LoggerTypeOK
    <3>2. PICK w \in W : w.id = heir
      BY <1>5, <1>12, <3>1
    <3>. QED  BY <1>3, <1>7, <2>1, <3>1, <3>2
  <2>2. CASE t # l.of
    <3>1. logPromises'[t] = logPromises[t]
      BY <1>0, <1>5, <2>2 DEF Cg!LoggerTypeOK
    <3>2. PICK k \in logs : k.id = logPromises[t] /\ k.of = t /\ k.after = 0
      BY <1>0, <1>12, <3>1 DEF CgLogsFit
    <3>. QED  BY <1>3, <1>7, <2>2, <3>1, <3>2
  <2>. QED  BY <2>1, <2>2
<1>13. ASSUME l.of \notin disturbed'
       PROVE  /\ \A k \in logs : k.of = l.of /\ k.after = 0 => k = l
              /\ \A k, m \in W : k = m
              /\ \A k \in logs : k.of = l.of => k = l \/ k \in W
  <2>1. ~(Cardinality(W) > 1) /\ Cg!Running(l.of) = {l}
    BY <1>4, <1>13
  <2>2. \A k \in logs : k.of = l.of /\ k.after = 0 => k = l
    BY <2>1 DEF Cg!Running
  <2>3. \A k, m \in W : k = m
    <3>. SUFFICES ASSUME NEW k \in W, NEW m \in W, k # m PROVE FALSE
      OBVIOUS
    <3>1. IsFiniteSet(W)
      BY <1>0, <1>3, FS_Subset DEF CgLogsFit
    <3>2. IsFiniteSet({k}) /\ Cardinality({k}) = 1
      BY FS_Singleton
    <3>3. Cardinality({k} \cup {m}) = 2
      <4>1. m \notin {k}
        OBVIOUS
      <4>2. Cardinality({k} \cup {m}) = Cardinality({k}) + 1
        BY <3>2, <4>1, FS_AddElement
      <4>. QED  BY <3>2, <4>2
    <3>4. Cardinality({k} \cup {m}) <= Cardinality(W)
      BY <3>1, FS_Subset
    <3>5. Cardinality(W) \in Nat
      BY <3>1, FS_CardinalityType
    <3>. QED  BY <2>1, <3>3, <3>4, <3>5
  <2>4. ASSUME NEW k \in logs, k.of = l.of, k.after # 0 PROVE k \in W
    <3>1. PICK m \in logs : m.id = k.after /\ m.of = k.of /\ m.after = 0
      BY <1>0, <2>4 DEF CgLogsFit
    <3>. QED  BY <1>3, <2>2, <2>4, <3>1
  <2>. QED  BY <2>2, <2>3, <2>4
<1>14. ASSUME NEW k \in logs', k.after = 0, k.of \notin disturbed' PROVE k.id = logPromises'[k.of]
  <2>1. CASE k.of = l.of
    <3>1. PICK w \in W : k = On(w)
      BY <1>7, <1>13, <1>14, <2>1
    <3>2. heir = w.id
      BY <1>5, <1>13, <1>14, <2>1, <3>1
    <3>. QED  BY <1>0, <1>1, <1>3, <1>5, <2>1, <3>1, <3>2 DEF Cg!LoggerTypeOK
  <2>2. CASE k.of # l.of
    <3>1. k \in logs /\ k.of \notin disturbed /\ k.of \in CgThing
      BY <1>0, <1>3, <1>4, <1>7, <1>14, <2>2 DEF Cg!LoggerTypeOK, Cg!Log
    <3>2. k.id = logPromises[k.of]
      BY <1>0, <1>14, <3>1 DEF CgLogsFit
    <3>. QED  BY <1>0, <1>5, <2>2, <3>1, <3>2 DEF Cg!LoggerTypeOK
  <2>. QED  BY <2>1, <2>2
<1>15. CgLogsFit'
  BY <1>9, <1>10, <1>11, <1>12, <1>14 DEF CgLogsFit
<1>16. Cg!OnlyLogging'
  <2>. SUFFICES ASSUME NEW t \in loggingList' PROVE \E k \in logs' : k.of = t /\ k.after = 0
    BY DEF Cg!OnlyLogging, Cg!Running
  <2>1. CASE t = l.of
    <3>1. W # {}
      BY <1>4, <2>1
    <3>2. PICK w \in W : TRUE
      BY <3>1
    <3>. QED  BY <1>3, <1>7, <2>1, <3>2
  <2>2. CASE t # l.of
    <3>1. t \in loggingList
      BY <1>4, <2>2
    <3>2. PICK k \in logs : k.of = t /\ k.after = 0
      BY <1>0, <3>1 DEF Cg!OnlyLogging, Cg!Running
    <3>. QED  BY <1>3, <1>7, <2>2, <3>2
  <2>. QED  BY <2>1, <2>2
<1>17. CgLogIInv'
  BY <1>8, <1>15, <1>16 DEF CgLogIInv
<1>18. ASSUME NEW t \in CgThing \ disturbed', NEW v \in Nat, CgLastLogged(t, v) PROVE CgLastLogged(t, v)'
  <2>1. CASE t # l.of
    <3>1. \A k \in logs' : k.of = t => k \in logs
      BY <1>3, <1>7, <2>1
    <3>2. \A k \in logs : k.of = t => k \in logs'
      BY <1>3, <1>7, <2>1
    <3>3. recorded'[t] = recorded[t]
      BY <1>0, <1>4, <2>1 DEF Cg!LoggerTypeOK
    <3>. QED  BY <1>18, <3>1, <3>2, <3>3 DEF CgLastLogged
  <2>2. CASE t = l.of /\ W = {}
    <3>1. \A k \in logs : k.of = t => k = l
      BY <1>13, <2>2
    <3>2. l.version = v
      BY <1>1, <1>18, <2>2, <3>1 DEF CgLastLogged
    <3>3. \A k \in logs' : k.of # t
      BY <1>7, <2>2, <3>1
    <3>4. recorded'[t] = v
      BY <1>0, <1>4, <2>2, <3>2 DEF Cg!LoggerTypeOK
    <3>. QED  BY <3>3, <3>4 DEF CgLastLogged
  <2>3. CASE t = l.of /\ W # {}
    <3>1. PICK w \in W : TRUE
      BY <2>3
    <3>2. \A k \in logs : k.of = t => k = l \/ k = w
      BY <1>13, <2>3, <3>1
    <3>3. w.of = t /\ w.after # 0 /\ w \in logs
      BY <1>1, <1>3, <2>3, <3>1
    <3>4. w.version = v
      BY <1>1, <1>18, <3>2, <3>3 DEF CgLastLogged
    <3>5. \A k \in logs' : k.of = t => k = On(w)
      BY <1>3, <1>7, <2>3, <3>1, <3>2
    <3>6. On(w) \in logs' /\ On(w).of = t /\ On(w).after = 0 /\ On(w).version = v
      BY <1>3, <1>7, <3>1, <3>3, <3>4
    <3>. QED  BY <3>5, <3>6 DEF CgLastLogged
  <2>. QED  BY <2>1, <2>2, <2>3
<1>19. \A k \in logs' : \E m \in logs : m.of = k.of /\ m.version = k.version
  BY <1>3, <1>7
<1>20. \A m \in logs : m.of # l.of => m \in logs'
  BY <1>3, <1>7
<1>21. disturbed \subseteq disturbed'
  BY <1>4
<1>. QED  BY <1>4, <1>17, <1>18, <1>19, <1>20, <1>21

LEMMA CgLogFailsKeeps ==
  ASSUME CgLogIInv, NEW l \in logs, Cg!LogFails(l)
  PROVE  /\ CgLogIInv'
         /\ disturbed' = disturbed \cup {l.of} /\ recorded' = recorded
         /\ logs' \subseteq logs /\ \A m \in logs : m.of # l.of => m \in logs'
         /\ \A t \in CgThing \ disturbed', v \in Nat : CgLastLogged(t, v) => CgLastLogged(t, v)'
<1>0. Cg!LoggerTypeOK /\ CgLogsFit /\ Cg!OnlyLogging
  BY DEF CgLogIInv
<1>1. l \in Cg!Log /\ l.after = 0 /\ l.of \in CgThing /\ l.id \in Nat \ {0}
  BY <1>0 DEF Cg!LoggerTypeOK, Cg!Log, Cg!LogFails
<1>2. PICK W : W = Cg!Waiting(l)
  OBVIOUS
<1>3. /\ W \subseteq logs /\ l \notin W
      /\ \A w \in logs : w \in W <=> w.after = l.id
      /\ \A w \in W : w.after # 0 /\ w.of = l.of
  <2>1. W \subseteq logs /\ l \notin W /\ \A w \in logs : w \in W <=> w.after = l.id
    BY <1>1, <1>2 DEF Cg!Waiting
  <2>2. \A w \in W : w.after # 0 /\ w.after = l.id
    BY <1>1, <2>1
  <2>. QED  BY <1>0, <2>1, <2>2 DEF CgLogsFit
<1>4. /\ logs' = logs \ ({l} \cup W)
      /\ logPromises' = [logPromises EXCEPT ![l.of] = 0]
      /\ loggingList' = loggingList \ {l.of}
      /\ disturbed' = disturbed \cup {l.of}
      /\ recorded' = recorded
  BY <1>2 DEF Cg!LogFails
<1>5. \A t \in CgThing : logPromises'[t] = IF t = l.of THEN 0 ELSE logPromises[t]
  BY <1>0, <1>1, <1>4 DEF Cg!LoggerTypeOK
<1>6. /\ logs' \subseteq logs /\ \A m \in logs : m.of # l.of => m \in logs'
  BY <1>3, <1>4
<1>7. Cg!LoggerTypeOK'
  BY <1>0, <1>1, <1>4, <1>6 DEF Cg!LoggerTypeOK
<1>8. CgLogsFit'
  <2>1. IsFiniteSet(logs')
    BY <1>0, <1>6, FS_Subset DEF CgLogsFit
  <2>2. ASSUME NEW w \in logs', w.after # 0
        PROVE  \E k \in logs' : k.id = w.after /\ k.of = w.of /\ k.after = 0
    <3>1. w \in logs /\ w \notin W
      BY <1>4, <2>2
    <3>2. PICK k \in logs : k.id = w.after /\ k.of = w.of /\ k.after = 0
      BY <1>0, <2>2, <3>1 DEF CgLogsFit
    <3>3. k # l /\ k \notin W
      BY <1>3, <3>1, <3>2
    <3>. QED  BY <1>4, <3>2, <3>3
  <2>3. ASSUME NEW t \in CgThing, logPromises'[t] # 0
        PROVE  \E k \in logs' : k.id = logPromises'[t] /\ k.of = t /\ k.after = 0
    <3>1. t # l.of /\ logPromises'[t] = logPromises[t]
      BY <1>5, <2>3
    <3>. QED  BY <1>0, <1>6, <2>3, <3>1 DEF CgLogsFit
  <2>4. ASSUME NEW k \in logs', k.after = 0, k.of \notin disturbed' PROVE k.id = logPromises'[k.of]
    <3>1. k \in logs /\ k.of \in CgThing /\ k.of # l.of /\ k.of \notin disturbed
      BY <1>0, <1>4, <2>4 DEF Cg!LoggerTypeOK, Cg!Log
    <3>. QED  BY <1>0, <1>5, <2>4, <3>1 DEF CgLogsFit
  <2>5. \A k, m \in logs' : k.id = m.id => k = m
    BY <1>0, <1>6 DEF CgLogsFit
  <2>. QED  BY <2>1, <2>2, <2>3, <2>4, <2>5 DEF CgLogsFit
<1>9. Cg!OnlyLogging'
  BY <1>0, <1>4, <1>6 DEF Cg!OnlyLogging, Cg!Running
<1>10. ASSUME NEW t \in CgThing \ disturbed', NEW v \in Nat, CgLastLogged(t, v) PROVE CgLastLogged(t, v)'
  <2>1. t # l.of
    BY <1>4
  <2>2. \A k \in logs' : k.of = t => k \in logs
    BY <1>6
  <2>3. \A k \in logs : k.of = t => k \in logs'
    BY <1>6, <2>1
  <2>. QED  BY <1>4, <1>10, <2>2, <2>3 DEF CgLastLogged
<1>. QED  BY <1>4, <1>6, <1>7, <1>8, <1>9, <1>10 DEF CgLogIInv

LEMMA CgLoggerResetKeeps ==
  ASSUME CgLogIInv, Cg!LoggerReset
  PROVE  CgLogIInv' /\ UNCHANGED <<logs, recorded, disturbed>>
<1>1. loggingList' = {} /\ UNCHANGED <<logs, logPromises, recorded, disturbed>>
  BY DEF Cg!LoggerReset
<1>2. Cg!LoggerTypeOK'
  BY <1>1 DEF CgLogIInv, Cg!LoggerTypeOK
<1>3. CgLogsFit'
  BY <1>1 DEF CgLogIInv, CgLogsFit
<1>4. Cg!OnlyLogging'
  BY <1>1 DEF Cg!OnlyLogging
<1>. QED  BY <1>1, <1>2, <1>3, <1>4 DEF CgLogIInv

LEMMA CgLoggerSame ==
  ASSUME UNCHANGED Cg!logger, CgLogIInv
  PROVE  CgLogIInv' /\ UNCHANGED <<logs, recorded, disturbed>>
<1>1. UNCHANGED <<logs, logPromises, loggingList, recorded, disturbed>>
  BY DEF Cg!logger
<1>. QED  BY <1>1 DEF CgLogIInv, Cg!LoggerTypeOK, CgLogsFit, Cg!OnlyLogging, Cg!Running

LEMMA CgLoggerInitIInv == ASSUME Cg!LoggerInit PROVE CgLogIInv
<1>1. Cg!LoggerTypeOK
  BY DEF Cg!LoggerInit, Cg!LoggerTypeOK
<1>2. CgLogsFit
  BY FS_EmptySet DEF Cg!LoggerInit, CgLogsFit
<1>. QED  BY <1>1, <1>2 DEF Cg!LoggerInit, CgLogIInv, Cg!OnlyLogging

--------------------
(* Calls and their handlers. *)

\* A call that is over does not come back, and the listener is not behind by more than that.
CgCallsFit ==
  /\ ended \subseteq over /\ lastEnded \subseteq over
  /\ \A c \in over : calls[c] = 0
  /\ \A c \in lastEnded : lastCalls[c] = 0
  /\ \A c \in CgThing : lastCalls[c] # 0 => c \in over \/ lastCalls[c] <= calls[c]

\* What was shown of a call is what the listener saw of it last.
CgSeen(c) ==
  /\ lastCalls[c] # 0 => shown[c] = lastCalls[c]
  /\ lastCalls[c] = 0 /\ shown[c] # 0 => c \in over

\* Nothing on its way or recorded is newer than what was shown.
CgOlder(c) ==
  /\ \A h \in handlers : h.of = c => h.version <= shown[c]
  /\ \A l \in logs : l.of = c => l.version # 0 /\ l.version <= shown[c]
  /\ recorded[c] <= shown[c]

\* The handler of a new call is the first of all.
CgNewFirst(c) ==
  \A h \in handlers : h.of = c /\ h.new =>
    /\ \A g \in handlers : g.of = c => h.version <= g.version
    /\ \A l \in logs : l.of = c => h.version <= l.version
    /\ recorded[c] = 0 \/ h.version <= recorded[c]

\* Handlers that await a match began under the options there are.
CgAsAsked(c) ==
  \A h \in handlers : h.of = c =>
    /\ h.at = "activity" => (h.new <=> autoLog)
    /\ h.at = "contact" => h.new /\ autoLog

CgNoRecord(c) == recorded[c] = 0 /\ \A l \in logs : l.of # c

\* A handler of an older version, which will log it over a newer one, or find it cannot.
CgDoomed(c) ==
  /\ shown[c] = 3 /\ ~CgNoRecord(c)
  /\ \E g \in handlers : g.of = c /\ g.version = 2 /\ ~g.new

CgServed(c) ==
  \/ shown[c] = 0
  \/ \E h \in handlers : h.of = c /\ h.version = shown[c]
  \/ CgLastLogged(c, shown[c])
  \/ shown[c] = 1 /\ ~logOnRinging
  \/ ~autoLog /\ CgNoRecord(c)
  \/ CgDoomed(c)

CgUnexcused == \A c \in CgThing \ excused : CgSeen(c) /\ CgOlder(c) /\ CgNewFirst(c) /\ CgAsAsked(c)
CgAllServed == \A c \in CgThing \ (excused \cup disturbed) : CgServed(c)

CgIInv == Cg!TypeOK /\ CgLogIInv /\ CgCallsFit /\ CgUnexcused /\ CgAllServed

LEMMA CgHandlerFits ==
  ASSUME Cg!TypeOK, NEW h \in handlers
  PROVE  /\ h.of \in CgThing /\ h.version \in {1, 2, 3} /\ h.new \in BOOLEAN
         /\ h.at \in {"active", "activity", "contact"}
         /\ \A what \in {"active", "activity", "contact"} :
              /\ [h EXCEPT !.at = what] \in Cg!Handler
              /\ [h EXCEPT !.at = what].of = h.of /\ [h EXCEPT !.at = what].at = what
              /\ [h EXCEPT !.at = what].version = h.version /\ [h EXCEPT !.at = what].new = h.new
<1>1. h \in Cg!Handler
  BY DEF Cg!TypeOK
<1>. QED  BY <1>1 DEF Cg!Handler

\* What a step leaves alone of a call.
LEMMA CgCallKept ==
  ASSUME CgIInv, NEW c \in CgThing, UNCHANGED <<autoLog, logOnRinging, lastCalls, shown>>,
         over \subseteq over', recorded'[c] = recorded[c],
         \A h : h.of = c => (h \in handlers <=> h \in handlers'),
         \A l : l.of = c => (l \in logs <=> l \in logs')
  PROVE  /\ CgSeen(c) /\ CgOlder(c) /\ CgNewFirst(c) /\ CgAsAsked(c)
              => CgSeen(c)' /\ CgOlder(c)' /\ CgNewFirst(c)' /\ CgAsAsked(c)'
         /\ CgServed(c) => CgServed(c)'
<1>1. CgSeen(c) => CgSeen(c)'
  BY DEF CgSeen
<1>2. CgOlder(c) => CgOlder(c)'
  BY DEF CgOlder
<1>3. CgNewFirst(c) => CgNewFirst(c)'
  BY DEF CgNewFirst
<1>4. CgAsAsked(c) => CgAsAsked(c)'
  BY DEF CgAsAsked
<1>5. CgLastLogged(c, shown[c]) => CgLastLogged(c, shown[c])'
  BY DEF CgLastLogged
<1>6. CgNoRecord(c) <=> CgNoRecord(c)'
  BY DEF CgNoRecord
<1>7. CgDoomed(c) => CgDoomed(c)'
  BY <1>6 DEF CgDoomed
<1>8. CgServed(c) => CgServed(c)'
  BY <1>5, <1>6, <1>7 DEF CgServed
<1>. QED  BY <1>1, <1>2, <1>3, <1>4, <1>8

\* Logs of one version leave a record of it.
LEMMA CgAllOfOne ==
  ASSUME NEW c, NEW v, \A l \in logs : l.of = c => l.version = v,
         recorded[c] = v \/ \E l \in logs : l.of = c
  PROVE  CgLastLogged(c, v)
  BY DEF CgLastLogged

LEMMA CgInitIInv == ASSUME CgBounds PROVE Cg!Init => CgIInv
<1>. SUFFICES ASSUME Cg!Init PROVE CgIInv
  OBVIOUS
<1>1. CgLogIInv
  BY CgLoggerInitIInv DEF Cg!Init
<1>2. /\ calls = [c \in CgThing |-> 0] /\ ended = {} /\ over = {}
      /\ loggedIn = FALSE /\ status = "pending" /\ active = TRUE
      /\ autoLog \in BOOLEAN /\ logOnRinging \in BOOLEAN
      /\ lastCalls = calls /\ lastEnded = {} /\ handlers = {}
      /\ shown = calls /\ excused = {} /\ events = 0
      /\ logs = {} /\ recorded = [t \in CgThing |-> 0]
  BY DEF Cg!Init, Cg!LoggerInit
<1>3. Cg!TypeOK
  <2>1. Cg!LoggerTypeOK
    BY <1>1 DEF CgLogIInv
  <2>2. calls \in [CgThing -> 0..2] /\ lastCalls \in [CgThing -> 0..2] /\ shown \in [CgThing -> 0..3]
    BY <1>2
  <2>3. events \in 0..CgMaxEvents
    BY <1>2 DEF CgBounds
  <2>4. /\ ended \subseteq CgThing /\ over \subseteq CgThing /\ lastEnded \subseteq CgThing
        /\ handlers \subseteq Cg!Handler /\ excused \subseteq CgThing
    BY <1>2
  <2>5. loggedIn \in BOOLEAN /\ status \in {"pending", "ready"} /\ active \in BOOLEAN
    BY <1>2
  <2>. QED  BY <1>2, <2>1, <2>2, <2>3, <2>4, <2>5 DEF Cg!TypeOK
<1>4. CgCallsFit
  BY <1>2 DEF CgCallsFit
<1>5. CgUnexcused
  BY <1>2 DEF CgUnexcused, CgSeen, CgOlder, CgNewFirst, CgAsAsked
<1>6. CgAllServed
  BY <1>2 DEF CgAllServed, CgServed
<1>. QED  BY <1>1, <1>3, <1>4, <1>5, <1>6 DEF CgIInv

--------------------
(* The store listener. *)

LEMMA CgInitializeKeeps == ASSUME CgBounds, CgIInv, Cg!Initialize PROVE CgIInv'
<1>0. /\ Cg!TypeOK /\ CgLogIInv /\ CgCallsFit /\ CgUnexcused /\ CgAllServed
      /\ status' = "ready"
      /\ UNCHANGED <<Cg!logger, calls, ended, over, loggedIn, active, autoLog, logOnRinging, lastCalls,
                     lastEnded, shown, handlers, excused, events>>
  BY DEF CgIInv, Cg!Initialize, Cg!monitor, Cg!options, Cg!seen
<1>1. CgLogIInv' /\ UNCHANGED <<logs, recorded, disturbed>>
  BY <1>0, CgLoggerSame
<1>2. Cg!TypeOK'
  <2>1. Cg!LoggerTypeOK'
    BY <1>1 DEF CgLogIInv
  <2>. QED  BY <1>0, <2>1 DEF Cg!TypeOK
<1>3. CgCallsFit'
  BY <1>0 DEF CgCallsFit
<1>4. CgUnexcused' /\ CgAllServed'
  BY <1>0, <1>1, CgCallKept DEF CgUnexcused, CgAllServed
<1>. QED  BY <1>1, <1>2, <1>3, <1>4 DEF CgIInv

LEMMA CgResetKeeps == ASSUME CgBounds, CgIInv, Cg!Reset PROVE CgIInv'
<1>0. /\ Cg!TypeOK /\ CgLogIInv /\ CgCallsFit /\ CgUnexcused /\ CgAllServed
      /\ status' = "pending"
      /\ lastCalls' = [c \in CgThing |-> 0] /\ lastEnded' = {}
      /\ Cg!LoggerReset
      /\ excused' = excused \cup {c \in CgThing : shown[c] # 0}
      /\ UNCHANGED <<calls, ended, over, loggedIn, active, autoLog, logOnRinging, shown, handlers,
                     events>>
  BY DEF CgIInv, Cg!Reset, Cg!monitor, Cg!options
<1>1. CgLogIInv' /\ UNCHANGED <<logs, recorded, disturbed>>
  BY <1>0, CgLoggerResetKeeps
<1>2. Cg!TypeOK'
  <2>1. Cg!LoggerTypeOK'
    BY <1>1 DEF CgLogIInv
  <2>. QED  BY <1>0, <2>1 DEF Cg!TypeOK
<1>3. CgCallsFit'
  BY <1>0 DEF CgCallsFit
<1>4. CgUnexcused'
  <2>. SUFFICES ASSUME NEW c \in CgThing \ excused'
                PROVE  CgSeen(c)' /\ CgOlder(c)' /\ CgNewFirst(c)' /\ CgAsAsked(c)'
    BY DEF CgUnexcused
  <2>1. shown[c] = 0 /\ c \in CgThing \ excused
    BY <1>0
  <2>2. CgOlder(c) /\ CgNewFirst(c) /\ CgAsAsked(c)
    BY <1>0, <2>1 DEF CgUnexcused
  <2>3. CgSeen(c)'
    BY <1>0, <2>1 DEF CgSeen
  <2>4. CgOlder(c)' /\ CgNewFirst(c)' /\ CgAsAsked(c)'
    BY <1>0, <1>1, <2>2 DEF CgOlder, CgNewFirst, CgAsAsked
  <2>. QED  BY <2>3, <2>4
<1>5. CgAllServed'
  BY <1>0 DEF CgAllServed, CgServed
<1>. QED  BY <1>1, <1>2, <1>3, <1>4, <1>5 DEF CgIInv

LEMMA CgProcessCallsKeeps == ASSUME CgBounds, CgIInv, Cg!ProcessCalls PROVE CgIInv'
<1>. DEFINE told == {c \in CgThing : Cg!Changed(c) \/ Cg!Recorded(c)}
            H(c) == [of |-> c, version |-> Cg!Handed(c), at |-> "active",
                     new |-> ~Cg!Recorded(c) /\ lastCalls[c] = 0]
<1>0. /\ Cg!TypeOK /\ CgLogIInv /\ CgCallsFit /\ CgUnexcused /\ CgAllServed
      /\ lastCalls' = calls /\ lastEnded' = ended
      /\ handlers' = handlers \cup {H(c) : c \in told}
      /\ shown' = [c \in CgThing |-> IF c \in told THEN Cg!Handed(c) ELSE shown[c]]
      /\ UNCHANGED <<Cg!logger, calls, ended, over, loggedIn, status, active, autoLog, logOnRinging,
                     excused, events>>
  BY DEF CgIInv, Cg!ProcessCalls, Cg!monitor, Cg!options
<1>1. CgLogIInv' /\ UNCHANGED <<logs, recorded, disturbed>>
  BY <1>0, CgLoggerSame
<1>2. ASSUME NEW c \in told
      PROVE  /\ c \in CgThing /\ Cg!Handed(c) \in {1, 2, 3} /\ H(c) \in Cg!Handler
             /\ H(c).of = c /\ H(c).version = Cg!Handed(c) /\ H(c).at = "active"
             /\ H(c).new => ~Cg!Recorded(c) /\ lastCalls[c] = 0
  <2>1. calls[c] \in 0..2 /\ lastCalls[c] \in 0..2 /\ c \in CgThing
    BY <1>0 DEF Cg!TypeOK
  <2>2. Cg!Handed(c) \in {1, 2, 3}
    BY <2>1 DEF Cg!Handed, Cg!Changed
  <2>3. (~Cg!Recorded(c) /\ lastCalls[c] = 0) \in BOOLEAN
    OBVIOUS
  <2>4. H(c) \in Cg!Handler
    BY <2>1, <2>2, <2>3 DEF Cg!Handler
  <2>. QED  BY <2>1, <2>2, <2>4
<1>3. /\ \A c \in told : H(c) \in handlers'
      /\ \A h \in handlers' : h \in handlers \/ (h.of \in told /\ h = H(h.of))
      /\ \A h \in handlers : h \in handlers'
  BY <1>0, <1>2
<1>. HIDE DEF H
<1>4. \A c \in CgThing : shown'[c] = IF c \in told THEN Cg!Handed(c) ELSE shown[c]
  BY <1>0
<1>5. Cg!TypeOK'
  <2>1. Cg!LoggerTypeOK'
    BY <1>1 DEF CgLogIInv
  <2>2. handlers' \subseteq Cg!Handler
    BY <1>0, <1>2, <1>3 DEF Cg!TypeOK
  <2>3. shown' \in [CgThing -> 0..3]
    BY <1>0, <1>2 DEF Cg!TypeOK
  <2>. QED  BY <1>0, <2>1, <2>2, <2>3 DEF Cg!TypeOK
<1>6. CgCallsFit'
  <2>1. \A c \in CgThing : calls[c] <= calls[c]
    BY <1>0 DEF Cg!TypeOK
  <2>. QED  BY <1>0, <2>1 DEF CgCallsFit
<1>7. ASSUME NEW c \in told, c \notin excused
      PROVE  /\ shown[c] <= Cg!Handed(c)
             /\ ~Cg!Recorded(c) /\ lastCalls[c] = 0 => shown[c] = 0
             /\ calls[c] # 0 => Cg!Handed(c) = calls[c]
             /\ calls[c] = 0 => c \in over
  <2>0. /\ c \in CgThing /\ calls[c] \in 0..2 /\ lastCalls[c] \in 0..2 /\ shown[c] \in 0..3
        /\ CgSeen(c)
    BY <1>0, <1>7 DEF Cg!TypeOK, CgUnexcused
  <2>1. CASE Cg!Recorded(c)
    <3>1. c \in over /\ calls[c] = 0
      BY <1>0, <2>1 DEF CgCallsFit, Cg!Recorded
    <3>. QED  BY <2>0, <2>1, <3>1 DEF Cg!Handed
  <2>2. CASE ~Cg!Recorded(c) /\ calls[c] = 0
    <3>1. lastCalls[c] # 0
      BY <2>2 DEF Cg!Changed
    <3>2. c \in over
      BY <1>0, <2>0, <2>2, <3>1 DEF CgCallsFit
    <3>. QED  BY <2>0, <2>2, <3>1, <3>2 DEF Cg!Handed, CgSeen
  <2>3. CASE ~Cg!Recorded(c) /\ calls[c] # 0
    <3>1. c \notin over
      BY <1>0, <2>3 DEF CgCallsFit
    <3>2. Cg!Handed(c) = calls[c]
      BY <2>3 DEF Cg!Handed
    <3>3. lastCalls[c] = 0 => shown[c] = 0
      BY <2>0, <3>1 DEF CgSeen
    <3>4. lastCalls[c] # 0 => shown[c] = lastCalls[c] /\ lastCalls[c] <= calls[c]
      BY <1>0, <2>0, <3>1 DEF CgSeen, CgCallsFit
    <3>. QED  BY <2>0, <2>3, <3>2, <3>3, <3>4
  <2>. QED  BY <2>1, <2>2, <2>3
<1>8. \A c \in CgThing \ told : lastCalls[c] = calls[c] /\ ~Cg!Recorded(c)
  BY DEF Cg!Changed
<1>9. CgUnexcused'
  <2>. SUFFICES ASSUME NEW c \in CgThing \ excused
                PROVE  CgSeen(c)' /\ CgOlder(c)' /\ CgNewFirst(c)' /\ CgAsAsked(c)'
    BY <1>0 DEF CgUnexcused
  <2>0. CgSeen(c) /\ CgOlder(c) /\ CgNewFirst(c) /\ CgAsAsked(c)
    BY <1>0 DEF CgUnexcused
  <2>1. CASE c \in told
    <3>1. shown'[c] = Cg!Handed(c) /\ shown[c] <= Cg!Handed(c) /\ Cg!Handed(c) \in {1, 2, 3}
      BY <1>2, <1>4, <1>7, <2>1
    <3>2. \A h \in handlers' : h.of = c => h \in handlers \/ h = H(c)
      BY <1>3
    <3>3. shown[c] \in 0..3 /\ recorded[c] \in Nat /\ \A l \in logs : l.version \in Nat
      BY <1>0 DEF Cg!TypeOK, Cg!LoggerTypeOK, Cg!Log
    <3>4. CgSeen(c)'
      BY <1>0, <1>7, <2>1, <3>1 DEF CgSeen
    <3>5. CgOlder(c)'
      <4>1. \A h \in handlers' : h.of = c => h.version <= Cg!Handed(c)
        <5>. SUFFICES ASSUME NEW h \in handlers', h.of = c PROVE h.version <= Cg!Handed(c)
          OBVIOUS
        <5>1. CASE h \in handlers
          <6>1. h.version \in {1, 2, 3} /\ h.version <= shown[c]
            BY <1>0, <2>0, <5>1, CgHandlerFits DEF CgOlder
          <6>. QED  BY <3>1, <3>3, <6>1
        <5>2. CASE h = H(c)
          <6>1. h.version = Cg!Handed(c)
            BY <1>2, <2>1, <5>2
          <6>. QED  BY <3>1, <6>1
        <5>. QED  BY <3>2, <5>1, <5>2
      <4>2. \A l \in logs : l.of = c => l.version # 0 /\ l.version <= Cg!Handed(c)
        BY <2>0, <3>1, <3>3 DEF CgOlder
      <4>3. recorded[c] <= Cg!Handed(c)
        BY <2>0, <3>1, <3>3 DEF CgOlder
      <4>. QED  BY <1>1, <3>1, <4>1, <4>2, <4>3 DEF CgOlder
    <3>6. CgNewFirst(c)'
      <4>. SUFFICES ASSUME NEW h \in handlers', h.of = c, h.new
                    PROVE  /\ \A g \in handlers' : g.of = c => h.version <= g.version
                           /\ \A l \in logs : l.of = c => h.version <= l.version
                           /\ recorded[c] = 0 \/ h.version <= recorded[c]
        BY <1>1 DEF CgNewFirst
      <4>1. CASE h \in handlers
        <5>1. h.version \in {1, 2, 3} /\ h.version <= shown[c]
          BY <1>0, <2>0, <4>1, CgHandlerFits DEF CgOlder
        <5>2. h.version <= H(c).version
          BY <1>2, <2>1, <3>1, <3>3, <5>1
        <5>3. \A g \in handlers' : g.of = c => h.version <= g.version
          BY <2>0, <3>2, <4>1, <5>2 DEF CgNewFirst
        <5>. QED  BY <2>0, <4>1, <5>3 DEF CgNewFirst
      <4>2. CASE h = H(c)
        <5>1. shown[c] = 0
          BY <1>2, <1>7, <2>1, <4>2
        <5>2. recorded[c] = 0 /\ \A l \in logs : l.of # c
          BY <2>0, <3>3, <5>1 DEF CgOlder
        <5>3. \A g \in handlers : g.of # c
          <6>. SUFFICES ASSUME NEW g \in handlers, g.of = c PROVE FALSE
            OBVIOUS
          <6>1. g.version \in {1, 2, 3} /\ g.version <= 0
            BY <1>0, <2>0, <5>1, CgHandlerFits DEF CgOlder
          <6>. QED  BY <6>1
        <5>4. h.version <= h.version
          BY <1>2, <2>1, <4>2
        <5>. QED  BY <3>2, <4>2, <5>2, <5>3, <5>4
      <4>. QED  BY <3>2, <4>1, <4>2
    <3>7. CgAsAsked(c)'
      BY <1>0, <1>2, <2>0, <2>1, <3>2 DEF CgAsAsked
    <3>. QED  BY <3>4, <3>5, <3>6, <3>7
  <2>2. CASE c \notin told
    <3>1. shown'[c] = shown[c] /\ lastCalls'[c] = lastCalls[c]
      BY <1>0, <1>4, <1>8, <2>2
    <3>2. \A h \in handlers' : h.of = c => h \in handlers
      BY <1>3, <2>2
    <3>3. CgSeen(c)'
      BY <1>0, <2>0, <3>1 DEF CgSeen
    <3>4. CgOlder(c)'
      BY <1>1, <2>0, <3>1, <3>2 DEF CgOlder
    <3>5. CgNewFirst(c)'
      BY <1>1, <2>0, <3>2 DEF CgNewFirst
    <3>6. CgAsAsked(c)'
      BY <1>0, <2>0, <3>2 DEF CgAsAsked
    <3>. QED  BY <3>3, <3>4, <3>5, <3>6
  <2>. QED  BY <2>1, <2>2
<1>10. CgAllServed'
  <2>. SUFFICES ASSUME NEW c \in CgThing \ (excused \cup disturbed) PROVE CgServed(c)'
    BY <1>0, <1>1 DEF CgAllServed
  <2>1. CASE c \in told
    <3>1. H(c) \in handlers' /\ H(c).of = c /\ H(c).version = shown'[c]
      BY <1>2, <1>3, <1>4, <2>1
    <3>. QED  BY <3>1 DEF CgServed
  <2>2. CASE c \notin told
    <3>1. shown'[c] = shown[c] /\ \A h \in handlers : h \in handlers'
      BY <1>3, <1>4, <2>2
    <3>2. CgServed(c)
      BY <1>0 DEF CgAllServed
    <3>3. CgLastLogged(c, shown[c]) => CgLastLogged(c, shown[c])'
      BY <1>1, <3>1 DEF CgLastLogged
    <3>4. CgNoRecord(c) <=> CgNoRecord(c)'
      BY <1>1 DEF CgNoRecord
    <3>5. CgDoomed(c) => CgDoomed(c)'
      BY <3>1, <3>4 DEF CgDoomed
    <3>. QED  BY <1>0, <3>1, <3>2, <3>3, <3>4, <3>5 DEF CgServed
  <2>. QED  BY <2>1, <2>2
<1>. QED  BY <1>1, <1>5, <1>6, <1>9, <1>10 DEF CgIInv

--------------------
(* The handlers. *)

CgStill == UNCHANGED <<calls, ended, over, loggedIn, status, active, autoLog, logOnRinging, lastCalls,
                       lastEnded, shown>>

\* What the handlers and the logs do not touch.
LEMMA CgStillKeeps ==
  ASSUME CgIInv, CgStill, CgLogIInv', handlers' \subseteq Cg!Handler, excused' \subseteq CgThing,
         events' \in 0..CgMaxEvents
  PROVE  Cg!TypeOK' /\ CgCallsFit'
<1>1. Cg!TypeOK /\ CgCallsFit
  BY DEF CgIInv
<1>2. Cg!LoggerTypeOK'
  BY DEF CgLogIInv
<1>3. Cg!TypeOK'
  BY <1>1, <1>2 DEF Cg!TypeOK, CgStill
<1>4. CgCallsFit'
  BY <1>1 DEF CgCallsFit, CgStill
<1>. QED  BY <1>3, <1>4

\* Why the handler of a call need not log it.
CgGivesUp(h) ==
  \/ h.version = 1 /\ ~logOnRinging
  \/ h.new /\ ~autoLog
  \/ ~h.new /\ ~autoLog /\ CgNoRecord(h.of)

\* A handler that gives up was not about the version shown last, or that one needs no record,
\* or there is something else that is about it.
LEMMA CgDropKeeps ==
  ASSUME CgIInv, NEW h \in handlers, handlers' = handlers \ {h}, UNCHANGED Cg!logger, CgStill,
         events' \in 0..CgMaxEvents,
         excused \subseteq excused', excused' \subseteq excused \cup {h.of},
         h.of \in excused' \/ CgGivesUp(h)
  PROVE  CgIInv'
<1>0. /\ Cg!TypeOK /\ CgLogIInv /\ CgCallsFit /\ CgUnexcused /\ CgAllServed
  BY DEF CgIInv
<1>1. CgLogIInv' /\ UNCHANGED <<logs, recorded, disturbed>>
  BY <1>0, CgLoggerSame
<1>2. h.of \in CgThing /\ h.version \in {1, 2, 3}
  BY <1>0, CgHandlerFits
<1>3. excused \subseteq excused' /\ excused' \subseteq excused \cup {h.of}
  OBVIOUS
<1>4. Cg!TypeOK' /\ CgCallsFit'
  <2>1. handlers' \subseteq Cg!Handler /\ excused \subseteq CgThing
    BY <1>0 DEF Cg!TypeOK
  <2>2. excused' \subseteq CgThing
    BY <1>2, <1>3, <2>1
  <2>. QED  BY <1>1, <2>1, <2>2, CgStillKeeps
<1>5. CgUnexcused'
  <2>. SUFFICES ASSUME NEW c \in CgThing \ excused'
                PROVE  CgSeen(c)' /\ CgOlder(c)' /\ CgNewFirst(c)' /\ CgAsAsked(c)'
    BY DEF CgUnexcused
  <2>1. CgSeen(c) /\ CgOlder(c) /\ CgNewFirst(c) /\ CgAsAsked(c)
    BY <1>0, <1>3 DEF CgUnexcused
  <2>2. \A g \in handlers' : g \in handlers
    BY <1>0
  <2>3. CgSeen(c)'
    BY <2>1 DEF CgSeen, CgStill
  <2>4. CgOlder(c)'
    BY <1>1, <2>1, <2>2 DEF CgOlder, CgStill
  <2>5. CgNewFirst(c)'
    BY <1>1, <2>1, <2>2 DEF CgNewFirst
  <2>6. CgAsAsked(c)'
    BY <2>1, <2>2 DEF CgAsAsked, CgStill
  <2>. QED  BY <2>3, <2>4, <2>5, <2>6
<1>6. CgAllServed'
  <2>. SUFFICES ASSUME NEW c \in CgThing, c \notin excused', c \notin disturbed PROVE CgServed(c)'
    BY <1>1 DEF CgAllServed
  <2>1. CgServed(c)
    BY <1>0, <1>3 DEF CgAllServed
  <2>2. CASE c # h.of
    <3>1. \A g : g.of = c => (g \in handlers <=> g \in handlers')
      BY <1>0, <2>2
    <3>. QED  BY <1>1, <2>1, <3>1, CgCallKept DEF CgStill
  <2>3. CASE c = h.of
    <3>1. \/ h.version = 1 /\ ~logOnRinging
          \/ h.new /\ ~autoLog
          \/ ~h.new /\ ~autoLog /\ CgNoRecord(c)
      BY <1>3, <2>3 DEF CgGivesUp
    <3>2. CgOlder(c) /\ CgNewFirst(c)
      BY <1>0, <1>3 DEF CgUnexcused
    <3>3. CgLastLogged(c, shown[c]) => CgLastLogged(c, shown[c])'
      BY <1>1 DEF CgLastLogged, CgStill
    <3>4. CgNoRecord(c) <=> CgNoRecord(c)'
      BY <1>1 DEF CgNoRecord
    <3>5. CgDoomed(c) => CgDoomed(c)'
      <4>1. SUFFICES ASSUME CgDoomed(c) PROVE CgDoomed(c)'
        OBVIOUS
      <4>2. shown[c] = 3 /\ ~CgNoRecord(c)
        BY <4>1 DEF CgDoomed
      <4>3. PICK g \in handlers : g.of = c /\ g.version = 2 /\ ~g.new
        BY <4>1 DEF CgDoomed
      <4>4. g # h
        BY <2>3, <3>1, <4>2, <4>3
      <4>5. g \in handlers'
        BY <1>0, <4>4
      <4>. QED  BY <3>4, <4>2, <4>3, <4>5 DEF CgDoomed, CgStill
    <3>6. CASE h.version # shown[c]
      <4>1. (\E g \in handlers : g.of = c /\ g.version = shown[c])
              => \E g \in handlers' : g.of = c /\ g.version = shown[c]
        BY <1>0, <3>6
      <4>. QED  BY <2>1, <3>3, <3>4, <3>5, <4>1 DEF CgServed, CgStill
    <3>7. CASE h.version = shown[c] /\ h.version = 1 /\ ~logOnRinging
      BY <3>7 DEF CgServed, CgStill
    <3>8. CASE ~autoLog /\ CgNoRecord(c)
      BY <3>4, <3>8 DEF CgServed, CgStill
    <3>9. CASE h.version = shown[c] /\ h.new /\ ~autoLog
      <4>1. shown[c] \in Nat /\ recorded[c] \in Nat /\ \A l \in logs : l.version \in Nat
        BY <1>0, <1>2, <3>9 DEF Cg!TypeOK, Cg!LoggerTypeOK, Cg!Log
      <4>2. \A l \in logs : l.of = c => l.version = shown[c]
        <5>1. \A l \in logs : l.of = c => l.version <= shown[c]
          BY <3>2 DEF CgOlder
        <5>2. \A l \in logs : l.of = c => shown[c] <= l.version
          BY <2>3, <3>2, <3>9 DEF CgNewFirst
        <5>. QED  BY <4>1, <5>1, <5>2
      <4>3. recorded[c] = 0 \/ recorded[c] = shown[c]
        <5>1. recorded[c] <= shown[c]
          BY <3>2 DEF CgOlder
        <5>2. recorded[c] = 0 \/ shown[c] <= recorded[c]
          BY <2>3, <3>2, <3>9 DEF CgNewFirst
        <5>. QED  BY <4>1, <5>1, <5>2
      <4>4. CgNoRecord(c) \/ CgLastLogged(c, shown[c])
        <5>1. CASE recorded[c] = shown[c] \/ \E l \in logs : l.of = c
          <6>1. CgLastLogged(c, shown[c])
            BY <4>2, <5>1, CgAllOfOne
          <6>. QED  BY <6>1
        <5>2. CASE recorded[c] = 0 /\ \A l \in logs : l.of # c
          BY <5>2 DEF CgNoRecord
        <5>. QED  BY <4>3, <5>1, <5>2
      <4>. QED  BY <3>3, <3>4, <3>9, <4>4 DEF CgServed, CgStill
    <3>. QED  BY <3>1, <3>6, <3>7, <3>8, <3>9
  <2>. QED  BY <2>2, <2>3
<1>. QED  BY <1>1, <1>4, <1>5, <1>6 DEF CgIInv

LEMMA CgDropped ==
  ASSUME NEW h \in handlers, NEW excuse, Cg!Drop(h, excuse)
  PROVE  /\ handlers' = handlers \ {h} /\ UNCHANGED Cg!logger
         /\ excused \subseteq excused' /\ excused' \subseteq excused \cup {h.of}
  BY DEF Cg!Drop

\* A handler that goes on to ask is about what it was.
LEMMA CgAwaitKeeps ==
  ASSUME CgIInv, NEW h \in handlers, NEW what \in {"activity", "contact"}, Cg!Await(h, what), CgStill,
         events' \in 0..CgMaxEvents,
         h.of \notin excused => /\ what = "activity" => (h.new <=> autoLog)
                                /\ what = "contact" => h.new /\ autoLog
  PROVE  CgIInv'
<1>0. /\ Cg!TypeOK /\ CgLogIInv /\ CgCallsFit /\ CgUnexcused /\ CgAllServed
      /\ UNCHANGED Cg!logger /\ excused' = excused
  BY DEF CgIInv, Cg!Await
<1>1. CgLogIInv' /\ UNCHANGED <<logs, recorded, disturbed>>
  BY <1>0, CgLoggerSame
<1>2. PICK k : k = [h EXCEPT !.at = what]
  OBVIOUS
<1>3. k \in Cg!Handler /\ k.of = h.of /\ k.at = what /\ k.version = h.version /\ k.new = h.new
  <2>1. what \in {"active", "activity", "contact"}
    OBVIOUS
  <2>2. /\ [h EXCEPT !.at = what] \in Cg!Handler
        /\ [h EXCEPT !.at = what].of = h.of /\ [h EXCEPT !.at = what].at = what
        /\ [h EXCEPT !.at = what].version = h.version /\ [h EXCEPT !.at = what].new = h.new
    <3>1. h \in Cg!Handler
      BY <1>0 DEF Cg!TypeOK
    <3>. QED  BY <2>1, <3>1 DEF Cg!Handler
  <2>. QED  BY <1>2, <2>2
<1>4. handlers' = (handlers \ {h}) \cup {k}
  BY <1>2 DEF Cg!Await
<1>5. Cg!TypeOK' /\ CgCallsFit'
  <2>1. handlers' \subseteq Cg!Handler /\ excused' \subseteq CgThing
    BY <1>0, <1>3, <1>4 DEF Cg!TypeOK
  <2>. QED  BY <1>1, <2>1, CgStillKeeps
<1>6. /\ \A g \in handlers' : \E f \in handlers : f.of = g.of /\ f.version = g.version /\ f.new = g.new
      /\ \A f \in handlers : \E g \in handlers' : f.of = g.of /\ f.version = g.version /\ f.new = g.new
  BY <1>3, <1>4
<1>7. CgUnexcused'
  <2>. SUFFICES ASSUME NEW c \in CgThing, c \notin excused
                PROVE  CgSeen(c)' /\ CgOlder(c)' /\ CgNewFirst(c)' /\ CgAsAsked(c)'
    BY <1>0 DEF CgUnexcused
  <2>1. CgSeen(c) /\ CgOlder(c) /\ CgNewFirst(c) /\ CgAsAsked(c)
    BY <1>0 DEF CgUnexcused
  <2>2. CgSeen(c)'
    BY <2>1 DEF CgSeen, CgStill
  <2>3. CgOlder(c)'
    BY <1>1, <1>6, <2>1 DEF CgOlder, CgStill
  <2>4. CgNewFirst(c)'
    <3>. SUFFICES ASSUME NEW f \in handlers', f.of = c, f.new
                  PROVE  /\ \A g \in handlers' : g.of = c => f.version <= g.version
                         /\ \A l \in logs : l.of = c => f.version <= l.version
                         /\ recorded[c] = 0 \/ f.version <= recorded[c]
      BY <1>1 DEF CgNewFirst
    <3>1. PICK e \in handlers : e.of = c /\ e.version = f.version /\ e.new
      BY <1>6
    <3>2. \A g \in handlers : g.of = c => f.version <= g.version
      BY <2>1, <3>1 DEF CgNewFirst
    <3>3. \A g \in handlers' : g.of = c => f.version <= g.version
      BY <1>6, <3>2
    <3>. QED  BY <2>1, <3>1, <3>3 DEF CgNewFirst
  <2>5. CgAsAsked(c)'
    <3>. SUFFICES ASSUME NEW f \in handlers', f.of = c
                  PROVE  /\ f.at = "activity" => (f.new <=> autoLog)
                         /\ f.at = "contact" => f.new /\ autoLog
      BY DEF CgAsAsked, CgStill
    <3>1. CASE f = k
      BY <1>3, <3>1
    <3>2. CASE f # k
      <4>1. f \in handlers
        BY <1>4, <3>2
      <4>. QED  BY <2>1, <4>1 DEF CgAsAsked
    <3>. QED  BY <3>1, <3>2
  <2>. QED  BY <2>2, <2>3, <2>4, <2>5
<1>8. CgAllServed'
  <2>. SUFFICES ASSUME NEW c \in CgThing, c \notin excused, c \notin disturbed PROVE CgServed(c)'
    BY <1>0, <1>1 DEF CgAllServed
  <2>1. CgServed(c)
    BY <1>0 DEF CgAllServed
  <2>2. CgLastLogged(c, shown[c]) => CgLastLogged(c, shown[c])'
    BY <1>1 DEF CgLastLogged, CgStill
  <2>3. CgNoRecord(c) <=> CgNoRecord(c)'
    BY <1>1 DEF CgNoRecord
  <2>4. CgDoomed(c) => CgDoomed(c)'
    <3>1. SUFFICES ASSUME CgDoomed(c) PROVE CgDoomed(c)'
      OBVIOUS
    <3>2. \E g \in handlers' : g.of = c /\ g.version = 2 /\ ~g.new
      BY <1>6, <3>1 DEF CgDoomed
    <3>. QED  BY <2>3, <3>1, <3>2 DEF CgDoomed, CgStill
  <2>5. (\E g \in handlers : g.of = c /\ g.version = shown[c])
          => \E g \in handlers' : g.of = c /\ g.version = shown[c]
    BY <1>6
  <2>. QED  BY <2>1, <2>2, <2>3, <2>4, <2>5 DEF CgServed, CgStill
<1>. QED  BY <1>1, <1>5, <1>7, <1>8 DEF CgIInv

\* A handler that logs what was shown last serves it; behind a newer handler, or one of the
\* version between, the call is not left there.
LEMMA CgAutoLogKeeps ==
  ASSUME CgIInv, NEW h \in handlers, Cg!AutoLogCall(h), CgStill, events' \in 0..CgMaxEvents
  PROVE  CgIInv'
<1>1. CASE status # "ready"
  <2>1. Cg!Drop(h, TRUE)
    BY <1>1 DEF Cg!AutoLogCall
  <2>2. h.of \in excused'
    BY <2>1 DEF Cg!Drop
  <2>. QED  BY <2>1, <2>2, CgDropped, CgDropKeeps
<1>2. CASE status = "ready"
  <2>0. /\ Cg!TypeOK /\ CgLogIInv /\ CgCallsFit /\ CgUnexcused /\ CgAllServed
        /\ handlers' = handlers \ {h}
    BY <1>2 DEF CgIInv, Cg!AutoLogCall
  <2>1. h.of \in CgThing /\ h.version \in {1, 2, 3} /\ h.version \in Nat
    <3>1. h.of \in CgThing /\ h.version \in {1, 2, 3}
      BY <2>0, CgHandlerFits
    <3>. QED  BY <3>1
  <2>2. Cg!BeginLog(h.of, h.version)
    BY <1>2 DEF Cg!AutoLogCall
  <2>3. /\ CgLogIInv'
        /\ disturbed \subseteq disturbed' /\ recorded' = recorded
        /\ \E k \in logs' : k.of = h.of /\ k.version = h.version /\ logs' = logs \cup {k}
        /\ h.of \notin disturbed' => CgLastLogged(h.of, h.version)'
    BY <2>0, <2>1, <2>2, CgBeginLogKeeps
  <2>4. PICK k \in logs' : k.of = h.of /\ k.version = h.version /\ logs' = logs \cup {k}
    BY <2>3
  <2>5. /\ excused \subseteq excused' /\ excused' \subseteq excused \cup {h.of}
        /\ h.of \notin excused' =>
             \/ ~(h.version < shown[h.of])
             \/ \E g \in handlers : g.of = h.of /\ g.version > h.version
    BY <1>2 DEF Cg!AutoLogCall
  <2>6. Cg!TypeOK' /\ CgCallsFit'
    <3>1. handlers' \subseteq Cg!Handler /\ excused \subseteq CgThing
      BY <2>0 DEF Cg!TypeOK
    <3>2. excused' \subseteq CgThing
      BY <2>1, <2>5, <3>1
    <3>. QED  BY <2>3, <3>1, <3>2, CgStillKeeps
  <2>7. ASSUME NEW c \in CgThing, c # h.of
        PROVE  /\ CgSeen(c) /\ CgOlder(c) /\ CgNewFirst(c) /\ CgAsAsked(c)
                     => CgSeen(c)' /\ CgOlder(c)' /\ CgNewFirst(c)' /\ CgAsAsked(c)'
               /\ CgServed(c) => CgServed(c)'
    <3>1. \A g : g.of = c => (g \in handlers <=> g \in handlers')
      BY <2>0, <2>7
    <3>2. \A l : l.of = c => (l \in logs <=> l \in logs')
      BY <2>4, <2>7
    <3>. QED  BY <2>3, <3>1, <3>2, CgCallKept DEF CgStill
  <2>8. CgUnexcused'
    <3>. SUFFICES ASSUME NEW c \in CgThing, c \notin excused'
                  PROVE  CgSeen(c)' /\ CgOlder(c)' /\ CgNewFirst(c)' /\ CgAsAsked(c)'
      BY DEF CgUnexcused
    <3>1. CgSeen(c) /\ CgOlder(c) /\ CgNewFirst(c) /\ CgAsAsked(c)
      BY <2>0, <2>5 DEF CgUnexcused
    <3>2. CASE c # h.of
      BY <2>7, <3>1, <3>2
    <3>3. CASE c = h.of
      <4>1. \A g \in handlers' : g \in handlers
        BY <2>0
      <4>2. CgSeen(c)'
        BY <3>1 DEF CgSeen, CgStill
      <4>3. h.version <= shown[c] /\ h.version # 0
        BY <2>1, <3>1, <3>3 DEF CgOlder
      <4>4. \A l \in logs' : l.of = c => l.version # 0 /\ l.version <= shown[c]
        BY <2>4, <3>1, <4>3 DEF CgOlder
      <4>5. CgOlder(c)'
        BY <2>3, <3>1, <4>1, <4>4 DEF CgOlder, CgStill
      <4>6. ASSUME NEW g \in handlers, g.of = c, g.new
            PROVE  \A l \in logs' : l.of = c => g.version <= l.version
        <5>1. g.version <= h.version
          BY <3>1, <3>3, <4>6 DEF CgNewFirst
        <5>. QED  BY <2>4, <3>1, <4>6, <5>1 DEF CgNewFirst
      <4>7. CgNewFirst(c)'
        BY <2>3, <3>1, <4>1, <4>6 DEF CgNewFirst
      <4>8. CgAsAsked(c)'
        BY <3>1, <4>1 DEF CgAsAsked, CgStill
      <4>. QED  BY <4>2, <4>5, <4>7, <4>8
    <3>. QED  BY <3>2, <3>3
  <2>9. CgAllServed'
    <3>. SUFFICES ASSUME NEW c \in CgThing, c \notin excused', c \notin disturbed' PROVE CgServed(c)'
      BY DEF CgAllServed
    <3>1. CASE c # h.of
      <4>1. CgServed(c)
        BY <2>0, <2>3, <2>5 DEF CgAllServed
      <4>. QED  BY <2>7, <3>1, <4>1
    <3>2. CASE c = h.of
      <4>1. CgOlder(c) /\ CgNewFirst(c)
        BY <2>0, <2>5 DEF CgUnexcused
      <4>2. CgLastLogged(c, h.version)'
        BY <2>3, <3>2
      <4>3. shown[c] \in 0..3
        BY <2>0 DEF Cg!TypeOK
      <4>4. CASE h.version = shown[c]
        <5>1. CgLastLogged(c, shown[c])'
          BY <4>2, <4>4 DEF CgLastLogged, CgStill
        <5>. QED  BY <5>1 DEF CgServed
      <4>5. CASE h.version # shown[c]
        <5>1. h.version < shown[c]
          BY <2>1, <3>2, <4>1, <4>3, <4>5 DEF CgOlder
        <5>2. PICK g \in handlers : g.of = c /\ g.version > h.version
          BY <2>5, <3>2, <5>1
        <5>3. g.version \in {1, 2, 3} /\ g.version <= shown[c]
          BY <2>0, <4>1, <5>2, CgHandlerFits DEF CgOlder
        <5>4. g \in handlers'
          <6>1. g # h
            BY <2>1, <5>2
          <6>. QED  BY <2>0, <6>1
        <5>5. CASE g.version = shown[c]
          BY <5>2, <5>4, <5>5 DEF CgServed, CgStill
        <5>6. CASE g.version # shown[c]
          <6>1. shown[c] = 3 /\ g.version = 2 /\ h.version = 1
            BY <2>1, <4>3, <5>1, <5>2, <5>3, <5>6
          <6>2. ~g.new
            <7>1. g.new => 2 <= 1
              BY <3>2, <4>1, <5>2, <6>1 DEF CgNewFirst
            <7>. QED  BY <7>1
          <6>3. ~CgNoRecord(c)'
            BY <2>4, <3>2 DEF CgNoRecord
          <6>4. CgDoomed(c)'
            BY <5>2, <5>4, <6>1, <6>2, <6>3 DEF CgDoomed, CgStill
          <6>. QED  BY <6>4 DEF CgServed
        <5>. QED  BY <5>5, <5>6
      <4>. QED  BY <4>4, <4>5
    <3>. QED  BY <3>1, <3>2
  <2>. QED  BY <2>3, <2>6, <2>8, <2>9 DEF CgIInv
<1>. QED  BY <1>1, <1>2

CgRest == UNCHANGED <<Cg!monitor, loggedIn, status, active, Cg!options, Cg!seen>>

LEMMA CgRestStill == CgRest => CgStill
  BY DEF CgRest, CgStill, Cg!monitor, Cg!options, Cg!seen

LEMMA CgEventsFit == ASSUME Cg!TypeOK PROVE /\ UNCHANGED events => events' \in 0..CgMaxEvents
                                            /\ CgBounds /\ Cg!Counted => events' \in 0..CgMaxEvents
  BY DEF Cg!TypeOK, Cg!Counted, CgBounds

LEMMA CgEnsuredActiveKeeps ==
  ASSUME CgBounds, CgIInv, NEW h \in handlers, Cg!EnsuredActive(h) PROVE CgIInv'
<1>0. /\ Cg!TypeOK /\ h.at = "active" /\ CgRest /\ UNCHANGED events
      /\ \/ ~active /\ Cg!Drop(h, TRUE)
         \/ ~Cg!MayLog(h) /\ Cg!Drop(h, FALSE)
         \/ autoLog /\ h.new /\ Cg!Await(h, "activity")
         \/ Cg!AutoLogCall(h)
         \/ ~autoLog /\ ~h.new /\ Cg!Await(h, "activity")
         \/ ~autoLog /\ h.new /\ Cg!Drop(h, FALSE)
  BY DEF CgIInv, Cg!EnsuredActive, Cg!ChecksActivity, CgRest
<1>1. CgStill /\ events' \in 0..CgMaxEvents
  BY <1>0, CgRestStill, CgEventsFit
<1>2. "activity" \in {"activity", "contact"}
  OBVIOUS
<1>3. CASE Cg!Drop(h, TRUE)
  <2>1. h.of \in excused'
    BY <1>3 DEF Cg!Drop
  <2>. QED  BY <1>1, <1>3, <2>1, CgDropped, CgDropKeeps
<1>4. CASE ~Cg!MayLog(h) /\ Cg!Drop(h, FALSE)
  <2>1. CgGivesUp(h)
    BY <1>4 DEF Cg!MayLog, Cg!Ringing, CgGivesUp
  <2>. QED  BY <1>1, <1>4, <2>1, CgDropped, CgDropKeeps
<1>5. CASE autoLog /\ h.new /\ Cg!Await(h, "activity")
  <2>1. (h.new <=> autoLog) /\ "activity" # "contact"
    BY <1>5
  <2>. QED  BY <1>1, <1>2, <1>5, <2>1, CgAwaitKeeps
<1>6. CASE Cg!AutoLogCall(h)
  BY <1>1, <1>6, CgAutoLogKeeps
<1>7. CASE ~autoLog /\ ~h.new /\ Cg!Await(h, "activity")
  <2>1. (h.new <=> autoLog) /\ "activity" # "contact"
    BY <1>7
  <2>. QED  BY <1>1, <1>2, <1>7, <2>1, CgAwaitKeeps
<1>8. CASE ~autoLog /\ h.new /\ Cg!Drop(h, FALSE)
  <2>1. CgGivesUp(h)
    BY <1>8 DEF CgGivesUp
  <2>. QED  BY <1>1, <1>8, <2>1, CgDropped, CgDropKeeps
<1>. QED  BY <1>0, <1>3, <1>4, <1>5, <1>6, <1>7, <1>8

LEMMA CgActivityMatchedKeeps ==
  ASSUME CgBounds, CgIInv, NEW h \in handlers, Cg!ActivityMatched(h) PROVE CgIInv'
<1>. DEFINE excuse == recorded[h.of] # 0 \/ \E l \in logs : l.of = h.of
<1>0. /\ Cg!TypeOK /\ CgUnexcused /\ h.at = "activity" /\ CgRest /\ UNCHANGED events
      /\ \/ Cg!AutoLogCall(h)
         \/ h.new /\ Cg!Await(h, "contact")
         \/ ~h.new /\ Cg!Drop(h, excuse)
  BY DEF CgIInv, Cg!ActivityMatched, CgRest
<1>1. CgStill /\ events' \in 0..CgMaxEvents
  BY <1>0, CgRestStill, CgEventsFit
<1>2. "contact" \in {"activity", "contact"}
  OBVIOUS
<1>3. h.of \in CgThing
  BY <1>0, CgHandlerFits
<1>4. h.of \notin excused => (h.new <=> autoLog)
  BY <1>0, <1>3 DEF CgUnexcused, CgAsAsked
<1>5. CASE Cg!AutoLogCall(h)
  BY <1>1, <1>5, CgAutoLogKeeps
<1>6. CASE h.new /\ Cg!Await(h, "contact")
  <2>1. h.of \notin excused => h.new /\ autoLog
    BY <1>4, <1>6
  <2>2. "contact" # "activity"
    OBVIOUS
  <2>. QED  BY <1>1, <1>2, <1>6, <2>1, <2>2, CgAwaitKeeps
<1>7. CASE ~h.new /\ Cg!Drop(h, excuse)
  <2>0. handlers' = handlers \ {h} /\ UNCHANGED Cg!logger
    BY <1>7 DEF Cg!Drop
  <2>1. excused' = IF excuse THEN excused \cup {h.of} ELSE excused
    BY <1>7 DEF Cg!Drop
  <2>2. CASE excuse
    <3>1. excused' = excused \cup {h.of}
      BY <2>1, <2>2
    <3>. QED  BY <1>1, <2>0, <3>1, CgDropKeeps
  <2>3. CASE ~excuse
    <3>1. excused' = excused
      BY <2>1, <2>3
    <3>2. CgNoRecord(h.of)
      BY <2>3 DEF CgNoRecord
    <3>3. CASE h.of \in excused
      BY <1>1, <2>0, <3>1, <3>3, CgDropKeeps
    <3>4. CASE h.of \notin excused
      <4>1. CgGivesUp(h)
        BY <1>4, <1>7, <3>2, <3>4 DEF CgGivesUp
      <4>. QED  BY <1>1, <2>0, <3>1, <4>1, CgDropKeeps
    <3>. QED  BY <3>3, <3>4
  <2>. QED  BY <2>2, <2>3
<1>. QED  BY <1>0, <1>5, <1>6, <1>7

LEMMA CgHandlerKeeps ==
  ASSUME CgBounds, CgIInv, NEW h \in handlers, Cg!ContactMatched(h) \/ Cg!HandlerFails(h) PROVE CgIInv'
<1>0. Cg!TypeOK
  BY DEF CgIInv
<1>1. CASE Cg!ContactMatched(h)
  <2>1. Cg!AutoLogCall(h) /\ CgRest /\ UNCHANGED events
    BY <1>1 DEF Cg!ContactMatched, CgRest
  <2>2. CgStill /\ events' \in 0..CgMaxEvents
    BY <1>0, <2>1, CgRestStill, CgEventsFit
  <2>. QED  BY <2>1, <2>2, CgAutoLogKeeps
<1>2. CASE Cg!HandlerFails(h)
  <2>1. Cg!Drop(h, TRUE) /\ CgRest /\ Cg!Counted
    BY <1>2 DEF Cg!HandlerFails, CgRest
  <2>2. CgStill /\ events' \in 0..CgMaxEvents
    BY <1>0, <2>1, CgRestStill, CgEventsFit
  <2>3. h.of \in excused'
    BY <2>1 DEF Cg!Drop
  <2>. QED  BY <2>1, <2>2, <2>3, CgDropped, CgDropKeeps
<1>. QED  BY <1>1, <1>2

--------------------
(* The rest. *)

LEMMA CgLogCallKeeps == ASSUME CgBounds, CgIInv, NEW t \in CgThing, Cg!LogCall(t) PROVE CgIInv'
<1>0. /\ Cg!TypeOK /\ CgLogIInv /\ CgCallsFit /\ CgUnexcused /\ CgAllServed
      /\ CgRest /\ Cg!Counted /\ shown[t] # 0
      /\ UNCHANGED <<handlers, excused>>
  BY DEF CgIInv, Cg!LogCall, CgRest
<1>1. CgStill /\ events' \in 0..CgMaxEvents
  BY <1>0, CgRestStill, CgEventsFit
<1>2. PICK v \in 0..3 : v = shown[t]
  BY <1>0 DEF Cg!TypeOK
<1>3. Cg!BeginLog(t, v) /\ v \in Nat /\ v # 0
  <2>1. Cg!BeginLog(t, shown[t])
    BY DEF Cg!LogCall
  <2>. QED  BY <1>0, <1>2, <2>1
<1>4. /\ CgLogIInv'
      /\ disturbed \subseteq disturbed' /\ recorded' = recorded
      /\ \E k \in logs' : k.of = t /\ k.version = v /\ logs' = logs \cup {k}
      /\ t \notin disturbed' => CgLastLogged(t, v)'
  BY <1>0, <1>3, CgBeginLogKeeps
<1>5. PICK k \in logs' : k.of = t /\ k.version = v /\ logs' = logs \cup {k}
  BY <1>4
<1>6. Cg!TypeOK' /\ CgCallsFit'
  <2>1. handlers' \subseteq Cg!Handler /\ excused' \subseteq CgThing
    BY <1>0 DEF Cg!TypeOK
  <2>. QED  BY <1>1, <1>4, <2>1, CgStillKeeps
<1>7. ASSUME NEW c \in CgThing, c # t
      PROVE  /\ CgSeen(c) /\ CgOlder(c) /\ CgNewFirst(c) /\ CgAsAsked(c)
                   => CgSeen(c)' /\ CgOlder(c)' /\ CgNewFirst(c)' /\ CgAsAsked(c)'
             /\ CgServed(c) => CgServed(c)'
  <2>1. \A g : g.of = c => (g \in handlers <=> g \in handlers')
    BY <1>0
  <2>2. \A l : l.of = c => (l \in logs <=> l \in logs')
    BY <1>5, <1>7
  <2>. QED  BY <1>1, <1>4, <2>1, <2>2, CgCallKept DEF CgStill
<1>8. CgUnexcused'
  <2>. SUFFICES ASSUME NEW c \in CgThing, c \notin excused
                PROVE  CgSeen(c)' /\ CgOlder(c)' /\ CgNewFirst(c)' /\ CgAsAsked(c)'
    BY <1>0 DEF CgUnexcused
  <2>1. CgSeen(c) /\ CgOlder(c) /\ CgNewFirst(c) /\ CgAsAsked(c)
    BY <1>0 DEF CgUnexcused
  <2>2. CASE c # t
    BY <1>7, <2>1, <2>2
  <2>3. CASE c = t
    <3>1. \A l \in logs' : l \in logs \/ (l = k /\ l.version = shown[c])
      BY <1>2, <1>5, <2>3
    <3>2. CgSeen(c)'
      BY <1>1, <2>1 DEF CgSeen, CgStill
    <3>3. CgOlder(c)'
      BY <1>0, <1>1, <1>2, <1>3, <1>4, <2>1, <2>3, <3>1 DEF CgOlder, CgStill
    <3>4. CgNewFirst(c)'
      <4>1. \A g \in handlers : g.of = c => g.version <= shown[c]
        BY <2>1 DEF CgOlder
      <4>. QED  BY <1>0, <1>4, <2>1, <3>1, <4>1 DEF CgNewFirst
    <3>5. CgAsAsked(c)'
      BY <1>0, <1>1, <2>1 DEF CgAsAsked, CgStill
    <3>. QED  BY <3>2, <3>3, <3>4, <3>5
  <2>. QED  BY <2>2, <2>3
<1>9. CgAllServed'
  <2>. SUFFICES ASSUME NEW c \in CgThing, c \notin excused, c \notin disturbed' PROVE CgServed(c)'
    BY <1>0 DEF CgAllServed
  <2>1. CASE c # t
    <3>1. CgServed(c)
      BY <1>0, <1>4 DEF CgAllServed
    <3>. QED  BY <1>7, <2>1, <3>1
  <2>2. CASE c = t
    <3>1. CgLastLogged(c, v)' /\ shown'[c] = v
      BY <1>1, <1>2, <1>4, <2>2 DEF CgStill
    <3>2. CgLastLogged(c, shown[c])'
      BY <3>1 DEF CgLastLogged
    <3>. QED  BY <3>2 DEF CgServed
  <2>. QED  BY <2>1, <2>2
<1>. QED  BY <1>4, <1>6, <1>8, <1>9 DEF CgIInv

LEMMA CgLogsKeep == ASSUME CgBounds, CgIInv, Cg!Logs PROVE CgIInv'
<1>0. /\ Cg!TypeOK /\ CgLogIInv /\ CgCallsFit /\ CgUnexcused /\ CgAllServed
      /\ CgRest /\ UNCHANGED <<handlers, excused>>
  BY DEF CgIInv, Cg!Logs, CgRest
<1>1. PICK l \in logs : (Cg!LogDone(l) /\ UNCHANGED events) \/ (Cg!LogFails(l) /\ Cg!Counted)
  BY DEF Cg!Logs
<1>2. CgStill /\ events' \in 0..CgMaxEvents
  BY <1>0, <1>1, CgRestStill, CgEventsFit
<1>3. l.of \in CgThing /\ l.version \in Nat
  BY <1>0 DEF Cg!TypeOK, Cg!LoggerTypeOK, Cg!Log
<1>4. /\ CgLogIInv'
      /\ disturbed \subseteq disturbed'
      /\ \A k \in logs' : \E m \in logs : m.of = k.of /\ m.version = k.version
      /\ \A m \in logs : m.of # l.of => m \in logs'
      /\ \A t \in CgThing \ disturbed', v \in Nat : CgLastLogged(t, v) => CgLastLogged(t, v)'
  BY <1>0, <1>1, CgLogDoneKeeps, CgLogFailsKeeps
<1>5. /\ recorded' = recorded \/ recorded' = [recorded EXCEPT ![l.of] = l.version]
      /\ l.of \notin disturbed' => recorded' = [recorded EXCEPT ![l.of] = l.version]
  BY <1>0, <1>1, CgLogDoneKeeps, CgLogFailsKeeps
<1>6. \A c \in CgThing : recorded'[c] = recorded[c] \/ (c = l.of /\ recorded'[c] = l.version)
  BY <1>0, <1>3, <1>5 DEF Cg!TypeOK, Cg!LoggerTypeOK
<1>7. Cg!TypeOK' /\ CgCallsFit'
  <2>1. handlers' \subseteq Cg!Handler /\ excused' \subseteq CgThing
    BY <1>0 DEF Cg!TypeOK
  <2>. QED  BY <1>2, <1>4, <2>1, CgStillKeeps
<1>8. CgUnexcused'
  <2>. SUFFICES ASSUME NEW c \in CgThing, c \notin excused
                PROVE  CgSeen(c)' /\ CgOlder(c)' /\ CgNewFirst(c)' /\ CgAsAsked(c)'
    BY <1>0 DEF CgUnexcused
  <2>1. CgSeen(c) /\ CgOlder(c) /\ CgNewFirst(c) /\ CgAsAsked(c)
    BY <1>0 DEF CgUnexcused
  <2>2. CgSeen(c)'
    BY <1>2, <2>1 DEF CgSeen, CgStill
  <2>3. CgOlder(c)'
    <3>1. \A k \in logs' : k.of = c => k.version # 0 /\ k.version <= shown[c]
      BY <1>4, <2>1 DEF CgOlder
    <3>2. recorded'[c] <= shown[c]
      BY <1>6, <2>1 DEF CgOlder
    <3>. QED  BY <1>0, <1>2, <2>1, <3>1, <3>2 DEF CgOlder, CgStill
  <2>4. CgNewFirst(c)'
    <3>. SUFFICES ASSUME NEW f \in handlers, f.of = c, f.new
                  PROVE  /\ \A g \in handlers : g.of = c => f.version <= g.version
                         /\ \A k \in logs' : k.of = c => f.version <= k.version
                         /\ recorded'[c] = 0 \/ f.version <= recorded'[c]
      BY <1>0 DEF CgNewFirst
    <3>1. \A k \in logs : k.of = c => f.version <= k.version
      BY <2>1 DEF CgNewFirst
    <3>2. \A k \in logs' : k.of = c => f.version <= k.version
      BY <1>4, <3>1
    <3>3. recorded'[c] = 0 \/ f.version <= recorded'[c]
      BY <1>6, <2>1, <3>1 DEF CgNewFirst
    <3>. QED  BY <2>1, <3>2, <3>3 DEF CgNewFirst
  <2>5. CgAsAsked(c)'
    BY <1>0, <1>2, <2>1 DEF CgAsAsked, CgStill
  <2>. QED  BY <2>2, <2>3, <2>4, <2>5
<1>9. CgAllServed'
  <2>. SUFFICES ASSUME NEW c \in CgThing, c \notin excused, c \notin disturbed' PROVE CgServed(c)'
    BY <1>0 DEF CgAllServed
  <2>0. CgServed(c) /\ CgOlder(c)
    BY <1>0, <1>4 DEF CgAllServed, CgUnexcused
  <2>1. CgLastLogged(c, shown[c]) => CgLastLogged(c, shown[c])'
    <3>1. PICK v \in Nat : v = shown[c]
      BY <1>0 DEF Cg!TypeOK
    <3>2. CgLastLogged(c, v) => CgLastLogged(c, v)'
      BY <1>4
    <3>3. shown'[c] = v
      BY <1>2, <3>1 DEF CgStill
    <3>. QED  BY <3>1, <3>2, <3>3 DEF CgLastLogged
  <2>2. CASE c = l.of
    <3>1. ~CgNoRecord(c)
      BY <2>2 DEF CgNoRecord
    <3>2. recorded'[c] # 0
      BY <1>0, <1>3, <1>5, <2>0, <2>2 DEF CgOlder, Cg!TypeOK, Cg!LoggerTypeOK
    <3>3. ~CgNoRecord(c)'
      BY <3>2 DEF CgNoRecord
    <3>4. CgDoomed(c) => CgDoomed(c)'
      BY <1>0, <1>2, <3>3 DEF CgDoomed, CgStill
    <3>. QED  BY <1>0, <1>2, <2>0, <2>1, <3>1, <3>4 DEF CgServed, CgStill
  <2>3. CASE c # l.of
    <3>1. recorded'[c] = recorded[c]
      BY <1>6, <2>3
    <3>2. CgNoRecord(c) <=> CgNoRecord(c)'
      BY <1>4, <2>3, <3>1 DEF CgNoRecord
    <3>3. CgDoomed(c) => CgDoomed(c)'
      BY <1>0, <1>2, <3>2 DEF CgDoomed, CgStill
    <3>. QED  BY <1>0, <1>2, <2>0, <2>1, <3>2, <3>3 DEF CgServed, CgStill
  <2>. QED  BY <2>2, <2>3
<1>. QED  BY <1>4, <1>7, <1>8, <1>9 DEF CgIInv

LEMMA CgCallGoesOnKeeps == ASSUME CgBounds, CgIInv, NEW t \in CgThing, Cg!CallGoesOn(t) PROVE CgIInv'
<1>0. /\ Cg!TypeOK /\ CgLogIInv /\ CgCallsFit /\ CgUnexcused /\ CgAllServed
      /\ UNCHANGED <<Cg!logger, loggedIn, status, active, autoLog, logOnRinging, lastCalls, lastEnded,
                     shown, handlers, excused, events>>
  BY DEF CgIInv, Cg!CallGoesOn, Cg!options, Cg!seen
<1>1. CgLogIInv' /\ UNCHANGED <<logs, recorded, disturbed>>
  BY <1>0, CgLoggerSame
<1>2. \/ /\ t \notin over /\ calls[t] < 2
         /\ calls' = [calls EXCEPT ![t] = @ + 1]
         /\ UNCHANGED <<ended, over>>
      \/ /\ calls[t] # 0
         /\ calls' = [calls EXCEPT ![t] = 0]
         /\ over' = over \cup {t}
         /\ ended' = ended \cup {t}
      \/ /\ t \in ended
         /\ ended' = ended \ {t}
         /\ UNCHANGED <<calls, over>>
  BY DEF Cg!CallGoesOn
<1>3. calls' \in [CgThing -> 0..2]
  BY <1>0, <1>2 DEF Cg!TypeOK
<1>4. over \subseteq over' /\ over' \subseteq CgThing /\ ended' \subseteq CgThing /\ ended' \subseteq over'
  BY <1>0, <1>2 DEF Cg!TypeOK, CgCallsFit
<1>5. Cg!TypeOK'
  <2>1. Cg!LoggerTypeOK'
    BY <1>1 DEF CgLogIInv
  <2>. QED  BY <1>0, <1>3, <1>4, <2>1 DEF Cg!TypeOK
<1>6. CgCallsFit'
  <2>1. \A c \in over' : calls'[c] = 0
    BY <1>0, <1>2 DEF Cg!TypeOK, CgCallsFit
  <2>2. ASSUME NEW c \in CgThing, lastCalls[c] # 0 PROVE c \in over' \/ lastCalls[c] <= calls'[c]
    <3>1. c \in over \/ lastCalls[c] <= calls[c]
      BY <1>0, <2>2 DEF CgCallsFit
    <3>2. c \in over' \/ calls[c] <= calls'[c]
      BY <1>0, <1>2 DEF Cg!TypeOK
    <3>3. calls[c] \in 0..2 /\ calls'[c] \in 0..2 /\ lastCalls[c] \in 0..2
      BY <1>0, <1>3 DEF Cg!TypeOK
    <3>4. CASE c \in over
      BY <1>4, <3>4
    <3>5. CASE c \notin over /\ c \notin over'
      <4>1. lastCalls[c] <= calls[c] /\ calls[c] <= calls'[c]
        BY <3>1, <3>2, <3>5
      <4>2. lastCalls[c] <= calls'[c]
        BY <3>3, <4>1
      <4>. QED  BY <4>2
    <3>. QED  BY <3>4, <3>5
  <2>3. lastEnded \subseteq over' /\ \A c \in lastEnded : lastCalls[c] = 0
    BY <1>0, <1>4 DEF CgCallsFit
  <2>. QED  BY <1>0, <1>4, <2>1, <2>2, <2>3 DEF CgCallsFit
<1>7. CgUnexcused' /\ CgAllServed'
  BY <1>0, <1>1, <1>4, CgCallKept DEF CgUnexcused, CgAllServed
<1>. QED  BY <1>1, <1>5, <1>6, <1>7 DEF CgIInv

\* Under other options a call is left alone whose record is what it should be.
LEMMA CgTurnKeeps == ASSUME CgBounds, CgIInv, Cg!Turn PROVE CgIInv'
<1>0. /\ Cg!TypeOK /\ CgLogIInv /\ CgCallsFit /\ CgUnexcused /\ CgAllServed /\ Cg!Counted
      /\ UNCHANGED <<Cg!logger, calls, ended, over, status, lastCalls, lastEnded, shown, handlers>>
  BY DEF CgIInv, Cg!Turn, Cg!monitor, Cg!seen
<1>1. CgLogIInv' /\ UNCHANGED <<logs, recorded, disturbed>>
  BY <1>0, CgLoggerSame
<1>2. events' \in 0..CgMaxEvents
  BY <1>0, CgEventsFit
<1>3. CgCallsFit'
  BY <1>0 DEF CgCallsFit
<1>4. CASE UNCHANGED <<autoLog, logOnRinging, excused>>
  <2>1. loggedIn' \in BOOLEAN /\ active' \in BOOLEAN
    BY <1>0, <1>4 DEF Cg!Turn, Cg!TypeOK
  <2>2. Cg!TypeOK'
    <3>1. Cg!LoggerTypeOK'
      BY <1>1 DEF CgLogIInv
    <3>. QED  BY <1>0, <1>2, <1>4, <2>1, <3>1 DEF Cg!TypeOK
  <2>3. CgUnexcused' /\ CgAllServed'
    BY <1>0, <1>1, <1>4, CgCallKept DEF CgUnexcused, CgAllServed
  <2>. QED  BY <1>1, <1>3, <2>2, <2>3 DEF CgIInv
<1>5. CASE /\ autoLog' \in BOOLEAN /\ logOnRinging' \in BOOLEAN
           /\ excused' = excused \cup
                {c \in CgThing : \/ \E h \in handlers : h.of = c
                                 \/ shown[c] # 0 /\ recorded[c] # shown[c]}
           /\ UNCHANGED <<loggedIn, active>>
  <2>1. excused \subseteq excused' /\ excused' \subseteq CgThing
    BY <1>0, <1>5 DEF Cg!TypeOK
  <2>2. Cg!TypeOK'
    <3>1. Cg!LoggerTypeOK'
      BY <1>1 DEF CgLogIInv
    <3>. QED  BY <1>0, <1>2, <1>5, <2>1, <3>1 DEF Cg!TypeOK
  <2>3. \A c \in CgThing \ excused' :
          (\A h \in handlers : h.of # c) /\ (shown[c] = 0 \/ recorded[c] = shown[c])
    BY <1>5
  <2>4. CgUnexcused'
    <3>. SUFFICES ASSUME NEW c \in CgThing \ excused'
                  PROVE  CgSeen(c)' /\ CgOlder(c)' /\ CgNewFirst(c)' /\ CgAsAsked(c)'
      BY DEF CgUnexcused
    <3>1. CgSeen(c) /\ CgOlder(c)
      BY <1>0, <2>1 DEF CgUnexcused
    <3>2. CgSeen(c)'
      BY <1>0, <3>1 DEF CgSeen
    <3>3. CgOlder(c)'
      BY <1>0, <1>1, <3>1 DEF CgOlder
    <3>. QED  BY <1>0, <2>3, <3>2, <3>3 DEF CgNewFirst, CgAsAsked
  <2>5. CgAllServed'
    <3>. SUFFICES ASSUME NEW c \in CgThing, c \notin excused', c \notin disturbed PROVE CgServed(c)'
      BY <1>1 DEF CgAllServed
    <3>1. CgOlder(c) /\ CgServed(c)
      BY <1>0, <2>1 DEF CgUnexcused, CgAllServed
    <3>2. CASE shown[c] = 0
      BY <1>0, <3>2 DEF CgServed
    <3>3. CASE shown[c] # 0 /\ recorded[c] = shown[c]
      <4>1. \A h \in handlers : h.of # c
        BY <2>3
      <4>2. ~CgNoRecord(c) /\ ~CgDoomed(c)
        BY <3>3, <4>1 DEF CgNoRecord, CgDoomed
      <4>3. CgLastLogged(c, shown[c]) \/ shown[c] = 1
        BY <3>1, <3>3, <4>1, <4>2 DEF CgServed
      <4>4. shown[c] = 1 => CgLastLogged(c, shown[c])
        <5>. SUFFICES ASSUME shown[c] = 1 PROVE CgLastLogged(c, shown[c])
          OBVIOUS
        <5>1. \A l \in logs : l.of = c => l.version # 0 /\ l.version <= 1
          BY <3>1 DEF CgOlder
        <5>2. \A l \in logs : l.version \in Nat
          BY <1>0 DEF Cg!TypeOK, Cg!LoggerTypeOK, Cg!Log
        <5>3. \A l \in logs : l.of = c => l.version = shown[c]
          BY <5>1, <5>2
        <5>. QED  BY <3>3, <5>3, CgAllOfOne
      <4>5. CgLastLogged(c, shown[c])'
        BY <1>0, <1>1, <4>3, <4>4 DEF CgLastLogged
      <4>. QED  BY <4>5 DEF CgServed
    <3>. QED  BY <2>3, <3>2, <3>3
  <2>. QED  BY <1>1, <1>3, <2>2, <2>4, <2>5 DEF CgIInv
<1>6. Cg!TypeOK
  BY <1>0
<1>. QED  BY <1>4, <1>5, <1>6 DEF Cg!Turn, Cg!TypeOK, Cg!options

--------------------
(* The specification. *)

LEMMA CgNextIInv == ASSUME CgBounds PROVE CgIInv /\ [Cg!Next]_(Cg!vars) => CgIInv'
<1>. SUFFICES ASSUME CgIInv, [Cg!Next]_(Cg!vars) PROVE CgIInv'
  OBVIOUS
<1>1. CASE UNCHANGED Cg!vars
  <2>0. /\ Cg!TypeOK /\ CgLogIInv /\ CgCallsFit /\ CgUnexcused /\ CgAllServed
        /\ UNCHANGED <<Cg!logger, calls, ended, over, loggedIn, status, active, autoLog, logOnRinging,
                       lastCalls, lastEnded, shown, handlers, excused, events>>
    BY <1>1 DEF CgIInv, Cg!vars, Cg!monitor, Cg!options, Cg!seen
  <2>1. CgLogIInv' /\ UNCHANGED <<logs, recorded, disturbed>>
    BY <2>0, CgLoggerSame
  <2>2. Cg!TypeOK' /\ CgCallsFit'
    <3>1. handlers' \subseteq Cg!Handler /\ excused' \subseteq CgThing /\ events' \in 0..CgMaxEvents
      BY <2>0 DEF Cg!TypeOK
    <3>2. CgStill
      BY <2>0 DEF CgStill
    <3>. QED  BY <2>1, <3>1, <3>2, CgStillKeeps
  <2>3. CgUnexcused' /\ CgAllServed'
    BY <2>0, <2>1, CgCallKept DEF CgUnexcused, CgAllServed
  <2>. QED  BY <2>1, <2>2, <2>3 DEF CgIInv
<1>2. CASE Cg!Next
  BY <1>2, CgInitializeKeeps, CgResetKeeps, CgProcessCallsKeeps, CgEnsuredActiveKeeps,
     CgActivityMatchedKeeps, CgHandlerKeeps, CgLogCallKeeps, CgLogsKeep, CgCallGoesOnKeeps, CgTurnKeeps
     DEF Cg!Next
<1>. QED  BY <1>1, <1>2

\* For any calls and bounds: when nothing of a call is on its way, its record is about what
\* was shown of it last.
LEMMA CgCallsAreLogged == ASSUME CgBounds PROVE CgIInv => Cg!CallsLogged
<1>. SUFFICES ASSUME CgIInv PROVE Cg!CallsLogged
  OBVIOUS
<1>0. Cg!TypeOK /\ CgLogIInv /\ CgUnexcused /\ CgAllServed
  BY DEF CgIInv
<1>1. ASSUME NEW c \in CgThing, c \notin excused, c \notin disturbed
      PROVE  \/ \E h \in handlers : h.of = c
             \/ \E l \in logs : l.of = c
             \/ recorded[c] = shown[c]
             \/ shown[c] = 1 /\ ~logOnRinging
             \/ ~autoLog /\ recorded[c] = 0
  <2>1. CgServed(c) /\ CgOlder(c)
    BY <1>0, <1>1 DEF CgUnexcused, CgAllServed
  <2>2. CASE shown[c] = 0
    <3>1. recorded[c] \in Nat /\ recorded[c] <= 0
      BY <1>0, <2>1, <2>2 DEF CgOlder, Cg!TypeOK, Cg!LoggerTypeOK
    <3>2. recorded[c] = 0
      BY <3>1
    <3>. QED  BY <2>2, <3>2
  <2>3. CASE CgLastLogged(c, shown[c])
    BY <2>3 DEF CgLastLogged
  <2>4. CASE CgNoRecord(c) /\ ~autoLog
    BY <2>4 DEF CgNoRecord
  <2>5. CASE CgDoomed(c)
    BY <2>5 DEF CgDoomed
  <2>. QED  BY <2>1, <2>2, <2>3, <2>4, <2>5 DEF CgServed
<1>2. Cg!OnlyLogging
  BY <1>0 DEF CgLogIInv
<1>. QED  BY <1>1, <1>2 DEF Cg!CallsLogged

-----------------------------------------------------------------------------
(***************************************************************************)
(* Proofs about the matcher: for any queries and bounds, and however       *)
(* requests, queues, failures and resets cross, no query is forgotten.     *)
(***************************************************************************)

DmBounds == none \notin Dm!Fetch /\ none \notin [queries : SUBSET DmQuery, after : Nat, due : BOOLEAN]

\* The entry of _matchPromises is of a request under way.
DmMatched == IsFiniteSet(fetches) /\ (matching # none => matching \in fetches)

\* The queue is behind a request under way, or about to start, or a request before it failed.
DmQueued ==
  queue # none => \/ queue.due
                  \/ \E f \in fetches : f.id = queue.after
                  \/ queue.after = 0 /\ queue.queries \subseteq failed

\* A query that has a result, is asked, waits in a queue or was given up.
DmKnown(q) ==
  \/ data[q] # "none"
  \/ \E f \in fetches : q \in f.queries
  \/ queue # none /\ q \in queue.queries
  \/ q \in failed
DmAllKnown == \A q \in wanted : DmKnown(q)

DmIInv == Dm!TypeOK /\ DmMatched /\ DmQueued /\ DmAllKnown

--------------------
(* Requests. *)

\* Its cardinality is that of the sets here.
LEMMA DmCardinality == ASSUME NEW S PROVE Dm!Cardinality(S) = Cardinality(S)
  BY DEF Dm!Cardinality, Cardinality

\* A request has an id that no other one has.
LEMMA DmNewFetchType ==
  ASSUME DmIInv, NEW queries \in SUBSET DmQuery
  PROVE  Dm!NewFetch(queries) \in Dm!Fetch /\ Dm!NewFetch(queries).queries = queries
<1>. DEFINE n == Cardinality(fetches)
            Ids == {f.id : f \in fetches}
            New == CHOOSE i \in 1..(n + 1) : \A f \in fetches : f.id # i
<1>1. IsFiniteSet(fetches) /\ n \in Nat
  BY FS_CardinalityType DEF DmIInv, DmMatched
<1>2. IsFiniteSet(Ids) /\ Cardinality(Ids) <= n
  <2>. DEFINE id == [f \in fetches |-> f.id]
  <2>1. id \in [fetches -> Ids] /\ \A i \in Ids : \E f \in fetches : id[f] = i
    OBVIOUS
  <2>2. id \in Surjection(fetches, Ids)
    BY <2>1 DEF Surjection
  <2>. QED  BY <1>1, <2>2, FS_Surjection
<1>3. IsFiniteSet(1..(n + 1)) /\ Cardinality(1..(n + 1)) = n + 1
  BY <1>1, FS_Interval
<1>4. Dm!NewFetch(queries) = [id |-> New, queries |-> queries]
  BY DmCardinality DEF Dm!NewFetch
<1>. HIDE DEF n
<1>5. ~(1..(n + 1) \subseteq Ids)
  <2>. SUFFICES ASSUME 1..(n + 1) \subseteq Ids PROVE FALSE
    OBVIOUS
  <2>1. Cardinality(1..(n + 1)) <= Cardinality(Ids)
    BY <1>2, FS_Subset
  <2>2. Cardinality(Ids) \in Nat
    BY <1>2, FS_CardinalityType
  <2>. QED  BY <1>1, <1>2, <1>3, <2>1, <2>2
<1>6. \E i \in 1..(n + 1) : \A f \in fetches : f.id # i
  BY <1>5
<1>7. PICK i \in 1..(n + 1) : Dm!NewFetch(queries) = [id |-> i, queries |-> queries]
  BY <1>4, <1>6
<1>8. i \in Nat \ {0}
  BY <1>1
<1>. QED  BY <1>7, <1>8 DEF Dm!Fetch

\* What matching looks at beside the queries: requests and queue only gain, and the queries
\* are in one of them unless they were filtered.
LEMMA DmMatchSourceKeeps ==
  ASSUME DmBounds, DmIInv, NEW queries \in SUBSET DmQuery, NEW ignoreCache \in BOOLEAN,
         NEW state \in [DmQuery -> {"none", "fresh", "old"}],
         Dm!MatchSource(queries, ignoreCache, state)
  PROVE  /\ fetches' \subseteq Dm!Fetch /\ matching' \in Dm!Fetch \cup {none}
         /\ queue' \in [queries : SUBSET DmQuery, after : Nat, due : BOOLEAN] \cup {none}
         /\ failed' \subseteq DmQuery
         /\ DmMatched' /\ DmQueued'
         /\ fetches \subseteq fetches' /\ failed \subseteq failed'
         /\ queue # none => queue' # none /\ queue.queries \subseteq queue'.queries
         /\ \A q \in queries : \/ state[q] # "none"
                               \/ \E f \in fetches' : q \in f.queries
                               \/ queue' # none /\ q \in queue'.queries
<1>. DEFINE todo == IF ignoreCache THEN queries ELSE Dm!Filtered(queries, state)
<1>0. /\ todo \subseteq DmQuery
      /\ \A q \in queries : q \in todo \/ q \in Dm!QueuedItems \/ state[q] = "fresh"
      /\ Dm!TypeOK /\ DmMatched /\ DmQueued
  BY DEF Dm!Filtered, DmIInv
<1>1. \A q \in Dm!QueuedItems : \/ \E f \in fetches : q \in f.queries
                                \/ queue # none /\ q \in queue.queries
  BY <1>0 DEF Dm!QueuedItems, DmMatched
<1>. HIDE DEF todo
<1>2. CASE todo = {}
  <2>1. UNCHANGED <<fetches, matching, queue, failed>>
    BY <1>2 DEF Dm!MatchSource, todo
  <2>2. DmMatched' /\ DmQueued'
    BY <1>0, <2>1 DEF DmMatched, DmQueued
  <2>. QED  BY <1>0, <1>1, <1>2, <2>1, <2>2 DEF Dm!TypeOK
<1>3. CASE todo # {} /\ matching = none
  <2>1. /\ fetches' = fetches \cup {Dm!NewFetch(todo)} /\ matching' = Dm!NewFetch(todo)
        /\ UNCHANGED <<queue, failed>>
    BY <1>3 DEF Dm!MatchSource, todo, Dm!FetchMatchResult
  <2>2. Dm!NewFetch(todo) \in Dm!Fetch /\ Dm!NewFetch(todo).queries = todo
    BY <1>0, DmNewFetchType
  <2>3. DmMatched'
    BY <1>0, <2>1, FS_AddElement DEF DmMatched
  <2>4. DmQueued'
    BY <1>0, <2>1 DEF DmQueued
  <2>. QED  BY <1>0, <1>1, <2>1, <2>2, <2>3, <2>4 DEF Dm!TypeOK
<1>4. CASE todo # {} /\ matching # none
  <2>1. /\ queue' = IF queue = none
                    THEN [queries |-> todo, after |-> matching.id, due |-> FALSE]
                    ELSE Dm!Extended(todo)
        /\ failed' = IF Dm!Dead THEN failed \cup todo ELSE failed
        /\ UNCHANGED <<fetches, matching>>
    BY <1>4 DEF Dm!MatchSource, todo
  <2>2. matching \in fetches /\ matching \in Dm!Fetch
    BY <1>0, <1>4 DEF DmMatched, Dm!TypeOK
  <2>3. CASE queue = none
    <3>1. /\ queue' = [queries |-> todo, after |-> matching.id, due |-> FALSE]
          /\ failed' = failed
      BY <2>1, <2>3 DEF Dm!Dead
    <3>2. queue' \in [queries : SUBSET DmQuery, after : Nat, due : BOOLEAN]
      BY <1>0, <2>2, <3>1 DEF Dm!Fetch
    <3>3. DmMatched' /\ DmQueued'
      BY <1>0, <2>1, <2>2, <3>1 DEF DmMatched, DmQueued
    <3>4. queue' # none /\ queue'.queries = todo
      BY <3>1, <3>2 DEF DmBounds
    <3>. QED  BY <1>0, <1>1, <2>1, <2>3, <3>1, <3>2, <3>3, <3>4 DEF Dm!TypeOK
  <2>4. CASE queue # none
    <3>0. queue \in [queries : SUBSET DmQuery, after : Nat, due : BOOLEAN]
      BY <1>0, <2>4 DEF Dm!TypeOK
    <3>1. queue' = [queue EXCEPT !.queries = queue.queries \cup todo]
      BY <2>1, <2>4 DEF Dm!Extended
    <3>2. /\ queue' \in [queries : SUBSET DmQuery, after : Nat, due : BOOLEAN]
          /\ queue'.queries = queue.queries \cup todo /\ queue'.after = queue.after
          /\ queue'.due = queue.due
      BY <1>0, <3>0, <3>1
    <3>3. DmMatched'
      BY <1>0, <2>1 DEF DmMatched
    <3>4. DmQueued'
      <4>1. CASE Dm!Dead
        BY <1>0, <2>1, <2>4, <3>2, <4>1 DEF Dm!Dead, DmQueued
      <4>2. CASE ~Dm!Dead
        BY <1>0, <2>1, <2>4, <3>2, <4>2 DEF Dm!Dead, DmQueued
      <4>. QED  BY <4>1, <4>2
    <3>5. failed \subseteq failed' /\ failed' \subseteq DmQuery
      BY <1>0, <2>1 DEF Dm!TypeOK
    <3>. QED  BY <1>0, <1>1, <2>1, <2>4, <3>2, <3>3, <3>4, <3>5 DEF DmBounds, Dm!TypeOK
  <2>. QED  BY <2>3, <2>4
<1>. QED  BY <1>2, <1>3, <1>4

LEMMA DmCleanUpType ==
  ASSUME Dm!TypeOK, Dm!CleanUp
  PROVE  data' \in [DmQuery -> {"none", "fresh", "old"}] /\ marked' \subseteq DmQuery
<1>1. CASE UNCHANGED <<data, marked>>
  BY <1>1 DEF Dm!TypeOK
<1>2. CASE \E gone \in SUBSET (marked \ sources) :
             /\ data' = [q \in DmQuery |-> IF q \in gone THEN "none" ELSE data[q]]
             /\ marked' = {q \in DmQuery \ (sources \cup gone) : data[q] # "none"}
  BY <1>2 DEF Dm!TypeOK
<1>. QED  BY <1>1, <1>2 DEF Dm!CleanUp

\* What has no result any more is not wanted any more.
LEMMA DmStillKnown ==
  ASSUME DmIInv, NEW q \in Dm!StillWanted
  PROVE  \/ data'[q] # "none"
         \/ \E f \in fetches : q \in f.queries
         \/ queue # none /\ q \in queue.queries
         \/ q \in failed
  BY DEF DmIInv, Dm!TypeOK, DmAllKnown, DmKnown, Dm!StillWanted

--------------------
(* The inductive invariant. *)

LEMMA DmInitIInv == ASSUME DmBounds PROVE Dm!Init => DmIInv
<1>. SUFFICES ASSUME Dm!Init PROVE DmIInv
  OBVIOUS
<1>1. Dm!TypeOK
  BY DEF Dm!Init, Dm!TypeOK
<1>2. IsFiniteSet(fetches)
  BY FS_EmptySet DEF Dm!Init
<1>. QED  BY <1>1, <1>2 DEF Dm!Init, DmIInv, DmMatched, DmQueued, DmAllKnown

LEMMA DmListenerKeeps ==
  ASSUME DmBounds, DmIInv, Dm!Initialize \/ Dm!Reset \/ Dm!Change \/ (\E q \in DmQuery : Dm!Expire(q))
  PROVE  DmIInv'
<1>0. Dm!TypeOK /\ DmMatched /\ DmQueued /\ DmAllKnown /\ UNCHANGED <<fetches, matching, queue, failed>>
  BY DEF DmIInv, Dm!Initialize, Dm!Reset, Dm!Change, Dm!Expire
<1>1. DmMatched' /\ DmQueued'
  BY <1>0 DEF DmMatched, DmQueued
<1>2. CASE Dm!Initialize
  <2>1. /\ data' \in [DmQuery -> {"none", "fresh", "old"}] /\ marked' \subseteq DmQuery
    BY <1>0, <1>2, DmCleanUpType DEF Dm!Initialize
  <2>2. Dm!TypeOK'
    BY <1>0, <1>2, <2>1 DEF Dm!Initialize, Dm!TypeOK, Dm!StillWanted
  <2>3. wanted' = Dm!StillWanted
    BY <1>2 DEF Dm!Initialize
  <2>4. DmAllKnown'
    BY <1>0, <2>3, DmStillKnown DEF DmAllKnown, DmKnown
  <2>. QED  BY <1>1, <2>2, <2>4 DEF DmIInv
<1>3. CASE Dm!Reset
  BY <1>0, <1>1, <1>3 DEF Dm!Reset, DmIInv, Dm!TypeOK, DmAllKnown
<1>4. CASE Dm!Change
  <2>1. Dm!TypeOK'
    <3>1. may' \in BOOLEAN /\ sources' \subseteq DmQuery
      BY <1>0, <1>4 DEF Dm!Change, Dm!TypeOK
    <3>2. events' \in Nat
      BY <1>0, <1>4 DEF Dm!Change, Dm!Counted, Dm!TypeOK
    <3>. QED  BY <1>0, <1>4, <3>1, <3>2 DEF Dm!Change, Dm!TypeOK
  <2>2. DmAllKnown'
    BY <1>0, <1>4 DEF Dm!Change, DmAllKnown, DmKnown
  <2>. QED  BY <1>1, <2>1, <2>2 DEF DmIInv
<1>5. CASE \E q \in DmQuery : Dm!Expire(q)
  <2>. PICK q \in DmQuery : Dm!Expire(q)
    BY <1>5
  <2>1. data' = [data EXCEPT ![q] = "old"] /\ UNCHANGED <<wanted, failed, fetches, queue>>
    BY DEF Dm!Expire
  <2>2. Dm!TypeOK'
    BY <1>0 DEF Dm!Expire, Dm!Counted, Dm!TypeOK
  <2>3. \A p \in DmQuery : data[p] # "none" => data'[p] # "none"
    BY <1>0, <2>1 DEF Dm!TypeOK
  <2>4. DmAllKnown'
    BY <1>0, <2>1, <2>3 DEF DmAllKnown, DmKnown, Dm!TypeOK
  <2>. QED  BY <1>1, <2>2, <2>4 DEF DmIInv
<1>. QED  BY <1>2, <1>3, <1>4, <1>5

LEMMA DmTriggerMatchKeeps == ASSUME DmBounds, DmIInv, Dm!TriggerMatch PROVE DmIInv'
<1>0. Dm!TypeOK /\ DmMatched /\ DmQueued /\ DmAllKnown
  BY DEF DmIInv
<1>1. /\ Dm!CleanUp /\ Dm!MatchSource(sources, FALSE, data')
      /\ wanted' = Dm!StillWanted \cup sources
      /\ UNCHANGED <<may, sources, status, events>> /\ asks' = asks + 1
  BY DEF Dm!TriggerMatch, Dm!Ask
<1>2. data' \in [DmQuery -> {"none", "fresh", "old"}] /\ marked' \subseteq DmQuery
  BY <1>0, <1>1, DmCleanUpType
<1>3. PICK state \in [DmQuery -> {"none", "fresh", "old"}] : state = data'
  BY <1>2
<1>4. Dm!MatchSource(sources, FALSE, state)
  BY <1>1, <1>3
<1>5. sources \in SUBSET DmQuery
  BY <1>0 DEF Dm!TypeOK
<1>6. /\ fetches' \subseteq Dm!Fetch /\ matching' \in Dm!Fetch \cup {none}
      /\ queue' \in [queries : SUBSET DmQuery, after : Nat, due : BOOLEAN] \cup {none}
      /\ failed' \subseteq DmQuery /\ DmMatched' /\ DmQueued'
      /\ fetches \subseteq fetches' /\ failed \subseteq failed'
      /\ queue # none => queue' # none /\ queue.queries \subseteq queue'.queries
      /\ \A q \in sources : \/ state[q] # "none"
                            \/ \E f \in fetches' : q \in f.queries
                            \/ queue' # none /\ q \in queue'.queries
  BY <1>4, <1>5, DmMatchSourceKeeps
<1>7. Dm!TypeOK'
  BY <1>0, <1>1, <1>2, <1>6 DEF Dm!TypeOK, Dm!StillWanted
<1>8. DmAllKnown'
  <2>. SUFFICES ASSUME NEW q \in wanted' PROVE DmKnown(q)'
    BY DEF DmAllKnown
  <2>1. CASE q \in sources
    BY <1>3, <1>6, <2>1 DEF DmKnown
  <2>2. CASE q \in Dm!StillWanted
    BY <1>6, <2>2, DmStillKnown DEF DmKnown
  <2>. QED  BY <1>1, <2>1, <2>2
<1>. QED  BY <1>6, <1>7, <1>8 DEF DmIInv

LEMMA DmMatchKeeps ==
  ASSUME DmBounds, DmIInv, NEW q \in DmQuery, NEW ignoreCache \in BOOLEAN, Dm!Match(q, ignoreCache)
  PROVE  DmIInv'
<1>0. Dm!TypeOK /\ DmMatched /\ DmQueued /\ DmAllKnown
  BY DEF DmIInv
<1>1. /\ Dm!MatchSource({q}, ignoreCache, data) /\ wanted' = wanted \cup {q}
      /\ UNCHANGED <<may, sources, status, data, marked, events>> /\ asks' = asks + 1
  BY DEF Dm!Match, Dm!Ask
<1>5. {q} \in SUBSET DmQuery /\ data \in [DmQuery -> {"none", "fresh", "old"}]
  BY <1>0 DEF Dm!TypeOK
<1>6. /\ fetches' \subseteq Dm!Fetch /\ matching' \in Dm!Fetch \cup {none}
      /\ queue' \in [queries : SUBSET DmQuery, after : Nat, due : BOOLEAN] \cup {none}
      /\ failed' \subseteq DmQuery /\ DmMatched' /\ DmQueued'
      /\ fetches \subseteq fetches' /\ failed \subseteq failed'
      /\ queue # none => queue' # none /\ queue.queries \subseteq queue'.queries
      /\ \A p \in {q} : \/ data[p] # "none"
                        \/ \E f \in fetches' : p \in f.queries
                        \/ queue' # none /\ p \in queue'.queries
  BY <1>1, <1>5, DmMatchSourceKeeps
<1>7. Dm!TypeOK'
  BY <1>0, <1>1, <1>6 DEF Dm!TypeOK
<1>8. DmAllKnown'
  <2>. SUFFICES ASSUME NEW p \in wanted' PROVE DmKnown(p)'
    BY DEF DmAllKnown
  <2>1. CASE p = q
    BY <1>1, <1>6, <2>1 DEF DmKnown
  <2>2. CASE p \in wanted
    BY <1>0, <1>1, <1>6, <2>2 DEF DmAllKnown, DmKnown
  <2>. QED  BY <1>1, <2>1, <2>2
<1>. QED  BY <1>6, <1>7, <1>8 DEF DmIInv

\* A request that ends, with either result, leaves what waited for it due or given up.
LEMMA DmEndKeeps ==
  ASSUME DmBounds, DmIInv, NEW f \in fetches, Dm!Answer(f) \/ Dm!Fail(f)
  PROVE  DmIInv'
<1>0. /\ Dm!TypeOK /\ DmMatched /\ DmQueued /\ DmAllKnown
      /\ fetches' = fetches \ {f} /\ matching' = none
      /\ UNCHANGED <<may, sources, status, marked, wanted, asks>>
  BY DEF DmIInv, Dm!Answer, Dm!Fail
<1>1. DmMatched'
  BY <1>0, FS_RemoveElement DEF DmMatched
<1>2. f \in Dm!Fetch
  BY <1>0 DEF Dm!TypeOK
<1>3. CASE Dm!Answer(f)
  <2>1. /\ data' = [q \in DmQuery |-> IF q \in f.queries THEN "fresh" ELSE data[q]]
        /\ queue' = IF queue # none /\ queue.after = f.id
                    THEN [queue EXCEPT !.after = 0, !.due = TRUE] ELSE queue
        /\ UNCHANGED <<failed, events>>
    BY <1>3 DEF Dm!Answer
  <2>2. /\ queue = none <=> queue' = none
        /\ queue # none => /\ queue' \in [queries : SUBSET DmQuery, after : Nat, due : BOOLEAN]
                           /\ queue'.queries = queue.queries
                           /\ queue.after = f.id => queue'.due
                           /\ queue.after # f.id => queue' = queue
    <3>1. CASE queue = none
      BY <2>1, <3>1
    <3>2. CASE queue # none
      <4>1. queue \in [queries : SUBSET DmQuery, after : Nat, due : BOOLEAN]
        BY <1>0, <3>2 DEF Dm!TypeOK
      <4>2. queue' \in [queries : SUBSET DmQuery, after : Nat, due : BOOLEAN]
        BY <2>1, <4>1
      <4>3. queue' # none
        BY <4>2 DEF DmBounds
      <4>. QED  BY <2>1, <3>2, <4>1, <4>2, <4>3
    <3>. QED  BY <3>1, <3>2
  <2>3. Dm!TypeOK'
    BY <1>0, <2>1, <2>2 DEF Dm!TypeOK
  <2>4. DmQueued'
    BY <1>0, <2>1, <2>2 DEF DmQueued
  <2>5. DmAllKnown'
    BY <1>0, <2>1, <2>2 DEF DmAllKnown, DmKnown, Dm!TypeOK
  <2>. QED  BY <1>1, <2>3, <2>4, <2>5 DEF DmIInv
<1>4. CASE Dm!Fail(f)
  <2>1. /\ queue' = IF queue # none /\ queue.after = f.id THEN [queue EXCEPT !.after = 0] ELSE queue
        /\ failed' = failed \cup f.queries
                       \cup (IF queue # none /\ queue.after = f.id THEN queue.queries ELSE {})
        /\ data' = data /\ events' = events + 1
    BY <1>4 DEF Dm!Fail, Dm!Counted
  <2>2. /\ queue = none <=> queue' = none
        /\ queue # none => /\ queue' \in [queries : SUBSET DmQuery, after : Nat, due : BOOLEAN]
                           /\ queue'.queries = queue.queries /\ queue'.due = queue.due
                           /\ queue.after = f.id => queue'.after = 0
                           /\ queue.after # f.id => queue' = queue
    <3>1. CASE queue = none
      BY <2>1, <3>1
    <3>2. CASE queue # none
      <4>1. queue \in [queries : SUBSET DmQuery, after : Nat, due : BOOLEAN]
        BY <1>0, <3>2 DEF Dm!TypeOK
      <4>2. queue' \in [queries : SUBSET DmQuery, after : Nat, due : BOOLEAN]
        BY <2>1, <4>1
      <4>3. queue' # none
        BY <4>2 DEF DmBounds
      <4>. QED  BY <2>1, <3>2, <4>1, <4>2, <4>3
    <3>. QED  BY <3>1, <3>2
  <2>3. /\ failed \subseteq failed' /\ f.queries \subseteq failed'
        /\ queue # none /\ queue.after = f.id => queue.queries \subseteq failed'
    BY <2>1
  <2>4. Dm!TypeOK'
    <3>1. failed' \subseteq DmQuery
      BY <1>0, <1>2, <2>1 DEF Dm!TypeOK, Dm!Fetch
    <3>. QED  BY <1>0, <2>1, <2>2, <3>1 DEF Dm!TypeOK
  <2>5. DmQueued'
    BY <1>0, <2>2, <2>3 DEF DmQueued
  <2>6. DmAllKnown'
    BY <1>0, <2>1, <2>2, <2>3 DEF DmAllKnown, DmKnown
  <2>. QED  BY <1>1, <2>4, <2>5, <2>6 DEF DmIInv
<1>. QED  BY <1>3, <1>4

LEMMA DmStartQueueKeeps == ASSUME DmBounds, DmIInv, Dm!StartQueue PROVE DmIInv'
<1>0. /\ Dm!TypeOK /\ DmMatched /\ DmQueued /\ DmAllKnown
      /\ queue # none /\ queue' = none
      /\ UNCHANGED <<may, sources, status, data, marked, wanted, failed, asks, events>>
  BY DEF DmIInv, Dm!StartQueue
<1>1. queue.queries \in SUBSET DmQuery
  BY <1>0 DEF Dm!TypeOK
<1>2. /\ fetches' = fetches \cup {Dm!NewFetch(queue.queries)}
      /\ matching' = Dm!NewFetch(queue.queries)
      /\ Dm!NewFetch(queue.queries) \in Dm!Fetch
      /\ Dm!NewFetch(queue.queries).queries = queue.queries
  BY <1>1, DmNewFetchType DEF Dm!StartQueue, Dm!FetchMatchResult
<1>3. Dm!TypeOK'
  BY <1>0, <1>2 DEF Dm!TypeOK
<1>4. DmMatched'
  BY <1>0, <1>2, FS_AddElement DEF DmMatched
<1>5. DmAllKnown'
  BY <1>0, <1>2 DEF DmAllKnown, DmKnown
<1>. QED  BY <1>0, <1>3, <1>4, <1>5 DEF DmIInv, DmQueued

LEMMA DmNextIInv == ASSUME DmBounds PROVE DmIInv /\ [Dm!Next]_(Dm!vars) => DmIInv'
<1>. SUFFICES ASSUME DmIInv, [Dm!Next]_(Dm!vars) PROVE DmIInv'
  OBVIOUS
<1>1. CASE UNCHANGED Dm!vars
  BY <1>1 DEF Dm!vars, DmIInv, Dm!TypeOK, DmMatched, DmQueued, DmAllKnown, DmKnown
<1>2. CASE Dm!Next
  BY <1>2, DmListenerKeeps, DmTriggerMatchKeeps, DmMatchKeeps, DmEndKeeps, DmStartQueueKeeps DEF Dm!Next
<1>. QED  BY <1>1, <1>2

\* For any queries and bounds: what was asked for has a result, is being asked for, waits in a
\* queue that will start, or a request for it or before it failed.
LEMMA DmNothingIsForgotten == ASSUME DmBounds PROVE DmIInv => Dm!NoneForgotten
<1>. SUFFICES ASSUME DmIInv PROVE Dm!NoneForgotten
  OBVIOUS
<1>. SUFFICES ASSUME NEW q \in wanted
              PROVE  \/ q \in DmQuery /\ data[q] # "none"
                     \/ \E f \in fetches : q \in f.queries
                     \/ /\ queue # none /\ (queue.due \/ \E f \in fetches : f.id = queue.after)
                        /\ q \in queue.queries
                     \/ q \in failed
  BY DEF Dm!NoneForgotten
<1>. QED  BY DEF DmIInv, Dm!TypeOK, DmQueued, DmAllKnown, DmKnown

-----------------------------------------------------------------------------
(***************************************************************************)
(* Proofs about the connection of the phone: whatever bounds there are on  *)
(* the calls under way and on the events, its status does not lie and does *)
(* not get stuck.                                                          *)
(***************************************************************************)

WcBounds == WcMaxUnderWay \in Nat /\ WcMaxEvents \in Nat

\* Nobody can connect who is not logged in.
WcPendingUnwanted == status = "pending" => ~wanted

WcConnecting == connectionStatus = "connecting" => underWay["_sipProvision"] > 0 \/ webphone = "new"
WcConnected  == connectionStatus = "connected" => webphone = "registered"
WcRetried    == connectionStatus = "connectFailed" /\ loggedIn =>
                  webphone # "none" \/ \E a \in Wc!Await : underWay[a] > 0
\* Nothing is left that could go on, but for retries.
WcEnded      == ~wanted => /\ connectionStatus = "disconnected" /\ webphone = "none"
                           /\ underWay["_fetchDL"] = 0 /\ underWay["inactive"] = 0
                           /\ underWay["_sipProvision"] = 0

WcServed == WcConnecting /\ WcConnected /\ WcRetried /\ WcEnded
WcIInv == Wc!TypeOK /\ WcPendingUnwanted /\ (crossed \/ WcServed)

--------------------
(* What a call that goes on does. *)

LEMMA WcMovesType ==
  ASSUME WcBounds, Wc!TypeOK, NEW from, NEW to, Wc!Moves(from, to)
  PROVE  /\ underWay' \in [Wc!Await -> 0..WcMaxUnderWay]
         /\ \A a \in Wc!Await :
              /\ underWay'[a] \in Nat /\ underWay[a] \in Nat
              /\ underWay'[a] = underWay[a] - (IF a = from THEN 1 ELSE 0) + (IF a = to THEN 1 ELSE 0)
  BY DEF WcBounds, Wc!TypeOK, Wc!Moves

LEMMA WcConnectsTo ==
  ASSUME WcBounds, Wc!TypeOK, NEW from \in {"_fetchDL", "_retrySleep", "inactive"},
         NEW reconnect \in BOOLEAN, NEW connection, underWay[from] > 0, Wc!Connects(from, reconnect, connection)
  PROVE  /\ underWay' \in [Wc!Await -> 0..WcMaxUnderWay]
         /\ \/ /\ ~Wc!GoesOn(reconnect, connection) /\ connectionStatus' = connection
               /\ underWay'["_sipProvision"] = underWay["_sipProvision"]
               /\ \A a \in Wc!Await : underWay'[a] <= underWay[a]
            \/ /\ Wc!GoesOn(reconnect, connection)
               /\ \/ /\ connectionStatus' = connection
                     /\ underWay'["_sipProvision"] = underWay["_sipProvision"]
                  \/ /\ connectionStatus' = "connecting"
                     /\ underWay'["_sipProvision"] > 0
               /\ \E a \in Wc!Await : underWay'[a] > 0
<1>1. CASE ~Wc!GoesOn(reconnect, connection)
  BY <1>1, WcMovesType DEF Wc!Connects, Wc!Await
<1>2. CASE Wc!GoesOn(reconnect, connection) /\ ~active
  <2>1. PICK to \in {"inactiveReconnect", "inactive"} : Wc!Moves(from, to)
    BY <1>2 DEF Wc!Connects
  <2>4. \E a \in Wc!Await : underWay'[a] > 0
    BY <2>1, WcMovesType DEF Wc!Await
  <2>. QED  BY <1>2, <2>1, <2>4, WcMovesType DEF Wc!Connects, Wc!Await
<1>3. CASE Wc!GoesOn(reconnect, connection) /\ active
  BY <1>3, WcMovesType DEF Wc!Connects, Wc!Await
<1>. QED  BY <1>1, <1>2, <1>3

LEMMA WcCountedType ==
  ASSUME WcBounds, Wc!TypeOK, Wc!Counted PROVE events' \in 0..WcMaxEvents
  BY DEF WcBounds, Wc!TypeOK, Wc!Counted

\* Who acts while nobody is logged in is not served.
LEMMA WcIdleLoggedIn ==
  ASSUME WcIInv, Wc!Settled, wanted PROVE loggedIn
  BY DEF WcIInv, Wc!TypeOK, Wc!Settled, Wc!ShouldReset, WcPendingUnwanted

--------------------
(* The inductive invariant. *)

LEMMA WcInitIInv == ASSUME WcBounds PROVE Wc!Init => WcIInv
<1>. SUFFICES ASSUME Wc!Init PROVE WcIInv
  OBVIOUS
<1>1. \A a \in Wc!Await : underWay[a] = 0
  BY DEF Wc!Init
<1>2. underWay \in [Wc!Await -> 0..WcMaxUnderWay] /\ events \in 0..WcMaxEvents
  BY DEF WcBounds, Wc!Init
<1>3. Wc!TypeOK
  BY <1>2 DEF Wc!Init, Wc!TypeOK
<1>4. WcServed
  BY <1>1 DEF Wc!Init, WcServed, WcConnecting, WcConnected, WcRetried, WcEnded, Wc!Await
<1>. QED  BY <1>3, <1>4 DEF Wc!Init, WcIInv, WcPendingUnwanted

\* What says nothing of the status, the agent and the calls under way.
LEMMA WcAttemptsKept ==
  ASSUME WcServed, UNCHANGED <<connectionStatus, webphone, underWay, wanted>>, loggedIn' => loggedIn
  PROVE  WcServed'
  BY DEF WcServed, WcConnecting, WcConnected, WcRetried, WcEnded

\* A call goes on: what it leaves behind is another call under way, but for two attempts at once.
LEMMA WcGoesOnKeeps ==
  ASSUME WcBounds, WcIInv, Wc!Idle, NEW from \in {"_fetchDL", "_retrySleep", "inactive"},
         NEW reconnect \in BOOLEAN, NEW connection \in {connectionStatus, "connectFailed"},
         underWay[from] > 0, Wc!Connects(from, reconnect, connection),
         reconnect <=> from = "_retrySleep",
         connection # connectionStatus => from = "_fetchDL",
         UNCHANGED <<webphone, heard, wanted, events>>,
         crossed' \in BOOLEAN, crossed \/ Wc!Overlap => crossed',
         from = "_fetchDL" /\ connectionStatus \in {"connecting", "connected"} => crossed'
  PROVE  WcIInv'
<1>1. /\ underWay' \in [Wc!Await -> 0..WcMaxUnderWay]
      /\ \/ /\ ~Wc!GoesOn(reconnect, connection) /\ connectionStatus' = connection
            /\ underWay'["_sipProvision"] = underWay["_sipProvision"]
            /\ \A a \in Wc!Await : underWay'[a] <= underWay[a]
         \/ /\ Wc!GoesOn(reconnect, connection)
            /\ \/ /\ connectionStatus' = connection
                  /\ underWay'["_sipProvision"] = underWay["_sipProvision"]
               \/ /\ connectionStatus' = "connecting"
                  /\ underWay'["_sipProvision"] > 0
            /\ \E a \in Wc!Await : underWay'[a] > 0
  BY WcConnectsTo DEF WcIInv
<1>2. UNCHANGED <<loggedIn, status, active, webphone, heard, wanted, events>>
  BY DEF Wc!Idle
<1>3. Wc!TypeOK'
  BY <1>1, <1>2 DEF WcIInv, Wc!TypeOK
<1>4. ASSUME ~crossed' PROVE WcServed'
  <2>1. ~crossed /\ WcServed
    BY <1>4 DEF WcIInv
  <2>2. WcConnecting'
    BY <1>1, <1>2, <2>1 DEF WcServed, WcConnecting
  <2>3. WcConnected'
    BY <1>1, <1>2, <1>4, <2>1 DEF WcServed, WcConnected, WcIInv, Wc!TypeOK, Wc!Overlap
  <2>4. WcRetried'
    <3>1. CASE Wc!GoesOn(reconnect, connection)
      BY <1>1, <3>1 DEF WcRetried
    <3>2. CASE ~Wc!GoesOn(reconnect, connection) /\ loggedIn
      BY <1>1, <3>2 DEF WcRetried, Wc!GoesOn
    <3>3. CASE ~loggedIn
      BY <1>2, <3>3 DEF WcRetried
    <3>. QED  BY <3>1, <3>2, <3>3
  <2>5. WcEnded'
    <3>. SUFFICES ASSUME ~wanted PROVE WcEnded'
      BY <1>2 DEF WcEnded
    <3>1. /\ connectionStatus = "disconnected" /\ webphone = "none" /\ from = "_retrySleep"
          /\ underWay["_fetchDL"] = 0 /\ underWay["inactive"] = 0
          /\ underWay["_sipProvision"] = 0
      BY <2>1 DEF WcServed, WcEnded
    <3>2. ~Wc!GoesOn(reconnect, connection) /\ connection = "disconnected"
      BY <3>1 DEF Wc!GoesOn
    <3>3. \A a \in Wc!Await : underWay'[a] \in Nat /\ underWay'[a] <= underWay[a]
      BY <1>1, <3>2
    <3>4. connectionStatus' = "disconnected"
      BY <1>1, <3>2
    <3>5. \A a \in {"_fetchDL", "inactive", "_sipProvision"} : underWay'[a] = 0
      BY <3>1, <3>3 DEF Wc!Await
    <3>. QED  BY <1>2, <3>1, <3>4, <3>5 DEF WcEnded
  <2>. QED  BY <2>2, <2>3, <2>4, <2>5 DEF WcServed
<1>5. WcPendingUnwanted'
  BY <1>2 DEF WcIInv, WcPendingUnwanted
<1>. QED  BY <1>3, <1>4, <1>5 DEF WcIInv

LEMMA WcCallsKeep ==
  ASSUME WcBounds, WcIInv, Wc!WakeUp \/ Wc!InactiveOver \/ Wc!FetchedDL
  PROVE  WcIInv'
<1>. Wc!Overlap \in BOOLEAN /\ crossed \in BOOLEAN
  BY DEF Wc!Overlap, WcIInv, Wc!TypeOK
<1>1. CASE Wc!WakeUp
  <2>1. /\ underWay["_retrySleep"] > 0 /\ Wc!Idle
        /\ Wc!Connects("_retrySleep", TRUE, connectionStatus)
        /\ crossed' = (crossed \/ Wc!Overlap)
        /\ UNCHANGED <<webphone, heard, wanted, events>>
    BY <1>1 DEF Wc!WakeUp
  <2>. QED  BY <2>1, WcGoesOnKeeps
<1>2. CASE Wc!InactiveOver
  <2>0. /\ crossed' = (crossed \/ Wc!Overlap) /\ Wc!Idle
        /\ UNCHANGED <<webphone, heard, wanted, events>>
    BY <1>2 DEF Wc!InactiveOver
  <2>1. CASE /\ underWay["inactive"] > 0
             /\ Wc!Connects("inactive", FALSE, connectionStatus)
    BY <2>0, <2>1, WcGoesOnKeeps
  <2>2. CASE /\ underWay["inactiveReconnect"] > 0
             /\ Wc!Moves("inactiveReconnect", "_retrySleep")
             /\ UNCHANGED connectionStatus
    <3>1. UNCHANGED <<loggedIn, status, active, webphone, heard, wanted, events, connectionStatus>>
      BY <2>0, <2>2 DEF Wc!Idle
    <3>2. /\ underWay' \in [Wc!Await -> 0..WcMaxUnderWay]
          /\ underWay'["_retrySleep"] > 0
          /\ \A a \in {"_fetchDL", "inactive", "_sipProvision"} : underWay'[a] = underWay[a]
      BY <2>2, WcMovesType DEF Wc!Await, WcIInv
    <3>3. Wc!TypeOK' /\ WcPendingUnwanted'
      BY <2>0, <3>1, <3>2 DEF WcIInv, Wc!TypeOK, WcPendingUnwanted
    <3>4. ~crossed' => WcServed'
      BY <2>0, <3>1, <3>2 DEF WcIInv, WcServed, WcConnecting, WcConnected, WcRetried, WcEnded, Wc!Await
    <3>. QED  BY <3>3, <3>4 DEF WcIInv
  <2>. QED  BY <1>2, <2>1, <2>2 DEF Wc!InactiveOver
<1>3. CASE Wc!FetchedDL
  <2>1. /\ underWay["_fetchDL"] > 0 /\ Wc!Idle
        /\ crossed' = (crossed \/ Wc!Overlap \/ connectionStatus \in {"connecting", "connected"})
        /\ UNCHANGED <<webphone, heard, wanted, events>>
    BY <1>3 DEF Wc!FetchedDL
  <2>2. PICK connection \in {connectionStatus, "connectFailed"} :
          Wc!Connects("_fetchDL", FALSE, connection)
    BY <1>3 DEF Wc!FetchedDL
  <2>. QED  BY <2>1, <2>2, WcGoesOnKeeps
<1>. QED  BY <1>1, <1>2, <1>3

LEMMA WcProvisionedKeeps == ASSUME WcBounds, WcIInv, Wc!Provisioned PROVE WcIInv'
<1>1. /\ UNCHANGED <<loggedIn, status, active, connectionStatus, wanted, events>>
      /\ webphone' = "new" /\ heard' = FALSE /\ underWay["_sipProvision"] > 0
      /\ crossed' = (crossed \/ connectionStatus # "connecting")
  BY DEF Wc!Provisioned, Wc!Idle
<1>2. underWay' \in [Wc!Await -> 0..WcMaxUnderWay]
  BY WcMovesType DEF Wc!Provisioned, WcIInv
<1>3. Wc!TypeOK' /\ WcPendingUnwanted'
  BY <1>1, <1>2 DEF WcIInv, Wc!TypeOK, WcPendingUnwanted
<1>4. ~crossed' => WcServed'
  BY <1>1 DEF WcIInv, WcServed, WcConnecting, WcConnected, WcRetried, WcEnded
<1>. QED  BY <1>3, <1>4 DEF WcIInv

LEMMA WcProvisionFailsKeeps == ASSUME WcBounds, WcIInv, Wc!ProvisionFails PROVE WcIInv'
<1>1. /\ UNCHANGED <<loggedIn, status, active, webphone, heard, wanted>>
      /\ events' \in 0..WcMaxEvents /\ underWay["_sipProvision"] > 0
  BY WcCountedType DEF Wc!ProvisionFails, Wc!Idle, WcIInv
<1>2. CASE /\ Wc!Moves("_sipProvision", "_retrySleep")
           /\ connectionStatus' = "connectFailed"
           /\ UNCHANGED crossed
  <2>1. underWay' \in [Wc!Await -> 0..WcMaxUnderWay] /\ underWay'["_retrySleep"] > 0
    BY <1>2, WcMovesType DEF WcIInv, Wc!Await
  <2>2. ~crossed' => wanted
    BY <1>1, <1>2 DEF WcIInv, WcServed, WcEnded
  <2>3. Wc!TypeOK' /\ WcPendingUnwanted'
    BY <1>1, <1>2, <2>1 DEF WcIInv, Wc!TypeOK, WcPendingUnwanted
  <2>4. ~crossed' => WcServed'
    BY <1>1, <1>2, <2>1, <2>2 DEF WcServed, WcConnecting, WcConnected, WcRetried, WcEnded, Wc!Await
  <2>. QED  BY <2>3, <2>4 DEF WcIInv
<1>3. CASE /\ Wc!Moves("_sipProvision", "none")
           /\ crossed' = TRUE
           /\ UNCHANGED connectionStatus
  <2>1. underWay' \in [Wc!Await -> 0..WcMaxUnderWay]
    BY <1>3, WcMovesType DEF WcIInv
  <2>. QED  BY <1>1, <1>3, <2>1 DEF WcIInv, Wc!TypeOK, WcPendingUnwanted
<1>. QED  BY <1>2, <1>3 DEF Wc!ProvisionFails

LEMMA WcAgentKeeps ==
  ASSUME WcBounds, WcIInv, Wc!Registered \/ Wc!Unregistered \/ Wc!RegistrationFailed
  PROVE  WcIInv'
<1>0. /\ UNCHANGED <<loggedIn, status, active, wanted>> /\ webphone # "none"
      /\ crossed' \in BOOLEAN /\ (crossed => crossed')
      /\ underWay["_sipProvision"] \in Nat /\ (underWay["_sipProvision"] > 0 => crossed')
  <2>1. /\ UNCHANGED <<loggedIn, status, active, wanted>> /\ webphone # "none"
        /\ crossed' = (crossed \/ underWay["_sipProvision"] > 0)
    BY DEF Wc!Registered, Wc!Unregistered, Wc!RegistrationFailed, Wc!Idle
  <2>2. underWay["_sipProvision"] \in Nat /\ crossed \in BOOLEAN
    BY DEF WcIInv, Wc!TypeOK, WcBounds, Wc!Await
  <2>3. CASE underWay["_sipProvision"] > 0
    BY <2>1, <2>2, <2>3
  <2>4. CASE ~(underWay["_sipProvision"] > 0)
    BY <2>1, <2>2, <2>4
  <2>. QED  BY <2>3, <2>4
<1>1. ASSUME ~crossed' PROVE WcServed /\ wanted /\ underWay["_sipProvision"] = 0
  <2>1. ~crossed /\ underWay["_sipProvision"] = 0
    BY <1>0, <1>1
  <2>. QED  BY <1>0, <2>1 DEF WcIInv, WcServed, WcEnded
<1>2. CASE Wc!Registered
  <2>1. /\ webphone' = "registered" /\ connectionStatus' = "connected"
        /\ UNCHANGED <<heard, underWay, events>>
    BY <1>2 DEF Wc!Registered
  <2>2. Wc!TypeOK' /\ WcPendingUnwanted'
    BY <1>0, <2>1 DEF WcIInv, Wc!TypeOK, WcPendingUnwanted
  <2>. QED  BY <1>0, <1>1, <2>1, <2>2 DEF WcIInv, WcServed, WcConnecting, WcConnected, WcRetried, WcEnded
<1>3. CASE Wc!Unregistered
  <2>1. /\ webphone' = "unregistered" /\ connectionStatus' = "disconnected"
        /\ UNCHANGED <<heard, underWay>> /\ events' \in 0..WcMaxEvents
    BY <1>3, WcCountedType DEF Wc!Unregistered, WcIInv
  <2>2. Wc!TypeOK' /\ WcPendingUnwanted'
    BY <1>0, <2>1 DEF WcIInv, Wc!TypeOK, WcPendingUnwanted
  <2>. QED  BY <1>0, <1>1, <2>1, <2>2 DEF WcIInv, WcServed, WcConnecting, WcConnected, WcRetried, WcEnded
<1>4. CASE Wc!RegistrationFailed
  <2>1. /\ heard' = TRUE /\ connectionStatus' = "connectFailed" /\ events' \in 0..WcMaxEvents
    BY <1>4, WcCountedType DEF Wc!RegistrationFailed, WcIInv
  <2>2. CASE webphone' = "none" /\ Wc!Moves("none", "_retrySleep")
    <3>1. underWay' \in [Wc!Await -> 0..WcMaxUnderWay] /\ underWay'["_retrySleep"] > 0
      BY <2>2, WcMovesType DEF WcIInv, Wc!Await
    <3>2. Wc!TypeOK' /\ WcPendingUnwanted'
      BY <1>0, <2>1, <2>2, <3>1 DEF WcIInv, Wc!TypeOK, WcPendingUnwanted
    <3>. QED  BY <1>0, <1>1, <2>1, <2>2, <3>1, <3>2
         DEF WcIInv, WcServed, WcConnecting, WcConnected, WcRetried, WcEnded, Wc!Await
  <2>3. CASE webphone' = "failed" /\ UNCHANGED underWay
    <3>1. Wc!TypeOK' /\ WcPendingUnwanted'
      BY <1>0, <2>1, <2>3 DEF WcIInv, Wc!TypeOK, WcPendingUnwanted
    <3>. QED  BY <1>0, <1>1, <2>1, <2>3, <3>1
         DEF WcIInv, WcServed, WcConnecting, WcConnected, WcRetried, WcEnded
  <2>. QED  BY <1>4, <2>2, <2>3 DEF Wc!RegistrationFailed
<1>. QED  BY <1>2, <1>3, <1>4

LEMMA WcConnectKeeps == ASSUME WcBounds, WcIInv, Wc!Connect PROVE WcIInv'
<1>1. /\ UNCHANGED <<loggedIn, status, active, connectionStatus, webphone, heard, crossed>>
      /\ events' \in 0..WcMaxEvents /\ wanted' = TRUE
      /\ connectionStatus = "disconnected" /\ loggedIn /\ Wc!Settled
  BY WcCountedType DEF Wc!Connect, Wc!Idle, WcIInv
<1>2. underWay' \in [Wc!Await -> 0..WcMaxUnderWay]
  BY WcMovesType DEF Wc!Connect, WcIInv
<1>3. status = "ready"
  BY <1>1 DEF Wc!Settled, Wc!ShouldInit, WcIInv, Wc!TypeOK
<1>. QED  BY <1>1, <1>2, <1>3
     DEF WcIInv, Wc!TypeOK, WcPendingUnwanted, WcServed, WcConnecting, WcConnected, WcRetried, WcEnded

\* What survives a disconnect is crossed.
LEMMA WcDisconnectedKeeps ==
  ASSUME WcBounds, WcIInv, Wc!Disconnected, UNCHANGED <<loggedIn, active>>,
         status' \in {"pending", "ready"}, events' \in 0..WcMaxEvents
  PROVE  WcIInv'
<1>1. /\ connectionStatus' = "disconnected" /\ wanted' = FALSE /\ crossed' = Wc!Survives
      /\ UNCHANGED <<heard, underWay>>
      /\ webphone' = IF Wc!Disconnects THEN "none" ELSE webphone
  BY DEF Wc!Disconnected
<1>2. crossed' \in BOOLEAN /\ webphone' \in {"none", webphone}
  BY <1>1 DEF Wc!Survives
<1>3. Wc!TypeOK' /\ WcPendingUnwanted'
  BY <1>1, <1>2 DEF WcIInv, Wc!TypeOK, WcPendingUnwanted
<1>4. ASSUME ~crossed' PROVE WcServed'
  <2>1. \A a \in {"_fetchDL", "inactive", "_sipProvision"} : underWay[a] = 0
    <3>1. \A a \in Wc!Await : underWay[a] \in Nat
      BY DEF WcIInv, Wc!TypeOK, WcBounds
    <3>. QED  BY <1>1, <1>4, <3>1 DEF Wc!Survives, Wc!Await
  <2>2. webphone' = "none"
    BY <1>1, <1>4 DEF Wc!Survives, Wc!Disconnects, WcIInv, Wc!TypeOK
  <2>. QED  BY <1>1, <2>1, <2>2 DEF WcServed, WcConnecting, WcConnected, WcRetried, WcEnded
<1>. QED  BY <1>3, <1>4 DEF WcIInv

LEMMA WcListenerKeeps ==
  ASSUME WcBounds, WcIInv, Wc!Disconnect \/ Wc!Initialize \/ Wc!Reset \/ Wc!Turn
  PROVE  WcIInv'
<1>1. CASE Wc!Disconnect
  BY <1>1, WcDisconnectedKeeps, WcCountedType DEF Wc!Disconnect, Wc!Idle, WcIInv, Wc!TypeOK
<1>2. CASE Wc!Initialize
  BY <1>2, WcAttemptsKept DEF Wc!Initialize, WcIInv, Wc!TypeOK, WcPendingUnwanted
<1>3. CASE Wc!Reset
  BY <1>3, WcDisconnectedKeeps DEF Wc!Reset, WcIInv, Wc!TypeOK
<1>4. CASE Wc!Turn
  <2>1. /\ events' \in 0..WcMaxEvents /\ Wc!Settled
        /\ loggedIn' \in BOOLEAN /\ active' \in BOOLEAN
        /\ UNCHANGED <<status, connectionStatus, webphone, heard, underWay, wanted, crossed>>
    BY <1>4, WcCountedType DEF Wc!Turn, WcIInv, Wc!TypeOK
  <2>2. Wc!TypeOK' /\ WcPendingUnwanted'
    BY <2>1 DEF WcIInv, Wc!TypeOK, WcPendingUnwanted
  <2>3. CASE loggedIn' => loggedIn
    BY <2>1, <2>2, <2>3, WcAttemptsKept DEF WcIInv
  <2>4. CASE ~loggedIn
    <3>1. ~wanted
      BY <2>1, <2>4, WcIdleLoggedIn
    <3>. QED  BY <2>1, <2>2, <3>1
         DEF WcIInv, WcServed, WcConnecting, WcConnected, WcRetried, WcEnded
  <2>. QED  BY <2>3, <2>4
<1>. QED  BY <1>1, <1>2, <1>3, <1>4

LEMMA WcNextIInv == ASSUME WcBounds PROVE WcIInv /\ [Wc!Next]_(Wc!vars) => WcIInv'
<1>. SUFFICES ASSUME WcIInv, [Wc!Next]_(Wc!vars) PROVE WcIInv'
  OBVIOUS
<1>1. CASE UNCHANGED Wc!vars
  BY <1>1, WcAttemptsKept DEF Wc!vars, WcIInv, Wc!TypeOK, WcPendingUnwanted
<1>2. CASE Wc!Next
  BY <1>2, WcCallsKeep, WcProvisionedKeeps, WcProvisionFailsKeeps, WcAgentKeeps, WcConnectKeeps,
     WcListenerKeeps DEF Wc!Next
<1>. QED  BY <1>1, <1>2

\* However many calls are under way and whatever the user agent says in between: a phone that
\* is connecting or has failed has somebody on the way, and one that was disconnected stays so.
LEMMA WcConnectionIsServed == ASSUME WcBounds PROVE WcIInv => Wc!ConnectionServed
  BY DEF WcIInv, WcServed, WcConnecting, WcConnected, WcRetried, WcEnded, Wc!ConnectionServed

-----------------------------------------------------------------------------
(***************************************************************************)
(* Proofs about the calls of the phone: for any sessions they are shown as *)
(* they are, and one at a time talks.                                      *)
(***************************************************************************)

WsBounds == WsMaxEnded \in Nat \ {0} /\ WsMaxEvents \in Nat /\ none \notin WsSession

\* Calls that will talk without being asked again.
WsComing(s) ==
  \/ phone[s] = "early" /\ (s \notin inbound \/ "accept" \in pending[s])
  \/ "unhold" \in pending[s]

\* What a session may be in the middle of.
WsLife(s) ==
  /\ phone[s] = "unborn" => s \notin kept /\ s \notin lost /\ s \notin inbound /\ s \notin held
  /\ s \in kept => phone[s] \in {"early", "established"}
  /\ phone[s] = "early" => s \notin held
  /\ "accept" \in pending[s] => phone[s] = "early"
  /\ "hold" \in pending[s] => phone[s] = "established" /\ s \notin held
  /\ "unhold" \in pending[s] => phone[s] = "established" /\ s \in held
  /\ callStatus[s] = "connecting" => phone[s] = "early"

\* A call that was given up may talk only over others.
WsComingKept == \A s \in WsSession : WsComing(s) => s \in kept \cup unheld

\* Of the calls that talk and those that will, all but one were not held or talk over it.
WsOneTalks == \A s, t \in WsSession \ unheld :
                (s \in Ws!Talking \/ WsComing(s)) /\ (t \in Ws!Talking \/ WsComing(t)) => s = t

WsActiveTalks == ~stopping => \A s \in Ws!Talking \ unheld : activeSessionId = s

WsRinging(s) == s \in kept /\ s \in inbound /\ callStatus[s] = "connecting"
WsRingShown  == ~stopping /\ (\E s \in WsSession : WsRinging(s)) => ringSessionId \in lost \/ WsRinging(ringSessionId)

\* The places of lastEndedSessions are taken from the first on.
WsPlacesTaken == \A t \in WsSession : \A place \in 1..lastEnded[t] : \E u \in WsSession : lastEnded[u] = place

WsEndedShown ==
  /\ WsPlacesTaken
  /\ \A s \in WsSession : /\ phone[s] = "ended" => lastEnded[s] # 0 \/ Ws!Full
                          /\ lastEnded[s] # 0 => phone[s] \in {"established", "ended"} \/ s \in forwarded

WsLives == \A s \in WsSession : WsLife(s)
WsIInv == Ws!TypeOK /\ WsLives /\ WsComingKept /\ WsOneTalks /\ WsActiveTalks /\ WsRingShown /\ WsEndedShown

--------------------
(* What the reducers leave. *)

LEMMA WsOneOfType == ASSUME NEW S \in SUBSET WsSession, NEW x \in Ws!OneOf(S)
                     PROVE  x \in WsSession \cup {none} /\ (S # {} => x \in S)
  BY DEF Ws!OneOf

\* The ring session after callStart and callEnd of s: another one as before, or one that rings.
LEMMA WsRingAfterType ==
  ASSUME Ws!TypeOK, NEW s \in WsSession, kept' \subseteq WsSession, inbound' = inbound,
         ringSessionId' \in Ws!RingAfter(s)
  PROVE  /\ ringSessionId' \in WsSession \cup {none}
         /\ ringSessionId # s => ringSessionId' = ringSessionId
         /\ ringSessionId = s /\ (\E t \in WsSession : WsRinging(t)') => WsRinging(ringSessionId)'
<1>1. CASE ringSessionId # s
  BY <1>1 DEF Ws!RingAfter, Ws!TypeOK
<1>2. CASE ringSessionId = s
  <2>. DEFINE S == {t \in kept' : Ws!Rings(t)}
  <2>1. ringSessionId' \in Ws!OneOf(S) /\ S \in SUBSET WsSession
    BY <1>2 DEF Ws!RingAfter
  <2>2. \A t \in WsSession : t \in S <=> WsRinging(t)'
    BY DEF Ws!Rings, WsRinging
  <2>. HIDE DEF S
  <2>3. ringSessionId' \in WsSession \cup {none} /\ (S # {} => ringSessionId' \in S)
    BY <2>1, WsOneOfType
  <2>. QED  BY <1>2, <2>1, <2>2, <2>3
<1>. QED  BY <1>1, <1>2

\* It is right if nothing but s changed its ring, and s does not begin to.
LEMMA WsRingKept ==
  ASSUME WsIInv, NEW s \in WsSession, kept' \subseteq WsSession, UNCHANGED <<inbound, stopping>>,
         ringSessionId' \in Ws!RingAfter(s),
         \A t \in WsSession \ {s} : /\ t \in lost => t \in lost'
                                    /\ WsRinging(t)' <=> WsRinging(t),
         ~WsRinging(s)'
  PROVE  WsRingShown' /\ ringSessionId' \in WsSession \cup {none}
<1>1. /\ ringSessionId' \in WsSession \cup {none}
      /\ ringSessionId # s => ringSessionId' = ringSessionId
      /\ ringSessionId = s /\ (\E t \in WsSession : WsRinging(t)') => WsRinging(ringSessionId)'
  BY WsRingAfterType DEF WsIInv
<1>2. ASSUME NEW t \in WsSession, WsRinging(t)', ringSessionId # s, ~stopping
      PROVE  ringSessionId' \in lost' \/ WsRinging(ringSessionId)'
  <2>1. t # s /\ WsRinging(t)
    BY <1>2
  <2>2. ringSessionId \in lost \/ WsRinging(ringSessionId)
    BY <1>2, <2>1 DEF WsIInv, WsRingShown
  <2>3. ringSessionId \in WsSession
    BY <2>2 DEF WsIInv, Ws!TypeOK, WsRinging
  <2>4. ringSessionId' \in lost' \/ (WsRinging(ringSessionId) /\ ringSessionId' = ringSessionId)
    BY <1>1, <1>2, <2>2, <2>3
  <2>5. CASE WsRinging(ringSessionId) /\ ringSessionId' = ringSessionId
    <3>. DEFINE r == ringSessionId
    <3>1. kept' = kept' /\ (r \in kept' /\ r \in inbound' /\ callStatus'[r] = "connecting")
      BY <1>2, <2>3, <2>5 DEF WsRinging
    <3>. QED  BY <2>5, <3>1 DEF WsRinging
  <2>. QED  BY <2>4, <2>5
<1>. QED  BY <1>1, <1>2 DEF WsRingShown

\* And if nothing changes that it depends on.
LEMMA WsRingSame ==
  ASSUME WsIInv, UNCHANGED <<ringSessionId, stopping>>, lost \subseteq lost',
         \A t \in WsSession : /\ WsRinging(t)' => WsRinging(t)
                              /\ WsRinging(t) => WsRinging(t)' \/ t \in lost'
  PROVE  WsRingShown'
<1>. SUFFICES ASSUME ~stopping, NEW t \in WsSession, WsRinging(t)'
              PROVE  ringSessionId' \in lost' \/ WsRinging(ringSessionId)'
  BY DEF WsRingShown
<1>1. ringSessionId \in lost \/ WsRinging(ringSessionId)
  BY DEF WsIInv, WsRingShown
<1>2. CASE WsRinging(ringSessionId)
  <2>1. ringSessionId \in WsSession
    BY <1>2 DEF WsIInv, Ws!TypeOK, WsRinging
  <2>2. (ringSessionId \in kept' /\ ringSessionId \in inbound'
           /\ callStatus'[ringSessionId] = "connecting") \/ ringSessionId \in lost'
    BY <1>2, <2>1 DEF WsRinging
  <2>. QED  BY <2>2 DEF WsRinging
<1>. QED  BY <1>1, <1>2

\* To hold the others leaves nobody who talks or will, but those who are not held.
LEMMA WsHoldOthersKeeps ==
  ASSUME WsIInv, NEW s \in WsSession, NEW goal \in {"none", "accept", "unhold"}, Ws!HoldOthers(s, goal),
         UNCHANGED <<held, forwarded>>, kept' \in {kept, kept \cup {s}},
         \A t \in WsSession \ {s} : phone'[t] = phone[t] /\ (t \in inbound' <=> t \in inbound)
  PROVE  /\ pending' \in [WsSession -> SUBSET {"accept", "hold", "unhold"}] /\ unheld' \subseteq WsSession
         /\ unheld \subseteq unheld'
         /\ pending'[s] = pending[s] \cup ({goal} \cap {"accept", "unhold"})
         /\ \A t \in WsSession \ {s} :
              /\ pending'[t] = pending[t]
                   \/ (pending'[t] = pending[t] \cup {"hold"} /\ phone[t] = "established" /\ t \notin held)
              /\ t \notin Ws!Talking'
              /\ WsComing(t)' => t \in unheld' /\ WsComing(t)
<1>1. /\ pending' \in [WsSession -> SUBSET {"accept", "hold", "unhold"}]
      /\ pending'[s] = pending[s] \cup ({goal} \cap {"accept", "unhold"})
      /\ \A t \in WsSession \ {s} :
           pending'[t] = pending[t] \cup
             (IF t \in kept /\ t \notin held /\ phone[t] = "established" THEN {"hold"} ELSE {})
  BY DEF Ws!HoldOthers, Ws!Others, WsIInv, Ws!TypeOK
<1>2. unheld' = unheld \cup {t \in (kept \ {s}) \ held : phone[t] # "established"}
                       \cup {t \in kept \ {s} : "unhold" \in pending[t]}
  BY DEF Ws!HoldOthers, Ws!Others
<1>3. unheld' \subseteq WsSession /\ unheld \subseteq unheld'
  BY <1>2 DEF WsIInv, Ws!TypeOK
<1>4. ASSUME NEW t \in WsSession \ {s}
      PROVE  /\ pending'[t] = pending[t]
                   \/ (pending'[t] = pending[t] \cup {"hold"} /\ phone[t] = "established" /\ t \notin held)
             /\ t \notin Ws!Talking'
             /\ WsComing(t)' => t \in unheld' /\ WsComing(t)
  <2>1. t \in kept' <=> t \in kept
    OBVIOUS
  <2>2. t \notin Ws!Talking'
    BY <1>1, <2>1 DEF Ws!Talking
  <2>3. ASSUME WsComing(t)' PROVE t \in unheld' /\ WsComing(t)
    <3>1. WsComing(t)
      BY <1>1, <2>3 DEF WsComing
    <3>2. t \in kept \/ t \in unheld
      BY <3>1 DEF WsIInv, WsComingKept
    <3>3. phone[t] = "early" \/ "unhold" \in pending[t]
      BY <3>1 DEF WsComing
    <3>4. phone[t] = "early" => t \notin held
      BY DEF WsIInv, WsLives, WsLife
    <3>. QED  BY <1>2, <3>1, <3>2, <3>3, <3>4
  <2>. QED  BY <1>1, <2>2, <2>3
<1>. QED  BY <1>1, <1>3, <1>4

--------------------
(* The inductive invariant. *)

LEMMA WsInitIInv == ASSUME WsBounds PROVE Ws!Init => WsIInv
<1>. SUFFICES ASSUME Ws!Init PROVE WsIInv
  OBVIOUS
<1>1. Ws!TypeOK
  <2>1. 0 \in 0..WsMaxEnded /\ 0 \in 0..WsMaxEvents
    BY DEF WsBounds
  <2>. QED  BY <2>1 DEF Ws!Init, Ws!TypeOK
<1>2. kept = {} /\ lost = {} /\ inbound = {} /\ held = {} /\ \A s \in WsSession : lastEnded[s] = 0
  BY DEF Ws!Init
<1>3. ASSUME NEW s \in WsSession
      PROVE  phone[s] = "unborn" /\ pending[s] = {} /\ callStatus[s] = "none" /\ ~WsComing(s)
  BY <1>3 DEF Ws!Init, WsComing
<1>4. WsLives /\ WsComingKept /\ WsEndedShown
  BY <1>2, <1>3 DEF WsLives, WsLife, WsComingKept, WsEndedShown, WsPlacesTaken
<1>5. WsOneTalks /\ WsActiveTalks /\ WsRingShown
  BY <1>2, <1>3 DEF WsOneTalks, WsActiveTalks, WsRingShown, WsRinging, Ws!Talking
<1>. QED  BY <1>1, <1>4, <1>5 DEF WsIInv

\* What is in the list stays as long as no call ends.
LEMMA WsEndedSame ==
  ASSUME WsIInv, UNCHANGED lastEnded, forwarded \subseteq forwarded',
         \A t \in WsSession : /\ phone'[t] = "ended" => phone[t] = "ended"
                              /\ phone[t] \in {"established", "ended"} => phone'[t] \in {"established", "ended"}
  PROVE  WsEndedShown'
<1>1. WsPlacesTaken'
  BY DEF WsIInv, WsEndedShown, WsPlacesTaken
<1>2. Ws!Full => Ws!Full'
  BY DEF Ws!Full
<1>. QED  BY <1>1, <1>2 DEF WsIInv, WsEndedShown

\* Who ends comes first; the others keep a place, or the list is full.
LEMMA WsEndedAfterType ==
  ASSUME WsBounds, WsIInv, NEW s \in WsSession, lastEnded' = Ws!EndedAfter(s)
  PROVE  /\ lastEnded' \in [WsSession -> 0..WsMaxEnded]
         /\ lastEnded'[s] = 1
         /\ \A t \in WsSession : lastEnded'[t] # 0 => lastEnded[t] # 0 \/ t = s
         /\ \A t \in WsSession : lastEnded[t] # 0 => lastEnded'[t] # 0 \/ Ws!Full'
         /\ Ws!Full => Ws!Full'
         /\ WsPlacesTaken'
<1>. DEFINE M == WsMaxEnded
<1>1. M \in Nat \ {0} /\ lastEnded \in [WsSession -> 0..M] /\ WsPlacesTaken
  BY DEF WsBounds, WsIInv, Ws!TypeOK, WsEndedShown
<1>2. /\ lastEnded'[s] = 1
      /\ \A t \in WsSession \ {s} :
           lastEnded'[t] = IF lastEnded[t] # 0 /\ (lastEnded[s] = 0 \/ lastEnded[t] < lastEnded[s])
                           THEN IF lastEnded[t] + 1 > M THEN 0 ELSE lastEnded[t] + 1
                           ELSE lastEnded[t]
  BY DEF Ws!EndedAfter, Ws!MovesBack, Ws!Fits
<1>3. \A t \in WsSession : lastEnded[t] \in 0..M
  BY <1>1
<1>4. \A t \in WsSession : lastEnded'[t] \in 0..M
  BY <1>1, <1>2, <1>3
<1>5. lastEnded' \in [WsSession -> 0..M]
  BY <1>4 DEF Ws!EndedAfter
\* A place that is taken, and the one before it too, is taken again.
<1>6. ASSUME NEW place \in 1..M, NEW before \in WsSession, NEW at \in WsSession,
             place = 1 \/ lastEnded[before] = place - 1, lastEnded[at] = place
      PROVE  \E u \in WsSession : lastEnded'[u] = place
  <2>1. CASE place = 1
    BY <1>2, <2>1
  <2>2. CASE place # 1 /\ (lastEnded[s] = 0 \/ lastEnded[s] >= place)
    <3>1. before # s /\ lastEnded[before] = place - 1 /\ place \in Nat
      BY <1>3, <1>6, <2>2
    <3>2. lastEnded'[before] = place
      BY <1>1, <1>2, <1>3, <1>6, <2>2, <3>1
    <3>. QED  BY <3>2
  <2>3. CASE place # 1 /\ lastEnded[s] # 0 /\ lastEnded[s] < place
    <3>1. at # s /\ lastEnded'[at] = place
      BY <1>1, <1>2, <1>3, <1>6, <2>3
    <3>. QED  BY <3>1
  <2>. QED  BY <1>1, <1>3, <1>6, <2>1, <2>2, <2>3
\* And the one behind the last, if who ends was not there.
<1>7. ASSUME NEW place \in 1..M, NEW before \in WsSession,
             place = 1 \/ lastEnded[before] = place - 1, lastEnded[s] = 0
      PROVE  \E u \in WsSession : lastEnded'[u] = place
  <2>1. CASE place = 1
    BY <1>2, <2>1
  <2>2. CASE place # 1
    <3>1. before # s /\ lastEnded[before] = place - 1
      BY <1>1, <1>7, <2>2
    <3>2. lastEnded'[before] = place
      BY <1>1, <1>2, <1>3, <1>7, <2>2, <3>1
    <3>. QED  BY <3>2
  <2>. QED  BY <2>1, <2>2
<1>8. Ws!Full => Ws!Full'
  <2>. SUFFICES ASSUME Ws!Full, NEW place \in 1..M PROVE \E u \in WsSession : lastEnded'[u] = place
    BY DEF Ws!Full
  <2>1. PICK at \in WsSession : lastEnded[at] = place
    BY DEF Ws!Full
  <2>2. PICK before \in WsSession : place = 1 \/ lastEnded[before] = place - 1
    <3>1. place # 1 => place - 1 \in 1..M
      BY <1>1
    <3>. QED  BY <3>1 DEF Ws!Full
  <2>. QED  BY <1>6, <2>1, <2>2
<1>9. ASSUME NEW t \in WsSession, lastEnded[t] # 0, lastEnded'[t] = 0 PROVE Ws!Full'
  <2>1. t # s /\ lastEnded[t] = M
    BY <1>1, <1>2, <1>3, <1>9
  <2>2. Ws!Full
    BY <1>1, <2>1 DEF WsPlacesTaken, Ws!Full
  <2>. QED  BY <1>8, <2>2
<1>10. WsPlacesTaken'
  <2>. SUFFICES ASSUME NEW t \in WsSession, NEW place \in 1..lastEnded'[t]
                PROVE  \E u \in WsSession : lastEnded'[u] = place
    BY DEF WsPlacesTaken
  <2>1. place \in 1..M /\ place =< lastEnded'[t]
    BY <1>1, <1>4
  <2>2. CASE place = 1
    BY <1>2, <2>2
  <2>3. CASE place # 1
    <3>1. t # s /\ lastEnded[t] # 0 /\ lastEnded[t] >= place - 1
          /\ (lastEnded[t] >= place \/ lastEnded[s] = 0 \/ lastEnded[s] >= place)
      BY <1>1, <1>2, <1>3, <2>1, <2>3
    <3>2. PICK before \in WsSession : lastEnded[before] = place - 1
      <4>1. place - 1 \in 1..lastEnded[t]
        BY <1>1, <1>3, <2>1, <2>3, <3>1
      <4>. QED  BY <1>1, <4>1 DEF WsPlacesTaken
    <3>3. CASE lastEnded[s] = 0
      BY <1>7, <2>1, <3>2, <3>3
    <3>4. CASE lastEnded[s] # 0
      <4>1. place \in 1..lastEnded[t] \/ place \in 1..lastEnded[s]
        BY <1>1, <1>3, <2>1, <3>1, <3>4
      <4>2. PICK at \in WsSession : lastEnded[at] = place
        BY <1>1, <4>1 DEF WsPlacesTaken
      <4>. QED  BY <1>6, <2>1, <3>2, <4>2
    <3>. QED  BY <3>3, <3>4
  <2>. QED  BY <2>2, <2>3
<1>11. \A t \in WsSession : lastEnded'[t] # 0 => lastEnded[t] # 0 \/ t = s
  BY <1>1, <1>2, <1>3
<1>. QED  BY <1>2, <1>5, <1>8, <1>9, <1>10, <1>11

LEMMA WsInviteKeeps == ASSUME WsBounds, WsIInv, NEW s \in WsSession, Ws!Invite(s) PROVE WsIInv'
<1>1. /\ phone[s] = "unborn" /\ phone' = [phone EXCEPT ![s] = "early"]
      /\ inbound' = inbound \cup {s} /\ callStatus' = [callStatus EXCEPT ![s] = "connecting"]
      /\ kept' = kept \cup {s} /\ ringSessionId' = s
      /\ UNCHANGED <<held, pending, activeSessionId, lastEnded, forwarded, replied, stopping, lost, unheld, events>>
  BY DEF Ws!Invite
<1>2. Ws!TypeOK'
  BY <1>1 DEF WsIInv, Ws!TypeOK
<1>3. /\ phone'[s] = "early" /\ callStatus'[s] = "connecting"
      /\ \A t \in WsSession \ {s} : phone'[t] = phone[t] /\ callStatus'[t] = callStatus[t]
  BY <1>1 DEF WsIInv, Ws!TypeOK
<1>4. "accept" \notin pending[s] /\ "hold" \notin pending[s] /\ "unhold" \notin pending[s] /\ s \notin held
  BY <1>1 DEF WsIInv, WsLives, WsLife
<1>5. WsLives'
  BY <1>1, <1>3, <1>4 DEF WsIInv, WsLives, WsLife
<1>6. \A t \in WsSession : WsComing(t)' => WsComing(t) /\ t # s
  BY <1>1, <1>3, <1>4 DEF WsComing
<1>7. Ws!Talking' \subseteq Ws!Talking
  BY <1>1, <1>3 DEF Ws!Talking
<1>8. WsComingKept' /\ WsOneTalks' /\ WsActiveTalks'
  BY <1>1, <1>6, <1>7 DEF WsIInv, WsComingKept, WsOneTalks, WsActiveTalks
<1>9. WsRingShown'
  BY <1>1, <1>3 DEF WsRingShown, WsRinging
<1>10. WsEndedShown'
  BY <1>1, <1>3, WsEndedSame
<1>. QED  BY <1>2, <1>5, <1>8, <1>9, <1>10 DEF WsIInv

LEMMA WsMakeCallKeeps == ASSUME WsBounds, WsIInv, NEW s \in WsSession, Ws!MakeCall(s) PROVE WsIInv'
<1>1. /\ phone[s] = "unborn" /\ phone' = [phone EXCEPT ![s] = "early"]
      /\ callStatus' = [callStatus EXCEPT ![s] = "connecting"]
      /\ Ws!HoldOthers(s, "none")
      /\ kept' = kept \cup {s} /\ activeSessionId' = s /\ ringSessionId' \in Ws!RingAfter(s)
      /\ UNCHANGED <<held, inbound, lastEnded, forwarded, replied, stopping, lost, events>>
  BY DEF Ws!MakeCall, Ws!CallStart
<1>2. /\ phone'[s] = "early" /\ callStatus'[s] = "connecting"
      /\ \A t \in WsSession \ {s} : phone'[t] = phone[t] /\ callStatus'[t] = callStatus[t]
  BY <1>1 DEF WsIInv, Ws!TypeOK
<1>3. /\ pending' \in [WsSession -> SUBSET {"accept", "hold", "unhold"}] /\ unheld' \subseteq WsSession
      /\ unheld \subseteq unheld'
      /\ pending'[s] = pending[s] \cup ({"none"} \cap {"accept", "unhold"})
      /\ \A t \in WsSession \ {s} :
           /\ pending'[t] = pending[t]
                \/ (pending'[t] = pending[t] \cup {"hold"} /\ phone[t] = "established" /\ t \notin held)
           /\ t \notin Ws!Talking'
           /\ WsComing(t)' => t \in unheld' /\ WsComing(t)
  BY <1>1, <1>2, WsHoldOthersKeeps
<1>4. /\ s \notin inbound /\ s \notin kept /\ s \notin held /\ pending'[s] = pending[s]
      /\ "accept" \notin pending[s] /\ "hold" \notin pending[s] /\ "unhold" \notin pending[s]
  BY <1>1, <1>3 DEF WsIInv, WsLives, WsLife
<1>5. WsLives'
  BY <1>1, <1>2, <1>3, <1>4 DEF WsIInv, WsLives, WsLife
<1>6. Ws!Talking' = {}
  <2>1. s \notin Ws!Talking' /\ Ws!Talking' \subseteq WsSession
    BY <1>1, <1>2 DEF Ws!Talking, WsIInv, Ws!TypeOK
  <2>. QED  BY <1>3, <2>1
<1>7. WsComingKept' /\ WsOneTalks' /\ WsActiveTalks'
  BY <1>1, <1>3, <1>6 DEF WsComingKept, WsOneTalks, WsActiveTalks
<1>8. WsRingShown' /\ ringSessionId' \in WsSession \cup {none}
  <2>1. \A t \in WsSession \ {s} : WsRinging(t)' <=> WsRinging(t)
    BY <1>1, <1>2 DEF WsRinging
  <2>2. ~WsRinging(s)'
    BY <1>1, <1>4 DEF WsRinging
  <2>. QED  BY <1>1, <2>1, <2>2, WsRingKept DEF WsIInv, Ws!TypeOK
<1>9. WsEndedShown'
  BY <1>1, <1>2, WsEndedSame
<1>10. Ws!TypeOK'
  BY <1>1, <1>3, <1>8 DEF WsIInv, Ws!TypeOK
<1>. QED  BY <1>5, <1>7, <1>8, <1>9, <1>10 DEF WsIInv

LEMMA WsAnswerKeeps == ASSUME WsBounds, WsIInv, NEW s \in WsSession, Ws!Answer(s) PROVE WsIInv'
<1>1. /\ s \in kept /\ s \in inbound /\ phone[s] = "early"
      /\ Ws!HoldOthers(s, "accept")
      /\ UNCHANGED <<phone, held, callStatus, inbound, kept, activeSessionId, ringSessionId,
                     lastEnded, forwarded, replied, stopping, lost, events>>
  BY DEF Ws!Answer
<1>2. /\ pending' \in [WsSession -> SUBSET {"accept", "hold", "unhold"}] /\ unheld' \subseteq WsSession
      /\ unheld \subseteq unheld'
      /\ pending'[s] = pending[s] \cup ({"accept"} \cap {"accept", "unhold"})
      /\ \A t \in WsSession \ {s} :
           /\ pending'[t] = pending[t]
                \/ (pending'[t] = pending[t] \cup {"hold"} /\ phone[t] = "established" /\ t \notin held)
           /\ t \notin Ws!Talking'
           /\ WsComing(t)' => t \in unheld' /\ WsComing(t)
  BY <1>1, WsHoldOthersKeeps
<1>3. WsLives'
  BY <1>1, <1>2 DEF WsIInv, WsLives, WsLife
<1>4. Ws!Talking' = {}
  <2>1. s \notin Ws!Talking' /\ Ws!Talking' \subseteq WsSession
    BY <1>1 DEF Ws!Talking, WsIInv, Ws!TypeOK
  <2>. QED  BY <1>2, <2>1
<1>5. WsComingKept' /\ WsOneTalks' /\ WsActiveTalks'
  BY <1>1, <1>2, <1>4 DEF WsComingKept, WsOneTalks, WsActiveTalks
<1>6. WsRingShown' /\ WsEndedShown'
  BY <1>1, WsRingSame, WsEndedSame DEF WsIInv, WsRinging
<1>7. Ws!TypeOK'
  BY <1>1, <1>2 DEF WsIInv, Ws!TypeOK
<1>. QED  BY <1>3, <1>5, <1>6, <1>7 DEF WsIInv

\* A call that begins to talk is the active one, and the only one, or those that talk are said to
\* be talked over.
LEMMA WsTalksKeeps ==
  ASSUME WsBounds, WsIInv, NEW s \in WsSession, WsComing(s), kept' = kept \cup {s}, activeSessionId' = s,
         unheld' = unheld \cup Ws!TalksOver(s),
         phone'[s] = "established",
         \A t \in WsSession \ {s} : /\ phone'[t] = phone[t] /\ pending'[t] = pending[t]
                                    /\ t \in held' <=> t \in held,
         UNCHANGED inbound, ~WsComing(s)'
  PROVE  WsComingKept' /\ WsOneTalks' /\ WsActiveTalks' /\ unheld' \subseteq WsSession
<1>1. ASSUME NEW t \in WsSession \ {s}
      PROVE  /\ t \in Ws!Talking' <=> t \in Ws!Talking
             /\ WsComing(t)' <=> WsComing(t)
  <2>1. t \in kept' <=> t \in kept
    OBVIOUS
  <2>. QED  BY <2>1 DEF Ws!Talking, WsComing
<1>2. Ws!Talking \subseteq WsSession /\ Ws!Talking' \subseteq WsSession
  BY DEF Ws!Talking, WsIInv, Ws!TypeOK
<1>3. unheld' \subseteq WsSession /\ unheld \subseteq unheld'
  BY <1>2 DEF Ws!TalksOver, WsIInv, Ws!TypeOK
<1>4. CASE s \in unheld
  <2>1. unheld' = unheld \cup Ws!Talking
    BY <1>4 DEF Ws!TalksOver
  <2>2. \A t \in Ws!Talking' : t \in unheld'
    BY <1>1, <1>2, <1>4, <2>1
  <2>3. WsOneTalks'
    BY <1>1, <1>3, <1>4, <2>1, <2>2 DEF WsIInv, WsOneTalks
  <2>. QED  BY <1>1, <1>3, <2>2, <2>3 DEF WsIInv, WsComingKept, WsActiveTalks
<1>5. CASE s \notin unheld
  <2>1. unheld' = unheld
    BY <1>5 DEF Ws!TalksOver
  <2>2. \A t \in WsSession \ unheld : t \in Ws!Talking \/ WsComing(t) => t = s
    BY <1>5 DEF WsIInv, WsOneTalks
  <2>3. \A t \in WsSession \ unheld' : t \in Ws!Talking' \/ WsComing(t)' => t = s
    BY <1>1, <2>1, <2>2
  <2>4. WsOneTalks' /\ WsActiveTalks'
    BY <1>2, <2>3 DEF WsOneTalks, WsActiveTalks
  <2>. QED  BY <1>1, <1>3, <2>4 DEF WsIInv, WsComingKept
<1>. QED  BY <1>4, <1>5

LEMMA WsAcceptedKeeps == ASSUME WsBounds, WsIInv, NEW s \in WsSession, Ws!Accepted(s) PROVE WsIInv'
<1>1. /\ phone[s] = "early" /\ (s \in inbound => "accept" \in pending[s])
      /\ phone' = [phone EXCEPT ![s] = "established"]
      /\ pending' = [pending EXCEPT ![s] = @ \ {"accept"}]
      /\ callStatus' = [callStatus EXCEPT ![s] = "connected"]
      /\ kept' = kept \cup {s} /\ activeSessionId' = s /\ ringSessionId' \in Ws!RingAfter(s)
      /\ lost' = lost \ {s} /\ unheld' = unheld \cup Ws!TalksOver(s)
      /\ UNCHANGED <<held, inbound, lastEnded, forwarded, replied, stopping, events>>
  BY DEF Ws!Accepted, Ws!CallStart
<1>2. /\ phone'[s] = "established" /\ callStatus'[s] = "connected" /\ pending'[s] = pending[s] \ {"accept"}
      /\ \A t \in WsSession \ {s} : /\ phone'[t] = phone[t] /\ callStatus'[t] = callStatus[t]
                                     /\ pending'[t] = pending[t]
  BY <1>1 DEF WsIInv, Ws!TypeOK
<1>3. WsComing(s) /\ ~WsComing(s)' /\ s \notin held /\ "hold" \notin pending[s] /\ "unhold" \notin pending[s]
  BY <1>1, <1>2 DEF WsComing, WsIInv, WsLives, WsLife
<1>4. WsComingKept' /\ WsOneTalks' /\ WsActiveTalks' /\ unheld' \subseteq WsSession
  BY <1>1, <1>2, <1>3, WsTalksKeeps
<1>5. WsLives'
  BY <1>1, <1>2, <1>3 DEF WsIInv, WsLives, WsLife
<1>6. WsRingShown' /\ ringSessionId' \in WsSession \cup {none}
  <2>1. (\A t \in WsSession \ {s} : WsRinging(t)' <=> WsRinging(t)) /\ ~WsRinging(s)'
    BY <1>1, <1>2 DEF WsRinging
  <2>. QED  BY <1>1, <2>1, WsRingKept DEF WsIInv, Ws!TypeOK
<1>7. WsEndedShown'
  BY <1>1, <1>2, WsEndedSame
<1>8. Ws!TypeOK'
  BY <1>1, <1>4, <1>6 DEF WsIInv, Ws!TypeOK
<1>. QED  BY <1>4, <1>5, <1>6, <1>7, <1>8 DEF WsIInv

LEMMA WsReplacedKeeps ==
  ASSUME WsBounds, WsIInv, NEW s \in WsSession, NEW new \in WsSession, Ws!Replaced(s, new) PROVE WsIInv'
<1>1. /\ phone[s] = "established" /\ phone[new] = "unborn"
      /\ phone' = [phone EXCEPT ![new] = "established"]
      /\ callStatus' = [callStatus EXCEPT ![s] = "replaced", ![new] = "connected"]
      /\ inbound' = inbound \cup {new} /\ kept' = kept \cup {new} /\ unheld' = unheld \cup {new}
      /\ UNCHANGED <<held, pending, activeSessionId, ringSessionId, lastEnded, forwarded, replied, stopping, lost>>
      /\ events' \in 0..WsMaxEvents
  BY DEF Ws!Replaced, Ws!Counted, WsBounds, WsIInv, Ws!TypeOK
<1>2. /\ phone'[new] = "established" /\ callStatus'[new] = "connected" /\ s # new
      /\ callStatus'[s] = "replaced"
      /\ \A t \in WsSession \ {new} : phone'[t] = phone[t]
      /\ \A t \in WsSession \ {s, new} : callStatus'[t] = callStatus[t]
  BY <1>1 DEF WsIInv, Ws!TypeOK
<1>3. "accept" \notin pending[new] /\ "hold" \notin pending[new] /\ "unhold" \notin pending[new] /\ new \notin held
      /\ callStatus[s] # "connecting" /\ callStatus[new] # "connecting"
  BY <1>1 DEF WsIInv, WsLives, WsLife
<1>4. WsLives'
  <2>1. ASSUME NEW t \in WsSession, WsLife(t) PROVE WsLife(t)'
    <3>1. CASE t = new
      BY <1>1, <1>2, <1>3, <2>1, <3>1 DEF WsLife
    <3>2. CASE t # new
      BY <1>1, <1>2, <2>1, <3>2 DEF WsLife
    <3>. QED  BY <3>1, <3>2
  <2>. QED  BY <2>1 DEF WsIInv, WsLives
<1>5. /\ \A t \in WsSession : WsComing(t)' => WsComing(t) /\ t # new
      /\ Ws!Talking' \subseteq Ws!Talking \cup {new}
  BY <1>1, <1>2, <1>3 DEF WsComing, Ws!Talking
<1>6. WsComingKept' /\ WsOneTalks' /\ WsActiveTalks'
  BY <1>1, <1>5 DEF WsIInv, WsComingKept, WsOneTalks, WsActiveTalks
<1>7. WsRingShown'
  BY <1>1, <1>2, <1>3, WsRingSame DEF WsRinging
<1>8. WsEndedShown'
  BY <1>1, <1>2, WsEndedSame
<1>9. Ws!TypeOK'
  BY <1>1 DEF WsIInv, Ws!TypeOK
<1>. QED  BY <1>4, <1>6, <1>7, <1>8, <1>9 DEF WsIInv

LEMMA WsHoldKeeps == ASSUME WsBounds, WsIInv, NEW s \in WsSession, Ws!Hold(s) PROVE WsIInv'
<1>1. /\ s \in kept /\ s \notin held /\ phone[s] = "established"
      /\ pending' = [pending EXCEPT ![s] = @ \cup {"hold"}]
      /\ UNCHANGED <<phone, held, callStatus, inbound, kept, activeSessionId, ringSessionId,
                     lastEnded, forwarded, replied, stopping, lost, unheld, events>>
  BY DEF Ws!Hold
<1>2. /\ pending'[s] = pending[s] \cup {"hold"}
      /\ \A t \in WsSession \ {s} : pending'[t] = pending[t]
  BY <1>1 DEF WsIInv, Ws!TypeOK
<1>3. WsLives'
  BY <1>1, <1>2 DEF WsIInv, WsLives, WsLife
<1>4. (\A t \in WsSession : WsComing(t)' => WsComing(t)) /\ Ws!Talking' \subseteq Ws!Talking
  <2>1. \A t \in WsSession : "hold" \in pending[t] => "hold" \in pending'[t]
    BY <1>2
  <2>2. Ws!Talking' \subseteq Ws!Talking
    BY <1>1, <2>1 DEF Ws!Talking, WsIInv, Ws!TypeOK
  <2>. QED  BY <1>1, <1>2, <2>2 DEF WsComing
<1>5. WsComingKept' /\ WsOneTalks' /\ WsActiveTalks'
  BY <1>1, <1>4 DEF WsIInv, WsComingKept, WsOneTalks, WsActiveTalks
<1>6. WsRingShown' /\ WsEndedShown'
  BY <1>1, WsRingSame, WsEndedSame DEF WsIInv, WsRinging
<1>7. Ws!TypeOK'
  BY <1>1 DEF WsIInv, Ws!TypeOK
<1>. QED  BY <1>3, <1>5, <1>6, <1>7 DEF WsIInv

LEMMA WsUnholdKeeps == ASSUME WsBounds, WsIInv, NEW s \in WsSession, Ws!Unhold(s) PROVE WsIInv'
<1>1. /\ s \in kept /\ s \in held
      /\ Ws!HoldOthers(s, "unhold")
      /\ UNCHANGED <<phone, held, callStatus, inbound, kept, activeSessionId, ringSessionId,
                     lastEnded, forwarded, replied, stopping, lost, events>>
  BY DEF Ws!Unhold
<1>2. /\ pending' \in [WsSession -> SUBSET {"accept", "hold", "unhold"}] /\ unheld' \subseteq WsSession
      /\ unheld \subseteq unheld'
      /\ pending'[s] = pending[s] \cup ({"unhold"} \cap {"accept", "unhold"})
      /\ \A t \in WsSession \ {s} :
           /\ pending'[t] = pending[t]
                \/ (pending'[t] = pending[t] \cup {"hold"} /\ phone[t] = "established" /\ t \notin held)
           /\ t \notin Ws!Talking'
           /\ WsComing(t)' => t \in unheld' /\ WsComing(t)
  BY <1>1, WsHoldOthersKeeps
<1>3. phone[s] = "established" /\ "hold" \notin pending[s]
  BY <1>1 DEF WsIInv, WsLives, WsLife
<1>4. WsLives'
  BY <1>1, <1>2, <1>3 DEF WsIInv, WsLives, WsLife
<1>5. Ws!Talking' = {}
  <2>1. s \notin Ws!Talking' /\ Ws!Talking' \subseteq WsSession
    BY <1>1 DEF Ws!Talking, WsIInv, Ws!TypeOK
  <2>. QED  BY <1>2, <2>1
<1>6. WsComingKept' /\ WsOneTalks' /\ WsActiveTalks'
  BY <1>1, <1>2, <1>5 DEF WsComingKept, WsOneTalks, WsActiveTalks
<1>7. WsRingShown' /\ WsEndedShown'
  BY <1>1, WsRingSame, WsEndedSame DEF WsIInv, WsRinging
<1>8. Ws!TypeOK'
  BY <1>1, <1>2 DEF WsIInv, Ws!TypeOK
<1>. QED  BY <1>4, <1>6, <1>7, <1>8 DEF WsIInv

LEMMA WsHoldDoneKeeps == ASSUME WsBounds, WsIInv, NEW s \in WsSession, Ws!HoldDone(s) PROVE WsIInv'
<1>1. /\ "hold" \in pending[s] /\ pending' = [pending EXCEPT ![s] = @ \ {"hold"}]
      /\ UNCHANGED <<phone, inbound, kept, activeSessionId, ringSessionId, lastEnded, forwarded, replied, stopping, lost>>
  BY DEF Ws!HoldDone
<1>2. /\ pending'[s] = pending[s] \ {"hold"}
      /\ \A t \in WsSession \ {s} : pending'[t] = pending[t]
      /\ pending' \in [WsSession -> SUBSET {"accept", "hold", "unhold"}]
  BY <1>1 DEF WsIInv, Ws!TypeOK
<1>3. /\ phone[s] = "established" /\ s \notin held
      /\ "unhold" \notin pending[s] /\ callStatus[s] # "connecting"
  BY <1>1 DEF WsIInv, WsLives, WsLife
<1>4. \A t \in WsSession : WsComing(t)' <=> WsComing(t)
  BY <1>1, <1>2 DEF WsComing
<1>5. Ws!Talking \subseteq WsSession /\ Ws!Talking' \subseteq WsSession
  BY <1>1 DEF Ws!Talking, WsIInv, Ws!TypeOK
<1>6. CASE /\ held' = held \cup {s}
           /\ callStatus' = [callStatus EXCEPT ![s] = "onHold"]
           /\ unheld' = unheld \ {s}
           /\ UNCHANGED events
  <2>1. /\ callStatus'[s] = "onHold"
        /\ \A t \in WsSession \ {s} : callStatus'[t] = callStatus[t]
    BY <1>6 DEF WsIInv, Ws!TypeOK
  <2>2. WsLives'
    BY <1>1, <1>2, <1>3, <1>6, <2>1 DEF WsIInv, WsLives, WsLife
  <2>3. s \notin Ws!Talking' /\ Ws!Talking' \subseteq Ws!Talking /\ ~WsComing(s)
    <3>1. s \notin Ws!Talking' /\ ~WsComing(s)
      BY <1>3, <1>6 DEF Ws!Talking, WsComing
    <3>2. ASSUME NEW t \in WsSession \ {s}, t \in Ws!Talking' PROVE t \in Ws!Talking
      BY <1>1, <1>2, <1>6, <3>2 DEF Ws!Talking
    <3>. QED  BY <1>5, <3>1, <3>2
  <2>4. WsComingKept' /\ WsOneTalks' /\ WsActiveTalks'
    BY <1>1, <1>4, <1>6, <2>3 DEF WsIInv, WsComingKept, WsOneTalks, WsActiveTalks
  <2>5. WsRingShown' /\ WsEndedShown'
    BY <1>1, <1>3, <2>1, WsRingSame, WsEndedSame DEF WsIInv, WsRinging
  <2>6. Ws!TypeOK'
    BY <1>1, <1>2, <1>6 DEF WsIInv, Ws!TypeOK
  <2>. QED  BY <2>2, <2>4, <2>5, <2>6 DEF WsIInv
<1>7. CASE /\ Ws!Counted
           /\ unheld' = unheld \cup {s} \cup Ws!Talking
           /\ UNCHANGED <<held, callStatus>>
  <2>1. WsLives'
    BY <1>1, <1>2, <1>7 DEF WsIInv, WsLives, WsLife
  <2>2. Ws!Talking' \subseteq Ws!Talking \cup {s}
    <3>1. ASSUME NEW t \in WsSession \ {s}, t \in Ws!Talking' PROVE t \in Ws!Talking
      BY <1>1, <1>2, <1>7, <3>1 DEF Ws!Talking
    <3>. QED  BY <1>5, <3>1
  <2>3. WsComingKept' /\ WsOneTalks' /\ WsActiveTalks'
    BY <1>1, <1>4, <1>5, <1>7, <2>2 DEF WsIInv, WsComingKept, WsOneTalks, WsActiveTalks
  <2>4. WsRingShown' /\ WsEndedShown'
    BY <1>1, <1>7, WsRingSame, WsEndedSame DEF WsIInv, WsRinging
  <2>5. Ws!TypeOK'
    BY <1>1, <1>2, <1>5, <1>7 DEF WsIInv, Ws!TypeOK, Ws!Counted, WsBounds
  <2>. QED  BY <2>1, <2>3, <2>4, <2>5 DEF WsIInv
<1>. QED  BY <1>6, <1>7 DEF Ws!HoldDone

LEMMA WsUnheldKeeps == ASSUME WsBounds, WsIInv, NEW s \in WsSession, Ws!Unheld(s) PROVE WsIInv'
<1>1. /\ "unhold" \in pending[s] /\ pending' = [pending EXCEPT ![s] = @ \ {"unhold"}]
      /\ held' = held \ {s}
      /\ callStatus' = [callStatus EXCEPT ![s] = "connected"]
      /\ kept' = kept \cup {s} /\ activeSessionId' = s /\ ringSessionId' \in Ws!RingAfter(s)
      /\ lost' = lost \ {s} /\ unheld' = unheld \cup Ws!TalksOver(s)
      /\ UNCHANGED <<phone, inbound, lastEnded, forwarded, replied, stopping, events>>
  BY DEF Ws!Unheld, Ws!CallStart
<1>2. /\ callStatus'[s] = "connected" /\ pending'[s] = pending[s] \ {"unhold"}
      /\ \A t \in WsSession \ {s} : callStatus'[t] = callStatus[t] /\ pending'[t] = pending[t]
  BY <1>1 DEF WsIInv, Ws!TypeOK
<1>3. /\ phone[s] = "established" /\ "hold" \notin pending[s]
      /\ WsComing(s) /\ ~WsComing(s)'
  BY <1>1, <1>2 DEF WsComing, WsIInv, WsLives, WsLife
<1>4. WsComingKept' /\ WsOneTalks' /\ WsActiveTalks' /\ unheld' \subseteq WsSession
  BY <1>1, <1>2, <1>3, WsTalksKeeps
<1>5. WsLives'
  BY <1>1, <1>2, <1>3 DEF WsIInv, WsLives, WsLife
<1>6. WsRingShown' /\ ringSessionId' \in WsSession \cup {none}
  <2>1. (\A t \in WsSession \ {s} : WsRinging(t)' <=> WsRinging(t)) /\ ~WsRinging(s)'
    BY <1>1, <1>2 DEF WsRinging
  <2>. QED  BY <1>1, <2>1, WsRingKept DEF WsIInv, Ws!TypeOK
<1>7. WsEndedShown'
  BY <1>1, WsEndedSame
<1>8. Ws!TypeOK'
  BY <1>1, <1>4, <1>6 DEF WsIInv, Ws!TypeOK
<1>. QED  BY <1>4, <1>5, <1>6, <1>7, <1>8 DEF WsIInv

LEMMA WsUnholdFailsKeeps == ASSUME WsBounds, WsIInv, NEW s \in WsSession, Ws!UnholdFails(s) PROVE WsIInv'
<1>1. /\ "unhold" \in pending[s] /\ pending' = [pending EXCEPT ![s] = @ \ {"unhold"}]
      /\ UNCHANGED <<phone, held, callStatus, inbound, kept, activeSessionId, ringSessionId,
                     lastEnded, forwarded, replied, stopping, lost, unheld>>
      /\ events' \in 0..WsMaxEvents
  BY DEF Ws!UnholdFails, Ws!Counted, WsBounds, WsIInv, Ws!TypeOK
<1>2. /\ pending'[s] = pending[s] \ {"unhold"}
      /\ \A t \in WsSession \ {s} : pending'[t] = pending[t]
  BY <1>1 DEF WsIInv, Ws!TypeOK
<1>3. s \in held
  BY <1>1 DEF WsIInv, WsLives, WsLife
<1>4. WsLives'
  BY <1>1, <1>2 DEF WsIInv, WsLives, WsLife
<1>5. (\A t \in WsSession : WsComing(t)' => WsComing(t)) /\ Ws!Talking' = Ws!Talking
  <2>1. \A t \in WsSession : "hold" \in pending'[t] <=> "hold" \in pending[t]
    BY <1>2
  <2>2. Ws!Talking' = Ws!Talking
    BY <1>1, <2>1 DEF Ws!Talking, WsIInv, Ws!TypeOK
  <2>. QED  BY <1>1, <1>2, <2>2 DEF WsComing
<1>6. WsComingKept' /\ WsOneTalks' /\ WsActiveTalks'
  BY <1>1, <1>5 DEF WsIInv, WsComingKept, WsOneTalks, WsActiveTalks
<1>7. WsRingShown' /\ WsEndedShown'
  BY <1>1, WsRingSame, WsEndedSame DEF WsIInv, WsRinging
<1>8. Ws!TypeOK'
  BY <1>1 DEF WsIInv, Ws!TypeOK
<1>. QED  BY <1>4, <1>6, <1>7, <1>8 DEF WsIInv

LEMMA WsMuteKeeps == ASSUME WsBounds, WsIInv, NEW s \in WsSession, Ws!Mute(s) PROVE WsIInv'
<1>1. PICK mute \in {"onMute", "connected"} : callStatus' = [callStatus EXCEPT ![s] = mute]
  BY DEF Ws!Mute
<1>2. /\ phone[s] = "established"
      /\ UNCHANGED <<phone, held, pending, inbound, kept, activeSessionId, ringSessionId, lastEnded,
                     forwarded, replied, stopping, lost, unheld>>
      /\ events' \in 0..WsMaxEvents
  BY DEF Ws!Mute, Ws!session, Ws!Counted, WsBounds, WsIInv, Ws!TypeOK
<1>3. /\ callStatus'[s] = mute /\ callStatus[s] # "connecting"
      /\ \A t \in WsSession \ {s} : callStatus'[t] = callStatus[t]
  BY <1>1, <1>2 DEF WsIInv, Ws!TypeOK, WsLives, WsLife
<1>4. WsLives'
  BY <1>1, <1>2, <1>3 DEF WsIInv, WsLives, WsLife
<1>5. (\A t \in WsSession : WsComing(t)' <=> WsComing(t)) /\ Ws!Talking' = Ws!Talking
  BY <1>2 DEF WsComing, Ws!Talking
<1>6. WsComingKept' /\ WsOneTalks' /\ WsActiveTalks'
  BY <1>2, <1>5 DEF WsIInv, WsComingKept, WsOneTalks, WsActiveTalks
<1>7. WsRingShown' /\ WsEndedShown'
  BY <1>2, <1>3, WsRingSame, WsEndedSame DEF WsIInv, WsRinging
<1>8. Ws!TypeOK'
  BY <1>1, <1>2 DEF WsIInv, Ws!TypeOK
<1>. QED  BY <1>4, <1>6, <1>7, <1>8 DEF WsIInv

--------------------
(* Calls end. *)

\* callEnd: the active session is another one that is kept, or none.
LEMMA WsActiveAfterType ==
  ASSUME Ws!TypeOK, NEW s \in WsSession, Ws!CallEnd(s)
  PROVE  /\ activeSessionId' \in WsSession \cup {none}
         /\ activeSessionId # s => activeSessionId' = activeSessionId
         /\ kept' = kept \ {s}
<1>1. CASE activeSessionId # s
  BY <1>1 DEF Ws!CallEnd, Ws!TypeOK
<1>2. CASE activeSessionId = s
  <2>. DEFINE S == {t \in kept' : callStatus'[t] = "onHold"}
  <2>1. activeSessionId' \in Ws!OneOf(S) /\ kept' = kept \ {s}
    BY <1>2 DEF Ws!CallEnd
  <2>2. S \in SUBSET WsSession
    BY <2>1 DEF Ws!TypeOK
  <2>. HIDE DEF S
  <2>. QED  BY <1>2, <2>1, <2>2, WsOneOfType
<1>. QED  BY <1>1, <1>2

\* Nobody begins to talk, and who ends does not talk any more.
LEMMA WsFewerTalk ==
  ASSUME WsIInv, UNCHANGED stopping, unheld \subseteq unheld', unheld' \subseteq WsSession,
         \A t \in WsSession : WsComing(t)' => WsComing(t) /\ t \in kept' \cup unheld',
         Ws!Talking' \subseteq Ws!Talking,
         \A t \in Ws!Talking' \ unheld' : activeSessionId = t => activeSessionId' = t
  PROVE  WsComingKept' /\ WsOneTalks' /\ WsActiveTalks'
<1>1. \A t \in WsSession \ unheld' : t \in Ws!Talking' \/ WsComing(t)' => t \in Ws!Talking \/ WsComing(t)
  OBVIOUS
<1>2. WsOneTalks'
  BY <1>1 DEF WsIInv, WsOneTalks
<1>. QED  BY <1>2 DEF WsIInv, WsComingKept, WsActiveTalks

\* A call that ends is in the list, if it was ours.
LEMMA WsCallEndEnded ==
  ASSUME WsBounds, WsIInv, NEW s \in WsSession, Ws!CallEnd(s), UNCHANGED forwarded,
         phone[s] \in {"early", "established"},
         phone'[s] = phone[s] \/ phone'[s] = IF phone[s] = "established" THEN "ended" ELSE "over",
         \A t \in WsSession \ {s} : phone'[t] = phone[t]
  PROVE  WsEndedShown' /\ lastEnded' \in [WsSession -> 0..WsMaxEnded]
<1>1. CASE Ws!OurOwn(s)
  <2>1. lastEnded' = Ws!EndedAfter(s)
    BY <1>1 DEF Ws!CallEnd
  <2>2. /\ lastEnded' \in [WsSession -> 0..WsMaxEnded]
        /\ lastEnded'[s] = 1
        /\ \A t \in WsSession : lastEnded'[t] # 0 => lastEnded[t] # 0 \/ t = s
        /\ \A t \in WsSession : lastEnded[t] # 0 => lastEnded'[t] # 0 \/ Ws!Full'
        /\ Ws!Full => Ws!Full'
        /\ WsPlacesTaken'
    BY <2>1, WsEndedAfterType
  <2>3. phone[s] = "established" \/ s \in forwarded
    BY <1>1 DEF Ws!OurOwn, Ws!IsReplied
  <2>4. \A t \in WsSession : phone'[t] = "ended" => lastEnded'[t] # 0 \/ Ws!Full'
    BY <2>2 DEF WsIInv, WsEndedShown
  <2>5. \A t \in WsSession : lastEnded'[t] # 0 => phone'[t] \in {"established", "ended"} \/ t \in forwarded
    BY <2>2, <2>3 DEF WsIInv, WsEndedShown
  <2>. QED  BY <2>2, <2>4, <2>5 DEF WsEndedShown
<1>2. CASE ~Ws!OurOwn(s)
  <2>1. UNCHANGED lastEnded /\ phone[s] # "established"
    BY <1>2 DEF Ws!CallEnd, Ws!OurOwn
  <2>. QED  BY <2>1, WsEndedSame DEF WsIInv, Ws!TypeOK
<1>. QED  BY <1>1, <1>2

LEMMA WsOverKeeps == ASSUME WsBounds, WsIInv, NEW s \in WsSession, Ws!Over(s) PROVE WsIInv'
<1>1. /\ s \in Ws!Alive /\ Ws!Die({s}) /\ Ws!CallEnd(s) /\ lost' = lost \ {s}
      /\ stopping' = (stopping /\ Ws!Alive # {s})
      /\ UNCHANGED <<held, inbound, forwarded, replied, unheld, events>>
  BY DEF Ws!Over
<1>2. /\ phone'[s] = IF phone[s] = "established" THEN "ended" ELSE "over"
      /\ pending'[s] = {} /\ callStatus'[s] = "finished"
      /\ \A t \in WsSession \ {s} : /\ phone'[t] = phone[t] /\ pending'[t] = pending[t]
                                     /\ callStatus'[t] = callStatus[t]
  BY <1>1 DEF Ws!Die, Ws!Finish
<1>3. /\ kept' = kept \ {s} /\ activeSessionId' \in WsSession \cup {none}
      /\ activeSessionId # s => activeSessionId' = activeSessionId
  BY <1>1, WsActiveAfterType DEF WsIInv
<1>4. phone[s] \in {"early", "established"}
  BY <1>1 DEF Ws!Alive
<1>5. WsLives'
  BY <1>1, <1>2, <1>3, <1>4 DEF WsIInv, WsLives, WsLife
<1>6. ~WsComing(s)' /\ s \notin Ws!Talking' /\ \A t \in WsSession \ {s} : WsComing(t)' <=> WsComing(t)
  BY <1>1, <1>2, <1>3 DEF WsComing, Ws!Talking
<1>7. Ws!Talking' \subseteq Ws!Talking /\ Ws!Talking' \subseteq WsSession \ {s}
  <2>1. ASSUME NEW t \in Ws!Talking' PROVE t \in Ws!Talking /\ t \in WsSession \ {s}
    <3>1. t \in kept /\ t # s /\ t \in WsSession
      BY <1>3, <1>6 DEF Ws!Talking, WsIInv, Ws!TypeOK
    <3>2. phone'[t] = phone[t] /\ pending'[t] = pending[t]
      BY <1>2, <3>1
    <3>. QED  BY <1>1, <3>1, <3>2 DEF Ws!Talking
  <2>. QED  BY <2>1
\* The last one that stops leaves none.
<1>8. ASSUME stopping' # stopping PROVE WsRingShown' /\ WsActiveTalks' /\ WsOneTalks'
  <2>1. Ws!Alive = {s} /\ kept \subseteq WsSession
    BY <1>1, <1>8 DEF WsIInv, Ws!TypeOK
  <2>2. kept \subseteq {s}
    BY <2>1 DEF WsIInv, WsLives, WsLife, Ws!Alive
  <2>3. kept' = {}
    BY <1>3, <2>2
  <2>4. \A t \in WsSession : WsComing(t)' => WsComing(t) /\ t \in unheld
    BY <1>1, <1>6, <2>2, <2>3 DEF WsIInv, WsComingKept
  <2>. QED  BY <1>1, <2>3, <2>4 DEF WsRingShown, WsRinging, WsActiveTalks, Ws!Talking, WsOneTalks
<1>9. WsComingKept' /\ WsOneTalks' /\ WsActiveTalks'
  <2>1. unheld' \subseteq WsSession
    BY <1>1 DEF WsIInv, Ws!TypeOK
  <2>2. \A t \in WsSession : WsComing(t)' => WsComing(t) /\ t \in kept' \cup unheld'
    BY <1>1, <1>3, <1>6 DEF WsIInv, WsComingKept
  <2>3. WsComingKept'
    BY <1>1, <2>2 DEF WsComingKept
  <2>4. CASE stopping' = stopping
    BY <1>1, <1>3, <1>7, <2>1, <2>2, <2>4, WsFewerTalk
  <2>. QED  BY <1>8, <2>3, <2>4
<1>10. WsRingShown' /\ ringSessionId' \in WsSession \cup {none}
  <2>1. (\A t \in WsSession \ {s} : WsRinging(t)' <=> WsRinging(t)) /\ ~WsRinging(s)'
    BY <1>1, <1>2, <1>3 DEF WsRinging
  <2>. QED  BY <1>1, <1>3, <1>8, <2>1, WsRingKept, WsRingAfterType DEF Ws!CallEnd, WsIInv, Ws!TypeOK
<1>11. WsEndedShown' /\ lastEnded' \in [WsSession -> 0..WsMaxEnded]
  BY <1>1, <1>2, <1>4, WsCallEndEnded
<1>12. Ws!TypeOK'
  <2>1. phone' \in [WsSession -> {"unborn", "early", "established", "ended", "over"}]
    BY <1>1 DEF Ws!Die, WsIInv, Ws!TypeOK
  <2>2. pending' \in [WsSession -> SUBSET {"accept", "hold", "unhold"}]
    BY <1>1 DEF Ws!Die, WsIInv, Ws!TypeOK
  <2>3. callStatus' \in [WsSession -> {"none", "connecting", "connected", "onHold", "onMute",
                                       "finished", "replaced"}]
    BY <1>1 DEF Ws!Die, Ws!Finish, WsIInv, Ws!TypeOK
  <2>. QED  BY <1>1, <1>3, <1>10, <1>11, <2>1, <2>2, <2>3 DEF WsIInv, Ws!TypeOK
<1>. QED  BY <1>5, <1>9, <1>10, <1>11, <1>12 DEF WsIInv

LEMMA WsForwardKeeps == ASSUME WsBounds, WsIInv, NEW s \in WsSession, Ws!Forward(s) PROVE WsIInv'
<1>1. /\ forwarded' = forwarded \cup {s} /\ events' \in 0..WsMaxEvents
      /\ UNCHANGED <<phone, held, pending, callStatus, inbound, kept, activeSessionId, ringSessionId,
                     lastEnded, replied, stopping, lost, unheld>>
  BY DEF Ws!Forward, Ws!session, Ws!Counted, WsBounds, WsIInv, Ws!TypeOK
<1>2. (\A t \in WsSession : WsComing(t)' <=> WsComing(t)) /\ Ws!Talking' = Ws!Talking
  BY <1>1 DEF WsComing, Ws!Talking
<1>3. WsComingKept' /\ WsOneTalks' /\ WsActiveTalks' /\ WsLives'
  BY <1>1, <1>2 DEF WsIInv, WsComingKept, WsOneTalks, WsActiveTalks, WsLives, WsLife
<1>4. WsRingShown' /\ WsEndedShown'
  BY <1>1, WsRingSame, WsEndedSame DEF WsRinging
<1>5. Ws!TypeOK'
  BY <1>1 DEF WsIInv, Ws!TypeOK
<1>. QED  BY <1>3, <1>4, <1>5 DEF WsIInv

LEMMA WsReplyKeeps == ASSUME WsBounds, WsIInv, NEW s \in WsSession, Ws!Reply(s) PROVE WsIInv'
<1>1. /\ replied' = replied \cup {s} /\ events' \in 0..WsMaxEvents
      /\ UNCHANGED <<phone, held, pending, callStatus, inbound, kept, activeSessionId, ringSessionId,
                     lastEnded, forwarded, stopping, lost, unheld>>
  BY DEF Ws!Reply, Ws!session, Ws!Counted, WsBounds, WsIInv, Ws!TypeOK
<1>2. (\A t \in WsSession : WsComing(t)' <=> WsComing(t)) /\ Ws!Talking' = Ws!Talking
  BY <1>1 DEF WsComing, Ws!Talking
<1>3. WsComingKept' /\ WsOneTalks' /\ WsActiveTalks' /\ WsLives'
  BY <1>1, <1>2 DEF WsIInv, WsComingKept, WsOneTalks, WsActiveTalks, WsLives, WsLife
<1>4. WsRingShown' /\ WsEndedShown'
  BY <1>1, WsRingSame, WsEndedSame DEF WsRinging
<1>5. Ws!TypeOK'
  BY <1>1 DEF WsIInv, Ws!TypeOK
<1>. QED  BY <1>3, <1>4, <1>5 DEF WsIInv

LEMMA WsEndHereKeeps == ASSUME WsBounds, WsIInv, NEW s \in WsSession, Ws!EndHere(s) PROVE WsIInv'
<1>1. /\ s \in Ws!Alive /\ Ws!CallEnd(s)
      /\ lost' = lost \cup {s} /\ unheld' = unheld \cup {s}
      /\ UNCHANGED <<phone, held, pending, callStatus, inbound, forwarded, replied, stopping>>
      /\ events' \in 0..WsMaxEvents
  BY DEF Ws!EndHere, Ws!session, Ws!Counted, WsBounds, WsIInv, Ws!TypeOK
<1>2. /\ kept' = kept \ {s} /\ activeSessionId' \in WsSession \cup {none}
      /\ activeSessionId # s => activeSessionId' = activeSessionId
  BY <1>1, WsActiveAfterType DEF WsIInv
<1>3. phone[s] \in {"early", "established"}
  BY <1>1 DEF Ws!Alive
<1>4. WsLives'
  BY <1>1, <1>2, <1>3 DEF WsIInv, WsLives, WsLife
<1>5. /\ \A t \in WsSession : WsComing(t)' <=> WsComing(t)
      /\ Ws!Talking' \subseteq Ws!Talking \ {s}
  BY <1>1, <1>2 DEF WsComing, Ws!Talking
<1>6. WsComingKept' /\ WsOneTalks' /\ WsActiveTalks'
  <2>1. unheld' \subseteq WsSession
    BY <1>1 DEF WsIInv, Ws!TypeOK
  <2>2. \A t \in WsSession : WsComing(t)' => WsComing(t) /\ t \in kept' \cup unheld'
    BY <1>1, <1>2, <1>5 DEF WsIInv, WsComingKept
  <2>. QED  BY <1>1, <1>2, <1>5, <2>1, <2>2, WsFewerTalk
<1>7. WsRingShown' /\ ringSessionId' \in WsSession \cup {none}
  <2>1. (\A t \in WsSession \ {s} : WsRinging(t)' <=> WsRinging(t)) /\ ~WsRinging(s)'
    BY <1>1, <1>2 DEF WsRinging
  <2>. QED  BY <1>1, <1>2, <2>1, WsRingKept DEF Ws!CallEnd, WsIInv, Ws!TypeOK
<1>8. WsEndedShown' /\ lastEnded' \in [WsSession -> 0..WsMaxEnded]
  BY <1>1, <1>3, WsCallEndEnded
<1>9. Ws!TypeOK'
  BY <1>1, <1>2, <1>7, <1>8 DEF WsIInv, Ws!TypeOK
<1>. QED  BY <1>4, <1>6, <1>7, <1>8, <1>9 DEF WsIInv

LEMMA WsRemoveSessionKeeps == ASSUME WsBounds, WsIInv, NEW s \in WsSession, Ws!RemoveSession(s) PROVE WsIInv'
<1>1. /\ phone[s] = "early" /\ s \in inbound /\ events' \in 0..WsMaxEvents
      /\ pending' = [pending EXCEPT ![s] = @ \ {"accept"}]
      /\ kept' = kept \ {s} /\ lost' = lost \cup {s} /\ unheld' = unheld \cup {s}
      /\ UNCHANGED <<phone, held, callStatus, inbound, activeSessionId, ringSessionId, lastEnded,
                     forwarded, replied, stopping>>
  BY DEF Ws!RemoveSession, Ws!Counted, WsBounds, WsIInv, Ws!TypeOK
<1>2. /\ pending'[s] = pending[s] \ {"accept"}
      /\ \A t \in WsSession \ {s} : pending'[t] = pending[t]
  BY <1>1 DEF WsIInv, Ws!TypeOK
<1>3. WsLives'
  BY <1>1, <1>2 DEF WsIInv, WsLives, WsLife
<1>4. \A t \in WsSession : WsComing(t)' => WsComing(t)
  BY <1>1, <1>2 DEF WsComing
<1>5. Ws!Talking' \subseteq Ws!Talking
  <2>1. ASSUME NEW t \in Ws!Talking' PROVE t \in Ws!Talking
    <3>1. t \in kept /\ t \in WsSession /\ t # s
      BY <1>1 DEF Ws!Talking, WsIInv, Ws!TypeOK
    <3>. QED  BY <1>1, <1>2, <3>1 DEF Ws!Talking
  <2>. QED  BY <2>1
<1>6. WsComingKept' /\ WsOneTalks' /\ WsActiveTalks'
  <2>1. unheld' \subseteq WsSession
    BY <1>1 DEF WsIInv, Ws!TypeOK
  <2>2. \A t \in WsSession : WsComing(t)' => WsComing(t) /\ t \in kept' \cup unheld'
    BY <1>1, <1>4 DEF WsIInv, WsComingKept
  <2>. QED  BY <1>1, <1>5, <2>1, <2>2, WsFewerTalk
<1>7. WsRingShown'
  BY <1>1, WsRingSame DEF WsRinging
<1>8. WsEndedShown'
  BY <1>1, WsEndedSame
<1>9. Ws!TypeOK'
  BY <1>1 DEF WsIInv, Ws!TypeOK
<1>. QED  BY <1>3, <1>6, <1>7, <1>8, <1>9 DEF WsIInv

LEMMA WsDisconnectKeeps == ASSUME WsBounds, WsIInv, Ws!Disconnect PROVE WsIInv'
<1>1. /\ activeSessionId' = none /\ ringSessionId' = none /\ stopping' = TRUE
      /\ UNCHANGED <<phone, held, pending, callStatus, inbound, kept, lastEnded, forwarded, replied,
                     lost, unheld, events>>
  BY DEF Ws!Disconnect, Ws!session
<1>2. (\A t \in WsSession : WsComing(t)' <=> WsComing(t)) /\ Ws!Talking' = Ws!Talking
  BY <1>1 DEF WsComing, Ws!Talking
<1>3. WsComingKept' /\ WsOneTalks' /\ WsActiveTalks' /\ WsLives' /\ WsRingShown'
  BY <1>1, <1>2 DEF WsIInv, WsComingKept, WsOneTalks, WsActiveTalks, WsLives, WsLife, WsRingShown, WsRinging
<1>4. WsEndedShown'
  BY <1>1, WsEndedSame
<1>5. Ws!TypeOK'
  BY <1>1 DEF WsIInv, Ws!TypeOK
<1>. QED  BY <1>3, <1>4, <1>5 DEF WsIInv

LEMMA WsNextIInv == ASSUME WsBounds PROVE WsIInv /\ [Ws!Next]_(Ws!vars) => WsIInv'
<1>. SUFFICES ASSUME WsIInv, [Ws!Next]_(Ws!vars) PROVE WsIInv'
  OBVIOUS
<1>1. CASE UNCHANGED Ws!vars
  <2>1. UNCHANGED <<phone, held, pending, callStatus, inbound, kept, activeSessionId, ringSessionId,
                    lastEnded, forwarded, replied, stopping, lost, unheld, events>>
    BY <1>1 DEF Ws!vars, Ws!session
  <2>2. (\A t \in WsSession : WsComing(t)' <=> WsComing(t)) /\ Ws!Talking' = Ws!Talking
    BY <2>1 DEF WsComing, Ws!Talking
  <2>3. WsComingKept' /\ WsOneTalks' /\ WsActiveTalks' /\ WsLives'
    BY <2>1, <2>2 DEF WsIInv, WsComingKept, WsOneTalks, WsActiveTalks, WsLives, WsLife
  <2>4. WsRingShown' /\ WsEndedShown'
    BY <2>1, WsRingSame, WsEndedSame DEF WsRinging
  <2>5. Ws!TypeOK'
    BY <2>1 DEF WsIInv, Ws!TypeOK
  <2>. QED  BY <2>3, <2>4, <2>5 DEF WsIInv
<1>2. CASE Ws!Next
  BY <1>2, WsInviteKeeps, WsMakeCallKeeps, WsAnswerKeeps, WsAcceptedKeeps, WsReplacedKeeps, WsHoldKeeps,
     WsUnholdKeeps, WsHoldDoneKeeps, WsUnheldKeeps, WsUnholdFailsKeeps, WsMuteKeeps, WsOverKeeps, WsForwardKeeps,
     WsReplyKeeps, WsEndHereKeeps, WsRemoveSessionKeeps, WsDisconnectKeeps DEF Ws!Next, Ws!Turn
<1>. QED  BY <1>1, <1>2

\* However many calls there are and in whatever order holds, answers and ends come: the ring
\* session rings, of the calls that hold the others one talks and is the active one, and the
\* ended calls are those somebody here talked in or sent away.
LEMMA WsCallsAreShown == ASSUME WsBounds PROVE WsIInv => Ws!CallsShown
<1>. SUFFICES ASSUME WsIInv PROVE Ws!CallsShown
  OBVIOUS
<1>1. ~stopping =>
        \A s \in kept : callStatus[s] = "connecting" /\ s \in inbound =>
          \/ ringSessionId \in lost
          \/ /\ ringSessionId \in kept \cap inbound
             /\ callStatus[ringSessionId] = "connecting"
  BY DEF WsIInv, Ws!TypeOK, WsRingShown, WsRinging
<1>2. Ws!Talking \subseteq WsSession
  BY DEF Ws!Talking, WsIInv, Ws!TypeOK
<1>3. \A s, t \in Ws!Talking \ unheld : s = t
  BY <1>2 DEF WsIInv, WsOneTalks
<1>4. ~stopping => \A s \in Ws!Talking \ unheld : activeSessionId = s
  BY DEF WsIInv, WsActiveTalks
<1>5. \A s \in WsSession : /\ phone[s] = "ended" => lastEnded[s] # 0 \/ Ws!Full
                           /\ phone[s] = "over" /\ s \notin forwarded => lastEnded[s] = 0
  BY DEF WsIInv, WsEndedShown
<1>. QED  BY <1>1, <1>3, <1>4, <1>5 DEF Ws!CallsShown

-----------------------------------------------------------------------------
(***************************************************************************)
(* Proofs about how a call is made: for any numbers the settings are among *)
(* those offered, the web phone follows them, and a call that succeeds was *)
(* made from a number of its mode.                                         *)
(***************************************************************************)

CaBounds == CaMaxEvents \in Nat /\ none \notin Ca!Seen

\* The settings o are offered to a user for whom s was seen.
CaOffered(s, o) ==
  /\ o.callWith = "browser" => s.webphone
  /\ o.callWith \in Ca!Ringouts => s.ringout
  /\ o.callWith = "myphone" /\ s.my # {} => o.myLocation \in s.my
  /\ o.callWith = "otherphone" => o.myLocation \in s.other
CaSettingsOffered == seen # none /\ settings.callWith # none => CaOffered(seen, settings)

\* The web phone follows the mode from when Call is initialized on; without a login there is none.
CaFollower ==
  /\ ~loggedIn \/ status = "pending" => ~webphone
  /\ connecting <=> status = "initializing"
  /\ loggedIn /\ status # "pending" /\ ~crossed => (webphone <=> mode = "webphone")

CaOneCall == \/ callStatus = "idle" /\ calls = {}
             \/ callStatus = "connecting" /\ \E c \in Ca!Call : calls = {c}

\* A number that fits the mode m.
CaFits(from, m) == /\ m = "webphone" => from = "callerId"
                   /\ m = "ringout" => from # "callerId"

\* Unless something changed, the call under way, or the last one, is made from a number that fits.
CaCallFits ==
  /\ Ca!SettingsTurn => changed
  /\ ~changed => \A c \in calls : CaFits(c.from, IF c.at = "validating" THEN Ca!CallingMode
                                                 ELSE IF c.at = "webphone" THEN c.at ELSE "ringout")
  /\ ~changed /\ callStatus = "idle" /\ last.result = "success" => CaFits(last.from, last.mode)

CaIInv == Ca!TypeOK /\ CaSettingsOffered /\ CaFollower /\ CaOneCall /\ CaCallFits

--------------------
(* Settings. *)

\* Its cardinality is that of the sets here.
LEMMA CaCardinality == ASSUME NEW S PROVE Ca!Cardinality(S) = Cardinality(S)
  BY DEF Ca!Cardinality, Cardinality

LEMMA CaLooksSeen == ASSUME Ca!TypeOK PROVE Ca!Looks \in Ca!Seen
<1>1. my \in SUBSET Ca!Number /\ other \in SUBSET Ca!Number
  BY DEF Ca!TypeOK, Ca!Number
<1>2. ("ringout" \in enabled) \in BOOLEAN /\ ("webphone" \in enabled) \in BOOLEAN
  OBVIOUS
<1>. QED  BY <1>1, <1>2, Zenon DEF Ca!Looks, Ca!Seen

\* Whatever the settings were, validated they are offered.
LEMMA CaValidatedOffered ==
  ASSUME NEW s \in Ca!Seen, NEW o \in Ca!Settings, NEW v \in Ca!Validated(s, o)
  PROVE  v \in Ca!Settings /\ CaOffered(s, v)
<1>1. CASE Ca!WebphonePermissionRemoved(s, o) \/ Ca!PermissionChanged(s, o)
  <2>1. v = [o EXCEPT !.callWith = "softphone", !.timestamp = TRUE]
    BY <1>1 DEF Ca!Validated
  <2>. QED  BY <2>1 DEF Ca!Settings, Ca!Option, CaOffered, Ca!Ringouts
<1>2. CASE ~(Ca!WebphonePermissionRemoved(s, o) \/ Ca!PermissionChanged(s, o)) /\ Ca!PhoneNumberChanged(s, o)
  <2>1. PICK n \in Ca!FirstNumber(s, o) :
          v = [o EXCEPT !.callWith = "myphone", !.timestamp = TRUE, !.myLocation = n]
    BY <1>2 DEF Ca!Validated
  <2>2. n \in Ca!Number \cup {"", "custom"} /\ (s.my # {} => n \in s.my)
    BY DEF Ca!FirstNumber, Ca!Seen, Ca!Settings
  <2>3. v \in Ca!Settings /\ v.callWith = "myphone" /\ v.myLocation = n
    BY <2>1, <2>2 DEF Ca!Settings, Ca!Option
  <2>4. s.ringout
    BY <1>2 DEF Ca!PermissionChanged, Ca!PhoneNumberChanged, Ca!Ringouts
  <2>. QED  BY <2>2, <2>3, <2>4 DEF CaOffered
<1>3. CASE ~(Ca!WebphonePermissionRemoved(s, o) \/ Ca!PermissionChanged(s, o)) /\ ~Ca!PhoneNumberChanged(s, o)
  <2>1. v = o
    BY <1>3 DEF Ca!Validated
  <2>. QED  BY <1>3, <2>1 DEF CaOffered, Ca!WebphonePermissionRemoved, Ca!PermissionChanged, Ca!PhoneNumberChanged
<1>. QED  BY <1>1, <1>2, <1>3

LEMMA CaFirstLoginType == ASSUME NEW o \in Ca!Settings PROVE Ca!FirstLogin(o) \in Ca!Settings
<1>1. Ca!Default \in Ca!Option
  BY DEF Ca!Default, Ca!Option
<1>. QED  BY <1>1 DEF Ca!FirstLogin, Ca!Settings

LEMMA CaWithFromNumberOffered ==
  ASSUME NEW s, NEW o \in Ca!Settings, CaOffered(s, o)
  PROVE  Ca!WithFromNumber(o) \in Ca!Settings /\ CaOffered(s, Ca!WithFromNumber(o))
  BY DEF Ca!WithFromNumber, Ca!Settings, CaOffered

LEMMA CaSettledReady == ASSUME Ca!TypeOK, Ca!Settled, loggedIn PROVE settingsReady
<1>1. settingsReady = loggedIn
  BY DEF Ca!Settled, Ca!SettingsTurn
<1>. QED  BY <1>1

LEMMA CaModeType == Ca!CallingMode \in Ca!Mode
  BY DEF Ca!CallingMode, Ca!ModeOf, Ca!Mode

LEMMA CaCountedType == ASSUME CaBounds, CaIInv, Ca!Counted PROVE events' \in 0..CaMaxEvents
<1>1. CaMaxEvents \in Nat /\ events \in 0..CaMaxEvents /\ events < CaMaxEvents /\ events' = events + 1
  BY DEF CaBounds, CaIInv, Ca!TypeOK, Ca!Counted
<1>. QED  BY <1>1

--------------------
(* The inductive invariant. *)

LEMMA CaInitIInv == ASSUME CaBounds PROVE Ca!Init => CaIInv
<1>. SUFFICES ASSUME Ca!Init PROVE CaIInv
  OBVIOUS
<1>1. Ca!TypeOK
  <2>0. events \in 0..CaMaxEvents
    <3>1. CaMaxEvents \in Nat /\ events = 0
      BY DEF Ca!Init, CaBounds
    <3>. QED  BY <3>1
  <2>1. settings \in Ca!Settings
    BY DEF Ca!Init, Ca!Settings
  <2>2. last \in [result : {"none", "success", "error"}, mode : Ca!Mode, from : {"", "callerId", "location"}]
    BY DEF Ca!Init, Ca!Mode
  <2>3. enabled \subseteq Ca!Permission /\ my \subseteq CaMyNumber /\ other \subseteq CaOtherNumber
    BY DEF Ca!Init, Ca!Permission
  <2>. QED  BY <2>0, <2>1, <2>2, <2>3 DEF Ca!Init, Ca!TypeOK, Ca!Mode
<1>2. CaSettingsOffered /\ CaFollower /\ CaOneCall /\ CaCallFits
  BY DEF Ca!Init, CaSettingsOffered, CaFollower, CaOneCall, CaCallFits, Ca!SettingsTurn
<1>. QED  BY <1>1, <1>2 DEF CaIInv

\* The types of what a turn of CallingSettings leaves alone.
CaRestTyped ==
  /\ loggedIn \in BOOLEAN /\ enabled \subseteq Ca!Permission
  /\ my \subseteq CaMyNumber /\ other \subseteq CaOtherNumber /\ callerIds \in BOOLEAN
  /\ status \in {"pending", "initializing", "ready"}
  /\ mode \in Ca!Mode /\ webphone \in BOOLEAN /\ connecting \in BOOLEAN
  /\ callStatus \in {"idle", "connecting"}
  /\ calls \subseteq Ca!Call
  /\ last \in [result : {"none", "success", "error"}, mode : Ca!Mode,
                from : {"", "callerId", "location"}]
  /\ crossed \in BOOLEAN /\ events \in 0..CaMaxEvents

LEMMA CaTurnSettingsKeeps == ASSUME CaBounds, CaIInv, Ca!TurnSettings PROVE CaIInv'
<1>1. /\ Ca!SettingsTurn /\ settingsReady' = loggedIn
      /\ UNCHANGED <<loggedIn, enabled, my, other, callerIds, status, mode, webphone, connecting,
                     crossed, callStatus, calls, last, changed, events>>
  BY DEF Ca!TurnSettings, Ca!env
<1>2. settings' \in Ca!Settings /\ seen' \in Ca!Seen \cup {none} /\ CaSettingsOffered'
  <2>1. CASE loggedIn /\ "calling" \in enabled
    <3>1. PICK o \in Ca!Validated(Ca!Looks, Ca!FirstLogin(settings)) : settings' = Ca!WithFromNumber(o)
      BY <2>1 DEF Ca!TurnSettings
    <3>2. seen' = Ca!Looks /\ Ca!Looks \in Ca!Seen
      BY <2>1, CaLooksSeen DEF Ca!TurnSettings, CaIInv
    <3>3. Ca!FirstLogin(settings) \in Ca!Settings
      BY CaFirstLoginType DEF CaIInv, Ca!TypeOK
    <3>4. o \in Ca!Settings /\ CaOffered(Ca!Looks, o)
      BY <3>1, <3>2, <3>3, CaValidatedOffered
    <3>5. settings' \in Ca!Settings /\ CaOffered(Ca!Looks, settings')
      BY <3>1, <3>4, CaWithFromNumberOffered
    <3>. QED  BY <3>2, <3>5 DEF CaSettingsOffered, CaOffered
  <2>2. CASE ~(loggedIn /\ "calling" \in enabled)
    BY <2>2 DEF Ca!TurnSettings, CaIInv, Ca!TypeOK, CaSettingsOffered, CaOffered
  <2>. QED  BY <2>1, <2>2
<1>3. Ca!TypeOK'
  <2>1. CaRestTyped /\ loggedIn \in BOOLEAN /\ changed \in BOOLEAN
    BY DEF CaIInv, Ca!TypeOK, CaRestTyped
  <2>2. CaRestTyped'
    BY <1>1, <2>1 DEF CaRestTyped
  <2>3. settingsReady' \in BOOLEAN /\ changed' \in BOOLEAN
    BY <1>1, <2>1
  <2>. QED  BY <1>2, <2>2, <2>3 DEF Ca!TypeOK, CaRestTyped
<1>4. CaFollower' /\ CaOneCall'
  BY <1>1 DEF CaIInv, CaFollower, CaOneCall
<1>5. changed
  BY <1>1 DEF CaIInv, CaCallFits
<1>6. CaCallFits'
  BY <1>1, <1>5 DEF CaCallFits
<1>. QED  BY <1>2, <1>3, <1>4, <1>6 DEF CaIInv

LEMMA CaValidateSettingsKeeps == ASSUME CaBounds, CaIInv, Ca!ValidateSettings PROVE CaIInv'
<1>1. /\ ~Ca!SettingsTurn /\ seen' = Ca!Looks /\ settings' \in Ca!Validated(Ca!Looks, settings)
      /\ changed' = (changed \/ settings' # settings)
      /\ UNCHANGED <<loggedIn, enabled, my, other, callerIds, settingsReady, status, mode, webphone,
                     connecting, crossed, callStatus, calls, last, events>>
  BY DEF Ca!ValidateSettings, Ca!env
<1>2. Ca!Looks \in Ca!Seen /\ settings' \in Ca!Settings /\ CaOffered(Ca!Looks, settings')
  BY <1>1, CaLooksSeen, CaValidatedOffered DEF CaIInv, Ca!TypeOK
<1>3. Ca!TypeOK'
  <2>1. CaRestTyped /\ settingsReady \in BOOLEAN
    BY DEF CaIInv, Ca!TypeOK, CaRestTyped
  <2>2. CaRestTyped'
    BY <1>1, <2>1 DEF CaRestTyped
  <2>3. settingsReady' \in BOOLEAN
    BY <1>1, <2>1
  <2>4. changed' \in BOOLEAN
    BY <1>1
  <2>5. seen' \in Ca!Seen
    BY <1>1, <1>2
  <2>. QED  BY <1>2, <2>2, <2>3, <2>4, <2>5 DEF Ca!TypeOK, CaRestTyped
<1>4. CaSettingsOffered'
  BY <1>1, <1>2 DEF CaSettingsOffered, CaOffered
<1>5. CaFollower' /\ CaOneCall'
  BY <1>1 DEF CaIInv, CaFollower, CaOneCall
<1>6. CaCallFits'
  <2>1. Ca!SettingsTurn' => changed'
    BY <1>1 DEF Ca!SettingsTurn
  <2>2. ASSUME ~changed' PROVE ~changed /\ Ca!CallingMode' = Ca!CallingMode
    BY <1>1, <2>2 DEF Ca!CallingMode
  <2>. QED  BY <1>1, <2>1, <2>2 DEF CaIInv, CaCallFits
<1>. QED  BY <1>3, <1>4, <1>5, <1>6 DEF CaIInv

\* What only Call does with its status, its mode and the web phone.
LEMMA CaCallModuleKeeps ==
  ASSUME CaBounds, CaIInv, Ca!InitCallModule \/ Ca!ResetCallModule \/ Ca!ProcessCall \/ Ca!Connected PROVE CaIInv'
<1>1. /\ UNCHANGED <<loggedIn, enabled, my, other, callerIds, settings, settingsReady, seen, callStatus,
                     calls, last, changed, events>>
  BY DEF Ca!InitCallModule, Ca!ResetCallModule, Ca!ProcessCall, Ca!Connected, Ca!env
<1>2. CaSettingsOffered' /\ CaOneCall' /\ CaCallFits'
  BY <1>1 DEF CaIInv, CaSettingsOffered, CaOffered, CaOneCall, CaCallFits, Ca!CallingMode, Ca!SettingsTurn
<1>3. /\ status' \in {"pending", "initializing", "ready"} /\ mode' \in Ca!Mode /\ webphone' \in BOOLEAN
      /\ connecting' \in BOOLEAN /\ crossed' \in BOOLEAN /\ CaFollower'
  <2>0. /\ mode \in Ca!Mode /\ webphone \in BOOLEAN /\ connecting \in BOOLEAN /\ crossed \in BOOLEAN
        /\ loggedIn \in BOOLEAN /\ settingsReady \in BOOLEAN /\ CaFollower /\ Ca!CallingMode \in Ca!Mode
    BY CaModeType DEF CaIInv, Ca!TypeOK
  <2>1. CASE Ca!InitCallModule
    <3>1. loggedIn /\ ~webphone /\ status = "pending"
      BY <2>0, <2>1 DEF Ca!InitCallModule, Ca!CallTurns, CaFollower
    <3>2. /\ status' = (IF Ca!CallingMode = "webphone" THEN "initializing" ELSE "ready")
          /\ mode' = Ca!CallingMode /\ crossed' = FALSE /\ loggedIn' = loggedIn
          /\ connecting' = (Ca!CallingMode = "webphone")
          /\ webphone' = (Ca!CallingMode = "webphone")
      BY <1>1, <2>1, <3>1 DEF Ca!InitCallModule
    <3>3. CASE Ca!CallingMode = "webphone"
      BY <2>0, <3>1, <3>2, <3>3 DEF CaFollower
    <3>4. CASE Ca!CallingMode # "webphone"
      BY <2>0, <3>1, <3>2, <3>4 DEF CaFollower
    <3>. QED  BY <3>3, <3>4
  <2>2. CASE Ca!Connected
    BY <1>1, <2>0, <2>2 DEF Ca!Connected, CaFollower, CaIInv, Ca!TypeOK
  <2>3. CASE Ca!ResetCallModule
    <3>1. ~loggedIn /\ ~webphone /\ status = "ready"
      BY <2>0, <2>3 DEF Ca!ResetCallModule, Ca!SettingsTurn, Ca!CallTurns, CaFollower
    <3>. QED  BY <1>1, <2>0, <2>3, <3>1 DEF Ca!ResetCallModule, CaFollower
  <2>4. CASE Ca!ProcessCall
    <3>1. loggedIn /\ status = "ready" /\ mode # Ca!CallingMode
      BY <2>4 DEF Ca!ProcessCall, Ca!ModeChanges
    <3>2. /\ mode' = Ca!CallingMode /\ UNCHANGED <<status, connecting, crossed, loggedIn>>
          /\ webphone' = (IF mode = "webphone" THEN FALSE ELSE webphone \/ Ca!CallingMode = "webphone")
      BY <1>1, <2>4 DEF Ca!ProcessCall, Ca!Follows
    <3>3. CASE mode = "webphone"
      BY <2>0, <3>1, <3>2, <3>3 DEF CaFollower, CaIInv, Ca!TypeOK
    <3>4. CASE mode # "webphone" /\ Ca!CallingMode = "webphone"
      BY <2>0, <3>1, <3>2, <3>4 DEF CaFollower, CaIInv, Ca!TypeOK
    <3>5. CASE mode # "webphone" /\ Ca!CallingMode # "webphone"
      BY <2>0, <3>1, <3>2, <3>5 DEF CaFollower, CaIInv, Ca!TypeOK
    <3>. QED  BY <3>3, <3>4, <3>5
  <2>. QED  BY <2>1, <2>2, <2>3, <2>4
<1>4. Ca!TypeOK'
  BY <1>1, <1>3 DEF CaIInv, Ca!TypeOK
<1>. QED  BY <1>2, <1>3, <1>4 DEF CaIInv

\* What only a call that is made or goes on does.
LEMMA CaCallKeeps ==
  ASSUME CaBounds, CaIInv,
         UNCHANGED <<loggedIn, enabled, my, other, callerIds, settings, settingsReady, seen, status,
                     mode, webphone, connecting, crossed>>,
         callStatus' \in {"idle", "connecting"}, calls' \subseteq Ca!Call, changed' \in BOOLEAN,
         last' \in [result : {"none", "success", "error"}, mode : Ca!Mode,
                    from : {"", "callerId", "location"}],
         events' \in 0..CaMaxEvents, CaOneCall', CaCallFits'
  PROVE  CaIInv'
<1>1. Ca!TypeOK'
  BY DEF CaIInv, Ca!TypeOK
<1>2. CaSettingsOffered' /\ CaFollower'
  BY DEF CaIInv, CaSettingsOffered, CaOffered, CaFollower
<1>. QED  BY <1>1, <1>2 DEF CaIInv

LEMMA CaMakeCallKeeps == ASSUME CaBounds, CaIInv, Ca!MakeCall PROVE CaIInv'
<1>1. /\ Ca!Settled /\ callStatus = "idle" /\ events' \in 0..CaMaxEvents
      /\ UNCHANGED <<loggedIn, enabled, my, other, callerIds, settings, settingsReady, seen, status,
                     mode, webphone, connecting, crossed>>
  BY CaCountedType DEF Ca!MakeCall, Ca!env
<1>2. ~Ca!SettingsTurn /\ ~Ca!SettingsTurn' /\ Ca!CallingMode' = Ca!CallingMode
  BY <1>1 DEF Ca!Settled, Ca!SettingsTurn, Ca!CallingMode
<1>3. CASE Ca!CallingMode = "webphone" /\ settings.fromNumber = "null"
  <2>1. /\ last' = [result |-> "error", mode |-> "webphone", from |-> ""]
        /\ UNCHANGED <<callStatus, calls, changed>>
    BY <1>3 DEF Ca!MakeCall
  <2>2. CaCallFits' /\ CaOneCall'
    BY <1>2, <2>1 DEF CaIInv, CaCallFits, CaOneCall
  <2>3. last' \in [result : {"none", "success", "error"}, mode : Ca!Mode,
                   from : {"", "callerId", "location"}]
    BY <2>1 DEF Ca!Mode
  <2>. QED  BY <1>1, <2>1, <2>2, <2>3, CaCallKeeps DEF CaIInv, Ca!TypeOK
<1>4. CASE ~(Ca!CallingMode = "webphone" /\ settings.fromNumber = "null")
  <2>. DEFINE c == [at |-> "validating", from |-> Ca!From]
  <2>1. calls' = {c} /\ callStatus' = "connecting" /\ changed' = FALSE /\ last' = last
    BY <1>1, <1>4 DEF Ca!MakeCall, CaIInv, CaOneCall
  <2>2. c \in Ca!Call /\ c.at = "validating" /\ CaFits(c.from, Ca!CallingMode)
    BY <1>4 DEF Ca!Call, Ca!From, CaFits, CaIInv, Ca!TypeOK, Ca!Settings
  <2>. HIDE DEF c
  <2>3. CaOneCall' /\ CaCallFits'
    BY <1>2, <2>1, <2>2 DEF CaOneCall, CaCallFits
  <2>. QED  BY <1>1, <2>1, <2>2, <2>3, CaCallKeeps DEF CaIInv, Ca!TypeOK
<1>. QED  BY <1>3, <1>4

\* The call under way goes on, in the mode it has been found to be for.
LEMMA CaGoesOnKeeps ==
  ASSUME CaBounds, CaIInv, Ca!Settled, NEW c \in calls, NEW at \in {"ringout", "polling", "webphone"},
         calls' = (calls \ {c}) \cup {[c EXCEPT !.at = at]},
         ~changed => CaFits(c.from, IF at = "webphone" THEN at ELSE "ringout"),
         UNCHANGED <<loggedIn, enabled, my, other, callerIds, settings, settingsReady, seen, status,
                     mode, webphone, connecting, crossed, callStatus, last, changed, events>>
  PROVE  CaIInv'
<1>1. calls = {c} /\ callStatus = "connecting" /\ c \in Ca!Call
  BY DEF CaIInv, CaOneCall
<1>. DEFINE d == [c EXCEPT !.at = at]
<1>2. d \in Ca!Call /\ d.at = at /\ d.from = c.from /\ calls' = {d}
  BY <1>1 DEF Ca!Call
<1>. HIDE DEF d
<1>3. CaOneCall'
  BY <1>1, <1>2 DEF CaOneCall
<1>4. CaCallFits'
  BY <1>1, <1>2 DEF CaCallFits, Ca!Settled, Ca!SettingsTurn
<1>. QED  BY <1>2, <1>3, <1>4, CaCallKeeps DEF CaIInv, Ca!TypeOK

\* The call under way ends.
LEMMA CaEndsKeeps ==
  ASSUME CaBounds, CaIInv, Ca!Settled, NEW c \in calls, NEW result \in {"success", "error"}, Ca!Ends(c, result),
         result = "success" => c.at # "validating" \/ Ca!CallingMode = "softphone",
         UNCHANGED <<loggedIn, enabled, my, other, callerIds, settings, settingsReady, seen, status,
                     mode, webphone, connecting, crossed, changed, events>>
  PROVE  CaIInv'
<1>1. calls = {c} /\ c \in Ca!Call
  BY DEF CaIInv, CaOneCall
<1>. DEFINE m == IF c.at = "validating" THEN Ca!CallingMode
                 ELSE IF c.at = "webphone" THEN "webphone" ELSE "ringout"
<1>2. /\ callStatus' = "idle" /\ calls' = {}
      /\ last' = [result |-> result, from |-> c.from, mode |-> m]
  BY <1>1 DEF Ca!Ends
<1>3. m \in Ca!Mode /\ c.from \in {"", "callerId", "location"}
  BY <1>1, CaModeType DEF Ca!Mode, Ca!Call
<1>4. ~changed /\ result = "success" => CaFits(c.from, m)
  BY DEF CaIInv, CaCallFits
<1>. HIDE DEF m
<1>5. CaOneCall'
  BY <1>2 DEF CaOneCall
<1>6. CaCallFits'
  BY <1>2, <1>4 DEF CaCallFits, Ca!Settled, Ca!SettingsTurn
<1>. QED  BY <1>2, <1>3, <1>5, <1>6, CaCallKeeps DEF CaIInv, Ca!TypeOK

LEMMA CaCallGoesOnKeeps ==
  ASSUME CaBounds, CaIInv, NEW c \in calls,
         Ca!ValidatedNumbers(c) \/ Ca!RingoutPosted(c) \/ Ca!CallMade(c) \/ Ca!CallFails(c)
  PROVE  CaIInv'
<1>1. /\ Ca!Settled
      /\ UNCHANGED <<loggedIn, enabled, my, other, callerIds, settings, settingsReady, seen, status,
                     mode, webphone, connecting, crossed, changed, events>>
  BY DEF Ca!ValidatedNumbers, Ca!RingoutPosted, Ca!CallMade, Ca!CallFails, Ca!env
<1>2. ~changed => CaFits(c.from, IF c.at = "validating" THEN Ca!CallingMode
                                 ELSE IF c.at = "webphone" THEN c.at ELSE "ringout")
  BY DEF CaIInv, CaCallFits
<1>3. CASE Ca!ValidatedNumbers(c)
  <2>1. CASE Ca!CallingMode = "softphone"
    <3>1. Ca!Ends(c, "success")
      BY <1>3, <2>1 DEF Ca!ValidatedNumbers
    <3>. QED  BY <1>1, <2>1, <3>1, CaEndsKeeps
  <2>2. CASE Ca!CallingMode = "ringout"
    <3>1. calls' = (calls \ {c}) \cup {[c EXCEPT !.at = "ringout"]} /\ UNCHANGED <<callStatus, last>>
      BY <1>3, <2>2 DEF Ca!ValidatedNumbers
    <3>2. ~changed => CaFits(c.from, "ringout")
      BY <1>2, <1>3, <2>2 DEF Ca!ValidatedNumbers
    <3>. QED  BY <1>1, <3>1, <3>2, CaGoesOnKeeps
  <2>3. CASE Ca!CallingMode = "webphone"
    <3>1. calls' = (calls \ {c}) \cup {[c EXCEPT !.at = "webphone"]} /\ UNCHANGED <<callStatus, last>>
      BY <1>3, <2>3 DEF Ca!ValidatedNumbers
    <3>2. ~changed => CaFits(c.from, "webphone")
      BY <1>2, <1>3, <2>3 DEF Ca!ValidatedNumbers
    <3>. QED  BY <1>1, <3>1, <3>2, CaGoesOnKeeps
  <2>. QED  BY <2>1, <2>2, <2>3, CaModeType DEF Ca!Mode
<1>4. CASE Ca!RingoutPosted(c)
  <2>1. calls' = (calls \ {c}) \cup {[c EXCEPT !.at = "polling"]} /\ UNCHANGED <<callStatus, last>>
    BY <1>4 DEF Ca!RingoutPosted
  <2>2. ~changed => CaFits(c.from, "ringout")
    BY <1>2, <1>4 DEF Ca!RingoutPosted
  <2>. QED  BY <1>1, <2>1, <2>2, CaGoesOnKeeps
<1>5. CASE Ca!CallMade(c)
  BY <1>1, <1>5, CaEndsKeeps DEF Ca!CallMade
<1>6. CASE Ca!CallFails(c)
  BY <1>1, <1>6, CaEndsKeeps DEF Ca!CallFails
<1>. QED  BY <1>3, <1>4, <1>5, <1>6

LEMMA CaSetDataKeeps == ASSUME CaBounds, CaIInv, Ca!SetData PROVE CaIInv'
<1>1. /\ Ca!Settled /\ settingsReady /\ events' \in 0..CaMaxEvents
      /\ changed' = (changed \/ settings' # settings)
      /\ UNCHANGED <<loggedIn, enabled, my, other, callerIds, settingsReady, seen, status, mode,
                     webphone, connecting, crossed, callStatus, calls, last>>
  BY CaCountedType DEF Ca!SetData, Ca!env
<1>2. PICK option \in Ca!CallWithOptions :
        \E n \in CASE option = "myphone" -> my [] option = "otherphone" -> other
                   [] option = "customphone" -> {"custom"} [] OTHER -> {settings.myLocation} :
          settings' = [settings EXCEPT !.callWith = option, !.myLocation = n, !.timestamp = TRUE]
  BY DEF Ca!SetData
<1>. DEFINE locations == CASE option = "myphone" -> my [] option = "otherphone" -> other
                           [] option = "customphone" -> {"custom"} [] OTHER -> {settings.myLocation}
<1>3. PICK n \in locations :
        settings' = [settings EXCEPT !.callWith = option, !.myLocation = n, !.timestamp = TRUE]
  BY <1>2
<1>4. /\ option \in Ca!Option
      /\ option = "browser" => "webphone" \in enabled
      /\ option \in Ca!Ringouts => "ringout" \in enabled
  BY DEF Ca!CallWithOptions, Ca!Option, Ca!Ringouts
<1>5. option = "myphone" => n \in my
  OBVIOUS
<1>6. option = "otherphone" => n \in other
  OBVIOUS
<1>7. n \in Ca!Number \cup {"", "custom"}
  <2>1. settings.myLocation \in Ca!Number \cup {"", "custom"} /\ my \subseteq Ca!Number /\ other \subseteq Ca!Number
    BY DEF CaIInv, Ca!TypeOK, Ca!Settings, Ca!Number
  <2>2. locations \in {my, other, {"custom"}, {settings.myLocation}}
    OBVIOUS
  <2>. QED  BY <2>1, <2>2
<1>. HIDE DEF locations
<1>8. /\ settings' \in Ca!Settings /\ settings'.callWith = option /\ settings'.myLocation = n
  BY <1>3, <1>4, <1>7 DEF CaIInv, Ca!TypeOK, Ca!Settings
<1>9. seen = Ca!Looks
  BY <1>1 DEF Ca!Settled, Ca!SettingsTurn, Ca!ShouldValidate
<1>10. CaSettingsOffered'
  <2>1. seen' = Ca!Looks
    BY <1>1, <1>9
  <2>2. /\ Ca!Looks.webphone = ("webphone" \in enabled) /\ Ca!Looks.ringout = ("ringout" \in enabled)
        /\ Ca!Looks.my = my /\ Ca!Looks.other = other
    BY DEF Ca!Looks
  <2>3. CaOffered(Ca!Looks, settings')
    BY <1>4, <1>5, <1>6, <1>8, <2>2 DEF CaOffered
  <2>. QED  BY <2>1, <2>3 DEF CaSettingsOffered, CaOffered
<1>11. Ca!TypeOK'
  <2>1. changed' \in BOOLEAN
    BY <1>1
  <2>2. settings' \in Ca!Settings /\ events' \in 0..CaMaxEvents
    BY <1>1, <1>8
  <2>3. Ca!TypeOK
    BY DEF CaIInv
  <2>4. UNCHANGED <<loggedIn, enabled, my, other, callerIds, settingsReady, seen, status, mode,
                    webphone, connecting, crossed, callStatus, calls, last>>
    BY <1>1
  <2>5. /\ loggedIn' \in BOOLEAN /\ callerIds' \in BOOLEAN /\ settingsReady' \in BOOLEAN
        /\ webphone' \in BOOLEAN /\ connecting' \in BOOLEAN /\ crossed' \in BOOLEAN
    BY <2>3, <2>4 DEF Ca!TypeOK
  <2>6. /\ enabled' \in SUBSET Ca!Permission /\ my' \in SUBSET CaMyNumber /\ other' \in SUBSET CaOtherNumber
        /\ seen' \in Ca!Seen \cup {none} /\ status' \in {"pending", "initializing", "ready"}
        /\ mode' \in Ca!Mode /\ callStatus' \in {"idle", "connecting"} /\ calls' \in SUBSET Ca!Call
        /\ last' \in [result : {"none", "success", "error"}, mode : Ca!Mode, from : {"", "callerId", "location"}]
    BY <2>3, <2>4 DEF Ca!TypeOK
  <2>. QED  BY <2>1, <2>2, <2>5, <2>6 DEF Ca!TypeOK
<1>12. CaFollower' /\ CaOneCall'
  BY <1>1 DEF CaIInv, CaFollower, CaOneCall
<1>13. CaCallFits'
  <2>1. Ca!SettingsTurn' => changed'
    BY <1>1 DEF Ca!Settled, Ca!SettingsTurn
  <2>2. ASSUME ~changed' PROVE ~changed /\ Ca!CallingMode' = Ca!CallingMode
    BY <1>1, <2>2 DEF Ca!CallingMode
  <2>. QED  BY <1>1, <2>1, <2>2 DEF CaIInv, CaCallFits
<1>. QED  BY <1>10, <1>11, <1>12, <1>13 DEF CaIInv

LEMMA CaChangeKeeps == ASSUME CaBounds, CaIInv, Ca!Change PROVE CaIInv'
<1>1. /\ events' \in 0..CaMaxEvents
      /\ UNCHANGED <<loggedIn, settings, settingsReady, seen, status, mode, webphone, connecting,
                     crossed, callStatus, calls, last, changed, callerIds>>
  BY CaCountedType DEF Ca!Change
<1>2. enabled' \subseteq Ca!Permission /\ my' \subseteq CaMyNumber /\ other' \subseteq CaOtherNumber
  BY DEF Ca!Change, CaIInv, Ca!TypeOK
<1>3. Ca!TypeOK'
  <2>1. calls' \subseteq Ca!Call /\ settings' \in Ca!Settings /\ seen' \in Ca!Seen \cup {none}
    BY <1>1 DEF CaIInv, Ca!TypeOK
  <2>2. last' \in [result : {"none", "success", "error"}, mode : Ca!Mode,
                   from : {"", "callerId", "location"}]
    BY <1>1 DEF CaIInv, Ca!TypeOK
  <2>3. /\ loggedIn' \in BOOLEAN /\ callerIds' \in BOOLEAN /\ settingsReady' \in BOOLEAN
        /\ mode' \in Ca!Mode /\ webphone' \in BOOLEAN /\ connecting' \in BOOLEAN
        /\ crossed' \in BOOLEAN /\ changed' \in BOOLEAN
        /\ status' \in {"pending", "initializing", "ready"} /\ callStatus' \in {"idle", "connecting"}
    BY <1>1 DEF CaIInv, Ca!TypeOK
  <2>. QED  BY <1>1, <1>2, <2>1, <2>2, <2>3 DEF Ca!TypeOK
<1>4. CaSettingsOffered' /\ CaFollower' /\ CaOneCall' /\ CaCallFits'
  BY <1>1 DEF CaIInv, CaSettingsOffered, CaOffered, CaFollower, CaOneCall, CaCallFits, Ca!CallingMode, Ca!SettingsTurn
<1>. QED  BY <1>3, <1>4 DEF CaIInv

LEMMA CaTurnKeeps == ASSUME CaBounds, CaIInv, Ca!Turn PROVE CaIInv'
<1>1. /\ Ca!Settled /\ events' \in 0..CaMaxEvents /\ changed' = TRUE
      /\ loggedIn' = ~loggedIn /\ webphone' = (webphone /\ ~loggedIn)
      /\ crossed' = (crossed \/ connecting)
      /\ UNCHANGED <<enabled, my, other, callerIds, settings, settingsReady, seen, status, mode,
                     connecting, callStatus, calls, last>>
  BY CaCountedType DEF Ca!Turn
<1>2. Ca!TypeOK'
  <2>1. loggedIn' \in BOOLEAN /\ webphone' \in BOOLEAN /\ crossed' \in BOOLEAN
    BY <1>1
  <2>. QED  BY <1>1, <2>1 DEF CaIInv, Ca!TypeOK
<1>3. CaSettingsOffered' /\ CaOneCall' /\ CaCallFits'
  BY <1>1 DEF CaIInv, CaSettingsOffered, CaOffered, CaOneCall, CaCallFits
<1>4. CaFollower'
  <2>1. CASE loggedIn
    BY <1>1, <2>1 DEF CaIInv, Ca!TypeOK, CaFollower
  <2>2. CASE ~loggedIn
    <3>1. ~webphone /\ ~webphone' /\ status # "ready"
      BY <1>1, <2>2 DEF CaIInv, CaFollower, Ca!Settled, Ca!CallTurns
    <3>2. status = "initializing" => crossed'
      BY <1>1 DEF CaIInv, CaFollower
    <3>. QED  BY <1>1, <2>2, <3>1, <3>2 DEF CaIInv, Ca!TypeOK, CaFollower
  <2>. QED  BY <2>1, <2>2 DEF CaIInv, Ca!TypeOK
<1>. QED  BY <1>2, <1>3, <1>4 DEF CaIInv

LEMMA CaNextIInv == ASSUME CaBounds PROVE CaIInv /\ [Ca!Next]_(Ca!vars) => CaIInv'
<1>. SUFFICES ASSUME CaIInv, [Ca!Next]_(Ca!vars) PROVE CaIInv'
  OBVIOUS
<1>1. CASE UNCHANGED Ca!vars
  <2>1. UNCHANGED <<loggedIn, enabled, my, other, callerIds, settings, settingsReady, seen, status,
                    mode, webphone, connecting, crossed, callStatus, calls, last, changed, events>>
    BY <1>1 DEF Ca!vars, Ca!env
  <2>2. CaCallFits' /\ CaOneCall'
    BY <2>1 DEF CaIInv, CaCallFits, Ca!CallingMode, Ca!SettingsTurn, CaOneCall
  <2>. QED  BY <2>1, <2>2, CaCallKeeps DEF CaIInv, Ca!TypeOK
<1>2. CASE Ca!Next
  BY <1>2, CaTurnSettingsKeeps, CaValidateSettingsKeeps, CaCallModuleKeeps, CaMakeCallKeeps,
     CaCallGoesOnKeeps, CaSetDataKeeps, CaChangeKeeps, CaTurnKeeps DEF Ca!Next
<1>. QED  BY <1>1, <1>2

\* For any numbers and any changes of permissions and settings, the user is left with what is
\* offered, the web phone follows the settings, and one call at a time is made, from a number
\* that fits.
LEMMA CaCallsAreAsSet == ASSUME CaBounds PROVE CaIInv => Ca!CallsAsSet
<1>. SUFFICES ASSUME CaIInv, Ca!Settled PROVE Ca!CallsAsSet
  BY DEF Ca!CallsAsSet
<1>1. ASSUME loggedIn, settings.callWith # none
      PROVE  /\ settings.callWith \in Ca!CallWithOptions
             /\ settings.callWith = "myphone" /\ my # {} => settings.myLocation \in my
             /\ settings.callWith = "otherphone" => settings.myLocation \in other
  <2>0. settingsReady
    BY <1>1, CaSettledReady DEF CaIInv
  <2>1. seen = Ca!Looks /\ Ca!Looks \in Ca!Seen
    BY <1>1, <2>0, CaLooksSeen DEF CaIInv, Ca!Settled, Ca!ShouldValidate
  <2>2. CaOffered(Ca!Looks, settings)
    BY <1>1, <2>1 DEF CaIInv, CaSettingsOffered, CaBounds
  <2>3. /\ Ca!Looks.webphone = ("webphone" \in enabled) /\ Ca!Looks.ringout = ("ringout" \in enabled)
        /\ Ca!Looks.my = my /\ Ca!Looks.other = other
    BY DEF Ca!Looks
  <2>4. settings.callWith \in Ca!Option
    BY <1>1 DEF CaIInv, Ca!TypeOK, Ca!Settings
  <2>5. /\ settings.callWith = "browser" => "webphone" \in enabled
        /\ settings.callWith \in Ca!Ringouts => "ringout" \in enabled
        /\ settings.callWith = "otherphone" => other # {}
    BY <2>2, <2>3 DEF CaOffered
  <2>6. settings.callWith \in Ca!CallWithOptions
    BY <2>4, <2>5 DEF Ca!CallWithOptions, Ca!Option, Ca!Ringouts
  <2>. QED  BY <2>2, <2>3, <2>6 DEF CaOffered
<1>2. loggedIn /\ status = "ready" /\ ~crossed => (webphone <=> Ca!CallingMode = "webphone")
  <2>. SUFFICES ASSUME loggedIn, status = "ready", ~crossed
                PROVE  webphone <=> Ca!CallingMode = "webphone"
    OBVIOUS
  <2>1. mode = Ca!CallingMode
    BY CaSettledReady DEF CaIInv, Ca!Settled, Ca!ModeChanges
  <2>. QED  BY <2>1 DEF CaIInv, CaFollower
<1>3. Cardinality(calls) <= 1 /\ (callStatus = "idle" <=> calls = {})
  <2>1. Cardinality({}) = 0 /\ \A c \in Ca!Call : Cardinality({c}) = 1
    BY FS_EmptySet, FS_Singleton
  <2>. QED  BY <2>1 DEF CaIInv, CaOneCall
<1>4. callStatus = "idle" /\ last.result = "success" /\ ~changed => CaFits(last.from, last.mode)
  BY DEF CaIInv, CaCallFits
<1>. QED  BY <1>1, <1>2, <1>3, <1>4, CaCardinality DEF Ca!CallsAsSet, CaFits

-----------------------------------------------------------------------------
(***************************************************************************)
(* Proofs about the connection: for any servers and bounds it is watched   *)
(* whatever client is in use.                                              *)
(***************************************************************************)

CoBounds == CoMaxChecks \in Nat /\ CoMaxEvents \in Nat

\* A listener that has seen the last change of the environment is on the client in use, and
\* none has seen a change to come.
CoOnClient(l) ==
  /\ l.counter <= environment.changeCounter
  /\ l.ready => environment.ready
  /\ l.ready /\ l.counter = environment.changeCounter => l.bound = client.id

\* The client is the SDK's until the environment is ready, and one for the target then.
CoRightClient ==
  IF environment.ready THEN elsewhere \/ client.server = target
  ELSE client.server = CoSdkServer

CoWatched ==
  /\ monitor.ready => timer \/ checks > 0
  /\ ~missed /\ ~slipped
  /\ "disconnected" \in alerts => ~connectivity

CoIInv == Co!TypeOK /\ CoOnClient(monitor) /\ CoOnClient(limiter) /\ CoRightClient /\ CoWatched

--------------------
(* What the handlers do. *)

\* Whatever the monitor hears, it goes on, and tells of a lost connection only if it is.
LEMMA CoHearsKeeps ==
  ASSUME Co!TypeOK, NEW success \in BOOLEAN, Co!MonitorHears(success),
         "disconnected" \in alerts => ~connectivity
  PROVE  /\ connectivity' \in BOOLEAN /\ alerts' \subseteq Co!Message /\ timer' = TRUE
         /\ "disconnected" \in alerts' => ~connectivity'
  BY DEF Co!TypeOK, Co!MonitorHears, Co!Message, Co!Retry

\* Between turns a listener that is ready is on the client in use.
LEMMA CoSettledOnClient ==
  ASSUME CoIInv, Co!Settled
  PROVE  /\ monitor.ready => monitor.bound = client.id
         /\ limiter.ready => limiter.bound = client.id
  BY DEF CoIInv, CoOnClient, Co!Settled, Co!Turns, Co!Rebinds

\* And then it is ready if, and only if, the environment is.
LEMMA CoSettledReady ==
  ASSUME CoIInv, Co!Settled
  PROVE  /\ monitor.ready <=> environment.ready
         /\ limiter.ready <=> environment.ready
         /\ storageReady => environment.ready
  BY DEF CoIInv, Co!TypeOK, Co!Listener, CoOnClient, Co!Settled, Co!EnvironmentTurns, Co!Turns

LEMMA CoBoundType ==
  ASSUME Co!TypeOK, NEW l \in Co!Listener, environment.ready, CoOnClient(l),
         client' = client, environment' = environment
  PROVE  /\ Co!Bound(l) \in Co!Listener /\ Co!Bound(l).ready
         /\ Co!Bound(l).counter <= environment'.changeCounter
         /\ Co!Bound(l).bound = client'.id
  BY DEF Co!TypeOK, Co!Bound, Co!Listener, CoOnClient

--------------------
(* The inductive invariant. *)

LEMMA CoInitIInv == ASSUME CoBounds PROVE Co!Init => CoIInv
<1>. SUFFICES ASSUME Co!Init PROVE CoIInv
  OBVIOUS
<1>1. /\ client = [id |-> 1, server |-> CoSdkServer]
      /\ environment = [ready |-> FALSE, changeCounter |-> 0]
      /\ monitor = [ready |-> FALSE, bound |-> 0, counter |-> 0] /\ limiter = monitor
  BY DEF Co!Init
<1>2. monitor \in Co!Listener /\ limiter \in Co!Listener
  BY <1>1 DEF Co!Listener
<1>3. environment \in [ready : BOOLEAN, changeCounter : Nat]
  BY <1>1
<1>4. client \in [id : Nat \ {0}, server : CoServer \cup {CoSdkServer}]
  BY <1>1
<1>5. Co!TypeOK
  <2>1. checks \in 0..CoMaxChecks /\ events \in 0..CoMaxEvents
    BY DEF CoBounds, Co!Init
  <2>2. alerts \subseteq Co!Message /\ requests \subseteq 1..client.id
    BY DEF Co!Init
  <2>3. /\ storageReady \in BOOLEAN /\ target \in CoServer \cup {CoSdkServer}
        /\ connectivity \in BOOLEAN /\ timer \in BOOLEAN /\ throttling \in BOOLEAN
        /\ elsewhere \in BOOLEAN /\ slipped \in BOOLEAN /\ missed \in BOOLEAN
    BY DEF Co!Init
  <2>. QED  BY <1>2, <1>3, <1>4, <2>1, <2>2, <2>3 DEF Co!TypeOK
<1>6. CoOnClient(monitor) /\ CoOnClient(limiter) /\ CoRightClient
  BY <1>1 DEF CoOnClient, CoRightClient
<1>7. CoWatched
  BY <1>1 DEF Co!Init, CoWatched
<1>. QED  BY <1>5, <1>6, <1>7 DEF CoIInv

LEMMA CoListenersKeep ==
  ASSUME CoBounds, CoIInv, Co!StorageReady \/ Co!InitClientService \/ Co!BindMonitor \/ Co!BindLimiter
  PROVE  CoIInv'
<1>. USE DEF CoIInv, Co!TypeOK
<1>1. CASE Co!StorageReady
  BY <1>1 DEF Co!StorageReady, Co!watch, Co!history, CoOnClient, CoRightClient, CoWatched
<1>2. CASE Co!InitClientService
  <2>1. ~environment.ready /\ ~monitor.ready /\ ~limiter.ready
    BY <1>2 DEF Co!InitClientService, Co!EnvironmentTurns, CoOnClient, Co!Listener
  <2>2. Co!TypeOK'
    <3>1. client' = client \/ client' = [id |-> client.id + 1, server |-> target]
      BY <1>2 DEF Co!InitClientService
    <3>2. /\ client' \in [id : Nat \ {0}, server : CoServer \cup {CoSdkServer}]
          /\ client'.id >= client.id
      BY <3>1
    <3>3. requests' \subseteq 1..client'.id
      BY <1>2, <3>2 DEF Co!InitClientService, Co!watch
    <3>4. environment' \in [ready : BOOLEAN, changeCounter : Nat]
      BY <1>2 DEF Co!InitClientService
    <3>. QED  BY <1>2, <3>2, <3>3, <3>4 DEF Co!InitClientService, Co!watch, Co!history
  <2>3. CoOnClient(monitor)' /\ CoOnClient(limiter)'
    BY <1>2, <2>1 DEF Co!InitClientService, CoOnClient, Co!Listener
  <2>4. CoRightClient'
    BY <1>2, <2>1 DEF Co!InitClientService, CoRightClient
  <2>5. CoWatched'
    BY <1>2 DEF Co!InitClientService, CoWatched, Co!watch, Co!history
  <2>. QED  BY <2>2, <2>3, <2>4, <2>5
<1>3. CASE Co!BindMonitor
  <2>1. environment.ready
    BY <1>3 DEF Co!BindMonitor, Co!Turns, Co!Rebinds, CoOnClient
  <2>2. client' = client /\ environment' = environment /\ monitor' = Co!Bound(monitor)
    BY <1>3 DEF Co!BindMonitor
  <2>3. monitor' \in Co!Listener /\ CoOnClient(monitor)'
    BY <2>1, <2>2, CoBoundType DEF CoOnClient
  <2>4. Co!TypeOK' /\ CoOnClient(limiter)' /\ CoRightClient'
    BY <1>3, <2>3 DEF Co!BindMonitor, CoOnClient, CoRightClient, Co!history
  <2>5. CoWatched'
    BY <1>3 DEF Co!BindMonitor, CoWatched, Co!history, Co!Listener
  <2>. QED  BY <2>3, <2>4, <2>5
<1>4. CASE Co!BindLimiter
  <2>1. environment.ready
    BY <1>4 DEF Co!BindLimiter, Co!Turns, Co!Rebinds, CoOnClient
  <2>2. client' = client /\ environment' = environment /\ limiter' = Co!Bound(limiter)
    BY <1>4 DEF Co!BindLimiter
  <2>3. limiter' \in Co!Listener /\ CoOnClient(limiter)'
    BY <2>1, <2>2, CoBoundType DEF CoOnClient
  <2>4. Co!TypeOK' /\ CoOnClient(monitor)' /\ CoRightClient' /\ CoWatched'
    BY <1>4, <2>3 DEF Co!BindLimiter, CoOnClient, CoRightClient, CoWatched, Co!watch, Co!history
  <2>. QED  BY <2>3, <2>4
<1>. QED  BY <1>1, <1>2, <1>3, <1>4

\* What leaves the clients and the listeners alone keeps what is said of them.
LEMMA CoClientsKept ==
  ASSUME CoIInv, UNCHANGED <<target, client, environment, monitor, limiter, elsewhere>>
  PROVE  CoOnClient(monitor)' /\ CoOnClient(limiter)' /\ CoRightClient'
  BY DEF CoIInv, CoOnClient, CoRightClient

LEMMA CoRequestKeeps == ASSUME CoBounds, CoIInv, Co!Request PROVE CoIInv'
<1>1. CoOnClient(monitor)' /\ CoOnClient(limiter)' /\ CoRightClient'
  BY CoClientsKept DEF Co!Request
<1>2. events' \in 0..CoMaxEvents
  BY DEF Co!Request, Co!Counted, CoBounds, CoIInv, Co!TypeOK
<1>3. CASE limiter.bound = client.id /\ throttling
  <2>1. UNCHANGED <<requests, slipped, missed, monitor, checks, throttling>>
    BY <1>3 DEF Co!Request
  <2>2. CASE Co!MonitorHears(FALSE)
    <3>1. /\ connectivity' \in BOOLEAN /\ alerts' \subseteq Co!Message /\ timer' = TRUE
          /\ "disconnected" \in alerts' => ~connectivity'
      BY <2>2, CoHearsKeeps DEF CoIInv, CoWatched
    <3>. QED  BY <1>1, <1>2, <2>1, <3>1 DEF CoIInv, Co!TypeOK, CoWatched, Co!Request
  <2>3. CASE UNCHANGED <<connectivity, alerts, timer>>
    BY <1>1, <1>2, <2>1, <2>3 DEF CoIInv, Co!TypeOK, CoWatched, Co!Request
  <2>. QED  BY <1>3, <2>2, <2>3 DEF Co!Request
<1>4. CASE ~(limiter.bound = client.id /\ throttling)
  <2>1. limiter.ready => limiter.bound = client.id
    BY CoSettledOnClient DEF Co!Request
  <2>2. ~slipped'
    BY <1>4, <2>1 DEF Co!Request, CoIInv, CoWatched
  <2>3. requests' \subseteq 1..client'.id
    <3>1. client.id \in Nat \ {0} /\ requests \subseteq 1..client.id
      BY DEF CoIInv, Co!TypeOK
    <3>2. client' = client /\ requests' = requests \cup {client.id}
      BY <1>4 DEF Co!Request
    <3>3. client'.id = client.id /\ client.id \in 1..client.id
      BY <3>1, <3>2
    <3>. QED  BY <3>1, <3>2, <3>3
  <2>. QED  BY <1>1, <1>2, <1>4, <2>2, <2>3 DEF CoIInv, Co!TypeOK, CoWatched, Co!Request
<1>. QED  BY <1>3, <1>4

LEMMA CoAnswerKeeps ==
  ASSUME CoBounds, CoIInv, NEW c \in requests, Co!Answer(c)
  PROVE  CoIInv'
<1>1. CoOnClient(monitor)' /\ CoOnClient(limiter)' /\ CoRightClient'
  BY CoClientsKept DEF Co!Answer
<1>2. /\ requests' \subseteq 1..client'.id
      /\ UNCHANGED <<storageReady, target, client, environment, monitor, limiter, checks,
                     elsewhere, slipped, events>>
  BY DEF Co!Answer, CoIInv, Co!TypeOK
<1>3. monitor.ready => monitor.bound = client.id
  BY CoSettledOnClient DEF Co!Answer
<1>4. CASE /\ IF monitor.bound = c THEN \E success \in BOOLEAN : Co!MonitorHears(success)
              ELSE UNCHANGED <<connectivity, alerts, timer>>
           /\ missed' = (missed \/ (monitor.ready /\ c = client.id /\ monitor.bound # c))
           /\ UNCHANGED throttling
  <2>1. ~missed'
    BY <1>3, <1>4 DEF CoIInv, CoWatched
  <2>2. CASE monitor.bound = c
    <3>1. PICK success \in BOOLEAN : Co!MonitorHears(success)
      BY <1>4, <2>2
    <3>2. /\ connectivity' \in BOOLEAN /\ alerts' \subseteq Co!Message /\ timer' = TRUE
          /\ "disconnected" \in alerts' => ~connectivity'
      BY <3>1, CoHearsKeeps DEF CoIInv, CoWatched
    <3>. QED  BY <1>1, <1>2, <1>4, <2>1, <3>2 DEF CoIInv, Co!TypeOK, CoWatched
  <2>3. CASE monitor.bound # c
    BY <1>1, <1>2, <1>4, <2>1, <2>3 DEF CoIInv, Co!TypeOK, CoWatched
  <2>. QED  BY <2>2, <2>3
<1>5. CASE /\ IF limiter.bound = c THEN Co!LimiterHears ELSE UNCHANGED <<throttling, alerts>>
           /\ UNCHANGED <<connectivity, timer, missed>>
  BY <1>1, <1>2, <1>5 DEF CoIInv, Co!TypeOK, CoWatched, Co!LimiterHears, Co!Message
<1>6. CASE UNCHANGED <<connectivity, alerts, timer, throttling, missed>>
  BY <1>1, <1>2, <1>6 DEF CoIInv, Co!TypeOK, CoWatched
<1>. QED  BY <1>4, <1>5, <1>6 DEF Co!Answer

LEMMA CoChecksKeep ==
  ASSUME CoBounds, CoIInv, Co!Offline \/ Co!CheckConnection \/ Co!Checked
  PROVE  CoIInv'
<1>1. CoOnClient(monitor)' /\ CoOnClient(limiter)' /\ CoRightClient'
  BY CoClientsKept DEF Co!Offline, Co!CheckConnection, Co!Checked, Co!history
<1>2. CASE Co!Offline
  <2>1. /\ connectivity' \in BOOLEAN /\ alerts' \subseteq Co!Message /\ timer' = TRUE
        /\ "disconnected" \in alerts' => ~connectivity'
    BY <1>2, CoHearsKeeps DEF Co!Offline, CoIInv, CoWatched
  <2>2. events' \in 0..CoMaxEvents
    BY <1>2 DEF Co!Offline, Co!Counted, CoBounds, CoIInv, Co!TypeOK
  <2>. QED  BY <1>1, <1>2, <2>1, <2>2 DEF Co!Offline, CoIInv, Co!TypeOK, CoWatched, Co!history
<1>3. CASE Co!CheckConnection
  <2>1. checks' \in 0..CoMaxChecks /\ checks' > 0
    BY <1>3 DEF Co!CheckConnection, CoBounds, CoIInv, Co!TypeOK
  <2>. QED  BY <1>1, <1>3, <2>1 DEF Co!CheckConnection, CoIInv, Co!TypeOK, CoWatched, Co!history
<1>4. CASE Co!Checked
  <2>1. PICK success \in BOOLEAN : Co!MonitorHears(success)
    BY <1>4 DEF Co!Checked
  <2>2. /\ connectivity' \in BOOLEAN /\ alerts' \subseteq Co!Message /\ timer' = TRUE
        /\ "disconnected" \in alerts' => ~connectivity'
    BY <2>1, CoHearsKeeps DEF CoIInv, CoWatched
  <2>3. checks' \in 0..CoMaxChecks
    BY <1>4 DEF Co!Checked, CoBounds, CoIInv, Co!TypeOK
  <2>. QED  BY <1>1, <1>4, <2>2, <2>3 DEF Co!Checked, CoIInv, Co!TypeOK, CoWatched, Co!history
<1>. QED  BY <1>2, <1>3, <1>4

\* Where the server changes, so do the client and the counter: both listeners have to look.
LEMMA CoSetDataKeeps ==
  ASSUME CoBounds, CoIInv, NEW t \in CoServer \cup {CoSdkServer}, Co!SetData(t)
  PROVE  CoIInv'
<1>1. events' \in 0..CoMaxEvents
  BY DEF Co!SetData, Co!Counted, CoBounds, CoIInv, Co!TypeOK
<1>2. UNCHANGED <<storageReady, monitor, limiter, Co!watch, Co!history>> /\ environment.ready
  BY DEF Co!SetData
<1>3. CASE t = target
  BY <1>1, <1>2, <1>3 DEF Co!SetData, CoIInv, Co!TypeOK, CoOnClient, CoRightClient, CoWatched, Co!watch, Co!history
<1>4. CASE t # target
  <2>1. /\ client' = [id |-> client.id + 1, server |-> t] /\ target' = t
        /\ environment' = [environment EXCEPT !.changeCounter = @ + 1]
    BY <1>4 DEF Co!SetData
  <2>2. /\ environment'.changeCounter = environment.changeCounter + 1
        /\ environment'.ready = environment.ready
        /\ environment' \in [ready : BOOLEAN, changeCounter : Nat]
    BY <2>1 DEF CoIInv, Co!TypeOK
  <2>3. client' \in [id : Nat \ {0}, server : CoServer \cup {CoSdkServer}]
        /\ requests' \subseteq 1..client'.id
    BY <1>2, <2>1 DEF CoIInv, Co!TypeOK, Co!watch
  <2>4. CoOnClient(monitor)' /\ CoOnClient(limiter)'
    BY <1>2, <2>2 DEF CoIInv, Co!TypeOK, Co!Listener, CoOnClient
  <2>5. CoRightClient'
    BY <1>2, <2>1, <2>2 DEF CoRightClient
  <2>6. Co!TypeOK' /\ CoWatched'
    BY <1>1, <1>2, <2>1, <2>2, <2>3 DEF CoIInv, Co!TypeOK, CoWatched, Co!watch, Co!history
  <2>. QED  BY <2>4, <2>5, <2>6 DEF CoIInv
<1>. QED  BY <1>3, <1>4

LEMMA CoOthersKeep ==
  ASSUME CoBounds, CoIInv,
         \/ \E t \in CoServer \cup {CoSdkServer} : Co!SetElsewhere(t)
         \/ Co!ThrottleOver
         \/ \E alert \in alerts : Co!Dismiss(alert)
  PROVE  CoIInv'
<1>1. CASE \E t \in CoServer \cup {CoSdkServer} : Co!SetElsewhere(t)
  <2>1. environment.ready /\ elsewhere' = TRUE /\ target' \in CoServer \cup {CoSdkServer}
    BY <1>1, CoSettledReady DEF Co!SetElsewhere
  <2>2. events' \in 0..CoMaxEvents
    BY <1>1 DEF Co!SetElsewhere, Co!Counted, CoBounds, CoIInv, Co!TypeOK
  <2>3. UNCHANGED <<storageReady, client, environment, monitor, limiter, Co!watch, slipped, missed>>
    BY <1>1 DEF Co!SetElsewhere
  <2>. QED  BY <2>1, <2>2, <2>3 DEF CoIInv, Co!TypeOK, CoOnClient, CoRightClient, CoWatched, Co!watch
<1>2. CASE Co!ThrottleOver
  <2>1. CoOnClient(monitor)' /\ CoOnClient(limiter)' /\ CoRightClient'
    BY <1>2, CoClientsKept DEF Co!ThrottleOver, Co!history
  <2>. QED  BY <1>2, <2>1 DEF Co!ThrottleOver, CoIInv, Co!TypeOK, CoWatched, Co!history
<1>3. CASE \E alert \in alerts : Co!Dismiss(alert)
  <2>1. CoOnClient(monitor)' /\ CoOnClient(limiter)' /\ CoRightClient'
    BY <1>3, CoClientsKept DEF Co!Dismiss, Co!history
  <2>. QED  BY <1>3, <2>1 DEF Co!Dismiss, CoIInv, Co!TypeOK, CoWatched, Co!history
<1>. QED  BY <1>1, <1>2, <1>3

LEMMA CoNextIInv == ASSUME CoBounds PROVE CoIInv /\ [Co!Next]_(Co!vars) => CoIInv'
<1>. SUFFICES ASSUME CoIInv, [Co!Next]_(Co!vars) PROVE CoIInv'
  OBVIOUS
<1>1. CASE UNCHANGED Co!vars
  BY <1>1 DEF Co!vars, CoIInv, Co!TypeOK, CoOnClient, CoRightClient, CoWatched
<1>2. CASE Co!Next
  BY <1>2, CoListenersKeep, CoRequestKeeps, CoAnswerKeeps, CoChecksKeep, CoSetDataKeeps, CoOthersKeep
  DEF Co!Next
<1>. QED  BY <1>1, <1>2

\* For any servers and bounds, and however clients are replaced, listeners bound, requests
\* answered and checks repeated: the connection is always going to be checked, no answer is
\* missed, no request passes the limit, no alert is out of date, and the client is one for the
\* server that was chosen here.
LEMMA CoConnectionIsWatched == ASSUME CoBounds PROVE CoIInv => Co!ConnectionWatched
  BY DEF CoIInv, Co!ConnectionWatched, CoWatched, CoRightClient

-----------------------------------------------------------------------------
(***************************************************************************)
(* Proofs about the injector: for any number of tokens and any providers,  *)
(* a bootstrap ends well only if nothing is circular or missing, says what *)
(* is, and makes instances once and in order.                              *)
(***************************************************************************)

InBounds == InTokens \in Nat /\ InMaxRetries \in Nat /\ InBase \in [In!Token -> In!Need]

InProvider == {In!Absent} \cup {In!Existing(u) : u \in In!Token} \cup {In!Class(deps) : deps \in [In!Token -> In!Need]}
InFrame == [token : In!Token, rest : SUBSET In!Token]

InFits == /\ providers \in [In!Token -> InProvider] /\ stack \in Seq(InFrame)
          /\ pending \subseteq In!Token /\ left \subseteq In!Token
          /\ container \in [In!Token -> 0..InTokens] /\ made \in Seq(In!Token)
          /\ status \in {"running", "done"} \cup In!Failure /\ retries \in 0..InMaxRetries

InIsExisting(t) == providers[t].kind = "existing"
InUses(t) == IF InIsExisting(t) THEN {providers[t].use} ELSE In!Deps(t)

\* There is an instance of d, or t can do without.
InMet(t, d) == In!Resolved(d) \/ (~In!Has(d) /\ ~InIsExisting(t) /\ providers[t].deps[d] = "optional")

\* A frame is of a token without an instance, whose other dependencies are met.
InFrameFits(f) ==
  /\ In!Has(f.token) /\ ~In!Resolved(f.token) /\ f.token \in pending
  /\ f.rest \subseteq InUses(f.token)
  /\ \A d \in InUses(f.token) \ f.rest : InMet(f.token, d)
InFramesFit == \A i \in DOMAIN stack : InFrameFits(stack[i])

\* A frame is there for the one below.
InChained == \A i \in DOMAIN stack : i > 1 => stack[i - 1].token \in stack[i].rest

\* A token comes back only by way of an alias, and then finds what brought it here pending.
InRepeats ==
  \A i, j \in DOMAIN stack : i < j /\ stack[i].token = stack[j].token =>
    /\ ~InIsExisting(stack[i].token) /\ InIsExisting(stack[i + 1].token)
    /\ stack[j - 1].token \in stack[i].rest

InPendingKnown == pending \subseteq left \cup {stack[i].token : i \in DOMAIN stack}

\* What is in the container.
InInstanceOf(t) == IF InIsExisting(t) THEN container[providers[t].use] ELSE t
InContainerFits ==
  \A t \in In!Token : In!Resolved(t) =>
    /\ In!Has(t) /\ \A d \in InUses(t) : InMet(t, d)
    /\ container[t] = InInstanceOf(t)
    /\ \E j \in DOMAIN made : made[j] = container[t]

InMadeInOrder ==
  \A i \in DOMAIN made :
    /\ In!Resolved(made[i]) /\ container[made[i]] = made[i] /\ ~InIsExisting(made[i])
    /\ \A d \in In!Edges(made[i]) : \E j \in 1..(i - 1) : made[j] = container[d]
InMadeOnce == \A i, j \in DOMAIN made : made[i] = made[j] => i = j

\* What has instances has no circles.
InAcyclic ==
  \A S \in SUBSET In!Token : S # {} /\ (\A t \in S : In!Resolved(t)) => \E t \in S : In!Edges(t) \cap S = {}

InStatusTold ==
  /\ status = "done" => ~In!HasCycle /\ ~In!HasGap /\ \A t \in In!Providing : In!Resolved(t)
  /\ status = "circular" => In!HasCycle \/ left # {}
  /\ status = "notFound" => In!HasGap

InIInv == InFits /\ InFramesFit /\ InChained /\ InRepeats /\ InPendingKnown /\ InContainerFits /\ InMadeInOrder
            /\ InMadeOnce /\ InAcyclic /\ InStatusTold

--------------------
(* Sequences and providers. *)

LEMMA InConsed ==
  ASSUME NEW S, NEW s \in Seq(S), NEW x \in S
  PROVE  /\ <<x>> \o s \in Seq(S) /\ DOMAIN (<<x>> \o s) = 1..(Len(s) + 1)
         /\ (<<x>> \o s)[1] = x /\ \A i \in DOMAIN s : (<<x>> \o s)[i + 1] = s[i]
  OBVIOUS

LEMMA InTailed ==
  ASSUME NEW S, NEW s \in Seq(S), s # <<>>
  PROVE  /\ Tail(s) \in Seq(S) /\ DOMAIN Tail(s) = 1..(Len(s) - 1)
         /\ \A i \in DOMAIN Tail(s) : i + 1 \in DOMAIN s /\ Tail(s)[i] = s[i + 1]
         /\ Head(s) = s[1] /\ 1 \in DOMAIN s /\ Len(s) \in Nat \ {0} /\ DOMAIN s = 1..Len(s)
  OBVIOUS

LEMMA InAppended ==
  ASSUME NEW S, NEW s \in Seq(S), NEW x \in S
  PROVE  /\ Append(s, x) \in Seq(S) /\ DOMAIN Append(s, x) = 1..(Len(s) + 1)
         /\ DOMAIN s = 1..Len(s) /\ Len(s) \in Nat
         /\ Append(s, x)[Len(s) + 1] = x /\ \A i \in DOMAIN s : Append(s, x)[i] = s[i]
  OBVIOUS

LEMMA InProviderKinds ==
  ASSUME InFits, NEW t \in In!Token
  PROVE  /\ InIsExisting(t) => providers[t].use \in In!Token /\ In!Has(t)
         /\ In!Has(t) /\ ~InIsExisting(t) => providers[t].kind = "class" /\ providers[t].deps \in [In!Token -> In!Need]
         /\ In!Has(t) => InUses(t) \subseteq In!Token
         /\ In!Has(t) => In!Edges(t) = {d \in InUses(t) : In!Has(d)}
<1>1. providers[t] \in InProvider
  BY DEF InFits
<1>2. CASE providers[t] = In!Absent
  BY <1>2 DEF In!Absent, InIsExisting, In!Has
<1>3. CASE \E u \in In!Token : providers[t] = In!Existing(u)
  <2>. PICK u \in In!Token : providers[t] = In!Existing(u)
    BY <1>3
  <2>1. InIsExisting(t) /\ providers[t].use = u /\ In!Has(t)
    BY DEF In!Existing, InIsExisting, In!Has, In!Absent
  <2>. QED  BY <2>1 DEF InUses, In!Edges, InIsExisting
<1>4. CASE \E deps \in [In!Token -> In!Need] : providers[t] = In!Class(deps)
  <2>. PICK deps \in [In!Token -> In!Need] : providers[t] = In!Class(deps)
    BY <1>4
  <2>1. ~InIsExisting(t) /\ providers[t].deps = deps /\ providers[t].kind = "class"
    BY DEF In!Class, InIsExisting
  <2>2. InUses(t) \subseteq In!Token
    BY <2>1 DEF InUses, In!Deps
  <2>3. In!Edges(t) = {d \in InUses(t) : In!Has(d)}
    BY <2>1 DEF InUses, In!Edges, In!Deps, InIsExisting
  <2>. QED  BY <2>1, <2>2, <2>3
<1>. QED  BY <1>1, <1>2, <1>3, <1>4 DEF InProvider

LEMMA InFramesType ==
  ASSUME InFits
  PROVE  \A i \in DOMAIN stack : /\ stack[i] \in InFrame /\ stack[i].token \in In!Token
                                 /\ stack[i].rest \subseteq In!Token
<1>1. \A i \in DOMAIN stack : stack[i] \in InFrame
  BY DEF InFits
<1>. QED  BY <1>1 DEF InFrame

\* What the properties of providers depend on.
LEMMA InProvidersKept ==
  ASSUME providers' = providers
  PROVE  /\ \A t : /\ In!Has(t)' = In!Has(t) /\ InIsExisting(t)' = InIsExisting(t)
                   /\ InUses(t)' = InUses(t) /\ In!Edges(t)' = In!Edges(t) /\ In!Deps(t)' = In!Deps(t)
         /\ In!Providing' = In!Providing /\ In!HasCycle' = In!HasCycle /\ In!HasGap' = In!HasGap
<1>1. \A t : In!Has(t)' = In!Has(t) /\ InIsExisting(t)' = InIsExisting(t)
  BY DEF In!Has, InIsExisting
<1>2. \A t : In!Deps(t)' = In!Deps(t)
  BY DEF In!Deps
<1>3. \A t : InUses(t)' = InUses(t) /\ In!Edges(t)' = In!Edges(t)
  BY <1>1, <1>2 DEF InUses, In!Edges
<1>4. In!Providing' = In!Providing
  BY <1>1 DEF In!Providing
<1>5. In!HasCycle' = In!HasCycle
  BY <1>3, <1>4 DEF In!HasCycle
<1>6. In!HasGap' = In!HasGap
  BY <1>1, <1>4 DEF In!HasGap
<1>. QED  BY <1>1, <1>2, <1>3, <1>4, <1>5, <1>6

--------------------
(* The inductive invariant. *)

LEMMA InInitIInv == ASSUME InBounds PROVE In!Init => InIInv
<1>. SUFFICES ASSUME In!Init PROVE InIInv
  OBVIOUS
<1>1. \A t \in In!Token : In!Providers(t) \subseteq InProvider
  <2>. SUFFICES ASSUME NEW t \in In!Token, NEW deps \in [In!Token -> In!Need]
                PROVE  In!MergeDependencies(deps, InBase) \in [In!Token -> In!Need]
    BY DEF In!Providers, InProvider, In!OwnDeps
  <2>. QED  BY DEF In!MergeDependencies, In!Stronger, In!Need
<1>2. providers \in [In!Token -> InProvider]
  BY <1>1 DEF In!Init
<1>3. InFits
  BY <1>2 DEF In!Init, InFits, InBounds, In!Failure
<1>4. stack = <<>> /\ made = <<>> /\ \A t \in In!Token : ~In!Resolved(t)
  BY DEF In!Init, In!Resolved
<1>5. InFramesFit /\ InChained /\ InRepeats /\ InMadeInOrder /\ InMadeOnce
  BY <1>4 DEF InFramesFit, InChained, InRepeats, InMadeInOrder, InMadeOnce
<1>6. InPendingKnown /\ InContainerFits /\ InAcyclic /\ InStatusTold
  BY <1>4 DEF In!Init, InPendingKnown, InContainerFits, InAcyclic, InStatusTold
<1>. QED  BY <1>3, <1>5, <1>6 DEF InIInv

\* How a bootstrap ends.
LEMMA InFailsKeeps ==
  ASSUME InIInv, NEW how \in {"done"} \cup In!Failure, In!Fails(how),
         how = "done" => ~In!HasCycle /\ ~In!HasGap /\ \A t \in In!Providing : In!Resolved(t),
         how = "circular" => In!HasCycle \/ left # {},
         how = "notFound" => In!HasGap
  PROVE  InIInv'
<1>1. UNCHANGED <<providers, stack, pending, container, made, left, retries>> /\ status' = how
  BY DEF In!Fails
<1>2. InFits'
  BY <1>1 DEF InIInv, InFits
<1>3. /\ \A t : In!Has(t)' = In!Has(t) /\ InIsExisting(t)' = InIsExisting(t)
                  /\ InUses(t)' = InUses(t) /\ In!Edges(t)' = In!Edges(t) /\ In!Resolved(t)' = In!Resolved(t)
      /\ In!Providing' = In!Providing /\ In!HasCycle' = In!HasCycle /\ In!HasGap' = In!HasGap
  BY <1>1, InProvidersKept DEF In!Resolved
<1>4. InFramesFit' /\ InChained' /\ InRepeats' /\ InPendingKnown'
  BY <1>1, <1>3 DEF InIInv, InFramesFit, InFrameFits, InChained, InRepeats, InPendingKnown, InMet
<1>5. InContainerFits' /\ InMadeInOrder' /\ InMadeOnce' /\ InAcyclic'
  BY <1>1, <1>3 DEF InIInv, InContainerFits, InInstanceOf, InMet, InMadeInOrder, InMadeOnce, InAcyclic
<1>6. InStatusTold'
  BY <1>1, <1>3 DEF InStatusTold
<1>. QED  BY <1>2, <1>4, <1>5, <1>6 DEF InIInv

\* A call for a token that is not there yet.
LEMMA InResolveKeeps ==
  ASSUME InIInv, In!Running, NEW t \in In!Token, In!Has(t), ~In!Resolved(t), In!Resolve(t),
         stack # <<>> => t \in stack[1].rest,
         t \in pending /\ stack # <<>> => ~InIsExisting(t) /\ InIsExisting(stack[1].token)
  PROVE  InIInv'
<1>. DEFINE f == [token |-> t, rest |-> InUses(t)]
<1>1. /\ stack' = <<f>> \o stack /\ pending' = pending \cup {t}
      /\ UNCHANGED <<providers, container, made, status, left, retries>>
  BY DEF In!Resolve, InUses, InIsExisting
<1>2. InFits /\ InFramesFit /\ InChained /\ InRepeats /\ InPendingKnown
  BY DEF InIInv
<1>0. PICK g \in InFrame : g = f
  BY <1>2, InProviderKinds DEF InFrame
<1>3. g \in InFrame /\ g.token = t /\ g.rest = InUses(t) /\ stack' = <<g>> \o stack
  BY <1>0, <1>1
<1>. HIDE DEF f
<1>4. /\ stack' \in Seq(InFrame) /\ DOMAIN stack' = 1..(Len(stack) + 1) /\ stack'[1] = g
      /\ \A i \in DOMAIN stack : stack'[i + 1] = stack[i]
      /\ DOMAIN stack = 1..Len(stack) /\ Len(stack) \in Nat
  BY <1>1, <1>2, <1>3, InConsed DEF InFits
<1>5. /\ \A u : In!Has(u)' = In!Has(u) /\ InIsExisting(u)' = InIsExisting(u) /\ InUses(u)' = InUses(u)
                  /\ In!Edges(u)' = In!Edges(u) /\ In!Resolved(u)' = In!Resolved(u)
      /\ In!Providing' = In!Providing /\ In!HasCycle' = In!HasCycle /\ In!HasGap' = In!HasGap
  BY <1>1, InProvidersKept DEF In!Resolved
<1>6. InFits'
  BY <1>1, <1>2, <1>4 DEF InFits
<1>7. \A i \in DOMAIN stack' : i = 1 \/ (i - 1 \in DOMAIN stack /\ i = (i - 1) + 1)
  BY <1>4
<1>8. \A i \in DOMAIN stack' : i # 1 => i - 1 \in DOMAIN stack /\ stack'[i] = stack[i - 1]
  BY <1>4, <1>7
<1>9. InFramesFit'
  <2>1. InFrameFits(g)'
    BY <1>1, <1>3, <1>5 DEF InFrameFits
  <2>. SUFFICES ASSUME NEW i \in DOMAIN stack' PROVE InFrameFits(stack[i])'
    BY DEF InFramesFit
  <2>2. CASE i = 1
    BY <1>4, <2>1, <2>2 DEF InFrameFits
  <2>3. CASE i # 1
    <3>1. i - 1 \in DOMAIN stack /\ stack'[i] = stack[i - 1]
      BY <1>8, <2>3
    <3>2. PICK h \in InFrame : h = stack[i - 1]
      BY <1>2, <3>1 DEF InFits
    <3>3. InFrameFits(h)
      BY <1>2, <3>1, <3>2 DEF InFramesFit
    <3>4. InFrameFits(h)'
      BY <1>1, <1>5, <3>3 DEF InFrameFits, InMet
    <3>. QED  BY <3>1, <3>2, <3>4 DEF InFrameFits
  <2>. QED  BY <2>2, <2>3
<1>10. InChained'
  <2>. SUFFICES ASSUME NEW i \in DOMAIN stack', i > 1 PROVE stack'[i - 1].token \in stack'[i].rest
    BY DEF InChained
  <2>1. i - 1 \in DOMAIN stack /\ stack'[i] = stack[i - 1]
    BY <1>8
  <2>2. CASE i = 2
    <3>1. stack # <<>> /\ stack'[i - 1] = g /\ stack'[i] = stack[1]
      BY <1>4, <2>1, <2>2
    <3>. QED  BY <1>3, <3>1
  <2>3. CASE i # 2
    <3>1. i - 1 \in DOMAIN stack' /\ i - 1 # 1 /\ i - 1 > 1
      BY <1>4, <2>1, <2>3
    <3>2. stack'[i - 1] = stack[(i - 1) - 1]
      BY <1>8, <3>1
    <3>. QED  BY <1>2, <2>1, <3>1, <3>2 DEF InChained
  <2>. QED  BY <2>2, <2>3
<1>11. InRepeats'
  <2>. SUFFICES ASSUME NEW i \in DOMAIN stack', NEW j \in DOMAIN stack', i < j,
                       stack'[i].token = stack'[j].token
                PROVE  /\ ~InIsExisting(stack'[i].token) /\ InIsExisting(stack'[i + 1].token)
                       /\ stack'[j - 1].token \in stack'[i].rest
    BY <1>5 DEF InRepeats
  <2>1. j - 1 \in DOMAIN stack /\ stack'[j] = stack[j - 1] /\ j # 1
    BY <1>4, <1>8
  <2>2. CASE i = 1
    <3>1. /\ stack[j - 1].token = t /\ stack # <<>> /\ 1 \in DOMAIN stack /\ stack'[i] = g
          /\ stack'[i + 1] = stack[1]
      BY <1>3, <1>4, <2>1, <2>2
    <3>2. InFrameFits(stack[j - 1])
      BY <1>2, <2>1 DEF InFramesFit
    <3>3. t \in pending
      BY <3>1, <3>2 DEF InFrameFits
    <3>4. ~InIsExisting(t) /\ InIsExisting(stack[1].token)
      BY <3>1, <3>3
    <3>5. stack[j - 1].rest \subseteq InUses(t)
      BY <3>1, <3>2 DEF InFrameFits
    <3>6. j # 2
      BY <3>1, <3>4
    <3>7. j - 1 > 1 /\ j - 1 \in DOMAIN stack'
      BY <1>4, <2>1, <3>6
    <3>8. stack'[j - 1] = stack[(j - 1) - 1]
      BY <1>8, <3>7
    <3>9. stack'[j - 1].token \in stack[j - 1].rest
      BY <1>2, <2>1, <3>7, <3>8 DEF InChained
    <3>. QED  BY <1>3, <3>1, <3>4, <3>5, <3>9
  <2>3. CASE i # 1
    <3>1. i - 1 \in DOMAIN stack /\ stack'[i] = stack[i - 1]
      BY <1>8, <2>3
    <3>2. i \in DOMAIN stack /\ stack'[i + 1] = stack[i] /\ (i - 1) + 1 = i
      BY <1>4, <2>1, <3>1
    <3>3. j - 1 \in DOMAIN stack' /\ j - 1 # 1 /\ i - 1 < j - 1
      BY <1>4, <2>1, <2>3, <3>1
    <3>4. stack'[j - 1] = stack[(j - 1) - 1]
      BY <1>8, <3>3
    <3>. QED  BY <1>2, <2>1, <3>1, <3>2, <3>3, <3>4 DEF InRepeats
  <2>. QED  BY <2>2, <2>3
<1>12. InPendingKnown'
  <2>. SUFFICES ASSUME NEW u \in pending', u \notin left
                PROVE  \E i \in DOMAIN stack' : stack'[i].token = u
    BY <1>1 DEF InPendingKnown
  <2>1. CASE u = t
    BY <1>3, <1>4, <2>1
  <2>2. CASE u # t
    <3>1. PICK i \in DOMAIN stack : stack[i].token = u
      BY <1>1, <1>2, <2>2 DEF InPendingKnown
    <3>2. i + 1 \in DOMAIN stack' /\ stack'[i + 1] = stack[i]
      BY <1>4
    <3>. QED  BY <3>1, <3>2
  <2>. QED  BY <2>1, <2>2
<1>13. InContainerFits' /\ InMadeInOrder' /\ InMadeOnce' /\ InAcyclic'
  BY <1>1, <1>5 DEF InIInv, InContainerFits, InInstanceOf, InMet, InMadeInOrder, InMadeOnce, InAcyclic
<1>14. InStatusTold'
  BY <1>1 DEF In!Running, InStatusTold
<1>. QED  BY <1>6, <1>9, <1>10, <1>11, <1>12, <1>13, <1>14 DEF InIInv

LEMMA InNextProviderKeeps == ASSUME InIInv, In!NextProvider PROVE InIInv'
<1>. DEFINE rest == {t \in In!Token : In!Has(t) /\ ~In!Resolved(t)}
<1>1. CASE rest = {}
  <2>1. In!Fails("done")
    BY <1>1 DEF In!NextProvider
  <2>2. \A t \in In!Providing : In!Resolved(t) /\ t \in In!Token
    BY <1>1 DEF In!Providing
  <2>3. ~In!HasCycle
    <3>. SUFFICES ASSUME In!HasCycle PROVE FALSE
      OBVIOUS
    <3>1. PICK S \in (SUBSET In!Providing) \ {{}} : \A t \in S : In!Edges(t) \cap S # {}
      BY DEF In!HasCycle
    <3>2. S \in SUBSET In!Token /\ \A t \in S : In!Resolved(t)
      BY <2>2
    <3>. QED  BY <3>1, <3>2 DEF InIInv, InAcyclic
  <2>4. ~In!HasGap
    <3>. SUFFICES ASSUME In!HasGap PROVE FALSE
      OBVIOUS
    <3>1. PICK t \in In!Providing : IF InIsExisting(t) THEN ~In!Has(providers[t].use)
                                    ELSE \E d \in In!Token : providers[t].deps[d] = "required" /\ ~In!Has(d)
      BY DEF In!HasGap, InIsExisting
    <3>2. /\ t \in In!Token /\ In!Resolved(t) /\ In!Has(t) /\ \A d \in InUses(t) : InMet(t, d)
          /\ \A d \in In!Token : In!Resolved(d) => In!Has(d)
      BY <2>2 DEF InIInv, InContainerFits
    <3>3. CASE InIsExisting(t)
      <4>1. providers[t].use \in InUses(t) /\ providers[t].use \in In!Token
        BY <3>2, <3>3, InProviderKinds DEF InUses, InIInv
      <4>. QED  BY <3>1, <3>2, <3>3, <4>1 DEF InMet
    <3>4. CASE ~InIsExisting(t)
      <4>1. PICK d \in In!Token : providers[t].deps[d] = "required" /\ ~In!Has(d)
        BY <3>1, <3>4
      <4>2. d \in InUses(t)
        BY <3>4, <4>1 DEF InUses, In!Deps
      <4>. QED  BY <3>2, <4>1, <4>2 DEF InMet
    <3>. QED  BY <3>3, <3>4
  <2>. QED  BY <2>1, <2>2, <2>3, <2>4, InFailsKeeps DEF In!Failure
<1>2. CASE rest # {}
  <2>1. PICK t \in rest : In!Resolve(t)
    BY <1>2 DEF In!NextProvider
  <2>2. stack = <<>> /\ In!Running
    BY DEF In!NextProvider
  <2>. QED  BY <2>1, <2>2, InResolveKeeps
<1>. QED  BY <1>1, <1>2

\* The frame on top.
LEMMA InTopFits ==
  ASSUME InIInv, stack # <<>>
  PROVE  /\ 1 \in DOMAIN stack /\ In!Top = stack[1] /\ In!Top \in InFrame /\ InFrameFits(In!Top)
         /\ DOMAIN stack = 1..Len(stack) /\ Len(stack) \in Nat \ {0}
<1>1. stack \in Seq(InFrame)
  BY DEF InIInv, InFits
<1>2. /\ 1 \in DOMAIN stack /\ In!Top = stack[1] /\ Len(stack) \in Nat \ {0}
      /\ DOMAIN stack = 1..Len(stack)
  BY <1>1, InTailed DEF In!Top
<1>3. In!Top \in InFrame
  BY <1>1, <1>2
<1>. QED  BY <1>2, <1>3 DEF InIInv, InFramesFit

\* A dependency that is there, or that can be done without, is passed over.
LEMMA InGoesKeeps ==
  ASSUME InIInv, In!Running, stack # <<>>, NEW d \in In!Top.rest, ~In!IsCircular(d), In!Goes(d),
         InMet(In!Top.token, d)
  PROVE  InIInv'
<1>1. /\ stack' = [stack EXCEPT ![1].rest = @ \ {d}]
      /\ UNCHANGED <<providers, pending, container, made, status, left, retries>>
  BY DEF In!Goes
<1>2. /\ 1 \in DOMAIN stack /\ In!Top = stack[1] /\ In!Top \in InFrame /\ InFrameFits(In!Top)
      /\ DOMAIN stack = 1..Len(stack) /\ Len(stack) \in Nat \ {0}
  BY InTopFits
<1>3. InFits /\ InFramesFit /\ InChained /\ InRepeats /\ InPendingKnown
  BY DEF InIInv
<1>4. /\ stack' \in Seq(InFrame) /\ DOMAIN stack' = DOMAIN stack
      /\ \A i \in DOMAIN stack : stack'[i].token = stack[i].token
      /\ \A i \in DOMAIN stack : i # 1 => stack'[i] = stack[i]
      /\ stack'[1].rest = stack[1].rest \ {d}
  <2>0. stack \in Seq(InFrame)
    BY <1>3 DEF InFits
  <2>1. stack' = [i \in DOMAIN stack |-> IF i = 1 THEN [stack[1] EXCEPT !.rest = @ \ {d}] ELSE stack[i]]
    BY <1>1, <1>2, <2>0
  <2>2. [stack[1] EXCEPT !.rest = @ \ {d}] \in InFrame
    BY <1>2 DEF InFrame
  <2>3. [stack[1] EXCEPT !.rest = @ \ {d}].token = stack[1].token
    BY <1>2 DEF InFrame
  <2>4. [stack[1] EXCEPT !.rest = @ \ {d}].rest = stack[1].rest \ {d}
    BY <1>2 DEF InFrame
  <2>5. \A i \in DOMAIN stack : stack'[i] \in InFrame
    BY <2>0, <2>1, <2>2
  <2>6. stack' \in [1..Len(stack) -> InFrame]
    BY <1>2, <2>1, <2>5
  <2>7. stack' \in Seq(InFrame)
    BY <1>2, <2>6
  <2>. QED  BY <1>2, <2>1, <2>3, <2>4, <2>7
<1>5. /\ \A u : In!Has(u)' = In!Has(u) /\ InIsExisting(u)' = InIsExisting(u) /\ InUses(u)' = InUses(u)
                  /\ In!Edges(u)' = In!Edges(u) /\ In!Resolved(u)' = In!Resolved(u)
      /\ \A u, v : InMet(u, v)' = InMet(u, v)
      /\ In!Providing' = In!Providing /\ In!HasCycle' = In!HasCycle /\ In!HasGap' = In!HasGap
  <2>1. /\ \A u : In!Has(u)' = In!Has(u) /\ InIsExisting(u)' = InIsExisting(u) /\ InUses(u)' = InUses(u)
                    /\ In!Edges(u)' = In!Edges(u) /\ In!Resolved(u)' = In!Resolved(u)
        /\ In!Providing' = In!Providing /\ In!HasCycle' = In!HasCycle /\ In!HasGap' = In!HasGap
    BY <1>1, InProvidersKept DEF In!Resolved
  <2>2. \A u, v : InMet(u, v)' = InMet(u, v)
    BY <1>1, <2>1 DEF InMet
  <2>. QED  BY <2>1, <2>2
<1>6. InFits'
  BY <1>1, <1>3, <1>4 DEF InFits
<1>7. InFramesFit'
  <2>. SUFFICES ASSUME NEW i \in DOMAIN stack PROVE InFrameFits(stack[i])'
    BY <1>4 DEF InFramesFit
  <2>1. InFrameFits(stack[i])
    BY <1>3 DEF InFramesFit
  <2>2. stack'[i].token = stack[i].token
    BY <1>4
  <2>3. CASE i = 1
    <3>1. stack'[i].rest = stack[i].rest \ {d} /\ InMet(stack[i].token, d)
      BY <1>2, <1>4, <2>3
    <3>. QED  BY <1>1, <1>5, <2>1, <2>2, <3>1 DEF InFrameFits
  <2>4. CASE i # 1
    <3>1. PICK h \in InFrame : h = stack[i]
      BY <1>3 DEF InFits
    <3>2. InFrameFits(h)'
      BY <1>1, <1>5, <2>1, <3>1 DEF InFrameFits
    <3>3. stack'[i] = h
      BY <1>4, <2>4, <3>1
    <3>. QED  BY <3>2, <3>3 DEF InFrameFits
  <2>. QED  BY <2>3, <2>4
<1>8. InChained'
  <2>. SUFFICES ASSUME NEW i \in DOMAIN stack, i > 1 PROVE stack'[i - 1].token \in stack'[i].rest
    BY <1>4 DEF InChained
  <2>1. stack'[i] = stack[i] /\ i - 1 \in DOMAIN stack
    BY <1>2, <1>4
  <2>. QED  BY <1>3, <1>4, <2>1 DEF InChained
<1>9. InRepeats'
  <2>. SUFFICES ASSUME NEW i \in DOMAIN stack, NEW j \in DOMAIN stack, i < j,
                       stack[i].token = stack[j].token
                PROVE  /\ ~InIsExisting(stack'[i].token) /\ InIsExisting(stack'[i + 1].token)
                       /\ stack'[j - 1].token \in stack'[i].rest
    BY <1>4, <1>5 DEF InRepeats
  <2>1. /\ ~InIsExisting(stack[i].token) /\ InIsExisting(stack[i + 1].token)
        /\ stack[j - 1].token \in stack[i].rest
    BY <1>3 DEF InRepeats
  <2>2. i + 1 \in DOMAIN stack /\ j - 1 \in DOMAIN stack
    BY <1>2
  <2>3. stack[j - 1].token \in pending
    BY <1>3, <2>2 DEF InFramesFit, InFrameFits
  <2>4. i = 1 => stack[j - 1].token # d
    BY <1>2, <2>1, <2>3 DEF In!IsCircular, In!IsAlias, InIsExisting
  <2>. QED  BY <1>4, <2>1, <2>2, <2>4
<1>10. InPendingKnown'
  BY <1>1, <1>3, <1>4 DEF InPendingKnown
<1>13. InContainerFits' /\ InMadeInOrder' /\ InMadeOnce' /\ InAcyclic'
  BY <1>1, <1>5 DEF InIInv, InContainerFits, InInstanceOf, InMadeInOrder, InMadeOnce, InAcyclic
<1>14. InStatusTold'
  BY <1>1 DEF In!Running, InStatusTold
<1>. QED  BY <1>6, <1>7, <1>8, <1>9, <1>10, <1>13, <1>14 DEF InIInv

\* A token that is pending, and was not before the bootstrap, closes a circle of frames.
LEMMA InPendingCycle ==
  ASSUME InIInv, stack # <<>>, NEW d \in In!Top.rest, d \in pending, left = {}
  PROVE  In!HasCycle
<1>1. /\ 1 \in DOMAIN stack /\ In!Top = stack[1] /\ In!Top \in InFrame /\ InFrameFits(In!Top)
      /\ DOMAIN stack = 1..Len(stack) /\ Len(stack) \in Nat \ {0}
  BY InTopFits
<1>2. InFits /\ InFramesFit /\ InChained /\ InPendingKnown
  BY DEF InIInv
<1>3. PICK k \in DOMAIN stack : stack[k].token = d
  BY <1>2 DEF InPendingKnown
<1>. DEFINE S == {stack[i].token : i \in 1..k}
<1>4. 1..k \subseteq DOMAIN stack /\ 1 \in 1..k /\ k \in 1..k
  BY <1>1
<1>5. \A i \in DOMAIN stack : stack[i].token \in In!Token /\ InFrameFits(stack[i])
  BY <1>2, InFramesType DEF InFramesFit
<1>6. S \in (SUBSET In!Providing) \ {{}}
  <2>1. \A i \in 1..k : stack[i].token \in In!Providing
    BY <1>4, <1>5 DEF In!Providing, InFrameFits
  <2>. QED  BY <1>4, <2>1
<1>7. ASSUME NEW t \in S PROVE In!Edges(t) \cap S # {}
  <2>1. PICK i \in 1..k : t = stack[i].token
    OBVIOUS
  <2>2. t \in In!Token /\ InFrameFits(stack[i])
    BY <1>4, <1>5, <2>1
  <2>3. In!Has(t) /\ stack[i].rest \subseteq InUses(t) /\ In!Edges(t) = {e \in InUses(t) : In!Has(e)}
    BY <1>2, <2>1, <2>2, InProviderKinds DEF InFrameFits
  <2>4. \E e \in S : e \in stack[i].rest
    <3>1. CASE i = 1
      BY <1>1, <1>3, <1>4, <3>1
    <3>2. CASE i # 1
      <4>1. i - 1 \in 1..k /\ i > 1 /\ i \in DOMAIN stack
        BY <1>4, <3>2
      <4>. QED  BY <1>2, <4>1 DEF InChained
    <3>. QED  BY <3>1, <3>2
  <2>5. \A e \in S : In!Has(e)
    BY <1>6 DEF In!Providing
  <2>. QED  BY <2>3, <2>4, <2>5
<1>. QED  BY <1>6, <1>7 DEF In!HasCycle

LEMMA InDependencyKeeps == ASSUME InIInv, In!Dependency PROVE InIInv'
<1>0. In!Running /\ stack # <<>>
  BY DEF In!Dependency
<1>1. PICK d \in In!Top.rest :
       \/ In!IsCircular(d) /\ In!Fails("circular")
       \/ ~In!IsCircular(d) /\ In!Resolved(d) /\ In!Goes(d)
       \/ ~In!IsCircular(d) /\ ~In!Resolved(d) /\ In!Has(d) /\ In!Resolve(d)
       \/ /\ ~In!IsCircular(d) /\ ~In!Has(d)
          /\ IF ~In!IsAlias /\ providers[In!Top.token].deps[d] = "optional" THEN In!Goes(d)
             ELSE In!Fails("notFound")
  BY DEF In!Dependency
<1>2. /\ In!Top = stack[1] /\ In!Top \in InFrame /\ InFrameFits(In!Top)
  BY <1>0, InTopFits
<1>3. d \in In!Token /\ d \in InUses(In!Top.token) /\ In!Top.token \in In!Token /\ In!Has(In!Top.token) /\ InFits
  BY <1>2 DEF InFrame, InFrameFits, InIInv
<1>4. CASE In!IsCircular(d) /\ In!Fails("circular")
  <2>1. In!HasCycle \/ left # {}
    BY <1>0, <1>4, InPendingCycle DEF In!IsCircular
  <2>. QED  BY <1>4, <2>1, InFailsKeeps DEF In!Failure
<1>5. CASE ~In!IsCircular(d) /\ In!Resolved(d) /\ In!Goes(d)
  BY <1>0, <1>5, InGoesKeeps DEF InMet
<1>6. CASE ~In!IsCircular(d) /\ ~In!Resolved(d) /\ In!Has(d) /\ In!Resolve(d)
  <2>1. d \in pending => ~InIsExisting(d) /\ InIsExisting(stack[1].token)
    BY <1>2, <1>6 DEF In!IsCircular, In!IsAlias, InIsExisting
  <2>. QED  BY <1>0, <1>2, <1>3, <1>6, <2>1, InResolveKeeps
<1>7. CASE ~In!IsCircular(d) /\ ~In!Has(d) /\ ~In!IsAlias /\ providers[In!Top.token].deps[d] = "optional" /\ In!Goes(d)
  BY <1>0, <1>7, InGoesKeeps DEF InMet, In!IsAlias, InIsExisting
<1>8. CASE /\ ~In!IsCircular(d) /\ ~In!Has(d) /\ ~(~In!IsAlias /\ providers[In!Top.token].deps[d] = "optional")
           /\ In!Fails("notFound")
  <2>1. In!Top.token \in In!Providing
    BY <1>3 DEF In!Providing
  <2>2. In!HasGap
    <3>1. CASE In!IsAlias
      BY <1>3, <1>8, <2>1, <3>1 DEF In!HasGap, InUses, InIsExisting, In!IsAlias
    <3>2. CASE ~In!IsAlias
      <4>1. providers[In!Top.token].deps \in [In!Token -> In!Need]
        BY <1>3, <3>2, InProviderKinds DEF In!IsAlias, InIsExisting
      <4>2. providers[In!Top.token].deps[d] # "no"
        BY <1>3, <3>2 DEF InUses, In!Deps, In!IsAlias, InIsExisting
      <4>3. providers[In!Top.token].deps[d] = "required"
        BY <1>3, <1>8, <3>2, <4>1, <4>2 DEF In!Need
      <4>. QED  BY <1>3, <1>8, <2>1, <3>2, <4>3 DEF In!HasGap, In!IsAlias
    <3>. QED  BY <3>1, <3>2
  <2>. QED  BY <1>8, <2>2, InFailsKeeps DEF In!Failure
<1>. QED  BY <1>1, <1>4, <1>5, <1>6, <1>7, <1>8

LEMMA InInstantiateKeeps == ASSUME InIInv, In!Instantiate PROVE InIInv'
<1>. DEFINE t == In!Top.token
<1>0. In!Running /\ stack # <<>> /\ In!Top.rest = {}
  BY DEF In!Instantiate
<1>1. PICK u \in In!Token : u = t
  BY <1>0, InTopFits DEF InFrame
<1>. HIDE DEF t
<1>2. /\ InFits /\ InFramesFit /\ InChained /\ InRepeats /\ InPendingKnown /\ InContainerFits
      /\ InMadeInOrder /\ InMadeOnce /\ InAcyclic
  BY DEF InIInv
<1>3. /\ container' = [container EXCEPT ![u] = InInstanceOf(u)]
      /\ made' = IF InIsExisting(u) THEN made ELSE Append(made, u)
      /\ pending' = pending \ {u} /\ stack' = Tail(stack)
      /\ UNCHANGED <<providers, status, left, retries>>
  BY <1>1 DEF In!Instantiate, In!Instance, In!IsAlias, InInstanceOf, InIsExisting, t
<1>4. /\ In!Has(u) /\ ~In!Resolved(u) /\ \A d \in InUses(u) : InMet(u, d)
      /\ stack[1].token = u /\ stack[1].rest = {} /\ 1 \in DOMAIN stack
      /\ DOMAIN stack = 1..Len(stack) /\ Len(stack) \in Nat \ {0}
  BY <1>0, <1>1, InTopFits DEF InFrameFits, t
<1>5. /\ stack' \in Seq(InFrame) /\ DOMAIN stack' = 1..(Len(stack) - 1)
      /\ \A i \in DOMAIN stack' : i + 1 \in DOMAIN stack /\ stack'[i] = stack[i + 1]
  BY <1>0, <1>2, <1>3, InTailed DEF InFits
<1>6. /\ \A v : In!Has(v)' = In!Has(v) /\ InIsExisting(v)' = InIsExisting(v) /\ InUses(v)' = InUses(v)
                  /\ In!Edges(v)' = In!Edges(v)
      /\ In!Providing' = In!Providing /\ In!HasCycle' = In!HasCycle /\ In!HasGap' = In!HasGap
  BY <1>3, InProvidersKept
<1>7. InIsExisting(u) => providers[u].use \in In!Token /\ In!Resolved(providers[u].use)
  BY <1>2, <1>4, InProviderKinds DEF InUses, InMet
<1>8. container \in [In!Token -> 0..InTokens] /\ In!Token = 1..InTokens
  BY <1>2 DEF InFits, In!Token
<1>9. InInstanceOf(u) \in 0..InTokens /\ InInstanceOf(u) # 0
  <2>1. CASE InIsExisting(u)
    BY <1>7, <1>8, <2>1 DEF InInstanceOf, In!Resolved
  <2>2. CASE ~InIsExisting(u)
    <3>1. u \in 0..InTokens /\ u # 0
      BY <1>8
    <3>. QED  BY <2>2, <3>1 DEF InInstanceOf
  <2>. QED  BY <2>1, <2>2
<1>10. /\ container' \in [In!Token -> 0..InTokens] /\ container'[u] = InInstanceOf(u)
       /\ \A v \in In!Token : v # u => container'[v] = container[v]
       /\ In!Resolved(u)' /\ \A v \in In!Token : v # u => In!Resolved(v)' = In!Resolved(v)
  BY <1>3, <1>8, <1>9 DEF In!Resolved
<1>11. /\ made' \in Seq(In!Token)
       /\ \A i \in DOMAIN made : i \in DOMAIN made' /\ made'[i] = made[i]
       /\ InIsExisting(u) => made' = made
       /\ ~InIsExisting(u) => /\ DOMAIN made' = 1..(Len(made) + 1) /\ made'[Len(made) + 1] = u
                              /\ DOMAIN made = 1..Len(made) /\ Len(made) \in Nat
  <2>1. made \in Seq(In!Token)
    BY <1>2 DEF InFits
  <2>2. CASE InIsExisting(u)
    BY <1>3, <2>1, <2>2
  <2>3. CASE ~InIsExisting(u)
    <3>1. made' = Append(made, u)
      BY <1>3, <2>3
    <3>2. /\ made' \in Seq(In!Token) /\ DOMAIN made' = 1..(Len(made) + 1)
          /\ DOMAIN made = 1..Len(made) /\ Len(made) \in Nat
          /\ made'[Len(made) + 1] = u /\ \A i \in DOMAIN made : made'[i] = made[i]
      BY <2>1, <3>1, InAppended
    <3>3. \A i \in DOMAIN made : i \in DOMAIN made'
      BY <3>2
    <3>. QED  BY <2>3, <3>2, <3>3
  <2>. QED  BY <2>2, <2>3
<1>12. InFits'
  <2>1. pending' \subseteq In!Token
    BY <1>2, <1>3 DEF InFits
  <2>. QED  BY <1>2, <1>3, <1>5, <1>10, <1>11, <2>1 DEF InFits
\* The token on top is not below, too: it would find something to come.
<1>13. \A i \in DOMAIN stack' : stack'[i].token # u /\ stack'[i].token \in In!Token
  <2>. SUFFICES ASSUME NEW i \in DOMAIN stack' PROVE stack'[i].token # u /\ stack'[i].token \in In!Token
    OBVIOUS
  <2>1. i + 1 \in DOMAIN stack /\ stack'[i] = stack[i + 1] /\ 1 < i + 1
    BY <1>5
  <2>2. stack[i + 1].token # u
    BY <1>2, <1>4, <2>1 DEF InRepeats
  <2>3. stack[i + 1].token \in In!Token
    BY <1>2, <2>1, InFramesType
  <2>. QED  BY <2>1, <2>2, <2>3
<1>14. \A v \in In!Token, d \in In!Token : InMet(v, d) => InMet(v, d)'
  BY <1>3, <1>4, <1>6, <1>10 DEF InMet
<1>15. \A v \in In!Token : In!Has(v) => InUses(v) \subseteq In!Token /\ In!Edges(v) = {d \in InUses(v) : In!Has(d)}
  BY <1>2, InProviderKinds
<1>16. InFramesFit'
  <2>. SUFFICES ASSUME NEW i \in DOMAIN stack' PROVE InFrameFits(stack[i])'
    BY DEF InFramesFit
  <2>1. i + 1 \in DOMAIN stack /\ stack'[i] = stack[i + 1]
    BY <1>5
  <2>2. PICK f \in InFrame : f = stack[i + 1]
    BY <1>2, <2>1 DEF InFits
  <2>3. InFrameFits(f) /\ f.token \in In!Token /\ f.token # u
    BY <1>2, <1>13, <2>1, <2>2 DEF InFramesFit
  <2>4. /\ In!Has(f.token) /\ ~In!Resolved(f.token)' /\ f.token \in pending'
        /\ f.rest \subseteq InUses(f.token)
    BY <1>3, <1>10, <2>3 DEF InFrameFits
  <2>5. \A d \in InUses(f.token) \ f.rest : InMet(f.token, d)'
    BY <1>14, <1>15, <2>3 DEF InFrameFits
  <2>. QED  BY <1>6, <2>1, <2>2, <2>4, <2>5 DEF InFrameFits
<1>17. InChained'
  <2>. SUFFICES ASSUME NEW i \in DOMAIN stack', i > 1 PROVE stack'[i - 1].token \in stack'[i].rest
    BY DEF InChained
  <2>1. i - 1 \in DOMAIN stack' /\ (i - 1) + 1 = i /\ (i + 1) - 1 = i /\ i + 1 > 1
    BY <1>5
  <2>2. stack'[i - 1] = stack[i] /\ stack'[i] = stack[i + 1] /\ i + 1 \in DOMAIN stack
    BY <1>5, <2>1
  <2>. QED  BY <1>2, <2>1, <2>2 DEF InChained
<1>18. InRepeats'
  <2>. SUFFICES ASSUME NEW i \in DOMAIN stack', NEW j \in DOMAIN stack', i < j,
                       stack'[i].token = stack'[j].token
                PROVE  /\ ~InIsExisting(stack'[i].token) /\ InIsExisting(stack'[i + 1].token)
                       /\ stack'[j - 1].token \in stack'[i].rest
    BY <1>6 DEF InRepeats
  <2>1. /\ i + 1 \in DOMAIN stack' /\ j - 1 \in DOMAIN stack' /\ (j - 1) + 1 = j
        /\ (j + 1) - 1 = j /\ i + 1 < j + 1
    BY <1>5
  <2>2. /\ stack'[i] = stack[i + 1] /\ stack'[j] = stack[j + 1]
        /\ stack'[i + 1] = stack[(i + 1) + 1] /\ stack'[j - 1] = stack[(j - 1) + 1]
        /\ i + 1 \in DOMAIN stack /\ j + 1 \in DOMAIN stack
    BY <1>5, <2>1
  <2>. QED  BY <1>2, <2>1, <2>2 DEF InRepeats
<1>19. InPendingKnown'
  <2>. SUFFICES ASSUME NEW v \in pending', v \notin left
                PROVE  \E i \in DOMAIN stack' : stack'[i].token = v
    BY <1>3 DEF InPendingKnown
  <2>1. PICK i \in DOMAIN stack : stack[i].token = v
    BY <1>2, <1>3 DEF InPendingKnown
  <2>2. i # 1
    BY <1>3, <1>4, <2>1
  <2>3. i - 1 \in DOMAIN stack' /\ (i - 1) + 1 = i
    BY <1>4, <1>5, <2>2
  <2>4. stack'[i - 1] = stack[i]
    BY <1>5, <2>3
  <2>. QED  BY <2>1, <2>3, <2>4
<1>20. InContainerFits'
  <2>. SUFFICES ASSUME NEW v \in In!Token, In!Resolved(v)'
                PROVE  /\ In!Has(v) /\ \A d \in InUses(v) : InMet(v, d)'
                       /\ container'[v] = InInstanceOf(v)'
                       /\ \E j \in DOMAIN made' : made'[j] = container'[v]
    BY <1>6 DEF InContainerFits
  <2>1. /\ In!Has(v) /\ \A d \in InUses(v) : InMet(v, d)
    BY <1>2, <1>4, <1>10 DEF InContainerFits
  <2>2. \A d \in InUses(v) : InMet(v, d)'
    BY <1>14, <1>15, <2>1
  <2>3. container'[v] = InInstanceOf(v)
    BY <1>2, <1>10 DEF InContainerFits
  <2>4. InIsExisting(v) => providers[v].use \in In!Token /\ In!Resolved(providers[v].use)
    BY <1>2, <2>1, InProviderKinds DEF InUses, InMet
  <2>5. InInstanceOf(v)' = InInstanceOf(v)
    BY <1>3, <1>4, <1>6, <1>10, <2>4 DEF InInstanceOf
  <2>6. \E j \in DOMAIN made' : made'[j] = container'[v]
    <3>1. CASE v # u
      BY <1>2, <1>10, <1>11, <3>1 DEF InContainerFits
    <3>2. CASE v = u /\ InIsExisting(u)
      <4>1. container'[v] = container[providers[u].use]
        BY <1>10, <3>2 DEF InInstanceOf
      <4>. QED  BY <1>2, <1>7, <1>11, <3>2, <4>1 DEF InContainerFits
    <3>3. CASE v = u /\ ~InIsExisting(u)
      <4>1. container'[v] = u
        BY <1>10, <3>3 DEF InInstanceOf
      <4>2. Len(made) + 1 \in DOMAIN made'
        BY <1>11, <3>3
      <4>. QED  BY <1>11, <3>3, <4>1, <4>2
    <3>. QED  BY <3>1, <3>2, <3>3
  <2>. QED  BY <2>1, <2>2, <2>3, <2>5, <2>6
<1>21. \A i \in DOMAIN made : made[i] \in In!Token /\ made[i] # u
  BY <1>2, <1>4 DEF InFits, InMadeInOrder
\* What an instance is made of was made before.
<1>22. \A v \in In!Token : \A d \in In!Edges(v) : In!Has(v) /\ (\A e \in InUses(v) : InMet(v, e)) =>
          d \in In!Token /\ In!Resolved(d) /\ \E j \in DOMAIN made : made[j] = container[d]
  BY <1>2, <1>15 DEF InMet, InContainerFits
<1>23. InMadeInOrder'
  <2>. SUFFICES ASSUME NEW i \in DOMAIN made'
                PROVE  /\ container'[made'[i]] # 0 /\ container'[made'[i]] = made'[i]
                       /\ ~InIsExisting(made'[i])
                       /\ \A d \in In!Edges(made'[i]) : \E j \in 1..(i - 1) : made'[j] = container'[d]
    BY <1>6 DEF InMadeInOrder, In!Resolved
  <2>1. CASE i \in DOMAIN made
    <3>1. made'[i] = made[i] /\ made[i] \in In!Token /\ made[i] # u
      BY <1>11, <1>21, <2>1
    <3>2. /\ In!Resolved(made[i]) /\ container[made[i]] = made[i] /\ ~InIsExisting(made[i])
          /\ \A d \in In!Edges(made[i]) : \E j \in 1..(i - 1) : made[j] = container[d]
      BY <1>2, <2>1 DEF InMadeInOrder
    <3>3. In!Has(made[i]) /\ \A d \in InUses(made[i]) : InMet(made[i], d)
      BY <1>2, <3>1, <3>2 DEF InContainerFits
    <3>4. \A d \in In!Edges(made[i]) : d \in In!Token /\ In!Resolved(d)
      BY <1>22, <3>1, <3>3
    <3>5. \A d \in In!Edges(made[i]) : container'[d] = container[d]
      BY <1>4, <1>10, <3>4
    <3>6. made \in Seq(In!Token)
      BY <1>2 DEF InFits
    <3>7. 1..(i - 1) \subseteq DOMAIN made
      BY <2>1, <3>6
    <3>8. \A d \in In!Edges(made[i]) : \E j \in 1..(i - 1) : made'[j] = container'[d]
      BY <1>11, <3>2, <3>5, <3>7
    <3>. QED  BY <1>10, <3>1, <3>2, <3>8 DEF In!Resolved
  <2>2. CASE i \notin DOMAIN made
    <3>1. /\ ~InIsExisting(u) /\ i = Len(made) + 1 /\ made'[i] = u /\ DOMAIN made = 1..(i - 1)
      BY <1>11, <2>2
    <3>2. container'[u] = u
      BY <1>10, <3>1 DEF InInstanceOf
    <3>3. \A d \in In!Edges(u) : d \in In!Token /\ In!Resolved(d) /\ \E j \in 1..(i - 1) : made[j] = container[d]
      BY <1>4, <1>22, <3>1
    <3>4. \A d \in In!Edges(u) : container'[d] = container[d]
      BY <1>4, <1>10, <3>3
    <3>5. \A d \in In!Edges(u) : \E j \in 1..(i - 1) : made'[j] = container'[d]
      BY <1>11, <3>1, <3>3, <3>4
    <3>. QED  BY <1>10, <3>1, <3>2, <3>5 DEF In!Resolved
  <2>. QED  BY <2>1, <2>2
<1>24. InMadeOnce'
  <2>1. CASE InIsExisting(u)
    BY <1>2, <1>11, <2>1 DEF InMadeOnce
  <2>2. CASE ~InIsExisting(u)
    <3>. SUFFICES ASSUME NEW i \in DOMAIN made', NEW j \in DOMAIN made', made'[i] = made'[j]
                  PROVE  i = j
      BY DEF InMadeOnce
    <3>1. (i \in DOMAIN made \/ i = Len(made) + 1) /\ (j \in DOMAIN made \/ j = Len(made) + 1)
      BY <1>11, <2>2
    <3>. QED  BY <1>2, <1>11, <1>21, <2>2, <3>1 DEF InMadeOnce
  <2>. QED  BY <2>1, <2>2
<1>25. InAcyclic'
  <2>. SUFFICES ASSUME NEW S \in SUBSET In!Token, S # {}, \A v \in S : In!Resolved(v)'
                PROVE  \E v \in S : In!Edges(v) \cap S = {}
    BY <1>6 DEF InAcyclic
  <2>1. u \notin In!Edges(u)
    BY <1>4, <1>22
  <2>2. \A v \in S : v # u => In!Resolved(v) /\ u \notin In!Edges(v)
    <3>. SUFFICES ASSUME NEW v \in S, v # u PROVE In!Resolved(v) /\ u \notin In!Edges(v)
      OBVIOUS
    <3>1. v \in In!Token /\ In!Resolved(v)
      BY <1>10
    <3>2. In!Has(v) /\ \A d \in InUses(v) : InMet(v, d)
      BY <1>2, <3>1 DEF InContainerFits
    <3>. QED  BY <1>4, <1>22, <3>1, <3>2
  <2>3. CASE S \ {u} = {}
    BY <2>1, <2>3
  <2>4. CASE S \ {u} # {}
    <3>1. PICK v \in S \ {u} : In!Edges(v) \cap (S \ {u}) = {}
      <4>1. S \ {u} \in SUBSET In!Token /\ \A v \in S \ {u} : In!Resolved(v)
        BY <2>2
      <4>. QED  BY <1>2, <2>4, <4>1 DEF InAcyclic
    <3>. QED  BY <2>2, <3>1
  <2>. QED  BY <2>3, <2>4
<1>26. InStatusTold'
  BY <1>0, <1>3 DEF In!Running, InStatusTold
<1>. QED  BY <1>12, <1>16, <1>17, <1>18, <1>19, <1>20, <1>23, <1>24, <1>25, <1>26 DEF InIInv

LEMMA InAgainKeeps == ASSUME InBounds, InIInv, In!Again PROVE InIInv'
<1>1. PICK t \in In!Token, d \in In!Token :
        /\ providers[t].kind = "class" /\ providers' = [providers EXCEPT ![t].deps[d] = "no"]
  BY DEF In!Again
<1>2. /\ pending' \subseteq pending /\ left' = pending' /\ stack' = <<>> /\ made' = <<>>
      /\ container' = [u \in In!Token |-> 0] /\ status' = "running" /\ retries' = retries + 1
      /\ retries < InMaxRetries
  BY DEF In!Again
<1>3. InFits
  BY DEF InIInv
<1>4. providers' \in [In!Token -> InProvider]
  <2>1. providers \in [In!Token -> InProvider]
    BY <1>3 DEF InFits
  <2>2. PICK deps \in [In!Token -> In!Need] : providers[t] = In!Class(deps)
    BY <1>1, <2>1 DEF InProvider, In!Absent, In!Existing
  <2>3. [deps EXCEPT ![d] = "no"] \in [In!Token -> In!Need]
    BY DEF In!Need
  <2>4. [providers[t] EXCEPT !.deps[d] = "no"] = In!Class([deps EXCEPT ![d] = "no"])
    BY <2>2 DEF In!Class
  <2>5. [providers[t] EXCEPT !.deps[d] = "no"] \in InProvider
    BY <2>3, <2>4 DEF InProvider
  <2>6. providers' = [providers EXCEPT ![t] = [providers[t] EXCEPT !.deps[d] = "no"]]
    BY <1>1
  <2>. QED  BY <2>1, <2>5, <2>6
<1>5. InFits'
  <2>1. retries' \in 0..InMaxRetries
    BY <1>2, <1>3 DEF InFits, InBounds
  <2>2. container' \in [In!Token -> 0..InTokens]
    BY <1>2 DEF InBounds
  <2>3. stack' \in Seq(InFrame) /\ made' \in Seq(In!Token)
    BY <1>2
  <2>4. pending' \subseteq In!Token /\ left' \subseteq In!Token
    BY <1>2, <1>3 DEF InFits
  <2>. QED  BY <1>2, <1>4, <2>1, <2>2, <2>3, <2>4 DEF InFits
<1>6. \A u \in In!Token : ~In!Resolved(u)'
  BY <1>2 DEF In!Resolved
<1>7. InFramesFit' /\ InChained' /\ InRepeats' /\ InMadeInOrder' /\ InMadeOnce'
  BY <1>2 DEF InFramesFit, InChained, InRepeats, InMadeInOrder, InMadeOnce
<1>8. InPendingKnown' /\ InContainerFits' /\ InAcyclic' /\ InStatusTold'
  BY <1>2, <1>6 DEF InPendingKnown, InContainerFits, InAcyclic, InStatusTold
<1>. QED  BY <1>5, <1>7, <1>8 DEF InIInv

LEMMA InNextIInv == ASSUME InBounds PROVE InIInv /\ [In!Next]_(In!vars) => InIInv'
<1>. SUFFICES ASSUME InIInv, [In!Next]_(In!vars) PROVE InIInv'
  OBVIOUS
<1>1. CASE UNCHANGED In!vars
  <2>1. /\ \A u : In!Has(u)' = In!Has(u) /\ InIsExisting(u)' = InIsExisting(u) /\ InUses(u)' = InUses(u)
                    /\ In!Edges(u)' = In!Edges(u) /\ In!Resolved(u)' = In!Resolved(u)
        /\ In!Providing' = In!Providing /\ In!HasCycle' = In!HasCycle /\ In!HasGap' = In!HasGap
    BY <1>1, InProvidersKept DEF In!Resolved, In!vars
  <2>2. InFits' /\ InStatusTold'
    BY <1>1, <2>1 DEF In!vars, InIInv, InFits, InStatusTold
  <2>3. InFramesFit' /\ InChained' /\ InRepeats' /\ InPendingKnown'
    BY <1>1, <2>1 DEF In!vars, InIInv, InFramesFit, InFrameFits, InChained, InRepeats, InPendingKnown, InMet
  <2>4. InContainerFits' /\ InMadeInOrder' /\ InMadeOnce' /\ InAcyclic'
    BY <1>1, <2>1 DEF In!vars, InIInv, InContainerFits, InInstanceOf, InMet, InMadeInOrder, InMadeOnce, InAcyclic
  <2>. QED  BY <2>2, <2>3, <2>4 DEF InIInv
<1>2. CASE In!Next
  BY <1>2, InNextProviderKeeps, InDependencyKeeps, InInstantiateKeeps, InAgainKeeps DEF In!Next
<1>. QED  BY <1>1, <1>2

--------------------
(* Depth of the recursion. *)

\* A frame is told by its token if that is not below, too, and else by the alias it came from.
LEMMA InDepthBounded == ASSUME InBounds, InIInv PROVE Len(stack) <= 2 * InTokens
<1>. DEFINE First(i) == InIsExisting(stack[i].token) \/ \A j \in DOMAIN stack : i < j => stack[j].token # stack[i].token
            tag == [i \in 1..Len(stack) |-> IF First(i) THEN <<stack[i].token, 1>> ELSE <<stack[i + 1].token, 2>>]
<1>1. /\ stack \in Seq(InFrame) /\ Len(stack) \in Nat /\ DOMAIN stack = 1..Len(stack) /\ InRepeats
      /\ \A i \in DOMAIN stack : stack[i].token \in In!Token
  BY InFramesType DEF InIInv, InFits
<1>2. \A i \in DOMAIN stack : ~First(i) =>
        i + 1 \in DOMAIN stack /\ InIsExisting(stack[i + 1].token)
  <2>. SUFFICES ASSUME NEW i \in DOMAIN stack, ~First(i)
                PROVE  i + 1 \in DOMAIN stack /\ InIsExisting(stack[i + 1].token)
    OBVIOUS
  <2>1. PICK j \in DOMAIN stack : i < j /\ stack[j].token = stack[i].token
    OBVIOUS
  <2>2. i + 1 \in DOMAIN stack
    BY <1>1, <2>1
  <2>. QED  BY <1>1, <2>1, <2>2 DEF InRepeats
<1>3. \A i, j \in DOMAIN stack : i < j /\ stack[i].token = stack[j].token => ~First(i)
  BY <1>1 DEF InRepeats
<1>. HIDE DEF First
<1>4. ASSUME NEW i \in 1..Len(stack), NEW j \in 1..Len(stack), tag[i] = tag[j], i < j
      PROVE  FALSE
  <2>1. First(i) <=> First(j)
    BY <1>4
  <2>2. CASE First(i)
    <3>1. stack[i].token = stack[j].token
      BY <1>4, <2>1, <2>2
    <3>. QED  BY <1>1, <1>3, <1>4, <2>2, <3>1
  <2>3. CASE ~First(i)
    <3>1. stack[i + 1].token = stack[j + 1].token
      BY <1>4, <2>1, <2>3
    <3>2. i + 1 \in DOMAIN stack /\ j + 1 \in DOMAIN stack /\ i + 1 < j + 1 /\ InIsExisting(stack[i + 1].token)
      BY <1>1, <1>2, <1>4, <2>1, <2>3
    <3>. QED  BY <1>1, <3>1, <3>2 DEF InRepeats
  <2>. QED  BY <2>2, <2>3
<1>5. \A i, j \in 1..Len(stack) : tag[i] = tag[j] => i = j
  <2>1. \A i, j \in 1..Len(stack) : i = j \/ i < j \/ j < i
    BY <1>1
  <2>. QED  BY <1>4, <2>1
<1>6. tag \in [1..Len(stack) -> In!Token \X {1, 2}]
  <2>1. \A i \in 1..Len(stack) : tag[i] \in In!Token \X {1, 2}
    BY <1>1, <1>2
  <2>. QED  BY <2>1
<1>7. tag \in Injection(1..Len(stack), In!Token \X {1, 2})
  BY <1>5, <1>6 DEF Injection, IsInjective
<1>8. /\ IsFiniteSet(In!Token) /\ Cardinality(In!Token) = InTokens
      /\ Cardinality(1..Len(stack)) = Len(stack)
  <2>1. InTokens \in Nat /\ In!Token = 1..InTokens
    BY DEF In!Token, InBounds
  <2>2. IsFiniteSet(1..InTokens) /\ Cardinality(1..InTokens) = InTokens
    BY <2>1, FS_Interval
  <2>3. Cardinality(1..Len(stack)) = Len(stack)
    <3>1. PICK n \in Nat : n = Len(stack)
      BY <1>1
    <3>2. Cardinality(1..n) = n
      BY FS_Interval
    <3>. QED  BY <3>1, <3>2
  <2>. QED  BY <2>1, <2>2, <2>3
<1>9. IsFiniteSet({1, 2}) /\ Cardinality({1, 2}) = 2
  <2>1. IsFiniteSet({1}) /\ Cardinality({1}) = 1
    BY FS_Singleton
  <2>2. {1, 2} = {1} \cup {2}
    OBVIOUS
  <2>. QED  BY <2>1, <2>2, FS_AddElement
<1>10. IsFiniteSet(In!Token \X {1, 2}) /\ Cardinality(In!Token \X {1, 2}) = InTokens * 2
  BY <1>8, <1>9, FS_Product
<1>11. Cardinality(1..Len(stack)) <= Cardinality(In!Token \X {1, 2})
  BY <1>7, <1>10, FS_Injection
<1>. QED  BY <1>1, <1>8, <1>10, <1>11 DEF InBounds

LEMMA InTypesFit == ASSUME InIInv PROVE In!TypeOK
<1>1. InFits
  BY DEF InIInv
<1>2. \A t \in In!Token : \/ providers[t] = In!Absent
                          \/ \E u \in In!Token : providers[t] = In!Existing(u)
                          \/ \E deps \in [In!Token -> In!Need] : providers[t] = In!Class(deps)
  BY <1>1 DEF InFits, InProvider
<1>3. \A i \in DOMAIN stack : stack[i].token \in In!Token /\ stack[i].rest \subseteq In!Token
  BY <1>1, InFramesType
<1>. QED  BY <1>1, <1>2, <1>3 DEF InFits, In!TypeOK

\* For any providers: a bootstrap that ends well met no circular and no missing dependency, one
\* that tells of either met it, everything is made once and after what it depends on, and the
\* recursion is bounded.
LEMMA InModulesAreInjected == ASSUME InBounds PROVE InIInv => In!ModulesInjected
<1>. SUFFICES ASSUME InIInv PROVE In!ModulesInjected
  OBVIOUS
<1>1. InFits /\ InContainerFits /\ InMadeInOrder /\ InMadeOnce /\ InStatusTold
  BY DEF InIInv
<1>2. In!IsInjective(made)
  BY <1>1 DEF InMadeOnce, In!IsInjective
<1>3. \A t \in In!Providing : InIsExisting(t) /\ In!Resolved(t) => container[t] = container[providers[t].use]
  BY <1>1 DEF InContainerFits, InInstanceOf, In!Providing
<1>4. Len(stack) <= 2 * InTokens
  BY InDepthBounded
<1>. QED  BY <1>1, <1>2, <1>3, <1>4 DEF In!ModulesInjected, InStatusTold, InMadeInOrder, InIsExisting

-----------------------------------------------------------------------------
(* The component that runs keeps its invariant, whichever it is. *)

TelephonyIInv ==
  /\ which = "AuthTabs" => AuIInv
  /\ which = "Presence" => PrIInv
  /\ which = "CallLog" => ClIInv
  /\ which = "CallHistory" => ChIInv
  /\ which = "CallLogger" => CgIInv
  /\ which = "DataMatcher" => DmIInv
  /\ which = "WebphoneConnection" => WcIInv
  /\ which = "WebphoneSessions" => WsIInv
  /\ which = "Calling" => CaIInv
  /\ which = "Connection" => CoIInv
  /\ which = "Injector" => InIInv

LEMMA TelephonyInitIInv == TelephonyInit => TelephonyIInv
<1>. SUFFICES ASSUME TelephonyInit PROVE TelephonyIInv
  OBVIOUS
<1>1. ASSUME which = "AuthTabs" PROVE AuIInv
  <2>1. Au!Init
    BY <1>1 DEF TelephonyInit
  <2>2. AuBounds
    BY TelephonyConstants DEF AuBounds
  <2>. QED  BY <2>1, <2>2, AuInitIInv
<1>2. ASSUME which = "Presence" PROVE PrIInv
  <2>1. Pr!Init
    BY <1>2 DEF TelephonyInit
  <2>2. PrUsers
    BY TelephonyConstants DEF PrUsers
  <2>. QED  BY <2>1, <2>2, PrInitIInv
<1>3. ASSUME which = "CallLog" PROVE ClIInv
  <2>1. Cl!Init
    BY <1>3 DEF TelephonyInit
  <2>2. ClBounds
    BY TelephonyConstants DEF ClBounds
  <2>. QED  BY <2>1, <2>2, ClInitIInv
<1>4. ASSUME which = "CallHistory" PROVE ChIInv
  <2>1. Ch!Init
    BY <1>4 DEF TelephonyInit
  <2>2. ChSets
    BY TelephonyConstants DEF ChSets
  <2>. QED  BY <2>1, <2>2, ChInitIInv
<1>5. ASSUME which = "CallLogger" PROVE CgIInv
  <2>1. Cg!Init
    BY <1>5 DEF TelephonyInit
  <2>2. CgBounds
    BY TelephonyConstants DEF CgBounds
  <2>. QED  BY <2>1, <2>2, CgInitIInv
<1>6. ASSUME which = "DataMatcher" PROVE DmIInv
  <2>1. Dm!Init
    BY <1>6 DEF TelephonyInit
  <2>2. DmBounds
    BY TelephonyConstants DEF DmBounds
  <2>. QED  BY <2>1, <2>2, DmInitIInv
<1>7. ASSUME which = "WebphoneConnection" PROVE WcIInv
  <2>1. Wc!Init
    BY <1>7 DEF TelephonyInit
  <2>2. WcBounds
    BY TelephonyConstants DEF WcBounds
  <2>. QED  BY <2>1, <2>2, WcInitIInv
<1>8. ASSUME which = "WebphoneSessions" PROVE WsIInv
  <2>1. Ws!Init
    BY <1>8 DEF TelephonyInit
  <2>2. WsBounds
    BY TelephonyConstants DEF WsBounds
  <2>. QED  BY <2>1, <2>2, WsInitIInv
<1>9. ASSUME which = "Calling" PROVE CaIInv
  <2>1. Ca!Init
    BY <1>9 DEF TelephonyInit
  <2>2. CaBounds
    BY TelephonyConstants DEF CaBounds
  <2>. QED  BY <2>1, <2>2, CaInitIInv
<1>10. ASSUME which = "Connection" PROVE CoIInv
  <2>1. Co!Init
    BY <1>10 DEF TelephonyInit
  <2>2. CoBounds
    BY TelephonyConstants DEF CoBounds
  <2>. QED  BY <2>1, <2>2, CoInitIInv
<1>11. ASSUME which = "Injector" PROVE InIInv
  <2>1. In!Init
    BY <1>11 DEF TelephonyInit
  <2>2. InBounds
    BY TelephonyConstants DEF InBounds
  <2>. QED  BY <2>1, <2>2, InInitIInv
<1>. QED  BY <1>1, <1>2, <1>3, <1>4, <1>5, <1>6, <1>7, <1>8, <1>9, <1>10, <1>11 DEF TelephonyIInv

LEMMA TelephonyNextIInv == TelephonyIInv /\ [TelephonyNext]_TelephonyVars => TelephonyIInv'
<1>. SUFFICES ASSUME TelephonyIInv, [TelephonyNext]_TelephonyVars PROVE TelephonyIInv'
  OBVIOUS
<1>0. UNCHANGED which
  BY DEF TelephonyNext, TelephonyVars
<1>1. ASSUME which = "AuthTabs" PROVE AuIInv'
  <2>1. TelephonyNext => Au!Next
    BY <1>1 DEF TelephonyNext
  <2>2. UNCHANGED TelephonyVars => UNCHANGED Au!vars
    BY DEF TelephonyVars, auVars, prVars, clVars, chVars, cgVars, dmVars, wcVars, wsVars, caVars,
       coVars, inVars, Au!vars, Au!local, Au!calls
  <2>3. AuIInv
    BY <1>1 DEF TelephonyIInv
  <2>4. AuBounds
    BY TelephonyConstants DEF AuBounds
  <2>. QED  BY <2>1, <2>2, <2>3, <2>4, AuNextIInv
<1>2. ASSUME which = "Presence" PROVE PrIInv'
  <2>1. TelephonyNext => Pr!Next
    BY <1>2 DEF TelephonyNext
  <2>2. UNCHANGED TelephonyVars => UNCHANGED Pr!vars
    BY DEF TelephonyVars, auVars, prVars, clVars, chVars, cgVars, dmVars, wcVars, wsVars, caVars,
       coVars, inVars, Pr!vars, Pr!server, Pr!client
  <2>3. PrIInv
    BY <1>2 DEF TelephonyIInv
  <2>4. PrUsers
    BY TelephonyConstants DEF PrUsers
  <2>. QED  BY <2>1, <2>2, <2>3, <2>4, PrNextIInv
<1>3. ASSUME which = "CallLog" PROVE ClIInv'
  <2>1. TelephonyNext => Cl!Next
    BY <1>3 DEF TelephonyNext
  <2>2. UNCHANGED TelephonyVars => UNCHANGED Cl!vars
    BY DEF TelephonyVars, auVars, prVars, clVars, chVars, cgVars, dmVars, wcVars, wsVars, caVars,
       coVars, inVars, Cl!vars, Cl!world
  <2>3. ClIInv
    BY <1>3 DEF TelephonyIInv
  <2>4. ClBounds
    BY TelephonyConstants DEF ClBounds
  <2>. QED  BY <2>1, <2>2, <2>3, <2>4, ClNextIInv
<1>4. ASSUME which = "CallHistory" PROVE ChIInv'
  <2>1. TelephonyNext => Ch!Next
    BY <1>4 DEF TelephonyNext
  <2>2. UNCHANGED TelephonyVars => UNCHANGED Ch!vars
    BY DEF TelephonyVars, auVars, prVars, clVars, chVars, cgVars, dmVars, wcVars, wsVars, caVars,
       coVars, inVars, Ch!vars
  <2>3. ChIInv
    BY <1>4 DEF TelephonyIInv
  <2>4. ChSets
    BY TelephonyConstants DEF ChSets
  <2>. QED  BY <2>1, <2>2, <2>3, <2>4, ChNextIInv
<1>5. ASSUME which = "CallLogger" PROVE CgIInv'
  <2>1. TelephonyNext => Cg!Next
    BY <1>5 DEF TelephonyNext
  <2>2. UNCHANGED TelephonyVars => UNCHANGED Cg!vars
    BY DEF TelephonyVars, auVars, prVars, clVars, chVars, cgVars, dmVars, wcVars, wsVars, caVars,
       coVars, inVars, Cg!vars, Cg!logger, Cg!monitor, Cg!options, Cg!seen
  <2>3. CgIInv
    BY <1>5 DEF TelephonyIInv
  <2>4. CgBounds
    BY TelephonyConstants DEF CgBounds
  <2>. QED  BY <2>1, <2>2, <2>3, <2>4, CgNextIInv
<1>6. ASSUME which = "DataMatcher" PROVE DmIInv'
  <2>1. TelephonyNext => Dm!Next
    BY <1>6 DEF TelephonyNext
  <2>2. UNCHANGED TelephonyVars => UNCHANGED Dm!vars
    BY DEF TelephonyVars, auVars, prVars, clVars, chVars, cgVars, dmVars, wcVars, wsVars, caVars,
       coVars, inVars, Dm!vars
  <2>3. DmIInv
    BY <1>6 DEF TelephonyIInv
  <2>4. DmBounds
    BY TelephonyConstants DEF DmBounds
  <2>. QED  BY <2>1, <2>2, <2>3, <2>4, DmNextIInv
<1>7. ASSUME which = "WebphoneConnection" PROVE WcIInv'
  <2>1. TelephonyNext => Wc!Next
    BY <1>7 DEF TelephonyNext
  <2>2. UNCHANGED TelephonyVars => UNCHANGED Wc!vars
    BY DEF TelephonyVars, auVars, prVars, clVars, chVars, cgVars, dmVars, wcVars, wsVars, caVars,
       coVars, inVars, Wc!vars
  <2>3. WcIInv
    BY <1>7 DEF TelephonyIInv
  <2>4. WcBounds
    BY TelephonyConstants DEF WcBounds
  <2>. QED  BY <2>1, <2>2, <2>3, <2>4, WcNextIInv
<1>8. ASSUME which = "WebphoneSessions" PROVE WsIInv'
  <2>1. TelephonyNext => Ws!Next
    BY <1>8 DEF TelephonyNext
  <2>2. UNCHANGED TelephonyVars => UNCHANGED Ws!vars
    BY DEF TelephonyVars, auVars, prVars, clVars, chVars, cgVars, dmVars, wcVars, wsVars, caVars,
       coVars, inVars, Ws!vars, Ws!session
  <2>3. WsIInv
    BY <1>8 DEF TelephonyIInv
  <2>4. WsBounds
    BY TelephonyConstants DEF WsBounds
  <2>. QED  BY <2>1, <2>2, <2>3, <2>4, WsNextIInv
<1>9. ASSUME which = "Calling" PROVE CaIInv'
  <2>1. TelephonyNext => Ca!Next
    BY <1>9 DEF TelephonyNext
  <2>2. UNCHANGED TelephonyVars => UNCHANGED Ca!vars
    BY DEF TelephonyVars, auVars, prVars, clVars, chVars, cgVars, dmVars, wcVars, wsVars, caVars,
       coVars, inVars, Ca!vars, Ca!env
  <2>3. CaIInv
    BY <1>9 DEF TelephonyIInv
  <2>4. CaBounds
    BY TelephonyConstants DEF CaBounds
  <2>. QED  BY <2>1, <2>2, <2>3, <2>4, CaNextIInv
<1>10. ASSUME which = "Connection" PROVE CoIInv'
  <2>1. TelephonyNext => Co!Next
    BY <1>10 DEF TelephonyNext
  <2>2. UNCHANGED TelephonyVars => UNCHANGED Co!vars
    BY DEF TelephonyVars, auVars, prVars, clVars, chVars, cgVars, dmVars, wcVars, wsVars, caVars,
       coVars, inVars, Co!vars
  <2>3. CoIInv
    BY <1>10 DEF TelephonyIInv
  <2>4. CoBounds
    BY TelephonyConstants DEF CoBounds
  <2>. QED  BY <2>1, <2>2, <2>3, <2>4, CoNextIInv
<1>11. ASSUME which = "Injector" PROVE InIInv'
  <2>1. TelephonyNext => In!Next
    BY <1>11 DEF TelephonyNext
  <2>2. UNCHANGED TelephonyVars => UNCHANGED In!vars
    BY DEF TelephonyVars, auVars, prVars, clVars, chVars, cgVars, dmVars, wcVars, wsVars, caVars,
       coVars, inVars, In!vars
  <2>3. InIInv
    BY <1>11 DEF TelephonyIInv
  <2>4. InBounds
    BY TelephonyConstants DEF InBounds
  <2>. QED  BY <2>1, <2>2, <2>3, <2>4, InNextIInv
<1>. QED  BY <1>0, <1>1, <1>2, <1>3, <1>4, <1>5, <1>6, <1>7, <1>8, <1>9, <1>10, <1>11 DEF TelephonyIInv

LEMMA TelephonyInvariant == TelephonySpec => []TelephonyIInv
  BY TelephonyInitIInv, TelephonyNextIInv, PTL DEF TelephonySpec

\* Whichever component runs, and for any users, calls, numbers and bounds, its state keeps its
\* types.
THEOREM TelephonyTypeCorrect == TelephonySpec => []TelephonyTypeOK
<1>1. TelephonyIInv => TelephonyTypeOK
  BY InTypesFit DEF TelephonyIInv, TelephonyTypeOK, AuIInv, PrIInv, ClIInv, ChIInv, CgIInv,
     DmIInv, WcIInv, WsIInv, CaIInv, CoIInv
<1>. QED  BY <1>1, TelephonyInvariant, PTL

\* For any tabs and users: tabs that have read their events agree whether the user is logged
\* in, as long as changes of the session do not overlap.
THEOREM TabsWillAgree == TelephonySpec => []TabsAgree
<1>1. TelephonyIInv /\ which = "AuthTabs" => Au!TabsAgree
  BY TelephonyConstants, AuTabsWillAgree DEF TelephonyIInv, AuBounds
<1>2. TelephonyIInv => TabsAgree
  BY <1>1 DEF TabsAgree
<1>. QED  BY <1>2, TelephonyInvariant, PTL

\* For any tabs and users: the token of a tab that is logged in is the one the SDK sends, as
\* long as changes of the session do not overlap.
THEOREM TokensAreTheSdks == TelephonySpec => []TokenIsTheSdks
<1>1. TelephonyIInv /\ which = "AuthTabs" => Au!TokenIsTheSdks
  BY TelephonyConstants, AuTokensFit DEF TelephonyIInv, AuBounds
<1>2. TelephonyIInv => TokenIsTheSdks
  BY <1>1 DEF TokenIsTheSdks
<1>. QED  BY <1>2, TelephonyInvariant, PTL

\* For any tabs and users: however logins and logouts cross in a tab, a status between logged
\* in and not logged in has a call that ends it.
THEOREM NoStatusWithoutCall == TelephonySpec => []StatusHasCall
<1>1. TelephonyIInv /\ which = "AuthTabs" => Au!StatusHasCall
  BY TelephonyConstants, AuHasCall DEF TelephonyIInv, AuBounds
<1>2. TelephonyIInv => StatusHasCall
  BY <1>1 DEF StatusHasCall
<1>. QED  BY <1>2, TelephonyInvariant, PTL

\* For any tabs and users: one tab at most takes the login for its own.
THEOREM FreshLoginIsOnce == TelephonySpec => [](which = "AuthTabs" => Au!OneFreshLogin)
<1>1. TelephonyIInv /\ which = "AuthTabs" => Au!OneFreshLogin
  BY TelephonyConstants, AuFreshLogin DEF TelephonyIInv, AuBounds
<1>2. TelephonyIInv => (which = "AuthTabs" => Au!OneFreshLogin)
  BY <1>1
<1>. QED  BY <1>2, TelephonyInvariant, PTL

\* For any users and bounds: nobody sees another one's presence, a module that is ready has
\* one to show, and Do Not Disturb is never what is restored.
THEOREM PresenceIsOwn == TelephonySpec => []OwnPresence
<1>1. TelephonyIInv /\ which = "Presence" => Pr!OwnPresence
  BY TelephonyConstants, PrPresenceIsOwn DEF TelephonyIInv, PrUsers
<1>2. TelephonyIInv => OwnPresence
  BY <1>1 DEF OwnPresence
<1>. QED  BY <1>2, TelephonyInvariant, PTL

\* For any users and calls, and however syncs, notifications, reloads, matches and logins cross:
\* the call log is complete up to its token, every call is active, ended or in the log, and what
\* the application's system has of a call, or is going to have, is its newest version.
THEOREM CallsAreRecorded == TelephonySpec => []CallsRecorded
<1>1. TelephonyIInv /\ which = "CallLog" => Cl!LogComplete
  BY TelephonyConstants, ClLogIsComplete DEF TelephonyIInv, ClBounds
<1>2. TelephonyIInv /\ which = "CallHistory" => Ch!CallsAccountedFor
  BY TelephonyConstants, ChNoCallLost DEF TelephonyIInv, ChSets
<1>3. TelephonyIInv /\ which = "CallLogger" => Cg!CallsLogged
  BY TelephonyConstants, CgCallsAreLogged DEF TelephonyIInv, CgBounds
<1>4. TelephonyIInv => CallsRecorded
  BY <1>1, <1>2, <1>3 DEF CallsRecorded
<1>. QED  BY <1>4, TelephonyInvariant, PTL

\* For any queries and bounds: what was asked for has a result, is being asked for, waits in a
\* queue that will start, or a request for it or before it failed.
THEOREM NoQueryIsForgotten == TelephonySpec => []NoneForgotten
<1>1. TelephonyIInv /\ which = "DataMatcher" => Dm!NoneForgotten
  BY TelephonyConstants, DmNothingIsForgotten DEF TelephonyIInv, DmBounds
<1>2. TelephonyIInv => NoneForgotten
  BY <1>1 DEF NoneForgotten
<1>. QED  BY <1>2, TelephonyInvariant, PTL

\* For any calls, numbers and bounds: a phone that is wanted is connected or on the way, the
\* calls shown are those there are, and calls are made as the settings ask for.
THEOREM PhoneIsServed == TelephonySpec => []PhoneServes
<1>1. TelephonyIInv /\ which = "WebphoneConnection" => Wc!ConnectionServed
  BY TelephonyConstants, WcConnectionIsServed DEF TelephonyIInv, WcBounds
<1>2. TelephonyIInv /\ which = "WebphoneSessions" => Ws!CallsShown
  BY TelephonyConstants, WsCallsAreShown DEF TelephonyIInv, WsBounds
<1>3. TelephonyIInv /\ which = "Calling" => Ca!CallsAsSet
  BY TelephonyConstants, CaCallsAreAsSet DEF TelephonyIInv, CaBounds
<1>4. TelephonyIInv => PhoneServes
  BY <1>1, <1>2, <1>3 DEF PhoneServes
<1>. QED  BY <1>4, TelephonyInvariant, PTL

\* For any servers and bounds, and however clients are replaced, listeners bound, requests
\* answered and checks repeated: the connection is always going to be checked, no answer is
\* missed, no request passes the limit, and the client is one for the server that was chosen.
THEOREM ConnectionIsAlwaysWatched == TelephonySpec => []ConnectionWatched
<1>1. TelephonyIInv /\ which = "Connection" => Co!ConnectionWatched
  BY TelephonyConstants, CoConnectionIsWatched DEF TelephonyIInv, CoBounds
<1>2. TelephonyIInv => ConnectionWatched
  BY <1>1 DEF ConnectionWatched
<1>. QED  BY <1>2, TelephonyInvariant, PTL

\* For any providers: a bootstrap that ends well met no circular and no missing dependency, one
\* that tells of either met it, everything is made once and after what it depends on, and the
\* recursion is bounded.
THEOREM ModulesAreInjected == TelephonySpec => []ModulesInjected
<1>1. TelephonyIInv /\ which = "Injector" => In!ModulesInjected
  BY TelephonyConstants, InModulesAreInjected DEF TelephonyIInv, InBounds
<1>2. TelephonyIInv => ModulesInjected
  BY <1>1 DEF ModulesInjected
<1>. QED  BY <1>2, TelephonyInvariant, PTL
=============================================================================
