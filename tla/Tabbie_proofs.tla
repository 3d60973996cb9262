--------------------------- MODULE Tabbie_proofs ---------------------------
(***************************************************************************)
(* Proofs about the main tab election of Tabbie, for any finite set of     *)
(* tabs and any bounds.                                                    *)
(***************************************************************************)
EXTENDS Tabbie, FiniteSetTheorems, TLAPS

\* The inductive strengthening of ActiveAgrees: a tab that is not open has no
\* ready TabManager, and a tab that never opened is not main anywhere.
ClosedTabs ==
  \A t \in Tab :
    /\ phase[t] # "open" => ~ready[t]
    /\ phase[t] = "unopened" => mainTab # t /\ ~active[t]

IInv == TypeOK /\ ClosedTabs /\ ActiveAgrees

LEMMA EventType == MainEvent \in Event /\ \A t \in Tab : BeatEvent(t) \in Event
  BY DEF Event

\* What Posted leaves in an inbox keeps its type.
LEMMA PostedType ==
  ASSUME NEW box \in [Tab -> Seq(Event)], NEW t \in Tab, NEW evs \in Seq(Event)
  PROVE  Posted(box, t, evs) \in [Tab -> Seq(Event)]
  BY DEF Posted

\* An enumeration of a set of tabs yields a sequence of beat events.
LEMMA GCEvents ==
  ASSUME NEW S \in SUBSET Tab, NEW order \in SetToSeqs(S)
  PROVE  [i \in DOMAIN order |-> BeatEvent(order[i])] \in Seq(Event)
<1>1. IsFiniteSet(S)  BY TabAssumption, FS_Subset
<1>2. Cardinality(S) \in Nat  BY <1>1, FS_CardinalityType
<1>3. order \in [1..Cardinality(S) -> S]  BY DEF SetToSeqs
<1>4. \A i \in 1..Cardinality(S) : BeatEvent(order[i]) \in Event
  BY <1>3, EventType
<1>. QED  BY <1>2, <1>3, <1>4

LEMMA OptionalType ==
  ASSUME NEW S, NEW x \in S, NEW cond
  PROVE  Optional(cond, x) \in Seq(S)
<1>1. CASE cond   BY <1>1 DEF Optional
<1>2. CASE ~cond  BY <1>2 DEF Optional
<1>. QED  BY <1>1, <1>2

\* Emit keeps the type of everything it assigns.
LEMMA EmitType ==
  ASSUME TypeOK, NEW t \in Tab, NEW v \in Tab,
         NEW box \in [Tab -> Seq(Event)], NEW evs \in Seq(Event),
         NEW sleeping \in Seq(Tab \cup {NoTab}),
         Emit(t, v, box, evs, sleeping)
  PROVE  /\ mainTab' \in Tab \cup {NoTab}
         /\ inbox' \in [Tab -> Seq(Event)]
         /\ fights' \in [Tab -> Seq(Tab \cup {NoTab})]
         /\ waiting' \in [Tab -> SUBSET Waiter]
         /\ ready' \in [Tab -> BOOLEAN]
         /\ active' \in [Tab -> BOOLEAN]
<1> DEFINE deposes == [from |-> "event", id |-> v] \in waiting[t]
           refight == [from |-> "gc", id |-> v] \in waiting[t]
<1>1. /\ active' = [active EXCEPT ![t] = CheckIsMain(t, v)]
      /\ ready' = [ready EXCEPT ![t] = TRUE]
      /\ waiting' = [waiting EXCEPT ![t] = {}]
      /\ mainTab' = IF deposes THEN NoTab ELSE v
      /\ inbox' = Posted(box, t, evs \o Optional(deposes, MainEvent))
      /\ fights' = [fights EXCEPT ![t] =
           sleeping \o Optional(deposes, NoTab) \o Optional(refight, v)]
  BY DEF Emit
<1> HIDE DEF deposes, refight
<1>2. evs \o Optional(deposes, MainEvent) \in Seq(Event)
  BY EventType, OptionalType
<1>3. inbox' \in [Tab -> Seq(Event)]
  BY <1>1, <1>2, PostedType
<1>4. Optional(deposes, NoTab) \in Seq(Tab \cup {NoTab})
  BY OptionalType
<1>5. Optional(refight, v) \in Seq(Tab \cup {NoTab})
  BY OptionalType
<1>6. sleeping \o Optional(deposes, NoTab) \o Optional(refight, v)
        \in Seq(Tab \cup {NoTab})
  BY <1>4, <1>5
<1>. QED  BY <1>1, <1>3, <1>6 DEF TypeOK, CheckIsMain

NoMainEvent(s) == \A i \in DOMAIN s : s[i] # MainEvent

LEMMA AppendedEvents ==
  ASSUME NEW s \in Seq(Event), NEW evs \in Seq(Event), NoMainEvent(s \o evs)
  PROVE  NoMainEvent(s) /\ NoMainEvent(evs)
<1>1. \A i \in DOMAIN s : i \in DOMAIN (s \o evs) /\ (s \o evs)[i] = s[i]
  OBVIOUS
<1>2. \A i \in DOMAIN evs : /\ Len(s) + i \in DOMAIN (s \o evs)
                            /\ (s \o evs)[Len(s) + i] = evs[i]
  OBVIOUS
<1>. QED  BY <1>1, <1>2 DEF NoMainEvent

LEMMA HandledEvent ==
  ASSUME NEW s \in Seq(Event), s # <<>>, Head(s) # MainEvent, NoMainEvent(Tail(s))
  PROVE  NoMainEvent(s)
<1> SUFFICES ASSUME NEW i \in DOMAIN s PROVE s[i] # MainEvent
  BY DEF NoMainEvent
<1>1. CASE i = 1  BY <1>1
<1>2. CASE i # 1
  <2>1. i - 1 \in DOMAIN Tail(s) /\ Tail(s)[i - 1] = s[i]
    BY <1>2
  <2>. QED  BY <2>1 DEF NoMainEvent
<1>. QED  BY <1>1, <1>2

\* What Posted raises is seen in every inbox it reaches.
LEMMA PostedEvents ==
  ASSUME NEW box \in [Tab -> Seq(Event)], NEW t \in Tab, NEW u \in Tab,
         NEW evs \in Seq(Event), NoMainEvent(Posted(box, t, evs)[u])
  PROVE  NoMainEvent(box[u])
<1>1. CASE u # t /\ phase[u] = "open"
  <2>1. Posted(box, t, evs)[u] = box[u] \o evs
    BY <1>1 DEF Posted
  <2>. QED  BY <2>1, AppendedEvents
<1>2. CASE ~(u # t /\ phase[u] = "open")
  BY <1>2 DEF Posted
<1>. QED  BY <1>1, <1>2

\* A step that emits nothing: no tab changes its mind, and no tab loses the
\* event it has still to handle.
LEMMA QuietStep ==
  ASSUME IInv, mainTab' \in {mainTab, NoTab},
         \A u \in Tab : ready'[u] =>
           /\ active'[u] = active[u]
           /\ ready[u] \/ (~active[u] /\ mainTab # u)
           /\ NoMainEvent(inbox'[u]) => NoMainEvent(inbox[u])
  PROVE  ActiveAgrees'
BY DEF IInv, ActiveAgrees, NoMainEvent

\* After an emission the emitting tab agrees with localStorage, and so does
\* every other open tab unless an event of the main tab id is on its way to it.
LEMMA EmitAgrees ==
  ASSUME IInv, NEW t \in Tab, NEW v \in Tab,
         NEW box \in [Tab -> Seq(Event)], NEW evs \in Seq(Event), NEW sleeping,
         \A u \in Tab \ {t} : box[u] = inbox[u],
         mainTab = v \/ evs = <<MainEvent>>,
         Emit(t, v, box, evs, sleeping)
  PROVE  ActiveAgrees'
<1> DEFINE deposes == [from |-> "event", id |-> v] \in waiting[t]
<1>1. /\ active' = [active EXCEPT ![t] = CheckIsMain(t, v)]
      /\ ready' = [ready EXCEPT ![t] = TRUE]
      /\ mainTab' = IF deposes THEN NoTab ELSE v
      /\ inbox' = Posted(box, t, evs \o Optional(deposes, MainEvent))
  BY DEF Emit
<1> HIDE DEF deposes
<1> SUFFICES ASSUME NEW u \in Tab, ready'[u], mainTab' # NoTab, NoMainEvent(inbox'[u])
             PROVE  active'[u] <=> mainTab' = u
  BY DEF ActiveAgrees, NoMainEvent
<1>2. ~deposes /\ mainTab' = v
  BY <1>1
<1>3. evs \o Optional(deposes, MainEvent) = evs
  BY <1>2 DEF Optional
<1>4. inbox' = Posted(box, t, evs)
  BY <1>1, <1>3
<1>5. CASE u = t
  BY <1>1, <1>2, <1>5 DEF IInv, TypeOK, CheckIsMain
<1>6. CASE u # t
  <2>1. ready[u] /\ active'[u] = active[u]
    BY <1>1, <1>6 DEF IInv, TypeOK
  <2>2. phase[u] = "open"
    BY <2>1 DEF IInv, ClosedTabs
  <2>3. inbox'[u] = inbox[u] \o evs
    BY <1>4, <1>6, <2>2 DEF Posted
  <2>4. NoMainEvent(inbox[u]) /\ NoMainEvent(evs)
    BY <2>3, AppendedEvents DEF IInv, TypeOK
  <2>5. mainTab = v
    BY <2>4 DEF NoMainEvent
  <2>. QED
    BY <1>2, <2>1, <2>4, <2>5 DEF IInv, ActiveAgrees, NoMainEvent
<1>. QED  BY <1>5, <1>6

-----------------------------------------------------------------------------
LEMMA InitIInv == Init => IInv
BY TabAssumption DEF Init, IInv, TypeOK, ClosedTabs, ActiveAgrees

\* Every step keeps the types.
LEMMA NextTypeOK ==
  ASSUME IInv, Next
  PROVE  TypeOK'
<1> USE DEF IInv
<1>1. PICK t \in Tab :
        \/ Open(t) \/ Show(t) \/ Hide(t) \/ Close(t) \/ Crash(t)
        \/ Beat(t) \/ Expire(t) \/ Throttle(t) \/ GC(t)
        \/ OnMainTabEvent(t) \/ OnBeatEvent(t) \/ FightEnds(t)
  BY DEF Next
<1>2. CASE Open(t)
  <2>1. /\ phase' \in [Tab -> {"unopened", "open", "gone"}]
        /\ heartBeat' \in [Tab -> {"none", "fresh", "stale"}]
        /\ faults' = faults
    BY <1>2 DEF Open, TypeOK
  <2>2. CASE hidden' = [hidden EXCEPT ![t] = FALSE] /\ SetAsMainTab(t, <<>>)
    <3>1. Optional(mainTab # t, MainEvent) \in Seq(Event)
      BY OptionalType, EventType
    <3>2. inbox \in [Tab -> Seq(Event)] /\ <<>> \in Seq(Tab \cup {NoTab})
      BY DEF TypeOK
    <3>3. /\ mainTab' \in Tab \cup {NoTab}
          /\ inbox' \in [Tab -> Seq(Event)]
          /\ fights' \in [Tab -> Seq(Tab \cup {NoTab})]
          /\ waiting' \in [Tab -> SUBSET Waiter]
          /\ ready' \in [Tab -> BOOLEAN]
          /\ active' \in [Tab -> BOOLEAN]
      BY <2>2, <3>1, <3>2, EmitType DEF SetAsMainTab
    <3>. QED  BY <2>1, <2>2, <3>3 DEF TypeOK
  <2>3. CASE /\ fights' = [fights EXCEPT ![t] = InitialFight]
             /\ ready' = [ready EXCEPT ![t] = (mainTab # NoTab)]
             /\ UNCHANGED <<mainTab, hidden, inbox, waiting, active>>
    <3>1. InitialFight \in Seq(Tab \cup {NoTab})
      BY OptionalType DEF InitialFight
    <3>. QED  BY <2>1, <2>3, <3>1 DEF TypeOK
  <2>. QED  BY <1>2, <2>2, <2>3 DEF Open
<1>3. CASE Show(t)
  <2>1. Optional(mainTab # t, MainEvent) \in Seq(Event)
    BY OptionalType, EventType
  <2>2. CASE mainTab # t
    <3>1. SetAsMainTab(t, fights[t])
      BY <1>3, <2>2 DEF Show
    <3>2. inbox \in [Tab -> Seq(Event)] /\ fights[t] \in Seq(Tab \cup {NoTab})
      BY DEF TypeOK
    <3>3. /\ mainTab' \in Tab \cup {NoTab}
          /\ inbox' \in [Tab -> Seq(Event)]
          /\ fights' \in [Tab -> Seq(Tab \cup {NoTab})]
          /\ waiting' \in [Tab -> SUBSET Waiter]
          /\ ready' \in [Tab -> BOOLEAN]
          /\ active' \in [Tab -> BOOLEAN]
      BY <2>1, <3>1, <3>2, EmitType DEF SetAsMainTab
    <3>. QED  BY <1>3, <3>3 DEF Show, TypeOK
  <2>3. CASE mainTab = t
    BY <1>3, <2>3 DEF Show, TypeOK
  <2>. QED  BY <2>2, <2>3
<1>4. CASE Hide(t)
  BY <1>4 DEF Hide, shared, TypeOK
<1>5. CASE Close(t)
  <2>1. Optional(mainTab = t, MainEvent) \in Seq(Event)
    BY OptionalType, EventType
  <2>2. Optional(heartBeat[t] # "none", BeatEvent(t)) \in Seq(Event)
    BY OptionalType, EventType
  <2> DEFINE evs == Optional(mainTab = t, MainEvent) \o
                    Optional(heartBeat[t] # "none", BeatEvent(t))
  <2>3. evs \in Seq(Event)
    BY <2>1, <2>2
  <2> HIDE DEF evs
  <2>4. Posted(inbox, t, evs) \in [Tab -> Seq(Event)]
    BY <2>3, PostedType DEF TypeOK
  <2>5. inbox' = [Posted(inbox, t, evs) EXCEPT ![t] = <<>>]
    BY <1>5 DEF Fault, Close, Forget, evs
  <2>6. inbox' \in [Tab -> Seq(Event)]
    BY <2>4, <2>5
  <2>7. /\ mainTab' \in Tab \cup {NoTab}
        /\ heartBeat' \in [Tab -> {"none", "fresh", "stale"}]
        /\ faults' \in [{"close", "crash", "throttle"} -> Nat]
    BY <1>5 DEF Fault, Close, TypeOK
  <2>. QED  BY <1>5, <2>6, <2>7 DEF Fault, Close, Forget, TypeOK
<1>6. CASE Crash(t)
  BY <1>6 DEF Fault, Crash, Forget, shared, TypeOK
<1>7. CASE Beat(t)
  BY <1>7 DEF Beat, local, TypeOK
<1>8. CASE Expire(t)
  BY <1>8 DEF Expire, local, TypeOK
<1>9. CASE Throttle(t)
  BY <1>9 DEF Fault, Throttle, local, TypeOK
<1>10. CASE GC(t)
  <2> DEFINE stale == {u \in Tab : heartBeat[u] = "stale"}
  <2>1. PICK order \in SetToSeqs(stale) :
          inbox' = Posted(inbox, t, [i \in DOMAIN order |-> BeatEvent(order[i])])
    BY <1>10 DEF GC
  <2>2. [i \in DOMAIN order |-> BeatEvent(order[i])] \in Seq(Event)
    BY GCEvents
  <2>3. inbox' \in [Tab -> Seq(Event)]
    BY <2>1, <2>2, PostedType DEF TypeOK
  <2>4. waiting' \in [Tab -> SUBSET Waiter]
    BY <1>10 DEF GC, TypeOK, Waiter
  <2>5. FightAfterGC(t, stale) \in Seq(Tab \cup {NoTab})
    <3>1. Optional(mainTab \in stale, mainTab) \in Seq(Tab \cup {NoTab})
      BY OptionalType DEF TypeOK
    <3>. QED  BY <3>1 DEF FightAfterGC, TypeOK
  <2>. QED  BY <1>10, <2>3, <2>4, <2>5 DEF GC, TypeOK
<1>11. CASE OnMainTabEvent(t)
  <2> DEFINE box == [inbox EXCEPT ![t] = Tail(@)]
  <2>1. box \in [Tab -> Seq(Event)]
    BY <1>11 DEF OnMainTabEvent, TypeOK
  <2>2. CASE mainTab # NoTab
    <3>1. Emit(t, mainTab, box, <<>>, fights[t])
      BY <1>11, <2>2 DEF OnMainTabEvent
    <3>2. mainTab \in Tab /\ fights[t] \in Seq(Tab \cup {NoTab}) /\ <<>> \in Seq(Event)
      BY <2>2 DEF TypeOK
    <3>3. /\ mainTab' \in Tab \cup {NoTab}
          /\ inbox' \in [Tab -> Seq(Event)]
          /\ fights' \in [Tab -> Seq(Tab \cup {NoTab})]
          /\ waiting' \in [Tab -> SUBSET Waiter]
          /\ ready' \in [Tab -> BOOLEAN]
          /\ active' \in [Tab -> BOOLEAN]
      <4> HIDE DEF box
      <4>. QED  BY <2>1, <3>1, <3>2, EmitType
    <3>. QED  BY <1>11, <3>3 DEF OnMainTabEvent, TypeOK
  <2>3. CASE mainTab = NoTab
    BY <1>11, <2>1, <2>3 DEF OnMainTabEvent, TypeOK
  <2>. QED  BY <2>2, <2>3
<1>12. CASE OnBeatEvent(t)
  <2> DEFINE id == Head(inbox[t]).id
             box == [inbox EXCEPT ![t] = Tail(@)]
  <2>1. box \in [Tab -> Seq(Event)]
    BY <1>12 DEF OnBeatEvent, TypeOK
  <2>2. id \in Tab
    <3>1. Head(inbox[t]) \in Event /\ Head(inbox[t]) # MainEvent
      BY <1>12 DEF OnBeatEvent, TypeOK
    <3>2. PICK u \in Tab : Head(inbox[t]) = BeatEvent(u)
      BY <3>1 DEF Event
    <3>. QED  BY <3>2 DEF BeatEvent
  <2>3. <<MainEvent>> \in Seq(Event)
    BY EventType
  <2>4. Posted(box, t, <<MainEvent>>) \in [Tab -> Seq(Event)]
    BY <2>1, <2>3, PostedType
  <2>5. inbox' \in [Tab -> Seq(Event)]
    BY <1>12, <2>1, <2>4 DEF OnBeatEvent
  <2>6. fights' \in [Tab -> Seq(Tab \cup {NoTab})]
    <3>1. fights' \in {fights, [fights EXCEPT ![t] = Append(@, NoTab)]}
      BY <1>12 DEF OnBeatEvent
    <3>2. Append(fights[t], NoTab) \in Seq(Tab \cup {NoTab})
      BY DEF TypeOK
    <3>. QED  BY <3>1, <3>2 DEF TypeOK
  <2>7. waiting' \in [Tab -> SUBSET Waiter]
    BY <1>12, <2>2 DEF OnBeatEvent, TypeOK, Waiter
  <2>. QED  BY <1>12, <2>5, <2>6, <2>7 DEF OnBeatEvent, TypeOK
<1>13. CASE FightEnds(t)
  <2>1. Tail(fights[t]) \in Seq(Tab \cup {NoTab})
    BY <1>13 DEF FightEnds, TypeOK
  <2>2. Optional(mainTab # t, MainEvent) \in Seq(Event)
    BY OptionalType, EventType
  <2>3. CASE Unchallenged(t)
    <3>1. SetAsMainTab(t, Tail(fights[t]))
      BY <1>13, <2>3 DEF FightEnds
    <3>. QED  BY <1>13, <2>1, <2>2, <3>1, EmitType DEF FightEnds, SetAsMainTab, TypeOK
  <2>4. CASE ~Unchallenged(t)
    BY <1>13, <2>1, <2>4 DEF FightEnds, TypeOK
  <2>. QED  BY <2>3, <2>4
<1>. QED
  BY <1>1, <1>2, <1>3, <1>4, <1>5, <1>6, <1>7, <1>8, <1>9, <1>10, <1>11, <1>12, <1>13

\* Only an open tab's TabManager is or becomes ready, and nobody takes an
\* unopened tab for the main tab.
LEMMA NextClosedTabs ==
  ASSUME IInv, Next
  PROVE  ClosedTabs'
<1> USE DEF IInv
<1>1. PICK t \in Tab :
        \/ Open(t) \/ Show(t) \/ Hide(t) \/ Close(t) \/ Crash(t)
        \/ Beat(t) \/ Expire(t) \/ Throttle(t) \/ GC(t)
        \/ OnMainTabEvent(t) \/ OnBeatEvent(t) \/ FightEnds(t)
  BY DEF Next
<1>2. phase' = phase \/ phase' = [phase EXCEPT ![t] = "open"]
      \/ phase' = [phase EXCEPT ![t] = "gone"]
  BY <1>1 DEF Fault, Open, Show, Hide, Close, Crash, Beat, Expire, Throttle, GC,
       OnMainTabEvent, OnBeatEvent, FightEnds, Forget, local
<1>3. CASE Open(t) \/ Show(t) \/ OnMainTabEvent(t) \/ FightEnds(t)
  <2>1. phase'[t] = "open"
    BY <1>3 DEF Open, Show, OnMainTabEvent, FightEnds, TypeOK
  <2>a. /\ ready' = ready \/ \E b : ready' = [ready EXCEPT ![t] = b]
        /\ active' = active \/ \E b : active' = [active EXCEPT ![t] = b]
    <3>1. CASE Open(t)
      BY <3>1 DEF Open, SetAsMainTab, Emit
    <3>2. CASE Show(t)
      BY <3>2 DEF Show, SetAsMainTab, Emit
    <3>3. CASE OnMainTabEvent(t)
      BY <3>3 DEF OnMainTabEvent, Emit
    <3>4. CASE FightEnds(t)
      BY <3>4 DEF FightEnds, SetAsMainTab, Emit
    <3>. QED  BY <1>3, <3>1, <3>2, <3>3, <3>4
  <2>2. \A u \in Tab \ {t} : ready'[u] = ready[u] /\ active'[u] = active[u]
                             /\ phase'[u] = phase[u]
    BY <1>2, <2>a DEF TypeOK
  <2>3. mainTab' \in {mainTab, t, NoTab}
    BY <1>3 DEF Open, Show, OnMainTabEvent, FightEnds, SetAsMainTab, Emit
  <2>. QED  BY <2>1, <2>2, <2>3, TabAssumption DEF ClosedTabs
<1>4. CASE Close(t) \/ Crash(t)
  <2>1. /\ phase' = [phase EXCEPT ![t] = "gone"]
        /\ ready' = [ready EXCEPT ![t] = FALSE]
        /\ active' = [active EXCEPT ![t] = FALSE]
        /\ mainTab' \in {mainTab, NoTab}
    BY <1>4 DEF Fault, Close, Crash, Forget, shared
  <2>. QED  BY <2>1, TabAssumption DEF ClosedTabs, TypeOK
<1>5. CASE Hide(t) \/ Beat(t) \/ Expire(t) \/ Throttle(t) \/ GC(t) \/ OnBeatEvent(t)
  <2>1. /\ phase' = phase /\ ready' = ready /\ active' = active
        /\ mainTab' \in {mainTab, NoTab}
    BY <1>5 DEF Fault, Hide, Beat, Expire, Throttle, GC, OnBeatEvent, shared, local
  <2>. QED  BY <2>1, TabAssumption DEF ClosedTabs
<1>. QED  BY <1>1, <1>3, <1>4, <1>5

\* Every step keeps `active' in agreement with localStorage.
LEMMA NextActiveAgrees ==
  ASSUME IInv, Next
  PROVE  ActiveAgrees'
<1> USE DEF IInv
<1>1. PICK t \in Tab :
        \/ Open(t) \/ Show(t) \/ Hide(t) \/ Close(t) \/ Crash(t)
        \/ Beat(t) \/ Expire(t) \/ Throttle(t) \/ GC(t)
        \/ OnMainTabEvent(t) \/ OnBeatEvent(t) \/ FightEnds(t)
  BY DEF Next
<1>2. ASSUME NEW sleeping, SetAsMainTab(t, sleeping)
      PROVE  ActiveAgrees'
  <2>1. Optional(mainTab # t, MainEvent) \in Seq(Event)
    BY OptionalType, EventType
  <2>2. mainTab = t \/ Optional(mainTab # t, MainEvent) = <<MainEvent>>
    BY DEF Optional
  <2>3. inbox \in [Tab -> Seq(Event)]
    BY DEF TypeOK
  <2>. QED  BY <1>2, <2>1, <2>2, <2>3, EmitAgrees DEF SetAsMainTab
<1>3. CASE Open(t)
  <2>1. CASE SetAsMainTab(t, <<>>)
    BY <1>2, <2>1
  <2>2. CASE /\ ready' = [ready EXCEPT ![t] = (mainTab # NoTab)]
             /\ UNCHANGED <<mainTab, inbox, active>>
    <3>1. mainTab # t /\ ~active[t]
      BY <1>3 DEF Open, ClosedTabs
    <3>. QED  BY <2>2, <3>1, QuietStep DEF TypeOK
  <2>. QED  BY <1>3, <2>1, <2>2 DEF Open
<1>4. CASE Show(t) \/ FightEnds(t)
  <2>1. (\E sleeping : SetAsMainTab(t, sleeping))
        \/ UNCHANGED <<mainTab, inbox, ready, active>>
    BY <1>4 DEF Show, FightEnds
  <2>. QED  BY <2>1, <1>2, QuietStep
<1>5. CASE Hide(t) \/ Beat(t) \/ Expire(t) \/ Throttle(t)
  <2>1. UNCHANGED <<mainTab, inbox, ready, active>>
    BY <1>5 DEF Fault, Hide, Beat, Expire, Throttle, shared, local
  <2>. QED  BY <2>1, QuietStep
<1>6. CASE Close(t) \/ Crash(t)
  <2>1. \A u \in Tab : ready'[u] => u # t /\ ready[u] /\ active'[u] = active[u]
    BY <1>6 DEF Fault, Close, Crash, Forget, TypeOK
  <2>2. mainTab' \in {mainTab, NoTab}
    BY <1>6 DEF Fault, Close, Crash, shared
  <2>3. \A u \in Tab \ {t} : NoMainEvent(inbox'[u]) => NoMainEvent(inbox[u])
    <3>1. CASE Crash(t)
      BY <3>1 DEF Fault, Crash, Forget, TypeOK
    <3>2. CASE Close(t)
      <4> DEFINE evs == Optional(mainTab = t, MainEvent) \o
                        Optional(heartBeat[t] # "none", BeatEvent(t))
      <4>1. Optional(mainTab = t, MainEvent) \in Seq(Event)
            /\ Optional(heartBeat[t] # "none", BeatEvent(t)) \in Seq(Event)
        BY OptionalType, EventType
      <4>2. evs \in Seq(Event)
        BY <4>1
      <4>3. inbox' = [Posted(inbox, t, evs) EXCEPT ![t] = <<>>]
        BY <3>2 DEF Fault, Close, Forget
      <4> HIDE DEF evs
      <4>4. \A u \in Tab \ {t} : inbox'[u] = Posted(inbox, t, evs)[u]
        BY <4>3 DEF Posted
      <4>. QED  BY <4>2, <4>4, PostedEvents DEF TypeOK
    <3>. QED  BY <1>6, <3>1, <3>2
  <2>. QED  BY <2>1, <2>2, <2>3, QuietStep
<1>7. CASE GC(t)
  <2> DEFINE stale == {u \in Tab : heartBeat[u] = "stale"}
  <2>1. PICK order \in SetToSeqs(stale) :
          inbox' = Posted(inbox, t, [i \in DOMAIN order |-> BeatEvent(order[i])])
    BY <1>7 DEF GC
  <2>2. [i \in DOMAIN order |-> BeatEvent(order[i])] \in Seq(Event)
    BY GCEvents
  <2>3. \A u \in Tab : NoMainEvent(inbox'[u]) => NoMainEvent(inbox[u])
    BY <2>1, <2>2, PostedEvents DEF TypeOK
  <2>. QED  BY <1>7, <2>3, QuietStep DEF GC
<1>8. CASE OnMainTabEvent(t)
  <2> DEFINE box == [inbox EXCEPT ![t] = Tail(@)]
  <2>1. CASE mainTab # NoTab
    <3>1. Emit(t, mainTab, box, <<>>, fights[t])
      BY <1>8, <2>1 DEF OnMainTabEvent
    <3>2. box \in [Tab -> Seq(Event)] /\ mainTab \in Tab /\ <<>> \in Seq(Event)
      BY <1>8, <2>1 DEF OnMainTabEvent, TypeOK
    <3>3. \A u \in Tab \ {t} : box[u] = inbox[u]
      BY DEF TypeOK
    <3> HIDE DEF box
    <3>. QED  BY <3>1, <3>2, <3>3, EmitAgrees
  <2>2. CASE mainTab = NoTab
    <3>1. mainTab' = NoTab
      BY <1>8, <2>2 DEF OnMainTabEvent
    <3>. QED  BY <3>1 DEF ActiveAgrees
  <2>. QED  BY <2>1, <2>2
<1>9. CASE OnBeatEvent(t)
  <2> DEFINE box == [inbox EXCEPT ![t] = Tail(@)]
  <2>1. box \in [Tab -> Seq(Event)]
    BY <1>9 DEF OnBeatEvent, TypeOK
  <2>2. \A u \in Tab : NoMainEvent(box[u]) => NoMainEvent(inbox[u])
    BY <1>9, HandledEvent DEF OnBeatEvent, TypeOK
  <2>3. mainTab' = NoTab \/ (mainTab' = mainTab /\ inbox' = box)
    BY <1>9 DEF OnBeatEvent
  <2>4. ready' = ready /\ active' = active
    BY <1>9 DEF OnBeatEvent
  <2>5. CASE mainTab' = NoTab
    BY <2>5 DEF ActiveAgrees
  <2>6. CASE mainTab' = mainTab /\ inbox' = box
    BY <2>2, <2>4, <2>6, QuietStep
  <2>. QED  BY <2>3, <2>5, <2>6
<1>. QED  BY <1>1, <1>3, <1>4, <1>5, <1>6, <1>7, <1>8, <1>9

-----------------------------------------------------------------------------
LEMMA InductiveInvariant == Spec => []IInv
<1>1. Init => IInv
  BY InitIInv
<1>2. IInv /\ [Next]_vars => IInv'
  <2> SUFFICES ASSUME IInv, [Next]_vars PROVE IInv'
    OBVIOUS
  <2>1. CASE Next
    BY <2>1, NextTypeOK, NextClosedTabs, NextActiveAgrees DEF IInv
  <2>2. CASE UNCHANGED vars
    BY <2>2 DEF vars, IInv, TypeOK, ClosedTabs, ActiveAgrees
  <2>. QED  BY <2>1, <2>2
<1>. QED  BY <1>1, <1>2, PTL DEF Spec

\* The state of the tabs, of localStorage and of the events in flight is always
\* of the shape Tabbie.js and TabManager give it.
THEOREM TypeCorrect == Spec => []TypeOK
<1>1. IInv => TypeOK
  BY DEF IInv
<1>. QED  BY <1>1, InductiveInvariant, PTL

\* For any number of tabs, closes, crashes and throttled timers: a ready
\* TabManager without an unhandled event of the main tab id knows whether its
\* tab is main.
THEOREM ActiveCorrect == Spec => []ActiveAgrees
<1>1. IInv => ActiveAgrees
  BY DEF IInv
<1>. QED  BY <1>1, InductiveInvariant, PTL

-----------------------------------------------------------------------------
(* Who may depose a live main tab.  While no live heart beat grew stale, all   *)
(* that deposes (stale beats, the events and handlers of collected ones, the   *)
(* fights over a main tab) is about tabs in D, the ones that are gone.         *)

DeadEvent(D)  == {MainEvent} \cup {BeatEvent(u) : u \in D}
DeadWaiter(D) == [from : {"event", "gc"}, id : D]

DeadOnly(D) ==
  /\ \A u \in Tab : heartBeat[u] = "stale" => u \in D
  /\ inbox \in [Tab -> Seq(DeadEvent(D))]
  /\ fights \in [Tab -> Seq(D \cup {NoTab})]
  /\ waiting \in [Tab -> SUBSET DeadWaiter(D)]

Gone == {u \in Tab : phase[u] = "gone"}

OnlyTheDead == faults["throttle"] = 0 => DeadOnly(Gone)

LEMMA PostedDead ==
  ASSUME NEW E, NEW box \in [Tab -> Seq(E)], NEW t \in Tab, NEW evs \in Seq(E)
  PROVE  Posted(box, t, evs) \in [Tab -> Seq(E)]
  BY DEF Posted

LEMMA GCDead ==
  ASSUME NEW D \in SUBSET Tab, NEW S \in SUBSET D, NEW order \in SetToSeqs(S)
  PROVE  [i \in DOMAIN order |-> BeatEvent(order[i])] \in Seq(DeadEvent(D))
<1>1. IsFiniteSet(S)  BY TabAssumption, FS_Subset
<1>2. Cardinality(S) \in Nat  BY <1>1, FS_CardinalityType
<1>3. order \in [1..Cardinality(S) -> S]  BY DEF SetToSeqs
<1>4. \A i \in 1..Cardinality(S) : BeatEvent(order[i]) \in DeadEvent(D)
  BY <1>3 DEF DeadEvent
<1>. QED  BY <1>2, <1>3, <1>4

\* An emission leaves nothing about a tab outside D, and takes the main role
\* from nobody outside D but the tab that held it before.
LEMMA EmitDead ==
  ASSUME TypeOK, NEW D \in SUBSET Tab, NEW t \in Tab, NEW v \in Tab,
         waiting \in [Tab -> SUBSET DeadWaiter(D)],
         fights \in [Tab -> Seq(D \cup {NoTab})],
         NEW box \in [Tab -> Seq(DeadEvent(D))], NEW evs \in Seq(DeadEvent(D)),
         NEW sleeping \in Seq(D \cup {NoTab}),
         Emit(t, v, box, evs, sleeping)
  PROVE  /\ inbox' \in [Tab -> Seq(DeadEvent(D))]
         /\ fights' \in [Tab -> Seq(D \cup {NoTab})]
         /\ waiting' \in [Tab -> SUBSET DeadWaiter(D)]
         /\ mainTab' = v \/ v \in D
<1> DEFINE deposes == [from |-> "event", id |-> v] \in waiting[t]
           refight == [from |-> "gc", id |-> v] \in waiting[t]
<1>1. /\ waiting' = [waiting EXCEPT ![t] = {}]
      /\ mainTab' = IF deposes THEN NoTab ELSE v
      /\ inbox' = Posted(box, t, evs \o Optional(deposes, MainEvent))
      /\ fights' = [fights EXCEPT ![t] =
           sleeping \o Optional(deposes, NoTab) \o Optional(refight, v)]
  BY DEF Emit
<1>2. (deposes \/ refight) => v \in D
  BY DEF DeadWaiter
<1> HIDE DEF deposes, refight
<1>3. Optional(deposes, MainEvent) \in Seq(DeadEvent(D))
  BY OptionalType DEF DeadEvent
<1>4. inbox' \in [Tab -> Seq(DeadEvent(D))]
  <2>1. evs \o Optional(deposes, MainEvent) \in Seq(DeadEvent(D))
    BY <1>3
  <2>. QED  BY <1>1, <2>1, PostedDead
<1>5. Optional(deposes, NoTab) \in Seq(D \cup {NoTab})
  BY OptionalType
<1>6. Optional(refight, v) \in Seq(D \cup {NoTab})
  <2>1. CASE refight   BY <1>2, <2>1, OptionalType
  <2>2. CASE ~refight  BY <2>2 DEF Optional
  <2>. QED  BY <2>1, <2>2
<1>7. sleeping \o Optional(deposes, NoTab) \o Optional(refight, v) \in Seq(D \cup {NoTab})
  BY <1>5, <1>6
<1>. QED  BY <1>1, <1>2, <1>4, <1>7

\* The same of a tab that takes the main role itself: it is not in D.
LEMMA SetDead ==
  ASSUME TypeOK, NEW D \in SUBSET Tab, DeadOnly(D), NEW t \in Tab \ D,
         NEW sleeping \in Seq(D \cup {NoTab}), SetAsMainTab(t, sleeping)
  PROVE  /\ inbox' \in [Tab -> Seq(DeadEvent(D))]
         /\ fights' \in [Tab -> Seq(D \cup {NoTab})]
         /\ waiting' \in [Tab -> SUBSET DeadWaiter(D)]
         /\ mainTab' = t
<1>1. Optional(mainTab # t, MainEvent) \in Seq(DeadEvent(D))
  BY OptionalType DEF DeadEvent
<1>. QED  BY <1>1, EmitDead DEF SetAsMainTab, DeadOnly

\* A step that throttles no timer, D being the tabs that are gone after it: it
\* keeps DeadOnly, and a live main tab loses its role to a visible tab only.
LEMMA StepDead ==
  ASSUME TypeOK, Next, NEW D \in SUBSET Tab, D = Gone', DeadOnly(D),
         faults'["throttle"] = 0
  PROVE  /\ DeadOnly(D)'
         /\ mainTab' = mainTab \/ mainTab \in D \cup {NoTab}
            \/ \E u \in Tab : mainTab' = u /\ ~hidden'[u]
<1> DEFINE Deposed == mainTab' = mainTab \/ mainTab \in D \cup {NoTab}
                      \/ \E u \in Tab : mainTab' = u /\ ~hidden'[u]
<1>1. PICK t \in Tab :
        \/ Open(t) \/ Show(t) \/ Hide(t) \/ Close(t) \/ Crash(t)
        \/ Beat(t) \/ Expire(t) \/ Throttle(t) \/ GC(t)
        \/ OnMainTabEvent(t) \/ OnBeatEvent(t) \/ FightEnds(t)
  BY DEF Next
<1>a. D = {u \in Tab : phase'[u] = "gone"}
  BY DEF Gone
<1>b. <<>> \in Seq(D \cup {NoTab}) /\ <<>> \in Seq(DeadEvent(D))
      /\ <<MainEvent>> \in Seq(DeadEvent(D))
  BY DEF DeadEvent
<1>2. CASE Open(t)
  <2>1. t \notin D
    BY <1>2, <1>a DEF Open, TypeOK
  <2>2. \A u \in Tab : heartBeat'[u] = "stale" => u \in D
    BY <1>2 DEF Open, DeadOnly, TypeOK
  <2>3. CASE hidden' = [hidden EXCEPT ![t] = FALSE] /\ SetAsMainTab(t, <<>>)
    <3>1. /\ inbox' \in [Tab -> Seq(DeadEvent(D))]
          /\ fights' \in [Tab -> Seq(D \cup {NoTab})]
          /\ waiting' \in [Tab -> SUBSET DeadWaiter(D)]
          /\ mainTab' = t
      BY <1>b, <2>1, <2>3, SetDead
    <3>2. ~hidden'[t]
      BY <2>3 DEF TypeOK
    <3>. QED  BY <2>2, <3>1, <3>2 DEF DeadOnly
  <2>4. CASE /\ fights' = [fights EXCEPT ![t] = InitialFight]
             /\ UNCHANGED <<mainTab, hidden, inbox, waiting, active>>
    <3>1. InitialFight \in Seq(D \cup {NoTab})
      BY OptionalType DEF InitialFight
    <3>. QED  BY <2>2, <2>4, <3>1 DEF DeadOnly
  <2>. QED  BY <1>2, <2>3, <2>4 DEF Open
<1>3. CASE Show(t)
  <2>1. t \notin D
    BY <1>3, <1>a DEF Show
  <2>2. heartBeat' = heartBeat /\ ~hidden'[t]
    BY <1>3 DEF Show, TypeOK
  <2>3. CASE SetAsMainTab(t, fights[t])
    <3>1. fights[t] \in Seq(D \cup {NoTab})
      BY DEF DeadOnly
    <3>. QED  BY <2>1, <2>2, <2>3, <3>1, SetDead DEF DeadOnly
  <2>4. CASE UNCHANGED <<mainTab, inbox, fights, waiting>>
    BY <2>2, <2>4 DEF DeadOnly
  <2>. QED  BY <1>3, <2>3, <2>4 DEF Show
<1>4. CASE Hide(t)
  BY <1>4 DEF Hide, shared, DeadOnly
<1>5. CASE Beat(t) \/ Expire(t) \/ Throttle(t)
  <2>1. UNCHANGED <<mainTab, inbox, fights, waiting, phase>>
    BY <1>5 DEF Beat, Expire, Throttle, Fault, local
  <2>2. \A u \in Tab : heartBeat'[u] = "stale" => u \in D
    <3>1. CASE Beat(t)
      BY <3>1 DEF Beat, DeadOnly, TypeOK
    <3>2. CASE Expire(t)
      BY <3>2, <1>a DEF Expire, DeadOnly, TypeOK
    <3>3. CASE Throttle(t)
      BY <3>3 DEF Throttle, Fault, TypeOK
    <3>. QED  BY <1>5, <3>1, <3>2, <3>3
  <2>. QED  BY <2>1, <2>2 DEF DeadOnly
<1>6. CASE Close(t) \/ Crash(t)
  <2>1. t \in D
    BY <1>6, <1>a DEF Close, Crash, Forget, TypeOK
  <2>2. mainTab' = mainTab \/ mainTab = t
    BY <1>6 DEF Close, Crash, shared
  <2>3. \A u \in Tab : heartBeat'[u] = "stale" => u \in D
    BY <1>6 DEF Close, Crash, shared, DeadOnly, TypeOK
  <2>4. fights' \in [Tab -> Seq(D \cup {NoTab})] /\ waiting' \in [Tab -> SUBSET DeadWaiter(D)]
    <3>1. /\ fights' = [fights EXCEPT ![t] = <<>>]
          /\ waiting' = [waiting EXCEPT ![t] = {}]
      BY <1>6 DEF Close, Crash, Forget
    <3>2. /\ fights \in [Tab -> Seq(D \cup {NoTab})]
          /\ waiting \in [Tab -> SUBSET DeadWaiter(D)]
      BY DEF DeadOnly
    <3>3. {} \in SUBSET DeadWaiter(D)
      OBVIOUS
    <3>4. fights' \in [Tab -> Seq(D \cup {NoTab})]
      BY <3>1, <3>2, <1>b
    <3>5. waiting' \in [Tab -> SUBSET DeadWaiter(D)]
      BY <3>1, <3>2, <3>3
    <3>. QED  BY <3>4, <3>5
  <2>5. inbox' \in [Tab -> Seq(DeadEvent(D))]
    <3>1. CASE Crash(t)
      BY <3>1, <1>b DEF Crash, Forget, DeadOnly
    <3>2. CASE Close(t)
      <4> DEFINE evs == Optional(mainTab = t, MainEvent) \o
                        Optional(heartBeat[t] # "none", BeatEvent(t))
      <4>1. Optional(mainTab = t, MainEvent) \in Seq(DeadEvent(D))
        BY OptionalType DEF DeadEvent
      <4>2. Optional(heartBeat[t] # "none", BeatEvent(t)) \in Seq(DeadEvent(D))
        BY <2>1, OptionalType DEF DeadEvent
      <4>3. evs \in Seq(DeadEvent(D))
        BY <4>1, <4>2
      <4>4. inbox' = [Posted(inbox, t, evs) EXCEPT ![t] = <<>>]
        BY <3>2 DEF Close, Forget
      <4> HIDE DEF evs
      <4>5. Posted(inbox, t, evs) \in [Tab -> Seq(DeadEvent(D))]
        BY <4>3, PostedDead DEF DeadOnly
      <4>. QED  BY <4>4, <4>5, <1>b
    <3>. QED  BY <1>6, <3>1, <3>2
  <2>. QED  BY <2>1, <2>2, <2>3, <2>4, <2>5 DEF DeadOnly
<1>7. CASE GC(t)
  <2> DEFINE stale == {u \in Tab : heartBeat[u] = "stale"}
  <2>1. stale \in SUBSET D
    BY DEF DeadOnly
  <2>2. PICK order \in SetToSeqs(stale) :
          inbox' = Posted(inbox, t, [i \in DOMAIN order |-> BeatEvent(order[i])])
    BY <1>7 DEF GC
  <2>3. inbox' \in [Tab -> Seq(DeadEvent(D))]
    <3> HIDE DEF stale
    <3>1. [i \in DOMAIN order |-> BeatEvent(order[i])] \in Seq(DeadEvent(D))
      BY <2>1, GCDead
    <3>. QED  BY <2>2, <3>1, PostedDead DEF DeadOnly
  <2>4. fights' \in [Tab -> Seq(D \cup {NoTab})]
    <3>1. fights' = [fights EXCEPT ![t] = fights[t] \o Optional(mainTab \in stale, mainTab)]
      BY <1>7 DEF GC, FightAfterGC
    <3>2. Optional(mainTab \in stale, mainTab) \in Seq(D \cup {NoTab})
      <4> HIDE DEF stale
      <4>1. CASE mainTab \in stale   BY <2>1, <4>1, OptionalType
      <4>2. CASE mainTab \notin stale  BY <4>2 DEF Optional
      <4>. QED  BY <4>1, <4>2
    <3>. QED  BY <3>1, <3>2 DEF DeadOnly
  <2>5. waiting' \in [Tab -> SUBSET DeadWaiter(D)]
    BY <1>7, <2>1 DEF GC, DeadOnly, DeadWaiter
  <2>6. \A u \in Tab : heartBeat'[u] = "stale" => u \in D
    BY <1>7 DEF GC
  <2>. QED  BY <1>7, <2>3, <2>4, <2>5, <2>6 DEF GC, DeadOnly
<1>8. CASE OnMainTabEvent(t)
  <2> DEFINE box == [inbox EXCEPT ![t] = Tail(@)]
  <2>1. box \in [Tab -> Seq(DeadEvent(D))]
    BY <1>8 DEF OnMainTabEvent, DeadOnly
  <2>2. heartBeat' = heartBeat
    BY <1>8 DEF OnMainTabEvent
  <2>3. CASE mainTab # NoTab
    <3>1. Emit(t, mainTab, box, <<>>, fights[t])
      BY <1>8, <2>3 DEF OnMainTabEvent
    <3>2. mainTab \in Tab /\ fights[t] \in Seq(D \cup {NoTab})
      BY <2>3 DEF TypeOK, DeadOnly
    <3> HIDE DEF box
    <3>. QED  BY <1>b, <2>1, <2>2, <3>1, <3>2, EmitDead DEF DeadOnly
  <2>4. CASE mainTab = NoTab
    BY <1>8, <2>1, <2>2, <2>4 DEF OnMainTabEvent, DeadOnly
  <2>. QED  BY <2>3, <2>4
<1>9. CASE OnBeatEvent(t)
  <2> DEFINE id == Head(inbox[t]).id
             box == [inbox EXCEPT ![t] = Tail(@)]
  <2>1. box \in [Tab -> Seq(DeadEvent(D))]
    BY <1>9 DEF OnBeatEvent, DeadOnly
  <2>2. id \in D
    <3>1. Head(inbox[t]) \in DeadEvent(D) /\ Head(inbox[t]) # MainEvent
      BY <1>9 DEF OnBeatEvent, DeadOnly
    <3>. QED  BY <3>1 DEF DeadEvent, BeatEvent
  <2>3. Posted(box, t, <<MainEvent>>) \in [Tab -> Seq(DeadEvent(D))]
    BY <1>b, <2>1, PostedDead
  <2>4. inbox' \in [Tab -> Seq(DeadEvent(D))]
    BY <1>9, <2>1, <2>3 DEF OnBeatEvent
  <2>5. fights' \in [Tab -> Seq(D \cup {NoTab})]
    <3>1. fights' \in {fights, [fights EXCEPT ![t] = Append(@, NoTab)]}
      BY <1>9 DEF OnBeatEvent
    <3>2. Append(fights[t], NoTab) \in Seq(D \cup {NoTab})
      BY DEF DeadOnly
    <3>. QED  BY <3>1, <3>2 DEF DeadOnly
  <2>6. waiting' \in [Tab -> SUBSET DeadWaiter(D)]
    BY <1>9, <2>2 DEF OnBeatEvent, DeadOnly, DeadWaiter
  <2>7. heartBeat' = heartBeat /\ (mainTab' = mainTab \/ mainTab = id)
    BY <1>9 DEF OnBeatEvent
  <2>. QED  BY <2>2, <2>4, <2>5, <2>6, <2>7 DEF DeadOnly
<1>10. CASE FightEnds(t)
  <2>1. t \notin D /\ heartBeat' = heartBeat
    BY <1>10, <1>a DEF FightEnds
  <2>2. fights[t] \in Seq(D \cup {NoTab}) /\ fights[t] # <<>>
    BY <1>10 DEF FightEnds, DeadOnly
  <2>3. Tail(fights[t]) \in Seq(D \cup {NoTab}) /\ Head(fights[t]) \in D \cup {NoTab}
    BY <2>2
  <2>4. CASE Unchallenged(t)
    <3>1. SetAsMainTab(t, Tail(fights[t]))
      BY <1>10, <2>4 DEF FightEnds
    <3>. QED  BY <2>1, <2>3, <2>4, <3>1, SetDead DEF DeadOnly, Unchallenged
  <2>5. CASE ~Unchallenged(t)
    BY <1>10, <2>1, <2>3, <2>5 DEF FightEnds, DeadOnly
  <2>. QED  BY <2>4, <2>5
<1>. QED  BY <1>1, <1>2, <1>3, <1>4, <1>5, <1>6, <1>7, <1>8, <1>9, <1>10

\* DeadOnly holds of a larger set of tabs, too.
LEMMA DeadGrows ==
  ASSUME NEW C, NEW D, C \subseteq D, DeadOnly(C)
  PROVE  DeadOnly(D)
<1>1. DeadEvent(C) \subseteq DeadEvent(D)
  BY DEF DeadEvent
<1>2. Seq(DeadEvent(C)) \subseteq Seq(DeadEvent(D)) /\ Seq(C \cup {NoTab}) \subseteq Seq(D \cup {NoTab})
  BY <1>1
<1>3. DeadWaiter(C) \subseteq DeadWaiter(D)
  BY DEF DeadWaiter
<1>. QED  BY <1>2, <1>3 DEF DeadOnly

\* A tab that is gone stays gone, and a throttled timer is not forgotten.
LEMMA GoneStays ==
  ASSUME TypeOK, Next
  PROVE  /\ Gone \subseteq Gone'
         /\ faults'["throttle"] = 0 => faults["throttle"] = 0
<1>1. PICK t \in Tab :
        \/ Open(t) \/ Show(t) \/ Hide(t) \/ Close(t) \/ Crash(t)
        \/ Beat(t) \/ Expire(t) \/ Throttle(t) \/ GC(t)
        \/ OnMainTabEvent(t) \/ OnBeatEvent(t) \/ FightEnds(t)
  BY DEF Next
<1>2. phase' = phase \/ phase' = [phase EXCEPT ![t] = "gone"]
      \/ (phase[t] = "unopened" /\ phase' = [phase EXCEPT ![t] = "open"])
  BY <1>1 DEF Open, Show, Hide, Close, Crash, Beat, Expire, Throttle, GC,
       OnMainTabEvent, OnBeatEvent, FightEnds, Forget, local
<1>3. faults' = faults \/ \E f \in {"close", "crash", "throttle"} :
                            faults' = [faults EXCEPT ![f] = @ + 1]
  BY <1>1 DEF Open, Show, Hide, Close, Crash, Beat, Expire, Throttle, GC, Fault,
       OnMainTabEvent, OnBeatEvent, FightEnds
<1>. QED  BY <1>2, <1>3 DEF Gone, TypeOK

\* As long as no timer is throttled, a step keeps OnlyTheDead and deposes no live
\* main tab for the sake of a hidden one.
LEMMA NextOnlyTheDead ==
  ASSUME TypeOK, TypeOK', OnlyTheDead, Next
  PROVE  /\ OnlyTheDead'
         /\ \A t \in OpenTabs :
              /\ mainTab = t /\ mainTab' # t /\ faults'["throttle"] = 0
              => \/ phase'[t] = "gone"
                 \/ \E u \in Tab \ {t} : mainTab' = u /\ ~hidden'[u]
<1>1. CASE faults'["throttle"] = 0
  <2>1. PICK D \in SUBSET Tab : D = Gone'
    BY DEF Gone
  <2>2. DeadOnly(D)
    BY <1>1, <2>1, GoneStays, DeadGrows DEF OnlyTheDead
  <2>3. /\ DeadOnly(D)'
        /\ mainTab' = mainTab \/ mainTab \in D \cup {NoTab}
           \/ \E u \in Tab : mainTab' = u /\ ~hidden'[u]
    BY <1>1, <2>1, <2>2, StepDead
  <2>4. OnlyTheDead'
    BY <2>1, <2>3 DEF OnlyTheDead, DeadOnly
  <2>. QED  BY <2>1, <2>3, <2>4, TabAssumption DEF OpenTabs, Gone
<1>2. CASE faults'["throttle"] # 0
  BY <1>2 DEF OnlyTheDead
<1>. QED  BY <1>1, <1>2

\* For any tabs, closes and crashes: as long as the browser throttles no timer, a
\* live main tab loses its role only when it closes or dies, or to a tab the
\* user looks at.
THEOREM LiveMainKeepsRole == Spec => OnlyVisibleDeposes
<1>1. Init => OnlyTheDead
  BY DEF Init, OnlyTheDead, DeadOnly, DeadEvent, DeadWaiter
<1>2. OnlyTheDead /\ TypeOK /\ TypeOK' /\ [Next]_vars => OnlyTheDead'
  <2>1. CASE Next  BY <2>1, NextOnlyTheDead
  <2>2. CASE UNCHANGED vars
    BY <2>2 DEF vars, OnlyTheDead, DeadOnly, Gone
  <2>. QED  BY <2>1, <2>2
<1>3. OnlyTheDead /\ TypeOK /\ TypeOK' /\ [Next]_vars =>
        [\A t \in OpenTabs :
           /\ mainTab = t /\ mainTab' # t /\ faults'["throttle"] = 0
           => \/ phase'[t] = "gone"
              \/ \E u \in Tab \ {t} : mainTab' = u /\ ~hidden'[u]]_vars
  BY NextOnlyTheDead
<1>. QED  BY <1>1, <1>2, <1>3, TypeCorrect, PTL DEF Spec, OnlyVisibleDeposes
-----------------------------------------------------------------------------
(* What keeps AllTabsLearn and DeadMainReplaced possible. *)

\* An event of the main tab id waits in the inbox of t.
Told(t) == \E i \in DOMAIN inbox[t] : inbox[t][i] = MainEvent

\* While there is a main tab, every open tab whose TabManager is not ready has
\* an event on its way that makes it ready.
NobodyLeftOut == mainTab # NoTab => \A t \in OpenTabs : ready[t] \/ Told(t)

\* What waits in an inbox still waits after Posted, in every tab; what Posted
\* raises waits in every other open tab.
LEMMA PostedTold ==
  ASSUME NEW box \in [Tab -> Seq(Event)], NEW t \in Tab, NEW evs \in Seq(Event),
         NEW u \in Tab, phase[u] = "open"
  PROVE  /\ ~NoMainEvent(box[u]) => ~NoMainEvent(Posted(box, t, evs)[u])
         /\ u # t /\ ~NoMainEvent(evs) => ~NoMainEvent(Posted(box, t, evs)[u])
<1>1. CASE u # t
  <2>1. Posted(box, t, evs)[u] = box[u] \o evs
    BY <1>1 DEF Posted
  <2>. QED  BY <2>1, AppendedEvents
<1>2. CASE u = t
  BY <1>2 DEF Posted
<1>. QED  BY <1>1, <1>2

\* After tab t emitted, nobody is left out: t is ready and whoever is not ready
\* was told before or by an event of this turn.
LEMMA EmitTold ==
  ASSUME TypeOK, NobodyLeftOut, NEW t \in Tab, NEW v \in Tab,
         NEW box \in [Tab -> Seq(Event)], NEW evs \in Seq(Event), NEW sleeping,
         \A u \in Tab \ {t} : box[u] = inbox[u],
         mainTab = v \/ ~NoMainEvent(evs),
         phase' = phase \/ phase' = [phase EXCEPT ![t] = "open"],
         Emit(t, v, box, evs, sleeping)
  PROVE  NobodyLeftOut'
<1> DEFINE deposes == [from |-> "event", id |-> v] \in waiting[t]
           raised == evs \o Optional(deposes, MainEvent)
<1>1. /\ ready' = [ready EXCEPT ![t] = TRUE]
      /\ inbox' = Posted(box, t, raised)
  BY DEF Emit
<1>2. Optional(deposes, MainEvent) \in Seq(Event)
  BY EventType, OptionalType
<1>3. raised \in Seq(Event) /\ (~NoMainEvent(evs) => ~NoMainEvent(raised))
  BY <1>2, AppendedEvents
<1> HIDE DEF raised
<1> SUFFICES ASSUME NEW u \in OpenTabs' PROVE (ready[u] \/ Told(u))'
  BY DEF NobodyLeftOut
<1>4. CASE u = t
  BY <1>1, <1>4 DEF TypeOK
<1>5. CASE u # t
  <2>1. u \in Tab /\ phase[u] = "open" /\ ready'[u] = ready[u]
    BY <1>1, <1>5 DEF OpenTabs, TypeOK
  <2>0. ~NoMainEvent(Posted(box, t, raised)[u]) => Told(u)'
    BY <1>1 DEF Told, NoMainEvent
  <2>2. CASE ~NoMainEvent(evs)
    <3>1. ~NoMainEvent(Posted(box, t, raised)[u])
      BY <1>3, <1>5, <2>1, <2>2, PostedTold
    <3>. QED  BY <2>0, <3>1
  <2>3. CASE mainTab = v
    <3>1. mainTab # NoTab /\ u \in OpenTabs
      BY <2>1, <2>3, TabAssumption DEF OpenTabs
    <3>2. ready[u] \/ ~NoMainEvent(box[u])
      BY <1>5, <2>1, <3>1 DEF NobodyLeftOut, Told, NoMainEvent
    <3>3. ready[u] \/ ~NoMainEvent(Posted(box, t, raised)[u])
      BY <1>3, <2>1, <3>2, PostedTold
    <3>. QED  BY <2>0, <2>1, <3>3
  <2>. QED  BY <2>2, <2>3
<1>. QED  BY <1>4, <1>5

\* A step that emits nothing leaves nobody out if it names no main tab, opens
\* none while there is one and takes no event of the main tab id.
LEMMA QuietTold ==
  ASSUME NobodyLeftOut, mainTab' \in {mainTab, NoTab},
         mainTab # NoTab =>
           \A u \in OpenTabs' : \/ ready'[u]
                                \/ u \in OpenTabs /\ ready'[u] = ready[u]
                                   /\ (~NoMainEvent(inbox[u]) => ~NoMainEvent(inbox'[u]))
  PROVE  NobodyLeftOut'
BY DEF NobodyLeftOut, Told, NoMainEvent

LEMMA NextTold == ASSUME TypeOK, NobodyLeftOut, Next PROVE NobodyLeftOut'
<1>1. PICK t \in Tab :
        \/ Open(t) \/ Show(t) \/ Hide(t) \/ Close(t) \/ Crash(t)
        \/ Beat(t) \/ Expire(t) \/ Throttle(t) \/ GC(t)
        \/ OnMainTabEvent(t) \/ OnBeatEvent(t) \/ FightEnds(t)
  BY DEF Next
<1>2. \A sleeping : phase' \in {phase, [phase EXCEPT ![t] = "open"]}
                    /\ SetAsMainTab(t, sleeping) => NobodyLeftOut'
  <2> SUFFICES ASSUME NEW sleeping, SetAsMainTab(t, sleeping),
                      phase' \in {phase, [phase EXCEPT ![t] = "open"]}
               PROVE  NobodyLeftOut'
    OBVIOUS
  <2>1. Optional(mainTab # t, MainEvent) \in Seq(Event)
    BY EventType, OptionalType
  <2>2. mainTab = t \/ ~NoMainEvent(Optional(mainTab # t, MainEvent))
    BY DEF Optional, NoMainEvent
  <2>3. inbox \in [Tab -> Seq(Event)]
    BY DEF TypeOK
  <2>4. Emit(t, t, inbox, Optional(mainTab # t, MainEvent), sleeping)
    BY DEF SetAsMainTab
  <2>. QED  BY <2>1, <2>2, <2>3, <2>4, EmitTold
<1>3. CASE Open(t)
  <2>1. phase' = [phase EXCEPT ![t] = "open"]
    BY <1>3 DEF Open
  <2>2. CASE SetAsMainTab(t, <<>>)
    BY <1>2, <2>1, <2>2
  <2>3. CASE /\ ready' = [ready EXCEPT ![t] = (mainTab # NoTab)]
             /\ UNCHANGED <<mainTab, inbox>>
    BY <2>1, <2>3, QuietTold DEF OpenTabs, TypeOK
  <2>. QED  BY <1>3, <2>2, <2>3 DEF Open
<1>4. CASE Show(t)
  BY <1>2, <1>4, QuietTold DEF Show, OpenTabs
<1>5. CASE Hide(t) \/ Beat(t) \/ Expire(t) \/ Throttle(t)
  <2>1. UNCHANGED <<mainTab, phase, inbox, ready>>
    BY <1>5 DEF Hide, Beat, Expire, Throttle, shared, local
  <2>. QED  BY <2>1, QuietTold DEF OpenTabs
<1>6. CASE Close(t)
  <2> DEFINE evs == Optional(mainTab = t, MainEvent) \o
                    Optional(heartBeat[t] # "none", BeatEvent(t))
  <2>1. evs \in Seq(Event)
    BY EventType, OptionalType
  <2>2. /\ mainTab' \in {mainTab, NoTab}
        /\ phase' = [phase EXCEPT ![t] = "gone"]
        /\ ready' = [ready EXCEPT ![t] = FALSE]
        /\ inbox' = [Posted(inbox, t, evs) EXCEPT ![t] = <<>>]
    BY <1>6 DEF Close, Forget
  <2> HIDE DEF evs
  <2> SUFFICES ASSUME NEW u \in OpenTabs'
               PROVE  u \in OpenTabs /\ ready'[u] = ready[u]
                      /\ (~NoMainEvent(inbox[u]) => ~NoMainEvent(inbox'[u]))
    BY <2>2, QuietTold
  <2>3. u \in Tab /\ u # t /\ phase[u] = "open" /\ ready'[u] = ready[u]
    BY <2>2 DEF OpenTabs, TypeOK
  <2>4. inbox'[u] = Posted(inbox, t, evs)[u]
    BY <2>2, <2>3, <2>1, PostedType DEF TypeOK
  <2>5. ~NoMainEvent(inbox[u]) => ~NoMainEvent(Posted(inbox, t, evs)[u])
    BY <2>1, <2>3, PostedTold DEF TypeOK
  <2>. QED  BY <2>3, <2>4, <2>5 DEF OpenTabs
<1>7. CASE Crash(t)
  <2>1. /\ mainTab' = mainTab
        /\ phase' = [phase EXCEPT ![t] = "gone"]
        /\ ready' = [ready EXCEPT ![t] = FALSE]
        /\ inbox' = [inbox EXCEPT ![t] = <<>>]
    BY <1>7 DEF Crash, Forget, shared
  <2>2. \A u \in OpenTabs' : u \in OpenTabs /\ ready'[u] = ready[u] /\ inbox'[u] = inbox[u]
    BY <2>1 DEF OpenTabs, TypeOK
  <2>. QED  BY <2>1, <2>2, QuietTold
<1>8. CASE GC(t)
  <2>1. UNCHANGED <<mainTab, phase, ready>>
    BY <1>8 DEF GC
  <2>2. PICK evs \in Seq(Event) : inbox' = Posted(inbox, t, evs)
    BY <1>8, GCEvents DEF GC
  <2>3. \A u \in OpenTabs : ~NoMainEvent(inbox[u]) => ~NoMainEvent(inbox'[u])
    BY <2>2, PostedTold DEF OpenTabs, TypeOK
  <2>. QED  BY <2>1, <2>3, QuietTold DEF OpenTabs
<1>9. CASE OnMainTabEvent(t)
  <2> DEFINE box == [inbox EXCEPT ![t] = Tail(@)]
  <2>1. box \in [Tab -> Seq(Event)] /\ \A u \in Tab \ {t} : box[u] = inbox[u]
    BY <1>9 DEF OnMainTabEvent, TypeOK
  <2>2. phase' = phase
    BY <1>9 DEF OnMainTabEvent
  <2>3. CASE mainTab # NoTab
    <3>1. Emit(t, mainTab, box, <<>>, fights[t]) /\ mainTab \in Tab
      BY <1>9, <2>3 DEF OnMainTabEvent, TypeOK
    <3>2. <<>> \in Seq(Event)
      OBVIOUS
    <3> HIDE DEF box
    <3>. QED  BY <2>1, <2>2, <3>1, <3>2, EmitTold
  <2>4. CASE mainTab = NoTab
    BY <1>9, <2>4 DEF OnMainTabEvent, NobodyLeftOut
  <2>. QED  BY <2>3, <2>4
<1>10. CASE OnBeatEvent(t)
  <2> DEFINE box == [inbox EXCEPT ![t] = Tail(@)]
  <2>1. /\ inbox[t] \in Seq(Event) /\ inbox[t] # <<>> /\ Head(inbox[t]) # MainEvent
        /\ phase' = phase /\ ready' = ready /\ mainTab' \in {mainTab, NoTab}
    BY <1>10 DEF OnBeatEvent, TypeOK
  <2>2. box \in [Tab -> Seq(Event)]
    BY <2>1 DEF TypeOK
  <2>3. \A u \in Tab : ~NoMainEvent(inbox[u]) => ~NoMainEvent(box[u])
    BY <2>1, HandledEvent DEF TypeOK
  <2>4. <<MainEvent>> \in Seq(Event)
    BY EventType
  <2>5. inbox' = box \/ inbox' = Posted(box, t, <<MainEvent>>)
    BY <1>10 DEF OnBeatEvent
  <2> HIDE DEF box
  <2>6. \A u \in OpenTabs : ~NoMainEvent(inbox[u]) => ~NoMainEvent(inbox'[u])
    BY <2>2, <2>3, <2>4, <2>5, PostedTold DEF OpenTabs
  <2>. QED  BY <2>1, <2>6, QuietTold DEF OpenTabs
<1>11. CASE FightEnds(t)
  BY <1>2, <1>11, QuietTold DEF FightEnds, OpenTabs
<1>. QED  BY <1>1, <1>3, <1>4, <1>5, <1>6, <1>7, <1>8, <1>9, <1>10, <1>11

\* For any tabs, closes, crashes and throttles: once there is a main tab, every
\* open tab is ready or has the event that makes it so still to handle.
THEOREM TabsAreTold == Spec => []NobodyLeftOut
<1>1. Init => NobodyLeftOut
  BY DEF Init, NobodyLeftOut
<1>2. NobodyLeftOut /\ TypeOK /\ [Next]_vars => NobodyLeftOut'
  <2>1. CASE Next  BY <2>1, NextTold
  <2>2. CASE UNCHANGED vars
    BY <2>2 DEF vars, NobodyLeftOut, OpenTabs, Told
  <2>. QED  BY <2>1, <2>2
<1>. QED  BY <1>1, <1>2, TypeCorrect, PTL DEF Spec
-----------------------------------------------------------------------------
\* t sleeps in a fight it started when v was the main tab id.
Fights(t, v) == \E i \in DOMAIN fights[t] : fights[t][i] = v
Fought(v) == \E t \in OpenTabs : Fights(t, v)
\* The same after the step.
FightsOn(t, v) == \E i \in DOMAIN fights'[t] : fights'[t][i] = v

\* After one crash and no other fault, a main role that no open tab holds is
\* about to be taken: the dead main tab's beat is there to be collected, or an
\* open tab fights for the role as it is.
RoleComes ==
  OneCrash /\ OpenTabs # {} /\ mainTab \notin OpenTabs =>
    \/ mainTab \in Gone /\ heartBeat[mainTab] # "none"
    \/ Fought(mainTab)

\* Its inductive strengthening.  Live tabs have a beat, as no timer is
\* throttled.  Before the crash every open tab fights for a role nobody has
\* held yet, so that the crash cannot take the only one that does.
RoleKept ==
  OneCrash =>
    /\ \A t \in OpenTabs : heartBeat[t] # "none"
    /\ faults["crash"] = 0 => Gone = {}
    /\ faults["crash"] = 0 /\ mainTab = NoTab => \A t \in OpenTabs : Fights(t, NoTab)
    /\ mainTab = NoTab /\ OpenTabs # {} => Fought(NoTab)
    /\ mainTab \in Gone => heartBeat[mainTab] # "none" \/ Fought(mainTab)

\* A fight stays among those of a tab that starts more.
LEMMA MoreFights ==
  ASSUME NEW s \in Seq(Tab \cup {NoTab}), NEW e \in Seq(Tab \cup {NoTab})
  PROVE  /\ \A i \in DOMAIN s : \E j \in DOMAIN (s \o e) : (s \o e)[j] = s[i]
         /\ \A i \in DOMAIN e : \E j \in DOMAIN (s \o e) : (s \o e)[j] = e[i]
<1>1. \A i \in DOMAIN s : i \in DOMAIN (s \o e) /\ (s \o e)[i] = s[i]
  OBVIOUS
<1>2. \A i \in DOMAIN e : Len(s) + i \in DOMAIN (s \o e) /\ (s \o e)[Len(s) + i] = e[i]
  OBVIOUS
<1>. QED  BY <1>1, <1>2

\* A step that leaves the tabs and the main tab as they are and ends no fight
\* for the role as it is.
LEMMA RoleStays ==
  ASSUME RoleKept, UNCHANGED <<mainTab, phase, faults>>,
         \A u \in OpenTabs : heartBeat[u] # "none" => heartBeat'[u] # "none",
         \A u \in OpenTabs : Fights(u, mainTab) => Fights(u, mainTab)',
         mainTab \in Gone /\ heartBeat[mainTab] # "none" =>
           heartBeat'[mainTab] # "none" \/ Fought(mainTab)'
  PROVE  RoleKept'
<1> SUFFICES ASSUME OneCrash' PROVE RoleKept'
  BY DEF RoleKept
<1>1. OneCrash /\ faults' = faults /\ mainTab' = mainTab
  BY DEF OneCrash
<1>2. OpenTabs' = OpenTabs /\ Gone' = Gone
  BY DEF OpenTabs, Gone
<1>3. Fought(mainTab) => Fought(mainTab)'
  BY <1>2 DEF Fought
<1>4. \A u \in OpenTabs : mainTab = NoTab /\ Fights(u, NoTab) => Fights(u, NoTab)'
  BY <1>1 DEF Fights
<1>5. mainTab = NoTab /\ Fought(NoTab) => Fought(NoTab)'
  BY <1>2, <1>4 DEF Fought
<1>. QED  BY <1>1, <1>2, <1>3, <1>4, <1>5 DEF RoleKept

\* A step that gives the role to an open tab.
LEMMA RoleTaken ==
  ASSUME RoleKept, faults' = faults, mainTab' \in OpenTabs', Gone' = Gone,
         \A u \in OpenTabs' : u \in OpenTabs \/ heartBeat'[u] # "none",
         \A u \in OpenTabs : heartBeat[u] # "none" => heartBeat'[u] # "none"
  PROVE  RoleKept'
<1>1. mainTab' # NoTab /\ mainTab' \notin Gone'
  BY TabAssumption DEF OpenTabs, Gone
<1>. QED  BY <1>1 DEF RoleKept, OneCrash

\* A step in which an open tab removes the id of a dead main tab and fights.
LEMMA RoleRemoved ==
  ASSUME RoleKept, UNCHANGED <<phase, faults, heartBeat>>, mainTab' = NoTab, Gone # {},
         NEW t \in OpenTabs, Fights(t, NoTab)'
  PROVE  RoleKept'
<1>1. OpenTabs' = OpenTabs /\ Gone' = Gone /\ NoTab \notin Gone'
  BY TabAssumption DEF OpenTabs, Gone
<1>2. Fought(NoTab)'
  BY <1>1 DEF Fought
<1>. QED  BY <1>1, <1>2 DEF RoleKept, OneCrash

\* An emission of a live main tab's id leaves it main; one of a dead tab's id
\* may remove it, to fight for the role.
LEMMA EmitRole ==
  ASSUME TypeOK, DeadOnly(Gone), NEW t \in Tab, NEW v \in Tab,
         NEW box, NEW evs, NEW sleeping \in Seq(Tab \cup {NoTab}),
         Emit(t, v, box, evs, sleeping)
  PROVE  /\ \/ mainTab' = v
            \/ mainTab' = NoTab /\ v \in Gone /\ Fights(t, NoTab)'
         /\ \A u \in Tab \ {t} : fights'[u] = fights[u]
         /\ \A i \in DOMAIN sleeping : FightsOn(t, sleeping[i])
<1> DEFINE deposes == [from |-> "event", id |-> v] \in waiting[t]
           refight == [from |-> "gc", id |-> v] \in waiting[t]
           more == Optional(deposes, NoTab) \o Optional(refight, v)
<1>1. /\ mainTab' = IF deposes THEN NoTab ELSE v
      /\ fights' = [fights EXCEPT ![t] =
           sleeping \o Optional(deposes, NoTab) \o Optional(refight, v)]
  BY DEF Emit
<1>2. deposes => v \in Gone
  BY DEF DeadOnly, DeadWaiter
<1> HIDE DEF deposes, refight
<1>3. /\ Optional(deposes, NoTab) \in Seq(Tab \cup {NoTab})
      /\ Optional(refight, v) \in Seq(Tab \cup {NoTab})
  BY OptionalType
<1>4. more \in Seq(Tab \cup {NoTab})
  BY <1>3
<1>a. sleeping \o Optional(deposes, NoTab) \o Optional(refight, v) = sleeping \o more
  BY <1>3
<1>5. deposes => 1 \in DOMAIN more /\ more[1] = NoTab
  BY <1>3 DEF Optional
<1> HIDE DEF more
<1>6. fights'[t] = sleeping \o more /\ \A u \in Tab \ {t} : fights'[u] = fights[u]
  BY <1>1, <1>a DEF TypeOK
<1>7. /\ \A i \in DOMAIN sleeping : \E j \in DOMAIN fights'[t] : fights'[t][j] = sleeping[i]
      /\ \A i \in DOMAIN more : \E j \in DOMAIN fights'[t] : fights'[t][j] = more[i]
  <2>1. /\ \A i \in DOMAIN sleeping : \E j \in DOMAIN (sleeping \o more) :
             (sleeping \o more)[j] = sleeping[i]
        /\ \A i \in DOMAIN more : \E j \in DOMAIN (sleeping \o more) :
             (sleeping \o more)[j] = more[i]
    BY <1>4, MoreFights
  <2>. QED  BY <1>6, <2>1, Zenon
<1>8. deposes => Fights(t, NoTab)'
  BY <1>5, <1>7 DEF Fights
<1>9. \A i \in DOMAIN sleeping : FightsOn(t, sleeping[i])
  BY <1>7 DEF FightsOn
<1>. QED  BY <1>1, <1>2, <1>6, <1>8, <1>9
LEMMA NextRoleKept ==
  ASSUME TypeOK, TypeOK', ClosedTabs, OnlyTheDead, RoleKept, Next
  PROVE  RoleKept'
<1> SUFFICES ASSUME OneCrash' PROVE RoleKept'
  BY DEF RoleKept
<1>1. PICK t \in Tab :
        \/ Open(t) \/ Show(t) \/ Hide(t) \/ Close(t) \/ Crash(t)
        \/ Beat(t) \/ Expire(t) \/ Throttle(t) \/ GC(t)
        \/ OnMainTabEvent(t) \/ OnBeatEvent(t) \/ FightEnds(t)
  BY DEF Next
<1>2. /\ faults \in [{"close", "crash", "throttle"} -> Nat]
      /\ faults'["close"] = 0 /\ faults'["throttle"] = 0 /\ faults'["crash"] <= 1
  BY DEF OneCrash, TypeOK
<1>3. ~Close(t) /\ ~Throttle(t)
  BY <1>2 DEF Close, Throttle, Fault
<1>4. /\ faults["close"] = 0 /\ faults["throttle"] = 0
      /\ faults' = faults \/ (Crash(t) /\ faults["crash"] = 0 /\ faults'["crash"] = 1)
  <2>1. CASE Crash(t)
    BY <1>2, <2>1 DEF Crash, Fault
  <2>2. CASE ~Crash(t)
    BY <1>1, <1>2, <1>3, <2>2 DEF Open, Show, Hide, Beat, Expire, GC, OnMainTabEvent,
         OnBeatEvent, FightEnds
  <2>. QED  BY <2>1, <2>2
<1>5. OneCrash
  BY <1>2, <1>4 DEF OneCrash
<1>6. DeadOnly(Gone)
  BY <1>4 DEF OnlyTheDead
<1>a. /\ phase \in [Tab -> {"unopened", "open", "gone"}]
      /\ heartBeat \in [Tab -> {"none", "fresh", "stale"}]
      /\ fights \in [Tab -> Seq(Tab \cup {NoTab})]
      /\ \A u \in Tab : fights[u] \in Seq(Tab \cup {NoTab})
      /\ mainTab \in Tab \cup {NoTab}
  BY DEF TypeOK
\* A step in which t takes the role.
<1>7. ASSUME NEW sleeping \in Seq(Tab \cup {NoTab}), SetAsMainTab(t, sleeping), t \notin Gone
      PROVE  mainTab' = t
  <2>1. \E evs : Emit(t, t, inbox, evs, sleeping)
    BY <1>7 DEF SetAsMainTab
  <2>. QED  BY <1>6, <1>7, <2>1, EmitRole
<1>8. CASE Open(t)
  <2>1. /\ phase[t] = "unopened" /\ phase' = [phase EXCEPT ![t] = "open"]
        /\ heartBeat' = [heartBeat EXCEPT ![t] = "fresh"] /\ faults' = faults
    BY <1>8 DEF Open
  <2>2. OpenTabs' = OpenTabs \cup {t} /\ Gone' = Gone /\ t \notin Gone /\ t \notin OpenTabs
    BY <1>a, <2>1 DEF OpenTabs, Gone
  <2>3. \A u \in OpenTabs' : heartBeat'[u] # "none"
    BY <1>5, <1>a, <2>1, <2>2 DEF RoleKept, OpenTabs
  <2>4. CASE SetAsMainTab(t, <<>>)
    <3>1. mainTab' = t
      <4>1. <<>> \in Seq(Tab \cup {NoTab})
        OBVIOUS
      <4>. QED  BY <1>7, <2>2, <2>4, <4>1
    <3>. QED  BY <2>1, <2>2, <2>3, <3>1, RoleTaken
  <2>5. CASE fights' = [fights EXCEPT ![t] = InitialFight] /\ mainTab' = mainTab
    <3>1. \A u \in OpenTabs : fights'[u] = fights[u]
      BY <1>a, <2>2, <2>5 DEF OpenTabs
    <3>2. \A u \in OpenTabs : \A v : Fights(u, v) => Fights(u, v)'
      BY <3>1 DEF Fights
    <3>3. \A v : Fought(v) => Fought(v)'
      BY <2>2, <3>2 DEF Fought
    <3>4. mainTab = NoTab => Fights(t, NoTab)'
      <4>1. fights'[t] = InitialFight
        BY <1>a, <2>5
      <4>. QED  BY <4>1 DEF Fights, InitialFight, Optional
    <3>5. mainTab = NoTab => Fought(NoTab)'
      BY <2>2, <3>4 DEF Fought
    <3>6. mainTab \in Gone /\ Fought(mainTab) => Fought(mainTab)'
      BY <2>2, <2>5, <3>2 DEF Fought
    <3>7. mainTab \in Gone => heartBeat'[mainTab] = heartBeat[mainTab]
      BY <1>a, <2>1, <2>2 DEF Gone
    <3>. QED
      BY <1>5, <2>1, <2>2, <2>3, <2>5, <3>2, <3>4, <3>5, <3>6, <3>7 DEF RoleKept
  <2>. QED  BY <1>8, <2>4, <2>5 DEF Open
<1>9. CASE Show(t)
  <2>1. /\ UNCHANGED <<heartBeat, phase, faults>> /\ t \in OpenTabs /\ t \notin Gone
    BY <1>9 DEF Show, OpenTabs, Gone
  <2>2. CASE SetAsMainTab(t, fights[t])
    <3>1. mainTab' = t
      BY <1>7, <1>a, <2>1, <2>2
    <3>. QED  BY <2>1, <3>1, RoleTaken DEF OpenTabs, Gone
  <2>3. CASE UNCHANGED <<mainTab, fights>>
    BY <2>1, <2>3, RoleStays DEF Fights
  <2>. QED  BY <1>9, <2>2, <2>3 DEF Show
<1>10. CASE Hide(t) \/ Beat(t) \/ Expire(t)
  <2>1. UNCHANGED <<mainTab, phase, fights, faults>>
    BY <1>10 DEF Hide, Beat, Expire, shared, local
  <2>2. \A u \in Tab : heartBeat[u] # "none" => heartBeat'[u] # "none"
    BY <1>10, <1>a DEF Hide, Beat, Expire, shared
  <2>. QED  BY <2>1, <2>2, RoleStays DEF Fights, OpenTabs, Gone
<1>11. CASE Crash(t)
  <2>1. /\ phase[t] = "open" /\ phase' = [phase EXCEPT ![t] = "gone"]
        /\ fights' = [fights EXCEPT ![t] = <<>>] /\ UNCHANGED <<mainTab, heartBeat>>
        /\ faults["crash"] = 0 /\ faults'["crash"] = 1
    BY <1>2, <1>11 DEF Crash, Forget, shared, Fault
  <2>2. OpenTabs' = OpenTabs \ {t} /\ Gone' = Gone \cup {t} /\ t \in OpenTabs
    BY <1>a, <2>1 DEF OpenTabs, Gone
  <2>3. /\ Gone = {} /\ \A u \in OpenTabs : heartBeat[u] # "none"
        /\ mainTab = NoTab => \A u \in OpenTabs : Fights(u, NoTab)
    BY <1>5, <2>1 DEF RoleKept
  <2>4. \A u \in OpenTabs' : Fights(u, NoTab) => Fights(u, NoTab)'
    BY <1>a, <2>1, <2>2 DEF Fights, OpenTabs
  <2>5. mainTab = NoTab /\ OpenTabs' # {} => Fought(NoTab)'
    BY <2>2, <2>3, <2>4 DEF Fought
  <2>6. mainTab \in Gone' => heartBeat'[mainTab] # "none"
    BY <2>1, <2>2, <2>3
  <2>. QED  BY <2>1, <2>2, <2>3, <2>5, <2>6 DEF RoleKept
<1>12. CASE GC(t)
  <2> DEFINE stale == {u \in Tab : heartBeat[u] = "stale"}
  <2>1. /\ UNCHANGED <<mainTab, phase, faults>> /\ t \in OpenTabs
        /\ heartBeat' = [u \in Tab |-> IF u \in stale THEN "none" ELSE heartBeat[u]]
        /\ fights' = [fights EXCEPT ![t] = fights[t] \o Optional(mainTab \in stale, mainTab)]
    BY <1>12 DEF GC, FightAfterGC, OpenTabs
  <2>2. \A u \in OpenTabs : heartBeat[u] # "none" => heartBeat'[u] # "none"
    BY <1>6, <2>1 DEF DeadOnly, OpenTabs, Gone
  <2> HIDE DEF stale
  <2>3. Optional(mainTab \in stale, mainTab) \in Seq(Tab \cup {NoTab})
    BY <1>a, OptionalType
  <2>4. fights'[t] = fights[t] \o Optional(mainTab \in stale, mainTab)
        /\ \A u \in Tab \ {t} : fights'[u] = fights[u]
    BY <1>a, <2>1
  <2>5. \A i \in DOMAIN fights[t] : FightsOn(t, fights[t][i])
    <3>1. \A i \in DOMAIN fights[t] : \E j \in DOMAIN fights'[t] : fights'[t][j] = fights[t][i]
      BY <1>a, <2>3, <2>4, MoreFights
    <3>. QED  BY <3>1 DEF FightsOn
  <2>6. \A u \in OpenTabs : \A v : Fights(u, v) => FightsOn(u, v)
    BY <2>4, <2>5 DEF Fights, FightsOn, OpenTabs
  <2>7. ASSUME mainTab \in stale PROVE Fought(mainTab)'
    <3>1. fights'[t] = Append(fights[t], mainTab)
      BY <1>a, <2>4, <2>7 DEF Optional
    <3>2. Fights(t, mainTab)'
      <4>1. Len(fights[t]) + 1 \in DOMAIN fights'[t] /\ fights'[t][Len(fights[t]) + 1] = mainTab
        BY <1>a, <3>1
      <4>. QED  BY <2>1, <4>1 DEF Fights
    <3>. QED  BY <2>1, <3>2 DEF Fought, OpenTabs
  <2>8. mainTab \in Gone /\ heartBeat[mainTab] # "none" =>
          heartBeat'[mainTab] # "none" \/ Fought(mainTab)'
    BY <2>1, <2>7 DEF Gone
  <2>9. \A u \in OpenTabs : Fights(u, mainTab) => Fights(u, mainTab)'
    <3> SUFFICES ASSUME NEW u \in OpenTabs, Fights(u, mainTab) PROVE Fights(u, mainTab)'
      OBVIOUS
    <3>1. mainTab' = mainTab
      BY <2>1
    <3>2. FightsOn(u, mainTab)
      BY <2>6
    <3>. QED  BY <3>1, <3>2 DEF Fights, FightsOn
  <2>. QED  BY <2>1, <2>2, <2>8, <2>9, RoleStays
<1>13. CASE OnMainTabEvent(t)
  <2>1. UNCHANGED <<heartBeat, phase, faults>> /\ t \in OpenTabs /\ t \in Tab
    BY <1>13 DEF OnMainTabEvent, OpenTabs
  <2>2. CASE mainTab = NoTab
    <3>1. UNCHANGED <<mainTab, fights>>
      BY <1>13, <2>2 DEF OnMainTabEvent
    <3>. QED  BY <2>1, <3>1, RoleStays DEF Fights
  <2>3. CASE mainTab # NoTab
    <3>1. mainTab \in Tab /\ \E box : Emit(t, mainTab, box, <<>>, fights[t])
      BY <1>13, <1>a, <2>3 DEF OnMainTabEvent
    <3>2. /\ \/ mainTab' = mainTab
             \/ mainTab' = NoTab /\ mainTab \in Gone /\ Fights(t, NoTab)'
          /\ \A u \in Tab \ {t} : fights'[u] = fights[u]
          /\ \A i \in DOMAIN fights[t] : FightsOn(t, fights[t][i])
      BY <1>6, <1>a, <3>1, EmitRole
    <3>3. CASE mainTab' = NoTab /\ mainTab \in Gone /\ Fights(t, NoTab)'
      BY <2>1, <3>3, RoleRemoved
    <3>4. CASE mainTab' = mainTab
      <4>1. \A u \in OpenTabs : Fights(u, mainTab) => Fights(u, mainTab)'
        BY <3>2, <3>4 DEF Fights, FightsOn, OpenTabs
      <4>. QED  BY <2>1, <3>4, <4>1, RoleStays
    <3>. QED  BY <3>2, <3>3, <3>4
  <2>. QED  BY <2>2, <2>3
<1>14. CASE OnBeatEvent(t)
  <2> DEFINE id == Head(inbox[t]).id
  <2>1. UNCHANGED <<heartBeat, phase, faults>> /\ t \in OpenTabs
    BY <1>14 DEF OnBeatEvent, OpenTabs
  <2>2. id \in Gone
    <3>1. Head(inbox[t]) \in DeadEvent(Gone) /\ Head(inbox[t]) # MainEvent
      BY <1>6, <1>14 DEF OnBeatEvent, DeadOnly
    <3>. QED  BY <3>1 DEF DeadEvent, BeatEvent
  <2>3. \/ mainTab' = NoTab /\ fights' = [fights EXCEPT ![t] = Append(@, NoTab)]
        \/ UNCHANGED <<mainTab, fights>>
    BY <1>14 DEF OnBeatEvent
  <2>4. CASE mainTab' = NoTab /\ fights' = [fights EXCEPT ![t] = Append(@, NoTab)]
    <3>1. Fights(t, NoTab)'
      BY <1>a, <2>4 DEF Fights
    <3>. QED  BY <2>1, <2>2, <2>4, <3>1, RoleRemoved
  <2>5. CASE UNCHANGED <<mainTab, fights>>
    BY <2>1, <2>5, RoleStays DEF Fights
  <2>. QED  BY <2>3, <2>4, <2>5
<1>15. CASE FightEnds(t)
  <2>1. /\ UNCHANGED <<heartBeat, phase, faults>> /\ t \in OpenTabs /\ t \notin Gone
        /\ fights[t] # <<>>
    BY <1>15 DEF FightEnds, OpenTabs, Gone
  <2>2. CASE Unchallenged(t)
    <3>1. SetAsMainTab(t, Tail(fights[t])) /\ Tail(fights[t]) \in Seq(Tab \cup {NoTab})
      BY <1>15, <1>a, <2>1, <2>2 DEF FightEnds
    <3>2. mainTab' = t
      BY <1>7, <2>1, <3>1
    <3>. QED  BY <2>1, <3>2, RoleTaken DEF OpenTabs, Gone
  <2>3. CASE ~Unchallenged(t)
    <3>1. mainTab' = mainTab /\ fights' = [fights EXCEPT ![t] = Tail(@)]
      BY <1>15, <2>3 DEF FightEnds
    <3>2. Head(fights[t]) # mainTab
      BY <2>3 DEF Unchallenged
    <3>3. Fights(t, mainTab) => Fights(t, mainTab)'
      <4> SUFFICES ASSUME NEW i \in DOMAIN fights[t], fights[t][i] = mainTab
                   PROVE  \E j \in DOMAIN fights'[t] : fights'[t][j] = mainTab
        BY <3>1 DEF Fights
      <4>1. i # 1 /\ fights'[t] = Tail(fights[t])
        BY <1>a, <3>1, <3>2
      <4>2. i - 1 \in DOMAIN Tail(fights[t]) /\ Tail(fights[t])[i - 1] = fights[t][i]
        BY <1>a, <2>1, <4>1
      <4>. QED  BY <4>1, <4>2
    <3>4. \A u \in OpenTabs : Fights(u, mainTab) => Fights(u, mainTab)'
      BY <1>a, <3>1, <3>3 DEF Fights, OpenTabs
    <3>. QED  BY <2>1, <3>1, <3>4, RoleStays
  <2>. QED  BY <2>2, <2>3
<1>. QED
  BY <1>1, <1>3, <1>8, <1>9, <1>10, <1>11, <1>12, <1>13, <1>14, <1>15

\* For any tabs: after one crash and no other fault, the role of a dead main tab,
\* and one nobody holds, is always about to be taken by an open tab.
THEOREM DeadMainIsFoughtFor == Spec => []RoleComes
<1> DEFINE Kept == OnlyTheDead /\ RoleKept
<1>1. Init => Kept
  BY DEF Init, OnlyTheDead, DeadOnly, DeadEvent, DeadWaiter, RoleKept, OpenTabs, Gone
<1>2. IInv /\ IInv' /\ Kept /\ [Next]_vars => Kept'
  <2>1. CASE Next  BY <2>1, NextOnlyTheDead, NextRoleKept DEF IInv
  <2>2. CASE UNCHANGED vars
    BY <2>2 DEF vars, OnlyTheDead, DeadOnly, Gone, RoleKept, OneCrash, OpenTabs, Fought, Fights
  <2>. QED  BY <2>1, <2>2
<1>3. IInv /\ Kept => RoleComes
  <2> SUFFICES ASSUME IInv, RoleKept, OneCrash, OpenTabs # {}, mainTab \notin OpenTabs
               PROVE  (mainTab \in Gone /\ heartBeat[mainTab] # "none") \/ Fought(mainTab)
    BY DEF RoleComes
  <2>1. mainTab \in Tab => mainTab \in Gone
    BY DEF IInv, TypeOK, ClosedTabs, OpenTabs, Gone
  <2>. QED  BY <2>1 DEF RoleKept, IInv, TypeOK
<1>. QED  BY <1>1, <1>2, <1>3, InductiveInvariant, PTL DEF Spec
=============================================================================
