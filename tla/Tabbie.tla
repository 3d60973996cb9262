------------------------------- MODULE Tabbie -------------------------------
(***************************************************************************)
(* Election of the main tab among the tabs of one browser profile          *)
(* (lib/Tabbie.js) and the copy of its result that every tab keeps in its  *)
(* store (modules/TabManager).  The tabs share two kinds of localStorage   *)
(* entries: the id of the main tab and one heart beat per tab.  A write    *)
(* that changes an entry raises a storage event in every OTHER tab; events *)
(* of one tab are handled in order, one per turn of its event loop, and a  *)
(* turn (with the promise jobs it leaves behind) is one action here.       *)
(*                                                                         *)
(* Time is abstract: a heart beat is "fresh", "stale" (older than          *)
(* heartBeatExpire) or "none" (no such entry).  The beat of a dead tab     *)
(* grows stale; that of a live one only when the browser throttles its     *)
(* timers.                                                                 *)
(***************************************************************************)
EXTENDS Naturals, FiniteSets, Sequences, SequencesExt

CONSTANTS
  Tab,          \* tab ids (uuid of each Tabbie instance; never reused)
  NoTab,        \* "no such entry" for the main tab id
  MaxPending,   \* bound: undelivered events per tab when the user acts
  MaxFaults     \* bound: tabs that close or die and beats of live tabs that grow stale

ASSUME TabAssumption == IsFiniteSet(Tab) /\ NoTab \notin Tab
ASSUME BoundsAssumption ==
  MaxPending \in Nat /\ MaxFaults \in Nat

VARIABLES
  mainTab,      \* localStorage[_mainTabKey]
  heartBeat,    \* localStorage[_heartBeatKey] of each tab
  phase,        \* "unopened", "open" or "gone"
  hidden,       \* document.hidden
  inbox,        \* storage events the tab has not handled yet
  fights,       \* originalMainTabId of each sleeping _fightForMainTab
  waiting,      \* beats whose handler awaits getMainTabId while there is no main tab
  ready,        \* TabManager status is ready
  active,       \* TabManager state.active
  faults        \* how many closes, crashes and throttles happened

shared == <<mainTab, heartBeat>>
local  == <<hidden, inbox, fights, waiting, ready, active>>
vars   == <<mainTab, heartBeat, phase, hidden, inbox, fights, waiting, ready, active, faults>>

OpenTabs == {t \in Tab : phase[t] = "open"}

MainEvent     == [key |-> "mainTab", id |-> NoTab]
BeatEvent_KeyKept(t) == [key |-> "heartBeat", id |-> NoTab]
BeatEvent(t)  == [key |-> "heartBeat", id |-> t]
Event         == {MainEvent} \cup {BeatEvent(t) : t \in Tab}

\* A beat handler suspended in getMainTabId: `from' tells a storage handler
\* ("event") from a _gc callback ("gc"), which react differently.
Waiter == [from : {"event", "gc"}, id : Tab]

TypeOK ==
  /\ mainTab \in Tab \cup {NoTab}
  /\ heartBeat \in [Tab -> {"none", "fresh", "stale"}]
  /\ phase \in [Tab -> {"unopened", "open", "gone"}]
  /\ hidden \in [Tab -> BOOLEAN]
  /\ inbox \in [Tab -> Seq(Event)]
  /\ fights \in [Tab -> Seq(Tab \cup {NoTab})]
  /\ waiting \in [Tab -> SUBSET Waiter]
  /\ ready \in [Tab -> BOOLEAN]
  /\ active \in [Tab -> BOOLEAN]
  /\ faults \in [{"close", "crash", "throttle"} -> Nat]

Init ==
  /\ mainTab = NoTab
  /\ heartBeat = [t \in Tab |-> "none"]
  /\ phase = [t \in Tab |-> "unopened"]
  /\ hidden = [t \in Tab |-> TRUE]
  /\ inbox = [t \in Tab |-> <<>>]
  /\ fights = [t \in Tab |-> <<>>]
  /\ waiting = [t \in Tab |-> {}]
  /\ ready = [t \in Tab |-> FALSE]
  /\ active = [t \in Tab |-> FALSE]
  /\ faults = [f \in {"close", "crash", "throttle"} |-> 0]

-----------------------------------------------------------------------------
Optional(cond, x) == IF cond THEN <<x>> ELSE <<>>

Fault(f) ==
  /\ faults["close"] + faults["crash"] + faults["throttle"] < MaxFaults
  /\ faults' = [faults EXCEPT ![f] = @ + 1]

\* checkIsMain of tab t while v is the main tab.
CheckIsMain_NeverDemoted(t, v) == v = t \/ active[t]
CheckIsMain(t, v) == v = t

\* The inboxes after tab t raised the events evs in every other open tab.
Posted(box, t, evs) ==
  [u \in Tab |-> IF u # t /\ phase[u] = "open" THEN box[u] \o evs ELSE box[u]]

\* Tab t emits 'mainTabIdChanged' with v, the main tab at this turn, evs being
\* the storage events the turn raised so far and sleeping the fights t is left
\* with.  TabManager's listener records whether t is it; every promise of
\* getMainTabId resolves with v, so a suspended storage handler of v's beat
\* removes the main tab id again and fights, and a suspended _gc fights.
Emit(t, v, box, evs, sleeping) ==
  LET deposes == [from |-> "event", id |-> v] \in waiting[t]
      refight == [from |-> "gc", id |-> v] \in waiting[t]
  IN  /\ active' = [active EXCEPT ![t] = CheckIsMain(t, v)]
      /\ ready' = [ready EXCEPT ![t] = TRUE]
      /\ waiting' = [waiting EXCEPT ![t] = {}]
      /\ mainTab' = IF deposes THEN NoTab ELSE v
      /\ inbox' = Posted(box, t, evs \o Optional(deposes, MainEvent))
      /\ fights' = [fights EXCEPT ![t] =
           sleeping \o Optional(deposes, NoTab) \o Optional(refight, v)]

\* _setAsMainTab.  Writing the value that is there already raises no event.
SetAsMainTab(t, sleeping) ==
  Emit(t, t, inbox, Optional(mainTab # t, MainEvent), sleeping)

-----------------------------------------------------------------------------
\* The fight a tab that loads in the background starts with.
InitialFight_Never == <<>>
InitialFight == Optional(mainTab = NoTab, NoTab)

\* A page loads: Tabbie's constructor starts the timers and beats once, then
\* claims the main role if visible, or fights for it if nobody has it;
\* TabManager.initialize turns ready once there is a main tab.
Open(t) ==
  /\ phase[t] = "unopened"
  /\ phase' = [phase EXCEPT ![t] = "open"]
  /\ heartBeat' = [heartBeat EXCEPT ![t] = "fresh"]
  /\ UNCHANGED faults
  /\ \/ /\ hidden' = [hidden EXCEPT ![t] = FALSE]
        /\ SetAsMainTab(t, <<>>)
     \/ /\ fights' = [fights EXCEPT ![t] = InitialFight]
        /\ ready' = [ready EXCEPT ![t] = (mainTab # NoTab)]
        /\ UNCHANGED <<mainTab, hidden, inbox, waiting, active>>

\* visibilitychange: a tab that becomes visible takes the main role.
Show(t) ==
  /\ phase[t] = "open" /\ hidden[t]
  /\ \A u \in Tab : Len(inbox[u]) < MaxPending
  /\ hidden' = [hidden EXCEPT ![t] = FALSE]
  /\ UNCHANGED <<heartBeat, phase, faults>>
  /\ IF mainTab # t
     THEN SetAsMainTab(t, fights[t])
     ELSE UNCHANGED <<mainTab, inbox, fights, waiting, ready, active>>

Hide(t) ==
  /\ phase[t] = "open" /\ ~hidden[t]
  /\ hidden' = [hidden EXCEPT ![t] = TRUE]
  /\ UNCHANGED <<shared, phase, inbox, fights, waiting, ready, active, faults>>

\* _heartBeat, every heartBeatInterval.
Beat(t) ==
  /\ phase[t] = "open" /\ heartBeat[t] # "fresh"
  /\ heartBeat' = [heartBeat EXCEPT ![t] = "fresh"]
  /\ UNCHANGED <<mainTab, phase, local, faults>>

\* heartBeatExpire passes without a beat of a tab that is dead ...
Expire(t) ==
  /\ phase[t] = "gone" /\ heartBeat[t] = "fresh"
  /\ heartBeat' = [heartBeat EXCEPT ![t] = "stale"]
  /\ UNCHANGED <<mainTab, phase, local, faults>>

\* ... or of a live one whose timers the browser throttles.
Throttle(t) ==
  /\ phase[t] = "open" /\ heartBeat[t] = "fresh"
  /\ Fault("throttle")
  /\ heartBeat' = [heartBeat EXCEPT ![t] = "stale"]
  /\ UNCHANGED <<mainTab, phase, local>>

\* The fight a tab that collected the beats of the tabs stale starts: it does
\* not receive the storage event of its own removal.
FightAfterGC_LeftToOthers(t, stale) == fights[t]
FightAfterGC(t, stale) == fights[t] \o Optional(mainTab \in stale, mainTab)

\* _gc, every gcInterval: remove every stale beat, in the order localStorage
\* lists them.  If the main tab's is among them, fight for the role; with no
\* main tab the callbacks stay suspended in getMainTabId.
GC(t) ==
  LET stale == {u \in Tab : heartBeat[u] = "stale"} IN
  /\ phase[t] = "open" /\ stale # {}
  /\ heartBeat' = [u \in Tab |-> IF u \in stale THEN "none" ELSE heartBeat[u]]
  /\ \E order \in SetToSeqs(stale) :
       inbox' = Posted(inbox, t, [i \in DOMAIN order |-> BeatEvent(order[i])])
  /\ fights' = [fights EXCEPT ![t] = FightAfterGC(t, stale)]
  /\ waiting' = [waiting EXCEPT ![t] =
       IF mainTab = NoTab THEN @ \cup {[from |-> "gc", id |-> u] : u \in stale} ELSE @]
  /\ UNCHANGED <<mainTab, phase, hidden, ready, active, faults>>

\* The storage handler on a change of the main tab id: emit the id that is in
\* localStorage now, or wait for one.
OnMainTabEvent(t) ==
  /\ phase[t] = "open" /\ inbox[t] # <<>> /\ Head(inbox[t]) = MainEvent
  /\ LET box == [inbox EXCEPT ![t] = Tail(@)] IN
     IF mainTab # NoTab
     THEN Emit(t, mainTab, box, <<>>, fights[t])
     ELSE inbox' = box /\ UNCHANGED <<mainTab, fights, waiting, ready, active>>
  /\ UNCHANGED <<heartBeat, phase, hidden, faults>>

\* The storage handler on the removal of a beat: if it is the main tab's,
\* remove the main tab id and fight for the role.
OnBeatEvent(t) ==
  /\ phase[t] = "open" /\ inbox[t] # <<>> /\ Head(inbox[t]) # MainEvent
  /\ LET id  == Head(inbox[t]).id
         box == [inbox EXCEPT ![t] = Tail(@)]
     IN  \/ /\ mainTab = id
            /\ mainTab' = NoTab
            /\ inbox' = Posted(box, t, <<MainEvent>>)
            /\ fights' = [fights EXCEPT ![t] = Append(@, NoTab)]
            /\ UNCHANGED waiting
         \/ /\ mainTab = NoTab
            /\ waiting' = [waiting EXCEPT ![t] = @ \cup {[from |-> "event", id |-> id]}]
            /\ inbox' = box
            /\ UNCHANGED <<mainTab, fights>>
         \/ /\ mainTab \notin {id, NoTab}
            /\ inbox' = box
            /\ UNCHANGED <<mainTab, fights, waiting>>
  /\ UNCHANGED <<heartBeat, phase, hidden, ready, active, faults>>

\* Nobody took or lost the main role during the sleep of t's oldest fight.
Unchallenged_Assumed(t) == TRUE
Unchallenged(t) == mainTab = Head(fights[t])

\* The sleep of _fightForMainTab ends: take the role unless the entry changed
\* meanwhile.
FightEnds(t) ==
  /\ phase[t] = "open" /\ fights[t] # <<>>
  /\ IF Unchallenged(t)
     THEN SetAsMainTab(t, Tail(fights[t]))
     ELSE /\ fights' = [fights EXCEPT ![t] = Tail(@)]
          /\ UNCHANGED <<mainTab, inbox, waiting, ready, active>>
  /\ UNCHANGED <<heartBeat, phase, hidden, faults>>

\* What is left of a tab that is no longer there.
Forget(t, box) ==
  /\ phase' = [phase EXCEPT ![t] = "gone"]
  /\ inbox' = [box EXCEPT ![t] = <<>>]
  /\ fights' = [fights EXCEPT ![t] = <<>>]
  /\ waiting' = [waiting EXCEPT ![t] = {}]
  /\ ready' = [ready EXCEPT ![t] = FALSE]
  /\ active' = [active EXCEPT ![t] = FALSE]
  /\ hidden' = [hidden EXCEPT ![t] = TRUE]

\* unload: give the role up, then remove the beat.
Close(t) ==
  /\ phase[t] = "open"
  /\ Fault("close")
  /\ mainTab' = IF mainTab = t THEN NoTab ELSE mainTab
  /\ heartBeat' = [heartBeat EXCEPT ![t] = "none"]
  /\ Forget(t, Posted(inbox, t,
       Optional(mainTab = t, MainEvent) \o
       Optional(heartBeat[t] # "none", BeatEvent(t))))

\* The process dies: no unload handler runs.
Crash(t) ==
  /\ phase[t] = "open"
  /\ Fault("crash")
  /\ Forget(t, inbox)
  /\ UNCHANGED shared

Next ==
  \E t \in Tab :
    \/ Open(t) \/ Show(t) \/ Hide(t) \/ Close(t) \/ Crash(t)
    \/ Beat(t) \/ Expire(t) \/ Throttle(t) \/ GC(t)
    \/ OnMainTabEvent(t) \/ OnBeatEvent(t) \/ FightEnds(t)

\* Events are delivered, timers fire and dead beats age; users need do nothing.
Fairness ==
  \A t \in Tab :
    /\ WF_vars(OnMainTabEvent(t) \/ OnBeatEvent(t))
    /\ WF_vars(FightEnds(t))
    /\ WF_vars(GC(t))
    /\ WF_vars(Beat(t))
    /\ WF_vars(Expire(t))

Spec     == Init /\ [][Next]_vars
FairSpec == Spec /\ Fairness

-----------------------------------------------------------------------------
(***************************************************************************)
(* Properties                                                              *)
(***************************************************************************)

\* TabManager's `active' is never wrong for long: a ready tab that has no event
\* of the main tab id left to handle believes it is main exactly when
\* localStorage says so, in every interleaving of claims, fights and deposals
\* (getActiveReducer, checkIsMain).
ActiveAgrees ==
  \A t \in Tab :
    /\ ready[t] /\ mainTab # NoTab
    /\ \A i \in DOMAIN inbox[t] : inbox[t][i] # MainEvent
    => (active[t] <=> mainTab = t)

\* While no live heart beat is collected, a live main tab loses the role only by
\* closing or to a tab the user looks at: the fight after a death never
\* deposes a tab that claimed the role during the delay (_fightForMainTab).
OnlyVisibleDeposes ==
  [][\A t \in OpenTabs :
       /\ mainTab = t /\ mainTab' # t /\ faults'["throttle"] = 0
       => \/ phase'[t] = "gone"
          \/ \E u \in Tab \ {t} : mainTab' = u /\ ~hidden'[u]]_vars

\* One tab died and nothing else went wrong.
OneCrash == faults["close"] = 0 /\ faults["throttle"] = 0 /\ faults["crash"] <= 1

\* A main tab that dies is replaced by a live one: its beat expires, some tab
\* collects it and a fight follows (_gc, storage handler, _fightForMainTab).
DeadMainReplaced ==
  (OpenTabs # {} /\ mainTab \notin OpenTabs)
    ~> (OpenTabs = {} \/ mainTab \in OpenTabs \/ ~OneCrash)

\* The same of a main tab that closes: "main tab closed itself, fight to be the
\* main tab" (Tabbie.js:61).
ClosedMainReplaced ==
  (faults["close"] > 0 /\ OpenTabs # {} /\ mainTab = NoTab)
    ~> (OpenTabs = {} \/ mainTab \in OpenTabs)

\* Every open tab's TabManager becomes ready and eventually knows whether it
\* is main, once the user stops switching tabs (TabManager.initialize).
AllTabsLearn ==
  \A t \in Tab : (phase[t] = "open") ~> (phase[t] = "gone" \/ ready[t] \/ ~OneCrash)
=============================================================================
