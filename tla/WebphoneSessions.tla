---------------------------- MODULE WebphoneSessions ----------------------------
(***************************************************************************)
(* The calls of modules/Webphone: what it does with the sessions of its    *)
(* user agent, and what it keeps of them in its state for the screen.  The *)
(* session is an object of the SIP library (external): it has its own      *)
(* state and says by events, and by what its promises come to, that it     *)
(* changed.  The methods act on it at once and look at it again later.     *)
(*                                                                         *)
(* Recording, flip, park and DTMF, which only set fields of a session, are *)
(* left out, and a user agent is there (see WebphoneConnection).           *)
(***************************************************************************)
EXTENDS Naturals, FiniteSets

CONSTANTS
  Session, None,
  MaxEnded,  \* what lastEndedSessions has room for: 5
  MaxEvents  \* bound: failures, and what is less usual

VARIABLES
  phone,            \* external: where a session is in its life
  held,             \* external: isOnHold().local
  pending,          \* external: promises of accept, hold and unhold under way
  callStatus,       \* session.callStatus; what is inbound and "connecting" rings
  inbound,          \* session.direction
  kept,             \* _sessions, by id; state.sessions is the same
  activeSessionId,
  ringSessionId,
  lastEnded,        \* the place of a session in lastEndedSessions, the last to end first, or 0
  forwarded,        \* isForwarded, isToVoicemail
  replied,          \* isReplied
  stopping,         \* userAgent.stop() is under way, in one turn
  lost,             \* history: no longer kept, and the call was not over
  unheld,           \* history: calls nobody held, and those they talk over
  events

session == <<phone, held, pending>>
vars == <<session, callStatus, inbound, kept, activeSessionId, ringSessionId, lastEnded,
          forwarded, replied, stopping, lost, unheld, events>>

\* A call is "over" if it was never established.
TypeOK ==
  /\ phone \in [Session -> {"unborn", "early", "established", "ended", "over"}]
  /\ held \subseteq Session
  /\ pending \in [Session -> SUBSET {"accept", "hold", "unhold"}]
  /\ callStatus \in [Session -> {"none", "connecting", "connected", "onHold", "onMute",
                                 "finished", "replaced"}]
  /\ inbound \subseteq Session /\ kept \subseteq Session
  /\ activeSessionId \in Session \cup {None} /\ ringSessionId \in Session \cup {None}
  /\ lastEnded \in [Session -> 0..MaxEnded]
  /\ forwarded \subseteq Session /\ replied \subseteq Session /\ stopping \in BOOLEAN
  /\ lost \subseteq Session /\ unheld \subseteq Session
  /\ events \in 0..MaxEvents

Init ==
  /\ phone = [s \in Session |-> "unborn"]
  /\ held = {}
  /\ pending = [s \in Session |-> {}]
  /\ callStatus = [s \in Session |-> "none"]
  /\ inbound = {} /\ kept = {}
  /\ activeSessionId = None /\ ringSessionId = None
  /\ lastEnded = [s \in Session |-> 0]
  /\ forwarded = {} /\ replied = {} /\ stopping = FALSE /\ lost = {} /\ unheld = {}
  /\ events = 0

Counted == events < MaxEvents /\ events' = events + 1

Alive == {s \in Session : phone[s] \in {"early", "established"}}

\* Calls one hears and is heard in.
Talking == {s \in kept : phone[s] = "established" /\ s \notin held /\ "hold" \notin pending[s]}

-----------------------------------------------------------------------------
(* The state: what the reducers make of callStart, callRing and callEnd, which come     *)
(* with the sessions that are kept then.                                                 *)

OneOf(S) == IF S = {} THEN {None} ELSE S

Rings(s) == s \in inbound /\ callStatus'[s] = "connecting"

RingAfter_None(s) == IF ringSessionId # s THEN {ringSessionId} ELSE {None}
\* getRingSessionIdReducer on callStart and callEnd.
RingAfter(s) ==
  IF ringSessionId # s THEN {ringSessionId} ELSE OneOf({t \in kept' : Rings(t)})

\* _onCallStart.
CallStart(s) ==
  /\ kept' = kept \cup {s}
  /\ activeSessionId' = s
  /\ ringSessionId' \in RingAfter(s)
  /\ UNCHANGED lastEnded

\* getLastEndedSessionsReducer: a call that somebody else may have answered is not ours.
\* It looks at what normalizeSession makes of the session, which gives isReplied the value
\* of isForwarded: a reply does not count.
IsReplied(s) == s \in forwarded
OurOwn(s) == phone[s] = "established" \/ s \in forwarded \/ IsReplied(s)

\* A call comes to the front of the list; those before it, or all if it was not there, move
\* back by one, and what then is behind MaxEnded falls out.
MovesBack(s, t) == lastEnded[s] = 0 \/ lastEnded[t] < lastEnded[s]
Fits(place) == IF place > MaxEnded THEN 0 ELSE place
EndedAfter(s) ==
  [t \in Session |-> IF t = s THEN 1
                     ELSE IF lastEnded[t] # 0 /\ MovesBack(s, t) THEN Fits(lastEnded[t] + 1)
                     ELSE lastEnded[t]]

\* _onCallEnd.
CallEnd(s) ==
  /\ kept' = kept \ {s}
  /\ activeSessionId' \in IF activeSessionId # s THEN {activeSessionId}
                          ELSE OneOf({t \in kept' : callStatus'[t] = "onHold"})
  /\ ringSessionId' \in RingAfter(s)
  /\ lastEnded' = IF OurOwn(s) THEN EndedAfter(s) ELSE lastEnded

-----------------------------------------------------------------------------
(* Holding. *)

Others_None(s) == {}
\* _holdOtherSession: those it calls hold of.  A call that is not established refuses.
Others(s) == (kept \ {s}) \ held

HoldOthers(s, promise) ==
  /\ pending' = [t \in Session |->
       pending[t] \cup (IF t = s THEN {promise} \cap {"accept", "unhold"}
                        ELSE IF t \in Others(s) /\ phone[t] = "established" THEN {"hold"}
                        ELSE {})]
  /\ unheld' = unheld \cup {t \in Others(s) : phone[t] # "established"}
                      \cup {t \in kept \ {s} : "unhold" \in pending[t]}

\* A call a hold was refused to starts to talk, and so it is with those that talk.
TalksOver(s) == IF s \in unheld THEN Talking ELSE {}

-----------------------------------------------------------------------------
(* Calls begin. *)

\* _onInvite, _onCallRing.
Invite(s) ==
  /\ phone[s] = "unborn"
  /\ phone' = [phone EXCEPT ![s] = "early"]
  /\ inbound' = inbound \cup {s}
  /\ callStatus' = [callStatus EXCEPT ![s] = "connecting"]
  /\ kept' = kept \cup {s}
  /\ ringSessionId' = s
  /\ UNCHANGED <<held, pending, activeSessionId, lastEnded, forwarded, replied, stopping, lost, unheld, events>>

\* makeCall, after _fetchDL.
MakeCall(s) ==
  /\ phone[s] = "unborn"
  /\ phone' = [phone EXCEPT ![s] = "early"]
  /\ callStatus' = [callStatus EXCEPT ![s] = "connecting"]
  /\ HoldOthers(s, "none")
  /\ CallStart(s)
  /\ UNCHANGED <<held, inbound, forwarded, replied, stopping, lost, events>>

\* answer of a call that rings, up to the await of accept.
Answer(s) ==
  /\ s \in kept \cap inbound /\ phone[s] = "early" /\ "accept" \notin pending[s]
  /\ HoldOthers(s, "accept")
  /\ UNCHANGED <<phone, held, callStatus, inbound, kept, activeSessionId, ringSessionId,
                 lastEnded, forwarded, replied, stopping, lost, events>>

\* "accepted", of what was answered here or is an outbound call; accept has come to its end.
Accepted(s) ==
  /\ phone[s] = "early" /\ (s \in inbound => "accept" \in pending[s])
  /\ phone' = [phone EXCEPT ![s] = "established"]
  /\ pending' = [pending EXCEPT ![s] = @ \ {"accept"}]
  /\ callStatus' = [callStatus EXCEPT ![s] = "connected"]
  /\ CallStart(s)
  /\ lost' = lost \ {s}
  /\ unheld' = unheld \cup TalksOver(s)
  /\ UNCHANGED <<held, inbound, forwarded, replied, stopping, events>>

\* "replaced": another session takes its place, which is kept but not started.
Replaced(s, new) ==
  /\ Counted /\ phone[s] = "established" /\ phone[new] = "unborn"
  /\ phone' = [phone EXCEPT ![new] = "established"]
  /\ callStatus' = [callStatus EXCEPT ![s] = "replaced", ![new] = "connected"]
  /\ inbound' = inbound \cup {new}
  /\ kept' = kept \cup {new}
  /\ unheld' = unheld \cup {new}
  /\ UNCHANGED <<held, pending, activeSessionId, ringSessionId, lastEnded, forwarded, replied, stopping, lost>>

-----------------------------------------------------------------------------
(* Calls go on. *)

\* hold, and unhold and resume, up to their await.
Hold(s) ==
  /\ s \in kept \ held /\ phone[s] = "established"
  /\ pending' = [pending EXCEPT ![s] = @ \cup {"hold"}]
  /\ UNCHANGED <<phone, held, callStatus, inbound, kept, activeSessionId, ringSessionId,
                 lastEnded, forwarded, replied, stopping, lost, unheld, events>>

Unhold(s) ==
  /\ s \in kept \cap held
  /\ HoldOthers(s, "unhold")
  /\ UNCHANGED <<phone, held, callStatus, inbound, kept, activeSessionId, ringSessionId,
                 lastEnded, forwarded, replied, stopping, lost, events>>

\* "hold", also for what is no longer kept; or it fails and the call stays as it is.
HoldDone(s) ==
  /\ "hold" \in pending[s]
  /\ pending' = [pending EXCEPT ![s] = @ \ {"hold"}]
  /\ \/ /\ held' = held \cup {s}
        /\ callStatus' = [callStatus EXCEPT ![s] = "onHold"]
        /\ unheld' = unheld \ {s}
        /\ UNCHANGED events
     \/ /\ Counted
        /\ unheld' = unheld \cup {s} \cup Talking
        /\ UNCHANGED <<held, callStatus>>
  /\ UNCHANGED <<phone, inbound, kept, activeSessionId, ringSessionId, lastEnded, forwarded, replied, stopping, lost>>

\* "unhold" and then _onCallStart.
Unheld(s) ==
  /\ "unhold" \in pending[s]
  /\ pending' = [pending EXCEPT ![s] = @ \ {"unhold"}]
  /\ held' = held \ {s}
  /\ callStatus' = [callStatus EXCEPT ![s] = "connected"]
  /\ CallStart(s)
  /\ lost' = lost \ {s}
  /\ unheld' = unheld \cup TalksOver(s)
  /\ UNCHANGED <<phone, inbound, forwarded, replied, stopping, events>>

UnholdFails(s) ==
  /\ Counted /\ "unhold" \in pending[s]
  /\ pending' = [pending EXCEPT ![s] = @ \ {"unhold"}]
  /\ UNCHANGED <<phone, held, callStatus, inbound, kept, activeSessionId, ringSessionId,
                 lastEnded, forwarded, replied, stopping, lost, unheld>>

\* mute and unmute with their events, which write the status whether it is on hold or not.
Mute(s) ==
  /\ Counted /\ s \in kept /\ phone[s] = "established"
  /\ \E status \in {"onMute", "connected"} : callStatus' = [callStatus EXCEPT ![s] = status]
  /\ UNCHANGED <<session, inbound, kept, activeSessionId, ringSessionId, lastEnded, forwarded, replied, stopping, lost,
                 unheld>>

-----------------------------------------------------------------------------
(* Calls end. *)

Finish(S) == [t \in Session |-> IF t \in S THEN "finished" ELSE callStatus[t]]

Die(S) ==
  /\ phone' = [t \in Session |-> IF t \notin S \cap Alive THEN phone[t]
                                 ELSE IF phone[t] = "established" THEN "ended" ELSE "over"]
  /\ pending' = [t \in Session |-> IF t \in S THEN {} ELSE pending[t]]
  /\ callStatus' = Finish(S)

\* "rejected", "failed", "terminated", "cancel": what reject, hangup, toVoiceMail and
\* replyWithMessage come to, what the other side or the network does, and what a user
\* agent that stops does to its calls, one after the other.
Over(s) ==
  /\ s \in Alive
  /\ Die({s})
  /\ CallEnd(s)
  /\ lost' = lost \ {s}
  /\ stopping' = (stopping /\ Alive # {s})
  /\ UNCHANGED <<held, inbound, forwarded, replied, unheld, events>>

\* forward and toVoiceMail, up to their await.
Forward(s) ==
  /\ Counted /\ s \in kept \cap inbound /\ phone[s] = "early"
  /\ forwarded' = forwarded \cup {s}
  /\ UNCHANGED <<session, callStatus, inbound, kept, activeSessionId, ringSessionId, lastEnded, replied,
                 stopping, lost, unheld>>

\* replyWithMessage, up to its await.
Reply(s) ==
  /\ Counted /\ s \in kept \cap inbound /\ phone[s] = "early"
  /\ replied' = replied \cup {s}
  /\ UNCHANGED <<session, callStatus, inbound, kept, activeSessionId, ringSessionId, lastEnded, forwarded,
                 stopping, lost, unheld>>

\* hangup, toVoiceMail or replyWithMessage has failed, or transfer or forward is done: the
\* call ends here, before it is over or though it is not.
EndHere(s) ==
  /\ Counted /\ s \in kept \cap Alive
  /\ UNCHANGED callStatus
  /\ CallEnd(s)
  /\ lost' = lost \cup {s} /\ unheld' = unheld \cup {s}
  /\ UNCHANGED <<session, inbound, forwarded, replied, stopping>>

\* accept or reject has failed: _removeSession, which tells no reducer of the ids.
RemoveSession(s) ==
  /\ Counted /\ s \in kept \cap inbound /\ phone[s] = "early"
  /\ pending' = [pending EXCEPT ![s] = @ \ {"accept"}]
  /\ kept' = kept \ {s}
  /\ lost' = lost \cup {s} /\ unheld' = unheld \cup {s}
  /\ UNCHANGED <<phone, held, callStatus, inbound, activeSessionId, ringSessionId, lastEnded,
                 forwarded, replied, stopping>>

\* _disconnect, up to its userAgent.stop(); hangup, called with a session for an id, does
\* nothing there.  The sessions that are over by then are no longer kept.
Disconnect ==
  /\ Alive # {}
  /\ activeSessionId' = None /\ ringSessionId' = None
  /\ stopping' = TRUE
  /\ UNCHANGED <<session, callStatus, inbound, kept, lastEnded, forwarded, replied, lost, unheld,
                 events>>

Turn ==
  \/ \E s \in Session :
       \/ Invite(s) \/ MakeCall(s) \/ Answer(s) \/ Accepted(s)
       \/ \E new \in Session : Replaced(s, new)
       \/ Hold(s) \/ Unhold(s) \/ HoldDone(s) \/ Unheld(s) \/ UnholdFails(s) \/ Mute(s)
       \/ Forward(s) \/ Reply(s) \/ EndHere(s) \/ RemoveSession(s)
  \/ Disconnect

Next ==
  \/ ~stopping /\ Turn
  \/ \E s \in Session : Over(s)

Spec == Init /\ [][Next]_vars

-----------------------------------------------------------------------------
(* While a call rings, the ring session is one that rings; of several calls one talks,  *)
(* which is the active session, unless a hold was refused or failed; every call that     *)
(* somebody here talked in is in lastEndedSessions when it is over, or that is full, and  *)
(* one that nobody here talked in or sent away is not.  Lost are calls that were given up *)
(* before they were over, and may still be told to the ids; and a user agent that stops   *)
(* ends its calls when nothing is shown any more.                                         *)
Full == \A place \in 1..MaxEnded : \E s \in Session : lastEnded[s] = place

CallsShown ==
  /\ ~stopping =>
       /\ \A s \in kept : callStatus[s] = "connecting" /\ s \in inbound =>
            \/ ringSessionId \in lost
            \/ /\ ringSessionId \in kept \cap inbound
               /\ callStatus[ringSessionId] = "connecting"
       /\ \A s \in Talking \ unheld : activeSessionId = s
  /\ \A s, t \in Talking \ unheld : s = t
  /\ \A s \in Session :
       /\ phone[s] = "ended" => lastEnded[s] # 0 \/ Full
       /\ phone[s] = "over" /\ s \notin forwarded => lastEnded[s] = 0

(* A call that was answered with a message is in lastEndedSessions when it is over.       *)
RepliedShown ==
  \A s \in Session : s \in replied /\ phone[s] = "over" => lastEnded[s] # 0 \/ Full
=============================================================================
