-------------------------------- MODULE GlipPersons --------------------------------
(***************************************************************************)
(* The persons Glip shows (modules/GlipPersons).  loadPersons asks for     *)
(* those nobody has asked for, a batch at a time: the rest sleeps and is   *)
(* looked at again.  Calls overlap, and go on after a logout.              *)
(***************************************************************************)
EXTENDS Naturals, FiniteSets

CONSTANTS
  Owner, NoOne,  \* owners are persons, too
  Person,        \* the others
  BatchSize,     \* MaximumBatchGetPersons
  MaxLogins,     \* bound
  MaxCalls       \* bound: calls of loadPersons

VARIABLES
  owner,       \* auth.ownerId; storage is ready with it
  fresh,       \* auth.isFreshLogin
  logins, asked,
  status,
  personsMap,  \* the persons that are known; Storage keeps them for a user
  kept,
  fetchingIds,
  loadMe,      \* the owners loadMe is under way for
  calls,       \* calls of loadPersons under way, one of each kind
  wanted,      \* history: what was asked for in this login
  failed,      \* history: and could not be had
  crossed      \* history: a login found the module still busy with another

vars == <<owner, fresh, logins, asked, status, personsMap, kept, fetchingIds, loadMe, calls,
          wanted, failed, crossed>>

Everyone == Owner \cup Person
Call == [of : Owner, ids : SUBSET Everyone, rest : SUBSET Everyone]

\* A call with no ids sleeps.
TypeOK ==
  /\ owner \in Owner \cup {NoOne} /\ fresh \in BOOLEAN
  /\ logins \in 0..MaxLogins /\ asked \in 0..MaxCalls
  /\ status \in {"pending", "initializing", "ready"}
  /\ personsMap \subseteq Everyone /\ kept \in [Owner -> SUBSET Everyone]
  /\ fetchingIds \subseteq Everyone
  /\ loadMe \subseteq Owner
  /\ calls \subseteq Call
  /\ wanted \subseteq Everyone /\ failed \subseteq Everyone /\ crossed \in BOOLEAN

Init ==
  /\ owner = NoOne /\ fresh = FALSE /\ logins = 0 /\ asked = 0
  /\ status = "pending"
  /\ personsMap = {} /\ kept = [o \in Owner |-> {}] /\ fetchingIds = {}
  /\ loadMe = {} /\ calls = {}
  /\ wanted = {} /\ failed = {} /\ crossed = FALSE

ShouldInit  == owner # NoOne /\ status = "pending"
ShouldReset == owner = NoOne /\ status = "ready"
Settled     == ~(ShouldInit \/ ShouldReset)

\* The reducer of personsMap, and Storage.
Holds(persons) ==
  /\ personsMap' = persons
  /\ kept' = IF owner # NoOne THEN [kept EXCEPT ![owner] = persons] ELSE kept

-----------------------------------------------------------------------------
(* The store listener. *)

\* Up to the await of loadMe.
Initialize ==
  /\ ShouldInit
  /\ status' = "initializing"
  /\ Holds(IF fresh THEN {} ELSE personsMap)
  /\ loadMe' = loadMe \cup {owner}
  /\ UNCHANGED <<owner, fresh, logins, asked, fetchingIds, calls, wanted, failed, crossed>>

\* loadPerson is answered or fails; initSuccess comes in both cases, and always.
LoadedMe(o) ==
  /\ Settled /\ o \in loadMe
  /\ loadMe' = loadMe \ {o}
  /\ status' = "ready"
  /\ \/ Holds(personsMap \cup {o}) /\ UNCHANGED failed
     \/ failed' = failed \cup {o} /\ UNCHANGED <<personsMap, kept>>
  /\ UNCHANGED <<owner, fresh, logins, asked, fetchingIds, calls, wanted, crossed>>

\* fetchingIds stays.
Reset ==
  /\ ShouldReset
  /\ status' = "pending"
  /\ Holds({})
  /\ UNCHANGED <<owner, fresh, logins, asked, fetchingIds, loadMe, calls, wanted, failed, crossed>>

-----------------------------------------------------------------------------
(* loadPersons. *)

Unknown_Fetching(ids) == ids \ personsMap
Unknown(ids) == ids \ (personsMap \cup fetchingIds)

MayAsk_LoggedOut(new) == new # {}
MayAsk(new) == owner # NoOne /\ new # {}

\* Up to its await: C are the calls but this one.  The ids have an order, which is not known.
Begin(C, ids) ==
  LET new == Unknown(ids) IN
  IF ~MayAsk(new)
  THEN calls' = C /\ UNCHANGED fetchingIds
  ELSE \E batch \in SUBSET new :
         /\ \/ batch = new /\ Cardinality(batch) <= BatchSize
            \/ batch # new /\ Cardinality(batch) = BatchSize
         /\ calls' = C \cup {[of |-> owner, ids |-> batch, rest |-> new \ batch]}
         /\ fetchingIds' = fetchingIds \cup batch

\* GlipGroups asks for the members of groups.
LoadPersons(ids) ==
  /\ Settled /\ status = "ready" /\ owner # NoOne
  /\ asked < MaxCalls /\ asked' = asked + 1
  /\ wanted' = wanted \cup ids
  /\ Begin(calls, ids)
  /\ UNCHANGED <<owner, fresh, logins, status, personsMap, kept, loadMe, failed, crossed>>

Rest_None(c) == {}
\* What is left of a call, if it still is the same user.
Rest(c) == IF c.rest # {} /\ c.of = owner THEN {[c EXCEPT !.ids = {}]} ELSE {}

\* The batch is answered, of each person or not; or the request fails.
Answer(c) ==
  /\ Settled /\ c.ids # {}
  /\ \E got \in SUBSET c.ids :
       /\ Holds(personsMap \cup got)
       /\ failed' = failed \cup (c.ids \ got)
  /\ fetchingIds' = fetchingIds \ c.ids
  /\ calls' = (calls \ {c}) \cup Rest(c)
  /\ UNCHANGED <<owner, fresh, logins, asked, status, loadMe, wanted, crossed>>

\* sleep(batchFetchDelay) is over.
WakeUp(c) ==
  /\ Settled /\ c.ids = {}
  /\ Begin(calls \ {c}, c.rest)
  /\ UNCHANGED <<owner, fresh, logins, asked, status, personsMap, kept, loadMe, wanted, failed,
                 crossed>>

-----------------------------------------------------------------------------
(* A login is not fresh where another tab, or the page before a reload, has logged in. *)
Login(o) ==
  /\ Settled /\ owner = NoOne /\ logins < MaxLogins
  /\ owner' = o /\ fresh' \in BOOLEAN
  /\ logins' = logins + 1
  /\ personsMap' = kept[o]
  /\ wanted' = {} /\ failed' = {}
  /\ crossed' = (status = "initializing")
  /\ UNCHANGED <<asked, status, kept, fetchingIds, loadMe, calls>>

Logout ==
  /\ Settled /\ owner # NoOne
  /\ owner' = NoOne
  /\ personsMap' = {}
  /\ UNCHANGED <<fresh, logins, asked, status, kept, fetchingIds, loadMe, calls, wanted, failed,
                 crossed>>

Next ==
  \/ Initialize \/ Reset
  \/ \E o \in Owner : Login(o) \/ LoadedMe(o)
  \/ \E ids \in (SUBSET Everyone) \ {{}} : LoadPersons(ids)
  \/ \E c \in calls : Answer(c) \/ WakeUp(c)
  \/ Logout

Spec == Init /\ [][Next]_vars

-----------------------------------------------------------------------------
(* Who was asked for is known, or could not be had, or is still asked for: by a request *)
(* under way, of whichever login, or by a rest that will be looked at; nobody is asked  *)
(* for twice at a time; and a module that is ready knows its user, or could not, unless *)
(* it was still busy with another at login.                                              *)
PersonsKnown ==
  Settled /\ owner # NoOne =>
    /\ wanted \subseteq personsMap \cup failed \cup (UNION {c.ids : c \in calls})
                          \cup (UNION {c.rest : c \in {k \in calls : k.of = owner}})
    /\ \A c, d \in calls : c # d => c.ids \cap d.ids = {}
    /\ fetchingIds = UNION {c.ids : c \in calls}
    /\ status = "ready" /\ ~crossed => owner \in personsMap \cup failed
=============================================================================
