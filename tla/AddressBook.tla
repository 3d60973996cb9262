------------------------------- MODULE AddressBook -------------------------------
(***************************************************************************)
(* The personal contacts of a user (modules/AddressBook over               *)
(* lib/Pollable): read in full once, then by what has changed since a      *)
(* token, page by page, and kept in Storage, where the tab in front shares *)
(* them with the others.                                                   *)
(*                                                                         *)
(* The server has for a contact when it changed last, negative if it was   *)
(* deleted then, and 0 if it never was.  The token of an answer is the     *)
(* time of its last page, so what changes between the pages, after its own *)
(* has been read, is below the token and never read (overtaken).  An       *)
(* action is one event loop turn; the store listener runs before anything  *)
(* else happens (Settled).                                                 *)
(***************************************************************************)
EXTENDS Integers, FiniteSets

CONSTANTS
  Owner, NoOne, Contact,
  MaxLogins,   \* bound
  MaxChanges,  \* bound: changes of the contacts
  MaxEvents    \* bound: failures, syncs asked for, tabs that change, what another tab reads

VARIABLES
  cached,       \* the options disableCache and Storage
  polling,      \* an option
  mayRead,      \* permissions.ReadPersonalContacts; none of these changes
  clock, book,  \* external: the time, and the contacts of a user
  owner,        \* auth.ownerId; storage and permissions are ready with it
  fresh,        \* auth.isFreshLogin
  active,       \* tabManager.active
  logins, events,
  status,
  data,         \* the contacts, the token with its timestamp, and whose they are
  kept,         \* what Storage has for a user
  runs,         \* calls of _sync under way
  promise,      \* _promise: a sync that has failed stays in it
  timer,        \* _timeoutId
  overtaken,    \* history: contacts of a user that changed between two pages of a sync
                \* that had read them, or had them on none, and were not read since
  crossed       \* history: a sync went on after its login was over, or began before and
                \* ended after another tab had read the contacts in full

world == <<cached, polling, mayRead, clock, book, owner, fresh, active, logins, events>>
vars == <<world, status, data, kept, runs, promise, timer, overtaken, crossed>>

\* left: for the pages to come; at is the time of the last one, 0 if there was none.
Run   == [of : Owner, late : BOOLEAN, token : Nat, at : Nat, got : [Contact -> Int],
          left : SUBSET Contact]
Data  == [of : Owner \cup {NoOne}, list : [Contact -> Nat], token : Nat]
Blank == [of |-> NoOne, list |-> [c \in Contact |-> 0], token |-> 0]

TypeOK ==
  /\ cached \in BOOLEAN /\ polling \in BOOLEAN /\ mayRead \in BOOLEAN
  /\ clock \in 1..MaxChanges /\ book \in [Owner -> [Contact -> Int]]
  /\ owner \in Owner \cup {NoOne} /\ fresh \in BOOLEAN /\ active \in BOOLEAN
  /\ logins \in 0..MaxLogins /\ events \in 0..MaxEvents
  /\ status \in {"pending", "initializing", "ready"}
  /\ data \in Data /\ kept \in [Owner -> Data]
  /\ runs \subseteq Run /\ promise \in {"none", "sync", "failed"}
  /\ timer \in {"none", "poll", "retry"}
  /\ overtaken \in [Owner -> SUBSET Contact] /\ crossed \in BOOLEAN

Init ==
  /\ cached \in BOOLEAN /\ polling \in BOOLEAN /\ mayRead \in BOOLEAN
  /\ clock = 1 /\ book = [o \in Owner |-> [c \in Contact |-> 1]]
  /\ owner = NoOne /\ fresh = FALSE /\ active = TRUE
  /\ logins = 0 /\ events = 0
  /\ status = "pending"
  /\ data = Blank /\ kept = [o \in Owner |-> Blank]
  /\ runs = {} /\ promise = "none" /\ timer = "none"
  /\ overtaken = [o \in Owner |-> {}] /\ crossed = FALSE

Counted == events < MaxEvents /\ events' = events + 1

Holds(d) ==
  /\ data' = d
  /\ kept' = IF cached /\ owner # NoOne THEN [kept EXCEPT ![owner] = d] ELSE kept

-----------------------------------------------------------------------------
(* sync, and the store listener. *)

\* sync with the token of data d: it waits for the one there is, which may have failed.
Sync(d) ==
  IF promise # "none" THEN UNCHANGED <<runs, promise>>
  ELSE /\ promise' = "sync"
       /\ runs' = runs \cup {[of |-> owner, late |-> FALSE, token |-> d.token, at |-> 0,
                              got |-> [c \in Contact |-> 0], left |-> {}]}

ShouldInit  == owner # NoOne /\ status = "pending"
DataReady   == status = "initializing" /\ data.token # 0
ShouldReset == owner = NoOne /\ status = "ready"
Settled     == ~(ShouldInit \/ DataReady \/ ShouldReset)

CleanedUp_List(d) == [Blank EXCEPT !.token = d.token]
CleanedUp(d) == Blank

\* A token that is still there makes the module ready while init is dispatched, before
\* the data are cleaned up.
Initialize ==
  /\ ShouldInit
  /\ status' = IF data.token # 0 \/ ~mayRead THEN "ready" ELSE "initializing"
  /\ \E expired \in IF fresh \/ data.token = 0 THEN {TRUE} ELSE BOOLEAN :
       LET d == IF expired THEN CleanedUp(data) ELSE data IN
       /\ Holds(d)
       /\ IF mayRead /\ expired /\ (cached => active)
          THEN Sync(d) /\ UNCHANGED timer
          ELSE /\ timer' = IF ~mayRead THEN timer ELSE IF polling THEN "poll" ELSE "retry"
               /\ UNCHANGED <<runs, promise>>
  /\ UNCHANGED <<world, overtaken, crossed>>

InitSuccess ==
  /\ DataReady
  /\ status' = "ready"
  /\ UNCHANGED <<world, data, kept, runs, promise, timer, overtaken, crossed>>

Reset ==
  /\ ShouldReset
  /\ status' = "pending"
  /\ timer' = "none" /\ promise' = "none"
  /\ Holds(Blank)
  /\ runs' = {[r EXCEPT !.late = TRUE] : r \in runs}
  /\ UNCHANGED <<world, overtaken, crossed>>

-----------------------------------------------------------------------------
(* The server. *)

\* A sync is between two pages, and that of the contact is not one to come.
Passed(o, c) == \E r \in runs : r.of = o /\ r.left # {} /\ c \notin r.left

ChangeContact(o, c) ==
  /\ Settled /\ clock < MaxChanges
  /\ clock' = clock + 1
  /\ book' \in {[book EXCEPT ![o][c] = v] : v \in {clock + 1} \cup (IF book[o][c] > 0 THEN {-clock - 1} ELSE {})}
  /\ overtaken' = [overtaken EXCEPT ![o] = IF Passed(o, c) THEN @ \cup {c} ELSE @ \ {c}]
  /\ UNCHANGED <<cached, polling, mayRead, owner, fresh, active, logins, events, status, data, kept,
                 runs, promise, timer, crossed>>

When(v) == IF v < 0 THEN -v ELSE v

\* The contacts an answer is about: what exists, or what changed since the token.
About(o, token) ==
  {c \in Contact : IF token = 0 THEN book[o][c] > 0 ELSE When(book[o][c]) > token}

\* A page is served, whose it is by the one who is logged in; between two pages the
\* module sleeps.
Serve(r) ==
  /\ Settled /\ owner # NoOne /\ (r.at = 0 \/ r.left # {})
  /\ LET all == IF r.at = 0 THEN About(owner, r.token) ELSE r.left IN
     \E page \in SUBSET all :
       /\ page # {} \/ all = {}
       /\ runs' = (runs \ {r}) \cup
                  {[r EXCEPT !.at = clock, !.left = all \ page,
                             !.got = [c \in Contact |-> IF c \in page THEN book[owner][c] ELSE r.got[c]]]}
       /\ crossed' = (crossed \/ r.late)
  /\ UNCHANGED <<world, status, data, kept, promise, timer, overtaken>>

-----------------------------------------------------------------------------
(* The end of a sync. *)

Merged_Keeps(list, got) == [c \in Contact |-> IF got[c] > 0 THEN got[c] ELSE list[c]]
\* getContactListReducer.
Merged(list, got) ==
  [c \in Contact |-> IF got[c] > 0 THEN got[c] ELSE IF got[c] < 0 THEN 0 ELSE list[c]]

\* syncSuccess, whoever is there by now.  What a sync in full has not is not taken away.
Answer(r) ==
  /\ Settled /\ r.at # 0 /\ r.left = {}
  /\ runs' = runs \ {r}
  /\ Holds([of |-> IF data.of = NoOne THEN r.of ELSE data.of,
            list |-> Merged(data.list, r.got), token |-> r.at])
  /\ promise' = "none"
  /\ timer' = IF polling THEN "poll" ELSE timer
  /\ overtaken' = IF owner = NoOne THEN overtaken
                  ELSE [overtaken EXCEPT ![owner] = {c \in @ : r.got[c] # book[owner][c]}]
  /\ crossed' = (crossed \/ r.late \/ (r.token = 0 /\ data.token # 0))
  /\ UNCHANGED <<world, status>>

\* The error is thrown past the line that clears _promise.
Fail(r) ==
  /\ Settled /\ Counted
  /\ runs' = runs \ {r}
  /\ promise' = IF r.late THEN promise ELSE "failed"
  /\ timer' = IF polling THEN "poll" ELSE "retry"
  /\ crossed' = (crossed \/ r.late)
  /\ UNCHANGED <<cached, polling, mayRead, clock, book, owner, fresh, active, logins, status, data, kept,
                 overtaken>>

\* _timeoutId.  The data may be older than ttl, or not.
TimerFires ==
  /\ Settled /\ timer # "none"
  /\ \/ /\ active
        /\ timer' = "none"
        /\ IF owner # NoOne THEN Sync(data) ELSE UNCHANGED <<runs, promise>>
     \/ /\ timer = "retry" /\ data.token # 0
        /\ timer' = "none"
        /\ UNCHANGED <<runs, promise>>
  /\ UNCHANGED <<world, status, data, kept, overtaken, crossed>>

-----------------------------------------------------------------------------
(* Others. *)

\* sync, of Contacts.
Ask ==
  /\ Settled /\ status = "ready" /\ mayRead /\ Counted
  /\ Sync(data)
  /\ UNCHANGED <<cached, polling, mayRead, clock, book, owner, fresh, active, logins, status, data,
                 kept, timer, overtaken, crossed>>

\* The tab in front has read the contacts, in one page, and this one gets them through Storage.
OtherTab ==
  /\ Settled /\ owner # NoOne /\ cached /\ mayRead /\ ~active /\ Counted
  /\ Holds([of |-> owner, token |-> clock,
            list |-> [c \in Contact |-> IF book[owner][c] > 0 THEN book[owner][c] ELSE 0]])
  /\ UNCHANGED <<cached, polling, mayRead, clock, book, owner, fresh, active, logins, status, runs,
                 promise, timer, overtaken, crossed>>

ActiveTab ==
  /\ Settled /\ Counted
  /\ active' = ~active
  /\ UNCHANGED <<cached, polling, mayRead, clock, book, owner, fresh, logins, status, data, kept, runs,
                 promise, timer, overtaken, crossed>>

\* A login, or a page that is loaded while somebody is logged in.
Login(o) ==
  /\ Settled /\ owner = NoOne /\ logins < MaxLogins
  /\ owner' = o /\ logins' = logins + 1
  /\ fresh' \in BOOLEAN
  /\ data' = IF cached THEN kept[o] ELSE data
  /\ crossed' = (crossed \/ status = "initializing")
  /\ UNCHANGED <<cached, polling, mayRead, clock, book, active, events, status, kept, runs, promise, timer,
                 overtaken>>

\* A module that is initializing is not reset.
Logout ==
  /\ Settled /\ owner # NoOne
  /\ owner' = NoOne
  /\ data' = IF cached THEN Blank ELSE data
  /\ runs' = {[r EXCEPT !.late = TRUE] : r \in runs}
  /\ UNCHANGED <<cached, polling, mayRead, clock, book, fresh, active, logins, events, status, kept,
                 promise, timer, overtaken, crossed>>

Next ==
  \/ Initialize \/ InitSuccess \/ Reset
  \/ \E o \in Owner : Login(o) \/ \E c \in Contact : ChangeContact(o, c)
  \/ \E r \in runs : Serve(r) \/ Answer(r) \/ Fail(r)
  \/ TimerFires \/ Ask \/ OtherTab \/ ActiveTab \/ Logout

Spec == Init /\ [][Next]_vars

-----------------------------------------------------------------------------
(* The contacts are those of the user, and exactly as the server had them when the      *)
(* token was given, whatever changed and was deleted before, but for what changed        *)
(* between the pages when its own had been read; a module that waits for them, or polls, *)
(* has a sync or a timeout to wait for, as long as no sync failed: one that has ends     *)
(* them all, until the next login.                                                       *)
BookComplete ==
  Settled /\ ~crossed /\ owner # NoOne =>
    /\ data.of \in {owner, NoOne}
    /\ data.token # 0 =>
         \A c \in Contact \ overtaken[owner] : When(book[owner][c]) <= data.token =>
           data.list[c] = IF book[owner][c] > 0 THEN book[owner][c] ELSE 0
    /\ mayRead /\ (polling \/ status = "initializing") /\ promise # "failed" =>
         timer # "none" \/ runs # {}
=============================================================================
