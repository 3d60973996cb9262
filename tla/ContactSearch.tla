------------------------------- MODULE ContactSearch -------------------------------
(***************************************************************************)
(* Contacts searched as the user types (modules/ContactSearch): a search   *)
(* asks its sources one after the other, shows what each has found, and    *)
(* keeps it for a while; the last search is made again when that while is  *)
(* over.  A search that is under way is never stopped: an answer that a    *)
(* later search of the source has overtaken is not shown.                  *)
(*                                                                         *)
(* An action is one event loop turn.  Sources that are cached take no time *)
(* and belong to the turn that comes to them.  What a source finds is told *)
(* by the source and the string.                                           *)
(***************************************************************************)
EXTENDS Naturals, FiniteSets

CONSTANTS
  Sources,      \* the number of search sources
  Text,         \* strings of minimalSearchLength or more; "" stands for the others
  MaxSearches,  \* bound
  MaxEvents     \* bound: failures, what is cached and expires, logins and logouts

Source == 1..Sources

VARIABLES
  loggedIn,       \* and storage and sources are ready; status follows at once
  typed,          \* history: the string typed last
  waiting,        \* the timer of debounce: the string it may search for
  searchStatus,
  searching,      \* the state: a string and the sources whose entities are shown
  searchIds,      \* the search that asked a source last
  cache,          \* sources and strings Storage has fresh entities of
  runs,           \* calls of search under way
  timeout,        \* _timeoutId is set
  latest,         \* history: the latest search, and its string
  overtaken,      \* history: an earlier search with another string got between
  failed,         \* history: a source failed
  events

vars == <<loggedIn, typed, waiting, searchStatus, searching, searchIds, cache, runs, timeout,
          latest, overtaken, failed, events>>

Run     == [n : 1..MaxSearches, text : Text, at : Source]
Shown   == [text : Text \cup {""}, result : SUBSET Source]
Nothing == [text |-> "", result |-> {}]
NoTimer == [text |-> "", trailing |-> FALSE, set |-> FALSE]

TypeOK ==
  /\ loggedIn \in BOOLEAN /\ typed \in Text \cup {""}
  /\ waiting \in [text : Text \cup {""}, trailing : BOOLEAN, set : BOOLEAN]
  /\ searchStatus \in {"idle", "searching"} /\ searching \in Shown
  /\ searchIds \in [Source -> 0..MaxSearches] /\ cache \subseteq Source \X Text
  /\ runs \subseteq Run /\ timeout \in BOOLEAN
  /\ latest \in [n : 0..MaxSearches, text : Text \cup {""}]
  /\ overtaken \in BOOLEAN /\ failed \in BOOLEAN
  /\ events \in 0..MaxEvents

Init ==
  /\ loggedIn = TRUE /\ typed = "" /\ waiting = NoTimer
  /\ searchStatus = "idle" /\ searching = Nothing
  /\ searchIds = [s \in Source |-> 0] /\ cache = {}
  /\ runs = {} /\ timeout = FALSE
  /\ latest = [n |-> 0, text |-> ""] /\ overtaken = FALSE /\ failed = FALSE
  /\ events = 0

Counted == events < MaxEvents /\ events' = events + 1

-----------------------------------------------------------------------------
(* One search. *)

\* searchSuccess: what is found for the same string is added.
Loaded(shown, text, found) ==
  [text |-> text, result |-> found \cup (IF shown.text = text THEN shown.result ELSE {})]

\* An earlier search for something else spoils what the latest has shown, or asks what
\* it has asked.
Spoils(r)    == r.text # latest'.text /\ latest'.text \in {"", searching.text}
Passes(r, s) == r.n # latest'.n /\ r.text # latest'.text /\ searchIds[s] = latest'.n

\* The search comes to source s, with shown on the screen: cached sources are loaded
\* until one has to be asked.
From(r, s, shown, idle, spoilt) ==
  LET asked  == {i \in s..Sources : <<i, r.text>> \notin cache}
      next   == IF asked = {} THEN Sources + 1 ELSE CHOOSE i \in asked : \A j \in asked : i <= j
      cached == {i \in s..Sources : i < next}
      come   == cached \cup {i \in Source : i = next}
  IN
  /\ searching' = IF cached = {} THEN shown ELSE Loaded(shown, r.text, cached)
  /\ searchIds' = [i \in Source |-> IF i \in come THEN r.n ELSE searchIds[i]]
  /\ searchStatus' = IF next <= Sources THEN "searching"
                     ELSE IF cached # {} THEN "idle" ELSE idle
  /\ runs' = (runs \ {r}) \cup (IF next <= Sources THEN {[r EXCEPT !.at = next]} ELSE {})
  /\ overtaken' = (spoilt \/ (cached # {} /\ Spoils(r)) \/ \E i \in come : Passes(r, i))

\* search, of a string that may be too short.  _timeoutId is left alone if it is.
Search(text, shown, spoilt) ==
  /\ latest.n < MaxSearches
  /\ LET short == text = "" \/ ~loggedIn
         n == latest.n + 1 IN
     /\ latest' = [n |-> n, text |-> IF short THEN "" ELSE text]
     /\ IF short
        THEN /\ searching' = Nothing /\ searchStatus' = "idle"
             /\ overtaken' = spoilt
             /\ UNCHANGED <<searchIds, runs, timeout>>
        ELSE /\ timeout' = TRUE
             /\ From([n |-> n, text |-> text, at |-> 1], 1, shown, searchStatus, spoilt)

\* What was searched for before is over if nothing of it is under way.
SearchAnew(text) ==
  /\ Search(text, searching, overtaken /\ runs # {})
  /\ failed' = (failed /\ runs # {})

NoSearch == UNCHANGED <<searchStatus, searching, searchIds, runs, timeout, latest, overtaken, failed>>

-----------------------------------------------------------------------------
(* The user types: debouncedSearch searches at once, and again when nothing was typed   *)
(* for a while.                                                                          *)

Type(text) ==
  /\ loggedIn
  /\ typed' = text
  /\ waiting' = [text |-> text, trailing |-> waiting.set, set |-> TRUE]
  /\ IF waiting.set THEN NoSearch ELSE SearchAnew(text)
  /\ UNCHANGED <<loggedIn, cache, events>>

Trailing_Never == FALSE
Trailing == waiting.trailing

Later ==
  /\ waiting.set
  /\ waiting' = NoTimer
  /\ IF Trailing THEN SearchAnew(waiting.text) ELSE NoSearch
  /\ UNCHANGED <<loggedIn, typed, cache, events>>

\* ttl is over: what is shown is searched again, and found in the cache if it was kept
\* after the timeout was set.
SearchAgain ==
  /\ timeout
  /\ IF searching.text = "" \/ ~loggedIn
     THEN /\ timeout' = FALSE /\ searching' = Nothing /\ searchStatus' = "idle"
          /\ UNCHANGED <<searchIds, runs, latest, overtaken>>
     ELSE Search(searching.text, Nothing, overtaken \/ searching.text # latest.text)
  /\ UNCHANGED <<loggedIn, typed, waiting, cache, failed, events>>

-----------------------------------------------------------------------------
(* Answers. *)

IsLatest_Any(r) == TRUE
\* No other search has asked the source since.
IsLatest(r) == searchIds[r.at] = r.n

\* _saveSearching, and _loadSearching; then the next source.
Answer(r) ==
  /\ cache' = IF loggedIn THEN cache \cup {<<r.at, r.text>>} ELSE cache
  /\ UNCHANGED <<loggedIn, typed, waiting, timeout, latest, failed, events>>
  /\ From(r, r.at + 1,
          IF IsLatest(r) THEN Loaded(searching, r.text, {r.at}) ELSE searching,
          IF IsLatest(r) THEN "idle" ELSE searchStatus,
          overtaken \/ (searchIds[r.at] = r.n /\ Spoils(r)))

\* searchError takes away what is shown, whosever it is.
Fail(r) ==
  /\ Counted
  /\ failed' = TRUE
  /\ UNCHANGED <<loggedIn, typed, waiting, cache, timeout, latest>>
  /\ From(r, r.at + 1, Nothing, "idle", overtaken)

-----------------------------------------------------------------------------
(* Time, and the login. *)

Expire(c) ==
  /\ Counted
  /\ cache' = cache \ {c}
  /\ NoSearch
  /\ UNCHANGED <<loggedIn, typed, waiting>>

\* _onStateChange, at a logout or a login; resetSuccess leaves searchStatus alone.
Turn ==
  /\ Counted
  /\ loggedIn' = ~loggedIn
  /\ cache' = {}
  /\ typed' = "" /\ latest' = [latest EXCEPT !.text = ""]
  /\ searching' = IF loggedIn THEN Nothing ELSE searching
  /\ waiting' = [waiting EXCEPT !.text = "", !.trailing = FALSE]
  /\ UNCHANGED <<searchStatus, searchIds, runs, timeout, overtaken, failed>>

Next ==
  \/ \E text \in Text \cup {""} : Type(text)
  \/ Later \/ SearchAgain \/ Turn
  \/ \E r \in runs : Answer(r) \/ Fail(r)
  \/ \E c \in cache : Expire(c)

Spec == Init /\ [][Next]_vars

-----------------------------------------------------------------------------
(* When all searches are over, what is shown is what every source has found for the     *)
(* string typed last, even if it was typed while earlier searches were under way, as     *)
(* long as none of these got between the latest and a source, and no source failed.      *)
SearchShown ==
  runs = {} /\ ~waiting.trailing /\ ~overtaken /\ ~failed =>
    /\ searchStatus = "idle"
    /\ searching = [text |-> typed, result |-> IF typed = "" THEN {} ELSE Source]
=============================================================================
