---------------------------------- MODULE Stage ----------------------------------
(***************************************************************************)
(* What the components of Telephony and of Workspace have in common: they  *)
(* are checked one at a time, and the one that runs is chosen at the       *)
(* beginning.  Variables of one name are those of whichever runs.          *)
(***************************************************************************)
CONSTANTS
  Owner,  \* users
  none    \* nobody and nothing

VARIABLES
  which,  \* the component that runs
  cache, status, fresh, loggedIn, logins, waiting, raced, owner, events, message, promise,
  crossed, cached, mayRead, clock, data, kept, runs, queue, timer, logs, logPromises,
  loggingList, recorded, disturbed, calls, active, autoLog, excused, fetches, wanted,
  failed, last, missed
=============================================================================
