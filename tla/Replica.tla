------------------------------ MODULE Replica ------------------------------
(***************************************************************************)
(* What lib/proxy promises: every client holds the server's state as it    *)
(* was after some number of actions, and only ever moves forward.  A state *)
(* is identified with the sequence of actions that led to it.              *)
(***************************************************************************)
EXTENDS Naturals, Sequences

CONSTANTS
  Client,     \* the client pages
  Action      \* redux actions

VARIABLES
  log,        \* the actions the server's store has reduced
  copy        \* the actions each client's copy of the state stands for

vars == <<log, copy>>

Init == log = <<>> /\ copy = [c \in Client |-> <<>>]

Prefix(n) == [i \in 1..n |-> log[i]]

Reduce == \E a \in Action : log' = Append(log, a) /\ UNCHANGED copy

CatchUp(c) ==
  /\ \E n \in Len(copy[c])..Len(log) : copy' = [copy EXCEPT ![c] = Prefix(n)]
  /\ UNCHANGED log

Next == Reduce \/ \E c \in Client : CatchUp(c)

Spec == Init /\ [][Next]_vars
=============================================================================
