---------------------------- MODULE MCMessageStore ----------------------------
(* Instances of MessageStore for TLC: two messages of one conversation. *)
EXTENDS MessageStore, TLC

CONSTANTS t1, t2, m1, m2, c1

MCOf == [m \in Message |-> c1]

\* Once an answer came too late the properties say nothing, for good: what follows is left
\* out.
Orderly == ~raced

Symmetry == Permutations(Tab) \cup Permutations(Message)
=============================================================================
