------------------------------- MODULE MCWorkspace -------------------------------
(* Instances of the components of Workspace for TLC. *)
EXTENDS Workspace, TLC

CONSTANTS
  u1, u2, c1, c2, n1, n2, n3, n4, n5

\* What the number parser makes of a number: a phone number in two ways of writing it, an
\* extension, one of another company, and one it cannot read.
Forms == n1 :> "P" @@ n2 :> "P" @@ n3 :> "E" @@ n4 :> "notInCompany" @@ n5 :> "noAreaCode"

\* Two posts of one text.
OneText == [p \in {1, 2} |-> "x"]

Symmetry == Permutations({u1, u2}) \cup Permutations({c1, c2})
=============================================================================
