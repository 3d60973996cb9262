------------------------------- MODULE MCTelephony -------------------------------
(* Instances of the components of Telephony for TLC. *)
EXTENDS Telephony, TLC

CONSTANTS
  o1, o2, t1, t2, k1, k2, s1, s2, s3, a1, a2, q1, q2, q3

\* The two legs of a call that RingOut makes.
Legs == {<<a1, a2>>}

\* The dependencies of a class that others inherit from.
Inherited == <<"optional", "no", "required">>

Symmetry == Permutations({o1, o2}) \cup Permutations({s1, s2, s3})
=============================================================================
