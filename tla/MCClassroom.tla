----------------------------- MODULE MCClassroom -----------------------------
(* The instance of Classroom that TLC checks. *)
EXTENDS Classroom, TLC

CONSTANTS t1, t2, u1, u2, j1, j2, k1, k2

TwoTopics == {t1, t2}
TwoUnits == {u1, u2}
TwoJoins == {j1, j2}
TwoCycles == {k1, k2}

\* No action tells a topic, unit, request or invocation from another.
Symmetry ==
  Permutations(TwoTopics) \union Permutations(TwoUnits)
    \union Permutations(TwoJoins) \union Permutations(TwoCycles)
=============================================================================
