------------------------------ MODULE MCAttempts ------------------------------
(* The instances of Attempts that TLC checks. *)
EXTENDS Attempts, TLC

CONSTANTS r1, r2, r3

ThreeRequests == {r1, r2, r3}

TwoRequests == {r1, r2}

\* No action tells one request from another.
SymmetryOfThree == Permutations(ThreeRequests)
=============================================================================
