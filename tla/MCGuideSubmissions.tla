-------------------------- MODULE MCGuideSubmissions --------------------------
(* The instances of GuideSubmissions that TLC checks. *)
EXTENDS GuideSubmissions, TLC

CONSTANTS r1, r2, r3, r4

ThreeRequests == {r1, r2, r3}
FourRequests == {r1, r2, r3, r4}

\* No action tells one request from another.
SymmetryOfThree == Permutations(ThreeRequests)
SymmetryOfFour == Permutations(FourRequests)

=============================================================================
