--------------------------- MODULE MCGuideLifecycle ---------------------------
(* The instances of GuideLifecycle that TLC checks. *)
EXTENDS GuideLifecycle, TLC

CONSTANTS r1, r2, r3, r4, q1, q2, s1

FourRequests == {r1, r2, r3, r4}
TwoQuestions == {q1, q2}
OneStudent == {s1}

\* Requests and questions are interchangeable: no action tells one from another.
Symmetry == Permutations(FourRequests) \union Permutations(TwoQuestions)

=============================================================================
