------------------------- MODULE MCSubmissionGrading -------------------------
(* The instances of SubmissionGrading that TLC checks: two results for one   *)
(* submission that disagree (it was completed twice), and a single result.   *)
EXTENDS SubmissionGrading

TwoResults == [m \in {1, 2} |-> "s"]

OneResult == [m \in {1} |-> "s"]
=============================================================================
