----------------------------- MODULE ResultQueue -----------------------------
(***************************************************************************)
(* What the queue of grading results and its consumer promise together:    *)
(* a submission is given a result with all that belongs to it in one step  *)
(* (perhaps another one later, when a second message is about it), and a   *)
(* message is settled for good, deleted when its submission has a result   *)
(* or parked in the dead letter queue.  SubmissionGrading implements this. *)
(***************************************************************************)
CONSTANTS
    Messages, Submissions, SubmissionOf,
    Results(_),  \* the results a submission may be given
    NoResult

VARIABLES
    result,   \* per submission: the attempt that stands for it, with its evidence
    place     \* per message: "pending", "deleted" or "dlq"

resultVars == <<result, place>>

Init ==
    /\ result = [s \in Submissions |-> NoResult]
    /\ place = [m \in Messages |-> "pending"]

Grade(s) ==
    /\ \E r \in Results(s) : result' = [result EXCEPT ![s] = r]
    /\ UNCHANGED place

\* A worker settles the messages of its batch together.
Delete(batch) ==
    /\ \A m \in batch : place[m] = "pending" /\ result[SubmissionOf[m]] # NoResult
    /\ place' = [m \in Messages |-> IF m \in batch THEN "deleted" ELSE place[m]]
    /\ UNCHANGED result

Park(m) ==
    /\ place[m] = "pending"
    /\ place' = [place EXCEPT ![m] = "dlq"]
    /\ UNCHANGED result

Next ==
    \/ \E s \in Submissions : Grade(s)
    \/ \E batch \in SUBSET Messages : Delete(batch)
    \/ \E m \in Messages : Park(m)

Spec == Init /\ [][Next]_resultVars
==============================================================================
