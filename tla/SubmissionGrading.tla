--------------------------- MODULE SubmissionGrading ---------------------------
(***************************************************************************)
(* attempt-reprocess-queue and its consumer: the Lambda that turns the     *)
(* grader's result for a guide submission into an Attempt, a mastery       *)
(* update and a GRADED submission.                                         *)
(*                                                                         *)
(* The queue delivers at least once. A message that is received stays      *)
(* invisible for a while; if it has not been deleted by then it is         *)
(* delivered again, until maxReceiveCount deliveries put it in the dead    *)
(* letter queue. The handler works through a batch record by record, and   *)
(* the records it does not report as failed are deleted when it returns.   *)
(* processGuideSubmission is a chain of separate statements, not a         *)
(* transaction: an exception or the death of the Lambda stops it anywhere, *)
(* and another delivery runs the chain again from its start.               *)
(***************************************************************************)
EXTENDS Naturals, FiniteSets

CONSTANTS
  Messages,         \* grading results on the queue
  Submissions,
  SubmissionOf,     \* the submission each message is about
  CorrectMessages,  \* the messages whose score makes the answer correct
  WithTopic,        \* submissions whose question has a confirmed topic
  Workers,          \* Lambda instances
  BatchSize,        \* records per invocation
  MaxReceive,       \* maxReceiveCount of the queue
  Overlap,          \* whether a message may be delivered again while a worker holds it
  None

ASSUME GradingAssumption ==
  /\ SubmissionOf \in [Messages -> Submissions]
  /\ CorrectMessages \subseteq Messages
  /\ WithTopic \subseteq Submissions
  /\ BatchSize \in Nat \ {0}
  /\ MaxReceive \in Nat \ {0}
  /\ Overlap \in BOOLEAN
  /\ None \notin Messages \X (1..MaxReceive)

VARIABLES
  queue,       \* per message: where it is and how often it was received
  submission,  \* the guide_submissions rows: status, isCorrect, attemptId
  attempt,     \* the attempts rows, by the delivery that created them
  mastery,     \* per submission: how often its answer was fed to BKT
  worker       \* per Lambda: its batch and the record at hand

vars == <<queue, submission, attempt, mastery, worker>>

-----------------------------------------------------------------------------

\* A delivery is the n-th receipt of a message; a run of the chain creates at
\* most one attempt, so the delivery names it.
Deliveries == Messages \X (1..MaxReceive)

Places == {"queue", "inFlight", "deleted", "dlq"}

SubmissionRow ==
  [status : {"UPLOADED", "GRADING", "GRADED"}, correct : BOOLEAN \union {None},
   attempt : Deliveries \union {None}]

\* What hangs of an attempt: its steps, its mastery update and the request to
\* classify its error (asked says that the code tried to send it).
AttemptRow ==
  [exists : BOOLEAN, correct : BOOLEAN, steps : BOOLEAN, mastery : BOOLEAN, asked : BOOLEAN]

Bare(exists, correct) ==
  [exists |-> exists, correct |-> correct, steps |-> FALSE, mastery |-> FALSE, asked |-> FALSE]

NoAttempt == Bare(FALSE, FALSE)

WorkerSteps ==
  {"idle", "next", "grading", "attempt", "steps", "mastery", "classify", "close"}

WorkerRecord ==
  [step : WorkerSteps, todo : SUBSET Deliveries, done : SUBSET Deliveries,
   record : Deliveries \union {None}]

IdleWorker == [step |-> "idle", todo |-> {}, done |-> {}, record |-> None]

Subject(d) == SubmissionOf[d[1]]

IsCorrect(d) == d[1] \in CorrectMessages

At(w, step) == worker[w].step = step

Goto(w, step) == worker' = [worker EXCEPT ![w].step = step]

\* The record the worker is at, and the submission it is about.
Record(w) == worker[w].record

Target(w) == Subject(Record(w))

\* The delivery of m that a worker received last.
LastDelivery(m) == <<m, queue[m].receives>>

Held(d) ==
  \E w \in Workers : d \in worker[w].todo \union worker[w].done \union {worker[w].record}

\* A worker between two records of its batch.
Batch(todo, done) == [step |-> "next", todo |-> todo, done |-> done, record |-> None]

\* The end of a record: it counts as done, and the next one is taken.
RecordDone(w) ==
  worker' = [worker EXCEPT ![w] = Batch(@.todo, @.done \union {Record(w)})]

Init ==
  /\ queue = [m \in Messages |-> [place |-> "queue", receives |-> 0]]
  /\ submission = [s \in Submissions |->
       [status |-> "UPLOADED", correct |-> None, attempt |-> None]]
  /\ attempt = [d \in Deliveries |-> NoAttempt]
  /\ mastery = [s \in Submissions |-> 0]
  /\ worker = [w \in Workers |-> IdleWorker]

-----------------------------------------------------------------------------
(* The queue (external)                                                    *)

Visible == {m \in Messages : queue[m].place = "queue"}

Receive(w) ==
  /\ At(w, "idle")
  /\ \E batch \in SUBSET Visible :
       /\ batch # {}
       /\ Cardinality(batch) <= BatchSize
       /\ queue' = [m \in Messages |->
            IF m \in batch
            THEN [place |-> "inFlight", receives |-> queue[m].receives + 1]
            ELSE queue[m]]
       /\ worker' = [worker EXCEPT ![w] =
            Batch({<<m, queue[m].receives + 1>> : m \in batch}, {})]
  /\ UNCHANGED <<submission, attempt, mastery>>

\* Broken variant: one delivery too many.
ReceiptsLeftOffByOne(m) == queue[m].receives <= MaxReceive

ReceiptsLeft(m) == queue[m].receives < MaxReceive

VisibilityExpires(m) ==
  /\ queue[m].place = "inFlight"
  /\ Overlap \/ ~Held(LastDelivery(m))
  /\ queue' = [queue EXCEPT ![m].place = IF ReceiptsLeft(m) THEN "queue" ELSE "dlq"]
  /\ UNCHANGED <<submission, attempt, mastery, worker>>

-----------------------------------------------------------------------------
(* The handler: one record after the other                                 *)

AlreadyGraded(d) ==
  /\ submission[Subject(d)].status = "GRADED"
  /\ submission[Subject(d)].attempt # None

\* The worker takes d from its batch: a delivery already graded is done.
Taken(w, d) ==
  LET rest == worker[w].todo \ {d} IN
  IF AlreadyGraded(d)
  THEN Batch(rest, worker[w].done \union {d})
  ELSE [step |-> "grading", todo |-> rest, done |-> worker[w].done, record |-> d]

\* Broken variant: a submission that is being graded is waited for.
TakeRecordWaits(w) ==
  /\ At(w, "next")
  /\ \E d \in worker[w].todo :
       /\ submission[Subject(d)].status # "GRADING"
       /\ worker' = [worker EXCEPT ![w] = Taken(w, d)]
  /\ UNCHANGED <<queue, submission, attempt, mastery>>

TakeRecord(w) ==
  /\ At(w, "next")
  /\ \E d \in worker[w].todo : worker' = [worker EXCEPT ![w] = Taken(w, d)]
  /\ UNCHANGED <<queue, submission, attempt, mastery>>

\* Broken variant: mastery is fed as soon as the score is known.
WriteGradingAndMastery(w) ==
  /\ At(w, "grading")
  /\ submission' = [submission EXCEPT ![Target(w)] =
       [status |-> "GRADING", correct |-> IsCorrect(Record(w)), attempt |-> @.attempt]]
  /\ mastery' = [mastery EXCEPT ![Target(w)] = @ + 1]
  /\ Goto(w, "attempt")
  /\ UNCHANGED <<queue, attempt>>

WriteGrading(w) ==
  /\ At(w, "grading")
  /\ submission' = [submission EXCEPT ![Target(w)] =
       [status |-> "GRADING", correct |-> IsCorrect(Record(w)), attempt |-> @.attempt]]
  /\ Goto(w, "attempt")
  /\ UNCHANGED <<queue, attempt, mastery>>

CreateAttempt(w) ==
  /\ At(w, "attempt")
  /\ attempt' = [attempt EXCEPT ![Record(w)] = Bare(TRUE, IsCorrect(Record(w)))]
  /\ Goto(w, "steps")
  /\ UNCHANGED <<queue, submission, mastery>>

CreateSteps(w) ==
  /\ At(w, "steps")
  /\ attempt' = [attempt EXCEPT ![Record(w)].steps = TRUE]
  /\ Goto(w, "mastery")
  /\ UNCHANGED <<queue, submission, mastery>>

\* Broken variant: the submission is closed before its mastery update.
ClosedBeforeMastery(w) ==
  /\ At(w, "mastery")
  /\ submission' = [submission EXCEPT ![Target(w)] =
       [status |-> "GRADED", correct |-> @.correct, attempt |-> Record(w)]]
  /\ Goto(w, "close")
  /\ UNCHANGED <<queue, attempt, mastery>>

ApplyMastery(w) ==
  /\ At(w, "mastery")
  /\ IF Target(w) \in WithTopic
     THEN /\ mastery' = [mastery EXCEPT ![Target(w)] = @ + 1]
          /\ attempt' = [attempt EXCEPT ![Record(w)].mastery = TRUE]
     ELSE UNCHANGED <<mastery, attempt>>
  /\ Goto(w, "classify")
  /\ UNCHANGED <<queue, submission>>

\* publishStandard does not throw: the step is past whether or not SQS took it.
AskClassifier(w) ==
  /\ At(w, "classify")
  /\ attempt' = IF IsCorrect(Record(w)) THEN attempt
                ELSE [attempt EXCEPT ![Record(w)].asked = TRUE]
  /\ Goto(w, "close")
  /\ UNCHANGED <<queue, submission, mastery>>

Close(w) ==
  /\ At(w, "close")
  /\ submission' = [submission EXCEPT ![Target(w)] =
       [status |-> "GRADED", correct |-> @.correct, attempt |-> Record(w)]]
  /\ RecordDone(w)
  /\ UNCHANGED <<queue, attempt, mastery>>

\* Broken variant: the catch block logs and goes on, reporting no failure.
RecordSwallowed(w) ==
  /\ worker[w].record # None
  /\ RecordDone(w)
  /\ UNCHANGED <<queue, submission, attempt, mastery>>

\* A statement throws: the record goes to batchItemFailures, and nothing of
\* what it has already written is undone.
RecordFails(w) ==
  /\ worker[w].record # None
  /\ worker' = [worker EXCEPT ![w] = Batch(@.todo, @.done)]
  /\ UNCHANGED <<queue, submission, attempt, mastery>>

\* The invocation ends: what it did not report is deleted, unless its receipt
\* is outdated; the failed records wait for their visibility to expire.
HandlerReturns(w) ==
  /\ At(w, "next")
  /\ worker[w].todo = {}
  /\ queue' = [m \in Messages |->
       IF queue[m].place = "inFlight" /\ LastDelivery(m) \in worker[w].done
       THEN [queue[m] EXCEPT !.place = "deleted"]
       ELSE queue[m]]
  /\ worker' = [worker EXCEPT ![w] = IdleWorker]
  /\ UNCHANGED <<submission, attempt, mastery>>

\* The Lambda times out or dies with its whole batch undeleted.
Crash(w) ==
  /\ ~At(w, "idle")
  /\ worker' = [worker EXCEPT ![w] = IdleWorker]
  /\ UNCHANGED <<queue, submission, attempt, mastery>>

-----------------------------------------------------------------------------

Process(w) ==
  \/ TakeRecord(w) \/ WriteGrading(w) \/ CreateAttempt(w) \/ CreateSteps(w)
  \/ ApplyMastery(w) \/ AskClassifier(w) \/ Close(w) \/ HandlerReturns(w)

Next ==
  \/ \E w \in Workers : Receive(w) \/ Process(w) \/ RecordFails(w) \/ Crash(w)
  \/ \E m \in Messages : VisibilityExpires(m)

Spec == Init /\ [][Next]_vars

\* SQS keeps polling for the Lambda, a running Lambda goes on, and visibility
\* timeouts pass. Failures and crashes may happen but need not.
Fairness ==
  /\ \A w \in Workers : WF_vars(Process(w))
  /\ WF_vars(\E w \in Workers : Receive(w))
  /\ \A m \in Messages : WF_vars(VisibilityExpires(m))

FairSpec == Spec /\ Fairness

-----------------------------------------------------------------------------
(* Properties *)

\* Rows, receipts and batches have their types; receipts stay within the
\* redrive limit.
TypeOK ==
  /\ queue \in [Messages -> [place : Places, receives : 0..MaxReceive]]
  /\ submission \in [Submissions -> SubmissionRow]
  /\ attempt \in [Deliveries -> AttemptRow]
  /\ mastery \in [Submissions -> Nat]
  /\ worker \in [Workers -> WorkerRecord]

\* Everything an attempt should have besides its row.
Complete(d) ==
  /\ attempt[d].exists
  /\ attempt[d].steps
  /\ Subject(d) \in WithTopic => attempt[d].mastery
  /\ ~attempt[d].correct => attempt[d].asked

\* A GRADED submission points to an attempt of its own that went through the
\* whole chain: steps stored, mastery fed, classification asked for. A crash,
\* a retry or an overlapping delivery never leaves a grade without its
\* evidence, because the row is closed last.
GradedIsComplete ==
  \A s \in Submissions : submission[s].status = "GRADED" =>
    /\ submission[s].attempt # None
    /\ Subject(submission[s].attempt) = s
    /\ Complete(submission[s].attempt)

\* A result leaves the queue only once its submission has been graded, or for
\* the dead letter queue: no partial batch, crash or skip loses one.
DeletedIsGraded ==
  \A m \in Messages :
    queue[m].place = "deleted" => submission[SubmissionOf[m]].attempt # None

\* BKT is never fed an answer of which no attempt is on record, however the
\* deliveries of a submission overlap and fail.
MasteryHasEvidence ==
  \A s \in Submissions :
    mastery[s] <= Cardinality({d \in Deliveries : Subject(d) = s /\ attempt[d].exists})

\* Re-deliveries do not duplicate attempts: a submission has one at most. The
\* chain is not transactional, so a crash after the attempt breaks it.
NoDuplicateAttempts ==
  \A d1, d2 \in Deliveries :
    attempt[d1].exists /\ attempt[d2].exists /\ Subject(d1) = Subject(d2) => d1 = d2

\* Every result is settled: deleted, or parked in the dead letter queue.
ResultsSettle ==
  \A m \in Messages : <>(queue[m].place \in {"deleted", "dlq"})

\* The attempt a submission points to, once it has everything.
ResultOf(s) ==
  LET d == submission[s].attempt
  IN  IF d # None /\ Complete(d) THEN d ELSE None

PlaceOf(m) == IF queue[m].place \in {"deleted", "dlq"} THEN queue[m].place ELSE "pending"

ResultsFor(s) == {d \in Deliveries : Subject(d) = s}

Results == INSTANCE ResultQueue WITH
             Results <- ResultsFor, NoResult <- None,
             result <- [s \in Submissions |-> ResultOf(s)],
             place <- [m \in Messages |-> PlaceOf(m)]

\* Seen from outside, the chain of statements is one step: a submission points to
\* a complete attempt or to none, it never loses it again, and a message is settled
\* once, by deletion only after that step.
ImplementsResultQueue == Results!Spec

=============================================================================
