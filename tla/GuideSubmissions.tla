--------------------------- MODULE GuideSubmissions ---------------------------
(***************************************************************************)
(* How one student hands in answers to a published guide: createSubmission, *)
(* complete and processScanPage of GuideSubmissionsService. Rows of two     *)
(* students never meet (every query and the unique index carry the student  *)
(* id), so one student is enough; the student's own requests do overlap     *)
(* (two devices, a double tap, a retry while the first call still runs).    *)
(*                                                                          *)
(* The re-submission cap and the attempt number come from two separate      *)
(* queries, and the row is inserted later by a third: other requests run in *)
(* between. The unique index on (question, student, attempt) is the only    *)
(* thing that makes two of them collide.                                    *)
(***************************************************************************)
EXTENDS Naturals, FiniteSets

CONSTANTS
  Requests,          \* the student's requests: each runs one endpoint once
  QuestionCount,     \* APPROVED questions of the guide, by sequence 1..QuestionCount
  MaxResubmissions,  \* Guide.maxResubmissions
  Concurrency,       \* bound: requests in flight at once
  MaxVersion,        \* bound: versions of a question's answer key
  MaxRevived,        \* bound: rows that a late result brings back from FAILED
  None

ASSUME SubmissionsAssumption ==
  /\ QuestionCount \in Nat \ {0}
  /\ MaxResubmissions \in Nat
  /\ Concurrency \in Nat \ {0}
  /\ MaxVersion \in Nat \ {0}
  /\ MaxRevived \in Nat
  /\ None \notin Nat

VARIABLES
  keyVersion,    \* per question: version of its current answer key
  submission,    \* the guide_submissions rows
  request,       \* per request: its step and what it has read
  gradeMessages, \* every message ever handed to submission-grade-queue
  revived        \* history: the rows that a late result brought back from FAILED

vars == <<keyVersion, submission, request, gradeMessages, revived>>

-----------------------------------------------------------------------------

Questions == 1..QuestionCount

\* A request inserts at most one row per question, so its rows have these ids.
Ids == Requests \X Questions

\* ABSENT: the row does not exist. GRADING also stands for TRANSCRIBING and
\* GRADED: this code only asks whether a row is still UPLOADED and whether it
\* is FAILED.
SubmissionStatuses == {"ABSENT", "UPLOADED", "GRADING", "FAILED"}

SubmissionRow ==
  [status : SubmissionStatuses, attempt : Nat, version : 0..MaxVersion, scanned : BOOLEAN]

NoRow == [status |-> "ABSENT", attempt |-> 0, version |-> 0, scanned |-> FALSE]

GradeMessage == [id : Ids, version : 0..MaxVersion]

Steps == {"idle", "check", "version", "insert", "send",
          "completeVersion", "completeWrite", "completeSend", "done", "died"}

\* question: the question at hand (the loop index of a scan); last: the last one
\* of a scan; count and max: the two query results; version: the key read;
\* target: the row a complete works on.
RequestRecord ==
  [step : Steps, scan : BOOLEAN, question : Questions \union {0}, last : Questions \union {0},
   count : Nat \union {None}, max : Nat \union {None}, version : 0..MaxVersion,
   target : Ids \union {None}]

IdleRequest ==
  [step |-> "idle", scan |-> FALSE, question |-> 0, last |-> 0, count |-> None,
   max |-> None, version |-> 0, target |-> None]

InFlight == {r \in Requests : request[r].step \notin {"idle", "done", "died"}}

MayStart(r) == request[r].step = "idle" /\ Cardinality(InFlight) < Concurrency

At(r, step) == request[r].step = step

Goto(r, step) == request' = [request EXCEPT ![r].step = step]

\* A request that has answered keeps nothing.
DoneRequest == [IdleRequest EXCEPT !.step = "done"]

Finish(r) == request' = [request EXCEPT ![r] = DoneRequest]

Rows(q) == {id \in Ids : id[2] = q /\ submission[id].status # "ABSENT"}

Counted(q) == {id \in Rows(q) : submission[id].status # "FAILED"}

\* n is the highest attempt number on question q, 0 when there is none.
IsMaxAttempt(n, q) ==
  /\ n \in {submission[id].attempt : id \in Rows(q)} \union {0}
  /\ \A id \in Rows(q) : submission[id].attempt <= n

Init ==
  /\ keyVersion = [q \in Questions |-> 1]
  /\ submission = [id \in Ids |-> NoRow]
  /\ request = [r \in Requests |-> IdleRequest]
  /\ gradeMessages = {}
  /\ revived = {}

-----------------------------------------------------------------------------
(* createSubmission and the loop of processScanPage. A request refused before *)
(* its first query of the loop (guide not published, student not enrolled, no *)
(* photo, no exercise found) changes nothing and is no step.                  *)

CreateStarts(r, q) ==
  /\ MayStart(r)
  /\ request' = [request EXCEPT ![r] =
       [IdleRequest EXCEPT !.step = "check", !.question = q, !.last = q]]
  /\ UNCHANGED <<keyVersion, submission, gradeMessages, revived>>

\* OCR finds some number of exercises: they are paired with the questions in
\* sequence, the excess of either is ignored.
ScanStarts(r) ==
  /\ MayStart(r)
  /\ \E pairs \in Questions :
       request' = [request EXCEPT ![r] =
         [IdleRequest EXCEPT !.step = "check", !.scan = TRUE, !.question = 1, !.last = pairs]]
  /\ UNCHANGED <<keyVersion, submission, gradeMessages, revived>>

\* The two queries of Promise.all reach the database in either order.
ReadCount(r) ==
  /\ At(r, "check")
  /\ request[r].count = None
  /\ request' = [request EXCEPT ![r].count = Cardinality(Counted(request[r].question))]
  /\ UNCHANGED <<keyVersion, submission, gradeMessages, revived>>

ReadMax(r) ==
  /\ At(r, "check")
  /\ request[r].max = None
  /\ \E n \in {submission[id].attempt : id \in Rows(request[r].question)} \union {0} :
       /\ IsMaxAttempt(n, request[r].question)
       /\ request' = [request EXCEPT ![r].max = n]
  /\ UNCHANGED <<keyVersion, submission, gradeMessages, revived>>

\* The request is over, or a scan goes on to its next question.
Proceed(r) ==
  request' = [request EXCEPT ![r] =
    IF request[r].question < request[r].last
    THEN [request[r] EXCEPT !.step = "check", !.question = request[r].question + 1,
                            !.count = None, !.max = None, !.version = 0]
    ELSE DoneRequest]

\* Broken variant: the limit is compared with the original included.
OverCapOffByOne(r) == request[r].count > MaxResubmissions + 1

OverCap(r) == request[r].count > MaxResubmissions

Decide(r) ==
  /\ At(r, "check")
  /\ request[r].count # None /\ request[r].max # None
  /\ \/ OverCap(r) /\ Proceed(r)                          \* 400, or skipped
     \/ /\ ~OverCap(r)
        /\ request' = [request EXCEPT
             ![r].step = IF request[r].scan THEN "version" ELSE "insert",
             ![r].count = None]
  /\ UNCHANGED <<keyVersion, submission, gradeMessages, revived>>

ScanReadsVersion(r) ==
  /\ At(r, "version")
  /\ request' = [request EXCEPT ![r].version = keyVersion[request[r].question],
                                ![r].step = "insert"]
  /\ UNCHANGED <<keyVersion, submission, gradeMessages, revived>>

\* Broken variant: the table has no unique index.
AttemptTakenNever(r) == FALSE

AttemptTaken(r) ==
  \E id \in Rows(request[r].question) : submission[id].attempt = request[r].max + 1

\* The exception of a duplicate key ends the request; a scan keeps the rows and
\* messages of its earlier questions.
InsertFails(r) ==
  /\ At(r, "insert")
  /\ AttemptTaken(r)
  /\ Finish(r)
  /\ UNCHANGED <<keyVersion, submission, gradeMessages, revived>>

Insert(r) ==
  /\ At(r, "insert")
  /\ ~AttemptTaken(r)
  /\ submission' = [submission EXCEPT ![<<r, request[r].question>>] =
       [status |-> "UPLOADED", attempt |-> request[r].max + 1,
        version |-> request[r].version, scanned |-> request[r].scan]]
  /\ IF request[r].scan
     THEN request' = [request EXCEPT ![r].step = "send", ![r].max = None]
     ELSE Finish(r)
  /\ UNCHANGED <<keyVersion, gradeMessages, revived>>

\* Broken variant: a scan sends its messages after the loop, for the last
\* question's row alone when an earlier question was refused.
ScanSendsLast(r) ==
  /\ At(r, "send")
  /\ gradeMessages' = IF request[r].question < request[r].last
                      THEN gradeMessages
                      ELSE gradeMessages \union
                             {[id |-> id, version |-> submission[id].version] :
                                id \in {i \in Ids : /\ i[1] = r
                                                    /\ submission[i].status # "ABSENT"}}
  /\ Proceed(r)
  /\ UNCHANGED <<keyVersion, submission, revived>>

ScanSends(r) ==
  /\ At(r, "send")
  /\ gradeMessages' = gradeMessages \union
       {[id |-> <<r, request[r].question>>, version |-> request[r].version]}
  /\ Proceed(r)
  /\ UNCHANGED <<keyVersion, submission, revived>>

-----------------------------------------------------------------------------
(* complete. Any other status, or a photo missing, is refused: no step.      *)

CompleteStarts(r, id) ==
  /\ MayStart(r)
  /\ submission[id].status = "UPLOADED"
  /\ request' = [request EXCEPT ![r] =
       [IdleRequest EXCEPT !.step = "completeVersion", !.target = id]]
  /\ UNCHANGED <<keyVersion, submission, gradeMessages, revived>>

CompleteReadsVersion(r) ==
  /\ At(r, "completeVersion")
  /\ request' = [request EXCEPT ![r].version = keyVersion[request[r].target[2]],
                                ![r].step = "completeWrite"]
  /\ UNCHANGED <<keyVersion, submission, gradeMessages, revived>>

\* Broken variant: the version in force is looked up again for the row.
CompleteWritesFresh(r) ==
  /\ At(r, "completeWrite")
  /\ submission' = [submission EXCEPT
       ![request[r].target].version = keyVersion[request[r].target[2]]]
  /\ Goto(r, "completeSend")
  /\ UNCHANGED <<keyVersion, gradeMessages, revived>>

\* Whatever has become of the row meanwhile; its status stays as it is.
CompleteWrites(r) ==
  /\ At(r, "completeWrite")
  /\ submission' = [submission EXCEPT ![request[r].target].version = request[r].version]
  /\ Goto(r, "completeSend")
  /\ UNCHANGED <<keyVersion, gradeMessages, revived>>

CompleteSends(r) ==
  /\ At(r, "completeSend")
  /\ gradeMessages' = gradeMessages \union
       {[id |-> request[r].target, version |-> request[r].version]}
  /\ Finish(r)
  /\ UNCHANGED <<keyVersion, submission, revived>>

\* A query throws or the Lambda dies. What is written stays; a request that dies
\* between its row and its message leaves the row without it (publishStandard
\* itself never throws).
RequestFails(r) ==
  /\ r \in InFlight
  /\ IF request[r].step \in {"send", "completeSend"}
     THEN request' = [request EXCEPT ![r] =
            [DoneRequest EXCEPT !.step = "died", !.question = request[r].question,
                                !.target = request[r].target]]
     ELSE Finish(r)
  /\ UNCHANGED <<keyVersion, submission, gradeMessages, revived>>

-----------------------------------------------------------------------------
(* The teacher, and the grader of innova-ai-engine (external)              *)

NewKeyVersion(q) ==
  /\ keyVersion[q] < MaxVersion
  /\ keyVersion' = [keyVersion EXCEPT ![q] = @ + 1]
  /\ UNCHANGED <<submission, request, gradeMessages, revived>>

\* A message may be delivered any number of times, or never (publishStandard
\* swallows the error when SQS refuses it). Its result moves any row that is not
\* graded, a FAILED one included: FAILED is final for neither grader nor worker. A
\* result for a row in GRADING changes nothing that this module tells apart.
GraderTakes(m) ==
  /\ \/ submission[m.id].status = "UPLOADED" /\ UNCHANGED revived
     \/ /\ submission[m.id].status = "FAILED"
        /\ revived' = revived \union {m.id}
        /\ Cardinality(revived') <= MaxRevived
  /\ submission' = [submission EXCEPT ![m.id].status = "GRADING"]
  /\ UNCHANGED <<keyVersion, request, gradeMessages>>

GraderFails(id) ==
  /\ submission[id].status = "GRADING"
  /\ submission' = [submission EXCEPT ![id].status = "FAILED"]
  /\ UNCHANGED <<keyVersion, request, gradeMessages, revived>>

-----------------------------------------------------------------------------

Create(r) ==
  \/ ReadCount(r) \/ ReadMax(r) \/ Decide(r) \/ ScanReadsVersion(r)
  \/ InsertFails(r) \/ Insert(r) \/ ScanSends(r)

Complete(r) == CompleteReadsVersion(r) \/ CompleteWrites(r) \/ CompleteSends(r)

Next ==
  \/ \E r \in Requests, q \in Questions : CreateStarts(r, q)
  \/ \E r \in Requests : ScanStarts(r)
  \/ \E r \in Requests, id \in Ids : CompleteStarts(r, id)
  \/ \E r \in Requests : Create(r) \/ Complete(r) \/ RequestFails(r)
  \/ \E q \in Questions : NewKeyVersion(q)
  \/ \E m \in gradeMessages : GraderTakes(m)
  \/ \E id \in Ids : GraderFails(id)

Spec == Init /\ [][Next]_vars

-----------------------------------------------------------------------------
(* Properties *)

\* Rows, messages and what requests hold have their types.
TypeOK ==
  /\ keyVersion \in [Questions -> 0..MaxVersion]
  /\ submission \in [Ids -> SubmissionRow]
  /\ request \in [Requests -> RequestRecord]
  /\ gradeMessages \subseteq GradeMessage
  /\ revived \subseteq Ids

\* The attempts at a question are numbered 1, 2, ... n: no number is used twice
\* and none is skipped, although each number was computed from an aggregate that
\* may be out of date when the row is inserted.
AttemptsNumbered ==
  \A q \in Questions :
    /\ \A id1, id2 \in Rows(q) :
         submission[id1].attempt = submission[id2].attempt => id1 = id2
    /\ \A id \in Rows(q) : \A k \in 1..submission[id].attempt :
         \E other \in Rows(q) : submission[other].attempt = k

\* The cap on re-submissions: one original and MaxResubmissions retries, FAILED
\* ones not counted. It takes requests that follow one another, and no result
\* that arrives for a FAILED row.
CapRespected ==
  \A q \in Questions : Cardinality(Counted(q)) <= MaxResubmissions + 1

\* The rows that have counted since they were inserted.
Standing(q) == Counted(q) \ revived

\* The most that overlap and late results can do to the cap: each request in
\* flight besides the first lets through one more row, and so does each row that
\* a result brought back from FAILED after the student had replaced it.
CapOvershoot ==
  \A q \in Questions :
    Cardinality(Standing(q)) <= MaxResubmissions + Concurrency

\* Each row that a page scan inserted has its grading message, even when the
\* scan is refused or fails on a later question: only a Lambda that dies between
\* the row and its message leaves a row of a scan unsent.
ScanRowsQueued ==
  \A id \in Ids : submission[id].scanned =>
    \/ \E m \in gradeMessages : m.id = id
    \/ request[id[1]].step \in {"send", "died"} /\ request[id[1]].question = id[2]

\* The key version recorded on a row is one the grader was asked to use, unless
\* a complete is about to ask for it or died there: a grade can be traced to a
\* key that was really sent, however often the row is completed.
RecordedVersionRequested ==
  \A m \in gradeMessages :
    \/ [id |-> m.id, version |-> submission[m.id].version] \in gradeMessages
    \/ \E r \in Requests :
         request[r].target = m.id /\ request[r].step \in {"completeSend", "died"}

=============================================================================
