----------------------------- MODULE GuideResults -----------------------------
(***************************************************************************)
(* The results of a published guide while it is in use: what a student is  *)
(* shown (guide-submissions.service getResults), the matrix of the teacher *)
(* and the tags a teacher corrects by hand (guides.service                 *)
(* getResultsMatrix, overrideSubmissionErrorTag, updateGuide).             *)
(*                                                                         *)
(* The student, the teacher, the grading Lambdas and the classifier write  *)
(* different columns of the same rows, each at its own time, and the reads *)
(* are several queries.  How rows come to be is the subject of             *)
(* GuideSubmissions, and what a grader does besides the row that of        *)
(* SubmissionGrading: here a submission and a delivery are only as many    *)
(* steps as touch the row.  A read changes no row and no other read sees   *)
(* it, so a behaviour here has reads of the students or one matrix.        *)
(***************************************************************************)
EXTENDS Naturals, FiniteSets, FiniteSetsExt

CONSTANTS
    Students, GuideQuestions,
    MaxSubmissions,  \* bound: submissions per student and question
    Graders,         \* deliveries of grading results
    ErrorTags, NoTag,
    MaxOverrides     \* bound: requests to override a tag

\* A guide has so many questions, its classroom so many students.
ASSUME ResultsAssumption == IsFiniteSet(GuideQuestions) /\ IsFiniteSet(Students)

VARIABLES
    guide,        \* [shows: showSolutionAfterGrade, approved: the APPROVED questions]
    submissions,  \* guide_submissions by <<student, question, attempt number>>
    grader,       \* per delivery: its step, its row, its verdict
    override,     \* the teacher's request: its step, its row, its tag, the row read
    overrides,
    results,      \* per student: getResults in flight
    shown,        \* <<student, question>> whose solution has been shown
    matrix,       \* getResultsMatrix: its queries, then its answer
    decided       \* per row: the tag of the override that was answered last

resultsVars == <<guide, submissions, grader, override, overrides, results, shown, matrix, decided>>

Ids == Students \X GuideQuestions \X (1..MaxSubmissions)

\* tag: that of the attempt the row points to.
Absent == [status |-> "ABSENT", isCorrect |-> "null", attempt |-> FALSE, gradedAt |-> FALSE,
           tag |-> NoTag, override |-> NoTag]

NoDelivery == [at |-> "idle", id |-> NoTag, isCorrect |-> "null"]
NoOverride == [at |-> "idle", id |-> NoTag, tag |-> NoTag, read |-> Absent]

\* pending: the queries that have not returned; questions, cells: what they return.
\* graded, kept: the rows graded when the request began, the overrides then in force.
NoMatrix == [at |-> "idle", pending |-> {"questions", "cells"}, questions |-> {}, cells |-> {},
             graded |-> {}, kept |-> {}]

ResultsInit ==
    /\ guide = [shows |-> FALSE, approved |-> GuideQuestions]
    /\ submissions = [id \in Ids |-> Absent]
    /\ grader = [g \in Graders |-> NoDelivery]
    /\ override = NoOverride /\ overrides = 0
    /\ results = [s \in Students |-> "idle"]
    /\ shown = {}
    /\ matrix = NoMatrix
    /\ decided = [id \in Ids |-> NoTag]

Existing == {id \in Ids : submissions[id].status # "ABSENT"}

Later(id, other) == other[1] = id[1] /\ other[2] = id[2] /\ other[3] > id[3]

------------------------------------------------------------------------------
(* Submissions and their grades. *)

Submit(id) ==
    /\ id[2] \in guide.approved
    /\ submissions[id].status = "ABSENT"
    /\ \A n \in 1..(id[3] - 1) : submissions[<<id[1], id[2], n>>].status # "ABSENT"
    /\ submissions' = [submissions EXCEPT ![id].status = "UPLOADED"]
    /\ UNCHANGED <<guide, grader, override, overrides, results, shown, matrix, decided>>

\* A row that is GRADED with its attempt is skipped.
TakeResult(g, id, isCorrect) ==
    /\ grader[g].at = "idle"
    /\ id \in Existing
    /\ ~(submissions[id].status = "GRADED" /\ submissions[id].attempt)
    /\ grader' = [grader EXCEPT ![g] = [at |-> "grading", id |-> id, isCorrect |-> isCorrect]]
    /\ UNCHANGED <<guide, submissions, override, overrides, results, shown, matrix, decided>>

\* The verdict is on the row before the grade is.
WriteVerdict(g) ==
    LET id == grader[g].id
    IN  /\ grader[g].at = "grading"
        /\ submissions' = [submissions EXCEPT ![id].status = "GRADING",
                                              ![id].isCorrect = grader[g].isCorrect]
        /\ grader' = [grader EXCEPT ![g].at = "closing"]
        /\ UNCHANGED <<guide, override, overrides, results, shown, matrix, decided>>

\* The row points to the new attempt; a wrong one has yet to be classified.
CloseRow(g) ==
    LET id == grader[g].id
    IN  /\ grader[g].at = "closing"
        /\ submissions' = [submissions EXCEPT
             ![id].status = "GRADED", ![id].attempt = TRUE, ![id].gradedAt = TRUE,
             ![id].tag = IF grader[g].isCorrect = "true" THEN "CORRECT" ELSE NoTag]
        /\ grader' = [grader EXCEPT ![g].at = "done"]
        /\ UNCHANGED <<guide, override, overrides, results, shown, matrix, decided>>

GraderDies(g) ==
    /\ grader[g].at \in {"grading", "closing"}
    /\ grader' = [grader EXCEPT ![g].at = "done"]
    /\ UNCHANGED <<guide, submissions, override, overrides, results, shown, matrix, decided>>

\* The classifier, later, if its request was not lost.
ClassifyAttempt(id, tag) ==
    /\ submissions[id].attempt /\ submissions[id].tag = NoTag
    /\ submissions' = [submissions EXCEPT ![id].tag = tag]
    /\ UNCHANGED <<guide, grader, override, overrides, results, shown, matrix, decided>>

------------------------------------------------------------------------------
(* The teacher. *)

UpdateGuide(shows) ==
    /\ guide.shows # shows
    /\ guide' = [guide EXCEPT !.shows = shows]
    /\ UNCHANGED <<submissions, grader, override, overrides, results, shown, matrix, decided>>

\* A question is approved, or taken out, at any time.
ReviewQuestion(q) ==
    /\ guide' = [guide EXCEPT !.approved = IF q \in @ THEN @ \ {q} ELSE @ \cup {q}]
    /\ UNCHANGED <<submissions, grader, override, overrides, results, shown, matrix, decided>>

\* tag = NoTag takes an override back.
ReadForOverride(id, tag) ==
    /\ override.at = "idle"
    /\ overrides < MaxOverrides
    /\ id \in Existing
    /\ override' = [at |-> "writing", id |-> id, tag |-> tag, read |-> submissions[id]]
    /\ overrides' = overrides + 1
    /\ UNCHANGED <<guide, submissions, grader, results, shown, matrix, decided>>

\* Broken variant: the row is written as it was read.
OverriddenAsRead(row, o) == [o.read EXCEPT !.override = o.tag]

\* The update names the columns of the override and no others.
Overridden(row, o) == [row EXCEPT !.override = o.tag]

WriteOverride ==
    LET id == override.id
    IN  /\ override.at = "writing"
        /\ submissions' = [submissions EXCEPT ![id] = Overridden(@, override)]
        /\ decided' = [decided EXCEPT ![id] = override.tag]
        /\ matrix' = [matrix EXCEPT !.kept = {k \in @ : k[1] # id}]
        /\ override' = NoOverride
        /\ UNCHANGED <<guide, grader, overrides, results, shown>>

OverrideFails ==
    /\ override.at = "writing"
    /\ override' = NoOverride
    /\ UNCHANGED <<guide, submissions, grader, overrides, results, shown, matrix, decided>>

StudentsRead == shown # {} \/ \E s \in Students : results[s] # "idle"

\* getResultsMatrix starts its queries together; they run in any order.
StartMatrix ==
    /\ matrix.at = "idle" /\ ~StudentsRead
    /\ matrix' = [NoMatrix EXCEPT !.at = "reading",
                    !.graded = {id \in Ids : submissions[id].gradedAt},
                    !.kept = {<<id, decided[id]>> : id \in {i \in Ids : decided[i] # NoTag}}]
    /\ UNCHANGED <<guide, submissions, grader, override, overrides, results, shown, decided>>

ReadQuestions ==
    /\ matrix.at = "reading" /\ "questions" \in matrix.pending
    /\ matrix' = [matrix EXCEPT !.pending = @ \ {"questions"}, !.questions = guide.approved]
    /\ UNCHANGED <<guide, submissions, grader, override, overrides, results, shown, decided>>

\* Broken variant: every attempt has a cell.
EveryAttempt == Existing

\* The latest attempt of each student and question.
Latest == {id \in Existing : \A other \in Existing : ~Later(id, other)}

\* The override, else the tag of the attempt.
EffectiveTag(row) == IF row.override # NoTag THEN row.override ELSE row.tag

Cell(id) == [id |-> id, status |-> submissions[id].status, isCorrect |-> submissions[id].isCorrect,
             tag |-> EffectiveTag(submissions[id])]

ReadCells ==
    /\ matrix.at = "reading" /\ "cells" \in matrix.pending
    /\ matrix' = [matrix EXCEPT !.pending = @ \ {"cells"}, !.cells = {Cell(id) : id \in Latest}]
    /\ UNCHANGED <<guide, submissions, grader, override, overrides, results, shown, decided>>

BuildMatrix ==
    /\ matrix.at = "reading" /\ matrix.pending = {}
    /\ matrix' = [matrix EXCEPT !.at = "done"]
    /\ UNCHANGED <<guide, submissions, grader, override, overrides, results, shown, decided>>

\* How often each tag occurs in the cells of a question that are not right.
CommonErrors(q) ==
    [tag \in {c.tag : c \in matrix.cells} \ {NoTag} |->
       Cardinality({c \in matrix.cells : c.id[2] = q /\ c.isCorrect # "true" /\ c.tag = tag})]

------------------------------------------------------------------------------
(* The student. *)

\* getResults reads the guide first ...
StartResults(s) ==
    /\ results[s] = "idle" /\ matrix.at = "idle"
    /\ results' = [results EXCEPT ![s] = IF guide.shows THEN "shows" ELSE "hides"]
    /\ UNCHANGED <<guide, submissions, grader, override, overrides, shown, matrix, decided>>

\* Broken variant: a row with a verdict is taken for a graded one.
ShownOnVerdict(s) ==
    {id[2] : id \in {i \in Latest : i[1] = s /\ submissions[i].isCorrect # "null"}}

\* ... then, with the approved questions, the latest submission and the current
\* solution of each; the solution goes with a GRADED one.
ShownOnGrade(s) ==
    {id[2] : id \in {i \in Latest : i[1] = s /\ submissions[i].status = "GRADED"}}

FinishResults(s) ==
    /\ results[s] # "idle"
    /\ shown' = IF results[s] = "shows"
                  THEN shown \cup ({s} \X (ShownOnGrade(s) \cap guide.approved))
                  ELSE shown
    /\ results' = [results EXCEPT ![s] = "idle"]
    /\ UNCHANGED <<guide, submissions, grader, override, overrides, matrix, decided>>

------------------------------------------------------------------------------
(* What each screen makes of the rows; every one is a query with a filter of its own. *)

\* Polled by the student (getStatus): the tag is that of the attempt.
StatusView(id) == [status |-> submissions[id].status, isCorrect |-> submissions[id].isCorrect,
                   tag |-> submissions[id].tag, graded |-> submissions[id].gradedAt]

\* The drawer of a cell (getSubmissionDetail): the tag in force, and whether it is the teacher's.
SubmissionDetail(id) == [tag |-> EffectiveTag(submissions[id]),
                         isOverridden |-> submissions[id].override # NoTag]

\* The student's quiz (getQuiz): every submission of the approved questions.
Quiz(s) == [q \in guide.approved |-> [id \in {i \in Existing : i[1] = s /\ i[2] = q} |-> StatusView(id)]]

\* Broken variant: the newest submission of a question speaks for it.
GradedLately(s) == {id[2] : id \in {i \in Latest : i[1] = s /\ submissions[i].status = "GRADED"}}

GradedQuestions(s) ==
    {id[2] : id \in {i \in Existing : i[1] = s /\ submissions[i].status = "GRADED"}}

\* The student's list (listGuides) counts graded questions whatever became of them ...
ListedGuide(s) == [graded |-> Cardinality(GradedQuestions(s)), total |-> Cardinality(guide.approved)]

\* ... the parent's summary those among the approved ones (getChildSummary).
ChildsGuide(s) == [graded |-> Cardinality(GradedQuestions(s) \cap guide.approved),
                   total |-> Cardinality(guide.approved)]

------------------------------------------------------------------------------

ResultsNext ==
    \/ \E id \in Ids :
         \/ Submit(id)
         \/ \E g \in Graders, verdict \in {"true", "false"} : TakeResult(g, id, verdict)
         \/ \E tag \in ErrorTags : ClassifyAttempt(id, tag)
         \/ \E tag \in ErrorTags \cup {NoTag} : ReadForOverride(id, tag)
    \/ \E g \in Graders : WriteVerdict(g) \/ CloseRow(g) \/ GraderDies(g)
    \/ \E shows \in BOOLEAN : UpdateGuide(shows)
    \/ \E q \in GuideQuestions : ReviewQuestion(q)
    \/ WriteOverride \/ OverrideFails
    \/ StartMatrix \/ ReadQuestions \/ ReadCells \/ BuildMatrix
    \/ \E s \in Students : StartResults(s) \/ FinishResults(s)

------------------------------------------------------------------------------
(* Properties. *)

\* The solution of a question is never shown to a student none of whose submissions
\* for it has been graded, whichever of the queries a grader comes between.
SolutionAfterGrade ==
    \A x \in shown : \E n \in 1..MaxSubmissions : submissions[<<x[1], x[2], n>>].gradedAt

\* The matrix shows what had been decided when it was asked for: a row graded by then
\* has its verdict, an override answered by then (and not changed since) its tag,
\* however graders, the classifier and the teacher overlap.  The drawer of a submission
\* shows at any time the override that was answered last, if it stands.
MatrixShowsDecisions ==
  /\ \A id \in Ids :
       LET detail == SubmissionDetail(id)
       IN  /\ detail.isOverridden <=> decided[id] # NoTag
           /\ detail.isOverridden => detail.tag = decided[id]
  /\ matrix.at = "done" =>
       \A c \in matrix.cells :
         /\ c.id \in matrix.graded => c.status \in {"GRADED", "GRADING"} /\ c.isCorrect # "null"
         /\ \A k \in matrix.kept : k[1] = c.id => c.tag = k[2]

\* The common errors of a question count a student once at most, however often the
\* student tried and whatever was classified or overridden between the queries.
StudentsCountOnce ==
  matrix.at = "done" =>
    \A q \in matrix.questions :
      MapThenSumSet(LAMBDA tag : CommonErrors(q)[tag], DOMAIN CommonErrors(q))
        <= Cardinality(Students)

\* Two deliveries of one row, the first of which has closed it while the second is grading.
RegradesClosedRow(g) ==
    /\ grader[g].at = "grading"
    /\ \E h \in Graders \ {g} : grader[h].id = grader[g].id /\ grader[h].at = "done"

\* The progress that the student's list and the parent's summary show never goes back
\* because of a retry, a correction or a classification: it does when the teacher takes
\* a question out, and when an overlapping delivery reopens a graded row.  The parent
\* is never told of more graded questions than there are, and never of one that the
\* student's own quiz does not list as graded.
ProgressSurvivesRetries ==
    [][ \A s \in Students :
          /\ ListedGuide(s)'.graded < ListedGuide(s).graded => \E g \in Graders : RegradesClosedRow(g)
          /\ ChildsGuide(s)'.graded < ChildsGuide(s).graded =>
               guide'.approved # guide.approved \/ \E g \in Graders : RegradesClosedRow(g)
          /\ ChildsGuide(s).graded =
               Cardinality({q \in guide.approved :
                              \E id \in DOMAIN Quiz(s)[q] : Quiz(s)[q][id].status = "GRADED"})
      ]_resultsVars
===============================================================================
