---------------------------- MODULE PlatformProofs ----------------------------
(***************************************************************************)
(* Proofs about the services of Platform, for all values of their          *)
(* constants: what students, parents and teachers are shown of the         *)
(* results of a guide, that an import undoes no decision about the         *)
(* catalogue and a listing of it is complete, that what is recommended has *)
(* its prerequisites mastered, that pKnown stays a probability and moves   *)
(* with the answers, with all that is shown of it, and that the services   *)
(* keep to themselves, so that what is proved of one (of sessions in       *)
(* SessionsProofs) holds in the deployment.                                *)
(***************************************************************************)
EXTENDS Platform, SessionsProofs, WellFoundedInduction

\* A set of numbers that is not empty has a least one. (The proofs about folds and
\* recursive functions take a least counterexample.)
LEMMA LeastNumber ==
    ASSUME NEW T, T \subseteq Nat, T # {}
    PROVE  \E n \in T : \A m \in T : n <= m
<1>1. PICK n \in T : \A m \in T : ~(<<m, n>> \in OpToRel(<, Nat))
  BY WFMin, NatLessThanWellFounded
<1>2. ASSUME NEW m \in T, ~(n <= m) PROVE FALSE
  <2>1. m \in Nat /\ n \in Nat /\ m < n
    BY <1>2
  <2>2. <<m, n>> \in OpToRel(<, Nat)
    BY <2>1, Zenon DEF OpToRel
  <2> QED BY <1>1, <2>2
<1> QED BY <1>2

ResultsSpec == ResultsInit /\ [][ResultsNext]_resultsVars

-----------------------------------------------------------------------------
(* Results: types *)

Row == [status : {"ABSENT", "UPLOADED", "GRADING", "GRADED"}, isCorrect : {"null", "true", "false"},
        attempt : BOOLEAN, gradedAt : BOOLEAN,
        tag : ErrorTags \cup {NoTag, "CORRECT"}, override : ErrorTags \cup {NoTag}]

Delivery == [at : {"idle", "grading", "closing", "done"}, id : Ids \cup {NoTag},
             isCorrect : {"null", "true", "false"}]

OverrideRequest == [at : {"idle", "writing"}, id : Ids \cup {NoTag},
                    tag : ErrorTags \cup {NoTag}, read : Row]

CellRow == [id : Ids, status : {"ABSENT", "UPLOADED", "GRADING", "GRADED"},
            isCorrect : {"null", "true", "false"}, tag : ErrorTags \cup {NoTag, "CORRECT"}]

MatrixRow == [at : {"idle", "reading", "done"}, pending : SUBSET {"questions", "cells"},
              questions : SUBSET GuideQuestions, cells : SUBSET CellRow, graded : SUBSET Ids,
              kept : SUBSET (Ids \X ErrorTags)]

\* A delivery or an override that has taken its row names one, with a verdict.
ResultsTypes ==
  /\ guide \in [shows : BOOLEAN, approved : SUBSET GuideQuestions]
  /\ submissions \in [Ids -> Row]
  /\ grader \in [Graders -> Delivery]
  /\ \A g \in Graders : grader[g].at # "idle" =>
       grader[g].id \in Ids /\ grader[g].isCorrect \in {"true", "false"}
  /\ override \in OverrideRequest
  /\ override.at = "writing" => override.id \in Ids
  /\ results \in [Students -> {"idle", "shows", "hides"}]
  /\ shown \subseteq Students \X GuideQuestions
  /\ matrix \in MatrixRow
  /\ decided \in [Ids -> ErrorTags \cup {NoTag}]

\* What the steps that touch a row do to it, and to nothing else.
RowBecomes(id, row) ==
  /\ row \in Row
  /\ submissions' \in [Ids -> Row] /\ submissions'[id] = row
  /\ \A other \in Ids : other # id => submissions'[other] = submissions[other]

\* A submission makes the row.
LEMMA SubmitChange ==
  ASSUME ResultsTypes, NEW id \in Ids, Submit(id)
  PROVE  \E row :
         /\ RowBecomes(id, row)
         /\ submissions[id].status = "ABSENT" /\ row.status = "UPLOADED"
         /\ row.isCorrect = submissions[id].isCorrect /\ row.attempt = submissions[id].attempt
         /\ row.gradedAt = submissions[id].gradedAt /\ row.override = submissions[id].override
         /\ UNCHANGED <<guide, grader, override, results, shown, matrix, decided>>
<1>1. submissions \in [Ids -> Row]
  BY DEF ResultsTypes
<1>2. PICK row : row = [submissions[id] EXCEPT !.status = "UPLOADED"]
  OBVIOUS
<1>3. /\ row \in Row /\ row.status = "UPLOADED"
      /\ row.isCorrect = submissions[id].isCorrect /\ row.attempt = submissions[id].attempt
      /\ row.gradedAt = submissions[id].gradedAt /\ row.override = submissions[id].override
  BY <1>1, <1>2 DEF Row
<1>4. submissions' = [submissions EXCEPT ![id] = row]
  BY <1>2 DEF Submit
<1>5. RowBecomes(id, row)
  BY <1>1, <1>3, <1>4 DEF RowBecomes
<1> QED
  BY <1>3, <1>5 DEF Submit

\* The verdict takes the grade off the row, which keeps what else it has.
LEMMA VerdictChange ==
  ASSUME ResultsTypes, NEW g \in Graders, WriteVerdict(g)
  PROVE  \E id \in Ids, verdict \in {"true", "false"} : \E row :
         /\ grader[g].at = "grading" /\ grader[g].id = id
         /\ RowBecomes(id, row)
         /\ row.status = "GRADING" /\ row.isCorrect = verdict
         /\ row.attempt = submissions[id].attempt
         /\ row.gradedAt = submissions[id].gradedAt /\ row.override = submissions[id].override
         /\ grader' \in [Graders -> Delivery]
         /\ grader'[g].at = "closing" /\ grader'[g].id = id /\ grader'[g].isCorrect = verdict
         /\ \A h \in Graders : h # g => grader'[h] = grader[h]
         /\ UNCHANGED <<guide, override, results, shown, matrix, decided>>
<1>1. submissions \in [Ids -> Row] /\ grader \in [Graders -> Delivery]
  BY DEF ResultsTypes
<1>2. PICK id \in Ids, verdict \in {"true", "false"} :
        /\ grader[g].at = "grading" /\ grader[g].id = id /\ grader[g].isCorrect = verdict
  BY DEF WriteVerdict, ResultsTypes
<1>3. PICK row : row = [submissions[id] EXCEPT !.status = "GRADING", !.isCorrect = verdict]
  OBVIOUS
<1>4. /\ row \in Row /\ row.status = "GRADING" /\ row.isCorrect = verdict
      /\ row.attempt = submissions[id].attempt
      /\ row.gradedAt = submissions[id].gradedAt /\ row.override = submissions[id].override
  BY <1>1, <1>3 DEF Row
<1>5. submissions' = [submissions EXCEPT ![id].status = "GRADING", ![id].isCorrect = verdict]
  BY <1>2 DEF WriteVerdict
<1>6. RowBecomes(id, row)
  BY <1>1, <1>3, <1>4, <1>5 DEF RowBecomes
<1>7. grader' = [grader EXCEPT ![g].at = "closing"]
  BY DEF WriteVerdict
<1>8. /\ grader' \in [Graders -> Delivery]
      /\ grader'[g].at = "closing" /\ grader'[g].id = id /\ grader'[g].isCorrect = verdict
      /\ \A h \in Graders : h # g => grader'[h] = grader[h]
  BY <1>1, <1>2, <1>7 DEF Delivery
<1> QED
  BY <1>2, <1>4, <1>6, <1>8 DEF WriteVerdict

\* Closing grades the row.
LEMMA CloseChange ==
  ASSUME ResultsTypes, NEW g \in Graders, CloseRow(g)
  PROVE  \E id \in Ids : \E row :
         /\ grader[g].at = "closing" /\ grader[g].id = id
         /\ RowBecomes(id, row)
         /\ row.status = "GRADED" /\ row.attempt = TRUE /\ row.gradedAt = TRUE
         /\ row.isCorrect = submissions[id].isCorrect
         /\ row.override = submissions[id].override
         /\ grader' \in [Graders -> Delivery]
         /\ grader'[g].at = "done" /\ grader'[g].id = id
         /\ grader'[g].isCorrect = grader[g].isCorrect
         /\ \A h \in Graders : h # g => grader'[h] = grader[h]
         /\ UNCHANGED <<guide, override, results, shown, matrix, decided>>
<1>1. submissions \in [Ids -> Row] /\ grader \in [Graders -> Delivery]
  BY DEF ResultsTypes
<1>2. PICK id \in Ids : grader[g].at = "closing" /\ grader[g].id = id
  BY DEF CloseRow, ResultsTypes
<1>3. PICK tag : tag = IF grader[g].isCorrect = "true" THEN "CORRECT" ELSE NoTag
  OBVIOUS
<1>4. PICK row : row = [submissions[id] EXCEPT !.status = "GRADED", !.attempt = TRUE,
                                               !.gradedAt = TRUE, !.tag = tag]
  OBVIOUS
<1>5. /\ row \in Row /\ row.status = "GRADED" /\ row.attempt = TRUE /\ row.gradedAt = TRUE
      /\ row.isCorrect = submissions[id].isCorrect
      /\ row.override = submissions[id].override
  BY <1>1, <1>3, <1>4 DEF Row
<1>6. submissions' = [submissions EXCEPT ![id].status = "GRADED", ![id].attempt = TRUE,
                                         ![id].gradedAt = TRUE, ![id].tag = tag]
  BY <1>2, <1>3 DEF CloseRow
<1>7. RowBecomes(id, row)
  BY <1>1, <1>4, <1>5, <1>6 DEF RowBecomes
<1>8. grader' = [grader EXCEPT ![g].at = "done"]
  BY DEF CloseRow
<1>9. /\ grader' \in [Graders -> Delivery]
      /\ grader'[g].at = "done" /\ grader'[g].id = id
      /\ grader'[g].isCorrect = grader[g].isCorrect
      /\ \A h \in Graders : h # g => grader'[h] = grader[h]
  BY <1>1, <1>2, <1>8 DEF Delivery
<1> QED
  BY <1>2, <1>5, <1>7, <1>9 DEF CloseRow

\* The classifier names the error of an attempt.
LEMMA ClassifyChange ==
  ASSUME ResultsTypes, NEW id \in Ids, NEW tag \in ErrorTags, ClassifyAttempt(id, tag)
  PROVE  \E row :
         /\ RowBecomes(id, row)
         /\ row.status = submissions[id].status
         /\ row.isCorrect = submissions[id].isCorrect /\ row.attempt = submissions[id].attempt
         /\ row.gradedAt = submissions[id].gradedAt /\ row.override = submissions[id].override
         /\ UNCHANGED <<guide, grader, override, results, shown, matrix, decided>>
<1>1. submissions \in [Ids -> Row]
  BY DEF ResultsTypes
<1>2. PICK row : row = [submissions[id] EXCEPT !.tag = tag]
  OBVIOUS
<1>3. /\ row \in Row /\ row.status = submissions[id].status
      /\ row.isCorrect = submissions[id].isCorrect /\ row.attempt = submissions[id].attempt
      /\ row.gradedAt = submissions[id].gradedAt /\ row.override = submissions[id].override
  BY <1>1, <1>2 DEF Row
<1>4. submissions' = [submissions EXCEPT ![id] = row]
  BY <1>2 DEF ClassifyAttempt
<1>5. RowBecomes(id, row)
  BY <1>1, <1>3, <1>4 DEF RowBecomes
<1> QED
  BY <1>3, <1>5 DEF ClassifyAttempt

\* The override is written, remembered as the one in force, and no longer awaited as it was.
LEMMA OverrideChange ==
  ASSUME ResultsTypes, WriteOverride
  PROVE  \E id \in Ids, tag \in ErrorTags \cup {NoTag} : \E row :
         /\ RowBecomes(id, row)
         /\ row.status = submissions[id].status
         /\ row.isCorrect = submissions[id].isCorrect /\ row.attempt = submissions[id].attempt
         /\ row.gradedAt = submissions[id].gradedAt /\ row.override = tag
         /\ decided' \in [Ids -> ErrorTags \cup {NoTag}] /\ decided'[id] = tag
         /\ \A other \in Ids : other # id => decided'[other] = decided[other]
         /\ matrix' \in MatrixRow
         /\ matrix'.at = matrix.at /\ matrix'.pending = matrix.pending
         /\ matrix'.cells = matrix.cells /\ matrix'.graded = matrix.graded
         /\ matrix'.kept = {k \in matrix.kept : k[1] # id}
         /\ override' = NoOverride
         /\ UNCHANGED <<guide, grader, results, shown>>
<1>1. /\ submissions \in [Ids -> Row] /\ override \in OverrideRequest /\ matrix \in MatrixRow
      /\ decided \in [Ids -> ErrorTags \cup {NoTag}]
  BY DEF ResultsTypes
<1>2. PICK id \in Ids, tag \in ErrorTags \cup {NoTag} : override.id = id /\ override.tag = tag
  BY <1>1 DEF WriteOverride, ResultsTypes, OverrideRequest
<1>3. PICK row : row = [submissions[id] EXCEPT !.override = tag]
  OBVIOUS
<1>4. /\ row \in Row /\ row.status = submissions[id].status
      /\ row.isCorrect = submissions[id].isCorrect /\ row.attempt = submissions[id].attempt
      /\ row.gradedAt = submissions[id].gradedAt /\ row.override = tag
  BY <1>1, <1>3 DEF Row
<1>5. submissions' = [submissions EXCEPT ![id] = row]
  BY <1>2, <1>3 DEF WriteOverride, Overridden
<1>6. RowBecomes(id, row)
  BY <1>1, <1>4, <1>5 DEF RowBecomes
<1>7. decided' = [decided EXCEPT ![id] = tag]
  BY <1>2 DEF WriteOverride
<1>8. PICK kept : kept = {k \in matrix.kept : k[1] # id}
  OBVIOUS
<1>9. matrix' = [matrix EXCEPT !.kept = kept]
  BY <1>2, <1>8 DEF WriteOverride
<1>10. /\ matrix' \in MatrixRow
       /\ matrix'.at = matrix.at /\ matrix'.pending = matrix.pending
       /\ matrix'.cells = matrix.cells /\ matrix'.graded = matrix.graded
       /\ matrix'.kept = kept
  BY <1>1, <1>8, <1>9 DEF MatrixRow
<1>11. /\ decided' \in [Ids -> ErrorTags \cup {NoTag}] /\ decided'[id] = tag
       /\ \A other \in Ids : other # id => decided'[other] = decided[other]
  BY <1>1, <1>7
<1>12. override' = NoOverride /\ UNCHANGED <<guide, grader, results, shown>>
  BY DEF WriteOverride
<1> QED
  BY <1>4, <1>6, <1>8, <1>10, <1>11, <1>12

\* A delivery takes a row, or dies with it; the rows stay.
LEMMA DeliveryChange ==
  ASSUME ResultsTypes, NEW g \in Graders,
         GraderDies(g) \/ \E id \in Ids, v \in {"true", "false"} : TakeResult(g, id, v)
  PROVE  /\ grader' \in [Graders -> Delivery]
         /\ \A h \in Graders : h # g => grader'[h] = grader[h]
         /\ \/ /\ grader[g].at = "idle" /\ grader'[g].at = "grading"
               /\ grader'[g].id \in Ids /\ grader'[g].isCorrect \in {"true", "false"}
            \/ /\ grader[g].at \in {"grading", "closing"} /\ grader'[g].at = "done"
               /\ grader'[g].id = grader[g].id /\ grader'[g].isCorrect = grader[g].isCorrect
         /\ UNCHANGED <<guide, submissions, override, results, shown, matrix, decided>>
<1>1. grader \in [Graders -> Delivery]
  BY DEF ResultsTypes
<1>2. CASE GraderDies(g)
  <2>1. grader' = [grader EXCEPT ![g].at = "done"] /\ grader[g].at \in {"grading", "closing"}
    BY <1>2 DEF GraderDies
  <2> QED
    BY <1>1, <1>2, <2>1 DEF GraderDies, Delivery
<1>3. CASE \E id \in Ids, v \in {"true", "false"} : TakeResult(g, id, v)
  <2>1. PICK id \in Ids, v \in {"true", "false"} : TakeResult(g, id, v)
    BY <1>3
  <2>2. PICK delivery : delivery = [at |-> "grading", id |-> id, isCorrect |-> v]
    OBVIOUS
  <2>3. /\ delivery \in Delivery /\ delivery.at = "grading" /\ delivery.id = id
        /\ delivery.isCorrect = v
    BY <2>2 DEF Delivery
  <2>4. grader' = [grader EXCEPT ![g] = delivery] /\ grader[g].at = "idle"
    BY <2>1, <2>2 DEF TakeResult
  <2> QED
    BY <1>1, <2>1, <2>3, <2>4 DEF TakeResult
<1> QED
  BY <1>2, <1>3

\* A request to override begins with the row it reads, or fails; the rows stay.
LEMMA AskChange ==
  ASSUME ResultsTypes,
         OverrideFails \/ \E id \in Ids, tag \in ErrorTags \cup {NoTag} : ReadForOverride(id, tag)
  PROVE  /\ override' \in OverrideRequest
         /\ override'.at = "writing" => override'.id \in Ids
         /\ UNCHANGED <<guide, submissions, grader, results, shown, matrix, decided>>
<1>1. submissions \in [Ids -> Row]
  BY DEF ResultsTypes
<1>2. CASE OverrideFails
  <2>1. NoOverride \in OverrideRequest /\ NoOverride.at = "idle"
    BY DEF NoOverride, OverrideRequest, Absent, Row
  <2> QED
    BY <1>2, <2>1 DEF OverrideFails
<1>3. ASSUME NEW id \in Ids, NEW tag \in ErrorTags \cup {NoTag}, ReadForOverride(id, tag)
      PROVE  /\ override' \in OverrideRequest
             /\ override'.id \in Ids
             /\ UNCHANGED <<guide, submissions, grader, results, shown, matrix, decided>>
  <2>1. override' = [at |-> "writing", id |-> id, tag |-> tag, read |-> submissions[id]]
    BY <1>3 DEF ReadForOverride
  <2>2. submissions[id] \in Row
    BY <1>1
  <2> QED
    BY <1>3, <2>1, <2>2 DEF ReadForOverride, OverrideRequest
<1> QED
  BY <1>2, <1>3

\* The matrix is asked for with what is decided by then, and has no cells yet.
LEMMA StartMatrixChange ==
  ASSUME ResultsTypes, StartMatrix
  PROVE  /\ matrix' \in MatrixRow
         /\ matrix'.at = "reading" /\ matrix'.cells = {}
         /\ matrix'.graded = {id \in Ids : submissions[id].gradedAt}
         /\ \A k \in matrix'.kept : k \in Ids \X ErrorTags /\ k[2] = decided[k[1]] /\ k[2] # NoTag
         /\ UNCHANGED <<guide, submissions, grader, override, results, shown, decided>>
<1>1. decided \in [Ids -> ErrorTags \cup {NoTag}]
  BY DEF ResultsTypes
<1>2. PICK graded : graded = {id \in Ids : submissions[id].gradedAt}
  OBVIOUS
<1>3. PICK kept : kept = {<<id, decided[id]>> : id \in {i \in Ids : decided[i] # NoTag}}
  OBVIOUS
<1>4. \A k \in kept : k \in Ids \X ErrorTags /\ k[2] = decided[k[1]] /\ k[2] # NoTag
  <2>1. SUFFICES ASSUME NEW id \in Ids, decided[id] # NoTag, NEW k, k = <<id, decided[id]>>
                 PROVE  k \in Ids \X ErrorTags /\ k[2] = decided[k[1]] /\ k[2] # NoTag
    BY <1>3
  <2>2. decided[id] \in ErrorTags
    BY <1>1, <2>1
  <2> QED
    BY <2>1, <2>2
<1>5. matrix' = [NoMatrix EXCEPT !.at = "reading", !.graded = graded, !.kept = kept]
  BY <1>2, <1>3 DEF StartMatrix
<1>6. kept \in SUBSET (Ids \X ErrorTags) /\ graded \in SUBSET Ids
  BY <1>2, <1>4
<1>7. /\ matrix' \in MatrixRow
      /\ matrix'.at = "reading" /\ matrix'.cells = {}
      /\ matrix'.graded = graded /\ matrix'.kept = kept
  BY <1>5, <1>6 DEF NoMatrix, MatrixRow
<1> QED
  BY <1>2, <1>4, <1>7 DEF StartMatrix

\* A cell shows its row.
LEMMA CellShowsRow ==
  ASSUME ResultsTypes, NEW id \in Ids
  PROVE  /\ Cell(id) \in CellRow /\ Cell(id).id = id
         /\ Cell(id).status = submissions[id].status
         /\ Cell(id).isCorrect = submissions[id].isCorrect
         /\ submissions[id].override # NoTag => Cell(id).tag = submissions[id].override
<1>1. submissions[id] \in Row
  BY DEF ResultsTypes
<1>2. PICK tag \in ErrorTags \cup {NoTag, "CORRECT"} :
        /\ tag = EffectiveTag(submissions[id])
        /\ submissions[id].override # NoTag => tag = submissions[id].override
  BY <1>1 DEF EffectiveTag, Row
<1> QED
  BY <1>1, <1>2 DEF Cell, CellRow, Row

\* The queries of the matrix and its answer change its row only.
LEMMA MatrixChange ==
  ASSUME ResultsTypes, ReadQuestions \/ ReadCells \/ BuildMatrix
  PROVE  /\ matrix' \in MatrixRow
         /\ matrix.at = "reading" /\ matrix'.at \in {"reading", "done"}
         /\ matrix'.graded = matrix.graded /\ matrix'.kept = matrix.kept
         /\ \/ matrix'.cells = matrix.cells
            \/ matrix'.cells = {Cell(id) : id \in Latest}
         /\ UNCHANGED <<guide, submissions, grader, override, results, shown, decided>>
<1>1. matrix \in MatrixRow /\ guide.approved \subseteq GuideQuestions
  BY DEF ResultsTypes
<1>2. CASE ReadQuestions
  <2>1. PICK pending \in SUBSET {"questions", "cells"} : pending = matrix.pending \ {"questions"}
    BY <1>1 DEF MatrixRow
  <2>2. matrix' = [matrix EXCEPT !.pending = pending, !.questions = guide.approved]
    BY <1>2, <2>1 DEF ReadQuestions
  <2>3. matrix.at = "reading"
    BY <1>2 DEF ReadQuestions
  <2> QED
    BY <1>1, <1>2, <2>1, <2>2, <2>3 DEF ReadQuestions, MatrixRow
<1>3. CASE ReadCells
  <2>1. PICK pending \in SUBSET {"questions", "cells"} : pending = matrix.pending \ {"cells"}
    BY <1>1 DEF MatrixRow
  <2>2. PICK cells : cells = {Cell(id) : id \in Latest}
    OBVIOUS
  <2>3. cells \in SUBSET CellRow
    BY <2>2, CellShowsRow DEF Latest, Existing
  <2>4. matrix' = [matrix EXCEPT !.pending = pending, !.cells = cells] /\ matrix.at = "reading"
    BY <1>3, <2>1, <2>2 DEF ReadCells
  <2>5. /\ matrix' \in MatrixRow /\ matrix'.at = "reading" /\ matrix'.cells = cells
        /\ matrix'.graded = matrix.graded /\ matrix'.kept = matrix.kept
    BY <1>1, <2>1, <2>3, <2>4 DEF MatrixRow
  <2>6. UNCHANGED <<guide, submissions, grader, override, results, shown, decided>>
    BY <1>3 DEF ReadCells
  <2> QED
    BY <2>2, <2>4, <2>5, <2>6
<1>4. CASE BuildMatrix
  <2>1. matrix' = [matrix EXCEPT !.at = "done"] /\ matrix.at = "reading"
    BY <1>4 DEF BuildMatrix
  <2> QED
    BY <1>1, <1>4, <2>1 DEF BuildMatrix, MatrixRow
<1> QED
  BY <1>2, <1>3, <1>4

\* What a student is shown belongs to a question one of whose submissions is graded.
LEMMA FinishChange ==
  ASSUME ResultsTypes, NEW s \in Students, FinishResults(s)
  PROVE  /\ results' \in [Students -> {"idle", "shows", "hides"}]
         /\ shown \subseteq shown'
         /\ \A x \in shown' \ shown : \E n \in 1..MaxSubmissions :
              /\ x = <<s, x[2]>> /\ x[2] \in GuideQuestions /\ <<s, x[2], n>> \in Ids
              /\ submissions[<<s, x[2], n>>].status = "GRADED"
         /\ UNCHANGED <<guide, submissions, grader, override, matrix, decided>>
<1>1. ASSUME NEW x \in shown', x \notin shown
      PROVE  \E n \in 1..MaxSubmissions :
              /\ x = <<s, x[2]>> /\ x[2] \in GuideQuestions /\ <<s, x[2], n>> \in Ids
              /\ submissions[<<s, x[2], n>>].status = "GRADED"
  <2>1. PICK q \in ShownOnGrade(s) : x = <<s, q>>
    BY <1>1 DEF FinishResults
  <2>2. PICK id \in Ids : id[1] = s /\ id[2] = q /\ submissions[id].status = "GRADED"
    BY <2>1 DEF ShownOnGrade, Latest, Existing
  <2>3. PICK n \in 1..MaxSubmissions : id = <<s, q, n>> /\ q \in GuideQuestions
    BY <2>2 DEF Ids
  <2> QED
    BY <2>1, <2>2, <2>3
<1>2. results' \in [Students -> {"idle", "shows", "hides"}] /\ shown \subseteq shown'
  BY DEF FinishResults, ResultsTypes
<1> QED
  BY <1>1, <1>2 DEF FinishResults

\* The teacher's changes to the guide, and a student's first query, touch no row.
LEMMA GuideChange ==
  ASSUME ResultsTypes,
         \/ \E shows \in BOOLEAN : UpdateGuide(shows)
         \/ \E q \in GuideQuestions : ReviewQuestion(q)
         \/ \E s \in Students : StartResults(s)
  PROVE  /\ guide' \in [shows : BOOLEAN, approved : SUBSET GuideQuestions]
         /\ results' \in [Students -> {"idle", "shows", "hides"}]
         /\ guide' = guide \/ results' = results
         /\ UNCHANGED <<submissions, grader, override, shown, matrix, decided>>
<1>1. /\ guide \in [shows : BOOLEAN, approved : SUBSET GuideQuestions]
      /\ results \in [Students -> {"idle", "shows", "hides"}]
  BY DEF ResultsTypes
<1>2. ASSUME NEW shows \in BOOLEAN, UpdateGuide(shows)
      PROVE  /\ guide' \in [shows : BOOLEAN, approved : SUBSET GuideQuestions]
             /\ UNCHANGED <<submissions, grader, override, results, shown, matrix, decided>>
  BY <1>1, <1>2 DEF UpdateGuide
<1>3. ASSUME NEW q \in GuideQuestions, ReviewQuestion(q)
      PROVE  /\ guide' \in [shows : BOOLEAN, approved : SUBSET GuideQuestions]
             /\ UNCHANGED <<submissions, grader, override, results, shown, matrix, decided>>
  <2>1. PICK approved \in SUBSET GuideQuestions :
          approved = IF q \in guide.approved THEN guide.approved \ {q} ELSE guide.approved \cup {q}
    BY <1>1
  <2>2. guide' = [guide EXCEPT !.approved = approved]
    BY <1>3, <2>1 DEF ReviewQuestion
  <2> QED
    BY <1>1, <1>3, <2>2 DEF ReviewQuestion
<1>4. ASSUME NEW s \in Students, StartResults(s)
      PROVE  /\ results' \in [Students -> {"idle", "shows", "hides"}]
             /\ UNCHANGED <<guide, submissions, grader, override, shown, matrix, decided>>
  BY <1>1, <1>4 DEF StartResults
<1> QED
  BY <1>1, <1>2, <1>3, <1>4

\* The initial results are typed.
LEMMA InitResults == ResultsInit => ResultsTypes
<1> SUFFICES ASSUME ResultsInit PROVE ResultsTypes
  OBVIOUS
<1>1. Absent \in Row
  BY DEF Absent, Row
<1>2. NoDelivery \in Delivery /\ NoDelivery.at = "idle"
  BY DEF NoDelivery, Delivery
<1>3. NoOverride \in OverrideRequest /\ NoOverride.at = "idle"
  BY <1>1 DEF NoOverride, OverrideRequest
<1>4. NoMatrix \in MatrixRow
  BY DEF NoMatrix, MatrixRow
<1> QED
  BY <1>1, <1>2, <1>3, <1>4 DEF ResultsInit, ResultsTypes

\* Every step keeps the types of the results.
LEMMA NextResults == ResultsTypes /\ [ResultsNext]_resultsVars => ResultsTypes'
<1> SUFFICES ASSUME ResultsTypes, [ResultsNext]_resultsVars PROVE ResultsTypes'
  OBVIOUS
<1>1. CASE UNCHANGED resultsVars
  BY <1>1 DEF ResultsTypes, resultsVars
<1>2. CASE \E id \in Ids : Submit(id)
  BY <1>2, SubmitChange DEF ResultsTypes, RowBecomes
<1>3. CASE \E id \in Ids : \E tag \in ErrorTags : ClassifyAttempt(id, tag)
  BY <1>3, ClassifyChange DEF ResultsTypes, RowBecomes
<1>4. CASE \E g \in Graders : WriteVerdict(g)
  BY <1>4, VerdictChange DEF ResultsTypes, RowBecomes
<1>5. CASE \E g \in Graders : CloseRow(g)
  <2>1. PICK g \in Graders : CloseRow(g)
    BY <1>5
  <2>2. PICK id \in Ids : \E row :
          /\ grader[g].at = "closing" /\ RowBecomes(id, row)
          /\ grader' \in [Graders -> Delivery]
          /\ grader'[g].id = id /\ grader'[g].isCorrect = grader[g].isCorrect
          /\ \A h \in Graders : h # g => grader'[h] = grader[h]
          /\ UNCHANGED <<guide, override, results, shown, matrix, decided>>
    BY <2>1, CloseChange
  <2>3. \A h \in Graders : grader'[h].at # "idle" =>
          grader'[h].id \in Ids /\ grader'[h].isCorrect \in {"true", "false"}
    BY <2>2 DEF ResultsTypes
  <2>4. submissions' \in [Ids -> Row]
    BY <2>2 DEF RowBecomes
  <2> QED
    BY <2>2, <2>3, <2>4 DEF ResultsTypes
<1>6. CASE \E g \in Graders :
             GraderDies(g) \/ \E id \in Ids, v \in {"true", "false"} : TakeResult(g, id, v)
  <2>1. PICK g \in Graders :
             GraderDies(g) \/ \E id \in Ids, v \in {"true", "false"} : TakeResult(g, id, v)
    BY <1>6
  <2>2. \A h \in Graders : grader'[h].at # "idle" =>
          grader'[h].id \in Ids /\ grader'[h].isCorrect \in {"true", "false"}
    BY <2>1, DeliveryChange DEF ResultsTypes
  <2> QED
    BY <2>1, <2>2, DeliveryChange DEF ResultsTypes
<1>7. CASE OverrideFails \/ \E id \in Ids, tag \in ErrorTags \cup {NoTag} : ReadForOverride(id, tag)
  BY <1>7, AskChange DEF ResultsTypes
<1>8. CASE WriteOverride
  <2>1. NoOverride \in OverrideRequest /\ NoOverride.at = "idle"
    BY DEF NoOverride, OverrideRequest, Absent, Row
  <2> QED
    BY <1>8, <2>1, OverrideChange DEF ResultsTypes, RowBecomes
<1>9. CASE StartMatrix
  BY <1>9, StartMatrixChange DEF ResultsTypes
<1>10. CASE ReadQuestions \/ ReadCells \/ BuildMatrix
  BY <1>10, MatrixChange DEF ResultsTypes
<1>11. CASE \E s \in Students : FinishResults(s)
  <2>1. PICK s \in Students : FinishResults(s)
    BY <1>11
  <2>2. shown' \subseteq Students \X GuideQuestions
    <3>1. ASSUME NEW x \in shown', x \notin shown PROVE x \in Students \X GuideQuestions
      <4>1. x = <<s, x[2]>> /\ x[2] \in GuideQuestions
        BY <2>1, <3>1, FinishChange
      <4> QED
        BY <4>1
    <3> QED
      BY <3>1 DEF ResultsTypes
  <2> QED
    BY <2>1, <2>2, FinishChange DEF ResultsTypes
<1>12. CASE \/ \E shows \in BOOLEAN : UpdateGuide(shows)
            \/ \E q \in GuideQuestions : ReviewQuestion(q)
            \/ \E s \in Students : StartResults(s)
  BY <1>12, GuideChange DEF ResultsTypes
<1> QED
  BY <1>1, <1>2, <1>3, <1>4, <1>5, <1>6, <1>7, <1>8, <1>9, <1>10, <1>11, <1>12
     DEF ResultsNext

-----------------------------------------------------------------------------
(* Results: grades and overrides *)

\* A grade that was once given leaves its trace: the date and a verdict stay while a
\* redelivery grades again, and some delivery has ended with every GRADED row. The override
\* of a row is the one that was answered last.
RowInv ==
  \A id \in Ids :
    /\ submissions[id].gradedAt =>
         submissions[id].status \in {"GRADED", "GRADING"} /\ submissions[id].isCorrect # "null"
    /\ submissions[id].status = "GRADED" =>
         /\ submissions[id].gradedAt
         /\ \E h \in Graders : grader[h].at = "done" /\ grader[h].id = id
    /\ submissions[id].override = decided[id]

\* A delivery closes a row that has a verdict.
VerdictInv ==
  \A g \in Graders : grader[g].at = "closing" => submissions[grader[g].id].isCorrect # "null"

\* What was settled when the matrix was asked for is so still, and in the cells once read.
MatrixInv ==
  /\ \A id \in matrix.graded : submissions[id].gradedAt
  /\ \A k \in matrix.kept : k[2] = decided[k[1]] /\ k[2] # NoTag
  /\ \A c \in matrix.cells :
       /\ c.id \in matrix.graded => c.status \in {"GRADED", "GRADING"} /\ c.isCorrect # "null"
       /\ \A k \in matrix.kept : k[1] = c.id => c.tag = k[2]

\* A step that changes one row keeps what holds of rows, if it does for that one and no
\* delivery that has ended changes.
LEMMA OneRowChanges ==
  ASSUME RowInv, NEW id \in Ids, NEW row, RowBecomes(id, row),
         \A h \in Graders : grader[h].at = "done" =>
            grader'[h].at = "done" /\ grader'[h].id = grader[h].id,
         row.gradedAt => row.status \in {"GRADED", "GRADING"} /\ row.isCorrect # "null",
         row.status = "GRADED" =>
            row.gradedAt /\ \E h \in Graders : grader'[h].at = "done" /\ grader'[h].id = id,
         row.override = decided'[id],
         \A other \in Ids : other # id => decided'[other] = decided[other]
  PROVE  RowInv'
<1>1. ASSUME NEW other \in Ids, other # id
      PROVE  /\ submissions'[other].gradedAt =>
                  /\ submissions'[other].status \in {"GRADED", "GRADING"}
                  /\ submissions'[other].isCorrect # "null"
             /\ submissions'[other].status = "GRADED" =>
                  /\ submissions'[other].gradedAt
                  /\ \E h \in Graders : grader'[h].at = "done" /\ grader'[h].id = other
             /\ submissions'[other].override = decided'[other]
  <2>1. submissions'[other] = submissions[other]
    BY <1>1 DEF RowBecomes
  <2> QED
    BY <1>1, <2>1 DEF RowInv
<1>2. submissions'[id] = row
  BY DEF RowBecomes
<1> QED
  BY <1>1, <1>2 DEF RowInv

\* Initially no row exists, and nothing is decided.
LEMMA InitRows == ResultsInit => RowInv /\ VerdictInv /\ SolutionAfterGrade /\ MatrixInv
BY DEF ResultsInit, RowInv, VerdictInv, SolutionAfterGrade, MatrixInv, Absent, NoDelivery, NoMatrix

\* Every step keeps the trace of the grades and the overrides.
LEMMA NextRows ==
  ResultsTypes /\ RowInv /\ VerdictInv /\ [ResultsNext]_resultsVars => RowInv' /\ VerdictInv'
<1> SUFFICES ASSUME ResultsTypes, RowInv, VerdictInv, [ResultsNext]_resultsVars
             PROVE  RowInv' /\ VerdictInv'
  OBVIOUS
<1>1. CASE UNCHANGED resultsVars
  BY <1>1 DEF RowInv, VerdictInv, resultsVars
<1>2. CASE \E id \in Ids : Submit(id)
  <2>1. PICK id \in Ids : \E row :
          /\ RowBecomes(id, row)
          /\ submissions[id].status = "ABSENT" /\ row.status = "UPLOADED"
          /\ row.isCorrect = submissions[id].isCorrect
          /\ row.gradedAt = submissions[id].gradedAt /\ row.override = submissions[id].override
          /\ UNCHANGED <<grader, decided>>
    BY <1>2, SubmitChange
  <2>2. PICK row :
          /\ RowBecomes(id, row)
          /\ submissions[id].status = "ABSENT" /\ row.status = "UPLOADED"
          /\ row.isCorrect = submissions[id].isCorrect
          /\ row.gradedAt = submissions[id].gradedAt /\ row.override = submissions[id].override
    BY <2>1
  <2>3. ~row.gradedAt /\ row.override = decided[id]
    BY <2>2 DEF RowInv
  <2>4. RowInv'
    BY <2>1, <2>2, <2>3, OneRowChanges
  <2>5. \A other \in Ids : submissions'[other].isCorrect = submissions[other].isCorrect
    BY <2>2 DEF RowBecomes
  <2> QED
    BY <2>1, <2>4, <2>5 DEF VerdictInv, ResultsTypes
<1>3. CASE \E id \in Ids : \E tag \in ErrorTags : ClassifyAttempt(id, tag)
  <2>1. PICK id \in Ids : \E row :
          /\ RowBecomes(id, row)
          /\ row.status = submissions[id].status /\ row.isCorrect = submissions[id].isCorrect
          /\ row.gradedAt = submissions[id].gradedAt /\ row.override = submissions[id].override
          /\ UNCHANGED <<grader, decided>>
    BY <1>3, ClassifyChange
  <2>2. PICK row :
          /\ RowBecomes(id, row)
          /\ row.status = submissions[id].status /\ row.isCorrect = submissions[id].isCorrect
          /\ row.gradedAt = submissions[id].gradedAt /\ row.override = submissions[id].override
    BY <2>1
  <2>3. RowInv'
    BY <2>1, <2>2, OneRowChanges DEF RowInv
  <2>4. \A other \in Ids : submissions'[other].isCorrect = submissions[other].isCorrect
    BY <2>2 DEF RowBecomes
  <2> QED
    BY <2>1, <2>3, <2>4 DEF VerdictInv, ResultsTypes
<1>4. CASE \E g \in Graders : WriteVerdict(g)
  <2>1. PICK g \in Graders : WriteVerdict(g)
    BY <1>4
  <2>2. PICK id \in Ids, verdict \in {"true", "false"} : \E row :
          /\ grader[g].at = "grading"
          /\ RowBecomes(id, row)
          /\ row.status = "GRADING" /\ row.isCorrect = verdict
          /\ row.gradedAt = submissions[id].gradedAt /\ row.override = submissions[id].override
          /\ grader'[g].at = "closing" /\ grader'[g].id = id
          /\ \A h \in Graders : h # g => grader'[h] = grader[h]
          /\ decided' = decided
    BY <2>1, VerdictChange
  <2>3. PICK row :
          /\ RowBecomes(id, row)
          /\ row.status = "GRADING" /\ row.isCorrect = verdict
          /\ row.gradedAt = submissions[id].gradedAt /\ row.override = submissions[id].override
    BY <2>2
  <2>4. RowInv'
    BY <2>2, <2>3, OneRowChanges DEF RowInv
  <2>5. \A other \in Ids : submissions'[other].isCorrect \in {submissions[other].isCorrect, verdict}
    BY <2>3 DEF RowBecomes
  <2>6. submissions'[id].isCorrect = verdict
    BY <2>3 DEF RowBecomes
  <2> QED
    BY <2>2, <2>4, <2>5, <2>6 DEF VerdictInv, ResultsTypes
<1>5. CASE \E g \in Graders : CloseRow(g)
  <2>1. PICK g \in Graders : CloseRow(g)
    BY <1>5
  <2>2. PICK id \in Ids : \E row :
          /\ grader[g].at = "closing" /\ grader[g].id = id
          /\ RowBecomes(id, row)
          /\ row.status = "GRADED" /\ row.gradedAt = TRUE
          /\ row.isCorrect = submissions[id].isCorrect
          /\ row.override = submissions[id].override
          /\ grader'[g].at = "done" /\ grader'[g].id = id
          /\ \A h \in Graders : h # g => grader'[h] = grader[h]
          /\ decided' = decided
    BY <2>1, CloseChange
  <2>3. PICK row :
          /\ RowBecomes(id, row)
          /\ row.status = "GRADED" /\ row.gradedAt = TRUE
          /\ row.isCorrect = submissions[id].isCorrect
          /\ row.override = submissions[id].override
    BY <2>2
  <2>4. row.isCorrect # "null"
    BY <2>2, <2>3 DEF VerdictInv
  <2>5. RowInv'
    BY <2>2, <2>3, <2>4, OneRowChanges DEF RowInv
  <2>6. \A other \in Ids : submissions'[other].isCorrect = submissions[other].isCorrect
    BY <2>3 DEF RowBecomes
  <2> QED
    BY <2>2, <2>5, <2>6 DEF VerdictInv, ResultsTypes
<1>6. CASE \E g \in Graders :
             GraderDies(g) \/ \E id \in Ids, v \in {"true", "false"} : TakeResult(g, id, v)
  <2>1. PICK g \in Graders :
             GraderDies(g) \/ \E id \in Ids, v \in {"true", "false"} : TakeResult(g, id, v)
    BY <1>6
  <2>2. /\ \A h \in Graders : h # g => grader'[h] = grader[h]
        /\ grader[g].at # "done" /\ grader'[g].at \in {"grading", "done"}
        /\ UNCHANGED <<submissions, decided>>
    BY <2>1, DeliveryChange
  <2> QED
    BY <2>2 DEF RowInv, VerdictInv
<1>7. CASE WriteOverride
  <2>1. PICK id \in Ids, tag \in ErrorTags \cup {NoTag} : \E row :
          /\ RowBecomes(id, row)
          /\ row.status = submissions[id].status /\ row.isCorrect = submissions[id].isCorrect
          /\ row.gradedAt = submissions[id].gradedAt /\ row.override = tag
          /\ decided'[id] = tag
          /\ \A other \in Ids : other # id => decided'[other] = decided[other]
          /\ grader' = grader
    BY <1>7, OverrideChange
  <2>2. PICK row :
          /\ RowBecomes(id, row)
          /\ row.status = submissions[id].status /\ row.isCorrect = submissions[id].isCorrect
          /\ row.gradedAt = submissions[id].gradedAt /\ row.override = tag
    BY <2>1
  <2>3. RowInv'
    BY <2>1, <2>2, OneRowChanges DEF RowInv
  <2>4. \A other \in Ids : submissions'[other].isCorrect = submissions[other].isCorrect
    BY <2>2 DEF RowBecomes
  <2> QED
    BY <2>1, <2>3, <2>4 DEF VerdictInv, ResultsTypes
<1>8. CASE UNCHANGED <<submissions, grader, decided>>
  BY <1>8 DEF RowInv, VerdictInv
<1>9. ASSUME \/ OverrideFails \/ \E id \in Ids, tag \in ErrorTags \cup {NoTag} : ReadForOverride(id, tag)
             \/ StartMatrix \/ ReadQuestions \/ ReadCells \/ BuildMatrix
             \/ \E s \in Students : StartResults(s) \/ FinishResults(s)
             \/ \E shows \in BOOLEAN : UpdateGuide(shows)
             \/ \E q \in GuideQuestions : ReviewQuestion(q)
      PROVE  UNCHANGED <<submissions, grader, decided>>
  BY <1>9 DEF OverrideFails, ReadForOverride, StartMatrix, ReadQuestions, ReadCells, BuildMatrix,
              StartResults, FinishResults, UpdateGuide, ReviewQuestion
<1> QED
  BY <1>1, <1>2, <1>3, <1>4, <1>5, <1>6, <1>7, <1>8, <1>9 DEF ResultsNext

\* No step takes a grade's date off a row.
LEMMA GradesStay ==
  ASSUME ResultsTypes, RowInv, VerdictInv, [ResultsNext]_resultsVars,
         NEW id \in Ids, submissions[id].gradedAt
  PROVE  submissions'[id].gradedAt
<1>1. CASE UNCHANGED resultsVars
  BY <1>1 DEF resultsVars
<1>2. CASE \E other \in Ids : Submit(other) \/ \E tag \in ErrorTags : ClassifyAttempt(other, tag)
  <2>1. PICK other \in Ids : \E row :
          RowBecomes(other, row) /\ row.gradedAt = submissions[other].gradedAt
    BY <1>2, SubmitChange, ClassifyChange
  <2> QED
    BY <2>1 DEF RowBecomes
<1>3. CASE \E g \in Graders : WriteVerdict(g)
  <2>1. PICK other \in Ids : \E row :
          RowBecomes(other, row) /\ row.gradedAt = submissions[other].gradedAt
    BY <1>3, VerdictChange
  <2> QED
    BY <2>1 DEF RowBecomes
<1>4. CASE \E g \in Graders : CloseRow(g)
  <2>1. PICK other \in Ids : \E row : RowBecomes(other, row) /\ row.gradedAt = TRUE
    BY <1>4, CloseChange
  <2> QED
    BY <2>1 DEF RowBecomes
<1>5. CASE WriteOverride
  <2>1. PICK other \in Ids : \E row :
          RowBecomes(other, row) /\ row.gradedAt = submissions[other].gradedAt
    BY <1>5, OverrideChange
  <2> QED
    BY <2>1 DEF RowBecomes
<1>6. CASE submissions' = submissions
  BY <1>6
<1>7. ASSUME \/ \E g \in Graders : GraderDies(g) \/ \E x \in Ids, v \in {"true", "false"} : TakeResult(g, x, v)
             \/ OverrideFails \/ \E x \in Ids, tag \in ErrorTags \cup {NoTag} : ReadForOverride(x, tag)
             \/ StartMatrix \/ ReadQuestions \/ ReadCells \/ BuildMatrix
             \/ \E s \in Students : StartResults(s) \/ FinishResults(s)
             \/ \E shows \in BOOLEAN : UpdateGuide(shows)
             \/ \E q \in GuideQuestions : ReviewQuestion(q)
      PROVE  submissions' = submissions
  BY <1>7 DEF GraderDies, TakeResult, OverrideFails, ReadForOverride, StartMatrix, ReadQuestions,
              ReadCells, BuildMatrix, StartResults, FinishResults, UpdateGuide, ReviewQuestion
<1> QED
  BY <1>1, <1>2, <1>3, <1>4, <1>5, <1>6, <1>7 DEF ResultsNext

\* A solution that is shown has its grade, and no step takes that back.
LEMMA NextShown ==
  ResultsTypes /\ RowInv /\ VerdictInv /\ SolutionAfterGrade /\ [ResultsNext]_resultsVars
    => SolutionAfterGrade'
<1> SUFFICES ASSUME ResultsTypes, RowInv, VerdictInv, SolutionAfterGrade,
                    [ResultsNext]_resultsVars,
                    NEW x \in shown'
             PROVE  \E n \in 1..MaxSubmissions : submissions'[<<x[1], x[2], n>>].gradedAt
  BY DEF SolutionAfterGrade
<1>1. CASE x \in shown
  <2>1. PICK n \in 1..MaxSubmissions : submissions[<<x[1], x[2], n>>].gradedAt
    BY <1>1 DEF SolutionAfterGrade
  <2>2. <<x[1], x[2], n>> \in Ids
    BY <1>1, <2>1 DEF ResultsTypes, Ids
  <2> QED
    BY <2>1, <2>2, GradesStay
<1>2. CASE x \notin shown
  <2>1. PICK s \in Students : FinishResults(s)
    <3>1. CASE UNCHANGED resultsVars
      BY <1>2, <3>1 DEF resultsVars
    <3>2. ASSUME ResultsNext, \A s \in Students : ~FinishResults(s)
          PROVE  shown' = shown
      BY <3>2 DEF ResultsNext, Submit, ClassifyAttempt, TakeResult, ReadForOverride, WriteVerdict,
                  CloseRow, GraderDies, UpdateGuide, ReviewQuestion, WriteOverride, OverrideFails,
                  StartMatrix, ReadQuestions, ReadCells, BuildMatrix, StartResults
    <3> QED
      BY <1>2, <3>1, <3>2
  <2>2. submissions' = submissions
    BY <2>1, FinishChange
  <2>3. PICK n \in 1..MaxSubmissions :
          /\ x = <<s, x[2]>> /\ <<s, x[2], n>> \in Ids
          /\ submissions[<<s, x[2], n>>].status = "GRADED"
    BY <1>2, <2>1, FinishChange
  <2>4. x[1] = s
    BY <2>3
  <2> QED
    BY <2>2, <2>3, <2>4 DEF RowInv
<1> QED
  BY <1>1, <1>2

\* What the matrix was promised is still so after every step, and in the cells it reads.
LEMMA NextMatrix ==
  ResultsTypes /\ RowInv /\ VerdictInv /\ MatrixInv /\ [ResultsNext]_resultsVars => MatrixInv'
<1> SUFFICES ASSUME ResultsTypes, RowInv, VerdictInv, MatrixInv, [ResultsNext]_resultsVars
             PROVE  MatrixInv'
  OBVIOUS
<1>1. matrix \in MatrixRow
  BY DEF ResultsTypes
<1>2. matrix.graded \subseteq Ids /\ matrix.kept \subseteq Ids \X ErrorTags
  BY <1>1 DEF MatrixRow
<1>3. \A id \in matrix.graded : submissions'[id].gradedAt
  BY <1>2, GradesStay DEF MatrixInv
<1>4. CASE UNCHANGED <<matrix, decided>>
  BY <1>3, <1>4 DEF MatrixInv
<1>5. CASE WriteOverride
  <2>1. PICK id \in Ids :
          /\ \A other \in Ids : other # id => decided'[other] = decided[other]
          /\ matrix'.cells = matrix.cells /\ matrix'.graded = matrix.graded
          /\ matrix'.kept = {k \in matrix.kept : k[1] # id}
    BY <1>5, OverrideChange
  <2>2. \A k \in matrix'.kept : k \in matrix.kept /\ k[1] \in Ids /\ k[1] # id
    BY <1>2, <2>1
  <2> QED
    BY <1>3, <2>1, <2>2 DEF MatrixInv
<1>6. CASE StartMatrix
  BY <1>6, StartMatrixChange DEF MatrixInv
<1>7. CASE ReadQuestions \/ ReadCells \/ BuildMatrix
  <2>1. /\ matrix'.graded = matrix.graded /\ matrix'.kept = matrix.kept
        /\ \/ matrix'.cells = matrix.cells
           \/ matrix'.cells = {Cell(id) : id \in Latest}
        /\ UNCHANGED <<submissions, decided>>
    BY <1>7, MatrixChange
  <2>2. ASSUME NEW id \in Latest
        PROVE  /\ Cell(id).id \in matrix.graded =>
                    Cell(id).status \in {"GRADED", "GRADING"} /\ Cell(id).isCorrect # "null"
               /\ \A k \in matrix.kept : k[1] = Cell(id).id => Cell(id).tag = k[2]
    <3>1. id \in Ids
      BY DEF Latest, Existing
    <3>2. /\ Cell(id).id = id /\ Cell(id).status = submissions[id].status
          /\ Cell(id).isCorrect = submissions[id].isCorrect
          /\ submissions[id].override # NoTag => Cell(id).tag = submissions[id].override
      BY <3>1, CellShowsRow
    <3>3. submissions[id].override = decided[id]
      BY <3>1 DEF RowInv
    <3>4. id \in matrix.graded =>
            submissions[id].status \in {"GRADED", "GRADING"} /\ submissions[id].isCorrect # "null"
      BY <3>1 DEF RowInv, MatrixInv
    <3>5. \A k \in matrix.kept : k[1] = id => k[2] = decided[id] /\ k[2] # NoTag
      BY DEF MatrixInv
    <3> QED
      BY <3>2, <3>3, <3>4, <3>5
  <2>3. \A c \in matrix'.cells :
          /\ c.id \in matrix.graded => c.status \in {"GRADED", "GRADING"} /\ c.isCorrect # "null"
          /\ \A k \in matrix.kept : k[1] = c.id => c.tag = k[2]
    <3>1. CASE matrix'.cells = matrix.cells
      BY <3>1 DEF MatrixInv
    <3>2. CASE matrix'.cells = {Cell(id) : id \in Latest}
      BY <2>2, <3>2
    <3> QED
      BY <2>1, <3>1, <3>2
  <2> QED
    BY <1>3, <2>1, <2>3 DEF MatrixInv
<1>8. CASE UNCHANGED resultsVars
  BY <1>4, <1>8 DEF resultsVars
<1>9. ASSUME ResultsNext, ~WriteOverride, ~StartMatrix, ~ReadQuestions, ~ReadCells, ~BuildMatrix
      PROVE  UNCHANGED <<matrix, decided>>
  BY <1>9 DEF ResultsNext, Submit, ClassifyAttempt, TakeResult, ReadForOverride, WriteVerdict,
              CloseRow, GraderDies, UpdateGuide, ReviewQuestion, OverrideFails, StartResults,
              FinishResults
<1> QED
  BY <1>4, <1>5, <1>6, <1>7, <1>8, <1>9

\* The inductive invariant of the results.
LEMMA ResultsInvariant ==
  ResultsSpec =>
    [](ResultsTypes /\ RowInv /\ VerdictInv /\ SolutionAfterGrade /\ MatrixInv)
BY InitResults, NextResults, InitRows, NextRows, NextShown, NextMatrix, PTL DEF ResultsSpec

\* The drawer of a submission shows the override in force, and the matrix what had been
\* decided when it was asked for.
LEMMA DecisionsShown ==
  RowInv /\ MatrixInv => MatrixShowsDecisions
<1> SUFFICES ASSUME RowInv, MatrixInv PROVE MatrixShowsDecisions
  OBVIOUS
<1>1. ASSUME NEW id \in Ids
      PROVE  /\ SubmissionDetail(id).isOverridden <=> decided[id] # NoTag
             /\ SubmissionDetail(id).isOverridden => SubmissionDetail(id).tag = decided[id]
  <2>1. submissions[id].override = decided[id]
    BY DEF RowInv
  <2>2. /\ SubmissionDetail(id).isOverridden = (submissions[id].override # NoTag)
        /\ SubmissionDetail(id).tag = EffectiveTag(submissions[id])
    BY DEF SubmissionDetail
  <2> QED
    BY <2>1, <2>2 DEF EffectiveTag
<1> QED
  BY <1>1 DEF MatrixInv, MatrixShowsDecisions

-----------------------------------------------------------------------------
(* Results: the students counted *)

\* What MapThenSumSet computes, for a function.
SumOver(size, S) ==
  (CHOOSE iter : iter = [s \in SUBSET S |->
     IF s = {} THEN 0 ELSE size[CHOOSE x \in s : TRUE] + iter[s \ {CHOOSE x \in s : TRUE}]])[S]

\* A sum of the sizes of sets that have nothing in common is the size of their union: the fold
\* is the function that maps some of the sets to the size of theirs.
LEMMA SumOfSizes ==
  ASSUME NEW U, IsFiniteSet(U), NEW S, IsFiniteSet(S), NEW C,
         \A x \in S : C[x] \subseteq U,
         \A x, y \in S : x # y => C[x] \cap C[y] = {},
         NEW size, \A x \in S : size[x] = Cardinality(C[x])
  PROVE  SumOver(size, S) \in Nat /\ SumOver(size, S) <= Cardinality(U)
<1> DEFINE All(s) == UNION {C[x] : x \in s}
           Pick(s) == CHOOSE x \in s : TRUE
           f == [s \in SUBSET S |-> Cardinality(All(s))]
           F(g) == [s \in SUBSET S |-> IF s = {} THEN 0 ELSE size[Pick(s)] + g[s \ {Pick(s)}]]
           fold == CHOOSE iter : iter = F(iter)
<1>1. ASSUME NEW s \in SUBSET S
      PROVE  IsFiniteSet(All(s)) /\ All(s) \subseteq U /\ Cardinality(All(s)) \in Nat
  <2>1. All(s) \subseteq U
    OBVIOUS
  <2> HIDE DEF All
  <2> QED
    BY <2>1, FS_Subset, FS_CardinalityType
<1>2. ASSUME NEW s \in SUBSET S
      PROVE  f[s] = IF s = {} THEN 0 ELSE size[Pick(s)] + f[s \ {Pick(s)}]
  <2>1. CASE s = {}
    <3>1. All(s) = {}
      BY <2>1
    <3> QED
      BY <2>1, <3>1, FS_EmptySet
  <2>2. CASE s # {}
    <3> DEFINE x == Pick(s)
               r == s \ {x}
    <3>1. x \in s /\ r \in SUBSET S
      BY <2>2
    <3> HIDE DEF x
    <3>2. All(s) = C[x] \cup All(r) /\ C[x] \cap All(r) = {}
      BY <3>1
    <3>3. IsFiniteSet(C[x]) /\ Cardinality(C[x]) \in Nat
      BY <3>1, FS_Subset, FS_CardinalityType
    <3>4. IsFiniteSet(All(r)) /\ Cardinality(All(r)) \in Nat
      BY <1>1, <3>1
    <3> HIDE DEF All, r
    <3>5. Cardinality(C[x] \cup All(r)) =
            Cardinality(C[x]) + Cardinality(All(r)) - Cardinality(C[x] \cap All(r))
      BY <3>3, <3>4, FS_Union
    <3>6. Cardinality(All(s)) = Cardinality(C[x]) + Cardinality(All(r))
      <4>1. Cardinality(C[x] \cap All(r)) = 0
        BY <3>2, FS_EmptySet
      <4>2. Cardinality(All(s)) = Cardinality(C[x] \cup All(r))
        BY <3>2
      <4> QED
        BY <3>3, <3>4, <3>5, <4>1, <4>2
    <3>7. f[s] = Cardinality(All(s)) /\ f[r] = Cardinality(All(r)) /\ size[x] = Cardinality(C[x])
      BY <3>1
    <3> QED
      BY <2>2, <3>6, <3>7 DEF x, r
  <2> QED
    BY <2>1, <2>2
<1>3. f = F(f)
  <2> HIDE DEF f
  <2>1. f = [s \in SUBSET S |-> f[s]]
    BY DEF f
  <2> QED
    BY <1>2, <2>1
<1>4. fold = F(fold)
  <2> HIDE DEF f, F
  <2> QED
    BY <1>3
<1>5. \A s \in SUBSET S : f[s] \in Nat
  BY <1>1
<1>6. S \in SUBSET S /\ f[S] = Cardinality(All(S))
  OBVIOUS
<1> HIDE DEF f, fold, All
<1>7. fold[S] = f[S]
  <2> DEFINE T == {n \in Nat : \E s \in SUBSET S : n = Cardinality(s) /\ fold[s] # f[s]}
  <2>1. SUFFICES ASSUME T # {} PROVE FALSE
    <3>1. Cardinality(S) \in Nat
      BY FS_CardinalityType
    <3> QED
      BY <1>6, <3>1
  <2>2. PICK n \in T : \A m \in T : n <= m
    <3>1. T \subseteq Nat
      OBVIOUS
    <3> HIDE DEF T
    <3> QED
      BY <2>1, <3>1, LeastNumber
  <2>3. PICK s \in SUBSET S : n = Cardinality(s) /\ fold[s] # f[s]
    OBVIOUS
  <2>4. s # {}
    BY <1>2, <1>4, <2>3
  <2> DEFINE x == Pick(s)
             r == s \ {x}
  <2>5. x \in s /\ r \in SUBSET S
    BY <2>4
  <2>6. fold[r] # f[r]
    <3>1. f[s] = size[x] + f[r]
      BY <1>2, <2>4
    <3>2. fold[s] = size[x] + fold[r]
      BY <1>4, <2>4, Zenon
    <3> QED
      BY <2>3, <3>1, <3>2
  <2> HIDE DEF x
  <2>7. Cardinality(r) = n - 1 /\ n \in Nat /\ n > 0
    <3>1. IsFiniteSet(s)
      BY FS_Subset
    <3>2. Cardinality(r) \in Nat /\ Cardinality(s) \in Nat /\ Cardinality(r) = Cardinality(s) - 1
      BY <2>5, <3>1, FS_RemoveElement, FS_CardinalityType
    <3> QED
      BY <2>3, <3>2
  <2>8. n - 1 \in T
    BY <2>5, <2>6, <2>7
  <2> HIDE DEF T
  <2> QED
    BY <2>2, <2>7, <2>8
<1>8. SumOver(size, S) = fold[S]
  BY DEF SumOver, fold, F
<1>9. Cardinality(All(S)) \in Nat /\ Cardinality(All(S)) <= Cardinality(U)
  BY <1>1, <1>6, FS_Subset
<1> QED
  BY <1>6, <1>7, <1>8, <1>9

\* No student has two cells for a question.
OneCell ==
  \A c, d \in matrix.cells : c.id[1] = d.id[1] /\ c.id[2] = d.id[2] => c = d

\* A read of the cells takes the latest attempt of each, and there is one.
LEMMA NextCells == ResultsTypes /\ OneCell /\ [ResultsNext]_resultsVars => OneCell'
<1> SUFFICES ASSUME ResultsTypes, OneCell, [ResultsNext]_resultsVars PROVE OneCell'
  OBVIOUS
<1>1. CASE matrix'.cells = matrix.cells
  BY <1>1 DEF OneCell
<1>2. CASE matrix'.cells = {}
  BY <1>2 DEF OneCell
<1>3. CASE matrix'.cells = {Cell(id) : id \in Latest}
  <2>1. \A id \in Latest : Cell(id).id = id
    BY DEF Cell
  <2>2. ASSUME NEW i \in Latest, NEW j \in Latest, i[1] = j[1], i[2] = j[2] PROVE i = j
    <3>1. i \in Existing /\ j \in Existing /\ ~Later(i, j) /\ ~Later(j, i)
      BY DEF Latest
    <3>2. i \in Ids /\ j \in Ids
      BY <3>1 DEF Existing
    <3>3. i[3] \in Int /\ j[3] \in Int
      BY <3>2 DEF Ids
    <3>4. i[3] = j[3]
      BY <2>2, <3>1, <3>3 DEF Later
    <3> QED
      BY <2>2, <3>2, <3>4 DEF Ids
  <2> QED
    BY <1>3, <2>1, <2>2 DEF OneCell
<1>4. CASE UNCHANGED resultsVars
  BY <1>1, <1>4 DEF resultsVars
<1>5. CASE WriteOverride
  BY <1>1, <1>5, OverrideChange
<1>6. CASE StartMatrix
  BY <1>2, <1>6, StartMatrixChange
<1>7. CASE ReadQuestions \/ ReadCells \/ BuildMatrix
  BY <1>1, <1>3, <1>7, MatrixChange
<1>8. ASSUME ResultsNext, ~WriteOverride, ~StartMatrix, ~ReadQuestions, ~ReadCells, ~BuildMatrix
      PROVE  UNCHANGED matrix
  BY <1>8 DEF ResultsNext, Submit, ClassifyAttempt, TakeResult, ReadForOverride, WriteVerdict,
              CloseRow, GraderDies, UpdateGuide, ReviewQuestion, OverrideFails, StartResults,
              FinishResults
<1> QED
  BY <1>1, <1>4, <1>5, <1>6, <1>7, <1>8

\* The cells of a question are no more than the students.
LEMMA CellsOfQuestion ==
  ASSUME ResultsTypes, OneCell, NEW q
  PROVE  LET cells == {c \in matrix.cells : c.id[2] = q}
         IN  IsFiniteSet(cells) /\ Cardinality(cells) <= Cardinality(Students)
<1> DEFINE cells == {c \in matrix.cells : c.id[2] = q}
           f == [c \in cells |-> c.id[1]]
<1>1. \A c \in cells : c.id \in Ids
  BY DEF ResultsTypes, MatrixRow, CellRow
<1>2. \A c \in cells : c.id[1] \in Students
  BY <1>1 DEF Ids
<1>3. \A c, d \in cells : c.id[1] = d.id[1] => c = d
  BY DEF OneCell
<1>4. f \in Injection(cells, Students)
  BY <1>2, <1>3 DEF Injection, IsInjective
<1> HIDE DEF f, cells
<1>5. IsFiniteSet(cells) /\ Cardinality(cells) <= Cardinality(Students)
  BY <1>4, ResultsAssumption, FS_Injection
<1> QED
  BY <1>5 DEF cells

\* There are so many cells.
LEMMA FiniteCells ==
  ASSUME ResultsTypes, OneCell
  PROVE  IsFiniteSet(matrix.cells)
<1> DEFINE f == [c \in matrix.cells |-> <<c.id[1], c.id[2]>>]
<1>1. \A c \in matrix.cells : c.id \in Ids
  BY DEF ResultsTypes, MatrixRow, CellRow
<1>2. f \in Injection(matrix.cells, Students \X GuideQuestions)
  BY <1>1 DEF Injection, IsInjective, OneCell, Ids
<1>3. IsFiniteSet(Students \X GuideQuestions)
  BY ResultsAssumption, FS_Product
<1> HIDE DEF f
<1> QED
  BY <1>2, <1>3, FS_Injection

\* Each student has one cell at most for a question, under one tag.
LEMMA CountedOnce == ResultsTypes /\ OneCell => StudentsCountOnce
<1> SUFFICES ASSUME ResultsTypes, OneCell, NEW q
             PROVE  MapThenSumSet(LAMBDA tag : CommonErrors(q)[tag], DOMAIN CommonErrors(q))
                      <= Cardinality(Students)
  BY DEF StudentsCountOnce
<1> DEFINE size == CommonErrors(q)
           D == DOMAIN size
           U == {c \in matrix.cells : c.id[2] = q}
           C == [tag \in D |-> {c \in matrix.cells : c.id[2] = q /\ c.isCorrect # "true" /\ c.tag = tag}]
<1>1. IsFiniteSet(U) /\ Cardinality(U) <= Cardinality(Students)
  BY CellsOfQuestion
<1>2. IsFiniteSet(D)
  <2> DEFINE all == {c.tag : c \in matrix.cells}
             f == [c \in matrix.cells |-> c.tag]
  <2>1. f \in Surjection(matrix.cells, all)
    BY DEF Surjection
  <2> HIDE DEF f
  <2>2. IsFiniteSet(all)
    BY <2>1, FiniteCells, FS_Surjection
  <2>3. D = all \ {NoTag}
    BY DEF CommonErrors
  <2> HIDE DEF all, D
  <2> QED
    BY <2>2, <2>3, FS_Subset
<1>3. \A tag \in D : C[tag] \subseteq U /\ size[tag] = Cardinality(C[tag])
  BY DEF CommonErrors
<1>4. \A x, y \in D : x # y => C[x] \cap C[y] = {}
  OBVIOUS
<1> HIDE DEF C, U, D, size
<1>5. SumOver(size, D) \in Nat /\ SumOver(size, D) <= Cardinality(U)
  BY <1>1, <1>2, <1>3, <1>4, SumOfSizes
<1> SUFFICES SumOver(size, D) <= Cardinality(Students)
  BY DEF D, size, SumOver, MapThenSumSet, MapThenFoldSet
<1>6. Cardinality(Students) \in Nat /\ Cardinality(U) \in Nat
  BY <1>1, ResultsAssumption, FS_CardinalityType
<1> QED
  BY <1>1, <1>5, <1>6

-----------------------------------------------------------------------------
(* Results: progress *)

\* The questions a student has graded are among those of the guide, and those the parent
\* is told of are the ones that the quiz lists.
LEMMA GradedAreQuestions ==
  ASSUME ResultsTypes, NEW s \in Students
  PROVE  /\ GradedQuestions(s) \subseteq GuideQuestions
         /\ GradedQuestions(s) \cap guide.approved =
              {q \in guide.approved :
                 \E id \in DOMAIN Quiz(s)[q] : Quiz(s)[q][id].status = "GRADED"}
<1>1. GradedQuestions(s) \subseteq GuideQuestions
  BY DEF GradedQuestions, Existing, Ids
<1>2. ASSUME NEW q \in guide.approved
      PROVE  q \in GradedQuestions(s)
               <=> \E id \in DOMAIN Quiz(s)[q] : Quiz(s)[q][id].status = "GRADED"
  <2>1. Quiz(s)[q] = [id \in {i \in Existing : i[1] = s /\ i[2] = q} |-> StatusView(id)]
    BY <1>2 DEF Quiz
  <2>2. \A id \in {i \in Existing : i[1] = s /\ i[2] = q} :
          Quiz(s)[q][id].status = submissions[id].status
    BY <2>1 DEF StatusView
  <2> QED
    BY <2>1, <2>2 DEF GradedQuestions
<1> QED
  BY <1>1, <1>2

\* Only a delivery that grades a row which another has closed takes a grade back.
LEMMA GradedStays ==
  ASSUME ResultsTypes, RowInv, ResultsNext, ~\E g \in Graders : RegradesClosedRow(g),
         NEW id \in Ids, submissions[id].status = "GRADED"
  PROVE  submissions'[id].status = "GRADED"
<1>1. CASE \E other \in Ids : Submit(other)
  <2>1. PICK other \in Ids : \E row :
          RowBecomes(other, row) /\ submissions[other].status = "ABSENT"
    BY <1>1, SubmitChange
  <2> QED
    BY <2>1 DEF RowBecomes
<1>2. CASE \E other \in Ids : \E tag \in ErrorTags : ClassifyAttempt(other, tag)
  <2>1. PICK other \in Ids : \E row :
          RowBecomes(other, row) /\ row.status = submissions[other].status
    BY <1>2, ClassifyChange
  <2> QED
    BY <2>1 DEF RowBecomes
<1>3. CASE \E g \in Graders : WriteVerdict(g)
  <2>1. PICK g \in Graders : WriteVerdict(g)
    BY <1>3
  <2>2. PICK other \in Ids : \E row :
          /\ grader[g].at = "grading" /\ grader[g].id = other /\ RowBecomes(other, row)
    BY <2>1, VerdictChange
  <2>3. other # id
    <3>1. SUFFICES ASSUME other = id PROVE FALSE
      OBVIOUS
    <3>2. PICK h \in Graders : grader[h].at = "done" /\ grader[h].id = id
      BY DEF RowInv
    <3>3. h # g
      BY <2>2, <3>2
    <3> QED
      BY <2>2, <3>1, <3>2, <3>3 DEF RegradesClosedRow
  <2> QED
    BY <2>2, <2>3 DEF RowBecomes
<1>4. CASE \E g \in Graders : CloseRow(g)
  <2>1. PICK other \in Ids : \E row : RowBecomes(other, row) /\ row.status = "GRADED"
    BY <1>4, CloseChange
  <2> QED
    BY <2>1 DEF RowBecomes
<1>5. CASE WriteOverride
  <2>1. PICK other \in Ids : \E row :
          RowBecomes(other, row) /\ row.status = submissions[other].status
    BY <1>5, OverrideChange
  <2> QED
    BY <2>1 DEF RowBecomes
<1>6. CASE submissions' = submissions
  BY <1>6
<1>7. ASSUME \/ \E g \in Graders : GraderDies(g) \/ \E x \in Ids, v \in {"true", "false"} : TakeResult(g, x, v)
             \/ OverrideFails \/ \E x \in Ids, tag \in ErrorTags \cup {NoTag} : ReadForOverride(x, tag)
             \/ StartMatrix \/ ReadQuestions \/ ReadCells \/ BuildMatrix
             \/ \E s \in Students : StartResults(s) \/ FinishResults(s)
             \/ \E shows \in BOOLEAN : UpdateGuide(shows)
             \/ \E q \in GuideQuestions : ReviewQuestion(q)
      PROVE  submissions' = submissions
  BY <1>7 DEF GraderDies, TakeResult, OverrideFails, ReadForOverride, StartMatrix, ReadQuestions,
              ReadCells, BuildMatrix, StartResults, FinishResults, UpdateGuide, ReviewQuestion
<1> QED
  BY <1>1, <1>2, <1>3, <1>4, <1>5, <1>6, <1>7 DEF ResultsNext

\* The cardinality of a finite set of questions grows with the set.
LEMMA MoreQuestions ==
  ASSUME NEW S, NEW T, S \subseteq T, T \subseteq GuideQuestions
  PROVE  ~(Cardinality(T) < Cardinality(S))
<1>1. IsFiniteSet(T)
  BY ResultsAssumption, FS_Subset
<1>2. /\ IsFiniteSet(S) /\ Cardinality(S) <= Cardinality(T)
      /\ Cardinality(S) \in Nat /\ Cardinality(T) \in Nat
  BY <1>1, FS_Subset, FS_CardinalityType
<1> QED
  BY <1>2

\* A step takes no progress back but as ProgressSurvivesRetries says.
LEMMA StepKeepsProgress ==
  ASSUME ResultsTypes, ResultsTypes', RowInv, ResultsNext, NEW s \in Students
  PROVE  /\ ListedGuide(s)'.graded < ListedGuide(s).graded =>
              \E g \in Graders : RegradesClosedRow(g)
         /\ ChildsGuide(s)'.graded < ChildsGuide(s).graded =>
              guide'.approved # guide.approved \/ \E g \in Graders : RegradesClosedRow(g)
         /\ ChildsGuide(s).graded =
              Cardinality({q \in guide.approved :
                             \E id \in DOMAIN Quiz(s)[q] : Quiz(s)[q][id].status = "GRADED"})
<1>1. /\ ListedGuide(s).graded = Cardinality(GradedQuestions(s))
      /\ ListedGuide(s)'.graded = Cardinality(GradedQuestions(s)')
      /\ ChildsGuide(s).graded = Cardinality(GradedQuestions(s) \cap guide.approved)
      /\ ChildsGuide(s)'.graded = Cardinality(GradedQuestions(s)' \cap guide'.approved)
  BY DEF ListedGuide, ChildsGuide
<1>2. GradedQuestions(s)' \subseteq GuideQuestions
  BY DEF GradedQuestions, Existing, Ids
<1>3. ASSUME ~\E g \in Graders : RegradesClosedRow(g)
      PROVE  GradedQuestions(s) \subseteq GradedQuestions(s)'
  <2>1. \A id \in Existing : submissions[id].status = "GRADED" =>
          id \in Ids /\ submissions'[id].status = "GRADED"
    BY <1>3, GradedStays DEF Existing
  <2> QED
    BY <2>1 DEF GradedQuestions, Existing
<1>4. ListedGuide(s)'.graded < ListedGuide(s).graded => \E g \in Graders : RegradesClosedRow(g)
  BY <1>1, <1>2, <1>3, MoreQuestions
<1>5. ASSUME guide'.approved = guide.approved, ~\E g \in Graders : RegradesClosedRow(g)
      PROVE  ~(ChildsGuide(s)'.graded < ChildsGuide(s).graded)
  <2>1. /\ GradedQuestions(s) \cap guide.approved \subseteq GradedQuestions(s)' \cap guide'.approved
        /\ GradedQuestions(s)' \cap guide'.approved \subseteq GuideQuestions
    BY <1>2, <1>3, <1>5
  <2> QED
    BY <1>1, <2>1, MoreQuestions
<1> QED
  BY <1>1, <1>4, <1>5, GradedAreQuestions

-----------------------------------------------------------------------------
(* The catalogue *)

CatalogSpec == CatalogInit /\ [][CatalogNext]_catalogVars

Positions == 1..Len(Entries)

Seen == Statuses \cup {"ABSENT", "todo", "written"}

ImportRow ==
  [at : {"idle", "running", "done", "failed"}, activate : BOOLEAN, batch : Nat,
   seen : [Positions -> Seen] \cup {<<>>},
   before : [Codes -> Statuses \cup {"ABSENT"}] \cup {<<>>}, touched : SUBSET Codes]

CatalogTypes ==
  /\ tags \in [Codes -> Statuses \cup {"ABSENT"}]
  /\ import \in ImportRow
  /\ import.at # "idle" =>
       /\ import.seen \in [Positions -> Seen]
       /\ import.before \in [Codes -> Statuses \cup {"ABSENT"}]

\* Since a run began, a tag that nobody has touched is what it was, or a draft made active.
Kept(c) ==
  /\ import.before[c] \in {"ACTIVE", "DEPRECATED"} => tags[c] = import.before[c]
  /\ import.before[c] = "DRAFT" =>
       tags[c] = "DRAFT" \/ (import.activate /\ tags[c] = "ACTIVE")

\* What an entry has read of such a tag is still so, but for a draft that another entry of
\* the code has made active; what it has written is there.
Read(i) ==
  LET c == Entries[i].code
      seen == import.seen[i]
  IN  /\ seen = "written" =>
           /\ tags[c] # "ABSENT"
           /\ import.before[c] = "DRAFT" /\ import.activate => tags[c] = "ACTIVE"
      /\ seen \notin {"todo", "written"} =>
           /\ seen # "ABSENT" => tags[c] # "ABSENT"
           /\ import.before[c] \in {"ACTIVE", "DEPRECATED"} => seen = import.before[c]
           /\ import.before[c] = "DRAFT" =>
                seen = "DRAFT" \/ (import.activate /\ seen = "ACTIVE" /\ tags[c] = "ACTIVE")

\* ImportKeepsCuration is about the end of a run. It rests on what each entry, between its
\* read and its write, knows of its tag, and on the batches before the current one.
ImportInv ==
  /\ import.at # "idle" =>
       /\ \A c \in Codes \ import.touched : Kept(c)
       /\ \A i \in Positions : Entries[i].code \notin import.touched => Read(i)
  /\ import.at = "running" =>
       \A i \in Positions : (i - 1) \div BatchSize < import.batch => import.seen[i] = "written"
  /\ import.at = "done" => \A i \in Positions : import.seen[i] = "written"

\* An element of a sequence is one of the set that the sequence is over.
LEMMA ElementOf ==
  ASSUME NEW S, NEW seq \in Seq(S), NEW i \in 1..Len(seq)
  PROVE  seq[i] \in S
OBVIOUS

\* An entry names a code, and a status.
LEMMA EntryTypes ==
  ASSUME NEW i \in Positions
  PROVE  Entries[i].code \in Codes /\ Entries[i].status \in Statuses
<1>1. Entries \in Seq([code : Codes, status : Statuses])
  BY CatalogAssumption
<1>2. Entries[i] \in [code : Codes, status : Statuses]
  BY <1>1, ElementOf DEF Positions
<1> QED
  BY <1>2

\* The batch of a position that the batches up to k cover is one of them.
LEMMA BatchOf ==
  ASSUME NEW n \in Nat, NEW size \in Nat \ {0}, NEW k \in Nat, n < (k + 1) * size
  PROVE  n \div size <= k
<1>1. PICK d \in Int : d = n \div size
  OBVIOUS
<1>2. size * d <= n
  BY <1>1
<1>3. SUFFICES ASSUME d >= k + 1 PROVE FALSE
  BY <1>1
<1>4. size * d >= size * (k + 1)
  BY <1>3
<1> QED
  BY <1>2, <1>4

\* An administrator changes one tag, which counts as touched.
LEMMA UpdateChange ==
  ASSUME CatalogTypes, NEW code \in Codes, NEW status \in Statuses,
         UpdateErrorTagStatus(code, status)
  PROVE  /\ CatalogTypes'
         /\ \A c \in Codes : c # code => tags'[c] = tags[c]
         /\ import'.touched = import.touched \cup {code}
         /\ import'.at = import.at /\ import'.activate = import.activate
         /\ import'.batch = import.batch /\ import'.seen = import.seen
         /\ import'.before = import.before
<1>1. tags' = [tags EXCEPT ![code] = status]
  BY DEF UpdateErrorTagStatus
<1>2. PICK touched \in SUBSET Codes : touched = import.touched \cup {code}
  BY DEF CatalogTypes, ImportRow
<1>3. import' = [import EXCEPT !.touched = touched]
  BY <1>2 DEF UpdateErrorTagStatus
<1>4. tags' \in [Codes -> Statuses \cup {"ABSENT"}] /\ \A c \in Codes : c # code => tags'[c] = tags[c]
  BY <1>1 DEF CatalogTypes
<1>5. /\ import' \in ImportRow /\ import'.touched = touched
      /\ import'.at = import.at /\ import'.activate = import.activate
      /\ import'.batch = import.batch /\ import'.seen = import.seen
      /\ import'.before = import.before
  BY <1>3 DEF CatalogTypes, ImportRow
<1> QED
  BY <1>2, <1>4, <1>5 DEF CatalogTypes

\* The seed adds the tags that are absent.
LEMMA SeedChange ==
  ASSUME CatalogTypes, Seed
  PROVE  /\ CatalogTypes' /\ import' = import
         /\ \A c \in Codes : tags'[c] = tags[c] \/ (tags[c] = "ABSENT" /\ tags'[c] \in Statuses)
<1>1. tags' = [c \in Codes |-> IF c \in Seeded /\ tags[c] = "ABSENT" THEN "ACTIVE" ELSE tags[c]]
  BY DEF Seed
<1>2. tags \in [Codes -> Statuses \cup {"ABSENT"}] /\ "ACTIVE" \in Statuses
  BY DEF CatalogTypes, Statuses
<1>3. /\ tags' \in [Codes -> Statuses \cup {"ABSENT"}]
      /\ \A c \in Codes : tags'[c] = tags[c] \/ (tags[c] = "ABSENT" /\ tags'[c] \in Statuses)
  BY <1>1, <1>2
<1>4. import' = import
  BY DEF Seed
<1> QED
  BY <1>3, <1>4 DEF CatalogTypes

\* A run begins with the catalogue there is, and nothing read or touched.
LEMMA StartImportChange ==
  ASSUME CatalogTypes, NEW activate \in BOOLEAN, StartImport(activate)
  PROVE  /\ CatalogTypes' /\ tags' = tags
         /\ import'.at = "running" /\ import'.batch = 0 /\ import'.before = tags
         /\ \A i \in Positions : import'.seen[i] = "todo"
<1>1. PICK seen \in [Positions -> Seen] : seen = [i \in 1..Len(Entries) |-> "todo"]
  BY DEF Positions, Seen
<1>2. import' = [at |-> "running", activate |-> activate, batch |-> 0,
                 seen |-> seen, before |-> tags, touched |-> {}]
  BY <1>1 DEF StartImport
<1>3. /\ import' \in ImportRow
      /\ import'.at = "running" /\ import'.batch = 0 /\ import'.before = tags
      /\ import'.seen = seen
  BY <1>2 DEF ImportRow, CatalogTypes
<1>4. tags' = tags
  BY DEF StartImport
<1> QED
  BY <1>1, <1>3, <1>4 DEF CatalogTypes, Positions

\* An entry reads its tag.
LEMMA ReadChange ==
  ASSUME CatalogTypes, NEW i \in Positions, ReadEntry(i)
  PROVE  /\ CatalogTypes' /\ tags' = tags
         /\ import.at = "running" /\ import'.at = "running"
         /\ (i - 1) \div BatchSize = import.batch /\ import.seen[i] = "todo"
         /\ import'.seen[i] = tags[Entries[i].code]
         /\ \A j \in Positions : j # i => import'.seen[j] = import.seen[j]
         /\ import'.activate = import.activate /\ import'.batch = import.batch
         /\ import'.before = import.before /\ import'.touched = import.touched
<1>1. /\ import.at = "running" /\ import.seen[i] = "todo"
      /\ (i - 1) \div BatchSize = import.batch
      /\ import' = [import EXCEPT !.seen[i] = tags[Entries[i].code]] /\ tags' = tags
  BY DEF ReadEntry, Batch
<1>2. import.seen \in [Positions -> Seen] /\ import \in ImportRow
  BY <1>1 DEF CatalogTypes
<1>3. tags[Entries[i].code] \in Seen
  BY EntryTypes DEF CatalogTypes, Seen
<1>4. PICK seen : seen = [import.seen EXCEPT ![i] = tags[Entries[i].code]]
  OBVIOUS
<1>5. /\ seen \in [Positions -> Seen] /\ seen[i] = tags[Entries[i].code]
      /\ \A j \in Positions : j # i => seen[j] = import.seen[j]
  BY <1>2, <1>3, <1>4
<1>6. import' = [import EXCEPT !.seen = seen]
  BY <1>1, <1>4
<1>7. /\ import' \in ImportRow /\ import'.at = "running" /\ import'.seen = seen
      /\ import'.activate = import.activate /\ import'.batch = import.batch
      /\ import'.before = import.before /\ import'.touched = import.touched
  BY <1>1, <1>2, <1>5, <1>6 DEF ImportRow
<1> QED
  BY <1>1, <1>5, <1>7 DEF CatalogTypes

\* An entry writes its tag: it creates what is absent, promotes a draft it has read, or
\* leaves the tag alone, and the run fails where it was to create what has come to be.
LEMMA WriteEntryChange ==
  ASSUME CatalogTypes, NEW i \in Positions, WriteEntry(i)
  PROVE  /\ CatalogTypes'
         /\ import.at = "running" /\ import'.at \in {"running", "failed"}
         /\ import.seen[i] \notin {"todo", "written"} /\ import'.seen[i] = "written"
         /\ \A j \in Positions : j # i => import'.seen[j] = import.seen[j]
         /\ import'.activate = import.activate /\ import'.batch = import.batch
         /\ import'.before = import.before /\ import'.touched = import.touched
         /\ \A c \in Codes : c # Entries[i].code => tags'[c] = tags[c]
         /\ \/ /\ import.seen[i] = "ABSENT" /\ tags[Entries[i].code] = "ABSENT"
               /\ tags'[Entries[i].code] \in Statuses
            \/ import.seen[i] = "ABSENT" /\ tags[Entries[i].code] # "ABSENT" /\ tags' = tags
            \/ import.activate /\ import.seen[i] = "DRAFT" /\ tags'[Entries[i].code] = "ACTIVE"
            \/ /\ import.seen[i] # "ABSENT" /\ ~(import.activate /\ import.seen[i] = "DRAFT")
               /\ tags' = tags
<1>1. PICK code \in Codes, status \in Statuses : code = Entries[i].code /\ status = Entries[i].status
  BY EntryTypes
<1>2. /\ import.at = "running" /\ import.seen[i] \notin {"todo", "written"}
      /\ \E at \in {"running", "failed"} :
           import' = [import EXCEPT !.seen[i] = "written", !.at = at]
  BY DEF WriteEntry
<1>3. /\ import.seen \in [Positions -> Seen] /\ import \in ImportRow
      /\ tags \in [Codes -> Statuses \cup {"ABSENT"}]
  BY <1>2 DEF CatalogTypes
<1>4. PICK seen : seen = [import.seen EXCEPT ![i] = "written"]
  OBVIOUS
<1>5. /\ seen \in [Positions -> Seen] /\ seen[i] = "written"
      /\ \A j \in Positions : j # i => seen[j] = import.seen[j]
  BY <1>3, <1>4 DEF Seen
<1>6. PICK at \in {"running", "failed"} : import' = [import EXCEPT !.seen = seen, !.at = at]
  BY <1>2, <1>4
<1>7. /\ import' \in ImportRow /\ import'.at = at /\ import'.seen = seen
      /\ import'.activate = import.activate /\ import'.batch = import.batch
      /\ import'.before = import.before /\ import'.touched = import.touched
  BY <1>3, <1>5, <1>6 DEF ImportRow
<1>8. PICK created \in Statuses : created = IF import.activate THEN "ACTIVE" ELSE status
  BY DEF Statuses
<1>9. \/ /\ import.seen[i] = "ABSENT" /\ tags[code] = "ABSENT"
         /\ tags' = [tags EXCEPT ![code] = created]
      \/ import.seen[i] = "ABSENT" /\ tags[code] # "ABSENT" /\ tags' = tags
      \/ import.activate /\ import.seen[i] = "DRAFT" /\ tags' = [tags EXCEPT ![code] = "ACTIVE"]
      \/ /\ import.seen[i] # "ABSENT" /\ ~(import.activate /\ import.seen[i] = "DRAFT")
         /\ tags' = tags
  BY <1>1, <1>8 DEF WriteEntry, Promotes
<1>10. "ACTIVE" \in Statuses
  BY DEF Statuses
<1>11. /\ tags' \in [Codes -> Statuses \cup {"ABSENT"}]
       /\ \A c \in Codes : c # code => tags'[c] = tags[c]
  BY <1>3, <1>9, <1>10
<1>12. \/ import.seen[i] = "ABSENT" /\ tags[code] = "ABSENT" /\ tags'[code] \in Statuses
       \/ import.seen[i] = "ABSENT" /\ tags[code] # "ABSENT" /\ tags' = tags
       \/ import.activate /\ import.seen[i] = "DRAFT" /\ tags'[code] = "ACTIVE"
       \/ /\ import.seen[i] # "ABSENT" /\ ~(import.activate /\ import.seen[i] = "DRAFT")
          /\ tags' = tags
  BY <1>3, <1>9
<1>13. CatalogTypes'
  BY <1>2, <1>3, <1>5, <1>7, <1>11 DEF CatalogTypes
<1> QED
  BY <1>1, <1>2, <1>5, <1>7, <1>11, <1>12, <1>13

\* The end of a batch ends the run, or begins the next one.
LEMMA EndChange ==
  ASSUME CatalogTypes, EndBatch
  PROVE  /\ CatalogTypes' /\ tags' = tags
         /\ import.at = "running"
         /\ \A i \in Positions : (i - 1) \div BatchSize = import.batch => import.seen[i] = "written"
         /\ \/ import'.at = "done" /\ (import.batch + 1) * BatchSize >= Len(Entries)
            \/ import'.at = "running" /\ import'.batch = import.batch + 1
         /\ import'.seen = import.seen /\ import'.activate = import.activate
         /\ import'.before = import.before /\ import'.touched = import.touched
<1>1. /\ import.at = "running" /\ tags' = tags
      /\ \A i \in Positions : (i - 1) \div BatchSize = import.batch => import.seen[i] = "written"
  BY DEF EndBatch, Batch, Positions
<1>2. import \in ImportRow
  BY DEF CatalogTypes
<1>3. PICK next \in Nat : next = import.batch + 1
  BY <1>2 DEF ImportRow
<1>4. CASE (import.batch + 1) * BatchSize >= Len(Entries)
  <2>1. import' = [import EXCEPT !.at = "done"]
    BY <1>4 DEF EndBatch
  <2>2. /\ import' \in ImportRow /\ import'.at = "done"
        /\ import'.seen = import.seen /\ import'.activate = import.activate
        /\ import'.before = import.before /\ import'.touched = import.touched
    BY <1>2, <2>1 DEF ImportRow
  <2> QED
    BY <1>1, <1>4, <2>2 DEF CatalogTypes
<1>5. CASE ~((import.batch + 1) * BatchSize >= Len(Entries))
  <2>1. import' = [import EXCEPT !.batch = next]
    BY <1>3, <1>5 DEF EndBatch
  <2>2. /\ import' \in ImportRow /\ import'.at = import.at /\ import'.batch = next
        /\ import'.seen = import.seen /\ import'.activate = import.activate
        /\ import'.before = import.before /\ import'.touched = import.touched
    BY <1>2, <2>1 DEF ImportRow
  <2> QED
    BY <1>1, <1>3, <2>2 DEF CatalogTypes
<1> QED
  BY <1>4, <1>5

\* A catalogue starts with its types and no run.
LEMMA InitCatalog == CatalogInit => CatalogTypes /\ ImportInv
<1> SUFFICES ASSUME CatalogInit PROVE CatalogTypes /\ ImportInv
  OBVIOUS
<1>1. tags \in [Codes -> Statuses \cup {"ABSENT"}] /\ import = NoImport
  BY DEF CatalogInit
<1>2. import \in ImportRow /\ import.at = "idle"
  BY <1>1 DEF NoImport, ImportRow
<1> QED
  BY <1>1, <1>2 DEF CatalogTypes, ImportInv

\* Every step of the catalogue keeps its types.
LEMMA NextCatalogTypes == CatalogTypes /\ [CatalogNext]_catalogVars => CatalogTypes'
<1> SUFFICES ASSUME CatalogTypes, [CatalogNext]_catalogVars PROVE CatalogTypes'
  OBVIOUS
<1>1. ASSUME NEW c \in Codes, NEW s \in Statuses, UpdateErrorTagStatus(c, s) PROVE CatalogTypes'
  BY <1>1, UpdateChange
<1>2. CASE Seed
  BY <1>2, SeedChange
<1>3. ASSUME NEW f \in Statuses \cup {"ALL"}, ListErrorTags(f) PROVE tags' = tags /\ import' = import
  BY <1>3 DEF ListErrorTags
<1>4. ASSUME NEW activate \in BOOLEAN, StartImport(activate) PROVE CatalogTypes'
  BY <1>4, StartImportChange
<1>5. ASSUME NEW i \in Positions, ReadEntry(i) PROVE CatalogTypes'
  BY <1>5, ReadChange
<1>6. ASSUME NEW i \in Positions, WriteEntry(i) PROVE CatalogTypes'
  BY <1>6, WriteEntryChange
<1>7. CASE EndBatch
  BY <1>7, EndChange
<1>8. CASE UNCHANGED catalogVars
  BY <1>8 DEF catalogVars, CatalogTypes
<1>9. ASSUME tags' = tags /\ import' = import PROVE CatalogTypes'
  BY <1>9 DEF CatalogTypes
<1> QED
  BY <1>1, <1>2, <1>3, <1>4, <1>5, <1>6, <1>7, <1>8, <1>9 DEF CatalogNext, Positions

\* What a step of a run, or of the seed, does to a tag nobody has touched: it is created,
\* or it is a tag the run activates, and no decision made before the run.
Advances(c) ==
  \/ tags'[c] = tags[c]
  \/ tags[c] = "ABSENT" /\ tags'[c] \in Statuses
  \/ /\ import.activate /\ tags'[c] = "ACTIVE"
     /\ import.before[c] \notin {"ACTIVE", "DEPRECATED"}

\* A tag that advances is kept.
LEMMA KeptStays ==
  ASSUME NEW c, Kept(c), Advances(c),
         import'.before = import.before, import'.activate = import.activate
  PROVE  Kept(c)'
BY DEF Kept, Advances

\* What has been read of a tag that advances stays right.
LEMMA ReadStays ==
  ASSUME NEW i, Read(i), Advances(Entries[i].code), import'.seen[i] = import.seen[i],
         import'.before = import.before, import'.activate = import.activate
  PROVE  Read(i)'
BY DEF Read, Advances, Statuses

\* Every step of the catalogue keeps what a run knows of its tags.
LEMMA NextImport ==
  ASSUME CatalogTypes, ImportInv, [CatalogNext]_catalogVars
  PROVE  ImportInv'
<1>1. ASSUME tags' = tags /\ import' = import PROVE ImportInv'
  BY <1>1 DEF ImportInv, Kept, Read
<1>2. ASSUME NEW code \in Codes, NEW status \in Statuses, UpdateErrorTagStatus(code, status)
      PROVE  ImportInv'
  <2>1. /\ \A c \in Codes : c # code => tags'[c] = tags[c]
        /\ import'.touched = import.touched \cup {code}
        /\ import'.at = import.at /\ import'.activate = import.activate
        /\ import'.batch = import.batch /\ import'.seen = import.seen
        /\ import'.before = import.before
    BY <1>2, UpdateChange
  <2>2. ASSUME import'.at # "idle", NEW c \in Codes \ import'.touched PROVE Kept(c)'
    BY <2>1, <2>2, KeptStays DEF ImportInv, Advances
  <2>3. ASSUME import'.at # "idle", NEW i \in Positions, Entries[i].code \notin import'.touched
        PROVE  Read(i)'
    <3>1. Entries[i].code \in Codes /\ Entries[i].code # code
      BY <2>1, <2>3, EntryTypes
    <3> QED
      BY <3>1, <2>1, <2>3, ReadStays DEF ImportInv, Advances
  <2> QED
    BY <2>1, <2>2, <2>3 DEF ImportInv
<1>3. CASE Seed
  <2>1. import' = import
    BY <1>3, SeedChange
  <2>2. \A c \in Codes : Advances(c)
    BY <1>3, SeedChange DEF Advances
  <2>3. ASSUME import'.at # "idle", NEW c \in Codes \ import'.touched PROVE Kept(c)'
    BY <2>1, <2>2, <2>3, KeptStays DEF ImportInv
  <2>4. ASSUME import'.at # "idle", NEW i \in Positions, Entries[i].code \notin import'.touched
        PROVE  Read(i)'
    BY <2>1, <2>2, <2>4, ReadStays, EntryTypes DEF ImportInv
  <2> QED
    BY <2>1, <2>3, <2>4 DEF ImportInv
<1>4. ASSUME NEW activate \in BOOLEAN, StartImport(activate) PROVE ImportInv'
  <2>1. /\ tags' = tags
        /\ import'.at = "running" /\ import'.batch = 0 /\ import'.before = tags
        /\ \A i \in Positions : import'.seen[i] = "todo"
    BY <1>4, StartImportChange
  <2>2. ASSUME NEW c PROVE Kept(c)'
    BY <2>1 DEF Kept
  <2>3. ASSUME NEW i \in Positions PROVE Read(i)'
    BY <2>1 DEF Read
  <2>4. ASSUME NEW i \in Positions PROVE ~((i - 1) \div BatchSize < import'.batch)
    <3>1. i - 1 \in Nat /\ BatchSize \in Nat \ {0}
      BY CatalogAssumption DEF Positions
    <3>2. (i - 1) \div BatchSize \in Nat
      BY <3>1
    <3> QED
      BY <3>2, <2>1
  <2> QED
    BY <2>1, <2>2, <2>3, <2>4 DEF ImportInv
<1>5. ASSUME NEW i \in Positions, ReadEntry(i) PROVE ImportInv'
  <2>1. /\ tags' = tags /\ CatalogTypes
        /\ import.at = "running" /\ import'.at = "running"
        /\ (i - 1) \div BatchSize = import.batch /\ import.seen[i] = "todo"
        /\ import'.seen[i] = tags[Entries[i].code]
        /\ \A j \in Positions : j # i => import'.seen[j] = import.seen[j]
        /\ import'.activate = import.activate /\ import'.batch = import.batch
        /\ import'.before = import.before /\ import'.touched = import.touched
    BY <1>5, ReadChange
  <2>2. ASSUME NEW c \in Codes \ import'.touched PROVE Kept(c)'
    BY <2>1, KeptStays DEF ImportInv, Advances
  <2>3. ASSUME NEW j \in Positions, Entries[j].code \notin import'.touched PROVE Read(j)'
    <3>1. CASE j = i
      <4>1. Entries[i].code \in Codes /\ Kept(Entries[i].code)
        BY <2>1, <2>3, <3>1, EntryTypes DEF ImportInv
      <4>2. tags[Entries[i].code] \in Statuses \cup {"ABSENT"}
        BY <4>1 DEF CatalogTypes
      <4> QED
        BY <2>1, <3>1, <4>1, <4>2 DEF Read, Kept, Statuses
    <3>2. CASE j # i
      BY <2>1, <2>3, <3>2, ReadStays DEF ImportInv, Advances
    <3> QED
      BY <3>1, <3>2
  <2>4. ASSUME NEW j \in Positions, (j - 1) \div BatchSize < import'.batch
        PROVE  import'.seen[j] = "written"
    <3>1. j # i
      BY <2>1, <2>4 DEF ImportInv
    <3> QED
      BY <3>1, <2>1, <2>4 DEF ImportInv
  <2> QED
    BY <2>1, <2>2, <2>3, <2>4 DEF ImportInv
<1>6. ASSUME NEW i \in Positions, WriteEntry(i) PROVE ImportInv'
  <2> DEFINE code == Entries[i].code
  <2>1. /\ import.at = "running" /\ import'.at \in {"running", "failed"}
        /\ import.seen[i] \notin {"todo", "written"} /\ import'.seen[i] = "written"
        /\ \A j \in Positions : j # i => import'.seen[j] = import.seen[j]
        /\ import'.activate = import.activate /\ import'.batch = import.batch
        /\ import'.before = import.before /\ import'.touched = import.touched
        /\ \A c \in Codes : c # code => tags'[c] = tags[c]
        /\ \/ /\ import.seen[i] = "ABSENT" /\ tags[code] = "ABSENT"
              /\ tags'[code] \in Statuses
           \/ import.seen[i] = "ABSENT" /\ tags[code] # "ABSENT" /\ tags' = tags
           \/ import.activate /\ import.seen[i] = "DRAFT" /\ tags'[code] = "ACTIVE"
           \/ /\ import.seen[i] # "ABSENT" /\ ~(import.activate /\ import.seen[i] = "DRAFT")
              /\ tags' = tags
    BY <1>6, WriteEntryChange
  <2>2. code \in Codes
    BY EntryTypes
  <2>3. code \notin import.touched => Read(i) /\ Kept(code)
    BY <2>1, <2>2 DEF ImportInv
  <2>4. ASSUME NEW c \in Codes \ import.touched PROVE Advances(c)
    <3>1. CASE c = code
      BY <2>1, <2>3, <3>1 DEF Advances, Read
    <3>2. CASE c # code
      BY <2>1, <3>2 DEF Advances
    <3> QED
      BY <3>1, <3>2
  <2>5. ASSUME NEW c \in Codes \ import'.touched PROVE Kept(c)'
    BY <2>1, <2>4, KeptStays DEF ImportInv
  <2>6. ASSUME NEW j \in Positions, Entries[j].code \notin import'.touched PROVE Read(j)'
    <3>1. CASE j = i
      <4>1. Read(i) /\ Kept(code)
        BY <2>1, <2>3, <2>6, <3>1
      <4>2. tags'[code] # "ABSENT"
        BY <2>1, <4>1 DEF Read, Statuses
      <4>3. import.before[code] = "DRAFT" /\ import.activate => tags'[code] = "ACTIVE"
        BY <2>1, <4>1 DEF Read, Kept
      <4> QED
        BY <2>1, <3>1, <4>2, <4>3 DEF Read
    <3>2. CASE j # i
      <4>1. Entries[j].code \in Codes \ import.touched
        BY <2>1, <2>6, EntryTypes
      <4> QED
        BY <2>1, <2>4, <2>6, <3>2, <4>1, ReadStays DEF ImportInv
    <3> QED
      BY <3>1, <3>2
  <2>7. ASSUME NEW j \in Positions, (j - 1) \div BatchSize < import'.batch
        PROVE  import'.seen[j] = "written"
    BY <2>1, <2>7 DEF ImportInv
  <2> QED
    BY <2>1, <2>5, <2>6, <2>7 DEF ImportInv
<1>7. CASE EndBatch
  <2>1. /\ tags' = tags /\ import.at = "running"
        /\ \A i \in Positions : (i - 1) \div BatchSize = import.batch => import.seen[i] = "written"
        /\ \/ import'.at = "done" /\ (import.batch + 1) * BatchSize >= Len(Entries)
           \/ import'.at = "running" /\ import'.batch = import.batch + 1
        /\ import'.seen = import.seen /\ import'.activate = import.activate
        /\ import'.before = import.before /\ import'.touched = import.touched
    BY <1>7, EndChange
  <2>2. PICK k \in Nat : k = import.batch
    BY DEF CatalogTypes, ImportRow
  <2>3. ASSUME NEW i \in Positions, (i - 1) \div BatchSize <= k PROVE import.seen[i] = "written"
    <3>1. i - 1 \in Nat /\ BatchSize \in Nat \ {0}
      BY CatalogAssumption DEF Positions
    <3>2. (i - 1) \div BatchSize \in Nat
      BY <3>1
    <3>3. (i - 1) \div BatchSize < k \/ (i - 1) \div BatchSize = k
      BY <2>2, <2>3, <3>2
    <3> QED
      BY <2>1, <2>2, <3>3 DEF ImportInv
  <2>4. ASSUME NEW c \in Codes \ import'.touched PROVE Kept(c)'
    BY <2>1, KeptStays DEF ImportInv, Advances
  <2>5. ASSUME NEW i \in Positions, Entries[i].code \notin import'.touched PROVE Read(i)'
    BY <2>1, <2>5, ReadStays DEF ImportInv, Advances
  <2>6. ASSUME import'.at = "running", NEW i \in Positions, (i - 1) \div BatchSize < import'.batch
        PROVE  import'.seen[i] = "written"
    <3>1. i - 1 \in Nat /\ BatchSize \in Nat \ {0}
      BY CatalogAssumption DEF Positions
    <3>2. (i - 1) \div BatchSize \in Nat /\ import'.batch = k + 1
      BY <2>1, <2>2, <2>6, <3>1
    <3>3. (i - 1) \div BatchSize <= k
      BY <2>6, <3>2
    <3> QED
      BY <2>1, <2>3, <3>3
  <2>7. ASSUME import'.at = "done", NEW i \in Positions PROVE import'.seen[i] = "written"
    <3>1. i - 1 \in Nat /\ BatchSize \in Nat \ {0}
      BY CatalogAssumption DEF Positions
    <3>2. (k + 1) * BatchSize >= Len(Entries) /\ Len(Entries) \in Nat
      BY <2>1, <2>2, <2>7, CatalogAssumption
    <3>3. PICK bound \in Nat : bound = (k + 1) * BatchSize
      BY <3>1, <2>2
    <3>4. i - 1 < (k + 1) * BatchSize
      BY <3>2, <3>3 DEF Positions
    <3>5. (i - 1) \div BatchSize <= k
      BY <3>1, <3>4, BatchOf
    <3> QED
      BY <2>1, <2>3, <3>5
  <2> QED
    BY <2>1, <2>4, <2>5, <2>6, <2>7 DEF ImportInv
<1>8. ASSUME NEW f \in Statuses \cup {"ALL"}, ListErrorTags(f) PROVE ImportInv'
  <2>1. tags' = tags /\ import' = import
    BY <1>8 DEF ListErrorTags
  <2> QED
    BY <1>1, <2>1
<1>9. CASE UNCHANGED catalogVars
  BY <1>1, <1>9 DEF catalogVars
<1> QED
  BY <1>2, <1>3, <1>4, <1>5, <1>6, <1>7, <1>8, <1>9 DEF CatalogNext, Positions

\* What holds when a run ends is the property.
LEMMA CurationKept == CatalogTypes /\ ImportInv => ImportKeepsCuration
<1> SUFFICES ASSUME CatalogTypes, ImportInv, import.at = "done", NEW i \in 1..Len(Entries),
                    Entries[i].code \notin import.touched
             PROVE  LET code == Entries[i].code
                    IN  /\ tags[code] # "ABSENT"
                        /\ import.before[code] \in {"ACTIVE", "DEPRECATED"} =>
                             tags[code] = import.before[code]
                        /\ import.before[code] = "DRAFT" =>
                             tags[code] = IF import.activate THEN "ACTIVE" ELSE "DRAFT"
  BY DEF ImportKeepsCuration
<1>1. i \in Positions /\ Entries[i].code \in Codes
  BY EntryTypes DEF Positions
<1>2. Read(i) /\ Kept(Entries[i].code) /\ import.seen[i] = "written"
  BY <1>1 DEF ImportInv
<1> QED
  BY <1>2 DEF Read, Kept

-----------------------------------------------------------------------------
(* Browsing the catalogue *)


\* A finite set of numbers that is not empty has a largest one: one that the fewest exceed.
LEMMA LargestNumber ==
  ASSUME NEW S, S \subseteq Nat, IsFiniteSet(S), S # {}
  PROVE  Max(S) \in S /\ \A x \in S : x <= Max(S)
<1> DEFINE Above(x) == {y \in S : y > x}
           T == {n \in Nat : \E x \in S : n = Cardinality(Above(x))}
<1>1. \A x \in S : IsFiniteSet(Above(x)) /\ Cardinality(Above(x)) \in Nat
  <2> TAKE x \in S
  <2>1. Above(x) \in SUBSET S
    OBVIOUS
  <2> HIDE DEF Above
  <2> QED
    BY <2>1, FS_Subset, FS_CardinalityType
<1>2. PICK n \in T : \A m \in T : n <= m
  <2>1. T \subseteq Nat /\ T # {}
    BY <1>1
  <2> HIDE DEF T
  <2> QED
    BY <2>1, LeastNumber
<1>3. PICK x \in S : n = Cardinality(Above(x))
  OBVIOUS
<1>4. ASSUME NEW y \in S, y > x PROVE FALSE
  <2>0. \A z \in S : z \in Nat
    OBVIOUS
  <2>1. Above(y) \in SUBSET Above(x) /\ y \in Above(x) /\ y \notin Above(y)
    <3>1. ASSUME NEW z \in Above(y) PROVE z \in Above(x)
      BY <1>4, <2>0
    <3>2. ~(y > y)
      BY <2>0
    <3> QED
      BY <1>4, <3>1, <3>2
  <2> HIDE DEF Above
  <2>2. Cardinality(Above(y)) <= Cardinality(Above(x)) /\ Cardinality(Above(y)) # Cardinality(Above(x))
    BY <1>1, <2>1, FS_Subset
  <2>3. Cardinality(Above(y)) \in Nat /\ Cardinality(Above(x)) \in Nat
    BY <1>1
  <2>4. Cardinality(Above(y)) \in T
    BY <2>3
  <2>5. n <= Cardinality(Above(y))
    <3> HIDE DEF T
    <3> QED
      BY <1>2, <2>4
  <2> QED
    BY <1>3, <2>2, <2>3, <2>5
<1>5. \A y \in S : x >= y
  BY <1>4
<1>6. Max(S) \in S /\ \A y \in S : Max(S) >= y
  BY <1>5 DEF Max
<1> QED
  BY <1>6

\* The first codes of a set are finitely many, with every code that is smaller.
LEMMA FirstOnes ==
  ASSUME NEW S, S \subseteq Nat, IsFiniteSet(S), NEW n \in Nat
  PROVE  /\ First(n, S) \subseteq S /\ IsFiniteSet(First(n, S))
         /\ Cardinality(First(n, S)) \in Nat
         /\ \A c \in First(n, S), d \in S : d < c => d \in First(n, S)
<1> DEFINE Smaller(c) == {d \in S : d < c}
<1>1. \A c : IsFiniteSet(Smaller(c)) /\ Cardinality(Smaller(c)) \in Nat
  <2> TAKE c
  <2>1. Smaller(c) \in SUBSET S
    OBVIOUS
  <2> HIDE DEF Smaller
  <2> QED
    BY <2>1, FS_Subset, FS_CardinalityType
<1>2. ASSUME NEW c \in First(n, S), NEW d \in S, d < c PROVE d \in First(n, S)
  <2>1. c \in S /\ Cardinality(Smaller(c)) < n
    BY DEF First
  <2>2. Smaller(d) \in SUBSET Smaller(c)
    <3>1. ASSUME NEW e \in Smaller(d) PROVE e \in Smaller(c)
      <4>1. e \in Nat /\ d \in Nat /\ c \in Nat /\ e < d
        BY <2>1
      <4> QED
        BY <1>2, <4>1
    <3> QED
      BY <3>1
  <2> HIDE DEF Smaller
  <2>3. Cardinality(Smaller(d)) <= Cardinality(Smaller(c))
    BY <1>1, <2>2, FS_Subset
  <2>4. Cardinality(Smaller(d)) < n
    BY <1>1, <2>1, <2>3
  <2> QED
    BY <2>4 DEF First, Smaller
<1>3. First(n, S) \in SUBSET S
  BY DEF First
<1> QED
  BY <1>2, <1>3, FS_Subset, FS_CardinalityType

\* When fewer are found than were asked for, these are all there are.
LEMMA FirstAreAll ==
  ASSUME NEW S, S \subseteq Nat, IsFiniteSet(S), NEW n \in Nat,
         Cardinality(First(n + 1, S)) <= n
  PROVE  First(n + 1, S) = S /\ First(n, S) = S
<1> DEFINE Smaller(c) == {d \in S : d < c}
           rows == First(n + 1, S)
           rest == S \ rows
<1>1. \A c : IsFiniteSet(Smaller(c)) /\ Cardinality(Smaller(c)) \in Nat
  <2> TAKE c
  <2>1. Smaller(c) \in SUBSET S
    OBVIOUS
  <2> HIDE DEF Smaller
  <2> QED
    BY <2>1, FS_Subset, FS_CardinalityType
<1>2. rows \subseteq S /\ IsFiniteSet(rows) /\ Cardinality(rows) \in Nat
  <2>1. n + 1 \in Nat
    OBVIOUS
  <2> QED
    BY <2>1, FirstOnes
<1>3. ASSUME rest # {} PROVE FALSE
  <2>1. PICK c \in rest : \A d \in rest : c <= d
    BY <1>3, LeastNumber
  <2>2. Smaller(c) \in SUBSET rows
    <3>1. ASSUME NEW d \in Smaller(c), d \notin rows PROVE FALSE
      <4>1. d \in Nat /\ c \in Nat /\ d < c /\ d \in rest
        BY <3>1
      <4> QED
        BY <2>1, <4>1
    <3> QED
      BY <3>1
  <2>3. ~(Cardinality(Smaller(c)) < n + 1)
    BY <2>1 DEF First
  <2> HIDE DEF Smaller, rows
  <2>4. Cardinality(Smaller(c)) <= Cardinality(rows)
    BY <1>2, <2>2, FS_Subset
  <2>5. Cardinality(rows) <= n
    BY DEF rows
  <2> QED
    BY <1>1, <1>2, <2>3, <2>4, <2>5
<1>4. rows = S
  BY <1>2, <1>3
<1>5. ASSUME NEW c \in S PROVE Cardinality(Smaller(c)) < n
  <2>1. Smaller(c) \in SUBSET S /\ Smaller(c) # S
    OBVIOUS
  <2> HIDE DEF Smaller
  <2>2. Cardinality(Smaller(c)) <= Cardinality(S) /\ Cardinality(Smaller(c)) # Cardinality(S)
    BY <2>1, FS_Subset
  <2>3. Cardinality(S) <= n /\ Cardinality(S) \in Nat
    BY <1>2, <1>4
  <2> QED
    BY <1>1, <2>2, <2>3
<1>6. First(n, S) = S
  BY <1>5 DEF First
<1> QED
  BY <1>4, <1>6

\* Only one is the first.
LEMMA FirstOne ==
  ASSUME NEW S, S \subseteq Nat, IsFiniteSet(S)
  PROVE  /\ \A c \in S \ First(1, S) : \E d \in S : d < c
         /\ \A c \in First(1, S), d \in S : c <= d
         /\ Cardinality(First(1, S)) <= 1
<1> DEFINE Smaller(c) == {d \in S : d < c}
<1>1. \A c : /\ IsFiniteSet(Smaller(c)) /\ Cardinality(Smaller(c)) \in Nat
             /\ Cardinality(Smaller(c)) = 0 <=> Smaller(c) = {}
  <2> TAKE c
  <2>1. Smaller(c) \in SUBSET S
    OBVIOUS
  <2> HIDE DEF Smaller
  <2>2. IsFiniteSet(Smaller(c))
    BY <2>1, FS_Subset
  <2> QED
    BY <2>2, FS_CardinalityType, FS_EmptySet
<1>2. \A c \in S : c \in First(1, S) <=> Smaller(c) = {}
  <2> TAKE c \in S
  <2>1. c \in First(1, S) <=> Cardinality(Smaller(c)) < 1
    BY DEF First
  <2> HIDE DEF Smaller
  <2> QED
    BY <1>1, <2>1
<1>3. First(1, S) \subseteq S
  BY DEF First
<1>4. \A c \in S \ First(1, S) : \E d \in S : d < c
  BY <1>2
<1>5. ASSUME NEW c \in First(1, S), NEW d \in S PROVE c <= d
  <2>1. c \in Nat /\ d \in Nat /\ ~(d < c)
    BY <1>2, <1>3
  <2> QED
    BY <2>1
<1>6. Cardinality(First(1, S)) <= 1
  <2>1. CASE First(1, S) = {}
    BY <2>1, FS_EmptySet
  <2>2. CASE First(1, S) # {}
    <3>1. PICK c \in First(1, S) : TRUE
      BY <2>2
    <3>2. ASSUME NEW d \in First(1, S) PROVE d = c
      <4>1. c <= d /\ d <= c /\ c \in Nat /\ d \in Nat
        BY <1>3, <1>5, <3>1
      <4> QED
        BY <4>1
    <3>3. First(1, S) = {c}
      BY <3>2
    <3> QED
      BY <3>3, FS_Singleton
  <2> QED
    BY <2>1, <2>2
<1> QED
  BY <1>4, <1>5, <1>6

\* The page that is shown after the cursor.
Page(filter, cursor) == First(PageSize, Query(filter, cursor))

\* The tag that is skipped in place of the cursor, or the cursor itself.
Skipped(filter, cursor) == IF cursor = 0 THEN {} ELSE First(1, From(filter, cursor))

\* A page holds, of what matches beyond the cursor, all as far as its last tag but for the
\* tag that is skipped; that is the cursor itself while it matches.
LEMMA PageOf ==
  ASSUME NEW filter, NEW k \in Nat
  PROVE  LET next == NextCursor(Query(filter, k))
         IN  /\ Page(filter, k) \subseteq {c \in Matching(tags, filter) : c > k}
             /\ IsFiniteSet(Skipped(filter, k)) /\ Cardinality(Skipped(filter, k)) <= 1
             /\ k \in Matching(tags, filter) => Skipped(filter, k) \subseteq {k}
             /\ next = 0 => {c \in Matching(tags, filter) : c > k}
                               \subseteq Page(filter, k) \cup Skipped(filter, k)
             /\ next # 0 => /\ next \in Page(filter, k)
                            /\ \A c \in Page(filter, k) : c <= next
                            /\ {c \in Matching(tags, filter) : c > k /\ c <= next}
                                  \subseteq Page(filter, k) \cup Skipped(filter, k)
<1> DEFINE M == Matching(tags, filter)
           from == From(filter, k)
           skipped == Skipped(filter, k)
           S == from \ skipped
           rows == Query(filter, k)
           page == First(PageSize, rows)
           next == NextCursor(rows)
<1>1. M \subseteq Codes /\ from \subseteq M /\ Codes \subseteq Nat \ {0} /\ IsFiniteSet(Codes)
  BY CatalogAssumption DEF Matching, From
<1>2. PageSize \in Nat \ {0} /\ PageSize + 1 \in Nat
  BY CatalogAssumption
<1>3. from \subseteq Nat /\ IsFiniteSet(from)
  BY <1>1, FS_Subset
<1>4. skipped \subseteq from /\ S \subseteq Nat /\ IsFiniteSet(S)
  <2>1. skipped \subseteq from
    BY DEF Skipped, First
  <2>2. S \in SUBSET from
    OBVIOUS
  <2> HIDE DEF from, S
  <2> QED
    BY <1>3, <2>1, <2>2, FS_Subset
<1>5. rows = First(PageSize + 1, S)
  <2>1. CASE k = 0
    BY <2>1 DEF Query, Skipped
  <2>2. CASE k # 0
    BY <2>2 DEF Query, Skipped
  <2> QED
    BY <2>1, <2>2
<1>0. ASSUME NEW c \in M PROVE c \in Nat /\ c > 0
  <2>1. c \in Nat /\ c # 0
    BY <1>1
  <2> QED
    BY <2>1
<1>6. ASSUME NEW c \in M, c > k PROVE c \in from
  <2>1. c \in Nat
    BY <1>0
  <2> QED
    BY <1>6, <2>1 DEF From
<1>7. \A c \in S : c > k
  <2>1. CASE k = 0
    BY <1>0, <1>1, <2>1
  <2>2. CASE k # 0
    <3>1. skipped = First(1, from)
      BY <2>2 DEF Skipped
    <3>2. \A c \in from : c >= k
      BY DEF From
    <3>3. ASSUME NEW c \in S PROVE c > k
      <4>1. PICK d \in from : d < c
        BY <1>3, <3>1, FirstOne
      <4> QED
        BY <1>3, <3>2, <4>1
    <3> QED
      BY <3>3
  <2> QED
    BY <2>1, <2>2
<1>8. IsFiniteSet(skipped) /\ Cardinality(skipped) <= 1
  <2>1. CASE k = 0
    BY <2>1, FS_EmptySet DEF Skipped
  <2>2. CASE k # 0
    <3>1. skipped = First(1, from)
      BY <2>2 DEF Skipped
    <3> HIDE DEF skipped, from
    <3>2. Cardinality(skipped) <= 1
      BY <1>3, <3>1, FirstOne
    <3>3. IsFiniteSet(skipped)
      BY <1>3, <1>4, FS_Subset
    <3> QED
      BY <3>2, <3>3
  <2> QED
    BY <2>1, <2>2
<1>9. k \in M => skipped \subseteq {k}
  <2>1. SUFFICES ASSUME k \in M, NEW c \in skipped PROVE c = k
    OBVIOUS
  <2>2. k \in from /\ k # 0
    BY <1>1, <2>1 DEF From
  <2>3. skipped = First(1, from)
    BY <2>2 DEF Skipped
  <2>4. c <= k
    BY <1>3, <2>2, <2>3, FirstOne
  <2>5. c \in from /\ c >= k
    BY <1>4 DEF From
  <2> QED
    BY <1>3, <2>4, <2>5
<1>10. rows \subseteq S /\ IsFiniteSet(rows) /\ \A c \in rows, d \in S : d < c => d \in rows
  <2> HIDE DEF S, rows
  <2> QED
    BY <1>2, <1>4, <1>5, FirstOnes
<1>11. page \subseteq rows /\ IsFiniteSet(page) /\ \A c \in page, d \in rows : d < c => d \in page
  <2>1. rows \subseteq Nat
    BY <1>4, <1>10
  <2> HIDE DEF rows
  <2> QED
    BY <1>2, <1>10, <2>1, FirstOnes
<1>12. page \subseteq {c \in M : c > k}
  <2> HIDE DEF M, page, rows
  <2> QED
    BY <1>1, <1>7, <1>10, <1>11
<1>13. CASE Cardinality(rows) > PageSize
  <2>1. next = Max(page)
    BY <1>13 DEF NextCursor
  <2>2. page # {}
    <3>1. rows # {}
      <4>1. Cardinality({}) = 0
        BY FS_EmptySet
      <4> HIDE DEF rows
      <4> QED
        BY <1>2, <1>13, <4>1
    <3>2. rows \subseteq Nat
      BY <1>4, <1>10
    <3>3. PICK c \in rows : \A d \in rows : c <= d
      <4> HIDE DEF rows
      <4> QED
        BY <3>1, <3>2, LeastNumber
    <3>4. {d \in rows : d < c} = {}
      <4> HIDE DEF rows
      <4>1. ASSUME NEW d \in rows, d < c PROVE FALSE
        <5>1. d \in Nat /\ c \in Nat /\ c <= d
          BY <3>2, <3>3
        <5> QED
          BY <4>1, <5>1
      <4> QED
        BY <4>1
    <3>5. c \in page
      <4> HIDE DEF rows
      <4>1. Cardinality({d \in rows : d < c}) < PageSize
        BY <1>2, <3>4, FS_EmptySet
      <4> QED
        BY <4>1 DEF First
    <3> QED
      BY <3>5
  <2>3. page \subseteq Nat
    BY <1>4, <1>10, <1>11
  <2>4. next \in page /\ \A c \in page : c <= next
    <3> HIDE DEF page, next
    <3> QED
      BY <1>11, <2>1, <2>2, <2>3, LargestNumber
  <2>5. next # 0
    <3> HIDE DEF page, next, M
    <3> QED
      BY <1>1, <1>12, <2>4
  <2>6. ASSUME NEW c \in M, c > k, c <= next, c \notin skipped PROVE c \in page
    <3>1. c \in S
      BY <1>6, <2>6
    <3> HIDE DEF page, next, M, rows, S
    <3>2. next \in Nat /\ c \in Nat /\ (c < next \/ c = next)
      BY <1>4, <2>3, <2>4, <2>6, <3>1
    <3>3. c < next => c \in rows
      BY <1>10, <1>11, <2>4, <3>1
    <3> QED
      BY <1>11, <2>4, <3>2, <3>3
  <2> HIDE DEF M, page, rows, skipped, next
  <2>7. /\ next # 0 /\ next \in page
        /\ \A c \in page : c <= next
        /\ {c \in M : c > k /\ c <= next} \subseteq page \cup skipped
    BY <2>4, <2>5, <2>6
  <2> QED
    BY <1>8, <1>9, <1>12, <2>7 DEF Page, M, page, rows, skipped, next
<1>14. CASE ~(Cardinality(rows) > PageSize)
  <2>1. next = 0
    BY <1>14 DEF NextCursor
  <2>2. Cardinality(First(PageSize + 1, S)) <= PageSize
    <3>1. Cardinality(rows) \in Nat
      BY <1>10, FS_CardinalityType
    <3> HIDE DEF rows, S
    <3> QED
      BY <1>2, <1>5, <1>14, <3>1
  <2>3. First(PageSize + 1, S) = S /\ First(PageSize, S) = S
    <3> HIDE DEF S
    <3> QED
      BY <1>2, <1>4, <2>2, FirstAreAll
  <2>4. page = S
    <3> HIDE DEF S, rows
    <3> QED
      BY <1>5, <2>3
  <2>5. {c \in M : c > k} \subseteq page \cup skipped
    BY <1>6, <2>4
  <2> HIDE DEF M, page, rows, skipped, next
  <2> QED
    BY <1>8, <1>9, <1>12, <2>1, <2>5 DEF Page, M, page, rows, skipped, next
<1> QED
  BY <1>13, <1>14

ListingTypes ==
  listing \in [at : {"idle", "more", "done"}, filter : Statuses \cup {"ALL"}, cursor : Nat,
               pages : Seq(SUBSET Codes), steady : SUBSET Codes, gaps : Nat]

\* What a listing has gone past, although it matches throughout and has not been listed.
Missed == {c \in listing.steady : listing.at = "done" \/ c <= listing.cursor} \ Listed

Rising(pages) ==
  \A i, j \in DOMAIN pages : i < j => \A c \in pages[i], d \in pages[j] : c < d

\* ListingIsComplete is about the last page.  It rests on what each page leaves: nothing
\* listed is beyond the cursor, and what has been passed over is paid for by a gap.
ListingInv ==
  /\ listing.at = "idle" => listing = NoListing
  /\ listing.at # "idle" => listing.steady \subseteq Matching(tags, listing.filter)
  /\ listing.at # "done" => \A c \in Listed : c <= listing.cursor
  /\ listing.at = "more" => listing.cursor # 0
  /\ Rising(listing.pages)
  /\ Cardinality(Missed) <= listing.gaps

\* What two finite sets cover is no more than the two together.
LEMMA CoverBound ==
  ASSUME NEW S, NEW T, NEW U, IsFiniteSet(S), IsFiniteSet(T), U \subseteq S \cup T
  PROVE  Cardinality(U) <= Cardinality(S) + Cardinality(T)
<1>1. IsFiniteSet(S \cup T) /\ IsFiniteSet(S \cap T)
      /\ Cardinality(S \cup T) = Cardinality(S) + Cardinality(T) - Cardinality(S \cap T)
  BY FS_Union, FS_Intersection
<1>2. IsFiniteSet(U) /\ Cardinality(U) <= Cardinality(S \cup T)
  BY <1>1, FS_Subset
<1>3. /\ Cardinality(S) \in Nat /\ Cardinality(T) \in Nat /\ Cardinality(U) \in Nat
      /\ Cardinality(S \cap T) \in Nat /\ Cardinality(S \cup T) \in Nat
  BY <1>1, <1>2, FS_CardinalityType
<1> QED
  BY <1>1, <1>2, <1>3

\* What has been missed is finite.
LEMMA MissedFinite ==
  ASSUME ListingTypes
  PROVE  IsFiniteSet(Missed) /\ Cardinality(Missed) \in Nat
<1>1. Missed \in SUBSET Codes /\ IsFiniteSet(Codes)
  BY CatalogAssumption DEF Missed, ListingTypes
<1> QED
  BY <1>1, FS_Subset, FS_CardinalityType

\* A page more: what was listed before and the page.
LEMMA AnotherPage ==
  ASSUME NEW pages \in Seq(SUBSET Codes), NEW page \in SUBSET Codes, Rising(pages),
         NEW k \in Nat,
         \A c \in UNION {pages[i] : i \in DOMAIN pages} : c <= k,
         \A c \in page : c > k
  PROVE  LET more == Append(pages, page)
         IN  /\ more \in Seq(SUBSET Codes) /\ Rising(more)
             /\ UNION {more[i] : i \in DOMAIN more}
                  = (UNION {pages[i] : i \in DOMAIN pages}) \cup page
<1> DEFINE more == Append(pages, page)
<1>1. PICK n \in Nat : n = Len(pages)
  OBVIOUS
<1>2. /\ more \in Seq(SUBSET Codes) /\ DOMAIN pages = 1..n /\ DOMAIN more = 1..(n + 1)
      /\ more[n + 1] = page /\ \A i \in 1..n : more[i] = pages[i]
  BY <1>1
<1>3. Codes \subseteq Nat /\ \A i \in 1..n : pages[i] \subseteq Codes
  BY <1>1, CatalogAssumption
<1> HIDE DEF more
<1>4. UNION {more[i] : i \in DOMAIN more} = (UNION {pages[i] : i \in DOMAIN pages}) \cup page
  <2>1. \A i \in 1..(n + 1) : i \in 1..n \/ i = n + 1
    OBVIOUS
  <2>2. \A i \in 1..n : i \in 1..(n + 1)
    OBVIOUS
  <2>3. n + 1 \in 1..(n + 1)
    OBVIOUS
  <2>4. ASSUME NEW c \in UNION {more[i] : i \in DOMAIN more}
        PROVE  c \in (UNION {pages[i] : i \in DOMAIN pages}) \cup page
    BY <1>2, <2>1
  <2>5. ASSUME NEW c \in (UNION {pages[i] : i \in DOMAIN pages}) \cup page
        PROVE  c \in UNION {more[i] : i \in DOMAIN more}
    BY <1>2, <2>2, <2>3
  <2> QED
    BY <2>4, <2>5
<1>5. ASSUME NEW i \in DOMAIN more, NEW j \in DOMAIN more, i < j,
             NEW c \in more[i], NEW d \in more[j]
      PROVE  c < d
  <2>1. i \in 1..n
    BY <1>2, <1>5
  <2>2. c \in pages[i] /\ c \in Nat
    BY <1>2, <1>3, <2>1
  <2>3. CASE j \in 1..n
    BY <1>2, <1>5, <2>1, <2>2, <2>3 DEF Rising
  <2>4. CASE j = n + 1
    <3>1. d \in page /\ d \in Nat
      BY <1>2, <1>3, <2>4
    <3>2. c <= k
      BY <1>2, <2>1, <2>2
    <3>3. d > k
      BY <3>1
    <3> QED
      BY <2>2, <3>1, <3>2, <3>3
  <2> QED
    BY <1>2, <2>3, <2>4
<1>6. Rising(more)
  BY <1>5 DEF Rising
<1> QED
  BY <1>2, <1>4, <1>6 DEF more

\* Turning a page keeps the listing right.
LEMMA PageTurned ==
  ASSUME CatalogTypes, ListingTypes, ListingInv, NEW f \in Statuses \cup {"ALL"},
         ListErrorTags(f)
  PROVE  ListingTypes' /\ ListingInv'
<1>1. PICK k \in Nat, pages \in Seq(SUBSET Codes), gaps \in Nat, steady \in SUBSET Codes :
        /\ k = listing.cursor /\ pages = listing.pages /\ gaps = listing.gaps
        /\ steady = listing.steady
  BY DEF ListingTypes
<1>2. PICK next : next = NextCursor(Query(f, k))
  OBVIOUS
<1>3. PICK page : page = Page(f, k)
  OBVIOUS
<1>4. PICK skipped : skipped = Skipped(f, k)
  OBVIOUS
<1>5. PICK M : M = Matching(tags, f)
  OBVIOUS
<1>6. /\ page \subseteq {c \in M : c > k}
      /\ IsFiniteSet(skipped) /\ Cardinality(skipped) <= 1
      /\ k \in M => skipped \subseteq {k}
      /\ next = 0 => {c \in M : c > k} \subseteq page \cup skipped
      /\ next # 0 => /\ next \in page
                     /\ \A c \in page : c <= next
                     /\ {c \in M : c > k /\ c <= next} \subseteq page \cup skipped
  BY <1>2, <1>3, <1>4, <1>5, PageOf
<1>7. M \subseteq Codes /\ Codes \subseteq Nat /\ IsFiniteSet(Codes)
  BY <1>5, CatalogAssumption DEF Matching
<1>8. page \in SUBSET Codes /\ next \in Nat
  <2>1. page \subseteq Codes /\ (next # 0 => next \in Codes)
    BY <1>6, <1>7
  <2>2. CASE next = 0
    BY <2>1, <2>2
  <2>3. CASE next # 0
    <3>1. next \in Codes
      BY <2>1, <2>3
    <3> QED
      BY <1>7, <2>1, <3>1
  <2> QED
    BY <2>2, <2>3
<1>9. PICK first \in BOOLEAN : first <=> listing.at = "idle"
  OBVIOUS
<1>10. PICK steady2 : steady2 = IF first THEN M ELSE steady
  OBVIOUS
<1>11. PICK gaps2 \in Nat : gaps2 = gaps + IF ~first /\ k \notin M THEN 1 ELSE 0
  OBVIOUS
<1>12. PICK more : more = Append(pages, page)
  OBVIOUS
<1>13. PICK at \in {"more", "done"} : at = IF next = 0 THEN "done" ELSE "more"
  OBVIOUS
<1>14. /\ listing' = [at |-> at, filter |-> f, cursor |-> next, pages |-> more,
                      steady |-> steady2, gaps |-> gaps2]
       /\ tags' = tags /\ listing.at # "done" /\ (first \/ f = listing.filter)
  BY <1>1, <1>2, <1>3, <1>5, <1>9, <1>10, <1>11, <1>12, <1>13 DEF ListErrorTags, Page
<1>15. PICK listed : listed = Listed
  OBVIOUS
<1>16. /\ \A c \in listed : c <= k
       /\ Rising(pages) /\ listed = UNION {pages[i] : i \in DOMAIN pages}
  BY <1>1, <1>14, <1>15 DEF ListingInv, Listed
<1>17. \A c \in page : c > k
  BY <1>6
<1>18. /\ more \in Seq(SUBSET Codes) /\ Rising(more)
       /\ UNION {more[i] : i \in DOMAIN more} = listed \cup page
  BY <1>8, <1>12, <1>16, <1>17, AnotherPage
<1>19. steady2 \in SUBSET Codes
  BY <1>7, <1>10
<1>20. /\ listing'.at = at /\ listing'.filter = f /\ listing'.cursor = next
       /\ listing'.pages = more /\ listing'.steady = steady2 /\ listing'.gaps = gaps2
  BY <1>14
<1>21. ListingTypes'
  BY <1>8, <1>14, <1>18, <1>19 DEF ListingTypes
<1>22. Listed' = listed \cup page
  BY <1>18, <1>20 DEF Listed
<1>23. listing.at # "idle" => steady \subseteq M
  BY <1>1, <1>5, <1>9, <1>14 DEF ListingInv
<1>24. steady2 \subseteq M
  BY <1>9, <1>10, <1>23
<1>25. next # 0 => \A c \in listed \cup page : c <= next
  <2>1. SUFFICES ASSUME next # 0, NEW c \in listed PROVE c <= next
    BY <1>6
  <2>2. c \in Codes /\ c <= k
    BY <1>1, <1>15, <1>16 DEF Listed, ListingTypes
  <2>3. c \in Nat /\ next > k
    BY <1>6, <1>7, <2>1, <2>2
  <2> QED
    BY <1>8, <2>2, <2>3
<1>26. PICK missed : missed = Missed
  OBVIOUS
<1>27. /\ missed = {c \in steady : c <= k} \ listed
       /\ Cardinality(missed) <= gaps /\ IsFiniteSet(missed) /\ Cardinality(missed) \in Nat
  BY <1>1, <1>14, <1>15, <1>26, MissedFinite DEF Missed, ListingInv
<1>28. PICK missed2 : missed2 = {c \in steady2 : next = 0 \/ c <= next} \ (listed \cup page)
  OBVIOUS
<1>29. Missed' = missed2
  <2>1. at = "done" <=> next = 0
    BY <1>13
  <2> QED
    BY <1>20, <1>22, <1>28, <2>1 DEF Missed
<1>30. ASSUME NEW c \in missed2, c > k PROVE c \in skipped
  <2>1. c \in M /\ (next = 0 \/ c <= next) /\ c \notin page
    BY <1>24, <1>28
  <2> QED
    BY <1>6, <1>30, <2>1
<1>31. ASSUME NEW c \in missed2, ~first, c <= k PROVE c \in missed
  BY <1>10, <1>27, <1>28, <1>31
<1>32. \A c \in missed2 : c \in Nat /\ c \in Codes
  BY <1>7, <1>19, <1>28
<1>33. Cardinality(missed2) <= gaps2
  <2>1. CASE first
    <3>1. k = 0
      BY <1>1, <1>9, <2>1 DEF ListingInv, NoListing
    <3>2. skipped = {}
      BY <1>4, <3>1 DEF Skipped
    <3>3. 0 \notin Codes
      BY CatalogAssumption
    <3>4. ASSUME NEW c \in missed2 PROVE FALSE
      <4>1. c \in Nat /\ c # 0
        BY <1>32, <3>3
      <4>2. c > k
        BY <3>1, <4>1
      <4> QED
        BY <1>30, <3>2, <4>2
    <3>5. missed2 = {}
      BY <3>4
    <3> QED
      BY <3>5, FS_EmptySet
  <2>2. CASE ~first /\ k \in M
    <3>1. ASSUME NEW c \in missed2 PROVE c \in missed
      <4>1. c > k => c = k
        BY <1>6, <1>30, <2>2
      <4>2. c <= k
        BY <1>32, <4>1
      <4> QED
        BY <1>31, <2>2, <4>2
    <3>2. missed2 \in SUBSET missed
      BY <3>1
    <3>3. Cardinality(missed2) <= Cardinality(missed) /\ Cardinality(missed2) \in Nat
      BY <1>27, <3>2, FS_Subset, FS_CardinalityType
    <3>4. gaps2 = gaps
      BY <1>11, <2>2
    <3> QED
      BY <1>27, <3>3, <3>4
  <2>3. CASE ~first /\ k \notin M
    <3>1. missed2 \subseteq missed \cup skipped
      <4>1. ASSUME NEW c \in missed2 PROVE c \in missed \cup skipped
        <5>1. c > k \/ c <= k
          BY <1>32
        <5> QED
          BY <1>30, <1>31, <2>3, <5>1
      <4> QED
        BY <4>1
    <3>2. Cardinality(missed2) <= Cardinality(missed) + Cardinality(skipped)
      BY <1>6, <1>27, <3>1, CoverBound
    <3>3. Cardinality(missed2) \in Nat /\ Cardinality(skipped) \in Nat
      <4>1. missed2 \in SUBSET Codes
        BY <1>32
      <4> QED
        BY <1>6, <1>7, <4>1, FS_Subset, FS_CardinalityType
    <3>4. gaps2 = gaps + 1
      BY <1>11, <2>3
    <3> QED
      BY <1>6, <1>27, <3>2, <3>3, <3>4
  <2> QED
    BY <2>1, <2>2, <2>3
<1> QED
  <2>1. (listing.at = "idle" => listing = NoListing)'
    BY <1>20
  <2>2. (listing.at # "idle" => listing.steady \subseteq Matching(tags, listing.filter))'
    BY <1>5, <1>14, <1>20, <1>24
  <2>3. (listing.at # "done" => \A c \in Listed : c <= listing.cursor)'
    BY <1>13, <1>20, <1>22, <1>25
  <2>4. (listing.at = "more" => listing.cursor # 0)'
    BY <1>13, <1>20
  <2>5. Rising(listing.pages)'
    BY <1>18, <1>20 DEF Rising
  <2>6. (Cardinality(Missed) <= listing.gaps)'
    BY <1>20, <1>29, <1>33
  <2> QED
    BY <1>21, <2>1, <2>2, <2>3, <2>4, <2>5, <2>6 DEF ListingInv

\* A step that changes tags leaves the tags that match still among those that did throughout.
LEMMA ObservedKeeps ==
  ASSUME CatalogTypes, ListingTypes, ListingInv, listing' = Observed
  PROVE  ListingTypes' /\ ListingInv'
<1>1. PICK steady \in SUBSET Codes : steady = listing.steady \cap Matching(tags', listing.filter)
  BY DEF ListingTypes
<1>2. listing' = [listing EXCEPT !.steady = steady]
  BY <1>1 DEF Observed
<1>3. /\ listing'.at = listing.at /\ listing'.filter = listing.filter
      /\ listing'.cursor = listing.cursor /\ listing'.pages = listing.pages
      /\ listing'.steady = steady /\ listing'.gaps = listing.gaps
      /\ ListingTypes'
  BY <1>2 DEF ListingTypes
<1>4. Listed' = Listed
  BY <1>3 DEF Listed
<1>5. Missed' \in SUBSET Missed
  BY <1>1, <1>3, <1>4 DEF Missed
<1>6. Cardinality(Missed') <= Cardinality(Missed) /\ Cardinality(Missed') \in Nat
  BY <1>5, MissedFinite, FS_Subset, FS_CardinalityType
<1>7. (Cardinality(Missed) <= listing.gaps)'
  <2>1. Cardinality(Missed) <= listing.gaps /\ listing.gaps \in Nat
    BY DEF ListingInv, ListingTypes
  <2> QED
    BY <1>3, <1>6, <2>1, MissedFinite
<1>8. (listing.at = "idle" => listing = NoListing)'
  <2>1. SUFFICES ASSUME listing.at = "idle" PROVE listing' = NoListing
    BY <1>3
  <2>2. listing = NoListing
    BY <2>1 DEF ListingInv
  <2>3. steady = {}
    BY <1>1, <2>2 DEF NoListing
  <2> QED
    BY <1>2, <2>2, <2>3 DEF NoListing
<1>9. (listing.at # "idle" => listing.steady \subseteq Matching(tags, listing.filter))'
  BY <1>1, <1>3
<1>10. (listing.at # "done" => \A c \in Listed : c <= listing.cursor)'
  BY <1>3, <1>4 DEF ListingInv
<1>11. (listing.at = "more" => listing.cursor # 0)' /\ Rising(listing.pages)'
  BY <1>3 DEF ListingInv, Rising
<1> QED
  BY <1>3, <1>7, <1>8, <1>9, <1>10, <1>11 DEF ListingInv

\* A step that leaves the tags that there are alone leaves a listing right.
LEMMA ListingStays ==
  ASSUME ListingTypes, ListingInv, listing' = listing,
         \A c \in Codes : tags'[c] = tags[c] \/ tags[c] = "ABSENT"
  PROVE  ListingTypes' /\ ListingInv'
<1>1. Matching(tags, listing.filter) \subseteq Matching(tags', listing.filter)
  BY DEF Matching
<1>2. (listing.at # "idle" => listing.steady \subseteq Matching(tags, listing.filter))'
  BY <1>1 DEF ListingInv
<1> QED
  BY <1>2 DEF ListingInv, ListingTypes, Missed, Listed, Rising

\* A catalogue starts with no listing.
LEMMA InitListing == CatalogInit => ListingTypes /\ ListingInv
<1> SUFFICES ASSUME CatalogInit PROVE ListingTypes /\ ListingInv
  OBVIOUS
<1>1. listing = NoListing
  BY DEF CatalogInit
<1>2. PICK pages \in Seq(SUBSET Codes) : pages = <<>>
  <2>1. <<>> \in Seq(SUBSET Codes)
    OBVIOUS
  <2> QED
    BY <2>1
<1>3. DOMAIN pages = {}
  BY <1>2
<1>4. /\ listing = [at |-> "idle", filter |-> "ALL", cursor |-> 0, pages |-> pages,
                    steady |-> {}, gaps |-> 0]
  BY <1>1, <1>2 DEF NoListing
<1>5. ListingTypes /\ listing.at = "idle" /\ listing.pages = pages /\ listing.steady = {}
      /\ listing.gaps = 0
  BY <1>4 DEF ListingTypes
<1>6. Listed = {} /\ Missed = {} /\ Rising(listing.pages)
  BY <1>3, <1>5 DEF Listed, Missed, Rising
<1>7. Cardinality(Missed) = 0
  BY <1>6, FS_EmptySet
<1> QED
  BY <1>1, <1>5, <1>6, <1>7 DEF ListingInv

\* Every step of the catalogue keeps a listing right.
LEMMA NextListing ==
  ASSUME CatalogTypes, ListingTypes, ListingInv, [CatalogNext]_catalogVars
  PROVE  ListingTypes' /\ ListingInv'
<1>1. ASSUME NEW c \in Codes, NEW s \in Statuses, UpdateErrorTagStatus(c, s)
      PROVE  ListingTypes' /\ ListingInv'
  <2>1. listing' = Observed
    BY <1>1 DEF UpdateErrorTagStatus
  <2> QED
    BY <2>1, ObservedKeeps
<1>2. CASE Seed
  <2>1. listing' = listing
    BY <1>2 DEF Seed
  <2>2. \A c \in Codes : tags'[c] = tags[c] \/ tags[c] = "ABSENT"
    BY <1>2, SeedChange
  <2> QED
    BY <2>1, <2>2, ListingStays
<1>3. ASSUME NEW f \in Statuses \cup {"ALL"}, ListErrorTags(f) PROVE ListingTypes' /\ ListingInv'
  BY <1>3, PageTurned
<1>4. ASSUME NEW i \in Positions, WriteEntry(i) PROVE ListingTypes' /\ ListingInv'
  <2>1. listing' = Observed
    BY <1>4 DEF WriteEntry
  <2> QED
    BY <2>1, ObservedKeeps
<1>5. ASSUME listing' = listing, tags' = tags PROVE ListingTypes' /\ ListingInv'
  BY <1>5, ListingStays
<1>6. ASSUME NEW activate \in BOOLEAN, StartImport(activate) PROVE listing' = listing /\ tags' = tags
  BY <1>6 DEF StartImport
<1>7. ASSUME NEW i \in Positions, ReadEntry(i) PROVE listing' = listing /\ tags' = tags
  BY <1>7 DEF ReadEntry
<1>8. CASE EndBatch
  BY <1>5, <1>8 DEF EndBatch
<1>9. CASE UNCHANGED catalogVars
  BY <1>5, <1>9 DEF catalogVars
<1> QED
  BY <1>1, <1>2, <1>3, <1>4, <1>5, <1>6, <1>7, <1>8, <1>9 DEF CatalogNext, Positions

\* When the last page has been turned, all that was steady has been passed.
LEMMA ListingDone == ListingTypes /\ ListingInv => ListingIsComplete
<1> SUFFICES ASSUME ListingTypes, ListingInv PROVE ListingIsComplete
  OBVIOUS
<1>1. listing.at = "done" => Missed = listing.steady \ Listed
  BY DEF Missed
<1>2. listing.at = "done" => Cardinality(listing.steady \ Listed) <= listing.gaps
  BY <1>1 DEF ListingInv
<1> QED
  BY <1>2 DEF ListingIsComplete, ListingInv, Rising

-----------------------------------------------------------------------------
(* Practice *)

PracticeSpec == PracticeInit /\ [][PracticeNext]_practiceVars

\* Whatever the filter, what is recommended is of topics with their prerequisites mastered.
LEMMA RecommendedAreReady ==
  ASSUME NEW filter \in SUBSET Topics, NEW ex \in RecommendForStudent(filter),
         NEW t \in Prerequisites[ex.topic]
  PROVE  mastery[t] # NoRecord /\ ~Below(mastery[t], <<3, 5>>)
<1> DEFINE records == {u \in filter : mastery[u] # NoRecord}
<1>1. PICK topic \in records : PrereqsMet(records, topic) /\ ex \in Active(topic)
  BY DEF RecommendForStudent
<1>2. ex.topic = topic
  BY <1>1 DEF Active
<1> QED
  BY <1>1, <1>2 DEF PrereqsMet

\* A recommended assignment is made of recommended exercises.
LEMMA RecommendedAssignment ==
  ASSUME NEW filter \in SUBSET Topics, CreateRecommended(filter), NEW r \in assigned',
         NEW topic \in r.topics, NEW t \in Prerequisites[topic]
  PROVE  mastery[t] # NoRecord /\ ~Below(mastery[t], <<3, 5>>)
<1>1. PICK chosen \in SUBSET RecommendForStudent(filter) :
        assigned' = {Assignment("PRACTICE_RECOMMENDER", chosen)}
  BY DEF CreateRecommended, kSubset
<1>2. PICK ex \in chosen : ex.topic = topic
  BY <1>1 DEF Assignment
<1> QED
  BY <1>1, <1>2, RecommendedAreReady

\* Only the two operations on assignments make one, and a teacher's own choice says so.
LEMMA StepAssignsReady ==
  ASSUME PracticeNext, NEW r \in assigned' \ assigned, r.reason = "PRACTICE_RECOMMENDER",
         NEW topic \in r.topics, NEW t \in Prerequisites[topic]
  PROVE  mastery[t] # NoRecord /\ ~Below(mastery[t], <<3, 5>>)
<1>1. ASSUME NEW ex, CreateAssignment(ex) PROVE FALSE
  BY <1>1 DEF CreateAssignment, Assignment
<1>2. ASSUME CreateRecommended(Topics) PROVE mastery[t] # NoRecord /\ ~Below(mastery[t], <<3, 5>>)
  BY <1>2, RecommendedAssignment
<1>3. ASSUME NEW u \in Topics, CreateRecommended({u})
      PROVE  mastery[t] # NoRecord /\ ~Below(mastery[t], <<3, 5>>)
  <2>1. {u} \in SUBSET Topics
    OBVIOUS
  <2> QED
    BY <1>3, <2>1, RecommendedAssignment
<1>4. ASSUME NEW p, NEW x, AnswerDrill(p, x) PROVE assigned' = assigned
  BY <1>4 DEF AnswerDrill
<1>5. ASSUME NEW ex, NEW x, SolveRecommended(ex, x) \/ SolvePractice(ex, x)
      PROVE  assigned' = assigned
  BY <1>5 DEF SolveRecommended, SolvePractice, Solve
<1>6. ASSUME NEW ex, MaterializeExercise(ex) \/ CreateItem(ex) \/ GenerateItems(ex)
      PROVE  assigned' = assigned
  BY <1>6 DEF MaterializeExercise, CreateItem, GenerateItems, AddExercise
<1>7. NextDay => assigned' = assigned
  BY DEF NextDay
<1> QED
  BY <1>1, <1>2, <1>3, <1>4, <1>5, <1>6, <1>7 DEF PracticeNext, ItemsNext, AssignmentsNext

-----------------------------------------------------------------------------
(* Exact fractions *)

\* The quotient and the remainder of numbers.
LEMMA Division ==
    ASSUME NEW a \in Nat, NEW b \in Nat, b # 0
    PROVE  /\ a \div b \in Nat /\ a % b \in Nat
           /\ a % b < b
           /\ a = b * (a \div b) + (a % b)
  OBVIOUS

\* What divides both.
CommonDivisors(a, b) == {d \in Nat \ {0} : \E m, n \in Nat : a = d * m /\ b = d * n}

\* A step of the Euclidean algorithm keeps the common divisors.
LEMMA SameDivisors ==
    ASSUME NEW a \in Nat, NEW b \in Nat, b # 0
    PROVE  CommonDivisors(a, b) = CommonDivisors(b, a % b)
<1> DEFINE q == a \div b
           r == a % b
<1>1. q \in Nat /\ r \in Nat /\ a = b * q + r
  BY Division
<1> HIDE DEF q, r
<1>2. ASSUME NEW d \in Nat \ {0}, NEW m \in Nat, NEW n \in Nat, a = d * m, b = d * n
      PROVE  \E i, j \in Nat : b = d * i /\ r = d * j
  <2>1. d * m = d * (n * q) + r
    BY <1>1, <1>2
  <2>2. r = d * (m - n * q)
    BY <1>1, <2>1
  <2>3. m - n * q \in Nat
    <3>1. SUFFICES ASSUME m - n * q <= -1 PROVE FALSE
      BY <1>1
    <3>2. \A x \in Int : x <= -1 => d * x <= -1
      OBVIOUS
    <3>3. m - n * q \in Int
      BY <1>1
    <3> QED BY <3>1, <3>2, <3>3, <2>2, <1>1
  <2> QED BY <1>2, <2>2, <2>3
<1>3. ASSUME NEW d \in Nat \ {0}, NEW i \in Nat, NEW j \in Nat, b = d * i, r = d * j
      PROVE  \E m, n \in Nat : a = d * m /\ b = d * n
  <2>1. a = d * (i * q + j)
    BY <1>1, <1>3
  <2>2. i * q + j \in Nat
    BY <1>1
  <2> QED BY <1>3, <2>1, <2>2
<1>4. CommonDivisors(b, r) = CommonDivisors(a, b)
  BY <1>2, <1>3 DEF CommonDivisors
<1> QED BY <1>4 DEF r

\* The largest of those.
GreatestDivisor(a, b) ==
    CHOOSE d \in CommonDivisors(a, b) : \A e \in CommonDivisors(a, b) : e <= d

\* Gcd is the function its definition asks for: there is one, which maps a pair to the greatest
\* common divisor.
LEMMA GcdRecursion ==
    ASSUME NEW a \in Nat, NEW b \in Nat
    PROVE  Gcd[<<a, b>>] = IF b = 0 THEN a ELSE Gcd[<<b, a % b>>]
<1> DEFINE f == [p \in Nat \X Nat |->
                   IF p = <<0, 0>> THEN 0 ELSE GreatestDivisor(p[1], p[2])]
           F(g) == [p \in Nat \X Nat |-> IF p[2] = 0 THEN p[1] ELSE g[<<p[2], p[1] % p[2]>>]]
<1>1. ASSUME NEW p \in Nat \X Nat
      PROVE  f[p] = IF p[2] = 0 THEN p[1] ELSE f[<<p[2], p[1] % p[2]>>]
  <2> PICK m \in Nat, n \in Nat : p = <<m, n>>
    OBVIOUS
  <2>1. CASE n = 0 /\ m = 0
    BY <2>1
  <2>2. CASE n = 0 /\ m # 0
    <3>1. CommonDivisors(m, 0) = {d \in Nat \ {0} : \E i \in Nat : m = d * i}
      <4>1. \A d \in Nat : 0 = d * 0
        OBVIOUS
      <4> QED BY <4>1 DEF CommonDivisors
    <3>2. m \in CommonDivisors(m, 0)
      <4>1. m = m * 1
        OBVIOUS
      <4> QED BY <3>1, <4>1, <2>2
    <3>3. ASSUME NEW d \in CommonDivisors(m, 0)
          PROVE  d <= m
      <4>1. d \in Nat \ {0}
        BY <3>1
      <4>2. PICK i \in Nat : m = d * i
        BY <3>1
      <4>3. i # 0
        BY <4>1, <4>2, <2>2
      <4>4. d * i >= d
        BY <4>1, <4>3
      <4> QED BY <4>1, <4>2, <4>4
    <3>4. CommonDivisors(m, 0) \subseteq Nat
      BY <3>1
    <3>5. GreatestDivisor(m, 0) = m
      BY <3>2, <3>3, <3>4 DEF GreatestDivisor
    <3>6. f[p] = GreatestDivisor(m, 0)
      BY <2>2
    <3> QED BY <3>5, <3>6, <2>2
  <2>3. CASE n # 0
    <3>1. m % n \in Nat
      BY <2>3, Division
    <3>2. f[<<n, m % n>>] = GreatestDivisor(n, m % n)
      BY <3>1, <2>3
    <3>3. f[p] = GreatestDivisor(m, n)
      BY <2>3
    <3>4. CommonDivisors(m, n) = CommonDivisors(n, m % n)
      BY <2>3, SameDivisors
    <3>5. GreatestDivisor(n, m % n) = GreatestDivisor(m, n)
      BY <3>4, Zenon DEF GreatestDivisor
    <3> QED BY <3>2, <3>3, <3>5, <2>3
  <2> QED BY <2>1, <2>2, <2>3
<1>2. f = F(f)
  <2> HIDE DEF f
  <2>1. f = [p \in Nat \X Nat |-> f[p]]
    BY DEF f
  <2> QED BY <1>1, <2>1
<1> HIDE DEF f
<1>3. Gcd = F(Gcd)
  BY <1>2 DEF Gcd
<1>4. <<a, b>> \in Nat \X Nat
  OBVIOUS
<1> QED BY <1>3, <1>4

\* Gcd is positive and divides both of its arguments, unless both are 0.
LEMMA GcdDivides ==
    ASSUME NEW a \in Nat, NEW b \in Nat, a # 0 \/ b # 0
    PROVE  /\ Gcd[<<a, b>>] \in Nat \ {0}
           /\ \E m, n \in Nat : a = Gcd[<<a, b>>] * m /\ b = Gcd[<<a, b>>] * n
<1> DEFINE G(m, n) == Gcd[<<m, n>>]
           Good(m, n) == G(m, n) \in Nat \ {0} /\ \E i, j \in Nat : m = G(m, n) * i /\ n = G(m, n) * j
           T == {n \in Nat : \E m \in Nat : (m # 0 \/ n # 0) /\ ~Good(m, n)}
<1>1. SUFFICES ASSUME T # {} PROVE FALSE
  OBVIOUS
<1>2. PICK n \in T : \A k \in T : n <= k
  BY <1>1, LeastNumber
<1>3. PICK m \in Nat : (m # 0 \/ n # 0) /\ ~Good(m, n)
  OBVIOUS
<1>4. n \in Nat
  OBVIOUS
<1>5. CASE n = 0
  <2>1. G(m, n) = m
    BY <1>5, GcdRecursion
  <2>2. m = m * 1 /\ 0 = m * 0
    OBVIOUS
  <2> QED BY <2>1, <2>2, <1>3, <1>5
<1>6. CASE n # 0
  <2> DEFINE q == m \div n
             r == m % n
  <2>1. q \in Nat /\ r \in Nat /\ r < n /\ m = n * q + r
    BY Division, <1>4, <1>6
  <2>2. G(m, n) = G(n, r)
    BY GcdRecursion, <1>4, <1>6
  <2> HIDE DEF q, r
  <2>3. Good(n, r)
    <3>1. r \notin T
      <4> HIDE DEF T
      <4> QED BY <1>2, <1>4, <2>1
    <3> QED BY <3>1, <2>1, <1>4, <1>6
  <2>4. PICK i \in Nat, j \in Nat : n = G(n, r) * i /\ r = G(n, r) * j
    BY <2>3
  <2> DEFINE g == G(n, r)
  <2>5. g \in Nat \ {0}
    BY <2>3
  <2> HIDE DEF G, g
  <2>6. n = g * i /\ r = g * j
    BY <2>4 DEF g
  <2>7. m = g * (i * q + j)
    BY <2>1, <2>5, <2>6
  <2>8. i * q + j \in Nat
    BY <2>1
  <2>9. G(m, n) = g
    BY <2>2 DEF g
  <2> QED BY <2>5, <2>6, <2>7, <2>8, <2>9, <1>3
<1> QED BY <1>4, <1>5, <1>6

\* A comparison of two fractions by their integer parts, and by the inverses of what is left, is
\* that of the cross products.
LEMMA CrossProducts ==
    ASSUME NEW a \in Nat, NEW b \in Nat \ {0}, NEW c \in Nat, NEW d \in Nat \ {0}
    PROVE  /\ a \div b \in Nat /\ a % b \in Nat /\ c \div d \in Nat /\ c % d \in Nat
           /\ a % b < b /\ c % d < d
           /\ a * d < c * b <=>
                IF a \div b # c \div d THEN a \div b < c \div d
                ELSE c % d # 0 /\ (a % b # 0 => d * (a % b) < b * (c % d))
<1> DEFINE q == a \div b
           r == a % b
           s == c \div d
           t == c % d
<1>1. q \in Nat /\ r \in Nat /\ r < b /\ a = b * q + r
  BY Division
<1>2. s \in Nat /\ t \in Nat /\ t < d /\ c = d * s + t
  BY Division
<1> HIDE DEF q, r, s, t
<1> DEFINE k == b * d
<1>3. k \in Nat /\ a * d = k * q + r * d /\ c * b = k * s + t * b
  <2>1. (b * q + r) * d = (b * d) * q + r * d /\ (d * s + t) * b = (b * d) * s + t * b
    BY <1>1, <1>2
  <2> QED BY <2>1, <1>1, <1>2
<1>4. r * d \in Nat /\ t * b \in Nat /\ r * d < k /\ t * b < k
  <2>1. \A x, y \in Nat, z \in Nat \ {0} : x < y => x * z < y * z
    OBVIOUS
  <2>2. r * d < b * d /\ t * b < d * b
    BY <2>1, <1>1, <1>2
  <2>3. d * b = b * d
    OBVIOUS
  <2> QED BY <2>2, <2>3, <1>1, <1>2
<1> DEFINE u == r * d
           v == t * b
<1> HIDE DEF k
<1>5. CASE q < s
  <2>1. k * s >= k * q + k
    <3>1. PICK e \in Nat : s = q + 1 + e
      <4>1. s - q - 1 \in Nat /\ s = q + 1 + (s - q - 1)
        BY <1>1, <1>2, <1>5
      <4> QED BY <4>1
    <3>2. k * s = k * q + k + k * e
      BY <3>1, <1>1, <1>3
    <3>3. k * e \in Nat
      BY <1>3
    <3> QED BY <3>2, <3>3, <1>1, <1>3
  <2>2. a * d < c * b
    <3> HIDE DEF u, v
    <3>1. k * s \in Nat /\ k * q \in Nat
      BY <1>1, <1>2, <1>3
    <3> QED BY <2>1, <3>1, <1>3, <1>4
  <2> QED BY <2>2, <1>5, <1>1, <1>2 DEF q, r, s, t
<1>6. CASE s < q
  <2>1. k * q >= k * s + k
    <3>1. PICK e \in Nat : q = s + 1 + e
      <4>1. q - s - 1 \in Nat /\ q = s + 1 + (q - s - 1)
        BY <1>1, <1>2, <1>6
      <4> QED BY <4>1
    <3>2. k * q = k * s + k + k * e
      BY <3>1, <1>2, <1>3
    <3>3. k * e \in Nat
      BY <1>3
    <3> QED BY <3>2, <3>3, <1>2, <1>3
  <2>2. ~(a * d < c * b)
    <3>1. k * s \in Nat /\ k * q \in Nat
      BY <1>1, <1>2, <1>3
    <3> QED BY <2>1, <3>1, <1>3, <1>4
  <2> QED BY <2>2, <1>6, <1>1, <1>2 DEF q, r, s, t
<1>7. CASE q = s
  <2>1. a * d < c * b <=> r * d < t * b
    <3>1. k * q \in Nat
      BY <1>1, <1>3
    <3> QED BY <1>3, <1>4, <1>7, <3>1
  <2>2. r * d < t * b <=> t # 0 /\ (r # 0 => d * r < b * t)
    <3>1. t = 0 => t * b = 0
      OBVIOUS
    <3>2. r = 0 => r * d = 0
      OBVIOUS
    <3>3. t # 0 => t * b > 0
      BY <1>2
    <3>4. d * r = r * d /\ b * t = t * b
      BY <1>1, <1>2
    <3> QED BY <3>1, <3>2, <3>3, <3>4, <1>1, <1>2, <1>4
  <2> QED BY <2>1, <2>2, <1>7, <1>1, <1>2 DEF q, r, s, t
<1>8. q < s \/ s < q \/ q = s
  BY <1>1, <1>2
<1> QED BY <1>5, <1>6, <1>7, <1>8

\* Less is the function its definition asks for: there is one, which compares the cross products.
LEMMA LessRecursion ==
    ASSUME NEW a \in Nat, NEW b \in Nat \ {0}, NEW c \in Nat, NEW d \in Nat \ {0}
    PROVE  Less[<< <<a, b>>, <<c, d>> >>] <=>
             IF a \div b # c \div d THEN a \div b < c \div d
             ELSE c % d # 0 /\ (a % b # 0 => Less[<< <<d, c % d>>, <<b, a % b>> >>])
<1> DEFINE f == [p \in Fractions \X Fractions |-> p[1][1] * p[2][2] < p[2][1] * p[1][2]]
           F(g) == [p \in Fractions \X Fractions |->
                     IF p[1][1] \div p[1][2] # p[2][1] \div p[2][2]
                       THEN p[1][1] \div p[1][2] < p[2][1] \div p[2][2]
                       ELSE /\ p[2][1] % p[2][2] # 0
                            /\ p[1][1] % p[1][2] # 0 =>
                                 g[<< <<p[2][2], p[2][1] % p[2][2]>>, <<p[1][2], p[1][1] % p[1][2]>> >>]]
<1>1. ASSUME NEW p \in Fractions \X Fractions
      PROVE  f[p] = F(f)[p]
  <2>1. PICK m \in Nat, n \in Nat \ {0}, i \in Nat, j \in Nat \ {0} : p = << <<m, n>>, <<i, j>> >>
    BY DEF Fractions
  <2>2. f[p] = (m * j < i * n)
    BY <2>1
  <2>3. F(f)[p] = IF m \div n # i \div j THEN m \div n < i \div j
                  ELSE i % j # 0 /\ (m % n # 0 => f[<< <<j, i % j>>, <<n, m % n>> >>])
    <3> HIDE DEF f
    <3> QED BY <2>1
  <2>4. i % j # 0 /\ m % n # 0 => f[<< <<j, i % j>>, <<n, m % n>> >>] = (j * (m % n) < n * (i % j))
    <3> DEFINE r == m % n
               t == i % j
    <3>1. r \in Nat /\ t \in Nat
      BY Division
    <3> HIDE DEF r, t
    <3>2. t # 0 /\ r # 0 => << <<j, t>>, <<n, r>> >> \in Fractions \X Fractions
      BY <3>1 DEF Fractions
    <3>3. t # 0 /\ r # 0 => f[<< <<j, t>>, <<n, r>> >>] = (j * r < n * t)
      BY <3>2
    <3> QED BY <3>3 DEF r, t
  <2> HIDE DEF f, F
  <2>5. m * j < i * n <=>
          IF m \div n # i \div j THEN m \div n < i \div j
          ELSE i % j # 0 /\ (m % n # 0 => j * (m % n) < n * (i % j))
    BY CrossProducts
  <2>6. CASE m \div n # i \div j
    BY <2>2, <2>3, <2>5, <2>6
  <2>7. CASE m \div n = i \div j /\ i % j # 0 /\ m % n # 0
    <3>1. F(f)[p] = (i % j # 0 /\ (m % n # 0 => j * (m % n) < n * (i % j)))
      BY <2>3, <2>4, <2>7, Zenon
    <3> QED BY <2>2, <2>5, <2>7, <3>1
  <2>8. CASE m \div n = i \div j /\ (i % j = 0 \/ m % n = 0)
    BY <2>2, <2>3, <2>5, <2>8
  <2> QED BY <2>6, <2>7, <2>8
<1>2. f = F(f)
  <2> HIDE DEF f
  <2>1. f = [p \in Fractions \X Fractions |-> f[p]]
    BY DEF f
  <2> QED BY <1>1, <2>1
<1> HIDE DEF f
<1>3. Less = F(Less)
  BY <1>2 DEF Less
<1>4. << <<a, b>>, <<c, d>> >> \in Fractions \X Fractions
  BY DEF Fractions
<1> QED BY <1>3, <1>4

\* Less compares the cross products.
LEMMA LessThan ==
    ASSUME NEW a \in Nat, NEW b \in Nat \ {0}, NEW c \in Nat, NEW d \in Nat \ {0}
    PROVE  Less[<< <<a, b>>, <<c, d>> >>] <=> a * d < c * b
<1> DEFINE L(m, n, i, j) == Less[<< <<m, n>>, <<i, j>> >>]
           Good(m, n, i, j) == L(m, n, i, j) <=> m * j < i * n
           T == {k \in Nat : \E m, i \in Nat, n, j \in Nat \ {0} : k = n + j /\ ~Good(m, n, i, j)}
<1>1. SUFFICES ASSUME T # {} PROVE FALSE
  <2>1. SUFFICES ASSUME ~Good(a, b, c, d) PROVE T # {}
    BY Zenon
  <2>2. b + d \in Nat
    OBVIOUS
  <2> HIDE DEF Good
  <2> QED BY <2>1, <2>2
<1>2. PICK k \in T : \A l \in T : k <= l
  BY <1>1, LeastNumber
<1>3. PICK m \in Nat, i \in Nat, n \in Nat \ {0}, j \in Nat \ {0} : k = n + j /\ ~Good(m, n, i, j)
  OBVIOUS
<1> DEFINE r == m % n
           t == i % j
<1>4. r \in Nat /\ t \in Nat /\ r < n /\ t < j
  BY Division
<1>5. t # 0 /\ r # 0 => Good(j, t, n, r)
  <2> HIDE DEF r, t
  <2>1. SUFFICES ASSUME t # 0, r # 0, ~Good(j, t, n, r) PROVE FALSE
    OBVIOUS
  <2>2. t + r \in T
    <3>1. j \in Nat /\ n \in Nat /\ t \in Nat \ {0} /\ r \in Nat \ {0} /\ t + r \in Nat
      BY <1>4, <2>1
    <3> HIDE DEF Good
    <3> QED BY <3>1, <2>1
  <2> HIDE DEF T
  <2> QED BY <1>2, <1>3, <1>4, <2>2
<1>6. L(m, n, i, j) <=>
                      IF m \div n # i \div j THEN m \div n < i \div j
                      ELSE t # 0 /\ (r # 0 => L(j, t, n, r))
  <2>1. m \in Nat /\ n \in Nat \ {0} /\ i \in Nat /\ j \in Nat \ {0}
    OBVIOUS
  <2> HIDE DEF T
  <2> QED BY <2>1, LessRecursion
<1>7. m * j < i * n <=>
        IF m \div n # i \div j THEN m \div n < i \div j
        ELSE t # 0 /\ (r # 0 => j * r < n * t)
  BY CrossProducts
<1> HIDE DEF r, t, L
<1>8. t # 0 /\ r # 0 => (L(j, t, n, r) <=> j * r < n * t)
  BY <1>5
<1>9. Good(m, n, i, j)
  BY <1>6, <1>7, <1>8, Zenon
<1> QED BY <1>3, <1>9

\* A positive factor may be cancelled.
LEMMA Cancels ==
    ASSUME NEW k \in Nat \ {0}, NEW x \in Int, NEW y \in Int
    PROVE  /\ k * x = k * y => x = y
           /\ k * x < k * y => x < y
           /\ x < y => k * x < k * y
<1>1. CASE x < y
  <2>1. PICK e \in Nat : y = x + 1 + e
    <3>1. y - x - 1 \in Nat /\ y = x + 1 + (y - x - 1)
      BY <1>1
    <3> QED BY <3>1
  <2>2. k * y = k * x + k + k * e
    BY <2>1
  <2>3. k * e \in Nat /\ k * x \in Int
    BY <2>1
  <2> QED BY <2>2, <2>3, <1>1
<1>2. CASE y < x
  <2>1. PICK e \in Nat : x = y + 1 + e
    <3>1. x - y - 1 \in Nat /\ x = y + 1 + (x - y - 1)
      BY <1>2
    <3> QED BY <3>1
  <2>2. k * x = k * y + k + k * e
    BY <2>1
  <2>3. k * e \in Nat /\ k * y \in Int
    BY <2>1
  <2> QED BY <2>2, <2>3, <1>2
<1>3. CASE x = y
  BY <1>3
<1> QED BY <1>1, <1>2, <1>3

\* A multiple keeps the order.
LEMMA Scales ==
    ASSUME NEW k \in Nat, NEW x \in Int, NEW y \in Int, x <= y
    PROVE  k * x <= k * y
<1>1. PICK e \in Nat : y = x + e
  <2>1. y - x \in Nat /\ y = x + (y - x)
    OBVIOUS
  <2> QED BY <2>1
<1>2. k * y = k * x + k * e
  BY <1>1
<1>3. k * e \in Nat /\ k * x \in Int
  OBVIOUS
<1> QED BY <1>2, <1>3

\* A positive factor keeps the order.
LEMMA SameOrder ==
    ASSUME NEW k \in Nat \ {0}, NEW x \in Int, NEW y \in Int
    PROVE  k * x <= k * y <=> x <= y
<1>1. k * x \in Int /\ k * y \in Int
  OBVIOUS
<1>2. x <= y => k * x <= k * y
  BY Scales
<1>3. ASSUME y < x PROVE k * y < k * x
  BY <1>3, Cancels
<1> QED BY <1>1, <1>2, <1>3

\* Dividing a multiple of a number by it gives the other factor.
LEMMA ExactQuotient ==
    ASSUME NEW g \in Nat \ {0}, NEW i \in Nat
    PROVE  (g * i) \div g = i
<1> DEFINE n == g * i
           q == n \div g
           r == n % g
<1>1. n \in Nat
  OBVIOUS
<1>2. q \in Nat /\ r \in Nat /\ r < g /\ n = g * q + r
  BY <1>1, Division
<1> HIDE DEF q, r
<1>3. g * (i - q) = r
  BY <1>2
<1>4. i - q < 1
  <2>1. g * (i - q) < g * 1
    BY <1>2, <1>3
  <2> QED BY <2>1, <1>2, Cancels
<1>5. -1 < i - q
  <2>1. g * (-1) < g * (i - q)
    BY <1>2, <1>3
  <2> QED BY <2>1, <1>2, Cancels
<1> QED BY <1>2, <1>4, <1>5 DEF q

\* Over does not change the value of a fraction.
LEMMA OverIs ==
    ASSUME NEW n \in Nat, NEW d \in Nat \ {0}
    PROVE  \E i \in Nat, j \in Nat \ {0} : Over(n, d) = <<i, j>> /\ i * d = n * j
<1> DEFINE g == Gcd[<<n, d>>]
<1>1. g \in Nat \ {0}
  BY GcdDivides
<1>2. PICK i \in Nat, j \in Nat : n = g * i /\ d = g * j
  BY GcdDivides
<1>3. Over(n, d) = <<n \div g, d \div g>>
  <2>1. Magnitude(n) = n /\ Magnitude(d) = d
    BY DEF Magnitude
  <2> QED BY <2>1 DEF Over
<1> HIDE DEF g
<1>4. n \div g = i /\ d \div g = j
  BY <1>1, <1>2, ExactQuotient
<1>5. j # 0
  BY <1>1, <1>2
<1>6. i * d = n * j
  <2>1. i * (g * j) = (g * i) * j
    BY <1>1
  <2> QED BY <2>1, <1>2
<1> QED BY <1>3, <1>4, <1>5, <1>6

\* Times multiplies.
LEMMA TimesIs ==
    ASSUME NEW a \in Nat, NEW b \in Nat \ {0}, NEW c \in Nat, NEW d \in Nat \ {0}
    PROVE  \E i \in Nat, j \in Nat \ {0} :
             Times(<<a, b>>, <<c, d>>) = <<i, j>> /\ i * (b * d) = (a * c) * j
<1>1. a * c \in Nat /\ b * d \in Nat \ {0}
  OBVIOUS
<1>2. Times(<<a, b>>, <<c, d>>) = Over(a * c, b * d)
  BY DEF Times
<1> HIDE DEF Over
<1>3. PICK i \in Nat, j \in Nat \ {0} : Over(a * c, b * d) = <<i, j>> /\ i * (b * d) = (a * c) * j
  BY <1>1, OverIs
<1> QED BY <1>2, <1>3

\* Not takes from 1.
LEMMA NotIs ==
    ASSUME NEW a \in Nat, NEW b \in Nat \ {0}, a <= b
    PROVE  \E i \in Nat, j \in Nat \ {0} :
             Not(<<a, b>>) = <<i, j>> /\ i * b = (b - a) * j
<1>1. b - a \in Nat
  OBVIOUS
<1>2. Not(<<a, b>>) = Over(b - a, b)
  BY DEF Not
<1> QED BY <1>1, <1>2, OverIs

\* Denominators over their greatest common divisor.
LEMMA Reduced ==
    ASSUME NEW b \in Nat \ {0}, NEW d \in Nat \ {0}
    PROVE  /\ Gcd[<<b, d>>] \in Nat \ {0}
           /\ b \div Gcd[<<b, d>>] \in Nat \ {0} /\ d \div Gcd[<<b, d>>] \in Nat \ {0}
           /\ b = Gcd[<<b, d>>] * (b \div Gcd[<<b, d>>])
           /\ d = Gcd[<<b, d>>] * (d \div Gcd[<<b, d>>])
<1> DEFINE g == Gcd[<<b, d>>]
<1>1. g \in Nat \ {0}
  BY GcdDivides
<1>2. PICK i \in Nat, j \in Nat : b = g * i /\ d = g * j
  BY GcdDivides
<1> HIDE DEF g
<1>3. b \div g = i /\ d \div g = j
  BY <1>1, <1>2, ExactQuotient
<1>4. i # 0 /\ j # 0
  BY <1>1, <1>2
<1>5. /\ g \in Nat \ {0}
      /\ b \div g \in Nat \ {0} /\ d \div g \in Nat \ {0}
      /\ b = g * (b \div g) /\ d = g * (d \div g)
  BY <1>1, <1>2, <1>3, <1>4
<1> QED BY <1>5 DEF g

\* Plus adds.
LEMMA PlusIs ==
    ASSUME NEW a \in Nat, NEW b \in Nat \ {0}, NEW c \in Nat, NEW d \in Nat \ {0}
    PROVE  \E i \in Nat, j \in Nat \ {0} :
             Plus(<<a, b>>, <<c, d>>) = <<i, j>> /\ i * (b * d) = (a * d + c * b) * j
<1> DEFINE g == Gcd[<<b, d>>]
           b1 == b \div g
           d1 == d \div g
<1>1. g \in Nat \ {0} /\ b1 \in Nat \ {0} /\ d1 \in Nat \ {0} /\ b = g * b1 /\ d = g * d1
  BY Reduced
<1>2. Plus(<<a, b>>, <<c, d>>) = Over(a * d1 + c * b1, b1 * d)
  BY DEF Plus
<1> HIDE DEF g, b1, d1
<1>3. a * d1 + c * b1 \in Nat /\ b1 * d \in Nat \ {0}
  BY <1>1
<1>4. PICK i \in Nat, j \in Nat \ {0} :
        Over(a * d1 + c * b1, b1 * d) = <<i, j>> /\ i * (b1 * d) = (a * d1 + c * b1) * j
  BY <1>3, OverIs
<1>5. i * (b * d) = (a * d + c * b) * j
  <2>1. g * (i * (b1 * d)) = g * ((a * d1 + c * b1) * j)
    BY <1>4
  <2>2. g * (i * (b1 * d)) = i * ((g * b1) * d)
    BY <1>1
  <2>3. g * ((a * d1 + c * b1) * j) = (a * (g * d1) + c * (g * b1)) * j
    BY <1>1
  <2> QED BY <2>1, <2>2, <2>3, <1>1
<1> QED BY <1>2, <1>4, <1>5

\* Quotient divides.
LEMMA QuotientIs ==
    ASSUME NEW a \in Nat, NEW b \in Nat \ {0}, NEW c \in Nat \ {0}, NEW d \in Nat \ {0}
    PROVE  \E i \in Nat, j \in Nat \ {0} :
             Quotient(<<a, b>>, <<c, d>>) = <<i, j>> /\ i * (b * c) = (a * d) * j
<1> DEFINE g == Gcd[<<b, d>>]
           b1 == b \div g
           d1 == d \div g
<1>1. g \in Nat \ {0} /\ b1 \in Nat \ {0} /\ d1 \in Nat \ {0} /\ b = g * b1 /\ d = g * d1
  BY Reduced
<1>2. Quotient(<<a, b>>, <<c, d>>) = Over(a * d1, b1 * c)
  BY DEF Quotient
<1> HIDE DEF g, b1, d1
<1>3. a * d1 \in Nat /\ b1 * c \in Nat \ {0}
  BY <1>1
<1>4. PICK i \in Nat, j \in Nat \ {0} : Over(a * d1, b1 * c) = <<i, j>> /\ i * (b1 * c) = (a * d1) * j
  BY <1>3, OverIs
<1>5. i * (b * c) = (a * d) * j
  <2>1. g * (i * (b1 * c)) = g * ((a * d1) * j)
    BY <1>4
  <2>2. g * (i * (b1 * c)) = i * ((g * b1) * c)
    BY <1>1
  <2>3. g * ((a * d1) * j) = (a * (g * d1)) * j
    BY <1>1
  <2> QED BY <2>1, <2>2, <2>3, <1>1
<1> QED BY <1>2, <1>4, <1>5

\* The fractions from 0 to 1, and those strictly between.
Unit == {x \in Fractions : x[1] <= x[2]}
Proper == {x \in Fractions : 0 < x[1] /\ x[1] < x[2]}

\* A fraction of either kind, by its parts.
LEMMA UnitPair ==
    ASSUME NEW x \in Unit
    PROVE  \E a \in Nat, b \in Nat \ {0} : x = <<a, b>> /\ a <= b
  BY DEF Unit, Fractions

LEMMA ProperPair ==
    ASSUME NEW x \in Proper
    PROVE  \E a, b \in Nat \ {0} : x = <<a, b>> /\ a < b
  BY DEF Proper, Fractions

\* i/j = m/n is at most 1 when m/n is, and not 0 when m is not.
LEMMA UnitValue ==
    ASSUME NEW i \in Nat, NEW j \in Nat \ {0}, NEW m \in Nat, NEW n \in Nat \ {0},
           m <= n, i * n = m * j
    PROVE  <<i, j>> \in Unit /\ (m # 0 => i # 0)
<1>1. i <= j
  <2>1. j * m <= j * n
    BY Scales
  <2>2. n * i <= n * j
    BY <2>1
  <2> QED BY <2>2, SameOrder
<1>2. m # 0 => i # 0
  <2>1. \A u, v \in Nat \ {0} : u * v \in Nat \ {0}
    OBVIOUS
  <2>2. m # 0 => m * j \in Nat \ {0}
    BY <2>1
  <2> QED BY <2>2
<1> QED BY <1>1, <1>2 DEF Unit, Fractions

\* Products of probabilities are probabilities, and positive when both are.
LEMMA TimesUnit ==
    ASSUME NEW x \in Unit, NEW y \in Unit
    PROVE  Times(x, y) \in Unit /\ (x[1] > 0 /\ y[1] > 0 => Times(x, y)[1] > 0)
<1>1. PICK a \in Nat, b \in Nat \ {0} : x = <<a, b>> /\ a <= b
  BY UnitPair
<1>2. PICK c \in Nat, d \in Nat \ {0} : y = <<c, d>> /\ c <= d
  BY UnitPair
<1>3. PICK i \in Nat, j \in Nat \ {0} : Times(x, y) = <<i, j>> /\ i * (b * d) = (a * c) * j
  BY <1>1, <1>2, TimesIs
<1>4. a * c <= b * d
  <2>1. a * c <= a * d
    BY <1>2, Scales
  <2>2. d * a <= d * b
    BY <1>1, Scales
  <2>3. a * c \in Int /\ a * d \in Int /\ d * b \in Int
    OBVIOUS
  <2> QED BY <2>1, <2>2, <2>3
<1> DEFINE m == a * c
           n == b * d
<1>5. m \in Nat /\ n \in Nat \ {0} /\ m <= n /\ i * n = m * j
  <2>1. \A u, v \in Nat \ {0} : u * v \in Nat \ {0}
    OBVIOUS
  <2> QED BY <1>3, <1>4, <2>1
<1>6. a # 0 /\ c # 0 => m # 0
  <2>1. \A u, v \in Nat \ {0} : u * v \in Nat \ {0}
    OBVIOUS
  <2> QED BY <2>1
<1> HIDE DEF m, n
<1>7. <<i, j>> \in Unit /\ (m # 0 => i # 0)
  BY <1>5, UnitValue
<1> QED BY <1>1, <1>2, <1>3, <1>6, <1>7

\* What is missing from a probability to 1 is one; from a proper fraction, a proper one.
LEMMA NotUnit ==
    ASSUME NEW x \in Unit
    PROVE  Not(x) \in Unit /\ (x[1] < x[2] => Not(x)[1] > 0) /\ (x \in Proper => Not(x) \in Proper)
<1>1. PICK a \in Nat, b \in Nat \ {0} : x = <<a, b>> /\ a <= b
  BY UnitPair
<1>2. PICK i \in Nat, j \in Nat \ {0} : Not(x) = <<i, j>> /\ i * b = (b - a) * j
  BY <1>1, NotIs
<1> DEFINE m == b - a
<1>3. m \in Nat /\ m <= b /\ i * b = m * j /\ (a < b => m # 0) /\ (0 < a => m < b)
  BY <1>1, <1>2
<1> HIDE DEF m
<1>4. <<i, j>> \in Unit /\ (m # 0 => i # 0)
  BY <1>3, UnitValue
<1>5. ASSUME m < b PROVE i < j
  <2>1. j * m < j * b
    BY <1>3, <1>5, Cancels
  <2>2. b * i < b * j
    BY <1>3, <2>1
  <2> QED BY <2>2, Cancels
<1> QED BY <1>1, <1>2, <1>3, <1>4, <1>5 DEF Proper, Fractions

LEMMA NotProper == ASSUME NEW x \in Proper PROVE Not(x) \in Proper
<1>1. x \in Unit
  BY DEF Proper, Unit, Fractions
<1> QED BY <1>1, NotUnit

\* A sum of probabilities is a fraction, no smaller than the first.
LEMMA PlusGrows ==
    ASSUME NEW x \in Unit, NEW y \in Unit
    PROVE  /\ Plus(x, y) \in Fractions
           /\ x[1] * Plus(x, y)[2] <= Plus(x, y)[1] * x[2]
           /\ x[1] > 0 => Plus(x, y)[1] > 0
<1>1. PICK a \in Nat, b \in Nat \ {0} : x = <<a, b>> /\ a <= b
  BY UnitPair
<1>2. PICK c \in Nat, d \in Nat \ {0} : y = <<c, d>> /\ c <= d
  BY UnitPair
<1>3. PICK i \in Nat, j \in Nat \ {0} : Plus(x, y) = <<i, j>> /\ i * (b * d) = (a * d + c * b) * j
  BY <1>1, <1>2, PlusIs
<1>4. a * j <= i * b
  <2>1. d * (i * b) = d * (a * j) + (c * b) * j
    BY <1>3
  <2>2. /\ (c * b) * j \in Nat /\ a * j \in Int /\ i * b \in Int
        /\ d * (i * b) \in Int /\ d * (a * j) \in Int
    OBVIOUS
  <2>3. d * (a * j) <= d * (i * b)
    BY <2>1, <2>2
  <2> QED BY <2>2, <2>3, SameOrder
<1>5. a > 0 => i # 0
  <2>1. \A u, v \in Nat \ {0} : u * v \in Nat \ {0}
    OBVIOUS
  <2>2. a > 0 => a * j \in Nat \ {0}
    BY <2>1
  <2>3. i = 0 => i * b = 0
    OBVIOUS
  <2> QED BY <1>4, <2>2, <2>3
<1> QED BY <1>1, <1>3, <1>4, <1>5 DEF Fractions

\* A probability over a fraction no smaller is one.
LEMMA QuotientUnit ==
    ASSUME NEW x \in Unit, NEW y \in Fractions, y[1] > 0, x[1] * y[2] <= y[1] * x[2]
    PROVE  Quotient(x, y) \in Unit
<1>1. PICK a \in Nat, b \in Nat \ {0} : x = <<a, b>> /\ a <= b
  BY UnitPair
<1>2. PICK c \in Nat \ {0}, d \in Nat \ {0} : y = <<c, d>>
  BY DEF Fractions
<1>3. a * d <= c * b
  BY <1>1, <1>2
<1>4. PICK i \in Nat, j \in Nat \ {0} : Quotient(x, y) = <<i, j>> /\ i * (b * c) = (a * d) * j
  BY <1>1, <1>2, QuotientIs
<1> DEFINE m == a * d
           n == b * c
<1>5. m \in Nat /\ n \in Nat \ {0} /\ m <= n /\ i * n = m * j
  <2>1. \A u, v \in Nat \ {0} : u * v \in Nat \ {0}
    OBVIOUS
  <2>2. b * c = c * b
    OBVIOUS
  <2> QED BY <1>3, <1>4, <2>1, <2>2
<1> HIDE DEF m, n
<1>6. <<i, j>> \in Unit
  BY <1>5, UnitValue
<1> QED BY <1>4, <1>6

\* To learn with probability t what is known with probability q makes it known with
\* one that is at least t.
LEMMA LearnedUnit ==
    ASSUME NEW q \in Unit, NEW t \in Unit
    PROVE  LET r == Plus(q, Times(Not(q), t))
           IN  r \in Unit /\ t[1] * r[2] <= r[1] * t[2]
<1> DEFINE r == Plus(q, Times(Not(q), t))
<1>1. PICK a \in Nat, b \in Nat \ {0} : q = <<a, b>> /\ a <= b
  BY UnitPair
<1>2. PICK c \in Nat, d \in Nat \ {0} : t = <<c, d>> /\ c <= d
  BY UnitPair
<1>3. PICK n1 \in Nat, n2 \in Nat \ {0} : Not(q) = <<n1, n2>> /\ n1 * b = (b - a) * n2
  BY <1>1, NotIs
<1>4. PICK m1 \in Nat, m2 \in Nat \ {0} : Times(Not(q), t) = <<m1, m2>> /\ m1 * (n2 * d) = (n1 * c) * m2
  BY <1>2, <1>3, TimesIs
<1>5. PICK i \in Nat, j \in Nat \ {0} : r = <<i, j>> /\ i * (b * m2) = (a * m2 + m1 * b) * j
  BY <1>1, <1>4, PlusIs
\* The chance of not knowing, and of learning it then, over common denominators.
<1>6. (m1 * b) * d = ((b - a) * c) * m2
  <2>1. n2 * ((m1 * b) * d) = b * (m1 * (n2 * d))
    OBVIOUS
  <2>2. b * ((n1 * c) * m2) = (n1 * b) * (c * m2)
    OBVIOUS
  <2>3. ((b - a) * n2) * (c * m2) = n2 * (((b - a) * c) * m2)
    BY <1>1
  <2>4. n2 * ((m1 * b) * d) = n2 * (((b - a) * c) * m2)
    BY <2>1, <2>2, <2>3, <1>3, <1>4
  <2>5. (m1 * b) * d \in Int /\ ((b - a) * c) * m2 \in Int
    BY <1>1
  <2> QED BY <2>4, <2>5, Cancels
<1> DEFINE u == m1 * b
           v == a * m2
           w == b * m2
<1>7. u \in Nat /\ v \in Nat /\ w \in Nat \ {0}
  <2>1. \A x, y \in Nat \ {0} : x * y \in Nat \ {0}
    OBVIOUS
  <2> QED BY <2>1
<1>8. v <= w
  <2>1. m2 * a <= m2 * b
    BY <1>1, Scales
  <2> QED BY <2>1
<1>9. u * d = (w - v) * c
  <2>1. ((b - a) * c) * m2 = (b * m2 - a * m2) * c
    BY <1>1
  <2> QED BY <1>6, <2>1
<1>10. i * w = (v + u) * j
  BY <1>5
<1> HIDE DEF u, v, w
<1>11. u <= w - v
  <2>1. (w - v) * c <= (w - v) * d
    <3>1. w - v \in Nat
      BY <1>7, <1>8
    <3> QED BY <3>1, <1>2, Scales
  <2>2. d * u <= d * (w - v)
    BY <2>1, <1>9, <1>7
  <2> QED BY <2>2, <1>7, SameOrder
<1>12. <<i, j>> \in Unit
  <2> DEFINE k == v + u
  <2>1. k \in Nat /\ k <= w /\ i * w = k * j
    BY <1>7, <1>10, <1>11
  <2> HIDE DEF k
  <2> QED BY <2>1, <1>7, UnitValue
<1>13. c * j <= i * d
  <2>1. SUFFICES ASSUME i * d < c * j PROVE FALSE
    OBVIOUS
  <2>2. w * (i * d) < w * (c * j)
    BY <2>1, <1>7, Cancels
  <2>3. w * (i * d) = j * ((v + u) * d)
    <3>1. w * (i * d) = (i * w) * d
      BY <1>7
    <3>2. ((v + u) * j) * d = j * ((v + u) * d)
      BY <1>7
    <3> QED BY <3>1, <3>2, <1>10
  <2>4. w * (c * j) = j * (w * c)
    BY <1>7
  <2>5. (v + u) * d < w * c
    BY <2>2, <2>3, <2>4, <1>7, Cancels
  <2>6. (v + u) * d = v * d + (w - v) * c
    BY <1>7, <1>9
  <2>7. v * d + (w - v) * c = w * c + v * (d - c)
    BY <1>7, <1>2
  <2>8. v * (d - c) \in Nat
    BY <1>7, <1>2
  <2>9. w * c \in Nat
    BY <1>7
  <2> QED BY <2>5, <2>6, <2>7, <2>8, <2>9
<1>14. t[1] * r[2] <= r[1] * t[2]
  BY <1>2, <1>5, <1>13
<1> QED BY <1>5, <1>12, <1>14

-----------------------------------------------------------------------------
(* Knowledge tracing *)

\* Below compares fractions.
LEMMA BelowIs ==
    ASSUME NEW x \in Fractions, NEW y \in Fractions
    PROVE  Below(x, y) <=> x[1] * y[2] < y[1] * x[2]
<1>1. PICK a \in Nat, b \in Nat \ {0} : x = <<a, b>>
  BY DEF Fractions
<1>2. PICK c \in Nat, d \in Nat \ {0} : y = <<c, d>>
  BY DEF Fractions
<1>3. Below(x, y) <=> a * d < c * b
  BY <1>1, <1>2, LessThan DEF Below
<1> QED BY <1>1, <1>2, <1>3

\* Probabilities are the fractions not above 1; which are positive, and which are below 1.
LEMMA UnitIs ==
    ASSUME NEW x \in Fractions
    PROVE  /\ x \in Unit <=> ~Below(Whole(1), x)
           /\ Below(Whole(0), x) <=> 0 < x[1]
           /\ Below(x, Whole(1)) <=> x[1] < x[2]
<1>1. PICK a \in Nat, b \in Nat \ {0} : x = <<a, b>>
  BY DEF Fractions
<1>2. Whole(0) = <<0, 1>> /\ Whole(1) = <<1, 1>> /\ Whole(0) \in Fractions /\ Whole(1) \in Fractions
  BY DEF Whole, Fractions
<1>3. Below(Whole(0), x) <=> 0 < a
  BY <1>1, <1>2, BelowIs
<1>4. Below(x, Whole(1)) <=> a < b
  BY <1>1, <1>2, BelowIs
<1>5. Below(Whole(1), x) <=> b < a
  BY <1>1, <1>2, BelowIs
<1> QED BY <1>1, <1>3, <1>4, <1>5 DEF Unit

\* The parameters of a topic are probabilities.
LEMMA ParametersAreUnit ==
    ASSUME NEW t \in Topics
    PROVE  /\ Parameters[t].pL0 \in Unit /\ Parameters[t].pT \in Unit
           /\ Parameters[t].pS \in Unit /\ Parameters[t].pG \in Unit
  BY ParametersAreProbabilities, UnitIs

\* What is stored of a probability is one, no smaller.
LEMMA StoredUnit ==
    ASSUME NEW x \in Unit
    PROVE  /\ Stored(x) \in Unit /\ x[1] * Stored(x)[2] <= Stored(x)[1] * x[2]
           /\ Stored(x) = x \/ Stored(x) = Whole(1)
<1>1. PICK a \in Nat, b \in Nat \ {0} : x = <<a, b>> /\ a <= b
  BY UnitPair
<1>2. Whole(1) = <<1, 1>> /\ Whole(1) \in Unit
  BY DEF Whole, Unit, Fractions
<1>3. a * b <= a * b /\ a * 1 <= 1 * b
  BY <1>1
<1>4. Stored(x) = x \/ Stored(x) = Whole(1)
  BY DEF Stored
<1> QED BY <1>1, <1>2, <1>3, <1>4

\* The evidence for an answer is no smaller than the part of it in which the topic is
\* known; in a regular topic that may be known it is positive.
LEMMA EvidenceAbove ==
    ASSUME NEW t \in Topics, NEW p \in Unit, NEW correct \in BOOLEAN
    PROVE  LET k == Times(Likelihood(Parameters[t], correct).known, p)
               e == Evidence(Parameters[t], p, correct)
           IN  /\ k \in Unit /\ e \in Fractions /\ k[1] * e[2] <= e[1] * k[2]
               /\ Regular(Parameters[t]) /\ p[1] > 0 => e[1] > 0
<1> DEFINE l == Likelihood(Parameters[t], correct)
<1>1. l.known \in Unit /\ l.unknown \in Unit
  BY ParametersAreUnit, NotUnit DEF Likelihood
<1>2. Regular(Parameters[t]) => l.known[1] > 0
  <2>1. Parameters[t].pS \in Unit /\ Parameters[t].pS \in Fractions
    BY ParametersAreUnit DEF Unit
  <2>2. Regular(Parameters[t]) => 0 < Parameters[t].pS[1] /\ Parameters[t].pS[1] < Parameters[t].pS[2]
    BY <2>1, UnitIs DEF Regular
  <2> QED BY <2>1, <2>2, NotUnit DEF Likelihood
<1> HIDE DEF l
<1>3. Times(l.known, p) \in Unit /\ (l.known[1] > 0 /\ p[1] > 0 => Times(l.known, p)[1] > 0)
  BY <1>1, TimesUnit
<1>4. Times(l.unknown, Not(p)) \in Unit
  BY <1>1, TimesUnit, NotUnit
<1>5. Evidence(Parameters[t], p, correct) = Plus(Times(l.known, p), Times(l.unknown, Not(p)))
  BY DEF Evidence, l
<1> QED BY <1>2, <1>3, <1>4, <1>5, PlusGrows DEF l

\* With evidence an answer leads from a probability to one, no smaller than that of learning.
LEMMA PKnownAfterUnit ==
    ASSUME NEW t \in Topics, NEW p \in Unit, NEW correct \in BOOLEAN,
           Evidence(Parameters[t], p, correct)[1] # 0
    PROVE  /\ PKnownAfter(Parameters[t], p, correct) \in Unit
           /\ ~Below(PKnownAfter(Parameters[t], p, correct), Parameters[t].pT)
<1> DEFINE k == Times(Likelihood(Parameters[t], correct).known, p)
           e == Evidence(Parameters[t], p, correct)
           pT == Parameters[t].pT
           q == PosteriorGivenObs(Parameters[t], p, correct)
           x == Plus(q, Times(Not(q), pT))
           r == PKnownAfter(Parameters[t], p, correct)
<1>1. q \in Unit
  <2>1. k \in Unit /\ e \in Fractions /\ k[1] * e[2] <= e[1] * k[2]
    BY EvidenceAbove
  <2>2. e[1] > 0
    BY <2>1 DEF Fractions
  <2>3. q = Quotient(k, e)
    BY DEF PosteriorGivenObs
  <2> HIDE DEF k, e, q
  <2> QED BY <2>1, <2>2, <2>3, QuotientUnit
<1>2. r = Stored(x)
  BY DEF PKnownAfter
<1>3. pT \in Unit
  BY ParametersAreUnit
<1> HIDE DEF q, r, pT
<1>4. x \in Unit /\ pT[1] * x[2] <= x[1] * pT[2]
  BY <1>1, <1>3, LearnedUnit
<1> HIDE DEF x
<1>5. r \in Unit /\ (r = x \/ r = Whole(1))
  BY <1>2, <1>4, StoredUnit
<1>6. ~Below(r, pT)
  <2>1. CASE r = Whole(1)
    BY <2>1, <1>3, UnitIs DEF Unit
  <2>2. CASE r = x
    <3>1. PICK a \in Nat, b \in Nat \ {0} : r = <<a, b>> /\ a <= b
      BY <1>5, UnitPair
    <3>2. PICK c \in Nat, d \in Nat \ {0} : pT = <<c, d>> /\ c <= d
      BY <1>3, UnitPair
    <3>3. c * b <= a * d
      BY <2>2, <1>4, <3>1, <3>2
    <3>4. Below(r, pT) <=> a * d < c * b
      BY <1>3, <1>5, <3>1, <3>2, BelowIs DEF Unit
    <3>5. a * d \in Int /\ c * b \in Int
      OBVIOUS
    <3> QED BY <3>3, <3>4, <3>5
  <2> QED BY <1>5, <2>1, <2>2
<1> QED BY <1>5, <1>6 DEF r, pT

\* Whatever is on record is a probability, no smaller than that of learning the topic.
MasteryInv ==
    /\ mastery = [t \in Topics |-> mastery[t]]
    /\ \A t \in Topics : mastery[t] # NoRecord =>
         mastery[t] \in Unit /\ ~Below(mastery[t], Parameters[t].pT)

\* A new student has nothing on record.
LEMMA InitMastery == PracticeInit => MasteryInv
  BY DEF PracticeInit, MasteryInv

\* The prior of a topic, on record or not, is a probability.
LEMMA PriorUnit ==
    ASSUME MasteryInv, NEW t \in Topics
    PROVE  Prior(mastery, Parameters, t) \in Unit
  BY ParametersAreUnit DEF MasteryInv, Prior

\* An answer to an exercise of the course keeps MasteryInv.
LEMMA SolveKeepsMastery ==
    ASSUME MasteryInv, NEW ex, ex.topic \in Topics, NEW x, NEW inCourse, Solve(ex, x, inCourse)
    PROVE  MasteryInv'
<1> DEFINE t == ex.topic
<1>1. PICK correct \in BOOLEAN : mastery' = ApplyAttempt(mastery, Parameters, t, correct)
  <2>1. (Classify(ex.problem, x) = "CORRECT") \in BOOLEAN
    OBVIOUS
  <2> QED BY <2>1 DEF Solve
<1> DEFINE p == Prior(mastery, Parameters, t)
           r == PKnownAfter(Parameters[t], p, correct)
<1>2. CASE Evidence(Parameters[t], p, correct)[1] = 0
  <2>1. mastery' = mastery
    BY <1>1, <1>2 DEF ApplyAttempt
  <2> QED BY <2>1 DEF MasteryInv
<1>3. CASE Evidence(Parameters[t], p, correct)[1] # 0
  <2>1. r \in Unit /\ ~Below(r, Parameters[t].pT)
    <3>1. p \in Unit
      BY PriorUnit
    <3> HIDE DEF p
    <3> QED BY <1>3, <3>1, PKnownAfterUnit
  <2>2. mastery' = [mastery EXCEPT ![t] = r]
    BY <1>1, <1>3 DEF ApplyAttempt
  <2> HIDE DEF r
  <2>3. mastery' = [u \in Topics |-> IF u = t THEN r ELSE mastery[u]]
    BY <2>2 DEF MasteryInv
  <2> HIDE DEF t
  <2>4. mastery' = [u \in Topics |-> mastery'[u]]
    BY <2>3
  <2>5. ASSUME NEW u \in Topics, mastery'[u] # NoRecord
        PROVE  mastery'[u] \in Unit /\ ~Below(mastery'[u], Parameters[u].pT)
    <3>1. CASE u = t
      BY <2>1, <2>3, <3>1
    <3>2. CASE u # t
      BY <2>3, <2>5, <3>2 DEF MasteryInv
    <3> QED BY <3>1, <3>2
  <2> QED BY <2>4, <2>5 DEF MasteryInv
<1> QED BY <1>2, <1>3

\* Every step of practice does.
LEMMA NextMastery == MasteryInv /\ [PracticeNext]_practiceVars => MasteryInv'
<1> SUFFICES ASSUME MasteryInv, [PracticeNext]_practiceVars PROVE MasteryInv'
  OBVIOUS
<1>1. CASE UNCHANGED mastery
  BY <1>1 DEF MasteryInv
<1>2. ASSUME NEW ex, NEW x, SolveRecommended(ex, x) \/ SolvePractice(ex, x) PROVE MasteryInv'
  <2>1. ex.topic \in Topics
    BY <1>2 DEF SolveRecommended, SolvePractice, NextExercises, PracticeExercises, Fresh, Active
  <2> QED BY <1>2, <2>1, SolveKeepsMastery DEF SolveRecommended, SolvePractice
<1>3. UNCHANGED mastery \/ \E ex, x : SolveRecommended(ex, x) \/ SolvePractice(ex, x)
  BY DEF PracticeNext, practiceVars, AnswerDrill, MaterializeExercise, AddExercise, NextDay, ItemsNext,
         CreateItem, GenerateItems, AssignmentsNext, CreateAssignment, CreateRecommended
<1> QED BY <1>1, <1>2, <1>3

\* What is on record then is as PosteriorIsDefined asks: no less than pT, a regular
\* topic's pKnown is positive, and with it the evidence of the next answer.
LEMMA PosteriorDefined == MasteryInv => PosteriorIsDefined
<1> SUFFICES ASSUME MasteryInv, NEW t \in Topics
             PROVE  /\ mastery[t] # NoRecord =>
                         ~Below(mastery[t], Parameters[t].pT) /\ ~Below(Whole(1), mastery[t])
                    /\ Regular(Parameters[t]) => \A correct \in BOOLEAN :
                         Evidence(Parameters[t], Prior(mastery, Parameters, t), correct)[1] > 0
  BY DEF PosteriorIsDefined
<1>1. mastery[t] # NoRecord => ~Below(mastery[t], Parameters[t].pT) /\ ~Below(Whole(1), mastery[t])
  BY UnitIs DEF MasteryInv, Unit
<1>2. ASSUME Regular(Parameters[t]), NEW correct \in BOOLEAN
      PROVE  Evidence(Parameters[t], Prior(mastery, Parameters, t), correct)[1] > 0
  <2> DEFINE p == Prior(mastery, Parameters, t)
  <2>1. Parameters[t].pL0[1] > 0 /\ Parameters[t].pT[1] > 0
    BY <1>2, ParametersAreUnit, UnitIs DEF Regular, Unit
  <2>2. p \in Unit
    BY PriorUnit
  <2>3. p[1] > 0
    <3>1. CASE mastery[t] = NoRecord
      BY <2>1, <3>1 DEF Prior
    <3>2. CASE mastery[t] # NoRecord
      <4>1. p = mastery[t] /\ ~Below(p, Parameters[t].pT)
        BY <1>1, <3>2 DEF Prior
      <4> HIDE DEF p
      <4>2. PICK a \in Nat, b \in Nat \ {0} : p = <<a, b>> /\ a <= b
        BY <2>2, UnitPair
      <4>3. PICK c \in Nat, d \in Nat \ {0} : Parameters[t].pT = <<c, d>> /\ c <= d
        BY ParametersAreUnit, UnitPair
      <4>4. Below(p, Parameters[t].pT) <=> a * d < c * b
        BY <2>2, <4>2, <4>3, ParametersAreUnit, BelowIs DEF Unit
      <4>5. c * b \in Nat \ {0}
        <5>1. \A u, v \in Nat \ {0} : u * v \in Nat \ {0}
          OBVIOUS
        <5> QED BY <2>1, <4>3, <5>1
      <4>6. a = 0 => a * d = 0
        OBVIOUS
      <4> QED BY <4>1, <4>2, <4>4, <4>5, <4>6
    <3> QED BY <3>1, <3>2
  <2> HIDE DEF p
  <2>4. Evidence(Parameters[t], p, correct)[1] > 0
    BY <1>2, <2>2, <2>3, EvidenceAbove
  <2> QED BY <2>4 DEF p
<1> QED BY <1>1, <1>2

-----------------------------------------------------------------------------
(* The order of fractions, and their means *)

\* The order of fractions.
AtMost(x, y) == x[1] * y[2] <= y[1] * x[2]

\* Below is the order's negation.
LEMMA AtMostIs ==
    ASSUME NEW x \in Fractions, NEW y \in Fractions
    PROVE  AtMost(x, y) <=> ~Below(y, x)
<1>1. PICK a \in Nat, b \in Nat \ {0} : x = <<a, b>>
  BY DEF Fractions
<1>2. PICK c \in Nat, d \in Nat \ {0} : y = <<c, d>>
  BY DEF Fractions
<1>3. Below(y, x) <=> c * b < a * d
  BY <1>1, <1>2, BelowIs
<1>4. AtMost(x, y) <=> a * d <= c * b
  BY <1>1, <1>2 DEF AtMost
<1>5. a * d \in Nat /\ c * b \in Nat
  OBVIOUS
<1> QED BY <1>3, <1>4, <1>5

\* It is an order.
LEMMA AtMostOrders ==
    ASSUME NEW x \in Fractions, NEW y \in Fractions, NEW z \in Fractions
    PROVE  AtMost(x, x) /\ (AtMost(x, y) /\ AtMost(y, z) => AtMost(x, z))
<1>1. PICK a \in Nat, b \in Nat \ {0} : x = <<a, b>>
  BY DEF Fractions
<1>2. PICK c \in Nat, d \in Nat \ {0} : y = <<c, d>>
  BY DEF Fractions
<1>3. PICK e \in Nat, f \in Nat \ {0} : z = <<e, f>>
  BY DEF Fractions
<1>4. ASSUME a * d <= c * b, c * f <= e * d PROVE a * f <= e * b
  <2>1. f * (a * d) <= f * (c * b)
    BY <1>4, Scales
  <2>2. b * (c * f) <= b * (e * d)
    BY <1>4, Scales
  <2>3. d * (a * f) <= d * (e * b)
    BY <2>1, <2>2
  <2>4. a * f \in Nat /\ e * b \in Nat
    OBVIOUS
  <2> QED BY <2>3, <2>4, Cancels
<1>5. a * b <= a * b
  OBVIOUS
<1> QED BY <1>1, <1>2, <1>3, <1>4, <1>5 DEF AtMost

\* Sums are fractions, and grow with what is added.
LEMMA PlusMonotone ==
    ASSUME NEW x \in Fractions, NEW y \in Fractions, NEW v \in Fractions, NEW w \in Fractions
    PROVE  /\ Plus(x, y) \in Fractions
           /\ AtMost(x, v) /\ AtMost(y, w) => AtMost(Plus(x, y), Plus(v, w))
<1>1. PICK a \in Nat, b \in Nat \ {0} : x = <<a, b>>
  BY DEF Fractions
<1>2. PICK c \in Nat, d \in Nat \ {0} : y = <<c, d>>
  BY DEF Fractions
<1>3. PICK e \in Nat, f \in Nat \ {0} : v = <<e, f>>
  BY DEF Fractions
<1>4. PICK g \in Nat, h \in Nat \ {0} : w = <<g, h>>
  BY DEF Fractions
<1>5. PICK i \in Nat, j \in Nat \ {0} : Plus(x, y) = <<i, j>> /\ i * (b * d) = (a * d + c * b) * j
  BY <1>1, <1>2, PlusIs
<1>6. PICK m \in Nat, n \in Nat \ {0} : Plus(v, w) = <<m, n>> /\ m * (f * h) = (e * h + g * f) * n
  BY <1>3, <1>4, PlusIs
<1>7. ASSUME a * f <= e * b, c * h <= g * d PROVE i * n <= m * j
  <2>1. (d * h) * (a * f) <= (d * h) * (e * b)
    <3>1. d * h \in Nat /\ a * f \in Int /\ e * b \in Int
      OBVIOUS
    <3> QED BY <1>7, <3>1, Scales
  <2>2. (b * f) * (c * h) <= (b * f) * (g * d)
    <3>1. b * f \in Nat /\ c * h \in Int /\ g * d \in Int
      OBVIOUS
    <3> QED BY <1>7, <3>1, Scales
  <2>3. (a * d + c * b) * (f * h) <= (e * h + g * f) * (b * d)
    <3>1. (a * d + c * b) * (f * h) = (d * h) * (a * f) + (b * f) * (c * h)
      OBVIOUS
    <3>2. (e * h + g * f) * (b * d) = (d * h) * (e * b) + (b * f) * (g * d)
      OBVIOUS
    <3>3. /\ (d * h) * (a * f) \in Int /\ (b * f) * (c * h) \in Int
          /\ (d * h) * (e * b) \in Int /\ (b * f) * (g * d) \in Int
      OBVIOUS
    <3> QED BY <2>1, <2>2, <3>1, <3>2, <3>3
  <2> DEFINE s == a * d + c * b
             t == e * h + g * f
             p == b * d
             q == f * h
  <2>4. s \in Nat /\ t \in Nat /\ p \in Nat \ {0} /\ q \in Nat \ {0}
    OBVIOUS
  <2>5. s * q <= t * p /\ i * p = s * j /\ m * q = t * n
    BY <1>5, <1>6, <2>3
  <2> HIDE DEF s, t, p, q
  <2>6. (j * n) * (s * q) <= (j * n) * (t * p)
    <3>1. j * n \in Nat /\ s * q \in Int /\ t * p \in Int
      BY <2>4
    <3> QED BY <2>5, <3>1, Scales
  <2>7. (p * q) * (i * n) = (j * n) * (s * q) /\ (p * q) * (m * j) = (j * n) * (t * p)
    <3>1. (p * q) * (i * n) = (i * p) * (q * n) /\ (s * j) * (q * n) = (j * n) * (s * q)
      BY <2>4
    <3>2. (p * q) * (m * j) = (m * q) * (p * j) /\ (t * n) * (p * j) = (j * n) * (t * p)
      BY <2>4
    <3> QED BY <2>5, <3>1, <3>2
  <2>8. p * q \in Nat \ {0} /\ i * n \in Int /\ m * j \in Int
    BY <2>4
  <2>9. (p * q) * (i * n) <= (p * q) * (m * j)
    BY <2>6, <2>7
  <2> QED BY <2>8, <2>9, Cancels
<1> QED BY <1>1, <1>2, <1>3, <1>4, <1>5, <1>6, <1>7 DEF AtMost, Fractions

\* A sum of fractions over some number of times as many: it is one, and keeps the order.
LEMMA OverMonotone ==
    ASSUME NEW x \in Fractions, NEW y \in Fractions, NEW n \in Nat \ {0}
    PROVE  /\ Over(x[1], x[2] * n) \in Fractions
           /\ AtMost(x, y) => AtMost(Over(x[1], x[2] * n), Over(y[1], y[2] * n))
<1>1. PICK a \in Nat, b \in Nat \ {0} : x = <<a, b>>
  BY DEF Fractions
<1>2. PICK c \in Nat, d \in Nat \ {0} : y = <<c, d>>
  BY DEF Fractions
<1>3. b * n \in Nat \ {0} /\ d * n \in Nat \ {0}
  OBVIOUS
<1>4. PICK i \in Nat, j \in Nat \ {0} : Over(a, b * n) = <<i, j>> /\ i * (b * n) = a * j
  BY <1>3, OverIs
<1>5. PICK k \in Nat, m \in Nat \ {0} : Over(c, d * n) = <<k, m>> /\ k * (d * n) = c * m
  BY <1>3, OverIs
<1>6. ASSUME a * d <= c * b PROVE i * m <= k * j
  <2>1. (j * m) * (a * d) <= (j * m) * (c * b)
    <3>1. j * m \in Nat /\ a * d \in Int /\ c * b \in Int
      OBVIOUS
    <3> QED BY <1>6, <3>1, Scales
  <2>2. ((b * d) * n) * (i * m) = (j * m) * (a * d)
    <3>1. ((b * d) * n) * (i * m) = (i * (b * n)) * (d * m) /\ (a * j) * (d * m) = (j * m) * (a * d)
      OBVIOUS
    <3> QED BY <1>4, <3>1
  <2>3. ((b * d) * n) * (k * j) = (j * m) * (c * b)
    <3>1. ((b * d) * n) * (k * j) = (k * (d * n)) * (b * j) /\ (c * m) * (b * j) = (j * m) * (c * b)
      OBVIOUS
    <3> QED BY <1>5, <3>1
  <2>4. (b * d) * n \in Nat \ {0} /\ i * m \in Int /\ k * j \in Int
    OBVIOUS
  <2> QED BY <2>1, <2>2, <2>3, <2>4, Cancels
<1> QED BY <1>1, <1>2, <1>4, <1>5, <1>6 DEF AtMost, Fractions

\* What Mean computes first, for a function.
PlusOver(f, S) ==
  (CHOOSE iter : iter = [s \in SUBSET S |->
     IF s = {} THEN Whole(0)
     ELSE Plus(f[CHOOSE x \in s : TRUE], iter[s \ {CHOOSE x \in s : TRUE}])])[S]

\* The sums of f over the subsets of S with n members at most.
AreSums(h, f, S, n) ==
    \A s \in SUBSET S : Cardinality(s) <= n =>
      h[s] = IF s = {} THEN Whole(0)
             ELSE Plus(f[CHOOSE x \in s : TRUE], h[s \ {CHOOSE x \in s : TRUE}])

\* A set without one of its members.
LEMMA OneLess ==
    ASSUME NEW S, IsFiniteSet(S), NEW s \in SUBSET S, s # {}
    PROVE  LET r == s \ {CHOOSE x \in s : TRUE}
           IN  /\ (CHOOSE x \in s : TRUE) \in s /\ r \in SUBSET S
               /\ Cardinality(s) \in Nat \ {0} /\ Cardinality(r) = Cardinality(s) - 1
<1> DEFINE x == CHOOSE y \in s : TRUE
<1>1. x \in s
  OBVIOUS
<1> HIDE DEF x
<1>2. IsFiniteSet(s)
  BY FS_Subset
<1>3. Cardinality(s \ {x}) \in Nat /\ Cardinality(s) \in Nat /\ Cardinality(s \ {x}) = Cardinality(s) - 1
  BY <1>1, <1>2, FS_RemoveElement, FS_CardinalityType
<1>4. x \in s /\ s \ {x} \in SUBSET S /\ Cardinality(s) \in Nat \ {0} /\ Cardinality(s \ {x}) = Cardinality(s) - 1
  BY <1>1, <1>3
<1> QED BY <1>4 DEF x

\* There are such sums.
LEMMA SumsExist ==
    ASSUME NEW S, IsFiniteSet(S), NEW f, NEW n \in Nat
    PROVE  \E h : AreSums(h, f, S, n)
<1> DEFINE T == {m \in Nat : ~ \E h : AreSums(h, f, S, m)}
<1>1. SUFFICES ASSUME T # {} PROVE FALSE
  OBVIOUS
<1>2. PICK m \in T : \A k \in T : m <= k
  <2>1. T \subseteq Nat
    OBVIOUS
  <2> HIDE DEF T
  <2> QED BY <1>1, <2>1, LeastNumber
<1>3. m \in Nat /\ ~ \E h : AreSums(h, f, S, m)
  OBVIOUS
<1>4. m # 0
  <2> DEFINE h == [s \in SUBSET S |-> Whole(0)]
  <2>1. ASSUME NEW s \in SUBSET S, Cardinality(s) <= 0
        PROVE  s = {} /\ h[s] = Whole(0)
    <3>1. s # {} => Cardinality(s) \in Nat \ {0}
      BY OneLess
    <3> QED BY <2>1, <3>1
  <2>2. AreSums(h, f, S, 0)
    BY <2>1 DEF AreSums
  <2> HIDE DEF h
  <2> QED BY <1>3, <2>2
<1>5. PICK g : AreSums(g, f, S, m - 1)
  <2>1. m - 1 \in Nat /\ m - 1 \notin T
    <3> HIDE DEF T
    <3> QED BY <1>2, <1>3, <1>4
  <2> QED BY <2>1
<1> DEFINE x(s) == CHOOSE y \in s : TRUE
           h == [s \in SUBSET S |->
                   IF Cardinality(s) <= m - 1 THEN g[s] ELSE Plus(f[x(s)], g[s \ {x(s)}])]
<1>6. ASSUME NEW s \in SUBSET S, Cardinality(s) <= m
      PROVE  h[s] = IF s = {} THEN Whole(0) ELSE Plus(f[x(s)], h[s \ {x(s)}])
  <2>1. CASE s = {}
    <3>1. Cardinality(s) <= m - 1
      <4>1. Cardinality(s) = 0
        BY <2>1, FS_EmptySet
      <4> QED BY <4>1, <1>3, <1>4
    <3>2. g[s] = Whole(0)
      BY <3>1, <2>1, <1>5, Zenon DEF AreSums
    <3> QED BY <2>1, <3>1, <3>2
  <2>2. CASE s # {}
    <3>1. /\ s \ {x(s)} \in SUBSET S
          /\ Cardinality(s) \in Nat \ {0} /\ Cardinality(s \ {x(s)}) = Cardinality(s) - 1
      BY <2>2, OneLess, Zenon
    <3>2. Cardinality(s \ {x(s)}) <= m - 1
      BY <3>1, <1>3, <1>6
    <3>3. h[s \ {x(s)}] = g[s \ {x(s)}]
      BY <3>1, <3>2
    <3>4. h[s] = Plus(f[x(s)], g[s \ {x(s)}])
      <4>1. CASE Cardinality(s) <= m - 1
        <5>1. g[s] = Plus(f[x(s)], g[s \ {x(s)}])
          BY <4>1, <2>2, <1>5, Zenon DEF AreSums
        <5>2. h[s] = g[s]
          BY <4>1
        <5> QED BY <5>1, <5>2
      <4>2. CASE ~(Cardinality(s) <= m - 1)
        BY <4>2
      <4> QED BY <4>1, <4>2
    <3> QED BY <2>2, <3>3, <3>4
  <2> QED BY <2>1, <2>2
<1> HIDE DEF h
<1>7. AreSums(h, f, S, m)
  BY <1>6 DEF AreSums
<1> QED BY <1>3, <1>7

\* PlusOver ends in the sum over the whole set.
LEMMA PlusOverSums ==
    ASSUME NEW S, IsFiniteSet(S), NEW f
    PROVE  \E h : AreSums(h, f, S, Cardinality(S)) /\ h[S] = PlusOver(f, S)
<1> DEFINE x(s) == CHOOSE y \in s : TRUE
           F(h) == [s \in SUBSET S |-> IF s = {} THEN Whole(0) ELSE Plus(f[x(s)], h[s \ {x(s)}])]
           fold == CHOOSE iter : iter = F(iter)
<1>1. Cardinality(S) \in Nat
  BY FS_CardinalityType
<1>2. PICK g : AreSums(g, f, S, Cardinality(S))
  BY <1>1, SumsExist
<1> DEFINE h == [s \in SUBSET S |-> g[s]]
<1>3. ASSUME NEW s \in SUBSET S
      PROVE  h[s] = IF s = {} THEN Whole(0) ELSE Plus(f[x(s)], h[s \ {x(s)}])
  <2>1. Cardinality(s) <= Cardinality(S)
    BY FS_Subset
  <2>2. g[s] = IF s = {} THEN Whole(0) ELSE Plus(f[x(s)], g[s \ {x(s)}])
    BY <2>1, <1>2, Zenon DEF AreSums
  <2>3. h[s] = g[s] /\ h[s \ {x(s)}] = g[s \ {x(s)}]
    OBVIOUS
  <2> HIDE DEF h, x
  <2> QED BY <2>2, <2>3
<1>4. h = [s \in SUBSET S |-> h[s]]
  OBVIOUS
<1> HIDE DEF h
<1>5. h = F(h)
  BY <1>3, <1>4
<1>6. fold = F(fold)
  <2> HIDE DEF F
  <2> QED BY <1>5
<1>7. AreSums(fold, f, S, Cardinality(S))
  <2> HIDE DEF fold
  <2>1. ASSUME NEW s \in SUBSET S
        PROVE  fold[s] = IF s = {} THEN Whole(0) ELSE Plus(f[x(s)], fold[s \ {x(s)}])
    BY <1>6, Zenon
  <2> QED BY <2>1, Zenon DEF AreSums
<1>8. PlusOver(f, S) = fold[S]
  BY DEF PlusOver, fold, F, x
<1> QED BY <1>7, <1>8

\* A sum of fractions is one, and grows with each of them.
LEMMA PlusOverMonotone ==
    ASSUME NEW S, IsFiniteSet(S), NEW f, NEW g,
           \A x \in S : f[x] \in Fractions /\ g[x] \in Fractions /\ AtMost(f[x], g[x])
    PROVE  PlusOver(f, S) \in Fractions /\ AtMost(PlusOver(f, S), PlusOver(g, S))
<1>1. PICK h : AreSums(h, f, S, Cardinality(S)) /\ h[S] = PlusOver(f, S)
  BY PlusOverSums
<1>2. PICK k : AreSums(k, g, S, Cardinality(S)) /\ k[S] = PlusOver(g, S)
  BY PlusOverSums
<1> DEFINE Good(s) == h[s] \in Fractions /\ k[s] \in Fractions /\ AtMost(h[s], k[s])
           T == {n \in Nat : \E s \in SUBSET S : n = Cardinality(s) /\ ~Good(s)}
<1>3. SUFFICES ASSUME T # {} PROVE FALSE
  <2>1. Cardinality(S) \in Nat /\ S \in SUBSET S
    BY FS_CardinalityType
  <2>2. Good(S)
    BY <1>3, <2>1
  <2> QED BY <1>1, <1>2, <2>2
<1>4. PICK n \in T : \A m \in T : n <= m
  <2>1. T \subseteq Nat
    OBVIOUS
  <2> HIDE DEF T
  <2> QED BY <1>3, <2>1, LeastNumber
<1>5. PICK s \in SUBSET S : n = Cardinality(s) /\ ~Good(s)
  OBVIOUS
<1>6. Cardinality(s) <= Cardinality(S)
  BY FS_Subset
<1>7. s # {}
  <2>1. SUFFICES ASSUME s = {} PROVE FALSE
    OBVIOUS
  <2>2. h[s] = Whole(0) /\ k[s] = Whole(0)
    BY <1>1, <1>2, <1>6, <2>1, Zenon DEF AreSums
  <2>3. Whole(0) \in Fractions
    BY DEF Whole, Fractions
  <2>4. AtMost(Whole(0), Whole(0))
    BY DEF AtMost, Whole
  <2> QED BY <1>5, <2>2, <2>3, <2>4
<1> DEFINE x == CHOOSE y \in s : TRUE
           r == s \ {x}
<1>8. x \in s /\ r \in SUBSET S /\ Cardinality(s) \in Nat \ {0} /\ Cardinality(r) = Cardinality(s) - 1
  BY <1>7, OneLess, Zenon
<1>9. h[s] = Plus(f[x], h[r]) /\ k[s] = Plus(g[x], k[r])
  BY <1>1, <1>2, <1>6, <1>7, Zenon DEF AreSums
<1>10. Good(r)
  <2>1. n \in Nat /\ n - 1 \in Nat /\ n - 1 < n
    BY <1>5, <1>8
  <2>2. n - 1 \notin T
    <3> HIDE DEF T
    <3> QED BY <1>4, <2>1
  <2> QED BY <1>5, <1>8, <2>1, <2>2
<1>11. x \in S
  BY <1>8
<1> HIDE DEF x, r
<1>12. f[x] \in Fractions /\ g[x] \in Fractions /\ AtMost(f[x], g[x])
  BY <1>11
<1>13. h[s] \in Fractions /\ k[s] \in Fractions /\ AtMost(h[s], k[s])
  BY <1>9, <1>10, <1>12, PlusMonotone
<1> QED BY <1>5, <1>13

\* A mean of fractions is one, and grows with each of them.
LEMMA MeanMonotone ==
    ASSUME NEW S, IsFiniteSet(S), S # {}, NEW f, NEW g,
           \A x \in S : f[x] \in Fractions /\ g[x] \in Fractions /\ AtMost(f[x], g[x])
    PROVE  /\ Mean(f, S) \in Fractions /\ Mean(g, S) \in Fractions
           /\ AtMost(Mean(f, S), Mean(g, S))
<1>1. PlusOver(f, S) \in Fractions /\ AtMost(PlusOver(f, S), PlusOver(g, S))
  BY PlusOverMonotone
<1>2. PlusOver(g, S) \in Fractions
  BY PlusOverMonotone, AtMostOrders
<1>3. Cardinality(S) \in Nat \ {0}
  BY FS_CardinalityType, FS_EmptySet
<1>4. \A e : Mean(e, S) = Over(PlusOver(e, S)[1], PlusOver(e, S)[2] * Cardinality(S))
  BY DEF Mean, FoldFunctionOnSet, MapThenFoldSet, PlusOver
<1> HIDE DEF Over
<1> QED BY <1>1, <1>2, <1>3, <1>4, OverMonotone

-----------------------------------------------------------------------------
(* Knowledge tracing: what an answer does *)

\* The update of a probability p: known and unknown are the likelihoods of the answer when the
\* topic is known and when it is not, learned the chance to learn it.
Posterior(known, unknown, p) == Quotient(Times(known, p), Plus(Times(known, p), Times(unknown, Not(p))))
Updated(known, unknown, p, learned) ==
    LET q == Posterior(known, unknown, p) IN Plus(q, Times(Not(q), learned))

\* The weights of an answer of likelihoods s/t and g/h when the topic is known with probability
\* a/b, and when it is not, over a common denominator.
AreWeights(s, t, g, h, a, b) ==
    \E k1 \in Nat \ {0}, k2 \in Nat \ {0}, m1 \in Nat \ {0}, m2 \in Nat \ {0} :
      /\ Times(<<s, t>>, <<a, b>>) = <<k1, k2>> /\ Times(<<g, h>>, Not(<<a, b>>)) = <<m1, m2>>
      /\ k1 * ((t * b) * h) = ((s * h) * a) * k2
      /\ m1 * ((t * b) * h) = ((g * t) * (b - a)) * m2

\* An answer has them.
LEMMA WeightsOf ==
    ASSUME NEW s \in Nat \ {0}, NEW t \in Nat \ {0}, NEW g \in Nat \ {0}, NEW h \in Nat \ {0},
           NEW a \in Nat \ {0}, NEW b \in Nat \ {0}, a < b
    PROVE  AreWeights(s, t, g, h, a, b)
<1>0. \A x, y \in Nat \ {0} : x * y \in Nat \ {0}
  OBVIOUS
<1>1. PICK k1 \in Nat, k2 \in Nat \ {0} :
        Times(<<s, t>>, <<a, b>>) = <<k1, k2>> /\ k1 * (t * b) = (s * a) * k2
  BY TimesIs
<1>2. PICK n1 \in Nat, n2 \in Nat \ {0} : Not(<<a, b>>) = <<n1, n2>> /\ n1 * b = (b - a) * n2
  BY NotIs
<1>3. PICK m1 \in Nat, m2 \in Nat \ {0} :
        Times(<<g, h>>, <<n1, n2>>) = <<m1, m2>> /\ m1 * (h * n2) = (g * n1) * m2
  BY TimesIs
<1> DEFINE d == b - a
<1>4. d \in Nat \ {0} /\ n1 * b = d * n2
  BY <1>2
<1> HIDE DEF d
<1>5. k1 * ((t * b) * h) = ((s * h) * a) * k2
  <2>1. k1 * ((t * b) * h) = (k1 * (t * b)) * h /\ ((s * a) * k2) * h = ((s * h) * a) * k2
    OBVIOUS
  <2> QED BY <1>1, <2>1
<1>6. m1 * ((t * b) * h) = ((g * t) * d) * m2
  <2>1. n2 * (m1 * ((t * b) * h)) = (m1 * (h * n2)) * (t * b)
    OBVIOUS
  <2>2. ((g * n1) * m2) * (t * b) = (n1 * b) * ((g * t) * m2)
    OBVIOUS
  <2>3. (d * n2) * ((g * t) * m2) = n2 * (((g * t) * d) * m2)
    BY <1>4
  <2>4. n2 * (m1 * ((t * b) * h)) = n2 * (((g * t) * d) * m2)
    BY <2>1, <2>2, <2>3, <1>3, <1>4
  <2>5. m1 * ((t * b) * h) \in Int /\ ((g * t) * d) * m2 \in Int
    BY <1>4
  <2> QED BY <2>4, <2>5, Cancels
<1>7. k1 # 0
  <2>1. (s * a) * k2 \in Nat \ {0}
    BY <1>0
  <2> QED BY <1>1, <2>1
<1>8. m1 # 0
  <2>1. ((g * t) * d) * m2 \in Nat \ {0}
    BY <1>0, <1>4
  <2> QED BY <1>6, <2>1
<1> QED BY <1>1, <1>2, <1>3, <1>5, <1>6, <1>7, <1>8 DEF d, AreWeights

\* The posterior is that of the weights K and U.
IsPosterior(k1, k2, m1, m2, K, U) ==
    \E i \in Nat, j \in Nat \ {0} :
      /\ Quotient(<<k1, k2>>, Plus(<<k1, k2>>, <<m1, m2>>)) = <<i, j>>
      /\ i * (K + U) = K * j

\* It is, when they have a common denominator X.
LEMMA WeighedPosterior ==
    ASSUME NEW k1 \in Nat \ {0}, NEW k2 \in Nat \ {0}, NEW m1 \in Nat \ {0}, NEW m2 \in Nat \ {0},
           NEW X \in Nat \ {0}, NEW K \in Nat \ {0}, NEW U \in Nat \ {0},
           k1 * X = K * k2, m1 * X = U * m2
    PROVE  IsPosterior(k1, k2, m1, m2, K, U)
<1>1. PICK e1 \in Nat, e2 \in Nat \ {0} :
        Plus(<<k1, k2>>, <<m1, m2>>) = <<e1, e2>> /\ e1 * (k2 * m2) = (k1 * m2 + m1 * k2) * e2
  BY PlusIs
<1>2. e1 * X = (K + U) * e2
  <2>1. (k2 * m2) * (e1 * X) = (e1 * (k2 * m2)) * X
    OBVIOUS
  <2>2. ((k1 * m2 + m1 * k2) * e2) * X = ((k1 * X) * m2 + (m1 * X) * k2) * e2
    OBVIOUS
  <2>3. ((K * k2) * m2 + (U * m2) * k2) * e2 = (k2 * m2) * ((K + U) * e2)
    OBVIOUS
  <2>4. (k2 * m2) * (e1 * X) = (k2 * m2) * ((K + U) * e2)
    BY <2>1, <2>2, <2>3, <1>1
  <2>5. k2 * m2 \in Nat \ {0} /\ e1 * X \in Int /\ (K + U) * e2 \in Int
    OBVIOUS
  <2> QED BY <2>4, <2>5, Cancels
<1>3. e1 # 0
  <2>1. (K + U) * e2 \in Nat \ {0}
    OBVIOUS
  <2> QED BY <1>2, <2>1
<1>4. PICK i \in Nat, j \in Nat \ {0} :
        Quotient(<<k1, k2>>, <<e1, e2>>) = <<i, j>> /\ i * (k2 * e1) = (k1 * e2) * j
  BY <1>3, QuotientIs
<1>5. i * (K + U) = K * j
  <2>1. (k2 * e2) * (i * (K + U)) = (i * k2) * ((K + U) * e2)
    OBVIOUS
  <2>2. (i * k2) * (e1 * X) = (i * (k2 * e1)) * X
    OBVIOUS
  <2>3. ((k1 * e2) * j) * X = (k1 * X) * (e2 * j)
    OBVIOUS
  <2>4. (K * k2) * (e2 * j) = (k2 * e2) * (K * j)
    OBVIOUS
  <2>5. (k2 * e2) * (i * (K + U)) = (k2 * e2) * (K * j)
    BY <2>1, <2>2, <2>3, <2>4, <1>2, <1>4
  <2>6. k2 * e2 \in Nat \ {0} /\ i * (K + U) \in Int /\ K * j \in Int
    OBVIOUS
  <2> QED BY <2>5, <2>6, Cancels
<1> QED BY <1>1, <1>4, <1>5 DEF IsPosterior

\* What learning makes of the posterior, by the weights.
IsLearned(i, j, w, z, K, U) ==
    \E m \in Nat, n \in Nat \ {0} :
      /\ Plus(<<i, j>>, Times(Not(<<i, j>>), <<w, z>>)) = <<m, n>>
      /\ m * ((K + U) * z) = (K * z + U * w) * n

\* It is so.
LEMMA WeighedLearning ==
    ASSUME NEW i \in Nat, NEW j \in Nat \ {0}, NEW w \in Nat \ {0}, NEW z \in Nat \ {0},
           NEW K \in Nat \ {0}, NEW U \in Nat \ {0}, i * (K + U) = K * j
    PROVE  IsLearned(i, j, w, z, K, U)
<1>1. i <= j
  <2>1. SUFFICES ASSUME j < i PROVE FALSE
    OBVIOUS
  <2>2. (K + U) * j < (K + U) * i
    BY <2>1, Cancels
  <2>3. (K + U) * j = K * j + U * j
    OBVIOUS
  <2>4. U * j \in Nat /\ K * j \in Nat
    OBVIOUS
  <2> QED BY <2>2, <2>3, <2>4
<1> DEFINE d == j - i
<1>2. d \in Nat /\ j = i + d
  BY <1>1
<1>3. PICK n1 \in Nat, n2 \in Nat \ {0} : Not(<<i, j>>) = <<n1, n2>> /\ n1 * j = d * n2
  BY <1>1, NotIs
<1> HIDE DEF d
<1>4. d * (K + U) = U * j
  <2>1. j * (K + U) = i * (K + U) + d * (K + U)
    BY <1>2
  <2>2. j * (K + U) = K * j + U * j
    OBVIOUS
  <2>3. d * (K + U) \in Int /\ U * j \in Int /\ K * j \in Int
    BY <1>2
  <2> QED BY <2>1, <2>2, <2>3
<1>5. PICK t1 \in Nat, t2 \in Nat \ {0} :
        Times(<<n1, n2>>, <<w, z>>) = <<t1, t2>> /\ t1 * (n2 * z) = (n1 * w) * t2
  BY TimesIs
<1>6. PICK m \in Nat, n \in Nat \ {0} :
        Plus(<<i, j>>, <<t1, t2>>) = <<m, n>> /\ m * (j * t2) = (i * t2 + t1 * j) * n
  BY PlusIs
<1>7. (t1 * j) * z = (d * w) * t2
  <2>1. n2 * ((t1 * j) * z) = (t1 * (n2 * z)) * j
    OBVIOUS
  <2>2. ((n1 * w) * t2) * j = (n1 * j) * (w * t2)
    OBVIOUS
  <2>3. (d * n2) * (w * t2) = n2 * ((d * w) * t2)
    BY <1>2
  <2>4. n2 * ((t1 * j) * z) = n2 * ((d * w) * t2)
    BY <2>1, <2>2, <2>3, <1>3, <1>5
  <2>5. (t1 * j) * z \in Int /\ (d * w) * t2 \in Int
    BY <1>2
  <2> QED BY <2>4, <2>5, Cancels
<1> DEFINE e == K + U
<1>8. e \in Nat \ {0} /\ i * e = K * j /\ d * e = U * j
  BY <1>4
<1> HIDE DEF e
<1>9. m * (e * z) = (K * z + U * w) * n
  <2>1. (j * t2) * (m * (e * z)) = (m * (j * t2)) * (e * z)
    BY <1>8
  <2>2. ((i * t2 + t1 * j) * n) * (e * z) = (((i * e) * z) * t2 + ((t1 * j) * z) * e) * n
    BY <1>8
  <2>3. ((d * w) * t2) * e = (d * e) * (w * t2)
    BY <1>2, <1>8
  <2>4. (((K * j) * z) * t2 + (U * j) * (w * t2)) * n = (j * t2) * ((K * z + U * w) * n)
    OBVIOUS
  <2>5. (j * t2) * (m * (e * z)) = (j * t2) * ((K * z + U * w) * n)
    BY <2>1, <2>2, <2>3, <2>4, <1>6, <1>7, <1>8
  <2>6. j * t2 \in Nat \ {0} /\ m * (e * z) \in Int /\ (K * z + U * w) * n \in Int
    BY <1>8
  <2> QED BY <2>5, <2>6, Cancels
<1> QED BY <1>3, <1>5, <1>6, <1>9 DEF e, IsLearned

\* What an answer makes of c/d when it weighs A if the topic is known and B if not, and the chance
\* to learn is w/z.
Becomes(r, A, B, w, z, c, d) ==
    \E m \in Nat, n \in Nat \ {0} :
      r = <<m, n>> /\ m * ((A * c + B * (d - c)) * z) = ((A * c) * z + (B * (d - c)) * w) * n

\* What an update computes.
LEMMA UpdatedIs ==
    ASSUME NEW s \in Nat \ {0}, NEW t \in Nat \ {0}, NEW g \in Nat \ {0}, NEW h \in Nat \ {0},
           NEW a \in Nat \ {0}, NEW b \in Nat \ {0}, a < b, NEW w \in Nat \ {0}, NEW z \in Nat \ {0}
    PROVE  Becomes(Updated(<<s, t>>, <<g, h>>, <<a, b>>, <<w, z>>), s * h, g * t, w, z, a, b)
<1> DEFINE X == (t * b) * h
           K == (s * h) * a
           U == (g * t) * (b - a)
<1>1. X \in Nat \ {0} /\ K \in Nat \ {0} /\ U \in Nat \ {0}
  <2>1. \A x, y \in Nat \ {0} : x * y \in Nat \ {0}
    OBVIOUS
  <2>2. b - a \in Nat \ {0}
    OBVIOUS
  <2> QED BY <2>1, <2>2
<1>2. PICK k1 \in Nat \ {0}, k2 \in Nat \ {0}, m1 \in Nat \ {0}, m2 \in Nat \ {0} :
        /\ Times(<<s, t>>, <<a, b>>) = <<k1, k2>> /\ Times(<<g, h>>, Not(<<a, b>>)) = <<m1, m2>>
        /\ k1 * X = K * k2 /\ m1 * X = U * m2
  <2>1. AreWeights(s, t, g, h, a, b)
    BY WeightsOf
  <2> QED BY <2>1 DEF AreWeights
<1> HIDE DEF X, K, U
<1>3. PICK i \in Nat, j \in Nat \ {0} :
        Quotient(<<k1, k2>>, Plus(<<k1, k2>>, <<m1, m2>>)) = <<i, j>> /\ i * (K + U) = K * j
  <2>1. IsPosterior(k1, k2, m1, m2, K, U)
    BY <1>1, <1>2, WeighedPosterior
  <2> QED BY <2>1 DEF IsPosterior
<1>4. Posterior(<<s, t>>, <<g, h>>, <<a, b>>) = <<i, j>>
  BY <1>2, <1>3 DEF Posterior
<1>5. PICK m \in Nat, n \in Nat \ {0} :
        /\ Plus(<<i, j>>, Times(Not(<<i, j>>), <<w, z>>)) = <<m, n>>
        /\ m * ((K + U) * z) = (K * z + U * w) * n
  <2>1. IsLearned(i, j, w, z, K, U)
    BY <1>1, <1>3, WeighedLearning
  <2> QED BY <2>1 DEF IsLearned
<1>6. Updated(<<s, t>>, <<g, h>>, <<a, b>>, <<w, z>>) = <<m, n>>
  BY <1>4, <1>5 DEF Updated
<1> QED BY <1>5, <1>6 DEF K, U, Becomes

\* The answer weighs A when the topic is known, B when it is not.  When A is no smaller, the
\* update of a/b with w/z is no smaller than a/b; it is no larger when B outweighs A by enough
\* for what is learned.
LEMMA UpdateMoves ==
    ASSUME NEW A \in Nat \ {0}, NEW B \in Nat \ {0}, NEW a \in Nat \ {0}, NEW b \in Nat \ {0}, a < b,
           NEW w \in Nat \ {0}, NEW z \in Nat \ {0}, NEW m \in Nat, NEW n \in Nat \ {0},
           m * ((A * a + B * (b - a)) * z) = ((A * a) * z + (B * (b - a)) * w) * n
    PROVE  /\ B <= A => a * n <= m * b
           /\ m * b <= a * n <=> (B * w) * b + (A * z) * a <= (B * z) * a
<1>0. \A x, y \in Nat \ {0} : x * y \in Nat \ {0}
  OBVIOUS
<1> DEFINE d == b - a
           K == A * a
           U == B * d
           e == K + U
<1>1. d \in Nat \ {0} /\ b = a + d
  OBVIOUS
<1>2. K \in Nat \ {0} /\ U \in Nat \ {0} /\ e \in Nat \ {0} /\ K = A * a /\ U = B * d /\ e = K + U
  BY <1>0, <1>1
<1>3. m * (e * z) = (K * z + U * w) * n
  OBVIOUS
<1> HIDE DEF d, K, U, e
<1> DEFINE left == (K * z + U * w) * b
           right == a * (e * z)
<1>4. (e * z) * (m * b) = n * left
  <2>1. (e * z) * (m * b) = (m * (e * z)) * b
    BY <1>1, <1>2
  <2>2. ((K * z + U * w) * n) * b = n * left
    BY <1>1, <1>2
  <2> QED BY <1>3, <2>1, <2>2
<1>5. (e * z) * (a * n) = n * right
  BY <1>1, <1>2
<1>6. left \in Int /\ right \in Int /\ e * z \in Nat \ {0} /\ m * b \in Int /\ a * n \in Int
  BY <1>0, <1>1, <1>2
<1>7. m * b <= a * n <=> left <= right
  <2> HIDE DEF left, right
  <2>1. m * b <= a * n <=> (e * z) * (m * b) <= (e * z) * (a * n)
    BY <1>6, SameOrder
  <2>2. left <= right <=> n * left <= n * right
    BY <1>6, SameOrder
  <2> QED BY <1>4, <1>5, <2>1, <2>2
<1>8. a * n <= m * b <=> right <= left
  <2> HIDE DEF left, right
  <2>1. a * n <= m * b <=> (e * z) * (a * n) <= (e * z) * (m * b)
    BY <1>6, SameOrder
  <2>2. right <= left <=> n * right <= n * left
    BY <1>6, SameOrder
  <2> QED BY <1>4, <1>5, <2>1, <2>2
<1> DEFINE P == (B * w) * b + (A * z) * a
           Q == (B * z) * a
<1>9. right - left = d * (Q - P)
  <2>1. left = (K * z) * b + (U * w) * b
    BY <1>1, <1>2
  <2>2. right = (K * z) * a + (U * z) * a
    BY <1>1, <1>2
  <2>3. (K * z) * b = (K * z) * a + (K * z) * d
    BY <1>1, <1>2
  <2>4. (U * z) * a = d * ((B * z) * a)
    BY <1>1, <1>2
  <2>5. (U * w) * b = d * ((B * w) * b)
    BY <1>1, <1>2
  <2>6. (K * z) * d = d * ((A * z) * a)
    BY <1>1, <1>2
  <2>7. d * (Q - P) = d * ((B * z) * a) - d * ((B * w) * b) - d * ((A * z) * a)
    BY <1>1
  <2>8. /\ (K * z) * b \in Int /\ (K * z) * a \in Int /\ (K * z) * d \in Int
        /\ (U * w) * b \in Int /\ (U * z) * a \in Int
    BY <1>1, <1>2
  <2> HIDE DEF left, right, P, Q
  <2> QED BY <2>1, <2>2, <2>3, <2>4, <2>5, <2>6, <2>7, <2>8
<1>10. P \in Int /\ Q \in Int
  OBVIOUS
<1>11. left <= right <=> P <= Q
  <2> HIDE DEF left, right, P, Q
  <2>1. d * P <= d * Q <=> P <= Q
    BY <1>1, <1>10, SameOrder
  <2>2. d * (Q - P) = d * Q - d * P /\ d * Q \in Int /\ d * P \in Int
    BY <1>1, <1>10
  <2> QED BY <1>6, <1>9, <2>1, <2>2
<1>12. ASSUME B <= A PROVE right <= left
  <2>1. (z * a) * B <= (z * a) * A
    BY <1>12, Scales
  <2>2. P - Q = (B * w) * b + ((z * a) * A - (z * a) * B)
    OBVIOUS
  <2>3. (B * w) * b \in Nat /\ (z * a) * A \in Int /\ (z * a) * B \in Int
    OBVIOUS
  <2> HIDE DEF left, right, P, Q
  <2>4. Q <= P
    BY <1>10, <2>1, <2>2, <2>3
  <2>5. d * Q <= d * P
    BY <2>4, <1>1, <1>10, SameOrder
  <2>6. d * (Q - P) = d * Q - d * P /\ d * Q \in Int /\ d * P \in Int
    BY <1>1, <1>10
  <2> QED BY <1>6, <1>9, <2>5, <2>6
<1> QED BY <1>7, <1>8, <1>11, <1>12

\* That B outweighs A by enough stays so under the update of a/b, and for all that is no smaller
\* than a/b; B is larger then.
LEMMA OutweighedStays ==
    ASSUME NEW A \in Nat \ {0}, NEW B \in Nat \ {0}, NEW a \in Nat \ {0}, NEW b \in Nat \ {0}, a < b,
           NEW w \in Nat \ {0}, NEW z \in Nat \ {0},
           (B * w) * b + (A * z) * a <= (B * z) * a
    PROVE  /\ A < B
           /\ \A c, d \in Nat \ {0} : a * d <= c * b => (B * w) * d + (A * z) * c <= (B * z) * c
           /\ \A m \in Nat, n \in Nat \ {0} :
                m * ((A * a + B * (b - a)) * z) = ((A * a) * z + (B * (b - a)) * w) * n
                  => (B * w) * n + (A * z) * m <= (B * z) * m
<1>0. \A x, y \in Nat \ {0} : x * y \in Nat \ {0}
  OBVIOUS
<1>1. A < B
  <2>1. (z * a) * A < (z * a) * B
    <3>1. (B * w) * b \in Nat \ {0} /\ (A * z) * a \in Int /\ (B * z) * a \in Int
      BY <1>0
    <3>2. (A * z) * a < (B * z) * a
      BY <3>1
    <3>3. (z * a) * A = (A * z) * a /\ (z * a) * B = (B * z) * a
      OBVIOUS
    <3> QED BY <3>2, <3>3
  <2>2. z * a \in Nat \ {0}
    BY <1>0
  <2> QED BY <2>1, <2>2, Cancels
<1> DEFINE D == B - A
<1>2. D \in Nat \ {0} /\ B = A + D
  BY <1>1
<1> HIDE DEF D
\* The condition, over D.
<1>3. ASSUME NEW c \in Nat, NEW d \in Nat
      PROVE  (B * w) * d + (A * z) * c <= (B * z) * c <=> (B * w) * d <= (D * z) * c
  <2>1. (B * z) * c = (A * z) * c + (D * z) * c
    BY <1>2
  <2>2. (B * w) * d \in Int /\ (A * z) * c \in Int /\ (D * z) * c \in Int /\ (B * z) * c \in Int
    BY <1>2
  <2> QED BY <2>1, <2>2
<1>4. (B * w) * b <= (D * z) * a
  BY <1>3
<1>5. ASSUME NEW c \in Nat \ {0}, NEW d \in Nat \ {0}, a * d <= c * b
      PROVE  (B * w) * d <= (D * z) * c
  <2>1. (D * z) * (a * d) <= (D * z) * (c * b)
    <3>1. D * z \in Nat /\ a * d \in Int /\ c * b \in Int
      BY <1>2
    <3> QED BY <1>5, <3>1, Scales
  <2>2. d * ((B * w) * b) <= d * ((D * z) * a)
    <3>1. (B * w) * b \in Int /\ (D * z) * a \in Int
      BY <1>2
    <3> QED BY <1>4, <3>1, Scales
  <2>3. /\ d * ((B * w) * b) = b * ((B * w) * d) /\ d * ((D * z) * a) = (D * z) * (a * d)
        /\ (D * z) * (c * b) = b * ((D * z) * c)
    BY <1>2
  <2>4. (B * w) * d \in Int /\ (D * z) * c \in Int
    BY <1>2
  <2>5. b * ((B * w) * d) \in Int /\ b * ((D * z) * c) \in Int /\ (D * z) * (a * d) \in Int
    BY <1>2, <2>4
  <2>6. b * ((B * w) * d) <= b * ((D * z) * c)
    BY <2>1, <2>2, <2>3, <2>5
  <2> QED BY <2>4, <2>6, SameOrder
<1>6. ASSUME NEW m \in Nat, NEW n \in Nat \ {0},
             m * ((A * a + B * (b - a)) * z) = ((A * a) * z + (B * (b - a)) * w) * n
      PROVE  (B * w) * n <= (D * z) * m
  <2> DEFINE d == b - a
             e == A * a + B * d
  <2>1. d \in Nat \ {0} /\ b = a + d
    OBVIOUS
  <2>2. e \in Nat \ {0} /\ e = A * a + B * d
    BY <1>0, <2>1
  <2>3. m * (e * z) = ((A * a) * z + (B * d) * w) * n
    BY <1>6
  <2> HIDE DEF d, e
  <2>4. e * ((D * z) * m) = n * (D * ((A * a) * z + (B * d) * w))
    <3>1. e * ((D * z) * m) = D * (m * (e * z))
      BY <1>2, <2>2
    <3>2. D * (((A * a) * z + (B * d) * w) * n) = n * (D * ((A * a) * z + (B * d) * w))
      BY <1>2, <2>1
    <3> QED BY <2>3, <3>1, <3>2
  <2>5. e * ((B * w) * n) = n * ((B * w) * e)
    BY <2>2
  <2>6. D * ((A * a) * z + (B * d) * w) - (B * w) * e = A * ((D * z) * a - (B * w) * b)
    <3>1. D * ((A * a) * z + (B * d) * w) = A * ((D * z) * a) + D * ((B * d) * w)
      BY <1>2, <2>1
    <3>2. (B * w) * e = (B * w) * (A * a) + (B * w) * (B * d)
      BY <2>1, <2>2
    <3>3. (B * w) * (B * d) = A * ((B * w) * d) + D * ((B * d) * w)
      BY <1>2, <2>1
    <3>4. (B * w) * (A * a) + A * ((B * w) * d) = A * ((B * w) * b)
      BY <2>1
    <3>5. A * ((D * z) * a - (B * w) * b) = A * ((D * z) * a) - A * ((B * w) * b)
      BY <1>2
    <3>6. /\ A * ((D * z) * a) \in Int /\ D * ((B * d) * w) \in Int /\ (B * w) * (A * a) \in Int
          /\ A * ((B * w) * d) \in Int /\ A * ((B * w) * b) \in Int
      BY <1>2, <2>1
    <3> QED BY <3>1, <3>2, <3>3, <3>4, <3>5, <3>6
  <2>7. (D * z) * a - (B * w) * b \in Nat
    <3>1. (D * z) * a \in Int /\ (B * w) * b \in Int
      BY <1>2
    <3> QED BY <1>4, <3>1
  <2>8. (B * w) * e <= D * ((A * a) * z + (B * d) * w)
    <3>1. A * ((D * z) * a - (B * w) * b) \in Nat
      BY <2>7
    <3>2. (B * w) * e \in Int /\ D * ((A * a) * z + (B * d) * w) \in Int
      BY <1>2, <2>1, <2>2
    <3> QED BY <2>6, <3>1, <3>2
  <2> DEFINE P == (B * w) * e
             Q == D * ((A * a) * z + (B * d) * w)
             l == (B * w) * n
             r == (D * z) * m
  <2>9. P \in Int /\ Q \in Int /\ l \in Int /\ r \in Int
    BY <1>2, <2>1, <2>2
  <2>10. P <= Q /\ e * r = n * Q /\ e * l = n * P
    BY <2>4, <2>5, <2>8
  <2> HIDE DEF P, Q, l, r
  <2>11. n * P <= n * Q
    BY <2>9, <2>10, Scales
  <2>12. e * l <= e * r
    BY <2>10, <2>11
  <2>13. l <= r
    BY <2>2, <2>9, <2>12, SameOrder
  <2> QED BY <2>13 DEF l, r
<1> QED BY <1>1, <1>3, <1>5, <1>6

\* Parameters strictly between 0 and 1, as the defaults are.
ParametersInside ==
    \A t \in Topics : \A f \in {"pL0", "pT", "pS", "pG"} :
      Below(Whole(0), Parameters[t][f]) /\ Below(Parameters[t][f], Whole(1))

\* What an answer makes of p before it is stored.
Exactly(t, p, correct) ==
    LET q == PosteriorGivenObs(Parameters[t], p, correct)
    IN  Plus(q, Times(Not(q), Parameters[t].pT))

\* A wrong answer does not raise p: as it is stored, and before.
Lowers(t, p) == AtMost(PKnownAfter(Parameters[t], p, FALSE), p)
LowersExactly(t, p) == AtMost(Exactly(t, p, FALSE), p)

\* What an answer makes of c/d, whether that is no larger than c/d, and no smaller.
IsUpdate(r, A, B, w, z, c, d) ==
    /\ Becomes(r, A, B, w, z, c, d)
    /\ AtMost(r, <<c, d>>) <=> (B * w) * d + (A * z) * c <= (B * z) * c
    /\ B <= A => AtMost(<<c, d>>, r)

\* An answer updates a probability by its weights.
LEMMA UpdateWeighs ==
    ASSUME NEW s \in Nat \ {0}, NEW t \in Nat \ {0}, NEW g \in Nat \ {0}, NEW h \in Nat \ {0},
           NEW c \in Nat \ {0}, NEW d \in Nat \ {0}, c < d, NEW w \in Nat \ {0}, NEW z \in Nat \ {0}
    PROVE  IsUpdate(Updated(<<s, t>>, <<g, h>>, <<c, d>>, <<w, z>>), s * h, g * t, w, z, c, d)
<1> DEFINE A == s * h
           B == g * t
           r == Updated(<<s, t>>, <<g, h>>, <<c, d>>, <<w, z>>)
<1>1. PICK m \in Nat, n \in Nat \ {0} :
        r = <<m, n>> /\ m * ((A * c + B * (d - c)) * z) = ((A * c) * z + (B * (d - c)) * w) * n
  <2>1. Becomes(r, A, B, w, z, c, d)
    BY UpdatedIs
  <2> QED BY <2>1 DEF Becomes
<1>2. A \in Nat \ {0} /\ B \in Nat \ {0}
  OBVIOUS
<1> HIDE DEF A, B, r
<1>3. /\ B <= A => c * n <= m * d
      /\ m * d <= c * n <=> (B * w) * d + (A * z) * c <= (B * z) * c
  BY <1>1, <1>2, UpdateMoves
<1>4. AtMost(r, <<c, d>>) <=> m * d <= c * n
  BY <1>1 DEF AtMost
<1>5. AtMost(<<c, d>>, r) <=> c * n <= m * d
  BY <1>1 DEF AtMost
<1>6. IsUpdate(r, A, B, w, z, c, d)
  BY <1>1, <1>3, <1>4, <1>5 DEF IsUpdate, Becomes
<1> QED BY <1>6 DEF A, B, r

\* x + y <= 1, either way.
LEMMA Complement ==
    ASSUME NEW x \in Proper, NEW y \in Proper, AtMost(x, Not(y))
    PROVE  AtMost(y, Not(x))
<1>1. PICK a \in Nat \ {0}, b \in Nat \ {0} : x = <<a, b>> /\ a < b
  BY ProperPair
<1>2. PICK c \in Nat \ {0}, d \in Nat \ {0} : y = <<c, d>> /\ c < d
  BY ProperPair
<1>3. PICK i \in Nat, j \in Nat \ {0} : Not(y) = <<i, j>> /\ i * d = (d - c) * j
  BY <1>2, NotIs
<1>4. PICK m \in Nat, n \in Nat \ {0} : Not(x) = <<m, n>> /\ m * b = (b - a) * n
  BY <1>1, NotIs
<1>5. a * j <= i * b
  BY <1>1, <1>3 DEF AtMost
<1>6. a * d <= (d - c) * b
  <2>1. d * (a * j) <= d * (i * b)
    <3>1. a * j \in Int /\ i * b \in Int
      OBVIOUS
    <3> QED BY <1>5, <3>1, Scales
  <2>2. d * (a * j) = j * (a * d)
    OBVIOUS
  <2>3. d * (i * b) = (i * d) * b /\ ((d - c) * j) * b = j * ((d - c) * b)
    OBVIOUS
  <2>4. a * d \in Int /\ (d - c) * b \in Int
    OBVIOUS
  <2>5. j * (a * d) <= j * ((d - c) * b)
    BY <2>1, <2>2, <2>3, <1>3
  <2> QED BY <2>4, <2>5, SameOrder
<1>7. c * b <= (b - a) * d
  <2>1. (d - c) * b = d * b - c * b /\ (b - a) * d = d * b - a * d
    OBVIOUS
  <2>2. a * d \in Int /\ c * b \in Int /\ d * b \in Int
    OBVIOUS
  <2> QED BY <1>6, <2>1, <2>2
<1>8. c * n <= m * d
  <2>1. n * (c * b) <= n * ((b - a) * d)
    <3>1. c * b \in Int /\ (b - a) * d \in Int
      OBVIOUS
    <3> QED BY <1>7, <3>1, Scales
  <2>2. n * (c * b) = b * (c * n)
    OBVIOUS
  <2>3. n * ((b - a) * d) = ((b - a) * n) * d /\ (m * b) * d = b * (m * d)
    OBVIOUS
  <2>4. c * n \in Int /\ m * d \in Int
    OBVIOUS
  <2>5. b * (c * n) <= b * (m * d)
    BY <2>1, <2>2, <2>3, <1>4
  <2> QED BY <2>4, <2>5, SameOrder
<1> QED BY <1>2, <1>4, <1>8 DEF AtMost

\* The parameters then are proper fractions.
LEMMA ParametersAreProper ==
    ASSUME ParametersInside, NEW t \in Topics
    PROVE  /\ Parameters[t].pL0 \in Proper /\ Parameters[t].pT \in Proper
           /\ Parameters[t].pS \in Proper /\ Parameters[t].pG \in Proper
           /\ Regular(Parameters[t])
<1>1. \A x \in Fractions : Below(Whole(0), x) /\ Below(x, Whole(1)) => x \in Proper
  BY UnitIs DEF Proper
<1>2. \A x \in Unit : x \in Fractions
  BY DEF Unit
<1> QED BY <1>1, <1>2, ParametersAreUnit DEF ParametersInside, Regular

\* There is evidence for every answer then.
LEMMA HasEvidence ==
    ASSUME ParametersInside, NEW t \in Topics, NEW p \in Unit, p[1] > 0, NEW correct \in BOOLEAN
    PROVE  Evidence(Parameters[t], p, correct)[1] # 0
<1>1. /\ Evidence(Parameters[t], p, correct) \in Fractions
      /\ Evidence(Parameters[t], p, correct)[1] > 0
  BY EvidenceAbove, ParametersAreProper
<1> QED BY <1>1 DEF Fractions

\* What is made of p then is a positive probability.
LEMMA ExactlyUnit ==
    ASSUME ParametersInside, NEW t \in Topics, NEW p \in Unit, p[1] > 0, NEW correct \in BOOLEAN
    PROVE  Exactly(t, p, correct) \in Unit /\ Exactly(t, p, correct)[1] > 0
<1> DEFINE k == Times(Likelihood(Parameters[t], correct).known, p)
           e == Evidence(Parameters[t], p, correct)
           q == PosteriorGivenObs(Parameters[t], p, correct)
           r == Exactly(t, p, correct)
<1>1. k \in Unit /\ e \in Fractions /\ k[1] * e[2] <= e[1] * k[2] /\ e[1] > 0
  BY EvidenceAbove, ParametersAreProper
<1>2. q = Quotient(k, e)
  BY DEF PosteriorGivenObs
<1> HIDE DEF k, e
<1>3. q \in Unit
  BY <1>1, <1>2, QuotientUnit
<1>4. PICK c \in Nat \ {0}, d \in Nat \ {0} : Parameters[t].pT = <<c, d>> /\ c < d
  BY ParametersAreProper, ProperPair
<1>5. r = Plus(q, Times(Not(q), Parameters[t].pT))
  BY DEF Exactly
<1> HIDE DEF q, r
<1>6. r \in Unit /\ Parameters[t].pT[1] * r[2] <= r[1] * Parameters[t].pT[2]
  BY <1>3, <1>5, ParametersAreUnit, LearnedUnit
<1>7. PICK a \in Nat, b \in Nat \ {0} : r = <<a, b>> /\ a <= b
  BY <1>6, UnitPair
<1>8. c * b <= a * d
  BY <1>4, <1>6, <1>7
<1>9. a # 0
  <2>1. \A x, y \in Nat \ {0} : x * y \in Nat \ {0}
    OBVIOUS
  <2>2. c * b \in Nat \ {0}
    BY <2>1
  <2>3. a = 0 => a * d = 0
    OBVIOUS
  <2> QED BY <1>8, <2>2, <2>3
<1> QED BY <1>6, <1>7, <1>9 DEF r

\* A right answer does not lower p unless it is the more likely the less is known.
LEMMA RightRaises ==
    ASSUME ParametersInside, NEW t \in Topics, NEW p \in Proper, AtMost(Parameters[t].pG, Not(Parameters[t].pS))
    PROVE  AtMost(p, Exactly(t, p, TRUE))
<1>1. /\ Not(Parameters[t].pS) \in Proper /\ Parameters[t].pG \in Proper /\ Parameters[t].pT \in Proper
  BY ParametersAreProper, NotProper
<1>2. PICK s \in Nat \ {0}, u \in Nat \ {0} : Not(Parameters[t].pS) = <<s, u>> /\ s < u
  BY <1>1, ProperPair
<1>3. PICK g \in Nat \ {0}, h \in Nat \ {0} : Parameters[t].pG = <<g, h>> /\ g < h
  BY <1>1, ProperPair
<1>4. PICK w \in Nat \ {0}, z \in Nat \ {0} : Parameters[t].pT = <<w, z>> /\ w < z
  BY <1>1, ProperPair
<1>5. PICK c \in Nat \ {0}, d \in Nat \ {0} : p = <<c, d>> /\ c < d
  BY ProperPair
<1>6. Exactly(t, p, TRUE) = Updated(<<s, u>>, <<g, h>>, <<c, d>>, <<w, z>>)
  BY <1>2, <1>3, <1>4, <1>5 DEF Exactly, Updated, Posterior, PosteriorGivenObs, Evidence, Likelihood
<1>7. IsUpdate(Updated(<<s, u>>, <<g, h>>, <<c, d>>, <<w, z>>), s * h, g * u, w, z, c, d)
  BY <1>5, UpdateWeighs
<1>8. g * u <= s * h
  BY <1>2, <1>3 DEF AtMost
<1> QED BY <1>5, <1>6, <1>7, <1>8 DEF IsUpdate

\* Where a wrong answer lowers, it does so after it and for every larger probability, and a right
\* answer does not lower.
LEMMA LowersStays ==
    ASSUME ParametersInside, NEW t \in Topics, NEW p \in Proper, LowersExactly(t, p)
    PROVE  /\ LowersExactly(t, Exactly(t, p, FALSE))
           /\ \A q \in Proper : AtMost(p, q) => LowersExactly(t, q)
           /\ AtMost(p, Exactly(t, p, TRUE))
<1>1. /\ Parameters[t].pS \in Proper /\ Not(Parameters[t].pG) \in Proper
      /\ Parameters[t].pG \in Proper /\ Parameters[t].pT \in Proper
  BY ParametersAreProper, NotProper
<1>2. PICK s \in Nat \ {0}, u \in Nat \ {0} : Parameters[t].pS = <<s, u>> /\ s < u
  BY <1>1, ProperPair
<1>3. PICK g \in Nat \ {0}, h \in Nat \ {0} : Not(Parameters[t].pG) = <<g, h>> /\ g < h
  BY <1>1, ProperPair
<1>4. PICK w \in Nat \ {0}, z \in Nat \ {0} : Parameters[t].pT = <<w, z>> /\ w < z
  BY <1>1, ProperPair
<1>5. PICK a \in Nat \ {0}, b \in Nat \ {0} : p = <<a, b>> /\ a < b
  BY ProperPair
<1> DEFINE After(q) == Exactly(t, q, FALSE)
           A == s * h
           B == g * u
<1>6. ASSUME NEW c \in Nat \ {0}, NEW d \in Nat \ {0}, c < d
      PROVE  IsUpdate(After(<<c, d>>), A, B, w, z, c, d)
  <2>1. After(<<c, d>>) = Updated(<<s, u>>, <<g, h>>, <<c, d>>, <<w, z>>)
    BY <1>2, <1>3, <1>4 DEF Exactly, Updated, Posterior, PosteriorGivenObs, Evidence, Likelihood
  <2>2. IsUpdate(Updated(<<s, u>>, <<g, h>>, <<c, d>>, <<w, z>>), A, B, w, z, c, d)
    BY <1>6, UpdateWeighs
  <2> QED BY <2>1, <2>2
<1>7. A \in Nat \ {0} /\ B \in Nat \ {0}
  OBVIOUS
<1>8. A < B => AtMost(Parameters[t].pS, Not(Parameters[t].pG))
  BY <1>2, <1>3 DEF AtMost
<1> HIDE DEF A, B
<1>9. ASSUME NEW c \in Nat \ {0}, NEW d \in Nat \ {0}, c < d
      PROVE  LowersExactly(t, <<c, d>>) <=> (B * w) * d + (A * z) * c <= (B * z) * c
  BY <1>6, <1>9 DEF IsUpdate, LowersExactly
<1>10. (B * w) * b + (A * z) * a <= (B * z) * a
  BY <1>5, <1>9
<1>11. /\ A < B
       /\ \A c, d \in Nat \ {0} : a * d <= c * b => (B * w) * d + (A * z) * c <= (B * z) * c
       /\ \A m \in Nat, n \in Nat \ {0} :
            m * ((A * a + B * (b - a)) * z) = ((A * a) * z + (B * (b - a)) * w) * n
              => (B * w) * n + (A * z) * m <= (B * z) * m
  BY <1>5, <1>7, <1>10, OutweighedStays
<1>12. AtMost(p, Exactly(t, p, TRUE))
  BY <1>1, <1>8, <1>11, Complement, RightRaises
<1>13. ASSUME NEW q \in Proper, AtMost(p, q) PROVE LowersExactly(t, q)
  <2>1. PICK c \in Nat \ {0}, d \in Nat \ {0} : q = <<c, d>> /\ c < d
    BY ProperPair
  <2>2. a * d <= c * b
    BY <1>5, <1>13, <2>1 DEF AtMost
  <2>3. (B * w) * d + (A * z) * c <= (B * z) * c
    BY <2>2, <1>11
  <2> QED BY <2>1, <2>3, <1>9
<1>14. LowersExactly(t, After(p))
  <2>1. After(p) \in Proper
    <3>1. p \in Unit /\ p[1] > 0
      BY DEF Unit, Proper, Fractions
    <3>2. After(p) \in Unit /\ After(p)[1] > 0
      BY <3>1, ExactlyUnit
    <3>3. AtMost(After(p), p)
      BY DEF LowersExactly
    <3> HIDE DEF After
    <3>4. PICK i \in Nat, j \in Nat \ {0} : After(p) = <<i, j>> /\ i <= j
      BY <3>2, UnitPair
    <3>5. i * b <= a * j
      BY <1>5, <3>3, <3>4 DEF AtMost
    <3>6. i < j
      <4>1. SUFFICES ASSUME i = j PROVE FALSE
        BY <3>4
      <4>2. j * b <= j * a
        BY <3>5, <4>1
      <4> QED BY <1>5, <4>2, SameOrder
    <3> QED BY <3>2, <3>4, <3>6 DEF Proper, Unit
  <2>2. PICK m \in Nat \ {0}, n \in Nat \ {0} : After(p) = <<m, n>> /\ m < n
    <3> HIDE DEF After
    <3> QED BY <2>1, ProperPair
  <2>3. IsUpdate(After(<<a, b>>), A, B, w, z, a, b)
    BY <1>5, <1>6
  <2>4. m * ((A * a + B * (b - a)) * z) = ((A * a) * z + (B * (b - a)) * w) * n
    <3>1. PICK i \in Nat, j \in Nat \ {0} :
            /\ After(<<a, b>>) = <<i, j>>
            /\ i * ((A * a + B * (b - a)) * z) = ((A * a) * z + (B * (b - a)) * w) * j
      BY <2>3, Zenon DEF IsUpdate, Becomes
    <3>2. <<i, j>> = <<m, n>>
      BY <3>1, <2>2, <1>5
    <3>3. i = m /\ j = n
      BY <3>2
    <3> QED BY <3>1, <3>3
  <2>5. (B * w) * n + (A * z) * m <= (B * z) * m
    BY <2>4, <1>11
  <2> QED BY <2>2, <2>5, <1>9
<1> QED BY <1>12, <1>13, <1>14

-----------------------------------------------------------------------------
(* Knowledge tracing: what is stored of an answer *)

\* What a column may hold: probabilities below NearOne, and 1.
Held == {x \in Proper : Below(x, NearOne)} \cup {Whole(1)}

\* They are positive probabilities.
LEMMA HeldIsUnit ==
    ASSUME NEW x \in Held
    PROVE  x \in Unit /\ x \in Fractions /\ x[1] > 0
<1>1. Whole(1) \in Unit /\ Whole(1)[1] > 0
  BY DEF Whole, Unit, Fractions
<1>2. \A y \in Proper : y \in Unit /\ y[1] > 0
  BY DEF Proper, Unit, Fractions
<1> QED BY <1>1, <1>2 DEF Held, Unit

\* Below NearOne is below 1.
LEMMA NearOneIsBelowOne ==
    ASSUME NEW x \in Fractions, Below(x, NearOne)
    PROVE  x[1] < x[2]
<1>1. NearOne \in Fractions /\ Whole(1) \in Fractions
  BY NearOneAssumption DEF Whole, Fractions
<1>2. AtMost(NearOne, Whole(1))
  <2>1. PICK a \in Nat, b \in Nat \ {0} : NearOne = <<a, b>>
    BY <1>1 DEF Fractions
  <2>2. a < b
    BY <1>1, <2>1, NearOneAssumption, UnitIs
  <2> QED BY <2>1, <2>2 DEF AtMost, Whole
<1>3. ~AtMost(NearOne, x)
  BY <1>1, AtMostIs
<1>4. ~AtMost(Whole(1), x)
  BY <1>1, <1>2, <1>3, AtMostOrders
<1>5. Below(x, Whole(1))
  BY <1>1, <1>4, AtMostIs
<1> QED BY <1>5, UnitIs

\* A positive probability is stored as a value that a column may hold, no smaller; and as
\* it is when it is below NearOne.
LEMMA StoredHeld ==
    ASSUME NEW x \in Unit, x[1] > 0
    PROVE  /\ Stored(x) \in Held /\ AtMost(x, Stored(x))
           /\ Below(x, NearOne) => Stored(x) = x /\ x \in Proper
           /\ ~Below(x, NearOne) => Stored(x) = Whole(1)
<1>1. Below(x, NearOne) => x \in Proper
  BY NearOneIsBelowOne DEF Proper, Unit
<1>2. AtMost(x, Stored(x))
  BY StoredUnit DEF AtMost
<1> QED BY <1>1, <1>2 DEF Held, Stored

\* No answer moves what has been rounded to 1.
LEMMA OneStays ==
    ASSUME ParametersInside, NEW t \in Topics, NEW correct \in BOOLEAN
    PROVE  PKnownAfter(Parameters[t], Whole(1), correct) = Whole(1)
<1> DEFINE l == Likelihood(Parameters[t], correct)
           k == Times(l.known, Whole(1))
           z == Times(l.unknown, Not(Whole(1)))
           e == Evidence(Parameters[t], Whole(1), correct)
           q == PosteriorGivenObs(Parameters[t], Whole(1), correct)
           r == Exactly(t, Whole(1), correct)
<1>1. Whole(1) = <<1, 1>> /\ Whole(1) \in Unit /\ Whole(1) \in Fractions /\ Whole(1)[1] > 0
  BY DEF Whole, Unit, Fractions
<1>2. l.known \in Unit /\ l.unknown \in Unit
  BY ParametersAreUnit, NotUnit DEF Likelihood
<1>3. e = Plus(k, z) /\ q = Quotient(k, e) /\ e[1] > 0
  <2>1. e[1] > 0
    BY <1>1, EvidenceAbove, ParametersAreProper
  <2> QED BY <2>1 DEF Evidence, PosteriorGivenObs
<1>4. r = Plus(q, Times(Not(q), Parameters[t].pT)) /\ PKnownAfter(Parameters[t], Whole(1), correct) = Stored(r)
  BY DEF Exactly, PKnownAfter
<1>5. r \in Unit /\ r[1] > 0
  BY <1>1, ExactlyUnit
<1>6. k \in Unit
  <2> HIDE DEF l
  <2> QED BY <1>1, <1>2, TimesUnit
<1>7. PICK a \in Nat, b \in Nat \ {0} : k = <<a, b>>
  <2> HIDE DEF k
  <2> QED BY <1>6, UnitPair
<1>8. PICK c \in {0}, d \in Nat \ {0} : z = <<c, d>>
  <2> HIDE DEF l
  <2>1. PICK g \in Nat, h \in Nat \ {0} : l.unknown = <<g, h>>
    BY <1>2, UnitPair
  <2>2. PICK m \in Nat, n \in Nat \ {0} : Not(<<1, 1>>) = <<m, n>> /\ m * 1 = (1 - 1) * n
    BY NotIs
  <2>3. m = 0
    BY <2>2
  <2>4. PICK i \in Nat, j \in Nat \ {0} : Times(<<g, h>>, <<m, n>>) = <<i, j>> /\ i * (h * n) = (g * m) * j
    BY TimesIs
  <2>5. i = 0
    <3>1. (g * m) * j = 0
      BY <2>3
    <3>2. \A u, v \in Nat \ {0} : u * v \in Nat \ {0}
      OBVIOUS
    <3>3. i # 0 => i * (h * n) \in Nat \ {0}
      BY <3>2
    <3> QED BY <2>4, <3>1, <3>3
  <2> QED BY <1>1, <2>1, <2>2, <2>4, <2>5
<1> HIDE DEF l, k, z, e, q, r
<1>9. PICK i \in Nat \ {0}, j \in Nat \ {0} : e = <<i, j>> /\ i * b = a * j
  <2>1. PICK i \in Nat, j \in Nat \ {0} : e = <<i, j>> /\ i * (b * d) = (a * d + c * b) * j
    BY <1>3, <1>7, <1>8, PlusIs
  <2>2. i # 0
    BY <1>3, <2>1
  <2>3. d * (i * b) = d * (a * j)
    <3>1. c * b = 0
      BY <1>8
    <3>2. d * (i * b) = i * (b * d) /\ (a * d + 0) * j = d * (a * j)
      OBVIOUS
    <3> QED BY <2>1, <3>1, <3>2
  <2>4. i * b \in Int /\ a * j \in Int
    OBVIOUS
  <2>5. i * b = a * j
    BY <2>3, <2>4, Cancels
  <2> QED BY <2>1, <2>2, <2>5
\* The posterior is 1, over some denominator.
<1>10. PICK x \in Nat \ {0} : q = <<x, x>>
  <2>1. PICK x \in Nat, y \in Nat \ {0} : q = <<x, y>> /\ x * (b * i) = (a * j) * y
    BY <1>3, <1>7, <1>9, QuotientIs
  <2>2. (b * i) * x = (b * i) * y
    <3>1. x * (b * i) = (b * i) * x /\ (a * j) * y = (i * b) * y /\ i * b = b * i
      BY <1>9
    <3> QED BY <2>1, <3>1
  <2>3. b * i \in Nat \ {0}
    <3>1. \A u, v \in Nat \ {0} : u * v \in Nat \ {0}
      OBVIOUS
    <3> QED BY <3>1
  <2>4. x = y
    <3> DEFINE n == b * i
    <3>1. n \in Nat \ {0} /\ n * x = n * y
      BY <2>2, <2>3
    <3> HIDE DEF n
    <3> QED BY <3>1, Cancels
  <2> QED BY <2>1, <2>4
<1>11. AtMost(Whole(1), r)
  <2>1. q \in Unit
    BY <1>10 DEF Unit, Fractions
  <2>2. Times(Not(q), Parameters[t].pT) \in Unit
    BY <2>1, NotUnit, TimesUnit, ParametersAreUnit
  <2>3. q[1] * r[2] <= r[1] * q[2]
    BY <1>4, <2>1, <2>2, PlusGrows
  <2>4. PICK m \in Nat, n \in Nat \ {0} : r = <<m, n>>
    BY <1>5, UnitPair
  <2>5. x * n <= x * m
    BY <1>10, <2>3, <2>4
  <2>6. n <= m
    BY <2>5, SameOrder
  <2> QED BY <1>1, <2>4, <2>6 DEF AtMost
<1>12. ~Below(r, NearOne)
  <2>1. r \in Fractions
    BY <1>5 DEF Unit
  <2>2. ~Below(r, Whole(1))
    BY <1>1, <1>11, <2>1, AtMostIs
  <2> QED BY <2>1, <2>2, NearOneIsBelowOne, UnitIs
<1> QED BY <1>4, <1>12 DEF Stored

\* Below 1 a wrong answer lowers what is stored when it lowers before.
LEMMA LowersAsStored ==
    ASSUME ParametersInside, NEW t \in Topics, NEW p \in Proper, Below(p, NearOne)
    PROVE  /\ Lowers(t, p) <=> LowersExactly(t, p)
           /\ Lowers(t, p) => /\ PKnownAfter(Parameters[t], p, FALSE) = Exactly(t, p, FALSE)
                              /\ Exactly(t, p, FALSE) \in Proper
<1> DEFINE e == Exactly(t, p, FALSE)
           r == PKnownAfter(Parameters[t], p, FALSE)
<1>1. p \in Unit /\ p \in Fractions /\ p[1] > 0 /\ NearOne \in Fractions
  BY NearOneAssumption DEF Proper, Unit, Fractions
<1>2. e \in Unit /\ e[1] > 0
  BY <1>1, ExactlyUnit
<1>3. r = Stored(e)
  BY DEF PKnownAfter, Exactly
<1> HIDE DEF e, r
<1>4. r \in Fractions /\ e \in Fractions /\ AtMost(e, r)
  BY <1>2, <1>3, StoredHeld, HeldIsUnit DEF Unit
<1>5. AtMost(r, p) => AtMost(e, p)
  BY <1>1, <1>4, AtMostOrders
<1>6. AtMost(e, p) => Below(e, NearOne)
  BY <1>1, <1>4, AtMostIs, AtMostOrders
<1>7. Below(e, NearOne) => r = e /\ e \in Proper
  BY <1>2, <1>3, StoredHeld
<1>8. /\ AtMost(r, p) <=> AtMost(e, p)
      /\ AtMost(r, p) => r = e /\ e \in Proper
  BY <1>5, <1>6, <1>7
<1> QED BY <1>8 DEF Lowers, LowersExactly, e, r

\* y follows an answer from x: it is no smaller after a right one, no larger after a wrong one.
Follows(right, x, y) == IF right THEN AtMost(x, y) ELSE AtMost(y, x)

\* Where a wrong answer lowers, what a column holds follows an answer, and a wrong one
\* lowers after it too.
LEMMA AnswerFollows ==
    ASSUME ParametersInside, NEW t \in Topics, NEW p \in Held, Lowers(t, p), NEW right \in BOOLEAN
    PROVE  LET r == PKnownAfter(Parameters[t], p, right)
           IN  r \in Held /\ Follows(right, p, r) /\ Lowers(t, r)
<1> DEFINE r == PKnownAfter(Parameters[t], p, right)
           e == Exactly(t, p, right)
<1>1. p \in Unit /\ p \in Fractions /\ p[1] > 0
  BY HeldIsUnit
<1>2. CASE p = Whole(1)
  <2>1. r = p
    BY <1>2, OneStays
  <2>2. AtMost(p, p)
    BY <1>1, AtMostOrders
  <2> QED BY <2>1, <2>2 DEF Follows
<1>3. CASE p # Whole(1)
  <2>1. p \in Proper /\ Below(p, NearOne)
    BY <1>3 DEF Held
  <2>2. LowersExactly(t, p)
    BY <2>1, LowersAsStored
  <2>3. e \in Unit /\ e[1] > 0
    BY <1>1, ExactlyUnit
  <2>4. r = Stored(e)
    BY DEF PKnownAfter, Exactly
  <2> HIDE DEF r, e
  <2>5. r \in Held /\ AtMost(e, r)
    BY <2>3, <2>4, StoredHeld
  <2>6. r \in Fractions /\ e \in Fractions
    BY <2>3, <2>5, HeldIsUnit DEF Unit
  <2>7. ASSUME r = e, LowersExactly(t, e), e # Whole(1) PROVE Lowers(t, r)
    <3>1. e \in Proper /\ Below(e, NearOne)
      BY <2>5, <2>7 DEF Held
    <3> QED BY <2>7, <3>1, LowersAsStored
  <2>8. r = Whole(1) => Lowers(t, r)
    <3>1. AtMost(Whole(1), Whole(1))
      BY DEF AtMost, Whole
    <3> QED BY <3>1, OneStays DEF Lowers
  <2>9. CASE right
    <3>1. AtMost(p, e)
      BY <2>1, <2>2, <2>9, LowersStays DEF e
    <3>2. AtMost(p, r)
      BY <1>1, <2>5, <2>6, <3>1, AtMostOrders
    <3>3. r # Whole(1) => r = e /\ e \in Proper
      BY <2>3, <2>4, StoredHeld
    <3>4. e \in Proper => LowersExactly(t, e)
      BY <2>1, <2>2, <3>1, LowersStays
    <3> QED BY <2>5, <2>7, <2>8, <2>9, <3>2, <3>3, <3>4 DEF Follows, r
  <2>10. CASE ~right
    <3>1. r = e /\ AtMost(r, p)
      BY <2>1, <2>10, LowersAsStored DEF Lowers, r, e
    <3>2. LowersExactly(t, e)
      BY <2>1, <2>2, <2>10, LowersStays DEF e
    <3> QED BY <2>5, <2>7, <2>8, <2>10, <3>1, <3>2 DEF Follows, r
  <2> QED BY <2>9, <2>10
<1> QED BY <1>2, <1>3

-----------------------------------------------------------------------------
(* The rule engine: right answers *)

\* A list of rules: pairs of a condition and a tag, which is not that of a right answer.
IsRuleList(rules) == \E C, T : "CORRECT" \notin T /\ rules \in Seq(C \X T)

\* Lists of rules written out.
LEMMA RuleLists ==
    /\ IsRuleList(<<>>)
    /\ \A c1, t1 : "CORRECT" \notin {t1} =>
         IsRuleList(<< <<c1, t1>> >>)
    /\ \A c1, c2, t1, t2 : "CORRECT" \notin {t1, t2} =>
         IsRuleList(<< <<c1, t1>>, <<c2, t2>> >>)
    /\ \A c1, c2, c3, t1, t2, t3 : "CORRECT" \notin {t1, t2, t3} =>
         IsRuleList(<< <<c1, t1>>, <<c2, t2>>, <<c3, t3>> >>)
    /\ \A c1, c2, c3, c4, t1, t2, t3, t4 : "CORRECT" \notin {t1, t2, t3, t4} =>
         IsRuleList(<< <<c1, t1>>, <<c2, t2>>, <<c3, t3>>, <<c4, t4>> >>)
    /\ \A c1, c2, c3, c4, c5, c6, t1, t2, t3, t4, t5, t6 : "CORRECT" \notin {t1, t2, t3, t4, t5, t6} =>
         IsRuleList(<< <<c1, t1>>, <<c2, t2>>, <<c3, t3>>, <<c4, t4>>, <<c5, t5>>, <<c6, t6>> >>)
    /\ \A c1, c2, c3, c4, c5, c6, c7, c8, t1, t2, t3, t4, t5, t6, t7, t8 : "CORRECT" \notin {t1, t2, t3, t4, t5, t6, t7, t8} =>
         IsRuleList(<< <<c1, t1>>, <<c2, t2>>, <<c3, t3>>, <<c4, t4>>, <<c5, t5>>, <<c6, t6>>, <<c7, t7>>, <<c8, t8>> >>)
<1>0. IsRuleList(<<>>)
  <2>1. <<>> \in Seq({} \X {})
    OBVIOUS
  <2> QED BY <2>1 DEF IsRuleList
<1>1. ASSUME NEW c1,
             NEW t1, "CORRECT" \notin {t1}
      PROVE  IsRuleList(<< <<c1, t1>> >>)
  <2>1. << <<c1, t1>> >>
          \in Seq({c1} \X {t1})
    OBVIOUS
  <2> QED BY <1>1, <2>1 DEF IsRuleList
<1>2. ASSUME NEW c1, NEW c2,
             NEW t1, NEW t2, "CORRECT" \notin {t1, t2}
      PROVE  IsRuleList(<< <<c1, t1>>, <<c2, t2>> >>)
  <2>1. << <<c1, t1>>, <<c2, t2>> >>
          \in Seq({c1, c2} \X {t1, t2})
    OBVIOUS
  <2> QED BY <1>2, <2>1 DEF IsRuleList
<1>3. ASSUME NEW c1, NEW c2, NEW c3,
             NEW t1, NEW t2, NEW t3, "CORRECT" \notin {t1, t2, t3}
      PROVE  IsRuleList(<< <<c1, t1>>, <<c2, t2>>, <<c3, t3>> >>)
  <2>1. << <<c1, t1>>, <<c2, t2>>, <<c3, t3>> >>
          \in Seq({c1, c2, c3} \X {t1, t2, t3})
    OBVIOUS
  <2> QED BY <1>3, <2>1 DEF IsRuleList
<1>4. ASSUME NEW c1, NEW c2, NEW c3, NEW c4,
             NEW t1, NEW t2, NEW t3, NEW t4, "CORRECT" \notin {t1, t2, t3, t4}
      PROVE  IsRuleList(<< <<c1, t1>>, <<c2, t2>>, <<c3, t3>>, <<c4, t4>> >>)
  <2>1. << <<c1, t1>>, <<c2, t2>>, <<c3, t3>>, <<c4, t4>> >>
          \in Seq({c1, c2, c3, c4} \X {t1, t2, t3, t4})
    OBVIOUS
  <2> QED BY <1>4, <2>1 DEF IsRuleList
<1>6. ASSUME NEW c1, NEW c2, NEW c3, NEW c4, NEW c5, NEW c6,
             NEW t1, NEW t2, NEW t3, NEW t4, NEW t5, NEW t6, "CORRECT" \notin {t1, t2, t3, t4, t5, t6}
      PROVE  IsRuleList(<< <<c1, t1>>, <<c2, t2>>, <<c3, t3>>, <<c4, t4>>, <<c5, t5>>, <<c6, t6>> >>)
  <2>1. << <<c1, t1>>, <<c2, t2>>, <<c3, t3>>, <<c4, t4>>, <<c5, t5>>, <<c6, t6>> >>
          \in Seq({c1, c2, c3, c4, c5, c6} \X {t1, t2, t3, t4, t5, t6})
    OBVIOUS
  <2> QED BY <1>6, <2>1 DEF IsRuleList
<1>8. ASSUME NEW c1, NEW c2, NEW c3, NEW c4, NEW c5, NEW c6, NEW c7, NEW c8,
             NEW t1, NEW t2, NEW t3, NEW t4, NEW t5, NEW t6, NEW t7, NEW t8, "CORRECT" \notin {t1, t2, t3, t4, t5, t6, t7, t8}
      PROVE  IsRuleList(<< <<c1, t1>>, <<c2, t2>>, <<c3, t3>>, <<c4, t4>>, <<c5, t5>>, <<c6, t6>>, <<c7, t7>>, <<c8, t8>> >>)
  <2>1. << <<c1, t1>>, <<c2, t2>>, <<c3, t3>>, <<c4, t4>>, <<c5, t5>>, <<c6, t6>>, <<c7, t7>>, <<c8, t8>> >>
          \in Seq({c1, c2, c3, c4, c5, c6, c7, c8} \X {t1, t2, t3, t4, t5, t6, t7, t8})
    OBVIOUS
  <2> QED BY <1>8, <2>1 DEF IsRuleList
<1> QED
  BY <1>0, <1>1, <1>2, <1>3, <1>4, <1>6, <1>8

\* Lists of rules one after the other are one.
LEMMA JoinedRules ==
    ASSUME NEW r, NEW s, IsRuleList(r), IsRuleList(s)
    PROVE  IsRuleList(r \o s)
<1>1. PICK C, T : "CORRECT" \notin T /\ r \in Seq(C \X T)
  BY DEF IsRuleList
<1>2. PICK D, U : "CORRECT" \notin U /\ s \in Seq(D \X U)
  BY DEF IsRuleList
<1>3. PICK E : E = (C \cup D) \X (T \cup U)
  OBVIOUS
<1>4. r \in Seq(E) /\ s \in Seq(E)
  BY <1>1, <1>2, <1>3
<1>5. r \o s \in Seq(E)
  BY <1>4
<1>6. "CORRECT" \notin T \cup U
  BY <1>1, <1>2
<1> QED
  BY <1>3, <1>5, <1>6 DEF IsRuleList

\* The rules of a strategy are such a list.
LEMMA StrategyRules ==
    ASSUME NEW p, NEW x
    PROVE  IsRuleList(GetStrategy(p, x))
<1>1. IsRuleList(SubtractionRules(p, x)) /\ IsRuleList(AdditionRules(p, x))
  <2>1. IsRuleList(SubtractionRules(p, x))
    BY RuleLists DEF SubtractionRules
  <2>2. IsRuleList(AdditionRules(p, x))
    BY RuleLists DEF AdditionRules
  <2> QED BY <2>1, <2>2
<1>2. \A e, s : IsRuleList(AnswerOnlyRules(e, s))
  BY RuleLists DEF AnswerOnlyRules
<1>3. IsRuleList(MultiplicationRules(p, x))
  BY <1>2, RuleLists, JoinedRules DEF MultiplicationRules
<1>4. IsRuleList(DivisionRules(p, x))
  BY <1>2, RuleLists, JoinedRules DEF DivisionRules
<1>5. /\ IsRuleList(IntAdditionRules(p, x)) /\ IsRuleList(IntSubtractionRules(p, x))
      /\ IsRuleList(IntMultiplicationRules(p, x))
  BY RuleLists DEF IntAdditionRules, IntSubtractionRules, IntMultiplicationRules
<1>6. /\ IsRuleList(FractionAddSubRules(p, x)) /\ IsRuleList(FractionMultiplicationRules(p, x))
      /\ IsRuleList(FractionDivisionRules(p, x))
  BY RuleLists DEF FractionAddSubRules, FractionMultiplicationRules, FractionDivisionRules
<1>7. \A d, t : t # "CORRECT" => IsRuleList(MisalignedRules(p, x, d, t))
  BY RuleLists DEF MisalignedRules
<1>8. IsRuleList(DecimalMultiplicationRules(p, x)) /\ IsRuleList(DecimalDivisionRules(p, x))
  BY RuleLists DEF DecimalMultiplicationRules, DecimalDivisionRules
<1>9. IsRuleList(PercentRules(p, x)) /\ IsRuleList(ProportionRules(p, x)) /\ IsRuleList(LinearEquationRules(p, x))
  BY RuleLists DEF PercentRules, ProportionRules, LinearEquationRules
<1>10. IsRuleList(PowerLawsRules(p, x)) /\ IsRuleList(RootLawsRules(p, x))
  BY RuleLists DEF PowerLawsRules, RootLawsRules
<1>11. IsRuleList(<<>>)
  BY RuleLists
<1> QED
  BY <1>1, <1>3, <1>4, <1>5, <1>6, <1>7, <1>8, <1>9, <1>10, <1>11 DEF GetStrategy

\* A list of rules never names the tag of a right answer.
LEMMA FirstMatchIsNotCorrect ==
    ASSUME NEW rules, IsRuleList(rules)
    PROVE  FirstMatch(rules) # "CORRECT"
<1>1. PICK C, T : "CORRECT" \notin T /\ rules \in Seq(C \X T)
  BY DEF IsRuleList
<1>2. CASE Matches(rules) = {}
  BY <1>2 DEF FirstMatch
<1>3. CASE Matches(rules) # {}
  <2> DEFINE M == Matches(rules)
  <2>1. M \subseteq Nat /\ M \subseteq DOMAIN rules
    BY <1>1 DEF Matches
  <2>2. PICK n \in M : \A m \in M : n <= m
    <3> HIDE DEF M
    <3> QED BY <1>3, <2>1, LeastNumber DEF M
  <2>3. Min(M) \in DOMAIN rules
    <3> HIDE DEF M
    <3> QED BY <2>1, <2>2 DEF Min
  <2> HIDE DEF M
  <2>4. rules[Min(M)] \in C \X T
    <3>1. PICK i : i = Min(M)
      OBVIOUS
    <3>2. i \in 1..Len(rules)
      BY <1>1, <2>3, <3>1
    <3> QED BY <1>1, <3>1, <3>2
  <2>5. rules[Min(M)][2] \in T
    BY <2>4
  <2>6. FirstMatch(rules) = rules[Min(M)][2]
    BY <1>3 DEF FirstMatch, M
  <2> QED BY <1>1, <2>5, <2>6
<1> QED
  BY <1>2, <1>3

\* In a subdomain with a strategy an answer is classified as right exactly when it is.
LEMMA CorrectIsRight ==
    ASSUME NEW p, NEW x, p.sub \in Registered
    PROVE  Classify(p, x) = "CORRECT" <=> Same(x, p.expected)
<1>1. FirstMatch(GetStrategy(p, x)) # "CORRECT"
  BY StrategyRules, FirstMatchIsNotCorrect
<1> QED
  BY <1>1 DEF Classify

-----------------------------------------------------------------------------
(* Knowledge tracing: what is shown *)

\* Means follow what they are means of.
LEMMA MeanFollows ==
    ASSUME NEW right \in BOOLEAN, NEW S, IsFiniteSet(S), S # {}, NEW f, NEW g,
           \A x \in S : f[x] \in Fractions /\ g[x] \in Fractions /\ Follows(right, f[x], g[x])
    PROVE  /\ Mean(f, S) \in Fractions /\ Mean(g, S) \in Fractions
           /\ Follows(right, Mean(f, S), Mean(g, S))
<1>1. CASE right
  <2>1. \A x \in S : AtMost(f[x], g[x])
    BY <1>1 DEF Follows
  <2> QED BY <1>1, <2>1, MeanMonotone DEF Follows
<1>2. CASE ~right
  <2>1. \A x \in S : AtMost(g[x], f[x])
    BY <1>2 DEF Follows
  <2> QED BY <1>2, <2>1, MeanMonotone DEF Follows
<1> QED BY <1>1, <1>2

\* Of no topics the mean is the same whatever is on record.
LEMMA MeanOfNone ==
    ASSUME NEW f, NEW g
    PROVE  Mean(f, {}) = Mean(g, {})
<1>1. \A e : Mean(e, {}) = Over(PlusOver(e, {})[1], PlusOver(e, {})[2] * Cardinality({}))
  BY DEF Mean, FoldFunctionOnSet, MapThenFoldSet, PlusOver
<1>2. ASSUME NEW e PROVE PlusOver(e, {}) = Whole(0)
  <2>1. IsFiniteSet({}) /\ Cardinality({}) <= Cardinality({})
    BY FS_EmptySet
  <2>2. PICK h : AreSums(h, e, {}, Cardinality({})) /\ h[{}] = PlusOver(e, {})
    BY <2>1, PlusOverSums
  <2>3. h[{}] = Whole(0)
    BY <2>1, <2>2, Zenon DEF AreSums
  <2> QED BY <2>2, <2>3
<1> QED BY <1>1, <1>2

\* Bands follow what they are bands of.
LEMMA BandFollows ==
    ASSUME NEW x \in Fractions, NEW y \in Fractions, AtMost(x, y)
    PROVE  ToBand(x) <= ToBand(y)
<1>1. <<7, 10>> \in Fractions /\ <<2, 5>> \in Fractions
  BY DEF Fractions
<1>2. \A e \in {<<7, 10>>, <<2, 5>>} : AtMost(e, x) => AtMost(e, y)
  BY <1>1, AtMostOrders
<1>3. \A e \in {<<7, 10>>, <<2, 5>>} : ~Below(x, e) => ~Below(y, e)
  BY <1>1, <1>2, AtMostIs
<1>4. AtMost(<<2, 5>>, <<7, 10>>)
  BY DEF AtMost
<1>5. ~Below(x, <<7, 10>>) => ~Below(x, <<2, 5>>)
  BY <1>1, <1>4, AtMostIs, AtMostOrders
<1>6. ~Below(y, <<7, 10>>) => ~Below(y, <<2, 5>>)
  BY <1>1, <1>4, AtMostIs, AtMostOrders
<1>7. /\ ~Below(x, <<7, 10>>) => ~Below(y, <<7, 10>>)
      /\ ~Below(x, <<2, 5>>) => ~Below(y, <<2, 5>>)
  BY <1>3
<1> QED BY <1>5, <1>6, <1>7 DEF ToBand

-----------------------------------------------------------------------------
(* Practice: what an answer does to what is shown *)

\* A wrong first answer to a topic lowers its pKnown, or leaves it: slips and guesses are rare
\* enough for what is learned from an answer, as the default parameters have them.
WrongAnswersLower ==
    \A t \in Topics :
      ~Below(Parameters[t].pL0, PKnownAfter(Parameters[t], Parameters[t].pL0, FALSE))

\* They do with the default parameters, which are those of every topic the seed writes.
LEMMA DefaultsLower ==
    (\A t \in Topics : Parameters[t] = DefaultParameters) => ParametersInside /\ WrongAnswersLower
<1> SUFFICES ASSUME \A t \in Topics : Parameters[t] = DefaultParameters
             PROVE  ParametersInside /\ WrongAnswersLower
  OBVIOUS
<1>1. ASSUME NEW t \in Topics
      PROVE  /\ Parameters[t].pL0 = <<3, 10>> /\ Parameters[t].pT = <<1, 10>>
             /\ Parameters[t].pS = <<1, 10>> /\ Parameters[t].pG = <<1, 5>>
  BY DEF DefaultParameters
<1>2. ParametersInside
  <2>1. \A x \in {<<3, 10>>, <<1, 10>>, <<1, 5>>} :
          x \in Fractions /\ 0 < x[1] /\ x[1] < x[2]
    BY DEF Fractions
  <2>2. \A x \in {<<3, 10>>, <<1, 10>>, <<1, 5>>} : Below(Whole(0), x) /\ Below(x, Whole(1))
    BY <2>1, UnitIs
  <2> QED BY <1>1, <2>2 DEF ParametersInside
<1>3. ASSUME NEW t \in Topics
      PROVE  ~Below(Parameters[t].pL0, PKnownAfter(Parameters[t], Parameters[t].pL0, FALSE))
  <2> DEFINE p == <<3, 10>>
             e == Exactly(t, p, FALSE)
  <2>1. p \in Proper /\ p \in Fractions /\ Below(p, NearOne)
    <3>1. Stored(p) = p /\ p # Whole(1)
      BY <1>1, ParametersAreProbabilities DEF Whole
    <3> QED BY <3>1 DEF Stored, Proper, Fractions
  <2>2. PICK g \in Nat, h \in Nat \ {0} : Not(<<1, 5>>) = <<g, h>> /\ g * 5 = (5 - 1) * h
    BY NotIs
  <2>3. g \in Nat \ {0} /\ 5 * g = 4 * h
    BY <2>2
  <2>4. e = Updated(<<1, 10>>, <<g, h>>, <<3, 10>>, <<1, 10>>)
    BY <1>1, <2>2 DEF Exactly, Updated, Posterior, PosteriorGivenObs, Evidence, Likelihood
  <2> HIDE DEF e
  <2>5. IsUpdate(e, 1 * h, g * 10, 1, 10, 3, 10)
    BY <2>3, <2>4, UpdateWeighs
  <2>6. ((g * 10) * 1) * 10 + ((1 * h) * 10) * 3 <= ((g * 10) * 10) * 3
    BY <2>3
  <2>7. AtMost(e, p)
    BY <2>5, <2>6 DEF IsUpdate
  <2>8. Lowers(t, p) /\ PKnownAfter(Parameters[t], p, FALSE) \in Fractions
    <3> HIDE DEF p
    <3>1. LowersExactly(t, p)
      BY <2>7 DEF LowersExactly, e
    <3>2. Lowers(t, p)
      BY <1>2, <2>1, <3>1, LowersAsStored
    <3> QED BY <1>2, <2>1, <3>2, LowersAsStored DEF Proper
  <2> HIDE DEF p
  <2>9. ~Below(p, PKnownAfter(Parameters[t], p, FALSE))
    BY <2>1, <2>8, AtMostIs DEF Lowers
  <2> QED BY <1>1, <2>9 DEF p
<1> QED BY <1>2, <1>3 DEF WrongAnswersLower

\* Whatever is on record a wrong answer lowers; the answers are finitely many, and the
\* exercises are of their topics' subdomains.
ShownInv ==
    /\ ParametersInside /\ MasteryInv
    /\ \A t \in Topics : /\ Prior(mastery, Parameters, t) \in Held
                         /\ Lowers(t, Prior(mastery, Parameters, t))
    /\ IsFiniteSet(answers)
    /\ \A ex \in pool : ex.problem.sub = SubOf[ex.topic]

\* At the start it is the prior of the topic.
LEMMA InitShown == ParametersInside /\ WrongAnswersLower /\ PracticeInit => ShownInv
<1> SUFFICES ASSUME ParametersInside, WrongAnswersLower, PracticeInit PROVE ShownInv
  OBVIOUS
<1>1. MasteryInv
  BY InitMastery
<1>2. ASSUME NEW t \in Topics
      PROVE  Prior(mastery, Parameters, t) \in Held /\ Lowers(t, Prior(mastery, Parameters, t))
  <2> DEFINE p == Parameters[t].pL0
             r == PKnownAfter(Parameters[t], p, FALSE)
  <2>1. p \in Fractions /\ p \in Held /\ r \in Fractions
    <3>1. p \in Proper /\ p \in Unit /\ p[1] > 0
      BY ParametersAreProper, ParametersAreUnit DEF Proper
    <3>2. p \in Held
      BY <3>1, ParametersAreProbabilities, StoredHeld
    <3>3. Evidence(Parameters[t], p, FALSE)[1] # 0
      BY <3>1, HasEvidence
    <3>4. r \in Unit
      BY <3>1, <3>3, PKnownAfterUnit
    <3> QED BY <3>1, <3>2, <3>4 DEF Unit
  <2>2. ~Below(p, r)
    BY DEF WrongAnswersLower
  <2>3. Prior(mastery, Parameters, t) = p
    BY DEF PracticeInit, Prior
  <2> HIDE DEF p, r
  <2>4. AtMost(r, p)
    BY <2>1, <2>2, AtMostIs
  <2> QED BY <2>1, <2>3, <2>4 DEF Lowers, r
<1>3. IsFiniteSet(answers) /\ \A ex \in pool : ex.problem.sub = SubOf[ex.topic]
  BY FS_EmptySet, PracticeAssumption DEF PracticeInit
<1> QED BY <1>1, <1>2, <1>3 DEF ShownInv

\* An answer a to an exercise of topic t, right or not, and what it makes of pKnown.
IsAnswer(a, t, right, r) ==
    /\ t \in Topics /\ right \in BOOLEAN
    /\ r = PKnownAfter(Parameters[t], Prior(mastery, Parameters, t), right)
    /\ answers' = answers \cup {a}
    /\ mastery' = [mastery EXCEPT ![t] = r]
    /\ a.topic = t /\ a.sub = SubOf[t] /\ a.tagSub \in {NoSub, SubOf[t]}
    /\ a.sub \in Registered => (a.right <=> right)

\* Answering is such an answer.
LEMMA SolveAnswers ==
    ASSUME ShownInv, NEW ex \in pool, ex.topic \in Topics, NEW x, NEW inCourse, Solve(ex, x, inCourse)
    PROVE  \E a, t, right, r : IsAnswer(a, t, right, r) /\ UNCHANGED pool
<1> DEFINE tag == Classify(ex.problem, x)
           right == tag = "CORRECT"
           tagSub == IF tag \in {"CORRECT", "UNCLASSIFIED", "FACT_ERROR", "PLACE_VALUE",
                                 "DIGIT_TRANSPOSITION"} THEN NoSub ELSE SubOf[ex.topic]
           a == [n |-> Cardinality(answers) + 1, exercise |-> ex.id, topic |-> ex.topic,
                 sub |-> SubOf[ex.topic], inCourse |-> inCourse, correct |-> right,
                 right |-> Same(x, ex.problem.expected), tagSub |-> tagSub, day |-> day]
           r == PKnownAfter(Parameters[ex.topic], Prior(mastery, Parameters, ex.topic), right)
<1>0. Evidence(Parameters[ex.topic], Prior(mastery, Parameters, ex.topic), right)[1] # 0
  <2>1. Prior(mastery, Parameters, ex.topic) \in Unit /\ Prior(mastery, Parameters, ex.topic)[1] > 0
    BY HeldIsUnit DEF ShownInv
  <2> QED BY <2>1, HasEvidence DEF ShownInv
<1>1. answers' = answers \cup {a} /\ mastery' = [mastery EXCEPT ![ex.topic] = r] /\ pool' = pool
  BY <1>0 DEF Solve, ApplyAttempt
<1>2. ex.problem.sub = SubOf[ex.topic]
  BY DEF ShownInv
<1>3. SubOf[ex.topic] \in Registered => (Same(x, ex.problem.expected) <=> right)
  BY <1>2, CorrectIsRight
<1>4. right \in BOOLEAN
  OBVIOUS
<1>5. /\ a.topic = ex.topic /\ a.sub = SubOf[ex.topic] /\ a.tagSub \in {NoSub, SubOf[ex.topic]}
      /\ a.right <=> Same(x, ex.problem.expected)
  <2>1. tagSub \in {NoSub, SubOf[ex.topic]}
    OBVIOUS
  <2> HIDE DEF tagSub, right
  <2> QED BY <2>1
<1> HIDE DEF a, right
<1>6. IsAnswer(a, ex.topic, right, r)
  BY <1>1, <1>3, <1>4, <1>5 DEF IsAnswer
<1> QED BY <1>1, <1>6

\* An answer moves the prior of its topic after it, and leaves the others.
LEMMA AnswerMoves ==
    ASSUME ShownInv, NEW a, NEW t, NEW right, NEW r, IsAnswer(a, t, right, r)
    PROVE  /\ r \in Held /\ r \in Fractions
           /\ Follows(right, Prior(mastery, Parameters, t), r) /\ Lowers(t, r)
           /\ mastery' = [u \in Topics |-> IF u = t THEN r ELSE mastery[u]]
           /\ \A u \in Topics :
                Prior(mastery', Parameters, u) = IF u = t THEN r ELSE Prior(mastery, Parameters, u)
<1> DEFINE p == Prior(mastery, Parameters, t)
<1>1. t \in Topics /\ right \in BOOLEAN /\ r = PKnownAfter(Parameters[t], p, right)
  BY DEF IsAnswer
<1>2. p \in Held /\ Lowers(t, p)
  BY <1>1 DEF ShownInv
<1> HIDE DEF p
<1>3. r \in Held /\ Follows(right, p, r) /\ Lowers(t, r)
  BY <1>1, <1>2, AnswerFollows DEF ShownInv
<1>4. r \in Fractions
  BY <1>3, HeldIsUnit
<1>5. mastery' = [u \in Topics |-> IF u = t THEN r ELSE mastery[u]]
  BY DEF IsAnswer, ShownInv, MasteryInv
<1>6. r # NoRecord
  BY <1>4, PracticeAssumption
<1>7. \A u \in Topics : Prior(mastery', Parameters, u) = IF u = t THEN r ELSE Prior(mastery, Parameters, u)
  BY <1>5, <1>6 DEF Prior
<1> QED BY <1>3, <1>4, <1>5, <1>7 DEF p

\* A step of practice is an answer, or it leaves the answers and what is on record, and adds to the
\* exercises at most one of its topic's subdomain.
LEMMA PracticeStep ==
    ASSUME ShownInv, [PracticeNext]_practiceVars
    PROVE  \/ \E a, t, right, r : IsAnswer(a, t, right, r) /\ UNCHANGED pool
           \/ UNCHANGED <<answers, mastery>> /\ \A ex \in pool' : ex.problem.sub = SubOf[ex.topic]
<1>1. ASSUME NEW ex \in pool, NEW x, SolveRecommended(ex, x) \/ SolvePractice(ex, x)
      PROVE  \E a, t, right, r : IsAnswer(a, t, right, r) /\ UNCHANGED pool
  <2>1. ex.topic \in Topics
    BY <1>1 DEF SolveRecommended, SolvePractice, NextExercises, PracticeExercises, Fresh, Active
  <2> QED BY <1>1, <2>1, SolveAnswers DEF SolveRecommended, SolvePractice
<1>2. ASSUME NEW ex \in NewItems, NEW status, AddExercise(ex, status)
      PROVE  UNCHANGED <<answers, mastery>> /\ \A e \in pool' : e.problem.sub = SubOf[e.topic]
  <2> DEFINE new == [ex EXCEPT !.status = status]
  <2>1. DOMAIN ex = {"id", "topic", "problem", "status"} /\ ex.problem.sub = SubOf[ex.topic]
    BY PracticeAssumption
  <2>2. new.problem = ex.problem /\ new.topic = ex.topic
    BY <2>1
  <2> HIDE DEF new
  <2>3. pool' = pool \cup {new} /\ UNCHANGED <<answers, mastery>>
    BY <1>2 DEF AddExercise, new
  <2>4. \A e \in pool : e.problem.sub = SubOf[e.topic]
    BY DEF ShownInv
  <2> QED BY <2>1, <2>2, <2>3, <2>4
<1>3. ASSUME UNCHANGED <<answers, mastery, pool>>
      PROVE  UNCHANGED <<answers, mastery>> /\ \A ex \in pool' : ex.problem.sub = SubOf[ex.topic]
  BY <1>3 DEF ShownInv
<1>4. \/ \E ex \in pool : \E x : SolveRecommended(ex, x) \/ SolvePractice(ex, x)
      \/ \E ex \in NewItems : \E status : AddExercise(ex, status)
      \/ UNCHANGED <<answers, mastery, pool>>
  BY DEF PracticeNext, practiceVars, AnswerDrill, MaterializeExercise, NextDay, ItemsNext,
         CreateItem, GenerateItems, AssignmentsNext, CreateAssignment, CreateRecommended
<1> QED BY <1>1, <1>2, <1>3, <1>4

\* Every step keeps ShownInv.
LEMMA StepKeepsShown == ShownInv /\ [PracticeNext]_practiceVars => ShownInv'
<1> SUFFICES ASSUME ShownInv, [PracticeNext]_practiceVars PROVE ShownInv'
  OBVIOUS
<1>1. MasteryInv'
  BY NextMastery DEF ShownInv
<1>2. CASE UNCHANGED <<answers, mastery>> /\ \A ex \in pool' : ex.problem.sub = SubOf[ex.topic]
  BY <1>1, <1>2 DEF ShownInv, Prior
<1>3. ASSUME NEW a, NEW t, NEW right, NEW r, IsAnswer(a, t, right, r), UNCHANGED pool PROVE ShownInv'
  <2>1. \A u \in Topics : /\ Prior(mastery', Parameters, u) \in Held
                          /\ Lowers(u, Prior(mastery', Parameters, u))
    BY <1>3, AnswerMoves DEF ShownInv
  <2>2. IsFiniteSet(answers')
    BY <1>3, FS_AddElement DEF IsAnswer, ShownInv
  <2>3. \A ex \in pool' : ex.problem.sub = SubOf[ex.topic]
    BY <1>3 DEF ShownInv
  <2>4. (\A u \in Topics : /\ Prior(mastery, Parameters, u) \in Held
                           /\ Lowers(u, Prior(mastery, Parameters, u)))'
    BY <2>1
  <2> QED BY <1>1, <2>2, <2>3, <2>4 DEF ShownInv
<1> QED BY <1>2, <1>3, PracticeStep

\* What a parent sees of a unit follows an answer.
LEMMA UnitFollows ==
    ASSUME ShownInv, NEW a, NEW t, NEW right, NEW r, IsAnswer(a, t, right, r), NEW unit \in CourseUnits
    PROVE  IF right THEN UnitBand(mastery', Parameters, unit) >= UnitBand(mastery, Parameters, unit)
                    ELSE UnitBand(mastery', Parameters, unit) <= UnitBand(mastery, Parameters, unit)
<1> DEFINE f == [u \in unit |-> Prior(mastery, Parameters, u)]
           g == [u \in unit |-> Prior(mastery', Parameters, u)]
<1>1. unit \subseteq Topics /\ IsFiniteSet(unit)
  BY PracticeAssumption, FS_Subset
<1>2. UnitBand(mastery, Parameters, unit) = ToBand(Mean(f, unit))
      /\ UnitBand(mastery', Parameters, unit) = ToBand(Mean(g, unit))
  BY DEF UnitBand
<1>3. right \in BOOLEAN
  BY DEF IsAnswer
<1>4. CASE unit = {}
  <2> HIDE DEF f, g
  <2>1. Mean(f, unit) = Mean(g, unit)
    BY <1>4, MeanOfNone
  <2>2. ToBand(Mean(f, unit)) \in Int
    BY DEF ToBand
  <2> QED BY <1>2, <2>1, <2>2
<1>5. CASE unit # {}
  <2>1. ASSUME NEW u \in unit
        PROVE  f[u] \in Fractions /\ g[u] \in Fractions /\ Follows(right, f[u], g[u])
    <3>1. u \in Topics
      BY <1>1
    <3>2. Prior(mastery, Parameters, u) \in Fractions
      BY <3>1, HeldIsUnit DEF ShownInv
    <3>3. CASE u = t
      BY <3>1, <3>2, <3>3, AnswerMoves
    <3>4. CASE u # t
      <4>1. Prior(mastery', Parameters, u) = Prior(mastery, Parameters, u)
        BY <3>1, <3>4, AnswerMoves
      <4>2. AtMost(f[u], f[u])
        BY <3>2, AtMostOrders
      <4> QED BY <3>2, <4>1, <4>2 DEF Follows
    <3> QED BY <3>3, <3>4
  <2> HIDE DEF f, g
  <2>2. Mean(f, unit) \in Fractions /\ Mean(g, unit) \in Fractions /\ Follows(right, Mean(f, unit), Mean(g, unit))
    BY <1>1, <1>3, <1>5, <2>1, MeanFollows
  <2>3. CASE right
    BY <1>2, <2>2, <2>3, BandFollows DEF Follows
  <2>4. CASE ~right
    BY <1>2, <2>2, <2>4, BandFollows DEF Follows
  <2> QED BY <1>3, <2>3, <2>4
<1> QED BY <1>4, <1>5

\* The topics of a subdomain on record.
OnRecord(m, sub) == {u \in DOMAIN m : SubOf[u] = sub /\ m[u] # NoRecord}

\* An answer in a topic on record that counts for a subdomain with a strategy: the same topics
\* are on record after it, and the same subdomains have signal.
LEMMA SignalStays ==
    ASSUME ShownInv, NEW a, NEW t, NEW right, NEW r, IsAnswer(a, t, right, r),
           mastery[t] # NoRecord, a.sub \in Registered
    PROVE  /\ DOMAIN mastery = Topics /\ DOMAIN mastery' = Topics
           /\ \A u \in Topics : mastery'[u] # NoRecord <=> mastery[u] # NoRecord
           /\ SubdomainOfAttempt(a) = a.sub /\ a.sub = SubOf[t]
           /\ LiveSubs(mastery', SubOf, answers') = LiveSubs(mastery, SubOf, answers)
           /\ a.sub \in LiveSubs(mastery, SubOf, answers)
<1>1. DOMAIN mastery = Topics
  BY DEF ShownInv, MasteryInv
<1>2. mastery' = [u \in Topics |-> IF u = t THEN r ELSE mastery[u]] /\ r # NoRecord
  BY AnswerMoves, PracticeAssumption
<1>3. DOMAIN mastery' = Topics /\ \A u \in Topics : mastery'[u] # NoRecord <=> mastery[u] # NoRecord
  BY <1>2
<1>4. t \in Topics /\ a.sub = SubOf[t] /\ a.sub # NoSub /\ answers' = answers \cup {a}
  BY PracticeAssumption DEF IsAnswer
<1>5. SubdomainOfAttempt(a) = a.sub
  BY <1>4 DEF IsAnswer, SubdomainOfAttempt
<1> DEFINE Subs(m) == {SubOf[u] : u \in {v \in DOMAIN m : m[v] # NoRecord}}
           SeenIn(as) == {SubdomainOfAttempt(b) : b \in {c \in as : c.inCourse}}
<1>6. Subs(mastery') = Subs(mastery) /\ a.sub \in Subs(mastery)
  <2>1. {v \in DOMAIN mastery' : mastery'[v] # NoRecord} = {v \in DOMAIN mastery : mastery[v] # NoRecord}
    BY <1>1, <1>3
  <2> QED BY <2>1, <1>1, <1>4
<1>7. SeenIn(answers) \subseteq SeenIn(answers') /\ SeenIn(answers') \subseteq SeenIn(answers) \cup {a.sub}
  BY <1>4, <1>5
<1>8. \A m, as : LiveSubs(m, SubOf, as) = (SeenIn(as) \cup Subs(m)) \ {NoSub}
  BY DEF LiveSubs
<1> HIDE DEF Subs, SeenIn
<1>9. /\ LiveSubs(mastery, SubOf, answers) = (SeenIn(answers) \cup Subs(mastery)) \ {NoSub}
      /\ LiveSubs(mastery', SubOf, answers') = (SeenIn(answers') \cup Subs(mastery')) \ {NoSub}
  BY <1>8
<1>10. LiveSubs(mastery', SubOf, answers') = LiveSubs(mastery, SubOf, answers)
  BY <1>6, <1>7, <1>9
<1>11. a.sub \in LiveSubs(mastery, SubOf, answers)
  BY <1>4, <1>6, <1>9
<1> QED BY <1>1, <1>3, <1>4, <1>5, <1>10, <1>11

\* A cell of the panel follows an answer in a topic on record.
LEMMA CellFollows ==
    ASSUME ShownInv, NEW a, NEW t, NEW right, NEW r, IsAnswer(a, t, right, r),
           mastery[t] # NoRecord, a.sub \in Registered, NEW sub
    PROVE  LET before == SubdomainPKnown(mastery, SubOf, answers, sub)
               after == SubdomainPKnown(mastery', SubOf, answers', sub)
           IN  before \in Fractions /\ after \in Fractions /\ Follows(right, before, after)
<1> DEFINE rows == OnRecord(mastery, sub)
           SeenIn(as) == {b \in as : b.inCourse /\ SubdomainOfAttempt(b) = sub}
           Share(as) == IF SeenIn(as) # {}
                          THEN Over(Cardinality({b \in SeenIn(as) : b.correct}), Cardinality(SeenIn(as)))
                          ELSE <<3, 10>>
           before == SubdomainPKnown(mastery, SubOf, answers, sub)
           after == SubdomainPKnown(mastery', SubOf, answers', sub)
<1>1. t \in Topics /\ right \in BOOLEAN /\ answers' = answers \cup {a}
  BY DEF IsAnswer
<1>2. OnRecord(mastery', sub) = rows /\ rows \subseteq Topics /\ IsFiniteSet(rows)
  <2>1. OnRecord(mastery', sub) = rows /\ rows \subseteq Topics
    BY SignalStays DEF OnRecord
  <2> HIDE DEF rows
  <2> QED BY <2>1, PracticeAssumption, FS_Subset
<1>3. before = IF rows # {} THEN Mean(mastery, rows) ELSE Share(answers)
  BY DEF SubdomainPKnown, OnRecord
<1>4. after = IF rows # {} THEN Mean(mastery', rows) ELSE Share(answers')
  BY <1>2, Zenon DEF SubdomainPKnown, OnRecord
<1>5. CASE rows # {}
  <2>1. ASSUME NEW u \in rows
        PROVE  mastery[u] \in Fractions /\ mastery'[u] \in Fractions /\ Follows(right, mastery[u], mastery'[u])
    <3>1. u \in Topics /\ mastery[u] # NoRecord /\ mastery[u] \in Fractions
      BY <1>2 DEF OnRecord, ShownInv, MasteryInv, Unit
    <3>2. mastery'[u] = IF u = t THEN r ELSE mastery[u]
      BY <3>1, AnswerMoves
    <3>3. CASE u = t
      <4>1. Prior(mastery, Parameters, t) = mastery[t]
        BY <3>1, <3>3 DEF Prior
      <4> QED BY <3>1, <3>2, <3>3, <4>1, AnswerMoves
    <3>4. CASE u # t
      <4>1. AtMost(mastery[u], mastery[u])
        BY <3>1, AtMostOrders
      <4> QED BY <3>1, <3>2, <3>4, <4>1 DEF Follows
    <3> QED BY <3>3, <3>4
  <2> HIDE DEF rows, before, after
  <2>2. /\ Mean(mastery, rows) \in Fractions /\ Mean(mastery', rows) \in Fractions
        /\ Follows(right, Mean(mastery, rows), Mean(mastery', rows))
    BY <1>1, <1>2, <1>5, <2>1, MeanFollows
  <2>3. before \in Fractions /\ after \in Fractions /\ Follows(right, before, after)
    BY <1>3, <1>4, <1>5, <2>2
  <2> QED BY <2>3 DEF before, after
<1>6. CASE rows = {}
  <2>1. sub # SubOf[t]
    BY <1>1, <1>6, SignalStays DEF OnRecord
  <2>2. SeenIn(answers') = SeenIn(answers)
    BY <1>1, <2>1, SignalStays
  <2>3. Share(answers') = Share(answers)
    BY <2>2, Zenon
  <2>4. Share(answers) \in Fractions
    <3> DEFINE seen == SeenIn(answers)
               correct == {b \in seen : b.correct}
    <3>1. seen \subseteq answers /\ correct \subseteq seen
      OBVIOUS
    <3>2. IsFiniteSet(seen) /\ IsFiniteSet(correct)
      <4> HIDE DEF seen, correct
      <4> QED BY <3>1, FS_Subset DEF ShownInv
    <3>3. ASSUME seen # {}
          PROVE  Over(Cardinality(correct), Cardinality(seen)) \in Fractions
      <4> HIDE DEF seen, correct
      <4>1. Cardinality(correct) \in Nat /\ Cardinality(seen) \in Nat \ {0}
        BY <3>2, <3>3, FS_CardinalityType, FS_EmptySet
      <4>2. PICK i \in Nat, j \in Nat \ {0} : Over(Cardinality(correct), Cardinality(seen)) = <<i, j>>
        BY <4>1, OverIs
      <4> QED BY <4>2 DEF Fractions
    <3>4. <<3, 10>> \in Fractions
      BY DEF Fractions
    <3> QED BY <3>3, <3>4
  <2>5. AtMost(Share(answers), Share(answers))
    <3> HIDE DEF Share
    <3> QED BY <2>4, AtMostOrders
  <2> HIDE DEF rows, Share, SeenIn
  <2>6. before \in Fractions /\ after \in Fractions /\ Follows(right, before, after)
    BY <1>3, <1>4, <1>6, <2>3, <2>4, <2>5 DEF Follows
  <2> QED BY <2>6 DEF before, after
<1> QED BY <1>5, <1>6

\* The subdomains with signal are finitely many.
LEMMA FiniteSignal ==
    ASSUME ShownInv
    PROVE  IsFiniteSet(LiveSubs(mastery, SubOf, answers))
<1> DEFINE seen == {b \in answers : b.inCourse}
           f == [b \in seen |-> SubdomainOfAttempt(b)]
           Subs == {SubdomainOfAttempt(b) : b \in seen}
           known == {u \in DOMAIN mastery : mastery[u] # NoRecord}
           g == [u \in known |-> SubOf[u]]
           Topical == {SubOf[u] : u \in known}
<1>1. IsFiniteSet(seen) /\ IsFiniteSet(known)
  <2>1. seen \subseteq answers /\ known \subseteq Topics
    BY DEF ShownInv, MasteryInv
  <2> HIDE DEF seen, known
  <2> QED BY <2>1, PracticeAssumption, FS_Subset DEF ShownInv
<1>2. IsFiniteSet(Subs)
  <2>1. f \in Surjection(seen, Subs)
    BY DEF Surjection
  <2> HIDE DEF f, seen, Subs
  <2> QED BY <1>1, <2>1, FS_Surjection
<1>3. IsFiniteSet(Topical)
  <2>1. g \in Surjection(known, Topical)
    BY DEF Surjection
  <2> HIDE DEF g, known, Topical
  <2> QED BY <1>1, <2>1, FS_Surjection
<1>4. LiveSubs(mastery, SubOf, answers) = (Subs \cup Topical) \ {NoSub}
  BY DEF LiveSubs
<1> HIDE DEF Subs, Topical
<1>5. IsFiniteSet(Subs \cup Topical)
  BY <1>2, <1>3, FS_Union
<1> QED BY <1>4, <1>5, FS_Subset

\* The teacher's cells of its subdomain and of its domain follow an answer in a topic on record.
LEMMA CellsFollow ==
    ASSUME ShownInv, NEW a, NEW t, NEW right, NEW r, IsAnswer(a, t, right, r),
           mastery[t] # NoRecord, a.sub \in Registered
    PROVE  LET cells == CourseMastery(mastery, SubOf, answers)
               later == CourseMastery(mastery', SubOf, answers')
               domains == CourseHeatmap(mastery, SubOf, DomainOf, answers)
               then == CourseHeatmap(mastery', SubOf, DomainOf, answers')
               d == DomainOf[a.sub]
           IN  /\ cells[a.sub] \in Fractions /\ later[a.sub] \in Fractions
               /\ Follows(right, cells[a.sub], later[a.sub])
               /\ domains[d] \in Fractions /\ then[d] \in Fractions
               /\ Follows(right, domains[d], then[d])
<1> DEFINE L == LiveSubs(mastery, SubOf, answers)
           cells == CourseMastery(mastery, SubOf, answers)
           later == CourseMastery(mastery', SubOf, answers')
           domains == CourseHeatmap(mastery, SubOf, DomainOf, answers)
           then == CourseHeatmap(mastery', SubOf, DomainOf, answers')
           d == DomainOf[a.sub]
           live == {s \in L : DomainOf[s] = d}
<1>1. a.sub \in L /\ LiveSubs(mastery', SubOf, answers') = L
  BY SignalStays
<1>2. /\ cells = [sub \in L |-> SubdomainPKnown(mastery, SubOf, answers, sub)]
      /\ later = [sub \in L |-> SubdomainPKnown(mastery', SubOf, answers', sub)]
  BY <1>1 DEF CourseMastery
<1>3. ASSUME NEW sub \in L
      PROVE  cells[sub] \in Fractions /\ later[sub] \in Fractions /\ Follows(right, cells[sub], later[sub])
  <2> HIDE DEF L, cells, later
  <2>1. cells[sub] = SubdomainPKnown(mastery, SubOf, answers, sub)
        /\ later[sub] = SubdomainPKnown(mastery', SubOf, answers', sub)
    BY <1>2
  <2> QED BY <2>1, CellFollows
<1>4. IsFiniteSet(live) /\ a.sub \in live
  <2>1. live \subseteq L /\ a.sub \in live
    BY <1>1
  <2>2. IsFiniteSet(L)
    BY FiniteSignal
  <2> HIDE DEF live, L
  <2> QED BY <2>1, <2>2, FS_Subset
<1>5. domains[d] = Mean(cells, live) /\ then[d] = Mean(later, live)
  <2>1. DOMAIN cells = L /\ DOMAIN later = L
    <3> HIDE DEF cells, later, L
    <3> QED BY <1>2
  <2>2. domains = [e \in {DomainOf[s] : s \in DOMAIN cells} |->
                     Mean(cells, {s \in DOMAIN cells : DomainOf[s] = e})]
    BY DEF CourseHeatmap
  <2>3. then = [e \in {DomainOf[s] : s \in DOMAIN later} |->
                  Mean(later, {s \in DOMAIN later : DomainOf[s] = e})]
    BY DEF CourseHeatmap
  <2> HIDE DEF cells, later, L, domains, then
  <2>4. d \in {DomainOf[s] : s \in L}
    BY <1>1
  <2> QED BY <2>1, <2>2, <2>3, <2>4
<1>6. right \in BOOLEAN
  BY DEF IsAnswer
<1>7. domains[d] \in Fractions /\ then[d] \in Fractions /\ Follows(right, domains[d], then[d])
  <2>1. \A sub \in live : cells[sub] \in Fractions /\ later[sub] \in Fractions /\ Follows(right, cells[sub], later[sub])
    <3> HIDE DEF cells, later
    <3> QED BY <1>3
  <2> HIDE DEF cells, later, domains, then, live
  <2> QED BY <1>4, <1>5, <1>6, <2>1, MeanFollows
<1> HIDE DEF L, live
<1> QED BY <1>1, <1>3, <1>7

\* A step of practice moves what is shown as ShownMasteryFollowsAnswers asks.
LEMMA StepShows ==
    ASSUME ShownInv, [PracticeNext]_practiceVars, NEW a \in answers' \ answers, a.sub \in Registered
    PROVE  LET Band(m, u) == UnitBand(m, Parameters, u)
               CellOf(m, as) == CourseMastery(m, SubOf, as)[a.sub]
               Domain(m, as) == CourseHeatmap(m, SubOf, DomainOf, as)[DomainOf[a.sub]]
           IN  /\ \A u \in CourseUnits : IF a.right THEN Band(mastery', u) >= Band(mastery, u)
                                                   ELSE Band(mastery', u) <= Band(mastery, u)
               /\ mastery[a.topic] # NoRecord =>
                    IF a.right
                    THEN /\ ~Below(CellOf(mastery', answers'), CellOf(mastery, answers))
                         /\ ~Below(Domain(mastery', answers'), Domain(mastery, answers))
                    ELSE /\ ~Below(CellOf(mastery, answers), CellOf(mastery', answers'))
                         /\ ~Below(Domain(mastery, answers), Domain(mastery', answers'))
<1>1. PICK b, t, right, r : IsAnswer(b, t, right, r)
  BY PracticeStep
<1>2. a = b /\ IsAnswer(a, t, right, r)
  BY <1>1 DEF IsAnswer
<1>3. a.topic = t /\ right \in BOOLEAN /\ (a.right <=> right)
  BY <1>2 DEF IsAnswer
<1>4. ASSUME NEW u \in CourseUnits
      PROVE  IF a.right THEN UnitBand(mastery', Parameters, u) >= UnitBand(mastery, Parameters, u)
                        ELSE UnitBand(mastery', Parameters, u) <= UnitBand(mastery, Parameters, u)
  BY <1>2, <1>3, UnitFollows
<1> DEFINE cell == CourseMastery(mastery, SubOf, answers)[a.sub]
           later == CourseMastery(mastery', SubOf, answers')[a.sub]
           domain == CourseHeatmap(mastery, SubOf, DomainOf, answers)[DomainOf[a.sub]]
           then == CourseHeatmap(mastery', SubOf, DomainOf, answers')[DomainOf[a.sub]]
<1>5. ASSUME mastery[a.topic] # NoRecord
      PROVE  IF a.right THEN ~Below(later, cell) /\ ~Below(then, domain)
                        ELSE ~Below(cell, later) /\ ~Below(domain, then)
  <2>1. /\ cell \in Fractions /\ later \in Fractions /\ Follows(right, cell, later)
        /\ domain \in Fractions /\ then \in Fractions /\ Follows(right, domain, then)
    BY <1>2, <1>3, <1>5, CellsFollow
  <2> HIDE DEF cell, later, domain, then
  <2> QED BY <1>3, <2>1, AtMostIs DEF Follows
<1> QED BY <1>4, <1>5

-----------------------------------------------------------------------------
(* The services in one deployment *)

\* The initial states of the deployment are initial states of each service.
LEMMA DeploymentStarts == Init => PracticeInit /\ SessionsInit /\ CatalogInit /\ ResultsInit
BY DEF Init

\* A step of the deployment is a step of each service, or one it takes no part in.
LEMMA DeploymentSteps ==
  [Next]_platformVars =>
    /\ [PracticeNext]_practiceVars /\ [SessionsNext]_sessionVars
    /\ [CatalogNext]_catalogVars /\ [ResultsNext]_resultsVars
BY DEF Next, platformVars

\* The services keep to themselves: each runs in the deployment as its specification says.
LEMMA DeploymentServes == Spec => PracticeSpec /\ SessionsSpec /\ CatalogSpec /\ ResultsSpec
BY DeploymentStarts, DeploymentSteps, PTL
   DEF Spec, PracticeSpec, SessionsSpec, CatalogSpec, ResultsSpec

\* ResetRevokesSessions in the deployment: tokens of before a reset start no session after it
\* (auth.service: confirmForgotPassword, assertTokenVersion).
THEOREM PlatformResetsEndSessions == Spec => []ResetRevokesSessions
BY DeploymentServes, ResetEndsSessions, PTL

\* CodeIsSpentOnce in the deployment: a confirmation that begins after the code has set a
\* password sets none (auth.service.confirmForgotPassword).
THEOREM PlatformCodesAreSpentOnce == Spec => []CodeIsSpentOnce
BY DeploymentServes, CodesAreSpentOnce, PTL

\* SessionHasProfile in the deployment: whoever is let in has a profile of the role unless a
\* request that was to create it is unfinished or failed (auth.service.ensureRoleProfile).
THEOREM PlatformSessionsHaveProfiles == Spec => []SessionHasProfile
BY DeploymentServes, SessionsHaveProfiles, PTL

\* No solution is shown of a question before the student's answer to it is graded
\* (guide-submissions.service.getResults).
THEOREM SolutionsFollowGrades == Spec => []SolutionAfterGrade
BY DeploymentServes, ResultsInvariant, PTL

\* The teacher's matrix, and the drawer of a submission, show the last decision of the
\* teacher (guides.service: getResultsMatrix, overrideSubmissionErrorTag).
THEOREM MatrixIsDecided == Spec => []MatrixShowsDecisions
<1>1. RowInv /\ MatrixInv => MatrixShowsDecisions
  BY DecisionsShown
<1> QED
  BY <1>1, DeploymentServes, ResultsInvariant, PTL

\* The common errors of a question count a student once at most (guides.service.getResultsMatrix).
THEOREM StudentsAreCountedOnce == Spec => []StudentsCountOnce
<1>1. ResultsInit => OneCell
  BY DEF ResultsInit, NoMatrix, OneCell
<1>2. ResultsSpec => []OneCell
  BY <1>1, ResultsInvariant, NextCells, PTL DEF ResultsSpec
<1> QED
  BY <1>2, CountedOnce, ResultsInvariant, DeploymentServes, PTL

\* The progress that students and parents see goes back only for a question taken out or for
\* overlapping deliveries, and the parent's count is the student's (guide-submissions.service,
\* parent.service).
THEOREM ProgressIsKept == Spec => ProgressSurvivesRetries
<1>1. ASSUME ResultsTypes, ResultsTypes', RowInv, [ResultsNext]_resultsVars
      PROVE  [ \A s \in Students :
                 /\ ListedGuide(s)'.graded < ListedGuide(s).graded =>
                      \E g \in Graders : RegradesClosedRow(g)
                 /\ ChildsGuide(s)'.graded < ChildsGuide(s).graded =>
                      guide'.approved # guide.approved \/ \E g \in Graders : RegradesClosedRow(g)
                 /\ ChildsGuide(s).graded =
                      Cardinality({q \in guide.approved :
                                     \E id \in DOMAIN Quiz(s)[q] : Quiz(s)[q][id].status = "GRADED"})
             ]_resultsVars
  BY <1>1, StepKeepsProgress
<1> QED
  BY <1>1, DeploymentServes, ResultsInvariant, PTL DEF ResultsSpec, ProgressSurvivesRetries

\* An import that ends well has added every entry and undone no decision, whatever the
\* administrators, the seed and the entries of the same batch do meanwhile.
THEOREM ImportsKeepCuration == Spec => []ImportKeepsCuration
<1>1. CatalogSpec => [](CatalogTypes /\ ImportInv)
  BY InitCatalog, NextCatalogTypes, NextImport, PTL DEF CatalogSpec
<1> QED
  BY <1>1, CurationKept, DeploymentServes, PTL

\* Turning the pages to the end lists no tag twice and misses none that matched throughout,
\* but for one each time a page was asked for with the code of a tag that had left the
\* filter: the query of AdminErrorTagsService.listErrorTags skips one row whatever it finds.
THEOREM ListingsAreComplete == Spec => []ListingIsComplete
<1>1. CatalogSpec => [](CatalogTypes /\ ListingTypes /\ ListingInv)
  BY InitCatalog, InitListing, NextCatalogTypes, NextListing, PTL DEF CatalogSpec
<1> QED
  BY <1>1, ListingDone, DeploymentServes, PTL

\* An assignment made from a recommendation holds exercises of topics whose prerequisites the
\* student has mastered (assignment.service.createRecommended).
THEOREM RecommendedTopicsAreReady == Spec => AssignedTopicsAreReady
<1>1. [PracticeNext]_practiceVars =>
        [\A r \in assigned' \ assigned : r.reason = "PRACTICE_RECOMMENDER" =>
           \A topic \in r.topics : \A t \in Prerequisites[topic] :
             mastery[t] # NoRecord /\ ~Below(mastery[t], <<3, 5>>)]_practiceVars
  BY StepAssignsReady
<1> QED
  BY <1>1, DeploymentServes, PTL DEF PracticeSpec, AssignedTopicsAreReady

\* Whatever the parameters of its topic, 0 and 1 among them, and the answers to it, pKnown on
\* record stays between the chance to learn and 1; and no posterior of a regular topic divides
\* by zero, also once pKnown has been rounded to 1 (mastery.service.applyAttempt).
THEOREM PosteriorsAreDefined == Spec => []PosteriorIsDefined
<1>1. PracticeSpec => []MasteryInv
  BY InitMastery, NextMastery, PTL DEF PracticeSpec
<1> QED
  BY <1>1, PosteriorDefined, DeploymentServes, PTL

\* What parents and teachers are shown moves with the answers, from and to whatever is on record,
\* what has been rounded to 1 included, when the parameters of the topics are strictly between 0
\* and 1 and a wrong first answer lowers, as with the defaults (mastery.service: applyAttempt,
\* getCourseMastery; parent.service).
THEOREM ShownMasteryMoves ==
    ParametersInside /\ WrongAnswersLower => (Spec => ShownMasteryFollowsAnswers)
<1> SUFFICES ASSUME ParametersInside, WrongAnswersLower PROVE Spec => ShownMasteryFollowsAnswers
  OBVIOUS
<1>1. PracticeInit => ShownInv
  BY InitShown
<1>2. PracticeSpec => []ShownInv
  BY <1>1, StepKeepsShown, PTL DEF PracticeSpec
<1>3. ASSUME ShownInv, [PracticeNext]_practiceVars
      PROVE  [\A a \in answers' \ answers : a.sub \in Registered =>
                LET Band(m, u) == UnitBand(m, Parameters, u)
                    CellOf(m, as) == CourseMastery(m, SubOf, as)[a.sub]
                    Domain(m, as) == CourseHeatmap(m, SubOf, DomainOf, as)[DomainOf[a.sub]]
                IN  /\ \A u \in CourseUnits : IF a.right THEN Band(mastery', u) >= Band(mastery, u)
                                                        ELSE Band(mastery', u) <= Band(mastery, u)
                    /\ mastery[a.topic] # NoRecord =>
                         IF a.right
                         THEN /\ ~Below(CellOf(mastery', answers'), CellOf(mastery, answers))
                              /\ ~Below(Domain(mastery', answers'), Domain(mastery, answers))
                         ELSE /\ ~Below(CellOf(mastery, answers), CellOf(mastery', answers'))
                              /\ ~Below(Domain(mastery, answers), Domain(mastery', answers'))
             ]_practiceVars
  BY <1>3, StepShows, Zenon
<1> QED
  BY <1>2, <1>3, DeploymentServes, PTL DEF PracticeSpec, ShownMasteryFollowsAnswers

=============================================================================
