------------------------- MODULE GuideLifecycleProofs -------------------------
(***************************************************************************)
(* Proofs about GuideLifecycle, for every set of requests, questions and   *)
(* students, and however many requests are in flight. The types hold; the  *)
(* assignment a guide points to is the one its questions are linked to;    *)
(* and whatever goes wrong with the status, the assignments or the review  *)
(* of a published guide is the work of a request that overwrote a row      *)
(* which another request had written since it read it.                     *)
(***************************************************************************)
EXTENDS GuideLifecycle, FiniteSetTheorems, TLAPS

-----------------------------------------------------------------------------
(* Types *)

RequestRow ==
  [step : Steps, materialize : SUBSET Questions, roster : SUBSET Students]

\* The rows and requests of the initial state have their types.
LEMMA InitTypes == Init => TypeOK
<1> SUFFICES ASSUME Init PROVE TypeOK
  OBVIOUS
<1>1. guide \in GuideRow
  BY DEF Init, GuideRow, GuideStatuses
<1>2. question \in [Questions -> QuestionRow]
  BY DEF Init, QuestionRow
<1>3. request \in [Requests -> [step : Steps, materialize : SUBSET Questions,
                                roster : SUBSET Students]]
  <2>1. NoSnapshot \in [step : Steps, materialize : SUBSET Questions, roster : SUBSET Students]
    BY DEF NoSnapshot, Steps
  <2> QED
    BY <2>1 DEF Init
<1> QED
  BY <1>1, <1>2, <1>3 DEF Init, TypeOK

\* What the writes, the send and the failure of a request record.
LEMMA NextHistories ==
  ASSUME TypeOK, [Next]_vars
  PROVE  stale' \subseteq Requests /\ overwrote' \subseteq Requests /\ lost' \in BOOLEAN
<1>1. ASSUME NEW r \in Requests, WritesGuide(r)
      PROVE  stale' \subseteq Requests /\ overwrote' \subseteq Requests /\ lost' \in BOOLEAN
  BY <1>1 DEF WritesGuide, Deciding, TypeOK
<1>2. ASSUME NEW r \in Requests, IngestSend(r) \/ RequestFails(r)
      PROVE  stale' \subseteq Requests /\ overwrote' \subseteq Requests /\ lost' \in BOOLEAN
  BY <1>2 DEF IngestSend, RequestFails, TypeOK
<1>3. CASE UNCHANGED histories
  BY <1>3 DEF histories, TypeOK
<1> QED
  BY <1>1, <1>2, <1>3
  DEF Next, vars, Ingest, IngestRead, IngestWrite, Publish, PublishRead, PublishWrite, Archive,
      ArchiveRead, ArchiveWrite, UpdateQuestion, Enroll, Pipeline, ExtractionSucceeds,
      ExtractionFails, StaleMessage, GenerationEnds

\* A request that moves on keeps its snapshot.
LEMMA GotoChange ==
  ASSUME TypeOK, NEW r \in Requests, NEW step \in Steps, Goto(r, step)
  PROVE  /\ request' \in [Requests -> RequestRow]
         /\ request'[r].step = step
         /\ \A s \in Requests \ {r} : request'[s] = request[s]
BY DEF TypeOK, Goto, RequestRow

\* A request that ends keeps nothing.
LEMMA FinishChange ==
  ASSUME TypeOK, NEW r \in Requests, Finish(r)
  PROVE  /\ request' \in [Requests -> RequestRow]
         /\ request'[r].step = "done"
         /\ \A s \in Requests \ {r} : request'[s] = request[s]
BY DEF TypeOK, Finish, RequestRow, NoSnapshot, Steps

\* publish carries questions and students away from its read.
LEMMA PublishReadChange ==
  ASSUME TypeOK, NEW r \in Requests, PublishRead(r)
  PROVE  /\ request' \in [Requests -> RequestRow]
         /\ request'[r].step \in {"done", "publishWrite"}
         /\ request'[r].step = "publishWrite" => Publishable(guide.status)
         /\ \A s \in Requests \ {r} : request'[s] = request[s]
<1>1. CASE Finish(r)
  BY <1>1, FinishChange
<1>2. CASE /\ Publishable(guide.status)
           /\ request' = [request EXCEPT ![r] =
                [step |-> "publishWrite",
                 materialize |-> {q \in Approved : question[q].topic},
                 roster |-> enrolled]]
  <2>1. [step |-> "publishWrite", materialize |-> {q \in Approved : question[q].topic},
         roster |-> enrolled] \in RequestRow
    BY DEF TypeOK, RequestRow, Steps, Approved, Extracted
  <2> QED
    BY <1>2, <2>1 DEF TypeOK, RequestRow
<1> QED
  BY <1>1, <1>2 DEF PublishRead

\* The write of publish: a new assignment, the questions linked to it, the guide
\* pointing to it.
LEMMA PublishWriteChange ==
  ASSUME TypeOK, NEW r \in Requests, PublishWrite(r)
  PROVE  /\ NewAssignment(r) \in AssignmentRow /\ NewAssignment(r).id = r
         /\ assignments' = assignments \union {NewAssignment(r)}
         /\ question' \in [Questions -> QuestionRow]
         /\ \A q \in NewAssignment(r).exercises : question'[q].exercise = r
         /\ \A q \in Questions : /\ question'[q].status = question[q].status
                                 /\ question'[q].topic = question[q].topic
         /\ guide' \in GuideRow
         /\ guide'.status = "PUBLISHED" /\ guide'.assignment = r
         /\ guide'.archivedAt = guide.archivedAt
<1>1. request[r].materialize \subseteq Questions /\ request[r].roster \subseteq Students
  BY DEF TypeOK
<1>2. /\ NewAssignment(r) \in AssignmentRow /\ NewAssignment(r).id = r
      /\ NewAssignment(r).exercises = request[r].materialize
  BY <1>1 DEF NewAssignment, AssignmentRow
<1>3. /\ question' \in [Questions -> QuestionRow]
      /\ \A q \in request[r].materialize : question'[q].exercise = r
      /\ \A q \in Questions : /\ question'[q].status = question[q].status
                              /\ question'[q].topic = question[q].topic
  BY <1>1 DEF PublishWrite, LinkExercises, TypeOK, QuestionRow
<1>4. /\ guide' \in GuideRow
      /\ guide'.status = "PUBLISHED" /\ guide'.assignment = r
      /\ guide'.archivedAt = guide.archivedAt
  BY DEF PublishWrite, PublishedRow, TypeOK, GuideRow, GuideStatuses
<1> QED
  BY <1>2, <1>3, <1>4 DEF PublishWrite

\* Whatever the teacher's review and the pipeline do to the questions, it leaves
\* their links to exercises.
LEMMA QuestionChange ==
  ASSUME TypeOK, (\E q \in Questions : UpdateQuestion(q)) \/ ExtractionSucceeds
  PROVE  /\ question' \in [Questions -> QuestionRow]
         /\ \A q \in Questions : question'[q].exercise = question[q].exercise
<1>1. ASSUME NEW q \in Questions, UpdateQuestion(q)
      PROVE  /\ question' \in [Questions -> QuestionRow]
             /\ \A p \in Questions : question'[p].exercise = question[p].exercise
  <2>1. PICK status \in QuestionStatuses, topic \in BOOLEAN :
          question' = [question EXCEPT ![q].status = status, ![q].topic = topic]
    BY <1>1 DEF UpdateQuestion, Extracted, TypeOK, QuestionRow, QuestionStatuses
  <2> QED
    BY <2>1 DEF TypeOK, QuestionRow
<1>2. CASE ExtractionSucceeds
  <2>1. PICK topical \in SUBSET Questions :
          question' = [q \in Questions |->
            [status |-> "EXTRACTED", topic |-> q \in topical, exercise |-> question[q].exercise]]
    BY <1>2 DEF ExtractionSucceeds
  <2>2. \A q \in Questions : (q \in topical) \in BOOLEAN
    OBVIOUS
  <2> QED
    BY <2>1, <2>2 DEF TypeOK, QuestionRow, QuestionStatuses
<1> QED
  BY <1>1, <1>2

\* The pipeline moves the guide along, and only takes messages from its queue.
LEMMA PipelineChange ==
  ASSUME TypeOK, Pipeline
  PROVE  /\ guide' \in GuideRow /\ ingestQueue' \in Nat
         /\ guide'.assignment = guide.assignment /\ guide'.archivedAt = guide.archivedAt
         /\ \/ guide'.status = guide.status
            \/ /\ guide.status = "EXTRACTING"
               /\ guide'.status \in {"GENERATING_SOLUTIONS", "EXTRACTION_FAILED"}
            \/ /\ guide.status = "GENERATING_SOLUTIONS"
               /\ guide'.status \in {"REVIEW", "GENERATION_FAILED"}
         /\ UNCHANGED <<enrolled, assignments, request>>
         /\ ExtractionSucceeds \/ UNCHANGED question
<1>1. CASE ExtractionSucceeds
  <2>1. /\ guide.status = "EXTRACTING" /\ guide' = [guide EXCEPT !.status = "GENERATING_SOLUTIONS"]
        /\ ingestQueue > 0 /\ ingestQueue' = ingestQueue - 1
        /\ UNCHANGED <<enrolled, assignments, request>>
    BY <1>1 DEF ExtractionSucceeds, TakeMessage
  <2> QED
    BY <1>1, <2>1 DEF TypeOK, GuideRow, GuideStatuses
<1>2. CASE ExtractionFails
  BY <1>2 DEF ExtractionFails, TakeMessage, TypeOK, GuideRow, GuideStatuses
<1>3. CASE StaleMessage
  BY <1>3 DEF StaleMessage, TakeMessage, TypeOK
<1>4. CASE GenerationEnds
  BY <1>4 DEF GenerationEnds, TypeOK, GuideRow, GuideStatuses
<1> QED
  BY <1>1, <1>2, <1>3, <1>4 DEF Pipeline

\* Every action keeps the types.
LEMMA NextTypes == TypeOK /\ [Next]_vars => TypeOK'
<1> SUFFICES ASSUME TypeOK, [Next]_vars PROVE TypeOK'
  OBVIOUS
<1>h. stale' \subseteq Requests /\ overwrote' \subseteq Requests /\ lost' \in BOOLEAN
  BY NextHistories
<1>0. CASE UNCHANGED vars
  BY <1>h, <1>0 DEF vars, TypeOK
<1>1. ASSUME NEW r \in Requests, Ingest(r) PROVE TypeOK'
  <2>1. request' \in [Requests -> RequestRow]
    BY <1>1, GotoChange, FinishChange DEF Ingest, IngestRead, IngestWrite, IngestSend, Steps
  <2>2. guide' \in GuideRow
    BY <1>1 DEF Ingest, IngestRead, IngestWrite, IngestSend, TypeOK, GuideRow, GuideStatuses
  <2>3. ingestQueue' \in Nat
    BY <1>1 DEF Ingest, IngestRead, IngestWrite, IngestSend, TypeOK
  <2>4. UNCHANGED <<question, enrolled, assignments>>
    BY <1>1 DEF Ingest, IngestRead, IngestWrite, IngestSend
  <2> QED
    BY <1>h, <2>1, <2>2, <2>3, <2>4 DEF TypeOK, RequestRow
<1>2. ASSUME NEW r \in Requests, PublishRead(r) PROVE TypeOK'
  <2>1. UNCHANGED <<guide, question, enrolled, assignments, ingestQueue>>
    BY <1>2 DEF PublishRead
  <2> QED
    BY <1>h, <1>2, <2>1, PublishReadChange DEF TypeOK, RequestRow
<1>3. ASSUME NEW r \in Requests, PublishWrite(r) PROVE TypeOK'
  <2>1. Finish(r) /\ UNCHANGED <<enrolled, ingestQueue>>
    BY <1>3 DEF PublishWrite
  <2> QED
    BY <1>h, <1>3, <2>1, FinishChange, PublishWriteChange DEF TypeOK, RequestRow
<1>4. ASSUME NEW r \in Requests, Archive(r) \/ RequestFails(r) PROVE TypeOK'
  <2>1. request' \in [Requests -> RequestRow]
    BY <1>4, GotoChange, FinishChange DEF Archive, ArchiveRead, ArchiveWrite, RequestFails, Steps
  <2>2. guide' \in GuideRow
    BY <1>4 DEF Archive, ArchiveRead, ArchiveWrite, RequestFails, TypeOK, GuideRow, GuideStatuses
  <2>3. UNCHANGED <<question, enrolled, assignments, ingestQueue>>
    BY <1>4 DEF Archive, ArchiveRead, ArchiveWrite, RequestFails
  <2> QED
    BY <1>h, <2>1, <2>2, <2>3 DEF TypeOK, RequestRow
<1>5. ASSUME NEW q \in Questions, UpdateQuestion(q) PROVE TypeOK'
  <2>1. UNCHANGED <<guide, enrolled, assignments, request, ingestQueue>>
    BY <1>5 DEF UpdateQuestion
  <2> QED
    BY <1>h, <1>5, <2>1, QuestionChange DEF TypeOK
<1>6. ASSUME NEW s \in Students, Enroll(s) PROVE TypeOK'
  BY <1>h, <1>6 DEF Enroll, TypeOK
<1>7. CASE Pipeline
  BY <1>h, <1>7, PipelineChange, QuestionChange DEF TypeOK
<1> QED
  BY <1>0, <1>1, <1>2, <1>3, <1>4, <1>5, <1>6, <1>7 DEF Next, Publish

\* TypeOK, for all constants: no interleaving of the teacher's requests with the
\* pipeline leaves a row outside its type.
THEOREM GuideTypeCorrect == Spec => []TypeOK
BY InitTypes, NextTypes, PTL DEF Spec

-----------------------------------------------------------------------------
(* The assignment a guide points to *)

\* A step that leaves the guide's assignment, the assignments and the links of the
\* questions leaves them agreeing.
LEMMA LinkStays ==
  ASSUME TypeOK, CurrentAssignmentLinked, guide'.assignment = guide.assignment,
         assignments' = assignments,
         \A q \in Questions : question'[q].exercise = question[q].exercise
  PROVE  CurrentAssignmentLinked'
<1>1. ASSUME guide.assignment # None
      PROVE  \E a \in assignments :
               /\ a.id = guide.assignment
               /\ \A q \in a.exercises : question'[q].exercise = a.id
  <2>1. PICK a \in assignments : /\ a.id = guide.assignment
                                 /\ \A q \in a.exercises : question[q].exercise = a.id
    BY <1>1 DEF CurrentAssignmentLinked
  <2>2. a.exercises \subseteq Questions
    BY DEF TypeOK, AssignmentRow
  <2> QED
    BY <2>1, <2>2
<1> QED
  BY <1>1 DEF CurrentAssignmentLinked

\* Every action keeps it: publish writes the pointer and the links together, and
\* nothing else writes either.
LEMMA NextLinked == TypeOK /\ CurrentAssignmentLinked /\ [Next]_vars => CurrentAssignmentLinked'
<1> SUFFICES ASSUME TypeOK, CurrentAssignmentLinked, [Next]_vars PROVE CurrentAssignmentLinked'
  OBVIOUS
<1>0. CASE UNCHANGED vars
  BY <1>0, LinkStays DEF vars
<1>1. ASSUME NEW r \in Requests, Ingest(r) \/ PublishRead(r) \/ Archive(r) \/ RequestFails(r)
      PROVE  CurrentAssignmentLinked'
  <2>1. UNCHANGED <<question, assignments>>
    BY <1>1 DEF Ingest, IngestRead, IngestWrite, IngestSend, PublishRead, Archive, ArchiveRead,
                ArchiveWrite, RequestFails
  <2>2. guide'.assignment = guide.assignment
    BY <1>1 DEF Ingest, IngestRead, IngestWrite, IngestSend, PublishRead, Archive, ArchiveRead,
                ArchiveWrite, RequestFails, TypeOK, GuideRow
  <2> QED
    BY <2>1, <2>2, LinkStays
<1>2. ASSUME NEW r \in Requests, PublishWrite(r) PROVE CurrentAssignmentLinked'
  <2>1. PICK a : a = NewAssignment(r)
    OBVIOUS
  <2>2. /\ a \in assignments' /\ a.id = guide'.assignment
        /\ \A q \in a.exercises : question'[q].exercise = a.id
    BY <1>2, <2>1, PublishWriteChange
  <2> QED
    BY <2>2 DEF CurrentAssignmentLinked
<1>3. ASSUME NEW q \in Questions, UpdateQuestion(q) PROVE CurrentAssignmentLinked'
  <2>1. UNCHANGED <<guide, assignments>>
    BY <1>3 DEF UpdateQuestion
  <2> QED
    BY <1>3, <2>1, QuestionChange, LinkStays
<1>4. ASSUME NEW s \in Students, Enroll(s) PROVE CurrentAssignmentLinked'
  BY <1>4, LinkStays DEF Enroll
<1>5. CASE Pipeline
  BY <1>5, PipelineChange, QuestionChange, LinkStays
<1> QED
  BY <1>0, <1>1, <1>2, <1>3, <1>4, <1>5 DEF Next, Publish

\* CurrentAssignmentLinked, for all constants: however many publications overlap,
\* the exercises of the guide's assignment are those its questions are linked to.
THEOREM PublishedGuideIsLinked == Spec => []CurrentAssignmentLinked
<1>1. Init => CurrentAssignmentLinked
  BY DEF Init, CurrentAssignmentLinked
<1>2. Spec => [](TypeOK /\ CurrentAssignmentLinked)
  BY <1>1, InitTypes, NextTypes, NextLinked, PTL DEF Spec
<1> QED
  BY <1>2, PTL

-----------------------------------------------------------------------------
(* The transition table *)

\* What the endpoints ask of the table, and what the pipeline does by it.
LEMMA TransitionTable ==
  /\ \A s \in IngestableStatuses : CanTransition(s, "EXTRACTING")
  /\ \A s \in GuideStatuses : CanTransition(s, "PUBLISHED") <=> s = "REVIEW"
  /\ \A s \in GuideStatuses : CanTransition(s, "ARCHIVED") <=> s # "ARCHIVED"
  /\ \A s \in {"GENERATING_SOLUTIONS", "EXTRACTION_FAILED"} : CanTransition("EXTRACTING", s)
  /\ \A s \in {"REVIEW", "GENERATION_FAILED"} : CanTransition("GENERATING_SOLUTIONS", s)
BY DEF IngestableStatuses, CanTransition, Transitions, GuideStatuses

-----------------------------------------------------------------------------
(* What a request has read, and what happens when it is out of date *)

Reviewed == \A q \in Extracted : Resolved(q)

\* What a request in flight has checked is still true when it writes, unless another
\* request wrote in between, for the pipeline and the teacher's review leave it so: a
\* guide about to be published is reviewed, one about to be extracted may be, one
\* about to be archived is not archived yet.
StillChecked(r) ==
  /\ At(r, "ingestWrite") => guide.status \in IngestableStatuses
  /\ At(r, "archiveWrite") => guide.status # "ARCHIVED"
  /\ At(r, "publishWrite") => guide.status = "REVIEW" /\ Reviewed

FreshInv ==
  /\ \A r \in Requests \ stale : StillChecked(r)
  /\ \A r \in overwrote : request[r].step \in {"ingestSend", "done"}

\* One assignment may still be made, unless the guide is published or archived.
Room == IF guide.status \in {"PUBLISHED", "ARCHIVED"} THEN 0 ELSE 1

\* The review, archivedAt and the assignments follow the status, up to overwrites.
RowsInv ==
  /\ guide.status = "PUBLISHED" /\ guide.assignment \notin overwrote => Reviewed
  /\ overwrote = {} /\ guide.archivedAt => guide.status = "ARCHIVED"
  /\ IsFiniteSet(assignments) /\ IsFiniteSet(overwrote)
  /\ Cardinality(assignments) + Room <= 1 + Cardinality(overwrote)

HistoryInv == FreshInv /\ RowsInv

\* Nothing is in flight yet, and nothing is published.
LEMMA InitHistory == Init => HistoryInv
<1> SUFFICES ASSUME Init PROVE HistoryInv
  OBVIOUS
<1>1. Cardinality(assignments) = 0 /\ Cardinality(overwrote) = 0
      /\ IsFiniteSet(assignments) /\ IsFiniteSet(overwrote)
  BY FS_EmptySet DEF Init
<1>2. FreshInv
  BY DEF Init, FreshInv, StillChecked, At, NoSnapshot
<1> QED
  BY <1>1, <1>2 DEF Init, HistoryInv, RowsInv, Room

\* The numbers that the budget of assignments compares.
LEMMA Budget ==
  ASSUME RowsInv
  PROVE  /\ Cardinality(assignments) \in Nat /\ Cardinality(overwrote) \in Nat
         /\ Room \in {0, 1}
BY FS_CardinalityType DEF RowsInv, Room

\* A step that leaves the guide's row, the assignments and what was overwritten, and
\* undoes no review, leaves the rows as they should be.
LEMMA RowsStay ==
  ASSUME RowsInv, UNCHANGED <<guide, assignments, overwrote>>, Reviewed => Reviewed'
  PROVE  RowsInv'
BY DEF RowsInv, Room

\* Review only resolves questions.
LEMMA ReviewStays ==
  ASSUME TypeOK, Reviewed, NEW q \in Questions, UpdateQuestion(q)
  PROVE  Reviewed'
<1>1. PICK status \in QuestionStatuses, topic \in BOOLEAN :
        /\ question' = [question EXCEPT ![q].status = status, ![q].topic = topic]
        /\ status \in {question[q].status, "APPROVED", "EXCLUDED"}
  BY DEF UpdateQuestion, Extracted, TypeOK, QuestionRow, QuestionStatuses
<1>2. /\ question'[q].status \in {question[q].status, "APPROVED", "EXCLUDED"}
      /\ \A p \in Questions \ {q} : question'[p] = question[p]
  BY <1>1 DEF TypeOK, QuestionRow
<1>3. question[q].status # None
  BY DEF UpdateQuestion, Extracted
<1> QED
  BY <1>2, <1>3 DEF Reviewed, Extracted, Resolved

\* A request that reads, fails or sends: what it takes away from its read is true now.
LEMMA OwnStepKeeps ==
  ASSUME TypeOK, HistoryInv, NEW r \in Requests,
         IngestRead(r) \/ PublishRead(r) \/ ArchiveRead(r) \/ RequestFails(r) \/ IngestSend(r)
  PROVE  HistoryInv'
<1> USE DEF HistoryInv
<1>1. UNCHANGED <<guide, question, assignments, overwrote>>
  BY DEF IngestRead, PublishRead, ArchiveRead, RequestFails, IngestSend, histories
<1>2. Reviewed => Reviewed'
  BY <1>1 DEF Reviewed, Extracted, Resolved
<1>3. RowsInv'
  BY <1>1, <1>2, RowsStay
<1>4. /\ \A s \in Requests \ {r} : request'[s] = request[s]
      /\ StillChecked(r)'
      /\ stale \ {r} \subseteq stale'
      /\ request'[r].step \in {"ingestSend", "done"} \/ request[r].step = "idle"
  <2>1. CASE IngestRead(r)
    <3>1. CASE Finish(r)
      BY <1>1, <2>1, <3>1, FinishChange DEF IngestRead, StillChecked, At, histories
    <3>2. CASE guide.status \in IngestableStatuses /\ Goto(r, "ingestWrite")
      BY <1>1, <2>1, <3>2, GotoChange DEF IngestRead, MayStart, StillChecked, At, Steps, histories
    <3> QED
      BY <2>1, <3>1, <3>2 DEF IngestRead
  <2>2. CASE PublishRead(r)
    <3>1. request'[r].step = "publishWrite" => guide.status = "REVIEW" /\ Reviewed
      BY <2>2, PublishReadChange, TransitionTable DEF Publishable, Reviewed, TypeOK, GuideRow
    <3>2. request'[r].step \in {"done", "publishWrite"}
      BY <2>2, PublishReadChange
    <3>3. StillChecked(r)'
      BY <1>1, <1>2, <3>1, <3>2 DEF StillChecked, At
    <3> QED
      BY <2>2, <3>3, PublishReadChange DEF PublishRead, MayStart, histories
  <2>3. CASE ArchiveRead(r)
    <3>1. CASE Finish(r)
      BY <1>1, <2>3, <3>1, FinishChange DEF ArchiveRead, StillChecked, At, histories
    <3>2. CASE CanTransition(guide.status, "ARCHIVED") /\ Goto(r, "archiveWrite")
      <4>1. guide.status # "ARCHIVED"
        BY <3>2, TransitionTable DEF TypeOK, GuideRow
      <4> QED
        BY <1>1, <2>3, <3>2, <4>1, GotoChange
           DEF ArchiveRead, MayStart, StillChecked, At, Steps, histories
    <3> QED
      BY <2>3, <3>1, <3>2 DEF ArchiveRead
  <2>4. CASE RequestFails(r) \/ IngestSend(r)
    <3>1. Finish(r)
      BY <2>4 DEF RequestFails, IngestSend
    <3> QED
      BY <2>4, <3>1, FinishChange DEF RequestFails, IngestSend, StillChecked, At
  <2> QED
    BY <2>1, <2>2, <2>3, <2>4
<1>5. \A s \in Requests \ stale' : StillChecked(s)'
  BY <1>1, <1>2, <1>4 DEF FreshInv, StillChecked, At
<1>6. \A s \in overwrote' : request'[s].step \in {"ingestSend", "done"}
  BY <1>1, <1>4 DEF FreshInv, TypeOK
<1> QED
  BY <1>3, <1>5, <1>6 DEF FreshInv

\* A request that writes: those about to write are out of date from now on, and its
\* own write is an overwrite if another one came before it.
LEMMA WriteRecorded ==
  ASSUME TypeOK, HistoryInv, NEW r \in Requests, r \in Deciding, WritesGuide(r),
         request'[r].step \in {"ingestSend", "done"},
         \A s \in Requests \ {r} : request'[s] = request[s]
  PROVE  /\ FreshInv' /\ IsFiniteSet(overwrote')
         /\ Cardinality(overwrote) \in Nat /\ Cardinality(overwrote') \in Nat
         /\ overwrote \subseteq overwrote'
         /\ \/ r \notin stale /\ StillChecked(r) /\ overwrote' = overwrote
            \/ /\ r \in overwrote' /\ overwrote' # overwrote
               /\ Cardinality(overwrote') = Cardinality(overwrote) + 1
<1> USE DEF HistoryInv
<1>1. r \notin overwrote
  BY DEF FreshInv, Deciding
<1>2. FreshInv'
  <2>1. \A s \in Requests \ stale' : request'[s].step \notin {"ingestWrite", "publishWrite", "archiveWrite"}
    BY DEF WritesGuide, Deciding
  <2>2. \A s \in Requests \ stale' : StillChecked(s)'
    BY <2>1 DEF StillChecked, At
  <2>3. \A s \in overwrote' : request'[s].step \in {"ingestSend", "done"}
    BY DEF WritesGuide, FreshInv, TypeOK
  <2> QED
    BY <2>2, <2>3 DEF FreshInv
<1>3. IsFiniteSet(overwrote) /\ Cardinality(overwrote) \in Nat
  BY FS_CardinalityType DEF RowsInv
<1>4. CASE r \in stale
  <2>1. overwrote' = overwrote \union {r}
    BY <1>4 DEF WritesGuide
  <2> QED
    BY <1>1, <1>2, <1>3, <2>1, FS_AddElement
<1>5. CASE r \notin stale
  BY <1>2, <1>3, <1>5 DEF WritesGuide, FreshInv
<1> QED
  BY <1>4, <1>5

\* The three writes keep the rows within what was overwritten.
LEMMA WriteKeeps ==
  ASSUME TypeOK, HistoryInv, NEW r \in Requests,
         IngestWrite(r) \/ PublishWrite(r) \/ ArchiveWrite(r)
  PROVE  HistoryInv'
<1> USE DEF HistoryInv
<1>1. /\ r \in Deciding /\ WritesGuide(r)
      /\ request'[r].step \in {"ingestSend", "done"}
      /\ \A s \in Requests \ {r} : request'[s] = request[s]
  BY GotoChange, FinishChange DEF IngestWrite, PublishWrite, ArchiveWrite, At, Deciding, Steps
<1>2. /\ FreshInv' /\ IsFiniteSet(overwrote')
      /\ Cardinality(overwrote) \in Nat /\ Cardinality(overwrote') \in Nat
      /\ overwrote \subseteq overwrote'
      /\ \/ r \notin stale /\ StillChecked(r) /\ overwrote' = overwrote
         \/ /\ r \in overwrote' /\ overwrote' # overwrote
            /\ Cardinality(overwrote') = Cardinality(overwrote) + 1
  BY <1>1, WriteRecorded
<1>3. /\ Cardinality(assignments) \in Nat /\ Room \in {0, 1} /\ IsFiniteSet(assignments)
      /\ Cardinality(assignments) + Room <= 1 + Cardinality(overwrote)
  BY Budget DEF RowsInv
<1>4. CASE IngestWrite(r)
  <2>1. /\ UNCHANGED <<question, assignments>> /\ guide'.archivedAt = guide.archivedAt
        /\ guide'.status = "EXTRACTING" /\ At(r, "ingestWrite")
    BY <1>4 DEF IngestWrite, TypeOK, GuideRow
  <2>2. Room' = 1
    BY <2>1 DEF Room
  <2>3. overwrote' = overwrote => guide.status \in IngestableStatuses
    BY <1>2, <2>1 DEF StillChecked
  <2>4. Cardinality(assignments') + Room' <= 1 + Cardinality(overwrote')
    <3>1. guide.status \in IngestableStatuses => Room = 1
      BY DEF Room, IngestableStatuses
    <3> QED
      BY <1>2, <1>3, <2>1, <2>2, <2>3, <3>1
  <2>5. overwrote' # {} \/ ~guide'.archivedAt
    BY <1>2, <2>1, <2>3 DEF RowsInv, IngestableStatuses
  <2> QED
    BY <1>2, <1>3, <2>1, <2>4, <2>5 DEF RowsInv
<1>5. CASE PublishWrite(r)
  <2>1. /\ guide'.status = "PUBLISHED" /\ guide'.assignment = r
        /\ guide'.archivedAt = guide.archivedAt /\ At(r, "publishWrite")
        /\ assignments' = assignments \union {NewAssignment(r)}
        /\ \A q \in Questions : question'[q].status = question[q].status
    BY <1>5, PublishWriteChange DEF PublishWrite
  <2>2. Room' = 0
    BY <2>1 DEF Room
  <2>3. overwrote' = overwrote => guide.status = "REVIEW" /\ Reviewed
    BY <1>2, <2>1 DEF StillChecked
  <2>4. /\ IsFiniteSet(assignments') /\ Cardinality(assignments') \in Nat
        /\ Cardinality(assignments') <= Cardinality(assignments) + 1
    <3>1. PICK a : a = NewAssignment(r)
      OBVIOUS
    <3>2. /\ IsFiniteSet(assignments \union {a})
          /\ Cardinality(assignments \union {a}) \in {Cardinality(assignments), Cardinality(assignments) + 1}
      BY <1>3, FS_AddElement
    <3> QED
      BY <1>3, <2>1, <3>1, <3>2
  <2>5. Cardinality(assignments') + Room' <= 1 + Cardinality(overwrote')
    <3>1. guide.status = "REVIEW" => Room = 1
      BY DEF Room
    <3> QED
      BY <1>2, <1>3, <2>2, <2>3, <2>4, <3>1
  <2>6. r \in overwrote' \/ Reviewed'
    BY <1>2, <2>1, <2>3 DEF Reviewed, Extracted, Resolved
  <2>7. overwrote' # {} \/ ~guide'.archivedAt
    BY <1>2, <2>1, <2>3 DEF RowsInv
  <2> QED
    BY <1>2, <2>1, <2>4, <2>5, <2>6, <2>7 DEF RowsInv
<1>6. CASE ArchiveWrite(r)
  <2>1. UNCHANGED <<question, assignments>> /\ guide'.status = "ARCHIVED"
    BY <1>6 DEF ArchiveWrite, TypeOK, GuideRow
  <2>2. Cardinality(assignments') + Room' <= 1 + Cardinality(overwrote')
    BY <1>2, <1>3, <2>1 DEF Room
  <2> QED
    BY <1>2, <1>3, <2>1, <2>2 DEF RowsInv
<1> QED
  BY <1>4, <1>5, <1>6

\* The pipeline moves no guide that a request has found ready to write.
LEMMA PipelineKeeps ==
  ASSUME TypeOK, HistoryInv, Pipeline
  PROVE  HistoryInv'
<1> USE DEF HistoryInv
<1>1. UNCHANGED <<request, assignments, histories>>
  BY PipelineChange DEF Pipeline, ExtractionSucceeds, ExtractionFails, StaleMessage, GenerationEnds
<1>2. UNCHANGED <<stale, overwrote>>
  BY <1>1 DEF histories
<1>3. CASE guide'.status = guide.status /\ UNCHANGED question
  <2>1. Reviewed => Reviewed'
    BY <1>3 DEF Reviewed, Extracted, Resolved
  <2>2. FreshInv'
    BY <1>1, <1>2, <1>3, <2>1 DEF FreshInv, StillChecked, At
  <2> QED
    BY <1>1, <1>2, <1>3, <2>1, <2>2, PipelineChange DEF RowsInv, Room
<1>4. CASE /\ guide.status \in {"EXTRACTING", "GENERATING_SOLUTIONS"}
           /\ guide'.status \in {"GENERATING_SOLUTIONS", "EXTRACTION_FAILED", "REVIEW",
                                 "GENERATION_FAILED"}
  <2>1. \A r \in Requests \ stale : ~At(r, "ingestWrite") /\ ~At(r, "publishWrite")
    BY <1>4 DEF FreshInv, StillChecked, IngestableStatuses
  <2>2. FreshInv'
    BY <1>1, <1>2, <1>4, <2>1 DEF FreshInv, StillChecked, At
  <2>3. RowsInv'
    BY <1>1, <1>2, <1>4, PipelineChange DEF RowsInv, Room
  <2> QED
    BY <2>2, <2>3
<1>5. guide'.status = guide.status => UNCHANGED question
  BY PipelineChange DEF ExtractionSucceeds, TypeOK, GuideRow
<1> QED
  BY <1>3, <1>4, <1>5, PipelineChange

\* Every action keeps it.
LEMMA NextHistory == TypeOK /\ HistoryInv /\ [Next]_vars => HistoryInv'
<1> SUFFICES ASSUME TypeOK, HistoryInv, [Next]_vars PROVE HistoryInv'
  OBVIOUS
<1>1. CASE UNCHANGED vars
  BY <1>1 DEF vars, histories, HistoryInv, FreshInv, RowsInv, Room, StillChecked, Reviewed,
              Extracted, Resolved, At
<1>2. ASSUME NEW q \in Questions, UpdateQuestion(q) PROVE HistoryInv'
  <2>1. UNCHANGED <<guide, assignments, request, stale, overwrote>>
    BY <1>2 DEF UpdateQuestion, histories
  <2>2. Reviewed => Reviewed'
    BY <1>2, ReviewStays
  <2>3. FreshInv'
    BY <2>1, <2>2 DEF HistoryInv, FreshInv, StillChecked, At
  <2> QED
    BY <2>1, <2>2, <2>3, RowsStay DEF HistoryInv
<1>3. ASSUME NEW s \in Students, Enroll(s) PROVE HistoryInv'
  <2>1. UNCHANGED <<guide, question, assignments, request, stale, overwrote>>
    BY <1>3 DEF Enroll, histories
  <2> QED
    BY <2>1 DEF HistoryInv, FreshInv, RowsInv, Room, StillChecked, Reviewed, Extracted, Resolved, At
<1> QED
  BY <1>1, <1>2, <1>3, OwnStepKeeps, WriteKeeps, PipelineKeeps DEF Next, Ingest, Publish, Archive

\* All behaviours satisfy it.
LEMMA HistoryAlways == Spec => [](TypeOK /\ HistoryInv)
BY InitTypes, NextTypes, InitHistory, NextHistory, PTL DEF Spec

\* OneAssignmentPerGuide, for all sets of requests, questions and students and any
\* number of requests in flight: each assignment beyond the first is paid for by a
\* request that overwrote another's write.
THEOREM OneAssignment == Spec => []OneAssignmentPerGuide
<1>1. HistoryInv => OneAssignmentPerGuide
  BY Budget DEF HistoryInv, RowsInv, OneAssignmentPerGuide
<1> QED
  BY <1>1, HistoryAlways, PTL

\* PublishedIsResolved, likewise: the review that publish checked before its
\* transaction still holds in it and after it unless the publication was stale, and
\* the guide is listed unless something was overwritten.
THEOREM PublishedIsReviewed == Spec => []PublishedIsResolved
<1>1. HistoryInv => PublishedIsResolved
  BY DEF HistoryInv, RowsInv, PublishedIsResolved, Listed, Reviewed, Extracted
<1> QED
  BY <1>1, HistoryAlways, PTL

\* OnlyOverwritesLeaveTable, likewise: the status an endpoint writes is one that the
\* table allows from the status that is there, unless the endpoint overwrites a row
\* that another request wrote after it had been checked.
THEOREM StatusIsOrderly == Spec => OnlyOverwritesLeaveTable
<1>1. TypeOK /\ HistoryInv /\ [Next]_vars =>
        [\/ guide'.status = guide.status
         \/ guide'.status \in Transitions[guide.status]
         \/ overwrote' # overwrote]_vars
  <2> SUFFICES ASSUME TypeOK, HistoryInv, [Next]_vars,
                      guide'.status # guide.status, overwrote' = overwrote
               PROVE  CanTransition(guide.status, guide'.status)
    BY DEF CanTransition
  <2>0. guide.status \in GuideStatuses
    BY DEF TypeOK, GuideRow
  <2>1. ASSUME NEW r \in Requests, IngestWrite(r) \/ PublishWrite(r) \/ ArchiveWrite(r)
        PROVE  StillChecked(r)
    <3>1. /\ r \in Deciding /\ WritesGuide(r)
          /\ request'[r].step \in {"ingestSend", "done"}
          /\ \A s \in Requests \ {r} : request'[s] = request[s]
      BY <2>1, GotoChange, FinishChange
         DEF IngestWrite, PublishWrite, ArchiveWrite, At, Deciding, Steps
    <3> QED
      BY <3>1, WriteRecorded
  <2>2. CASE \E r \in Requests : IngestWrite(r)
    BY <2>1, <2>2, TransitionTable DEF IngestWrite, StillChecked, TypeOK, GuideRow
  <2>3. CASE \E r \in Requests : PublishWrite(r)
    BY <2>0, <2>1, <2>3, PublishWriteChange, TransitionTable DEF PublishWrite, StillChecked
  <2>4. CASE \E r \in Requests : ArchiveWrite(r)
    BY <2>0, <2>1, <2>4, TransitionTable DEF ArchiveWrite, StillChecked, TypeOK, GuideRow
  <2>5. CASE Pipeline
    BY <2>5, PipelineChange, TransitionTable
  <2> QED
    BY <2>2, <2>3, <2>4, <2>5
    DEF Next, vars, Ingest, IngestRead, IngestSend, Publish, PublishRead, Archive, ArchiveRead,
        RequestFails, UpdateQuestion, Enroll
<1> QED
  BY <1>1, HistoryAlways, PTL DEF Spec, OnlyOverwritesLeaveTable

=============================================================================
