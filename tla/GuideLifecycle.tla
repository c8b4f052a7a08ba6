---------------------------- MODULE GuideLifecycle ----------------------------
(***************************************************************************)
(* One guide (a PDF of exercises a teacher uploads) from UPLOADED to       *)
(* ARCHIVED, as GuidesService drives it.                                   *)
(*                                                                         *)
(* Every endpoint that moves the guide reads the row, decides on what it   *)
(* read, and writes it later with an unconditional UPDATE. Nothing locks   *)
(* the row in between, so an endpoint is a read action and a write action  *)
(* (and, for ingest, the send to SQS), and the endpoints of several        *)
(* requests interleave. The extraction and generation pipeline is another  *)
(* program (innova-ai-engine): it is modelled from what this code sends it *)
(* and from the statuses it is expected to set, and is assumed to honour   *)
(* the transition table.                                                   *)
(***************************************************************************)
EXTENDS Naturals, FiniteSets

CONSTANTS
  Requests,     \* teacher requests: each one runs a single endpoint once
  Questions,    \* the questions of the PDF
  Students,     \* the students who may join the course
  Concurrency,  \* bound: how many of the requests may be in flight at once
  None          \* the null of the database columns

ASSUME GuideAssumption ==
  /\ Concurrency \in Nat \ {0}
  /\ None \notin Requests
  /\ None \notin {"EXTRACTED", "APPROVED", "EXCLUDED"}

VARIABLES
  guide,        \* the guides row: status, assignment, whether archivedAt is set
  question,     \* the guide_questions rows: status, topic, exercise
  enrolled,     \* students whose enrollment in the course is ACTIVE
  assignments,  \* the assignments rows made by publish, with what hangs of them
  request,      \* per request: the step it is at and what it has read
  ingestQueue,  \* number of messages in guide-ingest-queue
  stale,        \* history: requests about to write a guide row that another request
                \* has written since they read it
  overwrote,    \* history: requests that wrote the guide row while stale
  lost          \* history: a message was not sent, by a refusal or a dead Lambda

histories == <<stale, overwrote, lost>>

vars == <<guide, question, enrolled, assignments, request, ingestQueue, histories>>

-----------------------------------------------------------------------------
(* The state machine of guide-state-machine.ts *)

GuideStatuses ==
  {"UPLOADED", "EXTRACTING", "EXTRACTION_FAILED", "GENERATING_SOLUTIONS",
   "GENERATION_FAILED", "REVIEW", "PUBLISHED", "ARCHIVED"}

Transitions ==
  [UPLOADED             |-> {"EXTRACTING", "ARCHIVED"},
   EXTRACTING           |-> {"GENERATING_SOLUTIONS", "EXTRACTION_FAILED", "ARCHIVED"},
   EXTRACTION_FAILED    |-> {"EXTRACTING", "ARCHIVED"},
   GENERATING_SOLUTIONS |-> {"REVIEW", "GENERATION_FAILED", "ARCHIVED"},
   GENERATION_FAILED    |-> {"EXTRACTING", "GENERATING_SOLUTIONS", "ARCHIVED"},
   REVIEW               |-> {"PUBLISHED", "GENERATING_SOLUTIONS", "ARCHIVED"},
   PUBLISHED            |-> {"ARCHIVED"},
   ARCHIVED             |-> {}]

CanTransitionUnchecked(from, to) == TRUE

CanTransition(from, to) == to \in Transitions[from]

IngestableStatuses == {"UPLOADED", "EXTRACTION_FAILED", "GENERATION_FAILED"}

InFlightStatuses == {"EXTRACTING", "GENERATING_SOLUTIONS"}

-----------------------------------------------------------------------------
(* Rows and requests *)

\* EXTRACTED also stands for NEEDS_REVIEW: the code asks only whether the
\* teacher has resolved the question. None: the question is not extracted yet.
QuestionStatuses == {"EXTRACTED", "APPROVED", "EXCLUDED"}

GuideRow ==
  [status : GuideStatuses, assignment : Requests \union {None}, archivedAt : BOOLEAN]

QuestionRow ==
  [status : QuestionStatuses \union {None}, topic : BOOLEAN, exercise : Requests \union {None}]

\* The id of an assignment is the request whose publish created it; an exercise
\* is identified by the question and the assignment it was materialised for, so
\* question[q].exercise holds the assignment.
AssignmentRow ==
  [id : Requests, targets : SUBSET Students, exercises : SUBSET Questions]

Steps ==
  {"idle", "ingestWrite", "ingestSend", "publishWrite", "archiveWrite", "done"}

\* What a request carries across its await: publish keeps the questions it will
\* materialise and the roster it will assign to.
NoSnapshot == [step |-> "idle", materialize |-> {}, roster |-> {}]

InFlight == {r \in Requests : request[r].step \notin {"idle", "done"}}

MayStart(r) == request[r].step = "idle" /\ Cardinality(InFlight) < Concurrency

At(r, step) == request[r].step = step

Goto(r, step) == request' = [request EXCEPT ![r].step = step]

\* A request that has answered keeps nothing.
Finish(r) == request' = [request EXCEPT ![r] = [NoSnapshot EXCEPT !.step = "done"]]

Deciding == {r \in Requests : request[r].step \in {"ingestWrite", "publishWrite", "archiveWrite"}}

\* What the write of a request records: it overwrites what it has not read, or it
\* makes out of date what the requests about to write have read.
WritesGuide(r) ==
  /\ stale' = (stale \union Deciding) \ {r}
  /\ overwrote' = IF r \in stale THEN overwrote \union {r} ELSE overwrote
  /\ UNCHANGED lost

Resolved(q) == question[q].status \in {"APPROVED", "EXCLUDED"}

Extracted == {q \in Questions : question[q].status # None}

Approved == {q \in Extracted : question[q].status = "APPROVED"}

Init ==
  /\ guide = [status |-> "UPLOADED", assignment |-> None, archivedAt |-> FALSE]
  /\ question = [q \in Questions |-> [status |-> None, topic |-> FALSE, exercise |-> None]]
  /\ enrolled = {}
  /\ assignments = {}
  /\ request = [r \in Requests |-> NoSnapshot]
  /\ ingestQueue = 0
  /\ stale = {} /\ overwrote = {} /\ lost = FALSE

-----------------------------------------------------------------------------
(* ingest: read the status; write EXTRACTING; send the message *)

IngestRead(r) ==
  /\ MayStart(r)
  /\ \/ /\ guide.status \in InFlightStatuses          \* idempotent no-op
        /\ Finish(r)
     \/ /\ guide.status \notin InFlightStatuses
        /\ ~ (guide.status \in IngestableStatuses /\ CanTransition(guide.status, "EXTRACTING"))
        /\ Finish(r)                             \* 400
     \/ /\ guide.status \in IngestableStatuses
        /\ CanTransition(guide.status, "EXTRACTING")
        /\ Goto(r, "ingestWrite")
  /\ UNCHANGED <<guide, question, enrolled, assignments, ingestQueue, histories>>

IngestWrite(r) ==
  /\ At(r, "ingestWrite")
  /\ guide' = [guide EXCEPT !.status = "EXTRACTING"]
  /\ Goto(r, "ingestSend")
  /\ WritesGuide(r)
  /\ UNCHANGED <<question, enrolled, assignments, ingestQueue>>

\* publishStandard returns normally whether or not SQS took the message; a
\* Lambda that dies before the send loses it too.
IngestSend(r) ==
  /\ At(r, "ingestSend")
  /\ \/ ingestQueue' = ingestQueue + 1 /\ UNCHANGED lost
     \/ lost' = TRUE /\ UNCHANGED ingestQueue
  /\ Finish(r)
  /\ UNCHANGED <<guide, question, enrolled, assignments, stale, overwrote>>

\* Broken variant: the message is sent first and the status written afterwards.
IngestSendFirst(r) ==
  \/ IngestRead(r)
  \/ /\ At(r, "ingestWrite")
     /\ ingestQueue' = ingestQueue + 1
     /\ Goto(r, "ingestSend")
     /\ UNCHANGED <<guide, question, enrolled, assignments, histories>>
  \/ /\ At(r, "ingestSend")
     /\ guide' = [guide EXCEPT !.status = "EXTRACTING"]
     /\ Finish(r)
     /\ WritesGuide(r)
     /\ UNCHANGED <<question, enrolled, assignments, ingestQueue>>

Ingest(r) == IngestRead(r) \/ IngestWrite(r) \/ IngestSend(r)

-----------------------------------------------------------------------------
(* publish: read guide, questions and roster; then one transaction that     *)
(* trusts all of it                                                        *)

\* Broken variant: unresolved questions do not block the publication.
PublishableUnresolved(status) ==
  /\ CanTransition(status, "PUBLISHED")
  /\ Approved # {}

Publishable(status) ==
  /\ CanTransition(status, "PUBLISHED")
  /\ \A q \in Extracted : Resolved(q)
  /\ Approved # {}

PublishRead(r) ==
  /\ MayStart(r)
  /\ \/ /\ ~Publishable(guide.status)
        /\ Finish(r)                             \* 400 or 409
     \/ /\ Publishable(guide.status)
        /\ request' = [request EXCEPT ![r] =
             [step |-> "publishWrite",
              materialize |-> {q \in Approved : question[q].topic},
              roster |-> enrolled]]
  /\ UNCHANGED <<guide, question, enrolled, assignments, ingestQueue, histories>>

NewAssignment(r) ==
  [id |-> r, targets |-> request[r].roster, exercises |-> request[r].materialize]

LinkExercises(r) ==
  [q \in Questions |-> IF q \in request[r].materialize
                       THEN [question[q] EXCEPT !.exercise = r]
                       ELSE question[q]]

\* Broken variant: the guide is not flipped to PUBLISHED.
PublishedRowNotFlipped(r) == [guide EXCEPT !.assignment = r]

\* Broken variant: an assignment already on the guide is kept.
PublishedRowKeepsFirst(r) ==
  [guide EXCEPT !.status = "PUBLISHED", !.assignment = IF @ = None THEN r ELSE @]

PublishedRow(r) == [guide EXCEPT !.status = "PUBLISHED", !.assignment = r]

PublishWrite(r) ==
  /\ At(r, "publishWrite")
  /\ assignments' = assignments \union {NewAssignment(r)}
  /\ question' = LinkExercises(r)
  /\ guide' = PublishedRow(r)
  /\ Finish(r)
  /\ WritesGuide(r)
  /\ UNCHANGED <<enrolled, ingestQueue>>

-----------------------------------------------------------------------------
(* archive: read the status; write ARCHIVED                                *)

ArchiveRead(r) ==
  /\ MayStart(r)
  /\ IF CanTransition(guide.status, "ARCHIVED") THEN Goto(r, "archiveWrite") ELSE Finish(r)
  /\ UNCHANGED <<guide, question, enrolled, assignments, ingestQueue, histories>>

ArchiveWrite(r) ==
  /\ At(r, "archiveWrite")
  /\ guide' = [guide EXCEPT !.status = "ARCHIVED", !.archivedAt = TRUE]
  /\ Finish(r)
  /\ WritesGuide(r)
  /\ UNCHANGED <<question, enrolled, assignments, ingestQueue>>

-----------------------------------------------------------------------------
(* A request whose write fails: the database is out of reach or the Lambda    *)
(* dies. Nothing is written, publish's transaction is rolled back.           *)

RequestFails(r) ==
  /\ r \in Deciding
  /\ Finish(r)
  /\ stale' = stale \ {r}
  /\ UNCHANGED <<guide, question, enrolled, assignments, ingestQueue, overwrote, lost>>

-----------------------------------------------------------------------------
(* updateQuestion and joinWithCode: one row each, whatever the guide status *)

\* The teacher may resolve the question, confirm its topic, or both; a status
\* back to EXTRACTED or NEEDS_REVIEW is refused by the DTO.
UpdateQuestion(q) ==
  /\ q \in Extracted
  /\ \E status \in {question[q].status, "APPROVED", "EXCLUDED"},
        topic \in {question[q].topic, TRUE} :
       question' = [question EXCEPT ![q].status = status, ![q].topic = topic]
  /\ UNCHANGED <<guide, enrolled, assignments, request, ingestQueue, histories>>

Enroll(s) ==
  /\ enrolled' = enrolled \union {s}
  /\ UNCHANGED <<guide, question, assignments, request, ingestQueue, histories>>

-----------------------------------------------------------------------------
(* The pipeline of innova-ai-engine (external)                             *)

TakeMessage == ingestQueue > 0 /\ ingestQueue' = ingestQueue - 1

\* Extraction writes one row per question; a re-extraction writes them again
\* and leaves the exercise link alone.
ExtractionSucceeds ==
  /\ guide.status = "EXTRACTING"
  /\ TakeMessage
  /\ guide' = [guide EXCEPT !.status = "GENERATING_SOLUTIONS"]
  /\ \E topical \in SUBSET Questions :
       question' = [q \in Questions |->
         [status |-> "EXTRACTED", topic |-> q \in topical, exercise |-> question[q].exercise]]
  /\ UNCHANGED <<enrolled, assignments, request, histories>>

ExtractionFails ==
  /\ guide.status = "EXTRACTING"
  /\ TakeMessage
  /\ guide' = [guide EXCEPT !.status = "EXTRACTION_FAILED"]
  /\ UNCHANGED <<question, enrolled, assignments, request, histories>>

\* A message for a guide that is not waiting for extraction changes nothing.
StaleMessage ==
  /\ guide.status # "EXTRACTING"
  /\ TakeMessage
  /\ UNCHANGED <<guide, question, enrolled, assignments, request, histories>>

GenerationEnds ==
  /\ guide.status = "GENERATING_SOLUTIONS"
  /\ \E status \in {"REVIEW", "GENERATION_FAILED"} :
       guide' = [guide EXCEPT !.status = status]
  /\ UNCHANGED <<question, enrolled, assignments, request, ingestQueue, histories>>

Pipeline == ExtractionSucceeds \/ ExtractionFails \/ StaleMessage \/ GenerationEnds

-----------------------------------------------------------------------------

\* What the teacher's list shows, whatever the status.
Listed == ~guide.archivedAt

Publish(r) == PublishRead(r) \/ PublishWrite(r)

Archive(r) == ArchiveRead(r) \/ ArchiveWrite(r)

Next ==
  \/ \E r \in Requests : Ingest(r) \/ Publish(r) \/ Archive(r) \/ RequestFails(r)
  \/ \E q \in Questions : UpdateQuestion(q)
  \/ \E s \in Students : Enroll(s)
  \/ Pipeline

\* A request that has started runs to its end, and the pipeline works through
\* its queue. Nobody has to send a request, review a question or join.
Continue(r) == ~At(r, "idle") /\ (Ingest(r) \/ Publish(r) \/ Archive(r))

Fairness ==
  /\ \A r \in Requests : WF_vars(Continue(r))
  /\ WF_vars(Pipeline)

Spec == Init /\ [][Next]_vars

FairSpec == Spec /\ Fairness

-----------------------------------------------------------------------------
(* Properties *)

\* Every row has its type; a request's snapshot names questions and students.
TypeOK ==
  /\ guide \in GuideRow
  /\ question \in [Questions -> QuestionRow]
  /\ enrolled \subseteq Students
  /\ assignments \subseteq AssignmentRow
  /\ request \in [Requests -> [step : Steps, materialize : SUBSET Questions,
                               roster : SUBSET Students]]
  /\ ingestQueue \in Nat
  /\ stale \subseteq Requests /\ overwrote \subseteq Requests /\ lost \in BOOLEAN

\* What guide-state-machine.ts and its spec say: the guide only ever moves along the
\* transition table, so ARCHIVED is terminal and PUBLISHED is reached from REVIEW
\* alone.
StatusFollowsTransitions ==
  [][guide'.status # guide.status => guide'.status \in Transitions[guide.status]]_vars

\* What the code does: each endpoint checks the table on a status it read before an
\* await. The guide leaves the table only in the step of a request that overwrites a
\* row which another request wrote in between; the pipeline, the review of questions
\* and failed requests, however they interleave, never take it there.
OnlyOverwritesLeaveTable ==
  [][\/ guide'.status = guide.status
     \/ guide'.status \in Transitions[guide.status]
     \/ overwrote' # overwrote]_vars

\* A guide becomes one assignment, however often it is published, re-ingested and
\* archived; every assignment beyond the first (a second target of the same guide for
\* its students) is paid for by a request that overwrote what another one wrote:
\* overlapping publications, or a late ingest that reopens a published guide.
OneAssignmentPerGuide == Cardinality(assignments) <= 1 + Cardinality(overwrote)

\* What students can see is reviewed, and its teacher can see it too. publish checks
\* the questions on rows it read before its transaction, and leaves archivedAt, by
\* which the list goes, as it is. While the guide is PUBLISHED no question of it is
\* unresolved, unless the very request that published it was stale; and it is in the
\* list, unless some request has overwritten another's write.
PublishedIsResolved ==
  guide.status = "PUBLISHED" =>
    /\ overwrote = {} => Listed
    /\ guide.assignment \notin overwrote =>
         \A q \in Questions : question[q].status = None \/ Resolved(q)

\* The assignment a guide points to and its questions agree, however many
\* publications overlap: each exercise of that assignment is the one its
\* question is linked to, so results collected per question and per assignment
\* are about the same exercises.
CurrentAssignmentLinked ==
  guide.assignment # None =>
    \E a \in assignments :
      /\ a.id = guide.assignment
      /\ \A q \in a.exercises : question[q].exercise = a.id

\* As long as no message is lost, no interleaving of ingest requests, archive
\* requests and pipeline steps leaves the guide waiting for an extraction for which
\* no message is left.
ExtractionEnds ==
  guide.status = "EXTRACTING" ~> (guide.status # "EXTRACTING" \/ lost)

=============================================================================
