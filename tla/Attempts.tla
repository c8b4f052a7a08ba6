------------------------------- MODULE Attempts -------------------------------
(***************************************************************************)
(* How a student's answer outside a guide becomes an attempt: POST         *)
(* /attempts (AttemptsService.create: rule engine, attempt, steps, mastery, *)
(* classification request), POST /attempts/solve-adhoc, and the older OCR  *)
(* loop of the reprocess worker, which ends in the same create.            *)
(*                                                                          *)
(* create is a chain of statements without a transaction, and the mastery  *)
(* update in it is a read, a computation and an upsert. One student and    *)
(* one topic are modelled: mastery rows of others are never touched. The   *)
(* verdict of the rule engine is any verdict it can give; the probability  *)
(* pKnown is the sequence of the answers folded into it, which determines  *)
(* it. The telemetry message feeds no state of this program.               *)
(***************************************************************************)
EXTENDS Naturals, FiniteSets, Sequences

CONSTANTS
  Requests,     \* invocations: HTTP requests and deliveries of OCR results
  Photos,       \* attempts made of a photograph, waiting for the OCR loop
  TopicPhotos,  \* those whose exercise has a topic
  MaxReceive,   \* maxReceiveCount of the reprocess queue
  MaxReports,   \* bound: reports
  None

ASSUME AttemptsAssumption ==
  /\ IsFiniteSet(Requests)
  /\ Requests \intersect Photos = {}
  /\ TopicPhotos \subseteq Photos
  /\ MaxReceive \in Nat \ {0}
  /\ None \notin Photos

VARIABLES
  attempt,        \* the attempts rows: one per request that created it, and the photos
  mastery,        \* the student_topic_mastery row
  request,        \* per invocation: its step and what it carries
  classifyQueue,  \* attempts handed to the llm-classify queue
  solveQueue,     \* attempts handed to the adhoc-solve queue
  ocrQueue,       \* per photo: the OCR result on the reprocess queue
  overlapped,     \* history: two mastery updates have overlapped
  reports         \* attempts whose tag somebody has reported as wrong

vars == <<attempt, mastery, request, classifyQueue, solveQueue, ocrQueue, overlapped, reports>>

-----------------------------------------------------------------------------

Verdicts == {"CORRECT", "TAGGED", "UNCLASSIFIED"}

Statuses == {"ABSENT", "PENDING", "OCR_DONE", "CLASSIFIED"}

\* fed: the attempt's answer went into mastery.
AttemptRow ==
  [status : Statuses, source : {"RULE", "LLM"}, correct : BOOLEAN, steps : BOOLEAN, fed : BOOLEAN]

NoAttempt ==
  [status |-> "ABSENT", source |-> "RULE", correct |-> FALSE, steps |-> FALSE, fed |-> FALSE]

Kinds == {"create", "adhoc", "ocr"}

Steps == {"new", "ocr", "insert", "steps", "read", "upsert", "send",
          "adhocInsert", "adhocSend", "answered", "failed"}

\* prior: the mastery read; topic: the topic code was found.
RequestRow ==
  [kind : Kinds, step : Steps, topic : BOOLEAN, verdict : Verdicts, prior : Seq(Requests),
   photo : Photos \union {None}]

NewRequest ==
  [kind |-> "create", step |-> "new", topic |-> FALSE, verdict |-> "UNCLASSIFIED",
   prior |-> <<>>, photo |-> None]

At(r, step) == request[r].step = step

Goto(r, step) == request' = [request EXCEPT ![r].step = step]

Creating(r) == request[r].step \in {"insert", "steps", "read", "upsert", "send"}

Init ==
  /\ attempt = [a \in Requests \union Photos |->
       IF a \in Photos THEN [NoAttempt EXCEPT !.status = "PENDING"] ELSE NoAttempt]
  /\ mastery = [count |-> 0, seen |-> <<>>]
  /\ request = [r \in Requests |-> NewRequest]
  /\ classifyQueue = {}
  /\ solveQueue = {}
  /\ ocrQueue = [p \in Photos |-> [place |-> "queue", receives |-> 0]]
  /\ overlapped = FALSE
  /\ reports = {}

-----------------------------------------------------------------------------
(* create                                                                  *)

\* Without a topic there is no strategy, and the fallback classifies nothing.
PossibleVerdicts(topic) == IF topic THEN Verdicts ELSE {"UNCLASSIFIED"}

StartCreate(r) ==
  /\ At(r, "new")
  /\ \E topic \in BOOLEAN : \E verdict \in PossibleVerdicts(topic) :
       request' = [request EXCEPT ![r] =
         [@ EXCEPT !.step = "insert", !.topic = topic, !.verdict = verdict]]
  /\ UNCHANGED <<attempt, mastery, classifyQueue, solveQueue, ocrQueue, overlapped, reports>>

Unclassified(r) == request[r].verdict = "UNCLASSIFIED"

Insert(r) ==
  /\ At(r, "insert")
  /\ attempt' = [attempt EXCEPT ![r] =
       [status |-> IF Unclassified(r) THEN "PENDING" ELSE "CLASSIFIED",
        source |-> IF Unclassified(r) THEN "LLM" ELSE "RULE",
        correct |-> request[r].verdict = "CORRECT", steps |-> FALSE, fed |-> FALSE]]
  /\ Goto(r, "steps")
  /\ UNCHANGED <<mastery, classifyQueue, solveQueue, ocrQueue, overlapped, reports>>

\* Broken variant: an attempt with no topic skips its steps too.
InsertStepsOfTopic(r) ==
  /\ At(r, "steps")
  /\ attempt' = IF request[r].topic THEN [attempt EXCEPT ![r].steps = TRUE] ELSE attempt
  /\ Goto(r, IF request[r].topic THEN "read" ELSE "send")
  /\ UNCHANGED <<mastery, classifyQueue, solveQueue, ocrQueue, overlapped, reports>>

InsertSteps(r) ==
  /\ At(r, "steps")
  /\ attempt' = [attempt EXCEPT ![r].steps = TRUE]
  /\ Goto(r, IF request[r].topic THEN "read" ELSE "send")
  /\ UNCHANGED <<mastery, classifyQueue, solveQueue, ocrQueue, overlapped, reports>>

\* applyAttempt reads the row it will write over.
ReadMastery(r) ==
  /\ At(r, "read")
  /\ request' = [request EXCEPT ![r] = [@ EXCEPT !.step = "upsert", !.prior = mastery.seen]]
  /\ overlapped' = (overlapped \/ \E other \in Requests : At(other, "upsert"))
  /\ UNCHANGED <<attempt, mastery, classifyQueue, solveQueue, ocrQueue, reports>>

\* Broken variant: the count is computed from the row that was read.
UpsertCountRead(r) ==
  /\ At(r, "upsert")
  /\ mastery' = [count |-> Len(request[r].prior) + 1, seen |-> Append(request[r].prior, r)]
  /\ attempt' = [attempt EXCEPT ![r].fed = TRUE]
  /\ Goto(r, "send")
  /\ UNCHANGED <<classifyQueue, solveQueue, ocrQueue, overlapped, reports>>

\* Broken variant: every posterior is computed from the initial probability.
UpsertFromInitial(r) ==
  /\ At(r, "upsert")
  /\ mastery' = [count |-> mastery.count + 1, seen |-> <<r>>]
  /\ attempt' = [attempt EXCEPT ![r].fed = TRUE]
  /\ Goto(r, "send")
  /\ UNCHANGED <<classifyQueue, solveQueue, ocrQueue, overlapped, reports>>

\* The posterior of what was read replaces what is there; the count alone is
\* incremented by the database.
UpsertMastery(r) ==
  /\ At(r, "upsert")
  /\ mastery' = [count |-> mastery.count + 1, seen |-> Append(request[r].prior, r)]
  /\ attempt' = [attempt EXCEPT ![r].fed = TRUE]
  /\ Goto(r, "send")
  /\ UNCHANGED <<classifyQueue, solveQueue, ocrQueue, overlapped, reports>>

\* publishStandard does not throw; a message that SQS refuses is one that the
\* classifier never takes.
Send(r) ==
  /\ At(r, "send")
  /\ classifyQueue' = IF Unclassified(r) THEN classifyQueue \union {r} ELSE classifyQueue
  /\ Goto(r, "answered")
  /\ UNCHANGED <<attempt, mastery, solveQueue, ocrQueue, overlapped, reports>>

-----------------------------------------------------------------------------
(* solveAdhoc                                                              *)

StartAdhoc(r) ==
  /\ At(r, "new")
  /\ request' = [request EXCEPT ![r] = [@ EXCEPT !.kind = "adhoc", !.step = "adhocInsert"]]
  /\ UNCHANGED <<attempt, mastery, classifyQueue, solveQueue, ocrQueue, overlapped, reports>>

AdhocInsert(r) ==
  /\ At(r, "adhocInsert")
  /\ attempt' = [attempt EXCEPT ![r] = [NoAttempt EXCEPT !.status = "PENDING", !.source = "LLM"]]
  /\ Goto(r, "adhocSend")
  /\ UNCHANGED <<mastery, classifyQueue, solveQueue, ocrQueue, overlapped, reports>>

AdhocSend(r) ==
  /\ At(r, "adhocSend")
  /\ solveQueue' = solveQueue \union {r}
  /\ Goto(r, "answered")
  /\ UNCHANGED <<attempt, mastery, classifyQueue, ocrQueue, overlapped, reports>>

-----------------------------------------------------------------------------
(* processLegacyOcr                                                        *)

Deliver(r, p) ==
  /\ At(r, "new")
  /\ ocrQueue[p].place = "queue"
  /\ ocrQueue' = [ocrQueue EXCEPT ![p] = [place |-> "inFlight", receives |-> @.receives + 1]]
  /\ request' = [request EXCEPT ![r] = [@ EXCEPT !.kind = "ocr", !.step = "ocr", !.photo = p]]
  /\ UNCHANGED <<attempt, mastery, classifyQueue, solveQueue, overlapped, reports>>

\* The photo's row is marked, and create is called for its answer, which
\* inserts another attempt. Without a topic the photo is left at that.
OcrUpdate(r) ==
  /\ At(r, "ocr")
  /\ attempt' = [attempt EXCEPT ![request[r].photo].status = "OCR_DONE"]
  /\ IF request[r].photo \in TopicPhotos
     THEN \E verdict \in Verdicts :
            request' = [request EXCEPT ![r] =
              [@ EXCEPT !.step = "insert", !.topic = TRUE, !.verdict = verdict]]
     ELSE Goto(r, "answered")
  /\ UNCHANGED <<mastery, classifyQueue, solveQueue, ocrQueue, overlapped, reports>>

\* A worker holds its message until the handler has returned and SQS deletes it.
InFlightFor(r) == request[r].kind = "ocr" /\ ocrQueue[request[r].photo].place = "inFlight"

DeleteMessage(r) ==
  ocrQueue' = [ocrQueue EXCEPT ![request[r].photo].place = "deleted"]

\* The message goes back to its queue, or to the dead letter queue.
Redrive(r) ==
  ocrQueue' = [ocrQueue EXCEPT ![request[r].photo].place =
    IF ocrQueue[request[r].photo].receives < MaxReceive THEN "queue" ELSE "dlq"]

Acknowledge(r) ==
  /\ At(r, "answered")
  /\ InFlightFor(r)
  /\ DeleteMessage(r)
  /\ UNCHANGED <<attempt, mastery, request, classifyQueue, solveQueue, overlapped, reports>>

\* A statement throws, or the Lambda dies: of an HTTP request before it answers,
\* of a worker before its message is deleted. Nothing written is undone.
Fails(r) ==
  /\ \/ request[r].step \notin {"new", "answered", "failed"}
     \/ At(r, "answered") /\ InFlightFor(r)
  /\ Goto(r, "failed")
  /\ IF request[r].kind = "ocr" THEN Redrive(r) ELSE UNCHANGED ocrQueue
  /\ UNCHANGED <<attempt, mastery, classifyQueue, solveQueue, overlapped, reports>>

\* An exception of create is logged and swallowed by the OCR loop.
CreateThrows(r) ==
  /\ request[r].kind = "ocr"
  /\ Creating(r)
  /\ Goto(r, "answered")
  /\ UNCHANGED <<attempt, mastery, classifyQueue, solveQueue, ocrQueue, overlapped, reports>>

-----------------------------------------------------------------------------
(* What is asked and said of an attempt on record: by the page that polls   *)
(* it, by its detail, and by a report, which leaves the attempt as it is.   *)

OnRecord == {a \in Requests \union Photos : attempt[a].status # "ABSENT"}

GetStatus(a) ==
  [status |-> attempt[a].status, isCorrect |-> attempt[a].correct, source |-> attempt[a].source]

GetDetail(a) == [of |-> GetStatus(a), steps |-> attempt[a].steps]

ReportError(a) ==
  /\ a \in OnRecord \ reports
  /\ Cardinality(reports) < MaxReports
  /\ reports' = reports \union {a}
  /\ UNCHANGED <<attempt, mastery, request, classifyQueue, solveQueue, ocrQueue, overlapped>>

-----------------------------------------------------------------------------
(* The classifier and the solver of innova-ai-engine (external): they write *)
(* the attempt of a message, which may be delivered more than once.          *)

Classify(r) ==
  /\ r \in classifyQueue
  /\ attempt[r].status = "PENDING"
  /\ attempt' = [attempt EXCEPT ![r].status = "CLASSIFIED"]
  /\ UNCHANGED <<mastery, request, classifyQueue, solveQueue, ocrQueue, overlapped, reports>>

Solve(r) ==
  /\ r \in solveQueue
  /\ attempt[r].status = "PENDING"
  /\ \E correct \in BOOLEAN :
       attempt' = [attempt EXCEPT ![r] = [@ EXCEPT !.status = "CLASSIFIED", !.correct = correct]]
  /\ UNCHANGED <<mastery, request, classifyQueue, solveQueue, ocrQueue, overlapped, reports>>

-----------------------------------------------------------------------------

Create(r) ==
  \/ Insert(r) \/ InsertSteps(r) \/ ReadMastery(r) \/ UpsertMastery(r) \/ Send(r)

Next ==
  \/ \E r \in Requests :
       \/ StartCreate(r) \/ Create(r)
       \/ StartAdhoc(r) \/ AdhocInsert(r) \/ AdhocSend(r)
       \/ OcrUpdate(r) \/ CreateThrows(r) \/ Acknowledge(r)
       \/ Fails(r) \/ Classify(r) \/ Solve(r)
       \/ \E p \in Photos : Deliver(r, p)
  \/ \E a \in Requests \union Photos : ReportError(a)

Spec == Init /\ [][Next]_vars

-----------------------------------------------------------------------------
(* Properties *)

\* Rows, queues and what invocations carry have their types.
TypeOK ==
  /\ attempt \in [Requests \union Photos -> AttemptRow]
  /\ mastery.count \in Nat /\ mastery.seen \in Seq(Requests)
  /\ request \in [Requests -> RequestRow]
  /\ classifyQueue \subseteq Requests /\ solveQueue \subseteq Requests
  /\ ocrQueue \in [Photos -> [place : {"queue", "inFlight", "deleted", "dlq"},
                              receives : 0..MaxReceive]]
  /\ overlapped \in BOOLEAN
  /\ reports \subseteq OnRecord

FedAttempts == {r \in Requests : attempt[r].fed}

\* The answers that pKnown is folded from.
Folded == {mastery.seen[i] : i \in 1..Len(mastery.seen)}

\* An HTTP request that was answered has everything on record: the attempt with its
\* steps, its mastery update when there is a topic, and, while the page that polls
\* the attempt is told PENDING, the request to finish it, addressed to the engine.
\* A chain that fails half-way is never answered.
AnsweredIsRecorded ==
  \A r \in Requests : At(r, "answered") /\ request[r].kind # "ocr" =>
    /\ r \in OnRecord
    /\ request[r].kind = "create" => GetDetail(r).steps /\ (request[r].topic => attempt[r].fed)
    /\ GetStatus(r).status = "PENDING" =>
         GetStatus(r).source = "LLM" /\ r \in classifyQueue \union solveQueue

\* However updates overlap and fail, attemptsCount counts every attempt fed to
\* BKT exactly once.
CountIsExact == mastery.count = Cardinality(FedAttempts)

\* pKnown is folded from distinct fed attempts, and from all of them unless two
\* updates have overlapped: only an overlap loses an answer.
OnlyOverlapLosesAnswers ==
  /\ Folded \subseteq FedAttempts
  /\ Cardinality(Folded) = Len(mastery.seen)
  /\ ~overlapped => Folded = FedAttempts

\* A photograph whose answer the OCR loop has classified is shown classified. It
\* is not: the loop inserts a second attempt for the answer, classifies that one
\* and leaves the photograph's own in OCR_DONE.
PhotosAreClassified ==
  \A r \in Requests :
    request[r].kind = "ocr" /\ At(r, "answered") /\ attempt[r].status = "CLASSIFIED" =>
      attempt[request[r].photo].status = "CLASSIFIED"

\* An OCR result is dropped from the queue only after its photo was marked, or
\* for the dead letter queue: no failure of the worker loses one.
SettledIsMarked ==
  \A p \in Photos : ocrQueue[p].place = "deleted" => attempt[p].status = "OCR_DONE"

=============================================================================
