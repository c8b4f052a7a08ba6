---------------------------- MODULE AttemptsProofs ----------------------------
(***************************************************************************)
(* Proofs about Attempts, for every set of requests and photographs and    *)
(* every number of deliveries: its types, that an answered request has     *)
(* everything on record, that the attempts fed to mastery are counted      *)
(* exactly, that only an overlap of two updates loses an answer, and that  *)
(* a photograph leaves its queue only when it was marked.                  *)
(***************************************************************************)
EXTENDS Attempts, FiniteSetTheorems, TLAPS

-----------------------------------------------------------------------------
(* Types *)

\* What the types rest on: an invocation carries a photograph exactly when it is
\* a delivery of an OCR result, and a message that is in its queue again has not
\* been received as often as the queue allows.
TypeInv ==
  /\ TypeOK
  /\ \A r \in Requests :
       /\ request[r].kind = "ocr" => request[r].photo \in Photos
       /\ At(r, "new") => request[r].kind = "create"
       /\ At(r, "ocr") => request[r].kind = "ocr"
  /\ \A p \in Photos : ocrQueue[p].place = "queue" => ocrQueue[p].receives < MaxReceive
  /\ MaxReceive \in Nat \ {0}

\* The rows and invocations of the initial states have their types.
LEMMA InitTypes == Init => TypeInv
<1> SUFFICES ASSUME Init PROVE TypeInv
  OBVIOUS
<1>1. MaxReceive \in Nat \ {0} /\ 0 \in 0..MaxReceive
  BY AttemptsAssumption
<1>2. attempt \in [Requests \union Photos -> AttemptRow]
  <2>1. NoAttempt \in AttemptRow
    BY DEF NoAttempt, AttemptRow, Statuses
  <2>2. [NoAttempt EXCEPT !.status = "PENDING"] \in AttemptRow
    BY DEF NoAttempt, AttemptRow, Statuses
  <2> QED
    BY <2>1, <2>2 DEF Init
<1>3. request \in [Requests -> RequestRow]
  <2>1. NewRequest \in RequestRow
    BY DEF NewRequest, RequestRow, Kinds, Steps, Verdicts
  <2> QED
    BY <2>1 DEF Init
<1>4. mastery.count \in Nat /\ mastery.seen \in Seq(Requests)
  BY DEF Init
<1>5. ocrQueue \in [Photos -> [place : {"queue", "inFlight", "deleted", "dlq"},
                              receives : 0..MaxReceive]]
  BY <1>1 DEF Init
<1>6. \A p \in Photos : ocrQueue[p].place = "queue" => ocrQueue[p].receives < MaxReceive
  BY <1>1 DEF Init
<1>7. \A r \in Requests : At(r, "new") /\ request[r].kind = "create"
  BY DEF Init, NewRequest, At
<1> QED
  BY <1>1, <1>2, <1>3, <1>4, <1>5, <1>6, <1>7 DEF Init, TypeInv, TypeOK, At

\* A step of an invocation keeps the fields it does not name.
LEMMA GotoChange ==
  ASSUME TypeInv, NEW r \in Requests, NEW step \in Steps, Goto(r, step)
  PROVE  /\ request' \in [Requests -> RequestRow]
         /\ request'[r].step = step
         /\ request'[r].kind = request[r].kind
         /\ request'[r].topic = request[r].topic
         /\ request'[r].verdict = request[r].verdict
         /\ request'[r].prior = request[r].prior
         /\ request'[r].photo = request[r].photo
         /\ \A s \in Requests \ {r} : request'[s] = request[s]
BY DEF TypeInv, TypeOK, Goto, RequestRow

\* An action that moves an invocation along, and touches neither its kind nor
\* its photograph nor the OCR queue, keeps TypeInv when the rows keep theirs.
LEMMA MoveKeepsTypes ==
  ASSUME TypeInv, NEW r \in Requests,
         request' \in [Requests -> RequestRow],
         \A s \in Requests \ {r} : request'[s] = request[s],
         request'[r].kind = "ocr" => request'[r].photo \in Photos,
         request'[r].step \notin {"new", "ocr"},
         attempt' \in [Requests \union Photos -> AttemptRow],
         mastery'.count \in Nat, mastery'.seen \in Seq(Requests),
         classifyQueue' \subseteq Requests, solveQueue' \subseteq Requests,
         overlapped' \in BOOLEAN, UNCHANGED <<ocrQueue, reports>>,
         \A a \in Requests \union Photos :
           attempt[a].status # "ABSENT" => attempt'[a].status # "ABSENT"
  PROVE  TypeInv'
<1>1. \A s \in Requests :
        /\ request'[s].kind = "ocr" => request'[s].photo \in Photos
        /\ request'[s].step = "new" => request'[s].kind = "create"
        /\ request'[s].step = "ocr" => request'[s].kind = "ocr"
  BY DEF TypeInv, At
<1>2. reports' \subseteq OnRecord'
  BY DEF TypeInv, TypeOK, OnRecord
<1> QED
  BY <1>1, <1>2 DEF TypeInv, TypeOK, At

\* The same for an action whose invocation only changes its step.
LEMMA GotoKeepsTypes ==
  ASSUME TypeInv, NEW r \in Requests, NEW step \in Steps, Goto(r, step),
         step \notin {"new", "ocr"},
         attempt' \in [Requests \union Photos -> AttemptRow],
         mastery'.count \in Nat, mastery'.seen \in Seq(Requests),
         classifyQueue' \subseteq Requests, solveQueue' \subseteq Requests,
         overlapped' \in BOOLEAN, UNCHANGED <<ocrQueue, reports>>,
         \A a \in Requests \union Photos :
           attempt[a].status # "ABSENT" => attempt'[a].status # "ABSENT"
  PROVE  TypeInv'
<1>1. request'[r].kind = "ocr" => request'[r].photo \in Photos
  BY GotoChange DEF TypeInv
<1> QED
  BY <1>1, GotoChange, MoveKeepsTypes

\* The OCR loop marks the photograph, which is no invocation's own attempt, and
\* goes on to create or ends.
LEMMA OcrChange ==
  ASSUME TypeInv, NEW r \in Requests, OcrUpdate(r)
  PROVE  /\ request[r].kind = "ocr" /\ request[r].photo \in Photos /\ request[r].step = "ocr"
         /\ attempt' \in [Requests \union Photos -> AttemptRow]
         /\ attempt'[request[r].photo].status = "OCR_DONE"
         /\ \A a \in (Requests \union Photos) \ {request[r].photo} : attempt'[a] = attempt[a]
         /\ \A s \in Requests : attempt'[s] = attempt[s]
         /\ request' \in [Requests -> RequestRow]
         /\ request'[r].kind = "ocr" /\ request'[r].photo = request[r].photo
         /\ request'[r].step \in {"insert", "answered"}
         /\ \A s \in Requests \ {r} : request'[s] = request[s]
<1>1. request[r].kind = "ocr" /\ request[r].photo \in Photos /\ request[r].step = "ocr"
  BY DEF OcrUpdate, TypeInv, At
<1>2. attempt' \in [Requests \union Photos -> AttemptRow]
  BY <1>1 DEF OcrUpdate, TypeInv, TypeOK, AttemptRow, Statuses
<1>3. /\ attempt'[request[r].photo].status = "OCR_DONE"
      /\ \A a \in (Requests \union Photos) \ {request[r].photo} : attempt'[a] = attempt[a]
  BY <1>1 DEF OcrUpdate, TypeInv, TypeOK, AttemptRow
<1>4. \A s \in Requests : attempt'[s] = attempt[s]
  BY <1>1, <1>3, AttemptsAssumption
<1>5. /\ request' \in [Requests -> RequestRow]
      /\ request'[r].kind = request[r].kind /\ request'[r].photo = request[r].photo
      /\ request'[r].step \in {"insert", "answered"}
      /\ \A s \in Requests \ {r} : request'[s] = request[s]
  <2>1. CASE Goto(r, "answered")
    BY <2>1, GotoChange DEF Steps
  <2>2. CASE \E verdict \in Verdicts :
               request' = [request EXCEPT ![r] =
                 [@ EXCEPT !.step = "insert", !.topic = TRUE, !.verdict = verdict]]
    <3>1. PICK verdict \in Verdicts :
            request' = [request EXCEPT ![r] =
              [@ EXCEPT !.step = "insert", !.topic = TRUE, !.verdict = verdict]]
      BY <2>2
    <3> QED
      BY <3>1 DEF TypeInv, TypeOK, RequestRow, Steps
  <2> QED
    BY <2>1, <2>2 DEF OcrUpdate
<1> QED
  BY <1>1, <1>2, <1>3, <1>4, <1>5

\* The engine writes the verdict of one attempt that waits for it.
LEMMA EngineChange ==
  ASSUME TypeInv, NEW r \in Requests, Classify(r) \/ Solve(r)
  PROVE  /\ attempt' \in [Requests \union Photos -> AttemptRow]
         /\ attempt[r].status = "PENDING" /\ attempt'[r].status = "CLASSIFIED"
         /\ attempt'[r].steps = attempt[r].steps /\ attempt'[r].fed = attempt[r].fed
         /\ \A a \in (Requests \union Photos) \ {r} : attempt'[a] = attempt[a]
<1>1. PICK correct \in BOOLEAN :
        attempt' = [attempt EXCEPT ![r] = [@ EXCEPT !.status = "CLASSIFIED", !.correct = correct]]
  <2>1. CASE Classify(r)
    <3>1. attempt[r].correct \in BOOLEAN
      BY DEF TypeInv, TypeOK, AttemptRow
    <3>2. attempt' = [attempt EXCEPT ![r] =
            [@ EXCEPT !.status = "CLASSIFIED", !.correct = attempt[r].correct]]
      BY <2>1 DEF Classify, TypeInv, TypeOK, AttemptRow
    <3> QED
      BY <3>1, <3>2
  <2>2. CASE Solve(r)
    BY <2>2 DEF Solve
  <2> QED
    BY <2>1, <2>2
<1>2. attempt[r].status = "PENDING"
  BY DEF Classify, Solve
<1> QED
  BY <1>1, <1>2 DEF TypeInv, TypeOK, AttemptRow, Statuses

\* Every action keeps the types.
LEMMA NextTypes == TypeInv /\ [Next]_vars => TypeInv'
<1> SUFFICES ASSUME TypeInv, [Next]_vars PROVE TypeInv'
  OBVIOUS
<1>0. CASE UNCHANGED vars
  BY <1>0 DEF vars, TypeInv, TypeOK, At, OnRecord
<1>1. ASSUME NEW r \in Requests, StartCreate(r) PROVE TypeInv'
  <2>1. PICK topic \in BOOLEAN, verdict \in Verdicts :
          request' = [request EXCEPT ![r] =
            [@ EXCEPT !.step = "insert", !.topic = topic, !.verdict = verdict]]
    BY <1>1 DEF StartCreate, PossibleVerdicts, Verdicts
  <2>2. /\ request' \in [Requests -> RequestRow]
        /\ request'[r].kind = request[r].kind /\ request'[r].photo = request[r].photo
        /\ request'[r].step = "insert"
        /\ \A s \in Requests \ {r} : request'[s] = request[s]
    BY <2>1 DEF TypeInv, TypeOK, RequestRow, Steps
  <2> QED
    BY <1>1, <2>2, MoveKeepsTypes DEF StartCreate, TypeInv, TypeOK
<1>2. ASSUME NEW r \in Requests, Insert(r) PROVE TypeInv'
  <2>1. attempt' \in [Requests \union Photos -> AttemptRow]
    BY <1>2 DEF Insert, TypeInv, TypeOK, AttemptRow, Statuses
  <2>2. \A a \in Requests \union Photos :
          attempt[a].status # "ABSENT" => attempt'[a].status # "ABSENT"
    BY <1>2 DEF Insert, TypeInv, TypeOK
  <2> QED
    BY <1>2, <2>1, <2>2, GotoKeepsTypes DEF Insert, TypeInv, TypeOK, Steps
<1>3. ASSUME NEW r \in Requests, InsertSteps(r) PROVE TypeInv'
  <2>1. attempt' \in [Requests \union Photos -> AttemptRow]
    BY <1>3 DEF InsertSteps, TypeInv, TypeOK, AttemptRow
  <2>2. \A a \in Requests \union Photos :
          attempt[a].status # "ABSENT" => attempt'[a].status # "ABSENT"
    BY <1>3 DEF InsertSteps, TypeInv, TypeOK, AttemptRow
  <2>3. PICK step \in {"read", "send"} : Goto(r, step)
    BY <1>3 DEF InsertSteps
  <2> QED
    BY <1>3, <2>1, <2>2, <2>3, GotoKeepsTypes DEF InsertSteps, TypeInv, TypeOK, Steps
<1>4. ASSUME NEW r \in Requests, ReadMastery(r) PROVE TypeInv'
  <2>1. /\ request' \in [Requests -> RequestRow]
        /\ request'[r].kind = request[r].kind /\ request'[r].photo = request[r].photo
        /\ request'[r].step = "upsert"
        /\ \A s \in Requests \ {r} : request'[s] = request[s]
    BY <1>4 DEF ReadMastery, TypeInv, TypeOK, RequestRow, Steps
  <2>2. overlapped' \in BOOLEAN
    BY <1>4 DEF ReadMastery, TypeInv, TypeOK
  <2> QED
    BY <1>4, <2>1, <2>2, MoveKeepsTypes DEF ReadMastery, TypeInv, TypeOK
<1>5. ASSUME NEW r \in Requests, UpsertMastery(r) PROVE TypeInv'
  <2>1. attempt' \in [Requests \union Photos -> AttemptRow]
    BY <1>5 DEF UpsertMastery, TypeInv, TypeOK, AttemptRow
  <2>2. \A a \in Requests \union Photos :
          attempt[a].status # "ABSENT" => attempt'[a].status # "ABSENT"
    BY <1>5 DEF UpsertMastery, TypeInv, TypeOK, AttemptRow
  <2>3. request[r].prior \in Seq(Requests)
    BY DEF TypeInv, TypeOK, RequestRow
  <2>4. mastery'.count \in Nat /\ mastery'.seen \in Seq(Requests)
    BY <1>5, <2>3 DEF UpsertMastery, TypeInv, TypeOK
  <2> QED
    BY <1>5, <2>1, <2>2, <2>4, GotoKeepsTypes
    DEF UpsertMastery, TypeInv, TypeOK, Steps
<1>6. ASSUME NEW r \in Requests, Send(r) PROVE TypeInv'
  BY <1>6, GotoKeepsTypes DEF Send, TypeInv, TypeOK, Steps
<1>7. ASSUME NEW r \in Requests, StartAdhoc(r) PROVE TypeInv'
  <2>1. /\ request' \in [Requests -> RequestRow]
        /\ request'[r].kind = "adhoc" /\ request'[r].step = "adhocInsert"
        /\ \A s \in Requests \ {r} : request'[s] = request[s]
    BY <1>7 DEF StartAdhoc, TypeInv, TypeOK, RequestRow, Steps, Kinds
  <2> QED
    BY <1>7, <2>1, MoveKeepsTypes DEF StartAdhoc, TypeInv, TypeOK
<1>8. ASSUME NEW r \in Requests, AdhocInsert(r) PROVE TypeInv'
  <2>1. attempt' \in [Requests \union Photos -> AttemptRow]
    BY <1>8 DEF AdhocInsert, TypeInv, TypeOK, AttemptRow, NoAttempt, Statuses
  <2>2. \A a \in Requests \union Photos :
          attempt[a].status # "ABSENT" => attempt'[a].status # "ABSENT"
    BY <1>8 DEF AdhocInsert, TypeInv, TypeOK, NoAttempt
  <2> QED
    BY <1>8, <2>1, <2>2, GotoKeepsTypes DEF AdhocInsert, TypeInv, TypeOK, Steps
<1>9. ASSUME NEW r \in Requests, AdhocSend(r) PROVE TypeInv'
  BY <1>9, GotoKeepsTypes DEF AdhocSend, TypeInv, TypeOK, Steps
<1>10. ASSUME NEW r \in Requests, OcrUpdate(r) PROVE TypeInv'
  <2>1. /\ attempt' \in [Requests \union Photos -> AttemptRow]
        /\ request' \in [Requests -> RequestRow]
    BY <1>10, OcrChange
  <2>2. \A a \in Requests \union Photos :
          attempt[a].status # "ABSENT" => attempt'[a].status # "ABSENT"
    BY <1>10, OcrChange
  <2> QED
    BY <1>10, <2>1, <2>2, OcrChange, MoveKeepsTypes DEF OcrUpdate, TypeInv, TypeOK
<1>11. ASSUME NEW r \in Requests, CreateThrows(r) PROVE TypeInv'
  BY <1>11, GotoKeepsTypes DEF CreateThrows, TypeInv, TypeOK, Steps
<1>12. ASSUME NEW r \in Requests, NEW p \in Photos, Deliver(r, p) PROVE TypeInv'
  <2>1. /\ request' \in [Requests -> RequestRow]
        /\ request'[r].kind = "ocr" /\ request'[r].step = "ocr" /\ request'[r].photo = p
        /\ \A s \in Requests \ {r} : request'[s] = request[s]
    BY <1>12 DEF Deliver, TypeInv, TypeOK, RequestRow, Steps, Kinds
  <2>2. ocrQueue[p].receives + 1 \in 0..MaxReceive
    BY <1>12 DEF Deliver, TypeInv, TypeOK
  <2>3. /\ ocrQueue' \in [Photos -> [place : {"queue", "inFlight", "deleted", "dlq"},
                                     receives : 0..MaxReceive]]
        /\ ocrQueue'[p].place = "inFlight"
        /\ \A q \in Photos \ {p} : ocrQueue'[q] = ocrQueue[q]
    BY <1>12, <2>2 DEF Deliver, TypeInv, TypeOK
  <2>4. \A s \in Requests :
          /\ request'[s].kind = "ocr" => request'[s].photo \in Photos
          /\ request'[s].step = "new" => request'[s].kind = "create"
          /\ request'[s].step = "ocr" => request'[s].kind = "ocr"
    BY <2>1 DEF TypeInv, At
  <2>5. \A q \in Photos : ocrQueue'[q].place = "queue" => ocrQueue'[q].receives < MaxReceive
    BY <2>3 DEF TypeInv
  <2> QED
    BY <1>12, <2>1, <2>3, <2>4, <2>5 DEF Deliver, TypeInv, TypeOK, At, OnRecord
<1>13. ASSUME NEW r \in Requests, Acknowledge(r) PROVE TypeInv'
  <2>1. request[r].photo \in Photos
    BY <1>13 DEF Acknowledge, InFlightFor, TypeInv
  <2>2. ocrQueue' \in [Photos -> [place : {"queue", "inFlight", "deleted", "dlq"},
                                  receives : 0..MaxReceive]]
    BY <1>13, <2>1 DEF Acknowledge, DeleteMessage, TypeInv, TypeOK
  <2>3. \A q \in Photos : ocrQueue'[q].place = "queue" => ocrQueue'[q].receives < MaxReceive
    BY <1>13, <2>1 DEF Acknowledge, DeleteMessage, TypeInv, TypeOK
  <2> QED
    BY <1>13, <2>2, <2>3 DEF Acknowledge, TypeInv, TypeOK, At, OnRecord
<1>14. ASSUME NEW r \in Requests, Fails(r) PROVE TypeInv'
  <2>1. Goto(r, "failed")
    BY <1>14 DEF Fails
  <2>2. /\ ocrQueue' \in [Photos -> [place : {"queue", "inFlight", "deleted", "dlq"},
                                     receives : 0..MaxReceive]]
        /\ \A q \in Photos : ocrQueue'[q].place = "queue" => ocrQueue'[q].receives < MaxReceive
    <3>1. CASE request[r].kind = "ocr"
      <4>1. request[r].photo \in Photos /\ Redrive(r)
        BY <1>14, <3>1 DEF Fails, TypeInv
      <4> QED
        BY <4>1 DEF Redrive, TypeInv, TypeOK
    <3>2. CASE request[r].kind # "ocr"
      BY <1>14, <3>2 DEF Fails, TypeInv, TypeOK
    <3> QED
      BY <3>1, <3>2
  <2>3. \A s \in Requests :
          /\ request'[s].kind = "ocr" => request'[s].photo \in Photos
          /\ request'[s].step = "new" => request'[s].kind = "create"
          /\ request'[s].step = "ocr" => request'[s].kind = "ocr"
    BY <2>1, GotoChange DEF TypeInv, At, Steps
  <2>4. request' \in [Requests -> RequestRow]
    BY <2>1, GotoChange DEF Steps
  <2> QED
    BY <1>14, <2>2, <2>3, <2>4 DEF Fails, TypeInv, TypeOK, At, OnRecord
<1>15. ASSUME NEW r \in Requests, Classify(r) \/ Solve(r) PROVE TypeInv'
  <2>1. attempt' \in [Requests \union Photos -> AttemptRow]
    BY <1>15, EngineChange
  <2>2. \A a \in Requests \union Photos :
          attempt[a].status # "ABSENT" => attempt'[a].status # "ABSENT"
    BY <1>15, EngineChange
  <2>3. UNCHANGED <<mastery, request, classifyQueue, solveQueue, ocrQueue, overlapped, reports>>
    BY <1>15 DEF Classify, Solve
  <2> QED
    BY <2>1, <2>2, <2>3 DEF TypeInv, TypeOK, At, OnRecord
<1>16. ASSUME NEW a \in Requests \union Photos, ReportError(a) PROVE TypeInv'
  BY <1>16 DEF ReportError, TypeInv, TypeOK, At, OnRecord
<1> QED
  BY <1>0, <1>1, <1>2, <1>3, <1>4, <1>5, <1>6, <1>7, <1>8, <1>9, <1>10, <1>11, <1>12, <1>13,
     <1>14, <1>15, <1>16 DEF Next, Create

\* TypeOK, for all constants: nothing an invocation, a failure or the engine does
\* leaves a row, a queue or a message's count outside its type.
THEOREM AttemptsTypeCorrect == Spec => []TypeOK
<1>1. Spec => []TypeInv
  BY InitTypes, NextTypes, PTL DEF Spec
<1>2. TypeInv => TypeOK
  BY DEF TypeInv
<1> QED
  BY <1>1, <1>2, PTL

-----------------------------------------------------------------------------
(* One step, seen from the other invocations *)

\* The step of one invocation, or of the engine on its attempt.
StepOf(r) ==
  \/ StartCreate(r) \/ Create(r)
  \/ StartAdhoc(r) \/ AdhocInsert(r) \/ AdhocSend(r)
  \/ OcrUpdate(r) \/ CreateThrows(r) \/ Acknowledge(r)
  \/ Fails(r) \/ Classify(r) \/ Solve(r)
  \/ \E p \in Photos : Deliver(r, p)

\* A step is one of these, or touches nothing but the reports.
LEMMA StepKinds ==
  ASSUME [Next]_vars
  PROVE  \/ UNCHANGED <<attempt, mastery, request, classifyQueue, solveQueue, ocrQueue, overlapped>>
         \/ \E r \in Requests : StepOf(r)
BY DEF Next, StepOf, vars, ReportError

\* It leaves what other invocations carry and created, and no message of the
\* engine's queues is taken back.
LEMMA OthersStay ==
  ASSUME TypeInv, NEW r \in Requests, StepOf(r)
  PROVE  /\ \A s \in Requests \ {r} : request'[s] = request[s] /\ attempt'[s] = attempt[s]
         /\ classifyQueue \subseteq classifyQueue' /\ solveQueue \subseteq solveQueue'
<1>1. CASE StartCreate(r) \/ StartAdhoc(r) \/ CreateThrows(r) \/ Acknowledge(r) \/ Fails(r)
  BY <1>1 DEF StartCreate, StartAdhoc, CreateThrows, Acknowledge, Fails, Goto, TypeInv, TypeOK
<1>2. CASE \E p \in Photos : Deliver(r, p)
  BY <1>2 DEF Deliver, TypeInv, TypeOK
<1>3. CASE Insert(r) \/ InsertSteps(r) \/ AdhocInsert(r)
  BY <1>3 DEF Insert, InsertSteps, AdhocInsert, Goto, TypeInv, TypeOK
<1>4. CASE ReadMastery(r) \/ UpsertMastery(r)
  BY <1>4 DEF ReadMastery, UpsertMastery, Goto, TypeInv, TypeOK
<1>5. CASE Send(r) \/ AdhocSend(r)
  BY <1>5 DEF Send, AdhocSend, Goto, TypeInv, TypeOK
<1>6. CASE OcrUpdate(r)
  BY <1>6, OcrChange DEF OcrUpdate
<1>7. CASE Classify(r) \/ Solve(r)
  BY <1>7 DEF Classify, Solve, TypeInv, TypeOK
<1> QED
  BY <1>1, <1>2, <1>3, <1>4, <1>5, <1>6, <1>7 DEF StepOf, Create

-----------------------------------------------------------------------------
(* What an answered request has on record *)

\* How far the record of an invocation is: what create and solveAdhoc have
\* written by the step they are at. A row that is PENDING is one for the engine,
\* and the invocation that has still to send it remembers that it is.
RecordOf(r) ==
  /\ attempt[r].status = "PENDING" => attempt[r].source = "LLM"
  /\ request[r].step \in {"adhocInsert", "adhocSend"} => request[r].kind = "adhoc"
  /\ Creating(r) => request[r].kind # "adhoc"
  /\ request[r].step \in {"steps", "read", "upsert", "send"} =>
       /\ attempt[r].status # "ABSENT"
       /\ attempt[r].status = "PENDING" => Unclassified(r)
  /\ request[r].step \in {"read", "upsert", "send"} => attempt[r].steps
  /\ request[r].step \in {"read", "upsert"} => request[r].topic
  /\ At(r, "send") /\ request[r].topic => attempt[r].fed
  /\ At(r, "adhocSend") => attempt[r].status # "ABSENT"
  /\ At(r, "answered") /\ request[r].kind # "ocr" =>
       /\ attempt[r].status # "ABSENT"
       /\ request[r].kind = "create" =>
            attempt[r].steps /\ (request[r].topic => attempt[r].fed)
       /\ attempt[r].status = "PENDING" => r \in classifyQueue \union solveQueue

RecordInv == \A r \in Requests : RecordOf(r)

\* The step of one invocation leaves the record of another as it was.
LEMMA RecordStays ==
  ASSUME TypeInv, RecordInv, NEW r \in Requests, StepOf(r), RecordOf(r)'
  PROVE  RecordInv'
<1>1. ASSUME NEW s \in Requests \ {r} PROVE RecordOf(s)'
  <2>1. /\ request'[s] = request[s] /\ attempt'[s] = attempt[s]
        /\ classifyQueue \subseteq classifyQueue' /\ solveQueue \subseteq solveQueue'
    BY OthersStay
  <2>2. RecordOf(s)
    BY DEF RecordInv
  <2> QED
    BY <2>1, <2>2 DEF RecordOf, At, Creating, Unclassified
<1> QED
  BY <1>1 DEF RecordInv

\* Nothing is on record, and nobody has started.
LEMMA InitRecord == Init => RecordInv
BY AttemptsAssumption
DEF Init, RecordInv, RecordOf, NewRequest, NoAttempt, At, Creating, Unclassified

\* Every action keeps the record.
LEMMA NextRecord == TypeInv /\ RecordInv /\ [Next]_vars => RecordInv'
<1> SUFFICES ASSUME TypeInv, RecordInv, [Next]_vars PROVE RecordInv'
  OBVIOUS
<1>1. CASE UNCHANGED <<attempt, mastery, request, classifyQueue, solveQueue, ocrQueue, overlapped>>
  BY <1>1 DEF RecordInv, RecordOf, At, Creating, Unclassified
<1>2. ASSUME NEW r \in Requests, StepOf(r) PROVE RecordInv'
  <2> SUFFICES RecordOf(r)'
    BY <1>2, RecordStays
  <2>0. /\ RecordOf(r)
        /\ request[r] \in RequestRow /\ attempt[r] \in AttemptRow
    BY DEF RecordInv, TypeInv, TypeOK
  <2>1. CASE StartCreate(r)
    <3>1. /\ request'[r].step = "insert" /\ request'[r].kind = "create"
          /\ attempt' = attempt
      BY <2>1 DEF StartCreate, TypeInv, TypeOK, RequestRow, At
    <3> QED
      BY <2>0, <3>1 DEF RecordOf, At, Creating
  <2>2. CASE Insert(r)
    <3>1. /\ request'[r].step = "steps" /\ request[r].step = "insert"
          /\ request'[r].kind = request[r].kind
          /\ request'[r].verdict = request[r].verdict
      BY <2>2, GotoChange DEF Insert, Steps, At
    <3>2. /\ attempt'[r].status = IF Unclassified(r) THEN "PENDING" ELSE "CLASSIFIED"
          /\ attempt'[r].source = IF Unclassified(r) THEN "LLM" ELSE "RULE"
      BY <2>2 DEF Insert, TypeInv, TypeOK
    <3> QED
      BY <2>0, <3>1, <3>2 DEF RecordOf, At, Creating, Unclassified
  <2>3. CASE InsertSteps(r)
    <3>1. /\ request'[r].step = IF request[r].topic THEN "read" ELSE "send"
          /\ request[r].step = "steps"
          /\ request'[r].kind = request[r].kind /\ request'[r].topic = request[r].topic
          /\ request'[r].verdict = request[r].verdict
      BY <2>3 DEF InsertSteps, Goto, At, TypeInv, TypeOK, RequestRow
    <3>2. /\ attempt'[r].steps
          /\ attempt'[r].status = attempt[r].status /\ attempt'[r].source = attempt[r].source
      BY <2>3 DEF InsertSteps, TypeInv, TypeOK, AttemptRow
    <3> QED
      BY <2>0, <3>1, <3>2 DEF RecordOf, At, Creating, Unclassified
  <2>4. CASE ReadMastery(r)
    <3>1. /\ request'[r].step = "upsert" /\ request[r].step = "read"
          /\ request'[r].kind = request[r].kind /\ request'[r].topic = request[r].topic
          /\ request'[r].verdict = request[r].verdict
          /\ attempt' = attempt
      BY <2>4 DEF ReadMastery, At, TypeInv, TypeOK, RequestRow
    <3> QED
      BY <2>0, <3>1 DEF RecordOf, At, Creating, Unclassified
  <2>5. CASE UpsertMastery(r)
    <3>1. /\ request'[r].step = "send" /\ request[r].step = "upsert"
          /\ request'[r].kind = request[r].kind /\ request'[r].topic = request[r].topic
          /\ request'[r].verdict = request[r].verdict
      BY <2>5, GotoChange DEF UpsertMastery, Steps, At
    <3>2. /\ attempt'[r].fed /\ attempt'[r].steps = attempt[r].steps
          /\ attempt'[r].status = attempt[r].status /\ attempt'[r].source = attempt[r].source
      BY <2>5 DEF UpsertMastery, TypeInv, TypeOK, AttemptRow
    <3> QED
      BY <2>0, <3>1, <3>2 DEF RecordOf, At, Creating, Unclassified
  <2>6. CASE Send(r)
    <3>1. /\ request'[r].step = "answered" /\ request[r].step = "send"
          /\ request'[r].kind = request[r].kind /\ request'[r].topic = request[r].topic
          /\ request'[r].verdict = request[r].verdict
          /\ attempt' = attempt
          /\ Unclassified(r) => r \in classifyQueue'
      BY <2>6, GotoChange DEF Send, Steps, At
    <3> QED
      BY <2>0, <3>1 DEF RecordOf, At, Creating, Unclassified
  <2>7. CASE StartAdhoc(r)
    <3>1. /\ request'[r].step = "adhocInsert" /\ request'[r].kind = "adhoc"
          /\ attempt' = attempt
      BY <2>7 DEF StartAdhoc, TypeInv, TypeOK, RequestRow
    <3> QED
      BY <2>0, <3>1 DEF RecordOf, At, Creating
  <2>8. CASE AdhocInsert(r)
    <3>1. /\ request'[r].step = "adhocSend" /\ request[r].step = "adhocInsert"
          /\ request'[r].kind = request[r].kind
      BY <2>8, GotoChange DEF AdhocInsert, Steps, At
    <3>2. attempt'[r].status = "PENDING" /\ attempt'[r].source = "LLM"
      BY <2>8 DEF AdhocInsert, TypeInv, TypeOK, NoAttempt
    <3> QED
      BY <2>0, <3>1, <3>2 DEF RecordOf, At, Creating
  <2>9. CASE AdhocSend(r)
    <3>1. /\ request'[r].step = "answered" /\ request[r].step = "adhocSend"
          /\ request'[r].kind = request[r].kind
          /\ attempt' = attempt /\ r \in solveQueue'
      BY <2>9, GotoChange DEF AdhocSend, Steps, At
    <3> QED
      BY <2>0, <3>1 DEF RecordOf, At, Creating
  <2>10. CASE OcrUpdate(r)
    <3>1. /\ attempt'[r] = attempt[r]
          /\ request'[r].step \in {"insert", "answered"} /\ request'[r].kind = "ocr"
      BY <2>10, OcrChange
    <3> QED
      BY <2>0, <3>1 DEF RecordOf, At, Creating
  <2>11. CASE CreateThrows(r)
    <3>1. request'[r].step = "answered" /\ request'[r].kind = "ocr" /\ attempt' = attempt
      BY <2>11, GotoChange DEF CreateThrows, Steps
    <3> QED
      BY <2>0, <3>1 DEF RecordOf, At, Creating
  <2>12. CASE Acknowledge(r)
    BY <2>0, <2>12 DEF Acknowledge, RecordOf, At, Creating, Unclassified
  <2>13. CASE Fails(r)
    <3>1. request'[r].step = "failed" /\ attempt' = attempt
      BY <2>13, GotoChange DEF Fails, Steps
    <3> QED
      BY <2>0, <3>1 DEF RecordOf, At, Creating
  <2>14. CASE Classify(r) \/ Solve(r)
    <3>1. request' = request
      BY <2>14 DEF Classify, Solve
    <3> QED
      BY <2>0, <2>14, <3>1, EngineChange DEF RecordOf, At, Creating, Unclassified
  <2>15. CASE \E p \in Photos : Deliver(r, p)
    <3>1. request'[r].step = "ocr" /\ request'[r].kind = "ocr" /\ attempt' = attempt
      BY <2>15 DEF Deliver, TypeInv, TypeOK, RequestRow
    <3> QED
      BY <2>0, <3>1 DEF RecordOf, At, Creating
  <2> QED
    BY <1>2, <2>1, <2>2, <2>3, <2>4, <2>5, <2>6, <2>7, <2>8, <2>9, <2>10, <2>11, <2>12, <2>13,
       <2>14, <2>15 DEF StepOf, Create
<1> QED
  BY <1>1, <1>2, StepKinds

\* AnsweredIsRecorded, for all constants: whatever other requests, deliveries and
\* the engine do meanwhile, a request of create or solveAdhoc is answered only with
\* its attempt, steps, mastery and message to the engine in place.
THEOREM AnswersAreRecorded == Spec => []AnsweredIsRecorded
<1>1. Spec => [](TypeInv /\ RecordInv)
  BY InitTypes, NextTypes, InitRecord, NextRecord, PTL DEF Spec
<1>2. TypeInv /\ RecordInv => AnsweredIsRecorded
  BY DEF RecordInv, RecordOf, TypeInv, TypeOK, AnsweredIsRecorded, OnRecord, GetDetail, GetStatus,
         At, RequestRow, Kinds
<1> QED
  BY <1>1, <1>2, PTL

-----------------------------------------------------------------------------
(* What mastery is folded from *)

\* An answer is fed by the last write of its chain, and once: an invocation that
\* has still to write has not fed it.
FedOnce ==
  \A r \in Requests : attempt[r].fed => request[r].step \in {"send", "answered", "failed"}

SeenBy(seq) == {seq[i] : i \in 1..Len(seq)}

\* What an invocation has read is folded from distinct fed attempts; it is still
\* the row, and nobody else is about to write it, unless updates have overlapped.
PriorsAreFed ==
  \A r \in Requests : At(r, "upsert") =>
    /\ SeenBy(request[r].prior) \subseteq FedAttempts
    /\ Cardinality(SeenBy(request[r].prior)) = Len(request[r].prior)
    /\ ~overlapped =>
         /\ request[r].prior = mastery.seen
         /\ \A s \in Requests : At(s, "upsert") => s = r

MasteryInv == FedOnce /\ PriorsAreFed /\ CountIsExact /\ OnlyOverlapLosesAnswers

\* Appending an answer that is not there adds it to what is folded.
LEMMA AppendedAnswer ==
  ASSUME NEW seq \in Seq(Requests), NEW r \in Requests, r \notin SeenBy(seq),
         SeenBy(seq) \subseteq Requests, Cardinality(SeenBy(seq)) = Len(seq)
  PROVE  /\ SeenBy(Append(seq, r)) = SeenBy(seq) \union {r}
         /\ Cardinality(SeenBy(Append(seq, r))) = Len(Append(seq, r))
<1>1. SeenBy(Append(seq, r)) = SeenBy(seq) \union {r}
  <2>1. Len(Append(seq, r)) = Len(seq) + 1 /\ Len(seq) \in Nat
    OBVIOUS
  <2>2. \A i \in 1..Len(seq) : Append(seq, r)[i] = seq[i]
    OBVIOUS
  <2>3. Append(seq, r)[Len(seq) + 1] = r
    OBVIOUS
  <2>4. 1..(Len(seq) + 1) = (1..Len(seq)) \union {Len(seq) + 1}
    BY <2>1
  <2> QED
    BY <2>1, <2>2, <2>3, <2>4 DEF SeenBy
<1>2. IsFiniteSet(SeenBy(seq))
  BY FS_Subset, AttemptsAssumption
<1>3. Cardinality(SeenBy(seq) \union {r}) = Cardinality(SeenBy(seq)) + 1
  BY <1>2, FS_AddElement
<1> QED
  BY <1>1, <1>3

\* Nothing has been fed.
LEMMA InitMastery == Init => MasteryInv
<1> SUFFICES ASSUME Init PROVE MasteryInv
  OBVIOUS
<1>1. FedAttempts = {} /\ FedOnce
  BY AttemptsAssumption DEF Init, FedAttempts, FedOnce, NoAttempt
<1>2. PriorsAreFed
  BY DEF Init, PriorsAreFed, At, NewRequest
<1>3. Folded = {} /\ Len(mastery.seen) = 0 /\ mastery.count = 0
  BY DEF Init, Folded
<1>4. Cardinality({}) = 0
  BY FS_EmptySet
<1> QED
  BY <1>1, <1>2, <1>3, <1>4 DEF MasteryInv, CountIsExact, OnlyOverlapLosesAnswers

\* A step that neither reads nor writes mastery, and feeds no attempt, keeps
\* what is known of it, when it takes nobody to its write.
LEMMA MasteryStays ==
  ASSUME TypeInv, MasteryInv, NEW r \in Requests,
         UNCHANGED <<mastery, overlapped>>,
         \A a \in Requests : attempt'[a].fed = attempt[a].fed,
         \A s \in Requests \ {r} : request'[s] = request[s],
         request'[r].step # "upsert",
         attempt[r].fed => request'[r].step \in {"send", "answered", "failed"}
  PROVE  MasteryInv'
<1>1. FedAttempts' = FedAttempts
  BY DEF FedAttempts
<1>2. FedOnce'
  BY DEF MasteryInv, FedOnce
<1>3. Folded' = Folded
  BY DEF Folded
<1>4. PriorsAreFed'
  <2> SUFFICES ASSUME NEW s \in Requests, request'[s].step = "upsert"
               PROVE  /\ SeenBy(request'[s].prior) \subseteq FedAttempts
                      /\ Cardinality(SeenBy(request'[s].prior)) = Len(request'[s].prior)
                      /\ ~overlapped =>
                           /\ request'[s].prior = mastery.seen
                           /\ \A q \in Requests : request'[q].step = "upsert" => q = s
    BY <1>1 DEF PriorsAreFed, At, SeenBy
  <2>1. request'[s] = request[s]
    OBVIOUS
  <2> QED
    BY <2>1 DEF MasteryInv, PriorsAreFed, At
<1> QED
  BY <1>1, <1>2, <1>3, <1>4 DEF MasteryInv, CountIsExact, OnlyOverlapLosesAnswers

\* The same when no invocation moves.
LEMMA MasterySame ==
  ASSUME MasteryInv, UNCHANGED <<mastery, request, overlapped>>,
         \A a \in Requests : attempt'[a].fed = attempt[a].fed
  PROVE  MasteryInv'
<1>1. FedAttempts' = FedAttempts /\ Folded' = Folded
  BY DEF FedAttempts, Folded
<1>2. FedOnce'
  BY DEF MasteryInv, FedOnce
<1>3. PriorsAreFed'
  <2> SUFFICES ASSUME NEW s \in Requests, request'[s].step = "upsert"
               PROVE  /\ SeenBy(request'[s].prior) \subseteq FedAttempts
                      /\ Cardinality(SeenBy(request'[s].prior)) = Len(request'[s].prior)
                      /\ ~overlapped =>
                           /\ request'[s].prior = mastery.seen
                           /\ \A q \in Requests : request'[q].step = "upsert" => q = s
    BY <1>1 DEF PriorsAreFed, At, SeenBy
  <2>1. request' = request
    OBVIOUS
  <2> QED
    BY <2>1 DEF MasteryInv, PriorsAreFed, At
<1> QED
  BY <1>1, <1>2, <1>3 DEF MasteryInv, CountIsExact, OnlyOverlapLosesAnswers

\* Every action keeps what mastery is folded from.
LEMMA NextMastery == TypeInv /\ MasteryInv /\ [Next]_vars => MasteryInv'
<1> SUFFICES ASSUME TypeInv, MasteryInv, [Next]_vars PROVE MasteryInv'
  OBVIOUS
<1>0. CASE UNCHANGED <<attempt, mastery, request, classifyQueue, solveQueue, ocrQueue, overlapped>>
  BY <1>0, MasterySame
<1>1. ASSUME NEW r \in Requests,
             StartCreate(r) \/ StartAdhoc(r) \/ (\E p \in Photos : Deliver(r, p))
      PROVE  MasteryInv'
  <2>1. /\ request'[r].step \in {"insert", "adhocInsert", "ocr"} /\ request[r].step = "new"
        /\ attempt' = attempt /\ UNCHANGED <<mastery, overlapped>>
    <3>1. CASE StartCreate(r)
      BY <3>1 DEF StartCreate, At, TypeInv, TypeOK, RequestRow
    <3>2. CASE StartAdhoc(r)
      BY <3>2 DEF StartAdhoc, At, TypeInv, TypeOK, RequestRow
    <3>3. CASE \E p \in Photos : Deliver(r, p)
      BY <3>3 DEF Deliver, At, TypeInv, TypeOK, RequestRow
    <3> QED
      BY <1>1, <3>1, <3>2, <3>3
  <2>2. ~attempt[r].fed
    BY <2>1 DEF MasteryInv, FedOnce
  <2>3. \A s \in Requests \ {r} : request'[s] = request[s]
    BY <1>1, OthersStay DEF StepOf
  <2> QED
    BY <2>1, <2>2, <2>3, MasteryStays
<1>2. ASSUME NEW r \in Requests, Insert(r) \/ AdhocInsert(r) PROVE MasteryInv'
  <2>1. /\ request'[r].step \in {"steps", "adhocSend"}
        /\ request[r].step \in {"insert", "adhocInsert"}
        /\ UNCHANGED <<mastery, overlapped>>
    BY <1>2 DEF Insert, AdhocInsert, Goto, At, TypeInv, TypeOK, RequestRow
  <2>2. attempt'[r].fed = FALSE
    <3>1. CASE Insert(r)
      BY <3>1 DEF Insert, TypeInv, TypeOK
    <3>2. CASE AdhocInsert(r)
      BY <3>2 DEF AdhocInsert, NoAttempt, TypeInv, TypeOK
    <3> QED
      BY <1>2, <3>1, <3>2
  <2>3. attempt[r].fed = FALSE
    BY <2>1 DEF MasteryInv, FedOnce, TypeInv, TypeOK, AttemptRow
  <2>4. \A s \in Requests \ {r} : request'[s] = request[s] /\ attempt'[s] = attempt[s]
    BY <1>2, OthersStay DEF StepOf, Create
  <2> QED
    BY <2>1, <2>2, <2>3, <2>4, MasteryStays
<1>3. ASSUME NEW r \in Requests, InsertSteps(r) PROVE MasteryInv'
  <2>1. /\ request'[r].step \in {"read", "send"} /\ request[r].step = "steps"
        /\ UNCHANGED <<mastery, overlapped>>
    BY <1>3 DEF InsertSteps, Goto, At, TypeInv, TypeOK, RequestRow
  <2>2. attempt'[r].fed = attempt[r].fed
    BY <1>3 DEF InsertSteps, TypeInv, TypeOK, AttemptRow
  <2>3. ~attempt[r].fed
    BY <2>1 DEF MasteryInv, FedOnce
  <2>4. \A s \in Requests \ {r} : request'[s] = request[s] /\ attempt'[s] = attempt[s]
    BY <1>3, OthersStay DEF StepOf, Create
  <2> QED
    BY <2>1, <2>2, <2>3, <2>4, MasteryStays
<1>4. ASSUME NEW r \in Requests, ReadMastery(r) PROVE MasteryInv'
  <2>1. /\ request'[r].step = "upsert" /\ request'[r].prior = mastery.seen
        /\ request[r].step = "read"
        /\ UNCHANGED <<attempt, mastery>>
        /\ overlapped' = (overlapped \/ \E s \in Requests : At(s, "upsert"))
        /\ \A s \in Requests \ {r} : request'[s] = request[s]
    BY <1>4 DEF ReadMastery, At, TypeInv, TypeOK, RequestRow
  <2>2. FedAttempts' = FedAttempts /\ Folded' = Folded
    BY <2>1 DEF FedAttempts, Folded
  <2>3. FedOnce'
    BY <2>1 DEF MasteryInv, FedOnce
  <2>4. ~overlapped' => ~overlapped /\ \A s \in Requests : ~At(s, "upsert")
    BY <2>1 DEF TypeInv, TypeOK
  <2>5. PriorsAreFed'
    <3> SUFFICES ASSUME NEW s \in Requests, request'[s].step = "upsert"
                 PROVE  /\ SeenBy(request'[s].prior) \subseteq FedAttempts
                        /\ Cardinality(SeenBy(request'[s].prior)) = Len(request'[s].prior)
                        /\ ~overlapped' =>
                             /\ request'[s].prior = mastery.seen
                             /\ \A q \in Requests : request'[q].step = "upsert" => q = s
      BY <2>1, <2>2 DEF PriorsAreFed, At, SeenBy
    <3>1. CASE s = r
      BY <2>1, <2>4, <3>1 DEF MasteryInv, OnlyOverlapLosesAnswers, Folded, SeenBy, At
    <3>2. CASE s # r
      <4>1. request'[s] = request[s] /\ At(s, "upsert")
        BY <2>1, <3>2 DEF At
      <4>2. overlapped'
        BY <2>4, <4>1 DEF At
      <4> QED
        BY <4>1, <4>2 DEF MasteryInv, PriorsAreFed
    <3> QED
      BY <3>1, <3>2
  <2>6. CountIsExact' /\ OnlyOverlapLosesAnswers'
    BY <2>1, <2>2, <2>4 DEF MasteryInv, CountIsExact, OnlyOverlapLosesAnswers
  <2> QED
    BY <2>3, <2>5, <2>6 DEF MasteryInv
<1>5. ASSUME NEW r \in Requests, UpsertMastery(r) PROVE MasteryInv'
  <2> DEFINE prior == request[r].prior
  <2>1. /\ request[r].step = "upsert" /\ request'[r].step = "send"
        /\ mastery'.count = mastery.count + 1 /\ mastery'.seen = Append(prior, r)
        /\ UNCHANGED overlapped
        /\ \A s \in Requests \ {r} : request'[s] = request[s] /\ attempt'[s] = attempt[s]
    BY <1>5, GotoChange, OthersStay DEF UpsertMastery, StepOf, Create, Steps, At
  <2>2. attempt'[r].fed
    BY <1>5 DEF UpsertMastery, TypeInv, TypeOK, AttemptRow
  <2>3. ~attempt[r].fed
    BY <2>1 DEF MasteryInv, FedOnce
  <2>4. FedAttempts' = FedAttempts \union {r} /\ r \notin FedAttempts
    BY <2>1, <2>2, <2>3 DEF FedAttempts
  <2>5. FedAttempts \subseteq Requests /\ IsFiniteSet(FedAttempts)
    BY FS_Subset, AttemptsAssumption DEF FedAttempts
  <2>6. prior \in Seq(Requests) /\ mastery.count \in Nat
    BY DEF TypeInv, TypeOK, RequestRow
  <2>7. /\ SeenBy(prior) \subseteq FedAttempts
        /\ Cardinality(SeenBy(prior)) = Len(prior)
        /\ ~overlapped =>
             /\ prior = mastery.seen
             /\ \A s \in Requests : At(s, "upsert") => s = r
    BY <2>1 DEF MasteryInv, PriorsAreFed, At
  <2>8. /\ SeenBy(mastery'.seen) = SeenBy(prior) \union {r}
        /\ Cardinality(SeenBy(mastery'.seen)) = Len(mastery'.seen)
    <3>1. r \notin SeenBy(prior) /\ SeenBy(prior) \subseteq Requests
      BY <2>4, <2>5, <2>7
    <3> HIDE DEF prior
    <3> QED
      BY <2>1, <2>6, <2>7, <3>1, AppendedAnswer
  <2>9. Folded' = SeenBy(mastery'.seen) /\ Folded = SeenBy(mastery.seen)
    BY DEF Folded, SeenBy
  <2>10. FedOnce'
    BY <2>1 DEF MasteryInv, FedOnce
  <2>11. PriorsAreFed'
    <3> SUFFICES ASSUME NEW s \in Requests, request'[s].step = "upsert"
                 PROVE  /\ SeenBy(request'[s].prior) \subseteq FedAttempts'
                        /\ Cardinality(SeenBy(request'[s].prior)) = Len(request'[s].prior)
                        /\ overlapped
      BY <2>1 DEF PriorsAreFed, At, SeenBy
    <3>1. s # r /\ request'[s] = request[s] /\ At(s, "upsert") /\ At(r, "upsert")
      BY <2>1 DEF At
    <3> QED
      BY <2>4, <2>7, <3>1 DEF MasteryInv, PriorsAreFed
  <2>12. CountIsExact'
    <3>1. Cardinality(FedAttempts') = Cardinality(FedAttempts) + 1
      BY <2>4, <2>5, FS_AddElement
    <3> QED
      BY <2>1, <3>1 DEF MasteryInv, CountIsExact
  <2>13. OnlyOverlapLosesAnswers'
    <3>1. ~overlapped => Folded = FedAttempts /\ Folded = SeenBy(prior)
      BY <2>7, <2>9 DEF MasteryInv, OnlyOverlapLosesAnswers
    <3> QED
      BY <2>1, <2>4, <2>7, <2>8, <2>9, <3>1 DEF OnlyOverlapLosesAnswers
  <2> QED
    BY <2>10, <2>11, <2>12, <2>13 DEF MasteryInv
<1>6. ASSUME NEW r \in Requests,
             Send(r) \/ AdhocSend(r) \/ CreateThrows(r) \/ Fails(r)
      PROVE  MasteryInv'
  <2>1. /\ request'[r].step \in {"answered", "failed"}
        /\ attempt' = attempt /\ UNCHANGED <<mastery, overlapped>>
    BY <1>6 DEF Send, AdhocSend, CreateThrows, Fails, Goto, TypeInv, TypeOK, RequestRow
  <2>2. \A s \in Requests \ {r} : request'[s] = request[s]
    BY <1>6, OthersStay DEF StepOf, Create
  <2> QED
    BY <2>1, <2>2, MasteryStays
<1>7. ASSUME NEW r \in Requests, OcrUpdate(r) PROVE MasteryInv'
  <2>1. ~attempt[r].fed
    BY <1>7, OcrChange DEF MasteryInv, FedOnce
  <2>2. UNCHANGED <<mastery, overlapped>>
    BY <1>7 DEF OcrUpdate
  <2> QED
    BY <1>7, <2>1, <2>2, OcrChange, MasteryStays
<1>8. ASSUME NEW r \in Requests, Acknowledge(r) PROVE MasteryInv'
  BY <1>8, MasterySame DEF Acknowledge
<1>9. ASSUME NEW r \in Requests, Classify(r) \/ Solve(r) PROVE MasteryInv'
  <2>1. UNCHANGED <<mastery, request, overlapped>>
    BY <1>9 DEF Classify, Solve
  <2>2. \A a \in Requests : attempt'[a].fed = attempt[a].fed
    BY <1>9, EngineChange
  <2> QED
    BY <2>1, <2>2, MasterySame
<1> QED
  BY <1>0, <1>1, <1>2, <1>3, <1>4, <1>5, <1>6, <1>7, <1>8, <1>9, StepKinds DEF StepOf, Create

\* CountIsExact, for all constants: whatever fails and overlaps, the count that the
\* database increments is the number of attempts fed to BKT.
THEOREM AttemptsAreCounted == Spec => []CountIsExact
<1>1. Spec => [](TypeInv /\ MasteryInv)
  BY InitTypes, NextTypes, InitMastery, NextMastery, PTL DEF Spec
<1>2. TypeInv /\ MasteryInv => CountIsExact
  BY DEF MasteryInv
<1> QED
  BY <1>1, <1>2, PTL

\* OnlyOverlapLosesAnswers, for all constants: no answer is folded twice, none that
\* was not fed, and one that was fed is lost only when two updates overlapped.
THEOREM LossesNeedAnOverlap == Spec => []OnlyOverlapLosesAnswers
<1>1. Spec => [](TypeInv /\ MasteryInv)
  BY InitTypes, NextTypes, InitMastery, NextMastery, PTL DEF Spec
<1>2. TypeInv /\ MasteryInv => OnlyOverlapLosesAnswers
  BY DEF MasteryInv
<1> QED
  BY <1>1, <1>2, PTL

-----------------------------------------------------------------------------
(* The photographs *)

\* A worker that is past the update of the photograph has marked it.
PhotoInv ==
  /\ \A r \in Requests :
       request[r].kind = "ocr" /\ request[r].step \notin {"ocr", "failed"} =>
         attempt[request[r].photo].status = "OCR_DONE"
  /\ SettledIsMarked

\* Nobody works on a photograph yet.
LEMMA InitPhotos == Init => PhotoInv
BY DEF Init, PhotoInv, SettledIsMarked, NewRequest

\* A step that leaves the OCR queue and the marked photographs as they are keeps
\* what is known of them, when its own invocation is no delivery, or was past the
\* update already.
LEMMA PhotosStay ==
  ASSUME TypeInv, PhotoInv, NEW r \in Requests, UNCHANGED ocrQueue,
         \A p \in Photos : attempt'[p] = attempt[p],
         \A s \in Requests \ {r} : request'[s] = request[s],
         \/ request'[r].kind # "ocr"
         \/ request'[r].step \in {"ocr", "failed"}
         \/ /\ request'[r].kind = request[r].kind /\ request'[r].photo = request[r].photo
            /\ request[r].step \notin {"ocr", "failed"}
  PROVE  PhotoInv'
<1>1. ASSUME NEW s \in Requests, request'[s].kind = "ocr",
             request'[s].step \notin {"ocr", "failed"}
      PROVE  attempt'[request'[s].photo].status = "OCR_DONE"
  <2>1. request[s].kind = "ocr" /\ request[s].step \notin {"ocr", "failed"}
        /\ request'[s].photo = request[s].photo
    BY <1>1
  <2>2. request[s].photo \in Photos
    BY <2>1 DEF TypeInv
  <2> QED
    BY <2>1, <2>2 DEF PhotoInv
<1>2. SettledIsMarked'
  BY DEF PhotoInv, SettledIsMarked
<1> QED
  BY <1>1, <1>2 DEF PhotoInv

\* Every action keeps the photographs marked.
LEMMA NextPhotos == TypeInv /\ PhotoInv /\ [Next]_vars => PhotoInv'
<1> SUFFICES ASSUME TypeInv, PhotoInv, [Next]_vars PROVE PhotoInv'
  OBVIOUS
<1>0. CASE UNCHANGED <<attempt, mastery, request, classifyQueue, solveQueue, ocrQueue, overlapped>>
  BY <1>0 DEF PhotoInv, SettledIsMarked
<1>1. ASSUME NEW r \in Requests, StartCreate(r) \/ StartAdhoc(r) PROVE PhotoInv'
  <2>1. /\ request'[r].kind # "ocr" /\ UNCHANGED <<ocrQueue, attempt>>
    <3>1. CASE StartCreate(r)
      BY <3>1 DEF StartCreate, At, TypeInv, TypeOK, RequestRow
    <3>2. CASE StartAdhoc(r)
      BY <3>2 DEF StartAdhoc, At, TypeInv, TypeOK, RequestRow
    <3> QED
      BY <1>1, <3>1, <3>2
  <2>2. \A s \in Requests \ {r} : request'[s] = request[s]
    BY <1>1, OthersStay DEF StepOf
  <2> QED
    BY <2>1, <2>2, PhotosStay
<1>2. ASSUME NEW r \in Requests,
             \/ Insert(r) \/ InsertSteps(r) \/ UpsertMastery(r) \/ Send(r)
             \/ AdhocInsert(r) \/ AdhocSend(r) \/ CreateThrows(r)
      PROVE  PhotoInv'
  <2>1. PICK step \in Steps : Goto(r, step)
    BY <1>2 DEF Insert, InsertSteps, UpsertMastery, Send, AdhocInsert, AdhocSend, CreateThrows, Steps
  <2>2. request[r].step \notin {"ocr", "failed"} /\ UNCHANGED ocrQueue
    BY <1>2 DEF Insert, InsertSteps, UpsertMastery, Send, AdhocInsert, AdhocSend, CreateThrows,
                At, Creating
  <2>3. \A p \in Photos : attempt'[p] = attempt[p]
    BY <1>2, AttemptsAssumption
    DEF Insert, InsertSteps, UpsertMastery, Send, AdhocInsert, AdhocSend, CreateThrows, TypeInv, TypeOK
  <2> QED
    BY <2>1, <2>2, <2>3, GotoChange, PhotosStay
<1>3. ASSUME NEW r \in Requests, ReadMastery(r) PROVE PhotoInv'
  <2>1. /\ request'[r].kind = request[r].kind /\ request'[r].photo = request[r].photo
        /\ request[r].step = "read" /\ UNCHANGED <<ocrQueue, attempt>>
        /\ \A s \in Requests \ {r} : request'[s] = request[s]
    BY <1>3 DEF ReadMastery, At, TypeInv, TypeOK, RequestRow
  <2> QED
    BY <2>1, PhotosStay
<1>4. ASSUME NEW r \in Requests, OcrUpdate(r) PROVE PhotoInv'
  <2>1. ocrQueue' = ocrQueue
    BY <1>4 DEF OcrUpdate
  <2>2. \A p \in Photos : attempt[p].status = "OCR_DONE" => attempt'[p].status = "OCR_DONE"
    BY <1>4, OcrChange
  <2>3. SettledIsMarked'
    BY <2>1, <2>2 DEF PhotoInv, SettledIsMarked
  <2>4. ASSUME NEW s \in Requests, request'[s].kind = "ocr",
               request'[s].step \notin {"ocr", "failed"}
        PROVE  attempt'[request'[s].photo].status = "OCR_DONE"
    <3>1. CASE s = r
      BY <1>4, <3>1, OcrChange
    <3>2. CASE s # r
      <4>1. request'[s] = request[s] /\ request[s].photo \in Photos
        BY <1>4, <2>4, <3>2, OcrChange DEF TypeInv
      <4> QED
        BY <2>2, <2>4, <4>1 DEF PhotoInv
    <3> QED
      BY <3>1, <3>2
  <2> QED
    BY <2>3, <2>4 DEF PhotoInv
<1>5. ASSUME NEW r \in Requests, NEW p \in Photos, Deliver(r, p) PROVE PhotoInv'
  <2>1. /\ request'[r].step = "ocr" /\ attempt' = attempt
        /\ ocrQueue'[p].place = "inFlight"
        /\ \A q \in Photos \ {p} : ocrQueue'[q] = ocrQueue[q]
        /\ \A s \in Requests \ {r} : request'[s] = request[s]
    BY <1>5 DEF Deliver, TypeInv, TypeOK, RequestRow
  <2> QED
    BY <2>1 DEF PhotoInv, SettledIsMarked
<1>6. ASSUME NEW r \in Requests, Acknowledge(r) PROVE PhotoInv'
  <2>1. /\ UNCHANGED <<attempt, request>>
        /\ request[r].kind = "ocr" /\ request[r].step = "answered"
        /\ \A p \in Photos \ {request[r].photo} : ocrQueue'[p] = ocrQueue[p]
    BY <1>6 DEF Acknowledge, InFlightFor, DeleteMessage, At, TypeInv, TypeOK
  <2>2. attempt[request[r].photo].status = "OCR_DONE"
    BY <2>1 DEF PhotoInv
  <2> QED
    BY <2>1, <2>2 DEF PhotoInv, SettledIsMarked
<1>7. ASSUME NEW r \in Requests, Fails(r) PROVE PhotoInv'
  <2>1. attempt' = attempt /\ Goto(r, "failed")
    BY <1>7 DEF Fails
  <2>2. \A p \in Photos : ocrQueue'[p].place = "deleted" => ocrQueue[p].place = "deleted"
    <3>1. CASE request[r].kind = "ocr"
      <4>1. request[r].photo \in Photos /\ Redrive(r)
        BY <1>7, <3>1 DEF Fails, TypeInv
      <4> QED
        BY <4>1 DEF Redrive, TypeInv, TypeOK
    <3>2. CASE request[r].kind # "ocr"
      BY <1>7, <3>2 DEF Fails
    <3> QED
      BY <3>1, <3>2
  <2> QED
    BY <2>1, <2>2, GotoChange DEF PhotoInv, SettledIsMarked, Steps
<1>8. ASSUME NEW r \in Requests, Classify(r) \/ Solve(r) PROVE PhotoInv'
  <2>1. UNCHANGED <<request, ocrQueue>>
    BY <1>8 DEF Classify, Solve
  <2>2. \A p \in Photos : attempt'[p] = attempt[p]
    BY <1>8, EngineChange, AttemptsAssumption
  <2>3. \A s \in Requests : request[s].kind = "ocr" => request[s].photo \in Photos
    BY DEF TypeInv
  <2> QED
    BY <2>1, <2>2, <2>3 DEF PhotoInv, SettledIsMarked
<1> QED
  BY <1>0, <1>1, <1>2, <1>3, <1>4, <1>5, <1>6, <1>7, <1>8, StepKinds DEF StepOf, Create

\* SettledIsMarked, for all constants: no failure or redelivery takes an OCR result
\* off its queue before its photograph is marked.
THEOREM SettledPhotosAreMarked == Spec => []SettledIsMarked
<1>1. Spec => [](TypeInv /\ PhotoInv)
  BY InitTypes, NextTypes, InitPhotos, NextPhotos, PTL DEF Spec
<1>2. TypeInv /\ PhotoInv => SettledIsMarked
  BY DEF PhotoInv
<1> QED
  BY <1>1, <1>2, PTL

=============================================================================
