----------------------- MODULE SubmissionGradingProofs -----------------------
(***************************************************************************)
(* Theorems about SubmissionGrading, for any messages, submissions, Lambdas *)
(* and limits: types, the completeness of grades, and that no result is     *)
(* deleted ungraded.                                                        *)
(***************************************************************************)
EXTENDS SubmissionGrading, FiniteSetTheorems, TLAPS

-----------------------------------------------------------------------------
(* Types. TypeOK is not inductive by itself: that a receipt stays within the *)
(* redrive limit rests on where the message is, and that only deliveries end *)
(* up as done on a worker having a record whenever it is in the chain.       *)

Working == WorkerSteps \ {"idle", "next"}

\* A message that can be received has not used up its receipts.
ReceiptsInv == \A m \in Messages : queue[m].place = "queue" => ReceiptsLeft(m)

\* A worker is in the chain exactly when it has a record at hand.
RecordInv == \A w \in Workers : worker[w].record # None <=> worker[w].step \in Working

TypeInv == TypeOK /\ ReceiptsInv /\ RecordInv

\* The record a worker holds is a delivery, of a submission.
LEMMA WorkerTypes ==
  ASSUME TypeInv, NEW w \in Workers
  PROVE  /\ worker[w] \in WorkerRecord
         /\ worker[w].record # None => Record(w) \in Deliveries /\ Target(w) \in Submissions
BY GradingAssumption
   DEF TypeInv, TypeOK, Record, Target, Subject, Deliveries, WorkerRecord

\* A worker that goes on with a record it has.
LEMMA GotoKeepsTypes ==
  ASSUME TypeInv, NEW w \in Workers, worker[w].step \in Working,
         NEW step \in Working, Goto(w, step)
  PROVE  worker' \in [Workers -> WorkerRecord] /\ RecordInv'
BY DEF TypeInv, TypeOK, RecordInv, Goto, Working, WorkerRecord

\* The types hold at first.
LEMMA InitTypes == Init => TypeInv
<1> SUFFICES ASSUME Init PROVE TypeInv
  OBVIOUS
<1>1. TypeOK
  BY GradingAssumption DEF Init, TypeOK, SubmissionRow, AttemptRow, NoAttempt, Bare, WorkerRecord,
     WorkerSteps, IdleWorker, Places
<1>2. ReceiptsInv /\ RecordInv
  BY GradingAssumption DEF Init, ReceiptsInv, ReceiptsLeft, RecordInv, IdleWorker, Working
<1> QED
  BY <1>1, <1>2 DEF TypeInv

\* A worker that receives a batch keeps the types.
LEMMA ReceiveTypes ==
  ASSUME TypeInv, NEW w \in Workers, Receive(w)
  PROVE  TypeInv'
<1>1. PICK batch \in SUBSET Visible :
        /\ queue' = [m \in Messages |->
             IF m \in batch
             THEN [place |-> "inFlight", receives |-> queue[m].receives + 1]
             ELSE queue[m]]
        /\ worker' = [worker EXCEPT ![w] =
             Batch({<<m, queue[m].receives + 1>> : m \in batch}, {})]
  BY DEF Receive
<1>2. \A m \in batch : m \in Messages /\ queue[m].receives + 1 \in 1..MaxReceive
  BY GradingAssumption DEF TypeInv, TypeOK, ReceiptsInv, ReceiptsLeft, Visible
<1>3. queue' \in [Messages -> [place : Places, receives : 0..MaxReceive]]
  BY <1>1, <1>2 DEF TypeInv, TypeOK, Places
<1>4. ReceiptsInv'
  BY <1>1 DEF TypeInv, ReceiptsInv, ReceiptsLeft
<1>5. {<<m, queue[m].receives + 1>> : m \in batch} \in SUBSET Deliveries
  BY <1>2 DEF Deliveries
<1>7. worker' \in [Workers -> WorkerRecord] /\ RecordInv'
  BY <1>1, <1>5 DEF Batch, TypeInv, TypeOK, RecordInv, Working, WorkerRecord, WorkerSteps
<1> QED
  BY <1>3, <1>4, <1>7 DEF TypeInv, TypeOK, Receive

\* A worker that takes a record of its batch keeps the types.
LEMMA TakeRecordTypes ==
  ASSUME TypeInv, NEW w \in Workers, TakeRecord(w)
  PROVE  TypeInv'
<1>1. PICK d \in worker[w].todo :
        worker' = [worker EXCEPT ![w] = Taken(w, d)]
  BY DEF TakeRecord
<1>2. d \in Deliveries /\ d # None
  BY GradingAssumption DEF TypeInv, TypeOK, WorkerRecord, Deliveries
<1>3. worker' \in [Workers -> WorkerRecord] /\ RecordInv'
  <2>1. CASE AlreadyGraded(d)
    BY <1>1, <1>2, <2>1 DEF Taken, Batch, TypeInv, TypeOK, RecordInv, WorkerRecord, WorkerSteps, Working
  <2>2. CASE ~AlreadyGraded(d)
    BY <1>1, <1>2, <2>2 DEF Taken, TypeInv, TypeOK, RecordInv, WorkerRecord, WorkerSteps, Working
  <2> QED
    BY <2>1, <2>2
<1> QED
  BY <1>3 DEF TakeRecord, TypeInv, TypeOK, ReceiptsInv, ReceiptsLeft

\* Every step keeps the types.
LEMMA NextTypes == TypeInv /\ [Next]_vars => TypeInv'
<1> SUFFICES ASSUME TypeInv, [Next]_vars PROVE TypeInv'
  OBVIOUS
<1>0. IdleWorker \in WorkerRecord /\ IdleWorker.record = None /\ IdleWorker.step \notin Working
  BY DEF IdleWorker, WorkerRecord, WorkerSteps, Working
<1>1. ASSUME UNCHANGED queue PROVE ReceiptsInv'
  BY <1>1 DEF TypeInv, ReceiptsInv, ReceiptsLeft
<1>2. ASSUME NEW w \in Workers, WriteGrading(w) PROVE TypeInv'
  <2>1. worker[w].step \in Working /\ Goto(w, "attempt") /\ UNCHANGED <<queue, attempt, mastery>>
    BY <1>2 DEF WriteGrading, At, Working, WorkerSteps
  <2>2. submission' \in [Submissions -> SubmissionRow]
    <3>1. IsCorrect(Record(w)) \in BOOLEAN
      BY DEF IsCorrect
    <3>2. submission' = [submission EXCEPT ![Target(w)] =
            [status |-> "GRADING", correct |-> IsCorrect(Record(w)),
             attempt |-> submission[Target(w)].attempt]]
      BY <1>2 DEF WriteGrading
    <3>3. Target(w) \in Submissions
      BY <2>1, WorkerTypes DEF TypeInv, RecordInv
    <3> QED
      BY <3>1, <3>2, <3>3 DEF TypeInv, TypeOK, SubmissionRow
  <2> QED
    BY <1>1, <2>1, <2>2, GotoKeepsTypes DEF TypeInv, TypeOK, Working, WorkerSteps
<1>3. ASSUME NEW w \in Workers, CreateAttempt(w) PROVE TypeInv'
  <2>1. worker[w].step \in Working /\ Goto(w, "steps") /\ UNCHANGED <<queue, submission, mastery>>
    BY <1>3 DEF CreateAttempt, At, Working, WorkerSteps
  <2>2. attempt' \in [Deliveries -> AttemptRow]
    <3>1. Bare(TRUE, IsCorrect(Record(w))) \in AttemptRow
      BY DEF Bare, AttemptRow, IsCorrect
    <3> QED
      BY <1>3, <3>1 DEF CreateAttempt, TypeInv, TypeOK
  <2> QED
    BY <1>1, <2>1, <2>2, GotoKeepsTypes DEF TypeInv, TypeOK, Working, WorkerSteps
<1>4. ASSUME NEW w \in Workers, CreateSteps(w) PROVE TypeInv'
  <2>1. worker[w].step \in Working /\ Goto(w, "mastery") /\ UNCHANGED <<queue, submission, mastery>>
    BY <1>4 DEF CreateSteps, At, Working, WorkerSteps
  <2>2. attempt' \in [Deliveries -> AttemptRow]
    BY <1>4 DEF CreateSteps, TypeInv, TypeOK, AttemptRow
  <2> QED
    BY <1>1, <2>1, <2>2, GotoKeepsTypes DEF TypeInv, TypeOK, Working, WorkerSteps
<1>5. ASSUME NEW w \in Workers, ApplyMastery(w) PROVE TypeInv'
  <2>1. worker[w].step \in Working /\ Goto(w, "classify") /\ UNCHANGED <<queue, submission>>
    BY <1>5 DEF ApplyMastery, At, Working, WorkerSteps
  <2>2. attempt' \in [Deliveries -> AttemptRow] /\ mastery' \in [Submissions -> Nat]
    <3>1. CASE Target(w) \in WithTopic
      <4>1. /\ attempt' = [attempt EXCEPT ![Record(w)].mastery = TRUE]
            /\ mastery' = [mastery EXCEPT ![Target(w)] = @ + 1]
        BY <1>5, <3>1 DEF ApplyMastery
      <4>2. attempt' \in [Deliveries -> AttemptRow]
        BY <4>1 DEF TypeInv, TypeOK, AttemptRow
      <4>3. Target(w) \in Submissions
        BY <3>1, GradingAssumption
      <4>4. mastery' \in [Submissions -> Nat]
        BY <4>1, <4>3 DEF TypeInv, TypeOK
      <4> QED
        BY <4>2, <4>4
    <3>2. CASE Target(w) \notin WithTopic
      BY <1>5, <3>2 DEF ApplyMastery, TypeInv, TypeOK
    <3> QED
      BY <3>1, <3>2
  <2> QED
    BY <1>1, <2>1, <2>2, GotoKeepsTypes DEF TypeInv, TypeOK, Working, WorkerSteps
<1>6. ASSUME NEW w \in Workers, AskClassifier(w) PROVE TypeInv'
  <2>1. worker[w].step \in Working /\ Goto(w, "close") /\ UNCHANGED <<queue, submission, mastery>>
    BY <1>6 DEF AskClassifier, At, Working, WorkerSteps
  <2>2. attempt' \in [Deliveries -> AttemptRow]
    BY <1>6 DEF AskClassifier, TypeInv, TypeOK, AttemptRow
  <2> QED
    BY <1>1, <2>1, <2>2, GotoKeepsTypes DEF TypeInv, TypeOK, Working, WorkerSteps
<1>7. ASSUME NEW w \in Workers, Close(w) PROVE TypeInv'
  <2>1. worker[w].record # None /\ Record(w) \in Deliveries
    BY <1>7, WorkerTypes DEF Close, At, TypeInv, RecordInv, Working, WorkerSteps
  <2>2. submission' \in [Submissions -> SubmissionRow]
    BY <1>7, <2>1 DEF Close, TypeInv, TypeOK, SubmissionRow
  <2>3. worker' \in [Workers -> WorkerRecord] /\ RecordInv'
    BY <1>7, <2>1 DEF Close, RecordDone, Batch, TypeInv, TypeOK, RecordInv, WorkerRecord, WorkerSteps, Working
  <2> QED
    BY <1>1, <1>7, <2>2, <2>3 DEF Close, TypeInv, TypeOK
<1>8. ASSUME NEW w \in Workers, HandlerReturns(w) PROVE TypeInv'
  <2>1. queue' \in [Messages -> [place : Places, receives : 0..MaxReceive]] /\ ReceiptsInv'
    BY <1>8 DEF HandlerReturns, TypeInv, TypeOK, ReceiptsInv, ReceiptsLeft, Places
  <2>2. worker' \in [Workers -> WorkerRecord] /\ RecordInv'
    BY <1>0, <1>8 DEF HandlerReturns, TypeInv, TypeOK, RecordInv
  <2> QED
    BY <1>8, <2>1, <2>2 DEF HandlerReturns, TypeInv, TypeOK
<1>9. ASSUME NEW w \in Workers, RecordFails(w) PROVE TypeInv'
  <2>1. worker' \in [Workers -> WorkerRecord] /\ RecordInv'
    BY <1>9 DEF RecordFails, Batch, TypeInv, TypeOK, RecordInv, WorkerRecord, WorkerSteps, Working
  <2> QED
    BY <1>1, <1>9, <2>1 DEF RecordFails, TypeInv, TypeOK
<1>10. ASSUME NEW w \in Workers, Crash(w) PROVE TypeInv'
  <2>1. worker' \in [Workers -> WorkerRecord] /\ RecordInv'
    BY <1>0, <1>10 DEF Crash, TypeInv, TypeOK, RecordInv
  <2> QED
    BY <1>1, <1>10, <2>1 DEF Crash, TypeInv, TypeOK
<1>11. ASSUME NEW m \in Messages, VisibilityExpires(m) PROVE TypeInv'
  <2>1. queue' \in [Messages -> [place : Places, receives : 0..MaxReceive]] /\ ReceiptsInv'
    BY <1>11 DEF VisibilityExpires, TypeInv, TypeOK, ReceiptsInv, ReceiptsLeft, Places
  <2> QED
    BY <1>11, <2>1 DEF VisibilityExpires, TypeInv, TypeOK, RecordInv
<1>12. CASE UNCHANGED vars
  BY <1>12 DEF vars, TypeInv, TypeOK, ReceiptsInv, ReceiptsLeft, RecordInv
<1> QED
  BY <1>2, <1>3, <1>4, <1>5, <1>6, <1>7, <1>8, <1>9, <1>10, <1>11, <1>12, ReceiveTypes,
     TakeRecordTypes DEF Next, Process

\* Rows, receipts and batches keep their types, and no message is received more
\* often than the redrive policy allows.
THEOREM GradingTypeCorrect == Spec => []TypeOK
<1>1. Spec => []TypeInv
  BY InitTypes, NextTypes, PTL DEF Spec
<1>2. TypeInv => TypeOK
  BY DEF TypeInv
<1> QED
  BY <1>1, <1>2, PTL

-----------------------------------------------------------------------------
(* A grade has its whole evidence, and only graded results are deleted.     *)
(* The hazard is a chain that runs again: it must not reset the attempt     *)
(* that a grade points to. It cannot, because every receipt is held by one  *)
(* worker at most and a chain that has not reached its attempt yet has a    *)
(* receipt without one.                                                     *)

Holds(w, d) == d \in worker[w].todo \/ d = worker[w].record

\* A receipt still to be given out is held by nobody and has no attempt.
FreshInv ==
  \A d \in Deliveries : queue[d[1]].receives < d[2] =>
    ~attempt[d].exists /\ \A w \in Workers : ~Holds(w, d)

\* A receipt is held once.
ExclusiveInv ==
  /\ \A w, v \in Workers : \A d \in Deliveries : Holds(w, d) /\ Holds(v, d) => w = v
  /\ \A w \in Workers : worker[w].record \notin worker[w].todo

\* Receipts whose chain has not come to its attempt have none.
UntouchedInv ==
  \A w \in Workers : \A d \in Deliveries :
    \/ d \in worker[w].todo
    \/ d = worker[w].record /\ worker[w].step \in {"grading", "attempt"}
    => ~attempt[d].exists

\* What the chain has behind it at each of its steps.
ProgressInv ==
  \A w \in Workers :
    LET step == worker[w].step
        row == attempt[worker[w].record]
    IN /\ step \in {"steps", "mastery", "classify", "close"} =>
            row.exists /\ row.correct = IsCorrect(worker[w].record)
       /\ step \in {"mastery", "classify", "close"} => row.steps
       /\ step \in {"classify", "close"} /\ Subject(worker[w].record) \in WithTopic => row.mastery
       /\ step = "close" /\ ~row.correct => row.asked

\* The attempt a submission points to is its own and complete.
LinkInv ==
  \A s \in Submissions :
    /\ submission[s].status = "GRADED" => submission[s].attempt # None
    /\ submission[s].attempt # None =>
         Subject(submission[s].attempt) = s /\ Complete(submission[s].attempt)

\* A receipt is done, and its message deleted, only after a grade.
DoneInv ==
  /\ \A w \in Workers : \A d \in worker[w].done : submission[Subject(d)].attempt # None
  /\ \A m \in Messages :
       queue[m].place = "deleted" => submission[SubmissionOf[m]].attempt # None

GradingInv ==
  /\ TypeInv
  /\ FreshInv
  /\ ExclusiveInv
  /\ UntouchedInv
  /\ ProgressInv
  /\ LinkInv
  /\ DoneInv

\* The part of the invariant that is about who holds what.
ChainInv == FreshInv /\ ExclusiveInv /\ UntouchedInv /\ ProgressInv

\* A delivery is a message and the number of times it has been received.
LEMMA DeliveryFacts ==
  ASSUME NEW d \in Deliveries
  PROVE  d # None /\ d[1] \in Messages /\ d[2] \in 1..MaxReceive /\ d = <<d[1], d[2]>>
         /\ Subject(d) \in Submissions
BY GradingAssumption DEF Deliveries, Subject

\* A worker that drops receipts, or takes one of its batch to its chain, keeps
\* ChainInv: nothing is held twice by it.
LEMMA ShrinkKeepsChain ==
  ASSUME TypeInv, ChainInv, NEW w \in Workers, NEW X,
         worker' = [worker EXCEPT ![w] = X],
         X.todo \subseteq worker[w].todo,
         \/ X.record = None /\ X.step \in {"idle", "next"}
         \/ X.record \in worker[w].todo \ X.todo /\ X.step = "grading",
         \A m \in Messages : queue'[m].receives = queue[m].receives,
         UNCHANGED attempt
  PROVE  ChainInv'
<1>1. \A v \in Workers : worker'[v] = IF v = w THEN X ELSE worker[v]
  BY DEF TypeInv, TypeOK
<1>2. \A v \in Workers : \A d \in Deliveries : Holds(v, d)' => Holds(v, d)
  BY <1>1, DeliveryFacts DEF Holds
<1>3. FreshInv'
  BY <1>2, DeliveryFacts DEF ChainInv, FreshInv
<1>4. ExclusiveInv'
  <2>1. \A v \in Workers : worker'[v].record \notin worker'[v].todo
    <3>1. None \notin worker[w].todo
      BY DeliveryFacts DEF TypeInv, TypeOK, WorkerRecord
    <3> QED
      BY <1>1, <3>1 DEF ChainInv, ExclusiveInv
  <2> QED
    BY <1>2, <2>1 DEF ChainInv, ExclusiveInv
<1>5. UntouchedInv'
  BY <1>1, DeliveryFacts DEF ChainInv, UntouchedInv
<1>6. ProgressInv'
  BY <1>1 DEF ChainInv, ProgressInv
<1> QED
  BY <1>3, <1>4, <1>5, <1>6 DEF ChainInv

\* What the chain needs of the attempt row behind a step.
Reached(step, d, row) ==
  /\ step \in {"steps", "mastery", "classify", "close"} =>
       row.exists /\ row.correct = IsCorrect(d)
  /\ step \in {"mastery", "classify", "close"} => row.steps
  /\ step \in {"classify", "close"} /\ Subject(d) \in WithTopic => row.mastery
  /\ step = "close" /\ ~row.correct => row.asked

\* A worker that goes on in its chain and touches no attempt but its own.
LEMMA AdvanceKeepsChain ==
  ASSUME TypeInv, ChainInv, NEW w \in Workers, worker[w].step \in Working,
         NEW step \in Working, Goto(w, step), step # "grading",
         NEW row, attempt' = [attempt EXCEPT ![Record(w)] = row],
         step = "attempt" => ~row.exists,
         Reached(step, Record(w), row),
         UNCHANGED queue
  PROVE  ChainInv'
<1>1. /\ \A v \in Workers : /\ worker'[v].todo = worker[v].todo
                            /\ worker'[v].record = worker[v].record
                            /\ v # w => worker'[v].step = worker[v].step
      /\ worker'[w].step = step
  BY DEF TypeInv, TypeOK, Goto, WorkerRecord
<1>2. Record(w) \in Deliveries /\ Holds(w, Record(w))
  BY WorkerTypes DEF TypeInv, RecordInv, Record, Holds
<1>3. \A d \in Deliveries : attempt'[d] = IF d = Record(w) THEN row ELSE attempt[d]
  BY DEF TypeInv, TypeOK
<1>4. \A v \in Workers : \A d \in Deliveries : Holds(v, d)' <=> Holds(v, d)
  BY <1>1 DEF Holds
<1>5. FreshInv'
  BY <1>2, <1>3, <1>4 DEF ChainInv, FreshInv
<1>6. ExclusiveInv'
  BY <1>1, <1>4 DEF ChainInv, ExclusiveInv
<1>7. \A v \in Workers : \A d \in Deliveries :
        v # w /\ Holds(v, d) => attempt'[d] = attempt[d]
  BY <1>2, <1>3 DEF ChainInv, ExclusiveInv
<1>8. UntouchedInv'
  <2> SUFFICES ASSUME NEW v \in Workers, NEW d \in Deliveries,
                      \/ d \in worker'[v].todo
                      \/ d = worker'[v].record /\ worker'[v].step \in {"grading", "attempt"}
               PROVE  ~attempt'[d].exists
    BY DEF UntouchedInv
  <2>1. CASE v # w
    BY <1>1, <1>7, <2>1 DEF ChainInv, UntouchedInv, Holds
  <2>2. CASE v = w /\ d = Record(w)
    BY <1>1, <1>3, <2>2 DEF ChainInv, ExclusiveInv, Record
  <2>3. CASE v = w /\ d # Record(w)
    BY <1>1, <1>3, <2>3 DEF ChainInv, UntouchedInv, Record
  <2> QED
    BY <2>1, <2>2, <2>3
<1>9. ProgressInv'
  <2>1. ASSUME NEW v \in Workers
        PROVE  Reached(worker'[v].step, worker'[v].record, attempt'[worker'[v].record])
    <3>1. CASE v = w
      BY <1>1, <1>2, <1>3, <3>1 DEF Record
    <3>2. CASE v # w /\ worker[v].record \in Deliveries
      BY <1>1, <1>7, <3>2 DEF ChainInv, ProgressInv, Reached, Holds
    <3>3. CASE v # w /\ worker[v].record \notin Deliveries
      BY <1>1, <3>3 DEF TypeInv, TypeOK, WorkerRecord, RecordInv, Reached, Working, WorkerSteps
    <3> QED
      BY <3>1, <3>2, <3>3
  <2> QED
    BY <2>1 DEF ProgressInv, Reached
<1> QED
  BY <1>5, <1>6, <1>8, <1>9 DEF ChainInv

\* What a worker receives, nobody holds yet: the receipts are new.
LEMMA ReceiveKeepsChain ==
  ASSUME TypeInv, ChainInv, NEW w \in Workers, Receive(w)
  PROVE  ChainInv'
<1>1. PICK batch \in SUBSET Visible :
        /\ queue' = [m \in Messages |->
             IF m \in batch
             THEN [place |-> "inFlight", receives |-> queue[m].receives + 1]
             ELSE queue[m]]
        /\ worker' = [worker EXCEPT ![w] =
             Batch({<<m, queue[m].receives + 1>> : m \in batch}, {})]
  BY DEF Receive
<1>2. UNCHANGED attempt
  BY DEF Receive
<1>3. \A m \in Messages : queue[m].receives \in Nat
  BY DEF TypeInv, TypeOK
<1>4. \A v \in Workers : v # w => worker'[v] = worker[v]
  BY <1>1 DEF TypeInv, TypeOK
<1>5. /\ worker'[w].todo = {<<m, queue[m].receives + 1>> : m \in batch}
      /\ worker'[w].record = None /\ worker'[w].step = "next"
  BY <1>1 DEF Batch, TypeInv, TypeOK
\* What is received was fresh.
<1>6. \A d \in worker'[w].todo :
        d[1] \in batch /\ d[1] \in Messages /\ d[2] = queue[d[1]].receives + 1
        /\ queue'[d[1]].receives = d[2]
  BY <1>1, <1>5 DEF Visible
<1>7. \A d \in Deliveries : d \in worker'[w].todo =>
        ~attempt[d].exists /\ \A v \in Workers : ~Holds(v, d)
  BY <1>3, <1>6 DEF ChainInv, FreshInv
<1>8. \A m \in Messages : queue'[m].receives >= queue[m].receives /\ queue'[m].receives \in Nat
  BY <1>1, <1>3
<1>9. FreshInv'
  <2> SUFFICES ASSUME NEW d \in Deliveries, queue'[d[1]].receives < d[2]
               PROVE  ~attempt[d].exists /\ \A v \in Workers : ~Holds(v, d)'
    BY <1>2 DEF FreshInv
  <2>1. ~attempt[d].exists /\ \A v \in Workers : ~Holds(v, d)
    BY <1>3, <1>8, DeliveryFacts DEF ChainInv, FreshInv
  <2>2. d \notin worker'[w].todo
    BY <1>6, <1>8, DeliveryFacts
  <2> QED
    BY <1>4, <1>5, <2>1, <2>2, DeliveryFacts DEF Holds
<1>10. ExclusiveInv'
  <2>1. worker'[w].record \notin worker'[w].todo
    BY <1>5, ReceiveTypes, DeliveryFacts DEF TypeInv, TypeOK, WorkerRecord
  <2>2. \A v \in Workers : worker'[v].record \notin worker'[v].todo
    BY <1>4, <2>1 DEF ChainInv, ExclusiveInv
  <2>3. \A d \in Deliveries : Holds(w, d)' => d \in worker'[w].todo
    BY <1>5, DeliveryFacts DEF Holds
  <2>4. \A v \in Workers, d \in Deliveries : v # w /\ Holds(v, d)' => Holds(v, d)
    BY <1>4 DEF Holds
  <2>5. \A u, v \in Workers, d \in Deliveries : Holds(u, d)' /\ Holds(v, d)' => u = v
    BY <1>7, <2>3, <2>4 DEF ChainInv, ExclusiveInv
  <2> QED
    BY <2>2, <2>5 DEF ExclusiveInv
<1>11. UntouchedInv'
  BY <1>2, <1>4, <1>5, <1>7, DeliveryFacts DEF ChainInv, UntouchedInv
<1>12. ProgressInv'
  BY <1>2, <1>4, <1>5 DEF ChainInv, ProgressInv
<1> QED
  BY <1>9, <1>10, <1>11, <1>12 DEF ChainInv

\* At first no attempt is written and none is linked.
LEMMA InitGrading == Init => GradingInv
<1> SUFFICES ASSUME Init PROVE GradingInv
  OBVIOUS
<1>1. TypeInv
  BY InitTypes
<1>2. FreshInv /\ UntouchedInv
  BY DeliveryFacts DEF Init, FreshInv, UntouchedInv, Holds, NoAttempt, Bare, IdleWorker
<1>3. ExclusiveInv
  BY DeliveryFacts DEF Init, ExclusiveInv, Holds, IdleWorker
<1>4. ProgressInv
  BY DEF Init, ProgressInv, IdleWorker
<1>5. LinkInv /\ DoneInv
  BY DEF Init, LinkInv, DoneInv, IdleWorker
<1> QED
  BY <1>1, <1>2, <1>3, <1>4, <1>5 DEF GradingInv

\* A step that keeps every submission and every complete attempt.
LEMMA LinkStays ==
  ASSUME LinkInv,
         \A s \in Submissions : /\ submission'[s].attempt = submission[s].attempt
                                /\ submission'[s].status = "GRADED" =>
                                     submission[s].status = "GRADED",
         \A s \in Submissions : Complete(submission[s].attempt) => Complete(submission[s].attempt)'
  PROVE  LinkInv'
BY DEF LinkInv, Subject, Complete

\* A step after which no receipt is newly done and no message newly deleted.
LEMMA DoneStays ==
  ASSUME DoneInv,
         \A s \in Submissions : submission[s].attempt # None => submission'[s].attempt # None,
         GradingAssumption, TypeInv,
         \A w \in Workers : worker'[w].done \subseteq worker[w].done,
         \A m \in Messages : queue'[m].place = "deleted" => queue[m].place = "deleted"
  PROVE  DoneInv'
<1>1. \A w \in Workers : \A d \in worker[w].done : Subject(d) \in Submissions
  BY DeliveryFacts DEF TypeInv, TypeOK, WorkerRecord
<1>2. \A m \in Messages : SubmissionOf[m] \in Submissions
  BY GradingAssumption
<1> QED
  BY <1>1, <1>2 DEF DoneInv, Subject

\* Every step keeps the inductive invariant of grading.
LEMMA NextGrading == GradingInv /\ [Next]_vars => GradingInv'
<1> SUFFICES ASSUME GradingInv, [Next]_vars PROVE GradingInv'
  OBVIOUS
<1> USE GradingAssumption
<1>0. TypeInv /\ ChainInv /\ LinkInv /\ DoneInv /\ TypeInv'
  BY NextTypes DEF GradingInv, ChainInv
<1>1. SUFFICES ChainInv' /\ LinkInv' /\ DoneInv'
  BY <1>0 DEF GradingInv, ChainInv
\* The record at hand, of a worker in its chain.
<1>2. ASSUME NEW w \in Workers, worker[w].step \in Working
      PROVE  /\ Record(w) \in Deliveries /\ Target(w) \in Submissions
             /\ Record(w) = worker[w].record /\ Target(w) = Subject(Record(w))
  BY <1>0, <1>2, WorkerTypes DEF TypeInv, RecordInv, Record, Target
\* Steps that leave attempts and submissions alone.
<1>3. ASSUME UNCHANGED <<submission, attempt>> PROVE LinkInv'
  BY <1>0, <1>3 DEF LinkInv, Subject, Complete
\* Steps of the chain between the attempt and the close.
<1>4. ASSUME NEW w \in Workers, NEW step \in Working, Goto(w, step),
             UNCHANGED <<queue>>,
             \A s \in Submissions : submission'[s].attempt = submission[s].attempt
      PROVE  DoneInv'
  <2>1. \A v \in Workers : worker'[v].done = worker[v].done
    BY <1>0, <1>4 DEF Goto, TypeInv, TypeOK, WorkerRecord
  <2> QED
    BY <1>0, <1>4, <2>1, DoneStays
<1>5. ASSUME NEW w \in Workers, worker[w].step \in Working, NEW row,
             attempt' = [attempt EXCEPT ![Record(w)] = row],
             UNCHANGED submission,
             \A s \in Submissions : submission[s].attempt = Record(w) /\ Complete(Record(w)) =>
               /\ row.exists /\ row.steps
               /\ Target(w) \in WithTopic => row.mastery
               /\ ~row.correct => row.asked
      PROVE  LinkInv'
  <2>1. \A d \in Deliveries : attempt'[d] = IF d = Record(w) THEN row ELSE attempt[d]
    BY <1>0, <1>5 DEF TypeInv, TypeOK
  <2>2. \A s \in Submissions : submission[s].attempt # None => submission[s].attempt \in Deliveries
    BY <1>0 DEF TypeInv, TypeOK, SubmissionRow
  <2> QED
    BY <1>0, <1>5, <2>1, <2>2 DEF LinkInv, Complete, Subject, Target
<1>6. ASSUME NEW w \in Workers, Receive(w) PROVE ChainInv' /\ LinkInv' /\ DoneInv'
  <2>1. \A v \in Workers : worker'[v].done \subseteq worker[v].done
    BY <1>0, <1>6 DEF Receive, Batch, TypeInv, TypeOK
  <2>2. \A m \in Messages : queue'[m].place = "deleted" => queue[m].place = "deleted"
    BY <1>6 DEF Receive
  <2>3. UNCHANGED <<submission, attempt>>
    BY <1>6 DEF Receive
  <2> QED
    BY <1>0, <1>3, <1>6, <2>1, <2>2, <2>3, ReceiveKeepsChain, DoneStays
<1>7. ASSUME NEW w \in Workers, TakeRecord(w) PROVE ChainInv' /\ LinkInv' /\ DoneInv'
  <2>1. PICK d \in worker[w].todo : worker' = [worker EXCEPT ![w] = Taken(w, d)]
    BY <1>7 DEF TakeRecord
  <2>2. UNCHANGED <<queue, submission, attempt>>
    BY <1>7 DEF TakeRecord
  <2>3. ChainInv'
    <3>1. CASE AlreadyGraded(d)
      <4>1. worker' = [worker EXCEPT ![w] =
              Batch(worker[w].todo \ {d}, worker[w].done \union {d})]
        BY <2>1, <3>1 DEF Taken
      <4> QED
        BY <1>0, <2>2, <4>1, ShrinkKeepsChain DEF Batch
    <3>2. CASE ~AlreadyGraded(d)
      <4>1. worker' = [worker EXCEPT ![w] =
              [step |-> "grading", todo |-> worker[w].todo \ {d},
               done |-> worker[w].done, record |-> d]]
        BY <2>1, <3>2 DEF Taken
      <4> QED
        BY <1>0, <2>2, <4>1, ShrinkKeepsChain
    <3> QED
      BY <3>1, <3>2
  <2>4. DoneInv'
    BY <1>0, <2>1, <2>2 DEF DoneInv, Taken, Batch, AlreadyGraded, Subject, TypeInv, TypeOK
  <2> QED
    BY <1>3, <2>2, <2>3, <2>4
<1>8. ASSUME NEW w \in Workers, WriteGrading(w) PROVE ChainInv' /\ LinkInv' /\ DoneInv'
  <2>1. /\ worker[w].step = "grading" /\ worker[w].step \in Working
        /\ Goto(w, "attempt") /\ UNCHANGED <<queue, attempt>>
    BY <1>8 DEF WriteGrading, At, Working, WorkerSteps
  <2>2. \A s \in Submissions : /\ submission'[s].attempt = submission[s].attempt
                               /\ submission'[s].status = "GRADED" =>
                                    submission[s].status = "GRADED"
    BY <1>0, <1>8 DEF WriteGrading, TypeInv, TypeOK
  <2>3. attempt' = [attempt EXCEPT ![Record(w)] = attempt[Record(w)]]
    BY <1>0, <2>1 DEF TypeInv, TypeOK
  <2>4. ~attempt[Record(w)].exists
    BY <1>0, <1>2, <2>1 DEF ChainInv, UntouchedInv
  <2>5. ChainInv'
    <3>1. Reached("attempt", Record(w), attempt[Record(w)])
      BY DEF Reached
    <3> QED
      BY <1>0, <2>1, <2>3, <2>4, <3>1, AdvanceKeepsChain DEF Working, WorkerSteps
  <2>6. LinkInv'
    BY <1>0, <2>1, <2>2, LinkStays DEF Complete, Subject
  <2>7. DoneInv'
    BY <1>4, <2>1, <2>2 DEF Working, WorkerSteps
  <2> QED
    BY <2>5, <2>6, <2>7
<1>9. ASSUME NEW w \in Workers, CreateAttempt(w) PROVE ChainInv' /\ LinkInv' /\ DoneInv'
  <2> DEFINE row == Bare(TRUE, IsCorrect(Record(w)))
  <2>1. /\ worker[w].step = "attempt" /\ worker[w].step \in Working
        /\ Goto(w, "steps") /\ UNCHANGED <<queue, submission>>
        /\ attempt' = [attempt EXCEPT ![Record(w)] = row]
    BY <1>9 DEF CreateAttempt, At, Working, WorkerSteps
  <2>2. ~attempt[Record(w)].exists
    BY <1>0, <1>2, <2>1 DEF ChainInv, UntouchedInv
  <2>3. Reached("steps", Record(w), row)
    BY DEF Reached, Bare
  <2> HIDE DEF row
  <2>4. ChainInv'
    BY <1>0, <2>1, <2>3, AdvanceKeepsChain DEF Working, WorkerSteps
  <2>5. LinkInv'
    BY <1>5, <2>1, <2>2 DEF Complete
  <2>6. DoneInv'
    BY <1>4, <2>1 DEF Working, WorkerSteps
  <2> QED
    BY <2>4, <2>5, <2>6
<1>10. ASSUME NEW w \in Workers, CreateSteps(w) PROVE ChainInv' /\ LinkInv' /\ DoneInv'
  <2> DEFINE row == [attempt[Record(w)] EXCEPT !.steps = TRUE]
  <2>1. /\ worker[w].step = "steps" /\ worker[w].step \in Working
        /\ Goto(w, "mastery") /\ UNCHANGED <<queue, submission>>
        /\ attempt' = [attempt EXCEPT ![Record(w)] = row]
    BY <1>10 DEF CreateSteps, At, Working, WorkerSteps
  <2>2. attempt[Record(w)] \in AttemptRow
    BY <1>0, <1>2, <2>1 DEF TypeInv, TypeOK
  <2>3. /\ row.exists = attempt[Record(w)].exists /\ row.correct = attempt[Record(w)].correct
        /\ row.steps = TRUE
        /\ row.mastery = attempt[Record(w)].mastery /\ row.asked = attempt[Record(w)].asked
    BY <2>2 DEF AttemptRow
  <2> HIDE DEF row
  <2>4. Reached("mastery", Record(w), row)
    BY <1>0, <1>2, <2>1, <2>3 DEF ChainInv, ProgressInv, Reached
  <2>5. ChainInv'
    BY <1>0, <2>1, <2>4, AdvanceKeepsChain DEF Working, WorkerSteps
  <2>6. LinkInv'
    BY <1>2, <1>5, <2>1, <2>3 DEF Complete
  <2>7. DoneInv'
    BY <1>4, <2>1 DEF Working, WorkerSteps
  <2> QED
    BY <2>5, <2>6, <2>7
<1>11. ASSUME NEW w \in Workers, ApplyMastery(w) PROVE ChainInv' /\ LinkInv' /\ DoneInv'
  <2> DEFINE row == IF Target(w) \in WithTopic
                    THEN [attempt[Record(w)] EXCEPT !.mastery = TRUE]
                    ELSE attempt[Record(w)]
  <2>1. /\ worker[w].step = "mastery" /\ worker[w].step \in Working
        /\ Goto(w, "classify") /\ UNCHANGED <<queue, submission>>
    BY <1>11 DEF ApplyMastery, At, Working, WorkerSteps
  <2>2. attempt[Record(w)] \in AttemptRow
    BY <1>0, <1>2, <2>1 DEF TypeInv, TypeOK
  <2>3. attempt' = [attempt EXCEPT ![Record(w)] = row]
    <3>1. CASE Target(w) \in WithTopic
      BY <1>11, <3>1 DEF ApplyMastery
    <3>2. CASE Target(w) \notin WithTopic
      BY <1>0, <1>11, <3>2 DEF ApplyMastery, TypeInv, TypeOK
    <3> QED
      BY <3>1, <3>2
  <2>4. /\ row.exists = attempt[Record(w)].exists /\ row.correct = attempt[Record(w)].correct
        /\ row.steps = attempt[Record(w)].steps
        /\ Target(w) \in WithTopic => row.mastery
        /\ row.asked = attempt[Record(w)].asked
    BY <2>2 DEF AttemptRow
  <2> HIDE DEF row
  <2>5. Reached("classify", Record(w), row)
    BY <1>0, <1>2, <2>1, <2>4 DEF ChainInv, ProgressInv, Reached
  <2>6. ChainInv'
    BY <1>0, <2>1, <2>3, <2>5, AdvanceKeepsChain DEF Working, WorkerSteps
  <2>7. LinkInv'
    BY <1>2, <1>5, <2>1, <2>3, <2>4 DEF Complete
  <2>8. DoneInv'
    BY <1>4, <2>1 DEF Working, WorkerSteps
  <2> QED
    BY <2>6, <2>7, <2>8
<1>12. ASSUME NEW w \in Workers, AskClassifier(w) PROVE ChainInv' /\ LinkInv' /\ DoneInv'
  <2> DEFINE row == IF IsCorrect(Record(w))
                    THEN attempt[Record(w)]
                    ELSE [attempt[Record(w)] EXCEPT !.asked = TRUE]
  <2>1. /\ worker[w].step = "classify" /\ worker[w].step \in Working
        /\ Goto(w, "close") /\ UNCHANGED <<queue, submission>>
    BY <1>12 DEF AskClassifier, At, Working, WorkerSteps
  <2>2. attempt[Record(w)] \in AttemptRow
    BY <1>0, <1>2, <2>1 DEF TypeInv, TypeOK
  <2>3. attempt' = [attempt EXCEPT ![Record(w)] = row]
    <3>1. CASE IsCorrect(Record(w))
      BY <1>0, <1>12, <3>1 DEF AskClassifier, TypeInv, TypeOK
    <3>2. CASE ~IsCorrect(Record(w))
      BY <1>12, <3>2 DEF AskClassifier
    <3> QED
      BY <3>1, <3>2
  <2>4. /\ row.exists = attempt[Record(w)].exists /\ row.correct = attempt[Record(w)].correct
        /\ row.steps = attempt[Record(w)].steps /\ row.mastery = attempt[Record(w)].mastery
        /\ ~IsCorrect(Record(w)) => row.asked
        /\ attempt[Record(w)].asked => row.asked
    BY <2>2 DEF AttemptRow
  <2> HIDE DEF row
  <2>5. Reached("close", Record(w), row)
    BY <1>0, <1>2, <2>1, <2>4 DEF ChainInv, ProgressInv, Reached
  <2>6. ChainInv'
    BY <1>0, <2>1, <2>3, <2>5, AdvanceKeepsChain DEF Working, WorkerSteps
  <2>7. LinkInv'
    BY <1>2, <1>5, <2>1, <2>3, <2>4 DEF Complete
  <2>8. DoneInv'
    BY <1>4, <2>1 DEF Working, WorkerSteps
  <2> QED
    BY <2>6, <2>7, <2>8
<1>13. ASSUME NEW w \in Workers, Close(w) PROVE ChainInv' /\ LinkInv' /\ DoneInv'
  <2>1. /\ worker[w].step = "close" /\ worker[w].step \in Working
        /\ worker' = [worker EXCEPT ![w] =
             Batch(worker[w].todo, worker[w].done \union {Record(w)})]
        /\ submission' = [submission EXCEPT ![Target(w)] =
             [status |-> "GRADED", correct |-> submission[Target(w)].correct,
              attempt |-> Record(w)]]
        /\ UNCHANGED <<queue, attempt>>
    BY <1>13 DEF Close, RecordDone, At, Working, WorkerSteps
  <2>2. \A s \in Submissions :
          IF s = Target(w)
          THEN submission'[s].status = "GRADED" /\ submission'[s].attempt = Record(w)
          ELSE submission'[s] = submission[s]
    BY <1>0, <2>1 DEF TypeInv, TypeOK
  <2>3. Record(w) # None /\ Complete(Record(w))
    BY <1>0, <1>2, <2>1, DeliveryFacts DEF ChainInv, ProgressInv, Complete
  <2>4. ChainInv'
    BY <1>0, <2>1, ShrinkKeepsChain DEF Batch
  <2>5. LinkInv'
    BY <1>0, <1>2, <2>1, <2>2, <2>3 DEF LinkInv, Complete, Subject
  <2>6. \A v \in Workers : \A d \in worker'[v].done :
          d \in worker[v].done \/ d = Record(w)
    BY <1>0, <2>1 DEF Batch, TypeInv, TypeOK
  <2>7. \A v \in Workers : \A d \in worker[v].done : Subject(d) \in Submissions
    BY <1>0, DeliveryFacts DEF TypeInv, TypeOK, WorkerRecord
  <2>8. DoneInv'
    <3>1. \A s \in Submissions :
            submission[s].attempt # None \/ s = Target(w) => submission'[s].attempt # None
      BY <2>2, <2>3
    <3>2. \A m \in Messages : SubmissionOf[m] \in Submissions
      OBVIOUS
    <3>3. \A v \in Workers : \A d \in worker'[v].done : submission'[Subject(d)].attempt # None
      BY <1>0, <1>2, <2>1, <2>6, <2>7, <3>1 DEF DoneInv
    <3>4. \A m \in Messages :
            queue'[m].place = "deleted" => submission'[SubmissionOf[m]].attempt # None
      BY <1>0, <2>1, <3>1, <3>2 DEF DoneInv
    <3> QED
      BY <3>3, <3>4 DEF DoneInv, Subject
  <2> QED
    BY <2>4, <2>5, <2>8
<1>14. ASSUME NEW w \in Workers, HandlerReturns(w) PROVE ChainInv' /\ LinkInv' /\ DoneInv'
  <2>1. /\ worker' = [worker EXCEPT ![w] = IdleWorker]
        /\ UNCHANGED <<submission, attempt>>
        /\ \A m \in Messages :
             /\ queue'[m].receives = queue[m].receives
             /\ queue'[m].place = "deleted" =>
                  queue[m].place = "deleted" \/ LastDelivery(m) \in worker[w].done
    BY <1>0, <1>14 DEF HandlerReturns, TypeInv, TypeOK
  <2>2. ChainInv'
    BY <1>0, <2>1, ShrinkKeepsChain DEF IdleWorker
  <2>3. \A m \in Messages : Subject(LastDelivery(m)) = SubmissionOf[m]
    BY DEF Subject, LastDelivery
  <2>4. \A v \in Workers : worker'[v].done \subseteq worker[v].done
    BY <1>0, <2>1 DEF IdleWorker, TypeInv, TypeOK
  <2>5. DoneInv'
    BY <1>0, <2>1, <2>3, <2>4 DEF DoneInv, Subject
  <2> QED
    BY <1>3, <2>1, <2>2, <2>5
<1>15. ASSUME NEW w \in Workers, RecordFails(w) PROVE ChainInv' /\ LinkInv' /\ DoneInv'
  <2>1. /\ worker' = [worker EXCEPT ![w] = Batch(worker[w].todo, worker[w].done)]
        /\ UNCHANGED <<queue, submission, attempt>>
    BY <1>15 DEF RecordFails
  <2>2. ChainInv'
    BY <1>0, <2>1, ShrinkKeepsChain DEF Batch
  <2>3. \A v \in Workers : worker'[v].done \subseteq worker[v].done
    BY <1>0, <2>1 DEF Batch, TypeInv, TypeOK
  <2> QED
    BY <1>0, <1>3, <2>1, <2>2, <2>3, DoneStays
<1>16. ASSUME NEW w \in Workers, Crash(w) PROVE ChainInv' /\ LinkInv' /\ DoneInv'
  <2>1. /\ worker' = [worker EXCEPT ![w] = IdleWorker]
        /\ UNCHANGED <<queue, submission, attempt>>
    BY <1>16 DEF Crash
  <2>2. ChainInv'
    BY <1>0, <2>1, ShrinkKeepsChain DEF IdleWorker
  <2>3. \A v \in Workers : worker'[v].done \subseteq worker[v].done
    BY <1>0, <2>1 DEF IdleWorker, TypeInv, TypeOK
  <2> QED
    BY <1>0, <1>3, <2>1, <2>2, <2>3, DoneStays
<1>17. ASSUME NEW m \in Messages, VisibilityExpires(m) PROVE ChainInv' /\ LinkInv' /\ DoneInv'
  <2>1. /\ UNCHANGED <<submission, attempt, worker>>
        /\ \A n \in Messages :
             /\ queue'[n].receives = queue[n].receives
             /\ queue'[n].place = "deleted" => queue[n].place = "deleted"
    BY <1>0, <1>17 DEF VisibilityExpires, TypeInv, TypeOK
  <2>2. ChainInv'
    BY <1>0, <2>1, DeliveryFacts
       DEF ChainInv, FreshInv, ExclusiveInv, UntouchedInv, ProgressInv, Holds
  <2> QED
    BY <1>0, <1>3, <2>1, <2>2, DoneStays
<1>18. CASE UNCHANGED vars
  BY <1>0, <1>18 DEF vars, ChainInv, FreshInv, ExclusiveInv, UntouchedInv, ProgressInv, Holds,
     LinkInv, DoneInv, Complete, Subject
<1> QED
  BY <1>6, <1>7, <1>8, <1>9, <1>10, <1>11, <1>12, <1>13, <1>14, <1>15, <1>16, <1>17, <1>18
     DEF Next, Process

\* A GRADED submission points to an attempt of its own whose steps are stored,
\* whose mastery is fed and whose error was sent for classification: however
\* deliveries overlap, fail, crash and repeat.
THEOREM GradesAreComplete == Spec => []GradedIsComplete
<1>1. Spec => []GradingInv
  BY InitGrading, NextGrading, PTL DEF Spec
<1>2. GradingInv => GradedIsComplete
  BY DEF GradingInv, LinkInv, GradedIsComplete
<1> QED
  BY <1>1, <1>2, PTL

\* A result that was deleted from the queue belongs to a graded submission.
THEOREM DeletedResultsAreGraded == Spec => []DeletedIsGraded
<1>1. Spec => []GradingInv
  BY InitGrading, NextGrading, PTL DEF Spec
<1>2. GradingInv => DeletedIsGraded
  BY DEF GradingInv, DoneInv, DeletedIsGraded
<1> QED
  BY <1>1, <1>2, PTL

-----------------------------------------------------------------------------
(* BKT is fed once per attempt. MasteryHasEvidence counts attempts; what is  *)
(* inductive is that the updates of a submission are exactly its attempts    *)
(* marked as fed: a chain marks an attempt only once, because the attempt it *)
(* creates is new and no other chain has it at hand.                         *)

Evidence(s) == {d \in Deliveries : Subject(d) = s /\ attempt[d].exists}

Fed(s) == {d \in Deliveries : Subject(d) = s /\ attempt[d].mastery}

EvidenceInv ==
  /\ \A d \in Deliveries : attempt[d].mastery => attempt[d].exists
  /\ \A w \in Workers :
       worker[w].step \in {"steps", "mastery"} => ~attempt[worker[w].record].mastery
  /\ \A s \in Submissions : IsFiniteSet(Evidence(s)) /\ mastery[s] = Cardinality(Fed(s))

\* At first no attempt is evidence, and mastery counts none.
LEMMA InitEvidence == Init => EvidenceInv
<1> SUFFICES ASSUME Init PROVE EvidenceInv
  OBVIOUS
<1>1. \A d \in Deliveries : ~attempt[d].exists /\ ~attempt[d].mastery
  BY DEF Init, NoAttempt, Bare
<1>2. \A s \in Submissions : Evidence(s) = {} /\ Fed(s) = {} /\ mastery[s] = 0
  BY <1>1 DEF Init, Evidence, Fed
<1>3. \A w \in Workers : worker[w].step = "idle"
  BY DEF Init, IdleWorker
<1> QED
  BY <1>1, <1>2, <1>3, FS_EmptySet DEF EvidenceInv

\* A worker in its chain has a delivery at hand that no other worker has.
LEMMA RecordIsOwn ==
  ASSUME GradingInv, NEW v \in Workers, worker[v].step \in Working
  PROVE  /\ worker[v].record \in Deliveries
         /\ \A w \in Workers \ {v} : worker[w].record # worker[v].record
<1>1. worker[v].record \in Deliveries
  BY WorkerTypes DEF GradingInv, TypeInv, RecordInv, Record
<1> QED
  BY <1>1 DEF GradingInv, ExclusiveInv, Holds

\* A step that neither creates nor feeds an attempt.
LEMMA EvidenceStays ==
  ASSUME GradingInv, EvidenceInv,
         \A d \in Deliveries : /\ attempt'[d].exists = attempt[d].exists
                               /\ attempt'[d].mastery = attempt[d].mastery,
         UNCHANGED mastery,
         \A w \in Workers : worker'[w].step \in {"steps", "mastery"} =>
           /\ worker[w].step \in {"steps", "mastery"}
           /\ worker'[w].record = worker[w].record
  PROVE  EvidenceInv'
<1>1. \A s \in Submissions : Evidence(s)' = Evidence(s) /\ Fed(s)' = Fed(s)
  BY DEF Evidence, Fed, Subject
<1>2. \A w \in Workers : worker[w].step \in {"steps", "mastery"} => worker[w].record \in Deliveries
  BY RecordIsOwn DEF Working, WorkerSteps
<1> QED
  BY <1>1, <1>2 DEF EvidenceInv

\* The attempt that a chain creates is not fed yet.
LEMMA CreateKeepsEvidence ==
  ASSUME GradingInv, EvidenceInv, NEW w \in Workers, CreateAttempt(w)
  PROVE  EvidenceInv'
<1> DEFINE d == Record(w)
<1>1. /\ worker[w].step = "attempt" /\ worker[w].step \in Working /\ d = worker[w].record
      /\ Goto(w, "steps") /\ UNCHANGED mastery
      /\ attempt' = [attempt EXCEPT ![d] = Bare(TRUE, IsCorrect(d))]
  BY DEF CreateAttempt, At, Record, Working, WorkerSteps
<1>2. d \in Deliveries /\ \A v \in Workers \ {w} : worker[v].record # d
  BY <1>1, RecordIsOwn
<1>3. ~attempt[d].exists /\ ~attempt[d].mastery
  BY <1>1, <1>2 DEF GradingInv, UntouchedInv, EvidenceInv
<1> HIDE DEF d
<1>4. \A e \in Deliveries : attempt'[e] = IF e = d THEN Bare(TRUE, IsCorrect(d)) ELSE attempt[e]
  BY <1>1 DEF GradingInv, TypeInv, TypeOK
<1>5. attempt'[d].exists /\ ~attempt'[d].mastery
  BY <1>2, <1>4 DEF Bare
<1>6. ASSUME NEW s \in Submissions
      PROVE  IsFiniteSet(Evidence(s)') /\ mastery'[s] = Cardinality(Fed(s)')
  <2>1. Fed(s)' = Fed(s)
    BY <1>3, <1>4, <1>5 DEF Fed, Subject
  <2>2. Evidence(s)' = Evidence(s) \/ Evidence(s)' = Evidence(s) \union {d}
    BY <1>2, <1>4, <1>5 DEF Evidence, Subject
  <2>3. IsFiniteSet(Evidence(s)) /\ mastery[s] = Cardinality(Fed(s))
    BY DEF EvidenceInv
  <2>4. IsFiniteSet(Evidence(s) \union {d})
    BY <2>3, FS_AddElement
  <2> QED
    BY <1>1, <2>1, <2>2, <2>3, <2>4
<1>7. \A e \in Deliveries : attempt'[e].mastery => attempt'[e].exists
  BY <1>4, <1>5 DEF EvidenceInv
<1>8. ASSUME NEW v \in Workers, worker'[v].step \in {"steps", "mastery"}
      PROVE  ~attempt'[worker'[v].record].mastery
  <2>1. worker'[v].record = worker[v].record /\ (v # w => worker'[v].step = worker[v].step)
    BY <1>1 DEF Goto, GradingInv, TypeInv, TypeOK, WorkerRecord
  <2>2. CASE v = w
    BY <1>1, <1>5, <2>1, <2>2
  <2>3. CASE v # w
    <3>1. worker[v].record \in Deliveries /\ worker[v].record # d
      BY <1>2, <1>8, <2>1, <2>3, RecordIsOwn DEF Working, WorkerSteps
    <3> QED
      BY <1>4, <1>8, <2>1, <2>3, <3>1 DEF EvidenceInv
  <2> QED
    BY <2>2, <2>3
<1> QED
  BY <1>6, <1>7, <1>8 DEF EvidenceInv

\* A mastery update marks an attempt that exists and was not marked before.
LEMMA MasteryKeepsEvidence ==
  ASSUME GradingInv, EvidenceInv, NEW w \in Workers, ApplyMastery(w)
  PROVE  EvidenceInv'
<1> DEFINE d == Record(w)
<1>1. /\ worker[w].step = "mastery" /\ worker[w].step \in Working /\ d = worker[w].record
      /\ Goto(w, "classify")
  BY DEF ApplyMastery, At, Record, Working, WorkerSteps
<1>2. /\ d \in Deliveries /\ Subject(d) \in Submissions /\ Target(w) = Subject(d)
      /\ \A v \in Workers \ {w} : worker[v].record # d
  BY <1>1, RecordIsOwn, DeliveryFacts DEF Target
<1>3. attempt[d].exists /\ ~attempt[d].mastery
  BY <1>1 DEF GradingInv, ProgressInv, EvidenceInv
<1> HIDE DEF d
<1>4. \A v \in Workers : /\ worker'[v].record = worker[v].record
                         /\ v # w => worker'[v].step = worker[v].step
                         /\ v = w => worker'[v].step = "classify"
  BY <1>1 DEF Goto, GradingInv, TypeInv, TypeOK, WorkerRecord
<1>5. CASE Target(w) \notin WithTopic
  <2>1. UNCHANGED <<attempt, mastery>>
    BY <1>5 DEF ApplyMastery
  <2> QED
    BY <1>4, <2>1, EvidenceStays
<1>6. CASE Target(w) \in WithTopic
  <2>1. /\ mastery' = [mastery EXCEPT ![Subject(d)] = @ + 1]
        /\ attempt' = [attempt EXCEPT ![d].mastery = TRUE]
    BY <1>2, <1>6 DEF ApplyMastery, d
  <2>2. /\ \A e \in Deliveries \ {d} : attempt'[e] = attempt[e]
        /\ attempt'[d].mastery /\ attempt'[d].exists
    BY <1>2, <1>3, <2>1 DEF GradingInv, TypeInv, TypeOK, AttemptRow
  <2>3. ASSUME NEW s \in Submissions
        PROVE  IsFiniteSet(Evidence(s)') /\ mastery'[s] = Cardinality(Fed(s)')
    <3>1. Evidence(s)' = Evidence(s)
      BY <1>2, <1>3, <2>2 DEF Evidence, Subject
    <3>2. Fed(s)' = IF s = Subject(d) THEN Fed(s) \union {d} ELSE Fed(s)
      BY <1>2, <2>2 DEF Fed, Subject
    <3>3. IsFiniteSet(Evidence(s)) /\ mastery[s] = Cardinality(Fed(s))
      BY DEF EvidenceInv
    <3>4. IsFiniteSet(Fed(s)) /\ d \notin Fed(s)
      <4>1. Fed(s) \subseteq Evidence(s)
        BY DEF EvidenceInv, Fed, Evidence
      <4>2. IsFiniteSet(Fed(s))
        BY <3>3, <4>1, FS_Subset
      <4> QED
        BY <1>3, <4>2 DEF Fed
    <3>5. Cardinality(Fed(s) \union {d}) = mastery[s] + 1
      BY <3>3, <3>4, FS_AddElement
    <3>6. mastery'[s] = IF s = Subject(d) THEN mastery[s] + 1 ELSE mastery[s]
      BY <1>2, <2>1 DEF GradingInv, TypeInv, TypeOK
    <3> QED
      BY <3>1, <3>2, <3>3, <3>5, <3>6
  <2>4. \A e \in Deliveries : attempt'[e].mastery => attempt'[e].exists
    BY <2>2 DEF EvidenceInv
  <2>5. ASSUME NEW v \in Workers, worker'[v].step \in {"steps", "mastery"}
        PROVE  ~attempt'[worker'[v].record].mastery
    <3>1. v # w /\ worker[v].step \in {"steps", "mastery"} /\ worker'[v].record = worker[v].record
      BY <1>4, <2>5
    <3>2. worker[v].record \in Deliveries /\ worker[v].record # d
      BY <1>2, <3>1, RecordIsOwn DEF Working, WorkerSteps
    <3> QED
      BY <2>2, <3>1, <3>2 DEF EvidenceInv
  <2> QED
    BY <2>3, <2>4, <2>5 DEF EvidenceInv
<1> QED
  BY <1>5, <1>6

\* Every step keeps mastery backed by attempts.
LEMMA NextEvidence == GradingInv /\ EvidenceInv /\ [Next]_vars => EvidenceInv'
<1> SUFFICES ASSUME GradingInv, EvidenceInv, [Next]_vars PROVE EvidenceInv'
  OBVIOUS
<1> USE DEF GradingInv, TypeInv, TypeOK, WorkerRecord
<1>1. ASSUME UNCHANGED <<attempt, mastery>>,
             \A w \in Workers : worker'[w].step \in {"steps", "mastery"} =>
               worker'[w] = worker[w]
      PROVE  EvidenceInv'
  BY <1>1, EvidenceStays
<1>2. ASSUME NEW w \in Workers, Receive(w) PROVE EvidenceInv'
  BY <1>1, <1>2 DEF Receive, Batch
<1>3. ASSUME NEW w \in Workers, TakeRecord(w) PROVE EvidenceInv'
  <2>1. PICK d \in worker[w].todo : worker' = [worker EXCEPT ![w] = Taken(w, d)]
    BY <1>3 DEF TakeRecord
  <2>2. Taken(w, d).step \in {"next", "grading"}
    BY DEF Taken, Batch
  <2>3. \A v \in Workers : worker'[v].step \in {"steps", "mastery"} => worker'[v] = worker[v]
    BY <2>1, <2>2
  <2> QED
    BY <1>1, <1>3, <2>3 DEF TakeRecord
<1>4. ASSUME NEW w \in Workers, WriteGrading(w) PROVE EvidenceInv'
  BY <1>1, <1>4 DEF WriteGrading, Goto
<1>5. ASSUME NEW w \in Workers, CreateSteps(w) PROVE EvidenceInv'
  <2>1. \A d \in Deliveries : /\ attempt'[d].exists = attempt[d].exists
                              /\ attempt'[d].mastery = attempt[d].mastery
    BY <1>5 DEF CreateSteps, AttemptRow
  <2>2. \A v \in Workers : worker'[v].step \in {"steps", "mastery"} =>
          worker[v].step \in {"steps", "mastery"} /\ worker'[v].record = worker[v].record
    BY <1>5 DEF CreateSteps, At, Goto
  <2> QED
    BY <1>5, <2>1, <2>2, EvidenceStays DEF CreateSteps
<1>6. ASSUME NEW w \in Workers, AskClassifier(w) PROVE EvidenceInv'
  <2>1. \A d \in Deliveries : /\ attempt'[d].exists = attempt[d].exists
                              /\ attempt'[d].mastery = attempt[d].mastery
    BY <1>6 DEF AskClassifier, AttemptRow
  <2>2. \A v \in Workers : worker'[v].step \in {"steps", "mastery"} =>
          worker[v].step \in {"steps", "mastery"} /\ worker'[v].record = worker[v].record
    BY <1>6 DEF AskClassifier, At, Goto
  <2> QED
    BY <1>6, <2>1, <2>2, EvidenceStays DEF AskClassifier
<1>7. ASSUME NEW w \in Workers, Close(w) PROVE EvidenceInv'
  BY <1>1, <1>7 DEF Close, RecordDone, Batch
<1>8. ASSUME NEW w \in Workers, HandlerReturns(w) PROVE EvidenceInv'
  BY <1>1, <1>8 DEF HandlerReturns, IdleWorker
<1>9. ASSUME NEW w \in Workers, RecordFails(w) PROVE EvidenceInv'
  BY <1>1, <1>9 DEF RecordFails, Batch
<1>10. ASSUME NEW w \in Workers, Crash(w) PROVE EvidenceInv'
  BY <1>1, <1>10 DEF Crash, IdleWorker
<1>11. ASSUME NEW m \in Messages, VisibilityExpires(m) PROVE EvidenceInv'
  BY <1>1, <1>11 DEF VisibilityExpires
<1>12. CASE UNCHANGED vars
  BY <1>1, <1>12 DEF vars
<1> QED
  BY <1>2, <1>3, <1>4, <1>5, <1>6, <1>7, <1>8, <1>9, <1>10, <1>11, <1>12,
     CreateKeepsEvidence, MasteryKeepsEvidence DEF Next, Process

\* BKT is fed at most once per attempt on record, however often the deliveries of
\* a submission fail, repeat and overlap.
THEOREM MasteryIsBackedByAttempts == Spec => []MasteryHasEvidence
<1>1. EvidenceInv => MasteryHasEvidence
  <2> SUFFICES ASSUME EvidenceInv, NEW s \in Submissions
               PROVE  mastery[s] <= Cardinality(Evidence(s))
    BY DEF MasteryHasEvidence, Evidence
  <2>1. Fed(s) \subseteq Evidence(s) /\ IsFiniteSet(Evidence(s)) /\ mastery[s] = Cardinality(Fed(s))
    BY DEF EvidenceInv, Fed, Evidence
  <2> QED
    BY <2>1, FS_Subset
<1> QED
  BY <1>1, InitGrading, NextGrading, InitEvidence, NextEvidence, PTL DEF Spec

-----------------------------------------------------------------------------
(* The chain is one step, seen from outside                                  *)

\* The attempt that a submission points to has everything from the start.
LEMMA ResultIsLink ==
  ASSUME GradingInv, NEW s \in Submissions
  PROVE  ResultOf(s) = submission[s].attempt
BY DEF GradingInv, LinkInv, ResultOf

\* And so it is after a step.
LEMMA ResultIsLinkNext ==
  ASSUME GradingInv', NEW s \in Submissions
  PROVE  ResultOf(s)' = submission'[s].attempt
BY DEF GradingInv, LinkInv, ResultOf, Complete

\* The consumer of the queue implements what ResultQueue promises: a submission
\* goes from no result to a complete one in one step and never back, and a message
\* is settled once.
THEOREM GradingIsAtomic == Spec => ImplementsResultQueue
<1> DEFINE ResultBar == [s \in Submissions |-> ResultOf(s)]
           PlaceBar == [m \in Messages |-> PlaceOf(m)]
<1>1. Init => Results!Init
  <2> SUFFICES ASSUME Init PROVE Results!Init
    OBVIOUS
  <2>1. \A s \in Submissions : ResultOf(s) = None
    BY DEF Init, ResultOf
  <2>2. \A m \in Messages : PlaceOf(m) = "pending"
    BY DEF Init, PlaceOf
  <2> QED
    BY <2>1, <2>2 DEF Results!Init
<1>2. GradingInv /\ GradingInv' /\ [Next]_vars => [Results!Next]_(Results!resultVars)
  <2> SUFFICES ASSUME GradingInv, GradingInv', [Next]_vars
               PROVE  Results!Next \/ (ResultBar' = ResultBar /\ PlaceBar' = PlaceBar)
    BY DEF Results!resultVars
  <2> USE DEF GradingInv, TypeInv, TypeOK
  <2>1. ASSUME \A s \in Submissions : submission'[s].attempt = submission[s].attempt
        PROVE  ResultBar' = ResultBar
    BY <2>1, ResultIsLink, ResultIsLinkNext
  <2>2. ASSUME \A m \in Messages : PlaceOf(m)' = PlaceOf(m)
        PROVE  PlaceBar' = PlaceBar
    BY <2>2
  <2>3. ASSUME UNCHANGED submission PROVE ResultBar' = ResultBar
    BY <2>1, <2>3
  <2>4. ASSUME UNCHANGED queue PROVE PlaceBar' = PlaceBar
    BY <2>2, <2>4 DEF PlaceOf
  <2>5. ASSUME NEW w \in Workers, Receive(w) PROVE ResultBar' = ResultBar /\ PlaceBar' = PlaceBar
    <3>1. \A m \in Messages : PlaceOf(m)' = PlaceOf(m)
      BY <2>5 DEF Receive, PlaceOf, Visible
    <3> QED
      BY <2>2, <2>3, <2>5, <3>1 DEF Receive
  <2>6. ASSUME NEW w \in Workers, WriteGrading(w)
        PROVE  ResultBar' = ResultBar /\ PlaceBar' = PlaceBar
    BY <2>1, <2>4, <2>6 DEF WriteGrading
  <2>7. ASSUME UNCHANGED <<queue, submission>>
        PROVE  ResultBar' = ResultBar /\ PlaceBar' = PlaceBar
    BY <2>3, <2>4, <2>7
  <2>8. ASSUME NEW w \in Workers, Close(w) PROVE Results!Next
    <3> DEFINE d == Record(w)
    <3>1. d \in Deliveries /\ Target(w) \in Submissions /\ d \in ResultsFor(Target(w))
      BY <2>8, WorkerTypes DEF Close, At, RecordInv, Working, WorkerSteps, ResultsFor, Target
    <3>2. \A s \in Submissions :
            submission'[s].attempt = IF s = Target(w) THEN d ELSE submission[s].attempt
      BY <2>8 DEF Close
    <3>3. ResultBar' = [ResultBar EXCEPT ![Target(w)] = d]
      <4>1. \A s \in Submissions : ResultOf(s)' = IF s = Target(w) THEN d ELSE ResultOf(s)
        BY <3>2, ResultIsLink, ResultIsLinkNext
      <4> QED
        BY <4>1
    <3>4. PlaceBar' = PlaceBar
      BY <2>4, <2>8 DEF Close
    <3> HIDE DEF ResultBar, PlaceBar
    <3>5. Results!Grade(Target(w))
      BY <3>1, <3>3, <3>4 DEF Results!Grade, ResultBar, PlaceBar
    <3> QED
      BY <3>1, <3>5 DEF Results!Next
  <2>9. ASSUME NEW w \in Workers, HandlerReturns(w) PROVE Results!Next
    <3> DEFINE batch == {m \in Messages :
                           queue[m].place = "inFlight" /\ LastDelivery(m) \in worker[w].done}
    <3>1. \A m \in Messages : PlaceOf(m)' = IF m \in batch THEN "deleted" ELSE PlaceOf(m)
      BY <2>9 DEF HandlerReturns, PlaceOf
    <3>2. ASSUME NEW m \in batch
          PROVE  PlaceOf(m) = "pending" /\ ResultOf(SubmissionOf[m]) # None
      <4>1. Subject(LastDelivery(m)) = SubmissionOf[m] /\ SubmissionOf[m] \in Submissions
        BY GradingAssumption DEF Subject, LastDelivery
      <4>2. submission[SubmissionOf[m]].attempt # None
        BY <4>1 DEF DoneInv
      <4> QED
        BY <4>1, <4>2, ResultIsLink DEF PlaceOf
    <3>3. ResultBar' = ResultBar
      BY <2>3, <2>9 DEF HandlerReturns
    <3>4. batch \in SUBSET Messages
      OBVIOUS
    <3>5. \A m \in batch : SubmissionOf[m] \in Submissions
      BY GradingAssumption
    <3> HIDE DEF batch
    <3>6. Results!Delete(batch)
      BY <3>1, <3>2, <3>3, <3>4, <3>5 DEF Results!Delete
    <3> QED
      BY <3>4, <3>6 DEF Results!Next
  <2>10. ASSUME NEW m \in Messages, VisibilityExpires(m)
         PROVE  Results!Next \/ (ResultBar' = ResultBar /\ PlaceBar' = PlaceBar)
    <3>1. ResultBar' = ResultBar
      BY <2>3, <2>10 DEF VisibilityExpires
    <3>2. CASE ReceiptsLeft(m)
      <4>1. \A n \in Messages : PlaceOf(n)' = PlaceOf(n)
        BY <2>10, <3>2 DEF VisibilityExpires, PlaceOf
      <4> QED
        BY <2>2, <3>1, <4>1
    <3>3. CASE ~ReceiptsLeft(m)
      <4>1. /\ \A n \in Messages : PlaceOf(n)' = IF n = m THEN "dlq" ELSE PlaceOf(n)
            /\ PlaceOf(m) = "pending"
        BY <2>10, <3>3 DEF VisibilityExpires, PlaceOf
      <4>2. Results!Park(m)
        BY <3>1, <4>1 DEF Results!Park
      <4> QED
        BY <4>2 DEF Results!Next
    <3> QED
      BY <3>2, <3>3
  <2>11. ASSUME NEW w \in Workers,
                \/ TakeRecord(w) \/ CreateAttempt(w) \/ CreateSteps(w) \/ ApplyMastery(w)
                \/ AskClassifier(w) \/ RecordFails(w) \/ Crash(w)
         PROVE  ResultBar' = ResultBar /\ PlaceBar' = PlaceBar
    <3>1. UNCHANGED <<queue, submission>>
      BY <2>11 DEF TakeRecord, CreateAttempt, CreateSteps, ApplyMastery, AskClassifier,
         RecordFails, Crash
    <3> QED
      BY <2>7, <3>1
  <2>12. CASE UNCHANGED vars
    BY <2>7, <2>12 DEF vars
  <2> QED
    BY <2>5, <2>6, <2>8, <2>9, <2>10, <2>11, <2>12 DEF Next, Process
<1> QED
  BY <1>1, <1>2, InitGrading, NextGrading, PTL DEF Spec, ImplementsResultQueue, Results!Spec

=============================================================================
