------------------------ MODULE GuideSubmissionsProofs ------------------------
(***************************************************************************)
(* Theorems about GuideSubmissions, for any number of overlapping requests, *)
(* questions, retries and key versions: how attempts are numbered, what     *)
(* overlap does to the cap on re-submissions, and that rows, messages and   *)
(* recorded key versions stay together.                                     *)
(*                                                                         *)
(* None of the properties is inductive: each is about rows, and what        *)
(* endangers it is a request that acts on what it read before. Each         *)
(* invariant below adds what the requests in flight still know.             *)
(***************************************************************************)
EXTENDS GuideSubmissions, FiniteSetTheorems, TLAPS

-----------------------------------------------------------------------------
(* Types. TypeOK needs what each step of a request has at hand, and that the *)
(* rows of a question are finitely many, for their count to be a number.     *)

LoopSteps == {"check", "version", "insert", "send"}

CompleteSteps == {"completeVersion", "completeWrite", "completeSend"}

Prepared(x) ==
  /\ x.step \in LoopSteps => x.question \in Questions /\ x.last \in Questions
                             /\ x.question <= x.last
  /\ x.step \in {"version", "insert"} => x.max \in Nat
  /\ x.step \in CompleteSteps => x.target \in Ids

TypeInv ==
  /\ TypeOK
  /\ \A r \in Requests : Prepared(request[r])
  /\ \A q \in Questions : IsFiniteSet(Rows(q))

\* The questions are the numbers from 1 to their count.
LEMMA QuestionsAreNumbers ==
  (\A q \in Questions : q \in Nat /\ q # 0) /\ 1 \in Questions /\ 0 \notin Questions
BY SubmissionsAssumption DEF Questions

\* Requests that have not begun, or have ended, are well formed.
LEMMA IdleIsPrepared ==
  /\ IdleRequest \in RequestRecord /\ DoneRequest \in RequestRecord
  /\ Prepared(IdleRequest) /\ Prepared(DoneRequest) /\ IdleRequest.target = None
  /\ DoneRequest.step = "done" /\ DoneRequest.target = None
<1>1. IdleRequest \in RequestRecord /\ IdleRequest.step = "idle" /\ IdleRequest.target = None
  BY SubmissionsAssumption DEF IdleRequest, RequestRecord, Steps
<1>2. /\ DoneRequest \in RequestRecord /\ DoneRequest.step = "done"
      /\ DoneRequest.target = None
  BY <1>1 DEF DoneRequest, RequestRecord, Steps
<1> QED
  BY <1>1, <1>2 DEF Prepared, LoopSteps, CompleteSteps

\* A step that gives one request a new record and leaves the rows.
LEMMA RequestStepTypes ==
  ASSUME TypeInv, NEW r \in Requests, NEW x \in RequestRecord, Prepared(x),
         request' = [request EXCEPT ![r] = x], UNCHANGED <<keyVersion, submission, revived>>,
         gradeMessages' \subseteq GradeMessage
  PROVE  TypeInv'
<1>1. TypeOK'
  BY DEF TypeInv, TypeOK
<1>2. \A s \in Requests : Prepared(request'[s])
  BY DEF TypeInv, TypeOK
<1>3. \A q \in Questions : IsFiniteSet(Rows(q)')
  BY DEF TypeInv, Rows
<1> QED
  BY <1>1, <1>2, <1>3 DEF TypeInv, Prepared

\* The end of a request, or of one round of a scan.
LEMMA ProceedRecord ==
  ASSUME TypeInv, NEW r \in Requests, request[r].step \in {"check", "send"}, Proceed(r)
  PROVE  \E x \in RequestRecord :
           /\ Prepared(x) /\ request' = [request EXCEPT ![r] = x]
           /\ \/ x = DoneRequest
              \/ x.step = "check" /\ x.question = request[r].question + 1 /\ x.count = None
                 /\ x.max = None
<1>1. request[r] \in RequestRecord /\ Prepared(request[r])
  BY DEF TypeInv, TypeOK
<1>2. CASE request[r].question < request[r].last
  <2> DEFINE x == [request[r] EXCEPT !.step = "check", !.question = request[r].question + 1,
                                     !.count = None, !.max = None, !.version = 0]
  <2>1. request' = [request EXCEPT ![r] = x]
    BY <1>2 DEF Proceed
  <2>2. request[r].question + 1 \in Questions /\ request[r].question + 1 <= request[r].last
        /\ request[r].last \in Questions
    BY <1>1, <1>2, SubmissionsAssumption DEF Prepared, LoopSteps, Questions
  <2>3. /\ x \in RequestRecord /\ x.step = "check" /\ x.question = request[r].question + 1
        /\ x.last = request[r].last /\ x.count = None /\ x.max = None
    <3>1. 0 \in 0..MaxVersion
      BY SubmissionsAssumption
    <3> QED
      BY <1>1, <2>2, <3>1 DEF RequestRecord, Steps
  <2> HIDE DEF x
  <2>4. Prepared(x)
    BY <2>2, <2>3 DEF Prepared, LoopSteps, CompleteSteps
  <2> QED
    BY <2>1, <2>3, <2>4
<1>3. CASE ~(request[r].question < request[r].last)
  BY <1>3, IdleIsPrepared DEF Proceed
<1> QED
  BY <1>2, <1>3

\* A row keeps its place among the rows of its question.
LEMMA SameRows ==
  ASSUME TypeInv, NEW id \in Ids, submission[id].status # "ABSENT",
         NEW row \in SubmissionRow, row.status # "ABSENT",
         submission' = [submission EXCEPT ![id] = row]
  PROVE  \A q \in Questions : Rows(q)' = Rows(q)
BY DEF TypeInv, TypeOK, Rows

\* An insert adds one row to its question.
LEMMA InsertedRow ==
  ASSUME TypeInv, NEW r \in Requests, Insert(r),
         NEW q, q = request[r].question, NEW id, id = <<r, q>>
  PROVE  /\ q \in Questions /\ id \in Ids
         /\ request[r].max \in Nat
         /\ submission' = [submission EXCEPT ![id] =
              [status |-> "UPLOADED", attempt |-> request[r].max + 1,
               version |-> request[r].version, scanned |-> request[r].scan]]
         /\ Rows(q)' = Rows(q) \union {id}
         /\ \A p \in Questions \ {q} : Rows(p)' = Rows(p)
<1>1. request[r].step = "insert" /\ Prepared(request[r])
  BY DEF Insert, At, TypeInv
<1>2. q \in Questions /\ id \in Ids /\ request[r].max \in Nat /\ id[2] = q
  BY <1>1 DEF Prepared, LoopSteps, Ids
<1>3. submission' = [submission EXCEPT ![id] =
                 [status |-> "UPLOADED", attempt |-> request[r].max + 1,
                  version |-> request[r].version, scanned |-> request[r].scan]]
  BY DEF Insert
<1>4. \A i \in Ids : submission'[i].status # "ABSENT" <=> (submission[i].status # "ABSENT" \/ i = id)
  BY <1>2, <1>3 DEF TypeInv, TypeOK
<1>5. Rows(q)' = Rows(q) \union {id}
  BY <1>2, <1>4 DEF Rows
<1>6. ASSUME NEW p \in Questions \ {q} PROVE Rows(p)' = Rows(p)
  BY <1>2, <1>4 DEF Rows
<1> QED
  BY <1>2, <1>3, <1>5, <1>6

\* The types hold at first.
LEMMA InitTypes == Init => TypeInv
<1> SUFFICES ASSUME Init PROVE TypeInv
  OBVIOUS
<1>1. \A q \in Questions : Rows(q) = {}
  BY DEF Init, Rows, NoRow
<1>2. NoRow \in SubmissionRow
  BY SubmissionsAssumption DEF NoRow, SubmissionRow, SubmissionStatuses
<1>3. TypeOK
  BY <1>2, IdleIsPrepared, SubmissionsAssumption DEF Init, TypeOK
<1> QED
  BY <1>1, <1>3, IdleIsPrepared, FS_EmptySet DEF Init, TypeInv

\* Every step keeps the types.
LEMMA NextTypes == TypeInv /\ [Next]_vars => TypeInv'
<1> SUFFICES ASSUME TypeInv, [Next]_vars PROVE TypeInv'
  OBVIOUS
<1>0. /\ \A r \in Requests : request[r] \in RequestRecord /\ Prepared(request[r])
      /\ gradeMessages \subseteq GradeMessage
  BY DEF TypeInv, TypeOK
<1> USE SubmissionsAssumption
<1>1. ASSUME NEW r \in Requests, NEW q \in Questions, CreateStarts(r, q) PROVE TypeInv'
  <2> DEFINE x == [IdleRequest EXCEPT !.step = "check", !.question = q, !.last = q]
  <2>1. x \in RequestRecord /\ x.step = "check" /\ x.question = q /\ x.last = q
    BY IdleIsPrepared DEF RequestRecord, Steps
  <2>2. q <= q
    BY QuestionsAreNumbers
  <2> HIDE DEF x
  <2>3. Prepared(x)
    BY <2>1, <2>2 DEF Prepared, LoopSteps, CompleteSteps
  <2> QED
    BY <1>0, <1>1, <2>1, <2>3, RequestStepTypes DEF CreateStarts, x
<1>2. ASSUME NEW r \in Requests, ScanStarts(r) PROVE TypeInv'
  <2>1. PICK pairs \in Questions : request' = [request EXCEPT ![r] =
          [IdleRequest EXCEPT !.step = "check", !.scan = TRUE, !.question = 1, !.last = pairs]]
    BY <1>2 DEF ScanStarts
  <2> DEFINE x == [IdleRequest EXCEPT !.step = "check", !.scan = TRUE, !.question = 1,
                                      !.last = pairs]
  <2>2. x \in RequestRecord /\ Prepared(x)
    <3>1. 1 <= pairs
      BY QuestionsAreNumbers
    <3> QED
      BY <3>1, QuestionsAreNumbers, IdleIsPrepared
         DEF RequestRecord, Steps, Prepared, LoopSteps, CompleteSteps
  <2> QED
    BY <1>0, <1>2, <2>1, <2>2, RequestStepTypes DEF ScanStarts
<1>3. ASSUME NEW r \in Requests, ReadCount(r) PROVE TypeInv'
  <2> DEFINE c == Cardinality(Counted(request[r].question))
             x == [request[r] EXCEPT !.count = c]
  <2>1. request[r].step = "check" /\ request[r].question \in Questions
    BY <1>0, <1>3 DEF ReadCount, At, Prepared, LoopSteps
  <2>2. c \in Nat
    <3>1. Counted(request[r].question) \subseteq Rows(request[r].question)
      BY DEF Counted
    <3> QED
      BY <2>1, <3>1, FS_Subset, FS_CardinalityType DEF TypeInv
  <2>3. request' = [request EXCEPT ![r] = x]
    BY <1>3 DEF ReadCount
  <2> HIDE DEF c
  <2>4. x \in RequestRecord /\ Prepared(x)
    BY <1>0, <2>2 DEF RequestRecord, Prepared
  <2> QED
    BY <1>0, <1>3, <2>3, <2>4, RequestStepTypes DEF ReadCount
<1>4. ASSUME NEW r \in Requests, ReadMax(r) PROVE TypeInv'
  <2>1. PICK n \in {submission[id].attempt : id \in Rows(request[r].question)} \union {0} :
          request' = [request EXCEPT ![r].max = n]
    BY <1>4 DEF ReadMax
  <2>2. n \in Nat
    BY DEF TypeInv, TypeOK, SubmissionRow, Rows
  <2> DEFINE x == [request[r] EXCEPT !.max = n]
  <2>3. x \in RequestRecord /\ Prepared(x)
    BY <1>0, <2>2 DEF RequestRecord, Prepared
  <2> QED
    BY <1>0, <1>4, <2>1, <2>3, RequestStepTypes DEF ReadMax
<1>5. ASSUME NEW r \in Requests, Decide(r) PROVE TypeInv'
  <2>1. CASE Proceed(r)
    BY <1>0, <1>5, <2>1, ProceedRecord, RequestStepTypes DEF Decide, At
  <2>2. CASE ~Proceed(r)
    <3> DEFINE x == [request[r] EXCEPT !.step = IF request[r].scan THEN "version" ELSE "insert",
                                       !.count = None]
    <3>1. request' = [request EXCEPT ![r] = x]
      BY <1>5, <2>2 DEF Decide
    <3>2. request[r].step = "check" /\ request[r].max \in Nat
      BY <1>0, <1>5 DEF Decide, At, RequestRecord
    <3>3. x \in RequestRecord /\ Prepared(x)
      BY <1>0, <3>2 DEF RequestRecord, Steps, Prepared, LoopSteps, CompleteSteps
    <3> QED
      BY <1>0, <1>5, <3>1, <3>3, RequestStepTypes DEF Decide
  <2> QED
    BY <2>1, <2>2
<1>6. ASSUME NEW r \in Requests, ScanReadsVersion(r) PROVE TypeInv'
  <2> DEFINE v == keyVersion[request[r].question]
             x == [request[r] EXCEPT !.version = v, !.step = "insert"]
  <2>1. request[r].step = "version" /\ v \in 0..MaxVersion
    BY <1>0, <1>6 DEF ScanReadsVersion, At, Prepared, LoopSteps, TypeInv, TypeOK
  <2>2. request' = [request EXCEPT ![r] = x]
    BY <1>6 DEF ScanReadsVersion
  <2> HIDE DEF v
  <2>3. x \in RequestRecord /\ Prepared(x)
    BY <1>0, <2>1 DEF RequestRecord, Steps, Prepared, LoopSteps, CompleteSteps
  <2> QED
    BY <1>0, <1>6, <2>2, <2>3, RequestStepTypes DEF ScanReadsVersion
<1>7. ASSUME NEW r \in Requests, Finish(r), UNCHANGED <<keyVersion, submission, gradeMessages, revived>>
      PROVE  TypeInv'
  BY <1>0, <1>7, IdleIsPrepared, RequestStepTypes DEF Finish
<1>8. ASSUME NEW r \in Requests, Insert(r) PROVE TypeInv'
  <2>0. PICK q, id : q = request[r].question /\ id = <<r, q>>
    OBVIOUS
  <2>1. /\ q \in Questions /\ id \in Ids /\ request[r].max \in Nat
        /\ submission' = [submission EXCEPT ![id] =
             [status |-> "UPLOADED", attempt |-> request[r].max + 1,
              version |-> request[r].version, scanned |-> request[r].scan]]
        /\ Rows(q)' = Rows(q) \union {id}
        /\ \A p \in Questions \ {q} : Rows(p)' = Rows(p)
    BY <1>8, <2>0, InsertedRow
  <2>2. submission' \in [Ids -> SubmissionRow]
    <3>1. request[r].version \in 0..MaxVersion /\ request[r].scan \in BOOLEAN
      BY <1>0 DEF RequestRecord
    <3> QED
      BY <2>1, <3>1 DEF TypeInv, TypeOK, SubmissionRow, SubmissionStatuses
  <2>3. \A p \in Questions : IsFiniteSet(Rows(p)')
    <3>1. IsFiniteSet(Rows(q) \union {id})
      BY <2>1, FS_AddElement DEF TypeInv
    <3>2. \A p \in Questions \ {q} : IsFiniteSet(Rows(p)')
      BY <2>1 DEF TypeInv
    <3>3. IsFiniteSet(Rows(q)')
      BY <2>1, <3>1
    <3> QED
      BY <3>2, <3>3
  <2>4. request' \in [Requests -> RequestRecord] /\ \A s \in Requests : Prepared(request'[s])
    <3>1. CASE request[r].scan
      <4> DEFINE x == [request[r] EXCEPT !.step = "send", !.max = None]
      <4>1. request' = [request EXCEPT ![r] = x]
        BY <1>8, <3>1 DEF Insert
      <4>2. x \in RequestRecord /\ Prepared(x)
        BY <1>0, <1>8 DEF Insert, At, RequestRecord, Steps, Prepared, LoopSteps, CompleteSteps
      <4> HIDE DEF x
      <4> QED
        BY <1>0, <4>1, <4>2 DEF TypeInv, TypeOK
    <3>2. CASE ~request[r].scan
      BY <1>0, <1>8, <3>2, IdleIsPrepared DEF Insert, Finish, TypeInv, TypeOK
    <3> QED
      BY <3>1, <3>2
  <2>5. TypeOK'
    BY <1>8, <2>2, <2>4 DEF Insert, TypeInv, TypeOK
  <2> QED
    BY <2>3, <2>4, <2>5 DEF TypeInv, Prepared
<1>9. ASSUME NEW r \in Requests, ScanSends(r) PROVE TypeInv'
  <2>1. <<r, request[r].question>> \in Ids /\ request[r].version \in 0..MaxVersion
    BY <1>0, <1>9 DEF ScanSends, At, Prepared, LoopSteps, Ids, RequestRecord
  <2>2. gradeMessages' \subseteq GradeMessage
    BY <1>0, <1>9, <2>1 DEF ScanSends, GradeMessage
  <2> QED
    BY <1>9, <2>2, ProceedRecord, RequestStepTypes DEF ScanSends, At
<1>10. ASSUME NEW r \in Requests, NEW id \in Ids, CompleteStarts(r, id) PROVE TypeInv'
  <2> DEFINE x == [IdleRequest EXCEPT !.step = "completeVersion", !.target = id]
  <2>1. x \in RequestRecord /\ Prepared(x)
    BY IdleIsPrepared DEF RequestRecord, Steps, Prepared, LoopSteps, CompleteSteps
  <2> QED
    BY <1>0, <1>10, <2>1, RequestStepTypes DEF CompleteStarts
<1>11. ASSUME NEW r \in Requests, CompleteReadsVersion(r) PROVE TypeInv'
  <2> DEFINE v == keyVersion[request[r].target[2]]
             x == [request[r] EXCEPT !.version = v, !.step = "completeWrite"]
  <2>1. request[r].step = "completeVersion" /\ v \in 0..MaxVersion
    BY <1>0, <1>11 DEF CompleteReadsVersion, At, Prepared, CompleteSteps, Ids, TypeInv, TypeOK
  <2>2. request' = [request EXCEPT ![r] = x]
    BY <1>11 DEF CompleteReadsVersion
  <2> HIDE DEF v
  <2>3. x \in RequestRecord /\ Prepared(x)
    BY <1>0, <2>1 DEF RequestRecord, Steps, Prepared, LoopSteps, CompleteSteps
  <2> QED
    BY <1>0, <1>11, <2>2, <2>3, RequestStepTypes DEF CompleteReadsVersion
<1>12. ASSUME NEW r \in Requests, CompleteWrites(r) PROVE TypeInv'
  <2> DEFINE x == [request[r] EXCEPT !.step = "completeSend"]
             id == request[r].target
  <2>1. request[r].step = "completeWrite" /\ id \in Ids /\ request[r].version \in 0..MaxVersion
    BY <1>0, <1>12 DEF CompleteWrites, At, Prepared, CompleteSteps, RequestRecord
  <2>2. x \in RequestRecord /\ Prepared(x)
    BY <1>0, <2>1 DEF RequestRecord, Steps, Prepared, LoopSteps, CompleteSteps
  <2>3. request' = [request EXCEPT ![r] = x]
    BY <1>12 DEF CompleteWrites, Goto
  <2>4. submission' = [submission EXCEPT ![id].version = request[r].version]
    BY <1>12 DEF CompleteWrites
  <2>5. submission' \in [Ids -> SubmissionRow]
    BY <2>1, <2>4 DEF TypeInv, TypeOK, SubmissionRow
  <2>6. \A q \in Questions : Rows(q)' = Rows(q)
    <3>1. \A i \in Ids : submission'[i].status = submission[i].status
      BY <2>1, <2>4 DEF TypeInv, TypeOK, SubmissionRow
    <3> QED
      BY <3>1 DEF Rows
  <2> HIDE DEF x
  <2>7. TypeOK'
    BY <1>12, <2>2, <2>3, <2>5 DEF CompleteWrites, TypeInv, TypeOK
  <2>8. \A s \in Requests : Prepared(request'[s])
    BY <2>2, <2>3 DEF TypeInv, TypeOK
  <2> QED
    BY <2>6, <2>7, <2>8 DEF TypeInv, Prepared
<1>13. ASSUME NEW r \in Requests, CompleteSends(r) PROVE TypeInv'
  <2>1. request[r].target \in Ids /\ request[r].version \in 0..MaxVersion
    BY <1>0, <1>13 DEF CompleteSends, At, Prepared, CompleteSteps, RequestRecord
  <2>2. gradeMessages' \subseteq GradeMessage
    BY <1>0, <1>13, <2>1 DEF CompleteSends, GradeMessage
  <2> QED
    BY <1>13, <2>2, IdleIsPrepared, RequestStepTypes DEF CompleteSends, Finish
<1>14. ASSUME NEW r \in Requests, RequestFails(r) PROVE TypeInv'
  <2>1. CASE request[r].step \in {"send", "completeSend"}
    <3> DEFINE x == [DoneRequest EXCEPT !.step = "died", !.question = request[r].question,
                                        !.target = request[r].target]
    <3>1. x \in RequestRecord /\ Prepared(x)
      BY <1>0, IdleIsPrepared DEF RequestRecord, Steps, Prepared, LoopSteps, CompleteSteps
    <3> QED
      BY <1>0, <1>14, <2>1, <3>1, RequestStepTypes DEF RequestFails
  <2>2. CASE request[r].step \notin {"send", "completeSend"}
    BY <1>7, <1>14, <2>2 DEF RequestFails
  <2> QED
    BY <2>1, <2>2
<1>15. ASSUME NEW q \in Questions, NewKeyVersion(q) PROVE TypeInv'
  <2>1. keyVersion' \in [Questions -> 0..MaxVersion]
    BY <1>15 DEF NewKeyVersion, TypeInv, TypeOK
  <2>2. \A p \in Questions : Rows(p)' = Rows(p)
    BY <1>15 DEF NewKeyVersion, Rows
  <2> QED
    BY <1>15, <2>1, <2>2 DEF NewKeyVersion, TypeInv, TypeOK, Prepared
<1>16. ASSUME NEW id \in Ids, submission[id].status # "ABSENT", NEW status \in {"GRADING", "FAILED"},
              submission' = [submission EXCEPT ![id].status = status],
              UNCHANGED <<keyVersion, request, gradeMessages>>, revived' \subseteq Ids
       PROVE  TypeInv'
  <2>1. submission' \in [Ids -> SubmissionRow]
    BY <1>16 DEF TypeInv, TypeOK, SubmissionRow, SubmissionStatuses
  <2>2. \A q \in Questions : Rows(q)' = Rows(q)
    BY <1>16 DEF TypeInv, TypeOK, SubmissionRow, Rows
  <2> QED
    BY <1>16, <2>1, <2>2 DEF TypeInv, TypeOK, Prepared
<1>17. ASSUME NEW m \in gradeMessages, GraderTakes(m) PROVE TypeInv'
  <2>1. m.id \in Ids
    BY <1>0 DEF GradeMessage
  <2>2. revived' \subseteq Ids
    BY <1>17, <2>1 DEF GraderTakes, TypeInv, TypeOK
  <2> QED
    BY <1>16, <1>17, <2>1, <2>2 DEF GraderTakes
<1>18. ASSUME NEW id \in Ids, GraderFails(id) PROVE TypeInv'
  BY <1>16, <1>18 DEF GraderFails, TypeInv, TypeOK
<1>19. CASE UNCHANGED vars
  BY <1>19 DEF vars, TypeInv, TypeOK, Prepared, Rows
<1> QED
  BY <1>1, <1>2, <1>3, <1>4, <1>5, <1>6, <1>7, <1>8, <1>9, <1>10, <1>11, <1>12, <1>13, <1>14,
     <1>15, <1>17, <1>18, <1>19 DEF Next, Create, Complete, InsertFails

\* Rows, messages and requests keep their types, for any number of requests.
THEOREM SubmissionsTypeCorrect == Spec => []TypeOK
<1>1. TypeInv => TypeOK
  BY DEF TypeInv
<1> QED
  BY <1>1, InitTypes, NextTypes, PTL DEF Spec

-----------------------------------------------------------------------------
(* What a step can do, in the terms of the invariants below: most steps give *)
(* one request a new record and touch neither rows nor messages.             *)

Asking == {"check", "version", "insert"}

\* A request starts, with nothing read.
Starts(r, x) ==
  /\ MayStart(r)
  /\ \/ x.step = "check" /\ x.count = None /\ x.max = None
     \/ x.step = "completeVersion" /\ submission[x.target].status # "ABSENT"

\* A request reads one of the two aggregates of its question.
Reads(r, x) ==
  LET q == request[r].question IN
  /\ At(r, "check") /\ x.step = "check" /\ x.question = q
  /\ \/ x.count = Cardinality(Counted(q)) /\ x.max = request[r].max
     \/ x.count = request[r].count /\ IsMaxAttempt(x.max, q)

\* A request goes on in its chain, having passed the cap if it leaves the check.
GoesOn(r, x) ==
  \/ /\ At(r, "check") /\ request[r].count # None /\ request[r].max # None
     /\ ~OverCap(r) /\ x.step \in {"version", "insert"}
     /\ x.question = request[r].question /\ x.max = request[r].max
  \/ /\ At(r, "version") /\ x.step = "insert"
     /\ x.question = request[r].question /\ x.max = request[r].max
  \/ At(r, "completeVersion") /\ x.step = "completeWrite" /\ x.target = request[r].target

NextRound(r, x) ==
  /\ x.step = "check" /\ x.question = request[r].question + 1
  /\ x.count = None /\ x.max = None

\* A request ends, leaving its place on record if a message was still to be sent.
Ends(r, x) ==
  \/ request[r].step \in Asking \union {"completeVersion", "completeWrite"} /\ x.step = "done"
  \/ /\ request[r].step \in {"send", "completeSend"}
     /\ x.step = "died" /\ x.question = request[r].question /\ x.target = request[r].target

QuietStep(r, x) ==
  /\ request' = [request EXCEPT ![r] = x]
  /\ UNCHANGED <<submission, gradeMessages, revived>>
  /\ \/ Starts(r, x) \/ Reads(r, x) \/ GoesOn(r, x) \/ Ends(r, x)
     \/ At(r, "check") /\ NextRound(r, x)

\* The grader takes a row or gives up on it; a row that it takes up again after
\* giving up is recorded as revived.
GraderStep(id, status) ==
  /\ submission[id].status # "ABSENT"
  /\ status \in {"GRADING", "FAILED"}
  /\ submission' = [submission EXCEPT ![id].status = status]
  /\ revived \subseteq revived'
  /\ submission[id].status = "FAILED" => id \in revived'
  /\ UNCHANGED <<request, gradeMessages>>

\* A step moves a request and nothing else, inserts or sends, or is a grader's.
LEMMA StepKinds ==
  ASSUME TypeInv, [Next]_vars
  PROVE  \/ \E r \in Requests : \E x : QuietStep(r, x)
         \/ \E r \in Requests : Insert(r) \/ ScanSends(r) \/ CompleteWrites(r) \/ CompleteSends(r)
         \/ \E id \in Ids, status \in {"GRADING", "FAILED"} : GraderStep(id, status)
         \/ UNCHANGED <<submission, request, gradeMessages, revived>>
<1>0. /\ \A r \in Requests : request[r] \in RequestRecord /\ Prepared(request[r])
      /\ gradeMessages \subseteq GradeMessage
  BY DEF TypeInv, TypeOK
<1>1. ASSUME NEW r \in Requests, NEW q \in Questions, CreateStarts(r, q)
      PROVE  \E x : QuietStep(r, x)
  <2> DEFINE x == [IdleRequest EXCEPT !.step = "check", !.question = q, !.last = q]
  <2>1. x.step = "check" /\ x.count = None /\ x.max = None
    BY DEF IdleRequest
  <2> QED
    BY <1>1, <2>1 DEF CreateStarts, QuietStep, Starts
<1>2. ASSUME NEW r \in Requests, ScanStarts(r) PROVE \E x : QuietStep(r, x)
  <2>1. PICK pairs \in Questions : request' = [request EXCEPT ![r] =
          [IdleRequest EXCEPT !.step = "check", !.scan = TRUE, !.question = 1, !.last = pairs]]
    BY <1>2 DEF ScanStarts
  <2> DEFINE x == [IdleRequest EXCEPT !.step = "check", !.scan = TRUE, !.question = 1,
                                      !.last = pairs]
  <2>2. x.step = "check" /\ x.count = None /\ x.max = None
    BY DEF IdleRequest
  <2> QED
    BY <1>2, <2>1, <2>2 DEF ScanStarts, QuietStep, Starts
<1>3. ASSUME NEW r \in Requests, NEW id \in Ids, CompleteStarts(r, id)
      PROVE  \E x : QuietStep(r, x)
  <2> DEFINE x == [IdleRequest EXCEPT !.step = "completeVersion", !.target = id]
  <2>1. x.step = "completeVersion" /\ x.target = id
    BY DEF IdleRequest
  <2> QED
    BY <1>3, <2>1 DEF CompleteStarts, QuietStep, Starts
<1>4. ASSUME NEW r \in Requests, ReadCount(r) PROVE \E x : QuietStep(r, x)
  <2> DEFINE c == Cardinality(Counted(request[r].question))
             x == [request[r] EXCEPT !.count = c]
  <2>1. request' = [request EXCEPT ![r] = x] /\ request[r].step = "check"
    BY <1>4 DEF ReadCount, At
  <2> HIDE DEF c
  <2>2. x.step = "check" /\ x.question = request[r].question /\ x.max = request[r].max
        /\ x.count = c
    BY <1>0, <2>1 DEF RequestRecord
  <2> HIDE DEF x
  <2> QED
    BY <1>4, <2>1, <2>2 DEF ReadCount, QuietStep, Reads, At, c
<1>5. ASSUME NEW r \in Requests, ReadMax(r) PROVE \E x : QuietStep(r, x)
  <2>1. PICK n : IsMaxAttempt(n, request[r].question) /\ request' = [request EXCEPT ![r].max = n]
    BY <1>5 DEF ReadMax
  <2> DEFINE x == [request[r] EXCEPT !.max = n]
  <2>2. request' = [request EXCEPT ![r] = x] /\ request[r].step = "check"
    BY <1>5, <2>1 DEF ReadMax, At
  <2>3. x.step = "check" /\ x.question = request[r].question /\ x.max = n
        /\ x.count = request[r].count
    BY <1>0, <2>2 DEF RequestRecord
  <2> HIDE DEF x
  <2> QED
    BY <1>5, <2>1, <2>2, <2>3 DEF ReadMax, QuietStep, Reads, At
<1>6. ASSUME NEW r \in Requests, Finish(r), UNCHANGED <<submission, gradeMessages, revived>>,
             request[r].step \in Asking \union {"completeVersion", "completeWrite"}
      PROVE  \E x : QuietStep(r, x)
  BY <1>6, IdleIsPrepared DEF Finish, QuietStep, Ends
<1>7. ASSUME NEW r \in Requests, Decide(r) PROVE \E x : QuietStep(r, x)
  <2>1. CASE Proceed(r)
    <3>1. PICK x \in RequestRecord :
            /\ request' = [request EXCEPT ![r] = x]
            /\ \/ x = DoneRequest
               \/ x.step = "check" /\ x.question = request[r].question + 1 /\ x.count = None
                  /\ x.max = None
      BY <1>7, <2>1, ProceedRecord DEF Decide, At
    <3> QED
      BY <1>7, <3>1, IdleIsPrepared DEF Decide, At, QuietStep, Ends, NextRound, Asking
  <2>2. CASE ~Proceed(r)
    <3> DEFINE x == [request[r] EXCEPT !.step = IF request[r].scan THEN "version" ELSE "insert",
                                       !.count = None]
    <3>1. request' = [request EXCEPT ![r] = x] /\ ~OverCap(r)
      BY <1>7, <2>2 DEF Decide
    <3>2. x.step \in {"version", "insert"} /\ x.question = request[r].question
          /\ x.max = request[r].max
      BY <1>0 DEF RequestRecord
    <3> HIDE DEF x
    <3> QED
      BY <1>7, <3>1, <3>2 DEF Decide, QuietStep, GoesOn
  <2> QED
    BY <2>1, <2>2
<1>8. ASSUME NEW r \in Requests, ScanReadsVersion(r) PROVE \E x : QuietStep(r, x)
  <2> DEFINE v == keyVersion[request[r].question]
             x == [request[r] EXCEPT !.version = v, !.step = "insert"]
  <2>1. request' = [request EXCEPT ![r] = x]
    BY <1>8 DEF ScanReadsVersion
  <2> HIDE DEF v
  <2>2. x.step = "insert" /\ x.question = request[r].question /\ x.max = request[r].max
    BY <1>0 DEF RequestRecord
  <2> HIDE DEF x
  <2> QED
    BY <1>8, <2>1, <2>2 DEF ScanReadsVersion, QuietStep, GoesOn
<1>9. ASSUME NEW r \in Requests, CompleteReadsVersion(r) PROVE \E x : QuietStep(r, x)
  <2> DEFINE v == keyVersion[request[r].target[2]]
             x == [request[r] EXCEPT !.version = v, !.step = "completeWrite"]
  <2>1. request' = [request EXCEPT ![r] = x]
    BY <1>9 DEF CompleteReadsVersion
  <2> HIDE DEF v
  <2>2. x.step = "completeWrite" /\ x.target = request[r].target
    BY <1>0 DEF RequestRecord
  <2> HIDE DEF x
  <2> QED
    BY <1>9, <2>1, <2>2 DEF CompleteReadsVersion, QuietStep, GoesOn
<1>10. ASSUME NEW r \in Requests, RequestFails(r) PROVE \E x : QuietStep(r, x)
  <2>1. CASE request[r].step \in {"send", "completeSend"}
    <3> DEFINE x == [DoneRequest EXCEPT !.step = "died", !.question = request[r].question,
                                        !.target = request[r].target]
    <3>1. x.step = "died" /\ x.question = request[r].question /\ x.target = request[r].target
      BY IdleIsPrepared DEF RequestRecord
    <3> HIDE DEF x
    <3> QED
      BY <1>10, <2>1, <3>1 DEF RequestFails, QuietStep, Ends, x
  <2>2. CASE request[r].step \notin {"send", "completeSend"}
    <3>1. request[r].step \in Asking \union {"completeVersion", "completeWrite"}
      BY <1>0, <1>10, <2>2 DEF RequestFails, InFlight, RequestRecord, Steps, Asking
    <3> QED
      BY <1>6, <1>10, <2>2, <3>1 DEF RequestFails
  <2> QED
    BY <2>1, <2>2
<1>11. ASSUME NEW r \in Requests, InsertFails(r) PROVE \E x : QuietStep(r, x)
  BY <1>6, <1>11 DEF InsertFails, At, Asking
<1>12. ASSUME NEW m \in gradeMessages, GraderTakes(m)
       PROVE  \E id \in Ids, status \in {"GRADING", "FAILED"} : GraderStep(id, status)
  <2>1. m.id \in Ids
    BY <1>0 DEF GradeMessage
  <2> QED
    BY <1>12, <2>1 DEF GraderTakes, GraderStep
<1>13. ASSUME NEW id \in Ids, GraderFails(id)
       PROVE  \E status \in {"GRADING", "FAILED"} : GraderStep(id, status)
  BY <1>13 DEF GraderFails, GraderStep
<1>14. ASSUME NEW q \in Questions, NewKeyVersion(q)
       PROVE  UNCHANGED <<submission, request, gradeMessages, revived>>
  BY <1>14 DEF NewKeyVersion
<1>15. CASE UNCHANGED vars
  BY <1>15 DEF vars
<1> QED
  BY <1>1, <1>2, <1>3, <1>4, <1>5, <1>7, <1>8, <1>9, <1>10, <1>11, <1>12, <1>13, <1>14, <1>15
     DEF Next, Create, Complete

\* The id of a row is the request that made it and its question; messages name one.
LEMMA IdFacts ==
  ASSUME TypeInv
  PROVE  /\ \A id \in Ids : id[1] \in Requests /\ id[2] \in Questions /\ id[2] \in Nat
                           /\ id = <<id[1], id[2]>>
         /\ \A r \in Requests : request[r] \in RequestRecord /\ Prepared(request[r])
         /\ \A r \in Requests : request[r].question \in Nat
         /\ \A m \in gradeMessages : m.id \in Ids /\ m = [id |-> m.id, version |-> m.version]
<1>1. \A id \in Ids : id[1] \in Requests /\ id[2] \in Questions /\ id = <<id[1], id[2]>>
  BY DEF Ids
<1>2. \A r \in Requests : request[r] \in RequestRecord /\ Prepared(request[r])
  BY DEF TypeInv, TypeOK
<1>3. \A r \in Requests : request[r].question \in Nat
  <2>1. \A r \in Requests : request[r].question \in Questions \union {0}
    BY <1>2 DEF RequestRecord
  <2> QED
    BY <2>1, QuestionsAreNumbers
<1>4. \A m \in gradeMessages : m.id \in Ids /\ m = [id |-> m.id, version |-> m.version]
  BY DEF TypeInv, TypeOK, GradeMessage
<1> QED
  BY <1>1, <1>2, <1>3, <1>4, QuestionsAreNumbers

\* A quiet step changes one request, and no row or message.
LEMMA QuietChange ==
  ASSUME TypeInv, NEW r \in Requests, NEW x, QuietStep(r, x)
  PROVE  /\ request'[r] = x
         /\ \A s \in Requests \ {r} : request'[s] = request[s]
         /\ UNCHANGED <<submission, gradeMessages, revived>>
         /\ \A q : Rows(q)' = Rows(q) /\ Standing(q)' = Standing(q)
BY DEF TypeInv, TypeOK, QuietStep, Rows, Counted, Standing

\* What is left of the handler's writes, row by row and request by request.
LEMMA InsertChange ==
  ASSUME TypeInv, NEW r \in Requests, Insert(r),
         NEW q, q = request[r].question, NEW id, id = <<r, q>>
  PROVE  /\ q \in Questions /\ id \in Ids /\ request[r].max \in Nat
         /\ request[r].step = "insert" /\ ~AttemptTaken(r)
         /\ submission'[id].status = "UPLOADED"
         /\ submission'[id].attempt = request[r].max + 1
         /\ submission'[id].version = request[r].version
         /\ submission'[id].scanned = request[r].scan
         /\ \A i \in Ids \ {id} : submission'[i] = submission[i]
         /\ Rows(q)' = Rows(q) \union {id}
         /\ \A p \in Questions \ {q} : Rows(p)' = Rows(p)
         /\ \A s \in Requests \ {r} : request'[s] = request[s]
         /\ \/ request[r].scan /\ request'[r].step = "send" /\ request'[r].question = q
               /\ request'[r].version = request[r].version
            \/ ~request[r].scan /\ request'[r].step = "done"
         /\ UNCHANGED <<gradeMessages, revived>>
<1> USE DEF TypeInv, TypeOK
<1>1. /\ q \in Questions /\ id \in Ids /\ request[r].max \in Nat
      /\ submission' = [submission EXCEPT ![id] =
           [status |-> "UPLOADED", attempt |-> request[r].max + 1,
            version |-> request[r].version, scanned |-> request[r].scan]]
      /\ Rows(q)' = Rows(q) \union {id}
      /\ \A p \in Questions \ {q} : Rows(p)' = Rows(p)
  BY InsertedRow
<1>2. /\ submission'[id].status = "UPLOADED"
      /\ submission'[id].attempt = request[r].max + 1
      /\ submission'[id].version = request[r].version
      /\ submission'[id].scanned = request[r].scan
      /\ \A i \in Ids \ {id} : submission'[i] = submission[i]
  BY <1>1
<1>3. CASE request[r].scan
  <2>1. request' = [request EXCEPT ![r].step = "send", ![r].max = None]
    BY <1>3 DEF Insert
  <2>2. /\ \A s \in Requests \ {r} : request'[s] = request[s]
        /\ request'[r].step = "send" /\ request'[r].question = q
        /\ request'[r].version = request[r].version
    BY <2>1 DEF RequestRecord
  <2> QED
    BY <1>1, <1>2, <1>3, <2>2 DEF Insert, At
<1>4. CASE ~request[r].scan
  BY <1>1, <1>2, <1>4, IdleIsPrepared DEF Insert, Finish, At
<1> QED
  BY <1>3, <1>4

\* A send of a scan adds the message of its row and goes on to the next question.
LEMMA SendChange ==
  ASSUME TypeInv, NEW r \in Requests, ScanSends(r), NEW id, id = <<r, request[r].question>>
  PROVE  /\ id \in Ids /\ request[r].step = "send"
         /\ gradeMessages' = gradeMessages \union {[id |-> id, version |-> request[r].version]}
         /\ UNCHANGED <<submission, revived>>
         /\ \A q : Rows(q)' = Rows(q) /\ Standing(q)' = Standing(q)
         /\ \A s \in Requests \ {r} : request'[s] = request[s]
         /\ request'[r].step = "done" \/ NextRound(r, request'[r])
<1>1. request[r].step = "send" /\ id \in Ids
  BY DEF ScanSends, At, TypeInv, Prepared, LoopSteps, Ids
<1>2. PICK x \in RequestRecord :
        /\ request' = [request EXCEPT ![r] = x]
        /\ \/ x = DoneRequest
           \/ x.step = "check" /\ x.question = request[r].question + 1 /\ x.count = None
              /\ x.max = None
  BY <1>1, ProceedRecord DEF ScanSends
<1>3. request'[r] = x /\ \A s \in Requests \ {r} : request'[s] = request[s]
  BY <1>2 DEF TypeInv, TypeOK
<1>4. request'[r].step = "done" \/ NextRound(r, request'[r])
  BY <1>2, <1>3, IdleIsPrepared DEF NextRound
<1> QED
  BY <1>1, <1>3, <1>4 DEF ScanSends, Rows, Counted, Standing

\* A completion writes the version it has read into its row, and nothing else.
LEMMA WriteChange ==
  ASSUME TypeInv, NEW r \in Requests, CompleteWrites(r), NEW id, id = request[r].target
  PROVE  /\ id \in Ids /\ request[r].step = "completeWrite"
         /\ \A i \in Ids : submission'[i] =
              IF i = id THEN [submission[i] EXCEPT !.version = request[r].version]
              ELSE submission[i]
         /\ \A i \in Ids : /\ submission'[i].status = submission[i].status
                           /\ submission'[i].attempt = submission[i].attempt
                           /\ submission'[i].scanned = submission[i].scanned
         /\ submission'[id].version = request[r].version
         /\ \A q : Rows(q)' = Rows(q) /\ Standing(q)' = Standing(q)
         /\ \A s \in Requests \ {r} : request'[s] = request[s]
         /\ request'[r].step = "completeSend" /\ request'[r].target = id
         /\ request'[r].version = request[r].version
         /\ UNCHANGED <<gradeMessages, revived>>
<1> USE DEF TypeInv, TypeOK
<1>1. request[r].step = "completeWrite" /\ id \in Ids
  BY DEF CompleteWrites, At, Prepared, CompleteSteps
<1>2. \A i \in Ids : submission'[i] =
        IF i = id THEN [submission[i] EXCEPT !.version = request[r].version] ELSE submission[i]
  BY <1>1 DEF CompleteWrites
<1>3. /\ \A i \in Ids : /\ submission'[i].status = submission[i].status
                        /\ submission'[i].attempt = submission[i].attempt
                        /\ submission'[i].scanned = submission[i].scanned
      /\ submission'[id].version = request[r].version
  BY <1>1, <1>2 DEF SubmissionRow
<1>4. \A q : Rows(q)' = Rows(q) /\ Standing(q)' = Standing(q)
  <2>1. \A q : Rows(q)' = Rows(q)
    BY <1>3 DEF Rows
  <2> QED
    BY <1>3, <2>1 DEF CompleteWrites, Standing, Counted, Rows
<1>5. /\ \A s \in Requests \ {r} : request'[s] = request[s]
      /\ request'[r].step = "completeSend" /\ request'[r].target = id
      /\ request'[r].version = request[r].version
  BY DEF CompleteWrites, Goto, RequestRecord
<1> QED
  BY <1>1, <1>2, <1>3, <1>4, <1>5 DEF CompleteWrites

\* A completion adds the message of its row, and ends.
LEMMA CompleteChange ==
  ASSUME TypeInv, NEW r \in Requests, CompleteSends(r), NEW id, id = request[r].target
  PROVE  /\ id \in Ids /\ request[r].step = "completeSend"
         /\ gradeMessages' = gradeMessages \union {[id |-> id, version |-> request[r].version]}
         /\ UNCHANGED <<submission, revived>>
         /\ \A q : Rows(q)' = Rows(q) /\ Standing(q)' = Standing(q)
         /\ \A s \in Requests \ {r} : request'[s] = request[s]
         /\ request'[r].step = "done"
<1>1. request[r].step = "completeSend" /\ id \in Ids
  BY DEF CompleteSends, At, TypeInv, Prepared, CompleteSteps
<1>2. request'[r].step = "done" /\ \A s \in Requests \ {r} : request'[s] = request[s]
  BY IdleIsPrepared DEF CompleteSends, Finish, TypeInv, TypeOK
<1> QED
  BY <1>1, <1>2 DEF CompleteSends, Rows, Counted, Standing

\* A grader writes the status of a row, and nothing else.
LEMMA GraderChange ==
  ASSUME TypeInv, NEW id \in Ids, NEW status \in {"GRADING", "FAILED"}, GraderStep(id, status)
  PROVE  /\ submission[id].status # "ABSENT"
         /\ \A i \in Ids : /\ submission'[i].status = IF i = id THEN status ELSE submission[i].status
                           /\ submission'[i].attempt = submission[i].attempt
                           /\ submission'[i].version = submission[i].version
                           /\ submission'[i].scanned = submission[i].scanned
         /\ \A q : Rows(q)' = Rows(q) /\ Standing(q)' \subseteq Standing(q)
         /\ UNCHANGED <<request, gradeMessages>>
<1>1. \A i \in Ids : /\ submission'[i].status = IF i = id THEN status ELSE submission[i].status
                     /\ submission'[i].attempt = submission[i].attempt
                     /\ submission'[i].version = submission[i].version
                     /\ submission'[i].scanned = submission[i].scanned
  BY DEF GraderStep, TypeInv, TypeOK, SubmissionRow
<1>2. \A q : Rows(q)' = Rows(q)
  BY <1>1 DEF GraderStep, Rows
<1>3. \A q : Standing(q)' \subseteq Standing(q)
  BY <1>1, <1>2 DEF GraderStep, Standing, Counted, Rows
<1> QED
  BY <1>1, <1>2, <1>3 DEF GraderStep

-----------------------------------------------------------------------------
(* Which rows there can be: a request inserts the row of a question once,    *)
(* and works on rows and sends messages about rows that exist.               *)

Behind(q, x) ==
  /\ x.step # "idle"
  /\ x.step \in Asking => q < x.question
  /\ x.step = "send" => q <= x.question

RowInv ==
  /\ \A id \in Ids : submission[id].status # "ABSENT" => Behind(id[2], request[id[1]])
  /\ \A r \in Requests :
       /\ At(r, "send") => submission[<<r, request[r].question>>].status # "ABSENT"
       /\ request[r].step \in CompleteSteps => submission[request[r].target].status # "ABSENT"
  /\ \A m \in gradeMessages : submission[m.id].status # "ABSENT"

\* At first there is no row.
LEMMA InitRows == Init => RowInv
BY DEF Init, RowInv, NoRow, IdleRequest, At, CompleteSteps, Ids

\* Every step keeps the rows and the requests that made them in agreement.
LEMMA NextRows == TypeInv /\ RowInv /\ [Next]_vars => RowInv'
<1> SUFFICES ASSUME TypeInv, RowInv, [Next]_vars PROVE RowInv'
  OBVIOUS
<1>0. /\ \A id \in Ids : id[1] \in Requests /\ id[2] \in Questions /\ id[2] \in Nat
                         /\ id = <<id[1], id[2]>>
      /\ \A r \in Requests : request[r] \in RequestRecord /\ Prepared(request[r])
      /\ \A m \in gradeMessages : m.id \in Ids
      /\ \A r \in Requests : request[r].question \in Nat
  BY IdFacts
<1>1. ASSUME NEW r \in Requests, NEW x, QuietStep(r, x) PROVE RowInv'
  <2>1. /\ request'[r] = x /\ \A s \in Requests \ {r} : request'[s] = request[s]
        /\ UNCHANGED <<submission, gradeMessages, revived>>
    BY <1>1, QuietChange
  <2>2. \A q \in Nat : Behind(q, request[r]) => Behind(q, x)
    BY <1>0, <1>1 DEF QuietStep, Starts, Reads, GoesOn, NextRound, Ends, At, MayStart, Behind, Asking
  <2>3. x.step # "send" /\ (x.step \in CompleteSteps => submission[x.target].status # "ABSENT")
    BY <1>0, <1>1 DEF QuietStep, Starts, Reads, GoesOn, NextRound, Ends, At, RowInv, CompleteSteps
  <2> QED
    BY <1>0, <2>1, <2>2, <2>3 DEF RowInv, At, Behind
<1>2. ASSUME NEW r \in Requests, Insert(r) PROVE RowInv'
  <2>1. PICK q, id : q = request[r].question /\ id = <<r, q>>
    OBVIOUS
  <2>2. /\ q \in Questions /\ id \in Ids /\ request[r].step = "insert"
        /\ \A i \in Ids : submission'[i].status =
             IF i = id THEN "UPLOADED" ELSE submission[i].status
        /\ \A s \in Requests \ {r} : request'[s] = request[s]
        /\ \/ request'[r].step = "send" /\ request'[r].question = q
           \/ request'[r].step = "done"
        /\ UNCHANGED gradeMessages
    BY <1>2, <2>1, InsertChange
  <2>3. ASSUME NEW i \in Ids, submission'[i].status # "ABSENT"
        PROVE  Behind(i[2], request[i[1]])'
    <3>1. CASE i[1] # r
      BY <1>0, <2>1, <2>2, <2>3, <3>1 DEF RowInv, Behind
    <3>2. CASE i[1] = r
      <4>1. i[2] <= q
        BY <1>0, <2>1, <2>2, <2>3, <3>2 DEF RowInv, Behind, Asking
      <4> QED
        BY <2>2, <3>2, <4>1 DEF Behind, Asking
    <3> QED
      BY <3>1, <3>2
  <2>4. ASSUME NEW s \in Requests
        PROVE  /\ At(s, "send")' => submission'[<<s, request'[s].question>>].status # "ABSENT"
               /\ request'[s].step \in CompleteSteps =>
                    submission'[request'[s].target].status # "ABSENT"
    <3>1. CASE s = r
      BY <2>1, <2>2, <3>1 DEF At, CompleteSteps
    <3>2. CASE s # r
      BY <1>0, <2>1, <2>2, <3>2 DEF RowInv, At, Prepared, LoopSteps, Ids
    <3> QED
      BY <3>1, <3>2
  <2>5. \A m \in gradeMessages' : submission'[m.id].status # "ABSENT"
    BY <1>0, <2>2 DEF RowInv
  <2> QED
    BY <2>3, <2>4, <2>5 DEF RowInv, Behind
<1>3. ASSUME NEW r \in Requests, ScanSends(r) PROVE RowInv'
  <2>1. PICK id : id = <<r, request[r].question>>
    OBVIOUS
  <2>2. /\ id \in Ids /\ request[r].step = "send"
        /\ gradeMessages' = gradeMessages \union {[id |-> id, version |-> request[r].version]}
        /\ UNCHANGED submission
        /\ \A s \in Requests \ {r} : request'[s] = request[s]
        /\ request'[r].step = "done" \/ NextRound(r, request'[r])
    BY <1>3, <2>1, SendChange
  <2>3. submission[id].status # "ABSENT"
    BY <2>1, <2>2 DEF RowInv, At
  <2>4. \A q \in Nat : Behind(q, request[r]) => Behind(q, request'[r])
    BY <1>0, <2>2 DEF NextRound, Behind, Asking
  <2>5. request'[r].step \notin CompleteSteps \union {"send"}
    BY <2>2 DEF NextRound, CompleteSteps
  <2> QED
    BY <1>0, <2>2, <2>3, <2>4, <2>5 DEF RowInv, At, Behind
<1>4. ASSUME NEW r \in Requests, CompleteWrites(r) PROVE RowInv'
  <2>1. PICK id : id = request[r].target
    OBVIOUS
  <2>2. /\ id \in Ids /\ request[r].step = "completeWrite"
        /\ \A i \in Ids : submission'[i].status = submission[i].status
        /\ \A s \in Requests \ {r} : request'[s] = request[s]
        /\ request'[r].step = "completeSend" /\ request'[r].target = id
        /\ UNCHANGED gradeMessages
    BY <1>4, <2>1, WriteChange
  <2>3. \A q \in Nat : Behind(q, request'[r])
    BY <2>2 DEF Behind, Asking
  <2>4. submission[id].status # "ABSENT"
    BY <2>1, <2>2 DEF RowInv, CompleteSteps
  <2>5. \A s \in Requests :
          /\ request[s].step = "send" => <<s, request[s].question>> \in Ids
          /\ request[s].step \in CompleteSteps => request[s].target \in Ids
    BY <1>0 DEF Prepared, LoopSteps, Ids
  <2> QED
    BY <1>0, <2>2, <2>3, <2>4, <2>5 DEF RowInv, At, Behind
<1>5. ASSUME NEW r \in Requests, CompleteSends(r) PROVE RowInv'
  <2>1. PICK id : id = request[r].target
    OBVIOUS
  <2>2. /\ id \in Ids /\ request[r].step = "completeSend"
        /\ gradeMessages' = gradeMessages \union {[id |-> id, version |-> request[r].version]}
        /\ UNCHANGED submission
        /\ \A s \in Requests \ {r} : request'[s] = request[s]
        /\ request'[r].step = "done"
    BY <1>5, <2>1, CompleteChange
  <2>3. submission[id].status # "ABSENT"
    BY <2>1, <2>2 DEF RowInv, CompleteSteps
  <2>4. \A q \in Nat : Behind(q, request'[r])
    BY <2>2 DEF Behind, Asking
  <2> QED
    BY <1>0, <2>2, <2>3, <2>4 DEF RowInv, At, Behind, CompleteSteps
<1>6. ASSUME NEW id \in Ids, NEW status \in {"GRADING", "FAILED"}, GraderStep(id, status)
      PROVE  RowInv'
  <2>1. /\ UNCHANGED <<request, gradeMessages>>
        /\ \A i \in Ids : submission'[i].status = "ABSENT" <=> submission[i].status = "ABSENT"
    BY <1>6, GraderChange
  <2>2. \A s \in Requests :
          /\ request[s].step = "send" => <<s, request[s].question>> \in Ids
          /\ request[s].step \in CompleteSteps => request[s].target \in Ids
    BY <1>0 DEF Prepared, LoopSteps, Ids
  <2> QED
    BY <1>0, <2>1, <2>2 DEF RowInv, At, Behind
<1>7. CASE UNCHANGED <<submission, request, gradeMessages, revived>>
  BY <1>7 DEF RowInv, At, Behind
<1> QED
  BY <1>1, <1>2, <1>3, <1>4, <1>5, <1>6, <1>7, StepKinds

-----------------------------------------------------------------------------
(* Attempt numbers: the maximum that a request has read is the number of     *)
(* some row, whatever was inserted since, so the next number leaves no gap;  *)
(* the unique index refuses it if it is taken.                               *)

Known(x) ==
  x.step \in Asking /\ x.max # None =>
    x.max = 0 \/ \E id \in Rows(x.question) : submission[id].attempt = x.max

NumberInv == AttemptsNumbered /\ \A r \in Requests : Known(request[r])

\* At first there is nothing to number.
LEMMA InitNumbers == Init => NumberInv
<1> SUFFICES ASSUME Init PROVE NumberInv
  OBVIOUS
<1>1. \A q \in Questions : Rows(q) = {}
  BY DEF Init, Rows, NoRow
<1>2. \A r \in Requests : request[r].step = "idle"
  BY DEF Init, IdleRequest
<1> QED
  BY <1>1, <1>2 DEF NumberInv, AttemptsNumbered, Known, Asking

\* A step that keeps the rows of every question and their numbers.
LEMMA NumbersStay ==
  ASSUME TypeInv, NumberInv, NEW r \in Requests,
         \A q : Rows(q)' = Rows(q),
         \A id \in Ids : submission'[id].attempt = submission[id].attempt,
         \A s \in Requests \ {r} : request'[s] = request[s],
         Known(request'[r])
  PROVE  NumberInv'
<1>0. \A q : Rows(q) \subseteq Ids
  BY DEF Rows
<1>1. AttemptsNumbered'
  BY <1>0 DEF NumberInv, AttemptsNumbered
<1>2. \A s \in Requests : Known(request'[s])
  BY DEF NumberInv
<1>3. \A s \in Requests : Known(request[s])'
  BY <1>0, <1>2 DEF Known
<1> QED
  BY <1>1, <1>3 DEF NumberInv

\* An insert gives its row the number after the last, since the number is not taken.
LEMMA InsertNumbers ==
  ASSUME TypeInv, RowInv, NumberInv, NEW r \in Requests, Insert(r)
  PROVE  NumberInv'
<1>1. PICK q, id : q = request[r].question /\ id = <<r, q>>
  OBVIOUS
<1>2. /\ q \in Questions /\ id \in Ids /\ request[r].max \in Nat
      /\ request[r].step = "insert" /\ ~AttemptTaken(r)
      /\ submission'[id].attempt = request[r].max + 1
      /\ \A i \in Ids \ {id} : submission'[i] = submission[i]
      /\ Rows(q)' = Rows(q) \union {id}
      /\ \A p \in Questions \ {q} : Rows(p)' = Rows(p)
      /\ \A s \in Requests \ {r} : request'[s] = request[s]
      /\ request'[r].step \in {"send", "done"}
  BY <1>1, InsertChange
<1>3. \A p \in Questions : id \notin Rows(p)
  BY <1>1, <1>2, IdFacts DEF RowInv, Rows, Behind, Asking
<1>4. PICK n \in Nat : n = request[r].max
  BY <1>2
<1>5. \A i \in Rows(q) : submission[i].attempt # n + 1
  BY <1>1, <1>2, <1>4 DEF AttemptTaken
<1>6. n = 0 \/ \E i \in Rows(q) : submission[i].attempt = n
  BY <1>1, <1>2, <1>4, SubmissionsAssumption DEF NumberInv, Known, Asking
<1>7. \A p \in Questions : \A i \in Rows(p) : i \in Ids /\ submission'[i] = submission[i]
  BY <1>2, <1>3 DEF Rows
<1>8. ASSUME NEW p \in Questions
      PROVE  /\ \A i1, i2 \in Rows(p)' :
                  submission'[i1].attempt = submission'[i2].attempt => i1 = i2
             /\ \A i \in Rows(p)' : \A k \in 1..submission'[i].attempt :
                  \E other \in Rows(p)' : submission'[other].attempt = k
  <2>1. /\ \A i1, i2 \in Rows(p) : submission[i1].attempt = submission[i2].attempt => i1 = i2
        /\ \A i \in Rows(p) : \A k \in 1..submission[i].attempt :
             \E other \in Rows(p) : submission[other].attempt = k
    BY DEF NumberInv, AttemptsNumbered
  <2>2. CASE p # q
    BY <1>2, <1>7, <2>1, <2>2
  <2>3. CASE p = q
    <3>1. submission'[id].attempt = n + 1
      BY <1>2, <1>4
    <3>2. \A i1, i2 \in Rows(q)' :
            submission'[i1].attempt = submission'[i2].attempt => i1 = i2
      BY <1>2, <1>5, <1>7, <2>1, <2>3, <3>1
    <3>3. ASSUME NEW i \in Rows(q)', NEW k \in 1..submission'[i].attempt
          PROVE  \E other \in Rows(q)' : submission'[other].attempt = k
      <4>1. CASE i # id
        BY <1>2, <1>7, <2>1, <2>3, <3>3, <4>1
      <4>2. CASE i = id
        <5>1. k = n + 1 \/ (n # 0 /\ k \in 1..n)
          BY <3>1, <3>3, <4>2
        <5>2. CASE k = n + 1
          BY <1>2, <3>1, <5>2
        <5>3. CASE n # 0 /\ k \in 1..n
          <6>1. \E other \in Rows(q) : submission[other].attempt = k
            BY <1>6, <2>1, <2>3, <5>3
          <6> QED
            BY <1>2, <1>7, <6>1
        <5> QED
          BY <5>1, <5>2, <5>3
      <4> QED
        BY <4>1, <4>2
    <3> QED
      BY <2>3, <3>2, <3>3
  <2> QED
    BY <2>2, <2>3
<1>9. ASSUME NEW s \in Requests PROVE Known(request[s])'
  <2>1. CASE s = r
    BY <1>2, <2>1 DEF Known, Asking
  <2>2. CASE s # r /\ request[s].step \in Asking
    <3>1. request[s].question \in Questions
      BY <2>2, IdFacts DEF Prepared, LoopSteps, Asking
    <3>2. Rows(request[s].question) \subseteq Rows(request[s].question)'
      <4>1. PICK p \in Questions : p = request[s].question
        BY <3>1
      <4>2. request'[s].question = p
        BY <1>2, <2>2, <4>1
      <4>3. Rows(p) \subseteq Rows(p)'
        BY <1>2
      <4> QED
        BY <4>1, <4>2, <4>3
    <3>3. Known(request[s]) /\ request'[s] = request[s]
      BY <1>2, <2>2 DEF NumberInv
    <3> QED
      BY <1>7, <3>1, <3>2, <3>3 DEF Known
  <2>3. CASE s # r /\ request[s].step \notin Asking
    BY <1>2, <2>3 DEF Known
  <2> QED
    BY <2>1, <2>2, <2>3
<1>10. AttemptsNumbered'
  BY <1>8 DEF AttemptsNumbered
<1> QED
  BY <1>9, <1>10 DEF NumberInv

\* Every step keeps the attempts numbered.
LEMMA NextNumbers == TypeInv /\ RowInv /\ NumberInv /\ [Next]_vars => NumberInv'
<1> SUFFICES ASSUME TypeInv, RowInv, NumberInv, [Next]_vars PROVE NumberInv'
  OBVIOUS
<1>1. ASSUME NEW r \in Requests, NEW x, QuietStep(r, x) PROVE NumberInv'
  <2>1. /\ request'[r] = x /\ \A s \in Requests \ {r} : request'[s] = request[s]
        /\ UNCHANGED submission /\ \A q : Rows(q)' = Rows(q)
    BY <1>1, QuietChange
  <2>2. Known(x)
    <3>1. Known(request[r])
      BY DEF NumberInv
    <3>2. CASE Starts(r, x) \/ Ends(r, x) \/ NextRound(r, x)
      BY <3>2 DEF Starts, Ends, NextRound, Known, Asking
    <3>3. CASE Reads(r, x)
      BY <3>1, <3>3 DEF Reads, At, Known, Asking, IsMaxAttempt
    <3>4. CASE GoesOn(r, x)
      BY <3>1, <3>4 DEF GoesOn, At, Known, Asking
    <3> QED
      BY <1>1, <3>2, <3>3, <3>4 DEF QuietStep
  <2> QED
    BY <2>1, <2>2, NumbersStay
<1>2. ASSUME NEW r \in Requests, ScanSends(r) PROVE NumberInv'
  <2>1. /\ UNCHANGED submission /\ \A q : Rows(q)' = Rows(q)
        /\ \A s \in Requests \ {r} : request'[s] = request[s]
        /\ request'[r].step = "done" \/ NextRound(r, request'[r])
    BY <1>2, SendChange
  <2>2. Known(request'[r])
    BY <2>1 DEF NextRound, Known, Asking
  <2> QED
    BY <2>1, <2>2, NumbersStay
<1>3. ASSUME NEW r \in Requests, CompleteWrites(r) PROVE NumberInv'
  <2>1. /\ \A i \in Ids : submission'[i].attempt = submission[i].attempt
        /\ \A q : Rows(q)' = Rows(q)
        /\ \A s \in Requests \ {r} : request'[s] = request[s]
        /\ request'[r].step = "completeSend"
    BY <1>3, WriteChange
  <2>2. Known(request'[r])
    BY <2>1 DEF Known, Asking
  <2> QED
    BY <2>1, <2>2, NumbersStay
<1>4. ASSUME NEW r \in Requests, CompleteSends(r) PROVE NumberInv'
  <2>1. /\ UNCHANGED submission /\ \A q : Rows(q)' = Rows(q)
        /\ \A s \in Requests \ {r} : request'[s] = request[s]
        /\ request'[r].step = "done"
    BY <1>4, CompleteChange
  <2>2. Known(request'[r])
    BY <2>1 DEF Known, Asking
  <2> QED
    BY <2>1, <2>2, NumbersStay
<1>5. ASSUME NEW id \in Ids, NEW status \in {"GRADING", "FAILED"}, GraderStep(id, status)
      PROVE  NumberInv'
  <2>1. /\ \A i \in Ids : submission'[i].attempt = submission[i].attempt
        /\ \A q : Rows(q)' = Rows(q) /\ UNCHANGED request
    BY <1>5, GraderChange
  <2>2. id[1] \in Requests /\ Known(request'[id[1]])
    BY <2>1, IdFacts DEF NumberInv
  <2> QED
    BY <2>1, <2>2, NumbersStay
<1>6. CASE UNCHANGED <<submission, request, gradeMessages, revived>>
  BY <1>6 DEF NumberInv, AttemptsNumbered, Known, Rows
<1> QED
  BY <1>1, <1>2, <1>3, <1>4, <1>5, <1>6, InsertNumbers, StepKinds

\* The attempts at a question are numbered without gaps or repetitions, although
\* each number was computed from an aggregate that may be out of date when the
\* row is inserted.
THEOREM AttemptsAreNumbered == Spec => []AttemptsNumbered
<1>1. NumberInv => AttemptsNumbered
  BY DEF NumberInv
<1> QED
  BY <1>1, InitTypes, NextTypes, InitRows, NextRows, InitNumbers, NextNumbers, PTL DEF Spec

-----------------------------------------------------------------------------
(* The cap: a request that has passed it, or will pass it with the count it  *)
(* has read, is weighed like the row it may still insert. A count that lets  *)
(* a request pass was read with at most MaxResubmissions rows there, and no  *)
(* more than Concurrency requests are in flight at that moment. A row that a *)
(* late result brings back is in no request's hands: it is set apart.        *)

Passing(q) ==
  {r \in Requests :
     /\ request[r].question = q
     /\ \/ At(r, "check") /\ request[r].count # None /\ request[r].count <= MaxResubmissions
        \/ request[r].step \in {"version", "insert"}}

CapInv ==
  /\ IsFiniteSet(InFlight) /\ Cardinality(InFlight) <= Concurrency
  /\ \A q \in Questions :
       Cardinality(Standing(q)) + Cardinality(Passing(q)) <= MaxResubmissions + Concurrency

\* At first nothing counts towards the cap.
LEMMA InitCap == Init => CapInv
<1> SUFFICES ASSUME Init PROVE CapInv
  OBVIOUS
<1>1. InFlight = {} /\ \A q \in Questions : Standing(q) = {} /\ Passing(q) = {}
  BY DEF Init, NoRow, IdleRequest, InFlight, Standing, Counted, Rows, Passing, At
<1> QED
  BY <1>1, FS_EmptySet, SubmissionsAssumption DEF CapInv

\* The sets that are counted are finite.
LEMMA CapSets ==
  ASSUME TypeInv, CapInv, NEW q \in Questions
  PROVE  /\ IsFiniteSet(Standing(q)) /\ Cardinality(Standing(q)) \in Nat
         /\ IsFiniteSet(Passing(q)) /\ Cardinality(Passing(q)) \in Nat
         /\ Cardinality(InFlight) \in Nat
         /\ Cardinality(Passing(q)) <= Cardinality(InFlight)
<1>1. Standing(q) \subseteq Rows(q) /\ IsFiniteSet(Rows(q))
  BY DEF Standing, Counted, TypeInv
<1>2. Passing(q) \subseteq InFlight /\ IsFiniteSet(InFlight)
  BY DEF Passing, InFlight, At, CapInv
<1> QED
  BY <1>1, <1>2, FS_Subset, FS_CardinalityType

\* A step by which no row is counted in addition and no request comes to pass.
LEMMA CapStays ==
  ASSUME TypeInv, CapInv, InFlight' \subseteq InFlight,
         \A q \in Questions : Standing(q)' \subseteq Standing(q) /\ Passing(q)' \subseteq Passing(q)
  PROVE  CapInv'
<1>1. IsFiniteSet(InFlight') /\ Cardinality(InFlight') <= Concurrency
  <2>1. IsFiniteSet(InFlight') /\ Cardinality(InFlight') <= Cardinality(InFlight)
    BY FS_Subset DEF CapInv
  <2>2. Cardinality(InFlight') \in Nat /\ Cardinality(InFlight) \in Nat
    BY <2>1, FS_CardinalityType DEF CapInv
  <2> QED
    BY <2>1, <2>2, SubmissionsAssumption DEF CapInv
<1>2. ASSUME NEW q \in Questions
      PROVE  Cardinality(Standing(q)') + Cardinality(Passing(q)') <= MaxResubmissions + Concurrency
  <2>1. IsFiniteSet(Standing(q)) /\ Cardinality(Standing(q)) \in Nat
        /\ IsFiniteSet(Passing(q)) /\ Cardinality(Passing(q)) \in Nat
    BY CapSets
  <2>2. /\ IsFiniteSet(Standing(q)') /\ Cardinality(Standing(q)') <= Cardinality(Standing(q))
        /\ IsFiniteSet(Passing(q)') /\ Cardinality(Passing(q)') <= Cardinality(Passing(q))
    BY <2>1, FS_Subset
  <2>3. Cardinality(Standing(q)') \in Nat /\ Cardinality(Passing(q)') \in Nat
    BY <2>2, FS_CardinalityType
  <2>4. Cardinality(Standing(q)) + Cardinality(Passing(q)) <= MaxResubmissions + Concurrency
    BY DEF CapInv
  <2> QED
    BY <2>1, <2>2, <2>3, <2>4, SubmissionsAssumption
<1> QED
  BY <1>1, <1>2 DEF CapInv

\* A request that starts is one more in flight, and has counted nothing yet.
LEMMA StartKeepsCap ==
  ASSUME TypeInv, CapInv, NEW r \in Requests, NEW x, QuietStep(r, x), Starts(r, x)
  PROVE  CapInv'
<1>1. /\ request'[r] = x /\ \A s \in Requests \ {r} : request'[s] = request[s]
      /\ \A q : Standing(q)' = Standing(q)
  BY QuietChange
<1>2. x.step \in {"check", "completeVersion"} /\ (x.step = "check" => x.count = None)
      /\ request[r].step = "idle" /\ Cardinality(InFlight) < Concurrency
  BY DEF Starts, MayStart
<1>3. InFlight' = InFlight \union {r} /\ r \notin InFlight
  BY <1>1, <1>2 DEF InFlight
<1>4. IsFiniteSet(InFlight') /\ Cardinality(InFlight') <= Concurrency
  <2>1. IsFiniteSet(InFlight) /\ Cardinality(InFlight) \in Nat
    BY FS_CardinalityType DEF CapInv
  <2>2. IsFiniteSet(InFlight \union {r})
        /\ Cardinality(InFlight \union {r}) = Cardinality(InFlight) + 1
    BY <1>3, <2>1, FS_AddElement
  <2> QED
    BY <1>2, <1>3, <2>1, <2>2, SubmissionsAssumption
<1>5. \A q \in Questions : Passing(q)' = Passing(q)
  BY <1>1, <1>2 DEF Passing, At
<1> QED
  BY <1>1, <1>4, <1>5 DEF CapInv

\* A request that reads the count passes only while there is room.
LEMMA ReadKeepsCap ==
  ASSUME TypeInv, TypeInv', CapInv, NEW r \in Requests, NEW x, QuietStep(r, x), Reads(r, x)
  PROVE  CapInv'
<1>1. /\ request'[r] = x /\ \A s \in Requests \ {r} : request'[s] = request[s]
      /\ \A q : Standing(q)' = Standing(q)
  BY QuietChange
<1>2. PICK q \in Questions : q = request[r].question
  BY IdFacts DEF Reads, At, Prepared, LoopSteps
<1>3. /\ request[r].step = "check" /\ x.step = "check" /\ x.question = q
      /\ x.count = Cardinality(Counted(q)) \/ x.count = request[r].count
  BY <1>2 DEF Reads, At
<1>4. InFlight' = InFlight
  BY <1>1, <1>3 DEF InFlight
<1>5. \A p \in Questions \ {q} : Passing(p)' = Passing(p)
  BY <1>1, <1>2, <1>3 DEF Passing, At
<1>6. CASE Passing(q)' \subseteq Passing(q)
  BY <1>1, <1>4, <1>5, <1>6, CapStays
<1>7. CASE ~(Passing(q)' \subseteq Passing(q))
  <2>0. Cardinality(Counted(q)) <= MaxResubmissions
    BY <1>1, <1>2, <1>3, <1>7 DEF Passing, At
  <2>1. Cardinality(Standing(q)) <= MaxResubmissions
    <3>1. Standing(q) \subseteq Counted(q) /\ Counted(q) \subseteq Rows(q) /\ IsFiniteSet(Rows(q))
      BY DEF Standing, Counted, TypeInv
    <3>2. /\ IsFiniteSet(Counted(q)) /\ IsFiniteSet(Standing(q))
          /\ Cardinality(Standing(q)) <= Cardinality(Counted(q))
      BY <3>1, FS_Subset
    <3>3. Cardinality(Counted(q)) \in Nat /\ Cardinality(Standing(q)) \in Nat
      BY <3>2, FS_CardinalityType
    <3> QED
      BY <2>0, <3>2, <3>3, SubmissionsAssumption
  <2>2. Passing(q)' \subseteq InFlight
    BY <1>4 DEF Passing, InFlight, At
  <2>3. IsFiniteSet(Passing(q)') /\ Cardinality(Passing(q)') <= Cardinality(InFlight)
    BY <2>2, FS_Subset DEF CapInv
  <2>4. Cardinality(Passing(q)') \in Nat /\ Cardinality(Standing(q)) \in Nat
        /\ Cardinality(InFlight) \in Nat
    BY <2>3, CapSets, FS_CardinalityType
  <2>5. Cardinality(InFlight) <= Concurrency
    BY DEF CapInv
  <2>6. Cardinality(Standing(q)) + Cardinality(Passing(q)') <= MaxResubmissions + Concurrency
    BY <2>1, <2>3, <2>4, <2>5, SubmissionsAssumption
  <2> QED
    BY <1>1, <1>4, <1>5, <2>6 DEF CapInv
<1> QED
  BY <1>6, <1>7

\* An insert turns a request that has passed into a row that counts.
LEMMA InsertKeepsCap ==
  ASSUME TypeInv, CapInv, NEW r \in Requests, Insert(r)
  PROVE  CapInv'
<1>1. PICK q, id : q = request[r].question /\ id = <<r, q>>
  OBVIOUS
<1>2. /\ q \in Questions /\ id \in Ids /\ request[r].step = "insert"
      /\ submission'[id].status = "UPLOADED"
      /\ \A i \in Ids \ {id} : submission'[i] = submission[i]
      /\ Rows(q)' = Rows(q) \union {id}
      /\ \A p \in Questions \ {q} : Rows(p)' = Rows(p)
      /\ \A s \in Requests \ {r} : request'[s] = request[s]
      /\ request'[r].step \in {"send", "done"}
  BY <1>1, InsertChange
<1>3. InFlight' \subseteq InFlight
  BY <1>2 DEF InFlight
<1>4. \A p \in Questions : Passing(p)' = IF p = q THEN Passing(p) \ {r} ELSE Passing(p)
  BY <1>1, <1>2 DEF Passing, At
<1>5. \A p \in Questions : \A i \in Rows(p) : i \in Ids /\ i[2] = p
  BY DEF Rows
<1>6. \A p \in Questions \ {q} : Standing(p)' = Standing(p)
  BY <1>1, <1>2, <1>5 DEF Insert, Standing, Counted
<1>7. Standing(q)' \subseteq Standing(q) \union {id}
  BY <1>1, <1>2, <1>5 DEF Insert, Standing, Counted
<1>8. r \in Passing(q)
  BY <1>1, <1>2 DEF Passing
<1>9. /\ IsFiniteSet(Standing(q)) /\ Cardinality(Standing(q)) \in Nat
      /\ IsFiniteSet(Passing(q)) /\ Cardinality(Passing(q)) \in Nat
  BY <1>2, CapSets
<1>10. Cardinality(Standing(q)') <= Cardinality(Standing(q)) + 1 /\ Cardinality(Standing(q)') \in Nat
  <2>1. /\ IsFiniteSet(Standing(q) \union {id})
        /\ Cardinality(Standing(q) \union {id}) \in {Cardinality(Standing(q)), Cardinality(Standing(q)) + 1}
    BY <1>9, FS_AddElement
  <2>2. /\ IsFiniteSet(Standing(q)')
        /\ Cardinality(Standing(q)') <= Cardinality(Standing(q) \union {id})
    BY <1>7, <2>1, FS_Subset
  <2>3. Cardinality(Standing(q)') \in Nat
    BY <2>2, FS_CardinalityType
  <2> QED
    BY <1>9, <2>1, <2>2, <2>3
<1>11. Cardinality(Passing(q)') = Cardinality(Passing(q)) - 1
  <2>1. Cardinality(Passing(q) \ {r}) = Cardinality(Passing(q)) - 1
    BY <1>8, <1>9, FS_RemoveElement
  <2>2. Passing(q)' = Passing(q) \ {r}
    BY <1>2, <1>4
  <2> QED
    BY <2>1, <2>2
<1>12. Cardinality(Standing(q)') + Cardinality(Passing(q)') <= MaxResubmissions + Concurrency
  <2>1. Cardinality(Standing(q)) + Cardinality(Passing(q)) <= MaxResubmissions + Concurrency
    BY <1>2 DEF CapInv
  <2> QED
    BY <1>9, <1>10, <1>11, <2>1, SubmissionsAssumption
<1>13. \A p \in Questions \ {q} :
         Cardinality(Standing(p)') + Cardinality(Passing(p)') <= MaxResubmissions + Concurrency
  BY <1>4, <1>6 DEF CapInv
<1>14. IsFiniteSet(InFlight') /\ Cardinality(InFlight') <= Concurrency
  <2>1. IsFiniteSet(InFlight') /\ Cardinality(InFlight') <= Cardinality(InFlight)
    BY <1>3, FS_Subset DEF CapInv
  <2>2. Cardinality(InFlight') \in Nat /\ Cardinality(InFlight) \in Nat
    BY <2>1, FS_CardinalityType DEF CapInv
  <2> QED
    BY <2>1, <2>2, SubmissionsAssumption DEF CapInv
<1> QED
  BY <1>12, <1>13, <1>14 DEF CapInv

\* Every step keeps the count within the cap and the requests in flight.
LEMMA NextCap == TypeInv /\ TypeInv' /\ CapInv /\ [Next]_vars => CapInv'
<1> SUFFICES ASSUME TypeInv, TypeInv', CapInv, [Next]_vars PROVE CapInv'
  OBVIOUS
\* A request that leaves the queries behind neither starts nor comes to pass.
<1>1. ASSUME NEW r \in Requests, \A s \in Requests \ {r} : request'[s] = request[s],
             request[r].step \notin {"idle", "done", "died"},
             \/ request'[r].step \in {"send", "completeWrite", "completeSend", "done", "died"}
             \/ request'[r].step = "check" /\ request'[r].count = None,
             \A q \in Questions : Standing(q)' \subseteq Standing(q)
      PROVE  CapInv'
  <2>1. InFlight' \subseteq InFlight
    BY <1>1 DEF InFlight
  <2>2. \A q \in Questions : Passing(q)' \subseteq Passing(q)
    BY <1>1 DEF Passing, At
  <2> QED
    BY <1>1, <2>1, <2>2, CapStays
<1>2. ASSUME NEW r \in Requests, NEW x, QuietStep(r, x) PROVE CapInv'
  <2>1. /\ request'[r] = x /\ \A s \in Requests \ {r} : request'[s] = request[s]
        /\ \A q : Standing(q)' = Standing(q)
    BY <1>2, QuietChange
  <2>2. CASE Ends(r, x) \/ (At(r, "check") /\ NextRound(r, x))
    BY <1>1, <2>1, <2>2 DEF Ends, NextRound, At, Asking
  <2>3. CASE GoesOn(r, x)
    <3>1. InFlight' \subseteq InFlight
      BY <2>1, <2>3 DEF GoesOn, At, InFlight
    <3>2. \A q \in Questions : Passing(q)' \subseteq Passing(q)
      <4>1. At(r, "check") =>
              \/ request[r].count # None /\ request[r].count <= MaxResubmissions
              \/ x.step \notin {"check", "version", "insert"}
        <5>1. request[r].count # None => request[r].count \in Nat
          BY IdFacts DEF RequestRecord
        <5> QED
          BY <2>3, <5>1, SubmissionsAssumption DEF GoesOn, At, OverCap
      <4> QED
        BY <2>1, <2>3, <4>1 DEF GoesOn, At, Passing
    <3> QED
      BY <2>1, <3>1, <3>2, CapStays
  <2> QED
    BY <1>2, <2>2, <2>3, StartKeepsCap, ReadKeepsCap DEF QuietStep
<1>3. ASSUME NEW r \in Requests, ScanSends(r) PROVE CapInv'
  <2>1. /\ request[r].step = "send"
        /\ \A q : Standing(q)' = Standing(q)
        /\ \A s \in Requests \ {r} : request'[s] = request[s]
        /\ request'[r].step = "done" \/ NextRound(r, request'[r])
    BY <1>3, SendChange
  <2> QED
    BY <1>1, <2>1 DEF NextRound
<1>4. ASSUME NEW r \in Requests, CompleteWrites(r) PROVE CapInv'
  <2>1. /\ request[r].step = "completeWrite"
        /\ \A q : Standing(q)' = Standing(q)
        /\ \A s \in Requests \ {r} : request'[s] = request[s]
        /\ request'[r].step = "completeSend"
    BY <1>4, WriteChange
  <2> QED
    BY <1>1, <2>1
<1>5. ASSUME NEW r \in Requests, CompleteSends(r) PROVE CapInv'
  <2>1. /\ request[r].step = "completeSend"
        /\ \A q : Standing(q)' = Standing(q)
        /\ \A s \in Requests \ {r} : request'[s] = request[s]
        /\ request'[r].step = "done"
    BY <1>5, CompleteChange
  <2> QED
    BY <1>1, <2>1
<1>6. ASSUME NEW id \in Ids, NEW status \in {"GRADING", "FAILED"}, GraderStep(id, status)
      PROVE  CapInv'
  <2>1. UNCHANGED request /\ \A q : Standing(q)' \subseteq Standing(q)
    BY <1>6, GraderChange
  <2>2. InFlight' = InFlight /\ \A q \in Questions : Passing(q)' = Passing(q)
    BY <2>1 DEF InFlight, Passing, At
  <2> QED
    BY <2>1, <2>2, CapStays
<1>7. CASE UNCHANGED <<submission, request, gradeMessages, revived>>
  BY <1>7 DEF CapInv, InFlight, Standing, Counted, Rows, Passing, At
<1> QED
  BY <1>2, <1>3, <1>4, <1>5, <1>6, <1>7, InsertKeepsCap, StepKinds

\* Overlapping requests exceed the cap on re-submissions by no more than the
\* number of requests in flight besides the first, and by the rows that a late
\* result brings back from FAILED, for any number of requests and late results.
THEOREM OvershootIsBounded == Spec => []CapOvershoot
<1>1. TypeInv /\ CapInv => CapOvershoot
  <2> SUFFICES ASSUME TypeInv, CapInv, NEW q \in Questions
               PROVE  Cardinality(Standing(q)) <= MaxResubmissions + Concurrency
    BY DEF CapOvershoot
  <2> QED
    BY CapSets, SubmissionsAssumption DEF CapInv
<1> QED
  BY <1>1, InitTypes, NextTypes, InitCap, NextCap, PTL DEF Spec

-----------------------------------------------------------------------------
(* Rows and messages of a page scan                                          *)

\* A step that sends nothing for a question leaves its scanned rows queued.
LEMMA ScanRowStays ==
  ASSUME TypeInv, ScanRowsQueued, NEW r \in Requests,
         \A id \in Ids : submission'[id].scanned = submission[id].scanned,
         gradeMessages \subseteq gradeMessages',
         \A s \in Requests \ {r} : request'[s] = request[s],
         \A q \in Questions :
           request[r].step \in {"send", "died"} /\ request[r].question = q
           => \/ request'[r].step \in {"send", "died"} /\ request'[r].question = q
              \/ \E m \in gradeMessages' : m.id = <<r, q>>
  PROVE  ScanRowsQueued'
<1> SUFFICES ASSUME NEW id \in Ids, submission'[id].scanned
             PROVE  \/ \E m \in gradeMessages' : m.id = id
                    \/ request'[id[1]].step \in {"send", "died"} /\ request'[id[1]].question = id[2]
  BY DEF ScanRowsQueued
<1>1. \/ \E m \in gradeMessages : m.id = id
      \/ request[id[1]].step \in {"send", "died"} /\ request[id[1]].question = id[2]
  BY DEF ScanRowsQueued
<1>2. id[1] \in Requests /\ id[2] \in Questions /\ id = <<id[1], id[2]>>
  BY IdFacts
<1>3. CASE \E m \in gradeMessages : m.id = id
  BY <1>3
<1>4. CASE id[1] # r /\ request[id[1]].step \in {"send", "died"}
           /\ request[id[1]].question = id[2]
  BY <1>2, <1>4
<1>5. CASE id[1] = r /\ request[id[1]].step \in {"send", "died"}
           /\ request[id[1]].question = id[2]
  BY <1>2, <1>5
<1> QED
  BY <1>1, <1>3, <1>4, <1>5

\* Every step keeps the scanned rows queued, or about to be.
LEMMA NextScanRows == TypeInv /\ ScanRowsQueued /\ [Next]_vars => ScanRowsQueued'
<1> SUFFICES ASSUME TypeInv, ScanRowsQueued, [Next]_vars PROVE ScanRowsQueued'
  OBVIOUS
<1>1. ASSUME NEW r \in Requests, NEW x, QuietStep(r, x) PROVE ScanRowsQueued'
  <2>1. /\ request'[r] = x /\ \A s \in Requests \ {r} : request'[s] = request[s]
        /\ UNCHANGED <<submission, gradeMessages, revived>>
    BY <1>1, QuietChange
  <2>2. request[r].step \in {"send", "died"} =>
          x.step = "died" /\ x.question = request[r].question
    BY <1>1 DEF QuietStep, Starts, Reads, GoesOn, Ends, NextRound, At, MayStart, Asking
  <2> QED
    BY <2>1, <2>2, ScanRowStays
<1>2. ASSUME NEW r \in Requests, Insert(r) PROVE ScanRowsQueued'
  <2>1. PICK q, id : q = request[r].question /\ id = <<r, q>>
    OBVIOUS
  <2>2. /\ q \in Questions /\ id \in Ids /\ request[r].step = "insert"
        /\ submission'[id].scanned = request[r].scan
        /\ \A i \in Ids \ {id} : submission'[i] = submission[i]
        /\ \A s \in Requests \ {r} : request'[s] = request[s]
        /\ \/ request[r].scan /\ request'[r].step = "send" /\ request'[r].question = q
           \/ ~request[r].scan
        /\ UNCHANGED gradeMessages
    BY <1>2, <2>1, InsertChange
  <2>3. ASSUME NEW i \in Ids, submission'[i].scanned
        PROVE  \/ \E m \in gradeMessages' : m.id = i
               \/ request'[i[1]].step \in {"send", "died"} /\ request'[i[1]].question = i[2]
    <3>1. CASE i = id
      BY <2>1, <2>2, <2>3, <3>1
    <3>2. CASE i # id
      <4>1. \/ \E m \in gradeMessages : m.id = i
            \/ request[i[1]].step \in {"send", "died"} /\ request[i[1]].question = i[2]
        BY <2>2, <2>3, <3>2 DEF ScanRowsQueued
      <4> QED
        BY <2>2, <4>1, IdFacts
    <3> QED
      BY <3>1, <3>2
  <2> QED
    BY <2>3 DEF ScanRowsQueued
<1>3. ASSUME NEW r \in Requests, ScanSends(r) PROVE ScanRowsQueued'
  <2>1. PICK id : id = <<r, request[r].question>>
    OBVIOUS
  <2>2. /\ gradeMessages' = gradeMessages \union {[id |-> id, version |-> request[r].version]}
        /\ UNCHANGED submission
        /\ \A s \in Requests \ {r} : request'[s] = request[s]
    BY <1>3, <2>1, SendChange
  <2>3. \E m \in gradeMessages' : m.id = id
    <3>1. [id |-> id, version |-> request[r].version] \in gradeMessages'
      BY <2>2
    <3> QED
      BY <3>1
  <2>4. \A q \in Questions : request[r].question = q => \E m \in gradeMessages' : m.id = <<r, q>>
    BY <2>1, <2>3
  <2> QED
    BY <2>2, <2>4, ScanRowStays
<1>4. ASSUME NEW r \in Requests, CompleteWrites(r) PROVE ScanRowsQueued'
  <2>1. /\ request[r].step = "completeWrite"
        /\ \A i \in Ids : submission'[i].scanned = submission[i].scanned
        /\ \A s \in Requests \ {r} : request'[s] = request[s]
        /\ UNCHANGED gradeMessages
    BY <1>4, WriteChange
  <2> QED
    BY <2>1, ScanRowStays
<1>5. ASSUME NEW r \in Requests, CompleteSends(r) PROVE ScanRowsQueued'
  <2>1. /\ request[r].step = "completeSend"
        /\ gradeMessages \subseteq gradeMessages' /\ UNCHANGED submission
        /\ \A s \in Requests \ {r} : request'[s] = request[s]
    BY <1>5, CompleteChange
  <2> QED
    BY <2>1, ScanRowStays
<1>6. ASSUME NEW id \in Ids, NEW status \in {"GRADING", "FAILED"}, GraderStep(id, status)
      PROVE  ScanRowsQueued'
  BY <1>6, GraderChange DEF ScanRowsQueued
<1>7. CASE UNCHANGED <<submission, request, gradeMessages, revived>>
  BY <1>7 DEF ScanRowsQueued
<1> QED
  BY <1>1, <1>2, <1>3, <1>4, <1>5, <1>6, <1>7, StepKinds

\* Every row of a page scan has its grading message, or the Lambda that has not
\* sent it yet, or the death of that Lambda, to account for it.
THEOREM ScanRowsAreQueued == Spec => []ScanRowsQueued
<1>1. Init => ScanRowsQueued
  BY DEF Init, NoRow, ScanRowsQueued
<1> QED
  BY <1>1, InitTypes, NextTypes, NextScanRows, PTL DEF Spec

-----------------------------------------------------------------------------
(* The key version on a row. Whoever wrote it last has asked the grader for  *)
(* it, is about to, or died there; only a row that nobody has asked the      *)
(* grader about may carry a version that was never sent.                     *)

Sent(id) == \E m \in gradeMessages : m.id = id

Completing(id) == \E r \in Requests : At(r, "completeSend") /\ request[r].target = id

\* A scan that has inserted row id and not sent its message.
Sending(id) == At(id[1], "send") /\ request[id[1]].question = id[2]

Unasked(id) ==
  /\ ~Sent(id) /\ ~Completing(id)
  /\ Sending(id) => request[id[1]].version = submission[id].version

Traceable(id) ==
  LET version == submission[id].version
  IN \/ [id |-> id, version |-> version] \in gradeMessages
     \/ \E r \in Requests :
          At(r, "completeSend") /\ request[r].target = id /\ request[r].version = version
     \/ \E r \in Requests : At(r, "died") /\ request[r].target = id
     \/ Unasked(id)

TraceInv == \A id \in Ids : Traceable(id)

\* A step of request r that leaves row id as it is.
LEMMA TraceStays ==
  ASSUME TypeInv, NEW id \in Ids, Traceable(id), NEW r \in Requests,
         submission'[id].version = submission[id].version,
         gradeMessages \subseteq gradeMessages',
         \A m \in gradeMessages' \ gradeMessages : m.id # id,
         \A s \in Requests \ {r} : request'[s] = request[s],
         request[r].step \in {"completeSend", "died"} /\ request[r].target = id =>
           request'[r].step = "died" /\ request'[r].target = id,
         request'[r].step = "completeSend" => request'[r].target # id,
         request'[r].step = "send" => <<r, request'[r].question>> # id
  PROVE  Traceable(id)'
<1>0. id[1] \in Requests /\ id = <<id[1], id[2]>>
  BY IdFacts
<1>1. CASE [id |-> id, version |-> submission[id].version] \in gradeMessages
  BY <1>1 DEF Traceable
<1>2. CASE \E s \in Requests :
             /\ At(s, "completeSend") /\ request[s].target = id
             /\ request[s].version = submission[id].version
  BY <1>2 DEF Traceable, At
<1>3. CASE \E s \in Requests : At(s, "died") /\ request[s].target = id
  BY <1>3 DEF Traceable, At
<1>4. CASE Unasked(id)
  <2>1. CASE Completing(id)'
    BY <1>4, <2>1 DEF Unasked, Completing, At
  <2>2. CASE ~Completing(id)'
    <3>1. ~Sent(id)'
      BY <1>4 DEF Unasked, Sent
    <3>2. Sending(id)' => request'[id[1]].version = submission'[id].version
      BY <1>0, <1>4 DEF Unasked, Sending, At
    <3> QED
      BY <2>2, <3>1, <3>2 DEF Traceable, Unasked
  <2> QED
    BY <2>1, <2>2
<1> QED
  BY <1>1, <1>2, <1>3, <1>4 DEF Traceable

\* The row that r is about is traceable once its message is sent.
LEMMA SendMakesTraceable ==
  ASSUME TypeInv, NEW id \in Ids, Traceable(id), NEW r \in Requests,
         \/ Sending(id) /\ r = id[1]
         \/ At(r, "completeSend") /\ request[r].target = id,
         gradeMessages' = gradeMessages \union {[id |-> id, version |-> request[r].version]},
         UNCHANGED submission,
         \A s \in Requests \ {r} : request'[s] = request[s]
  PROVE  Traceable(id)'
<1>1. CASE [id |-> id, version |-> submission[id].version] \in gradeMessages
  BY <1>1 DEF Traceable
<1>2. CASE \E s \in Requests :
             /\ At(s, "completeSend") /\ request[s].target = id
             /\ request[s].version = submission[id].version
  <2>1. PICK s \in Requests : /\ At(s, "completeSend") /\ request[s].target = id
                              /\ request[s].version = submission[id].version
    BY <1>2
  <2>2. CASE s = r
    BY <2>1, <2>2 DEF Traceable
  <2>3. CASE s # r
    BY <2>1, <2>3 DEF Traceable, At
  <2> QED
    BY <2>2, <2>3
<1>3. CASE \E s \in Requests : At(s, "died") /\ request[s].target = id
  BY <1>3 DEF Traceable, At, Sending
<1>4. CASE Unasked(id)
  <2>1. request[r].version = submission[id].version
    BY <1>4 DEF Unasked, Completing
  <2> QED
    BY <2>1 DEF Traceable
<1> QED
  BY <1>1, <1>2, <1>3, <1>4 DEF Traceable

\* Every step keeps the version of a row traceable to a message.
LEMMA NextTrace == TypeInv /\ RowInv /\ TraceInv /\ [Next]_vars => TraceInv'
<1> SUFFICES ASSUME TypeInv, RowInv, TraceInv, [Next]_vars, NEW id \in Ids
             PROVE  Traceable(id)'
  BY DEF TraceInv
<1>0. Traceable(id)
  BY DEF TraceInv
<1>1. ASSUME NEW r \in Requests, NEW x, QuietStep(r, x) PROVE Traceable(id)'
  <2>1. /\ request'[r] = x /\ \A s \in Requests \ {r} : request'[s] = request[s]
        /\ UNCHANGED <<submission, gradeMessages, revived>>
    BY <1>1, QuietChange
  <2>2. /\ request[r].step \in {"completeSend", "died"} =>
             x.step = "died" /\ x.target = request[r].target
        /\ x.step \notin {"send", "completeSend"}
    BY <1>1 DEF QuietStep, Starts, Reads, GoesOn, Ends, NextRound, At, MayStart, Asking
  <2> QED
    BY <1>0, <2>1, <2>2, TraceStays
<1>2. ASSUME NEW r \in Requests, Insert(r) PROVE Traceable(id)'
  <2>1. PICK q, new : q = request[r].question /\ new = <<r, q>>
    OBVIOUS
  <2>2. /\ q \in Questions /\ new \in Ids /\ request[r].step = "insert"
        /\ submission'[new].version = request[r].version
        /\ \A i \in Ids \ {new} : submission'[i] = submission[i]
        /\ \A s \in Requests \ {r} : request'[s] = request[s]
        /\ \/ request'[r].step = "send" /\ request'[r].question = q
              /\ request'[r].version = request[r].version
           \/ request'[r].step = "done"
        /\ UNCHANGED gradeMessages
    BY <1>2, <2>1, InsertChange
  <2>3. CASE id # new
    BY <1>0, <2>1, <2>2, <2>3, TraceStays
  <2>4. CASE id = new
    \* Nobody knows of the new row yet.
    <3>1. submission[new].status = "ABSENT"
      BY <2>1, <2>2, IdFacts DEF RowInv, Behind, Asking
    <3>2. ~Sent(new)
      BY <3>1 DEF RowInv, Sent
    <3>3. ~Completing(new)'
      BY <2>2, <3>1 DEF RowInv, Completing, At, CompleteSteps
    <3>4. Sending(new)' => request'[new[1]].version = submission'[new].version
      BY <2>1, <2>2 DEF Sending, At
    <3>5. Unasked(new)'
      BY <2>2, <3>2, <3>3, <3>4 DEF Unasked, Sent
    <3> QED
      BY <2>4, <3>5 DEF Traceable
  <2> QED
    BY <2>3, <2>4
<1>3. ASSUME NEW r \in Requests, ScanSends(r) PROVE Traceable(id)'
  <2>1. PICK sent : sent = <<r, request[r].question>>
    OBVIOUS
  <2>2. /\ sent \in Ids /\ request[r].step = "send"
        /\ gradeMessages' = gradeMessages \union {[id |-> sent, version |-> request[r].version]}
        /\ UNCHANGED submission
        /\ \A s \in Requests \ {r} : request'[s] = request[s]
        /\ request'[r].step \in {"done", "check"}
    BY <1>3, <2>1, SendChange DEF NextRound
  <2>3. CASE id = sent
    <3>1. Sending(id) /\ r = id[1]
      BY <2>1, <2>2, <2>3 DEF Sending, At
    <3> QED
      BY <1>0, <2>2, <2>3, <3>1, SendMakesTraceable
  <2>4. CASE id # sent
    <3>1. \A m \in gradeMessages' \ gradeMessages : m.id # id
      BY <2>2, <2>4
    <3> QED
      BY <1>0, <2>2, <3>1, TraceStays
  <2> QED
    BY <2>3, <2>4
<1>4. ASSUME NEW r \in Requests, CompleteWrites(r) PROVE Traceable(id)'
  <2>1. PICK target : target = request[r].target
    OBVIOUS
  <2>2. /\ target \in Ids /\ request[r].step = "completeWrite"
        /\ \A i \in Ids : i # target => submission'[i] = submission[i]
        /\ submission'[target].version = request[r].version
        /\ \A s \in Requests \ {r} : request'[s] = request[s]
        /\ request'[r].step = "completeSend" /\ request'[r].target = target
        /\ request'[r].version = request[r].version
        /\ UNCHANGED gradeMessages
    BY <1>4, <2>1, WriteChange
  <2>3. CASE id = target
    BY <2>2, <2>3 DEF Traceable, At
  <2>4. CASE id # target
    BY <1>0, <2>2, <2>4, TraceStays
  <2> QED
    BY <2>3, <2>4
<1>5. ASSUME NEW r \in Requests, CompleteSends(r) PROVE Traceable(id)'
  <2>1. PICK target : target = request[r].target
    OBVIOUS
  <2>2. /\ target \in Ids /\ request[r].step = "completeSend"
        /\ gradeMessages' = gradeMessages \union {[id |-> target, version |-> request[r].version]}
        /\ UNCHANGED submission
        /\ \A s \in Requests \ {r} : request'[s] = request[s]
        /\ request'[r].step = "done"
    BY <1>5, <2>1, CompleteChange
  <2>3. CASE id = target
    BY <1>0, <2>1, <2>2, <2>3, SendMakesTraceable DEF At
  <2>4. CASE id # target
    <3>1. \A m \in gradeMessages' \ gradeMessages : m.id # id
      BY <2>2, <2>4
    <3> QED
      BY <1>0, <2>1, <2>2, <2>4, <3>1, TraceStays
  <2> QED
    BY <2>3, <2>4
<1>6. ASSUME NEW row \in Ids, NEW status \in {"GRADING", "FAILED"}, GraderStep(row, status)
      PROVE  Traceable(id)'
  <2>1. submission'[id].version = submission[id].version /\ UNCHANGED <<request, gradeMessages>>
    BY <1>6, GraderChange
  <2> QED
    BY <1>0, <2>1 DEF Traceable, Unasked, Sent, Completing, Sending, At
<1>7. CASE UNCHANGED <<submission, request, gradeMessages, revived>>
  BY <1>0, <1>7 DEF Traceable, Unasked, Sent, Completing, Sending, At
<1> QED
  BY <1>1, <1>2, <1>3, <1>4, <1>5, <1>6, <1>7, StepKinds

\* The key version recorded on a row that the grader was asked about is a version
\* it was asked to use, unless a complete is about to ask for it or died there.
THEOREM RecordedVersionIsRequested == Spec => []RecordedVersionRequested
<1>1. Init => TraceInv
  <2> SUFFICES ASSUME Init, NEW id \in Ids PROVE Unasked(id)
    BY DEF TraceInv, Traceable
  <2>1. gradeMessages = {} /\ \A r \in Requests : request[r].step = "idle"
    BY DEF Init, IdleRequest
  <2> QED
    BY <2>1 DEF Unasked, Sent, Completing, Sending, At, Ids
<1>2. TypeInv /\ TraceInv => RecordedVersionRequested
  <2> SUFFICES ASSUME TypeInv, TraceInv, NEW m \in gradeMessages
               PROVE  \/ [id |-> m.id, version |-> submission[m.id].version] \in gradeMessages
                      \/ \E r \in Requests :
                           /\ request[r].target = m.id
                           /\ request[r].step \in {"completeSend", "died"}
    BY DEF RecordedVersionRequested
  <2>1. Traceable(m.id) /\ Sent(m.id)
    BY IdFacts DEF TraceInv, Sent
  <2> QED
    BY <2>1 DEF Traceable, Unasked, At
<1> QED
  BY <1>1, <1>2, InitTypes, NextTypes, InitRows, NextRows, NextTrace, PTL DEF Spec

=============================================================================
