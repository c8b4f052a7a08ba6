------------------------- MODULE GuideSolutionsProofs -------------------------
(***************************************************************************)
(* Theorems about GuideSolutions, for any number of editors and questions  *)
(* and any number of edits: the current answer key is always the latest    *)
(* version, and no acknowledged edit is lost.                              *)
(*                                                                         *)
(* LatestIsCurrent is not inductive: it says nothing of the edits in       *)
(* flight, whose plan (the next version, the rows to demote) was made on   *)
(* an older state. The plan is sound as long as the version it would       *)
(* insert is still free, because versions are handed out without gaps: if  *)
(* next is free then next - 1 is still the latest, and the row to demote   *)
(* is still the one that was current when the plan was made.               *)
(***************************************************************************)
EXTENDS GuideSolutions, TLAPS

\* The versions of a question are 1, 2, ... without gaps.
Contiguous ==
  \A q \in Questions : \A m \in versions[q] : \A k \in 1..m : k \in versions[q]

\* The version an edit plans to insert follows an existing one.
PlanFollows(e) ==
  edit[e].step \in Open =>
    edit[e].next - 1 \in versions[edit[e].question] \union {0}

\* If that version is still free, the rows it picked to demote are the current ones.
PlanDemotes(e) ==
  edit[e].step \in Open /\ edit[e].next \notin versions[edit[e].question] =>
    /\ edit[e].step = "demoting" => edit[e].candidates = current[edit[e].question]
    /\ edit[e].step = "insert" => edit[e].demoted = current[edit[e].question]

PlansSound == \A e \in Editors : PlanFollows(e) /\ PlanDemotes(e)

KeyInv == Contiguous /\ LatestIsCurrent /\ PlansSound

-----------------------------------------------------------------------------
(* Lemmas about the versions of one question *)

\* In a set of versions without gaps, a free version that follows an existing
\* one lies above all of them: it is what updateSolution computes as latest + 1.
LEMMA FreeIsAbove ==
  ASSUME NEW V \in SUBSET (Nat \ {0}),
         \A m \in V : \A k \in 1..m : k \in V,
         NEW n \in Nat \ {0}, n - 1 \in V \union {0}, n \notin V
  PROVE  \A m \in V : m < n
<1> SUFFICES ASSUME NEW m \in V, m >= n PROVE FALSE
  OBVIOUS
<1>1. n \in 1..m
  OBVIOUS
<1> QED
  BY <1>1

\* Two edits that planned on the same question and whose versions are both free
\* planned the same version.
LEMMA FreeIsUnique ==
  ASSUME NEW V \in SUBSET (Nat \ {0}),
         \A m \in V : \A k \in 1..m : k \in V,
         NEW n1 \in Nat \ {0}, n1 - 1 \in V \union {0}, n1 \notin V,
         NEW n2 \in Nat \ {0}, n2 - 1 \in V \union {0}, n2 \notin V
  PROVE  n1 = n2
<1>1. \A m \in V : m < n1 /\ m < n2
  BY FreeIsAbove
<1>2. n1 - 1 < n2 /\ n2 - 1 < n1
  BY <1>1
<1> QED
  BY <1>2

-----------------------------------------------------------------------------
(* The type invariant *)

\* Rows and edits keep their types whatever edits run: in particular no version
\* 0 is ever inserted, for any number of editors and questions.
THEOREM SolutionsTypeCorrect == Spec => []TypeOK
<1>1. Init => TypeOK
  BY SolutionsAssumption DEF Init, TypeOK, EditRecord, EditSteps, IdleEdit
<1>2. TypeOK /\ [Next]_vars => TypeOK'
  <2> SUFFICES ASSUME TypeOK, [Next]_vars PROVE TypeOK'
    OBVIOUS
  <2> USE SolutionsAssumption DEF TypeOK, EditRecord, EditSteps
  <2>1. ASSUME NEW e \in Editors, NEW q \in Questions, ReadLatest(e, q)
        PROVE  /\ edit' \in [Editors -> EditRecord]
               /\ \A f \in Editors :
                    edit'[f].step # "idle" => edit'[f].question \in Questions /\ edit'[f].next # 0
    <3>1. PICK n \in versions[q] \union {0} :
            edit' = [edit EXCEPT ![e] = PlannedEdit(q, n + 1)]
      BY <2>1 DEF ReadLatest
    <3>2. n + 1 \in Nat \ {0}
      OBVIOUS
    <3>3. PlannedEdit(q, n + 1) \in EditRecord
      BY <3>2 DEF PlannedEdit
    <3> QED
      BY <3>1, <3>2, <3>3 DEF PlannedEdit
  <2>2. ASSUME NEW e \in Editors, NEW q \in Questions, UpdateSolution(e, q) PROVE TypeOK'
    BY <2>1, <2>2 DEF UpdateSolution
  <2>3. ASSUME NEW e \in Editors, NEW q \in Questions, GeneratorStarts(e, q) PROVE TypeOK'
    BY <2>1, <2>3 DEF GeneratorStarts
  <2>4. ASSUME NEW q \in Questions, RegenerateSolution(q) PROVE TypeOK'
    BY <2>4 DEF RegenerateSolution
  <2>5. ASSUME NEW e \in Editors, DemoteBegins(e) PROVE TypeOK'
    BY <2>5 DEF DemoteBegins
  <2>6. ASSUME NEW e \in Editors, DemoteEnds(e) PROVE TypeOK'
    BY <2>6 DEF DemoteEnds
  <2>7. ASSUME NEW e \in Editors, InsertFails(e) PROVE TypeOK'
    BY <2>7 DEF InsertFails
  <2>8. ASSUME NEW e \in Editors, InsertCommits(e) PROVE TypeOK'
    BY <2>8 DEF InsertCommits
  <2>9. ASSUME NEW e \in Editors, Abort(e) PROVE TypeOK'
    BY <2>9 DEF Abort, Open
  <2>10. CASE UNCHANGED vars
    BY <2>10 DEF vars
  <2> QED
    BY <2>2, <2>3, <2>4, <2>5, <2>6, <2>7, <2>8, <2>9, <2>10 DEF Next, Advance
<1> QED
  BY <1>1, <1>2, PTL DEF Spec

-----------------------------------------------------------------------------
(* The current key is the latest *)

\* The plan of an edit does not outlive the commit of another one on its
\* question: the commit takes the version that the plan was to insert.
LEMMA CommitKeepsPlans ==
  ASSUME TypeOK, TypeOK', KeyInv, NEW e \in Editors, InsertCommits(e)
  PROVE  PlansSound'
<1> USE DEF TypeOK, EditRecord, EditSteps
<1> DEFINE q == edit[e].question
           n == edit[e].next
<1>1. /\ q \in Questions
      /\ n \in Nat \ {0}
      /\ n \notin versions[q]
      /\ n - 1 \in versions[q] \union {0}
      /\ versions' = [versions EXCEPT ![q] = @ \union {n}]
      /\ current' = [current EXCEPT ![q] = (@ \ edit[e].demoted) \union {n}]
      /\ edit' = [edit EXCEPT ![e].step = "committed"]
  BY DEF InsertCommits, VersionTaken, KeyInv, PlansSound, PlanFollows, Open
<1>2. SUFFICES ASSUME NEW f \in Editors, edit'[f].step \in Open
               PROVE  PlanFollows(f)' /\ PlanDemotes(f)'
  BY DEF PlansSound, PlanFollows, PlanDemotes
<1>3. f # e /\ edit'[f] = edit[f] /\ edit[f].question \in Questions /\ edit[f].next \in Nat \ {0}
  BY <1>1, <1>2 DEF Open
<1>4. PlanFollows(f) /\ PlanDemotes(f)
  BY DEF KeyInv, PlansSound
<1>5. PlanFollows(f)'
  BY <1>1, <1>2, <1>3, <1>4 DEF PlanFollows
<1>6. PlanDemotes(f)'
  <2>1. CASE edit[f].question # q
    BY <1>1, <1>2, <1>3, <1>4, <2>1 DEF PlanDemotes
  <2>2. CASE edit[f].question = q
    <3>1. SUFFICES ASSUME edit[f].next \notin versions'[q] PROVE FALSE
      BY <1>2, <1>3, <2>2 DEF PlanDemotes
    <3>2. edit[f].next # n /\ edit[f].next \notin versions[q]
      BY <1>1, <3>1
    <3>3. edit[f].next - 1 \in versions[q] \union {0}
      BY <1>2, <1>3, <1>4, <2>2 DEF PlanFollows
    <3>4. \A m \in versions[q] : \A k \in 1..m : k \in versions[q]
      BY <1>1 DEF KeyInv, Contiguous
    <3>5. edit[f].next = n
      <4> HIDE DEF n, q
      <4> QED
        BY <1>1, <1>3, <3>2, <3>3, <3>4, FreeIsUnique
    <3> QED
      BY <3>2, <3>5
  <2> QED
    BY <2>1, <2>2
<1> QED
  BY <1>5, <1>6

\* A commit leaves the question with one current key, its latest.
LEMMA CommitMakesLatestCurrent ==
  ASSUME TypeOK, KeyInv, NEW e \in Editors, InsertCommits(e)
  PROVE  Contiguous' /\ LatestIsCurrent'
<1> USE DEF TypeOK, EditRecord, EditSteps
<1> DEFINE q == edit[e].question
           n == edit[e].next
<1>1. /\ q \in Questions
      /\ n \in Nat \ {0}
      /\ n \notin versions[q]
      /\ n - 1 \in versions[q] \union {0}
      /\ edit[e].demoted = current[q]
      /\ versions' = [versions EXCEPT ![q] = @ \union {n}]
      /\ current' = [current EXCEPT ![q] = (@ \ edit[e].demoted) \union {n}]
  BY DEF InsertCommits, VersionTaken, KeyInv, PlansSound, PlanFollows, PlanDemotes, Open
<1>2. \A m \in versions[q] : \A k \in 1..m : k \in versions[q]
  BY <1>1 DEF KeyInv, Contiguous
<1>3. versions'[q] = versions[q] \union {n} /\ current'[q] = {n}
  BY <1>1
<1>4. versions[q] \in SUBSET (Nat \ {0})
  BY <1>1
<1>5. \A m \in versions[q] : m < n
  <2> HIDE DEF n, q
  <2> QED
    BY <1>1, <1>2, <1>4, FreeIsAbove
<1>6. \A p \in Questions \ {q} : versions'[p] = versions[p] /\ current'[p] = current[p]
  BY <1>1
<1> HIDE DEF n, q
<1>7. Contiguous'
  <2>1. SUFFICES ASSUME NEW p \in Questions, NEW m \in versions'[p], NEW k \in 1..m
                 PROVE  k \in versions'[p]
    BY DEF Contiguous
  <2>2. CASE p # q
    BY <1>6, <2>1, <2>2 DEF KeyInv, Contiguous
  <2>3. CASE p = q /\ m # n
    BY <1>2, <1>3, <2>1, <2>3
  <2>4. CASE p = q /\ m = n
    <3>1. k = n \/ k \in 1..(n - 1)
      BY <1>1, <2>1, <2>4
    <3>2. n - 1 \in versions[q] \/ n - 1 = 0
      BY <1>1
    <3> QED
      BY <1>1, <1>2, <1>3, <2>4, <3>1, <3>2
  <2> QED
    BY <2>2, <2>3, <2>4
<1>8. LatestIsCurrent'
  <2>1. SUFFICES ASSUME NEW p \in Questions
                 PROVE  \/ versions'[p] = {} /\ current'[p] = {}
                        \/ \E m \in versions'[p] : /\ \A k \in versions'[p] : k <= m
                                                   /\ current'[p] = {m}
    BY DEF LatestIsCurrent, IsLatest
  <2>2. CASE p # q
    BY <1>6, <2>2 DEF KeyInv, LatestIsCurrent, IsLatest
  <2>3. CASE p = q
    <3>1. \A k \in versions'[q] : k <= n
      BY <1>1, <1>3, <1>4, <1>5
    <3> QED
      BY <1>3, <2>3, <3>1
  <2> QED
    BY <2>2, <2>3
<1> QED
  BY <1>7, <1>8

\* An action that inserts nothing preserves the invariant if it keeps the plans sound.
LEMMA PlansCarryOver ==
  ASSUME KeyInv, UNCHANGED <<versions, current>>, PlansSound'
  PROVE  KeyInv'
BY DEF KeyInv, Contiguous, LatestIsCurrent, IsLatest

\* A new plan follows the version it read.
LEMMA ReadMakesSoundPlan ==
  ASSUME TypeOK, KeyInv, NEW e \in Editors, NEW q \in Questions, ReadLatest(e, q),
         UNCHANGED <<versions, current>>
  PROVE  KeyInv'
<1>1. PICK n \in versions[q] \union {0} : edit' = [edit EXCEPT ![e] = PlannedEdit(q, n + 1)]
  BY DEF ReadLatest
<1>2. n \in Nat /\ (n + 1) - 1 = n
  BY DEF TypeOK
<1>3. edit'[e] = PlannedEdit(q, n + 1) /\ \A f \in Editors \ {e} : edit'[f] = edit[f]
  BY <1>1 DEF TypeOK
<1>4. PlanFollows(e)' /\ PlanDemotes(e)'
  BY <1>2, <1>3 DEF PlanFollows, PlanDemotes, PlannedEdit
<1>5. \A f \in Editors \ {e} : PlanFollows(f)' /\ PlanDemotes(f)'
  BY <1>3 DEF KeyInv, PlansSound, PlanFollows, PlanDemotes
<1> QED
  BY <1>4, <1>5, PlansCarryOver DEF PlansSound

\* The invariant behind LatestIsCurrent holds in every reachable state.
THEOREM KeyInvariant == Spec => []KeyInv
<1>1. Init => KeyInv
  <2> SUFFICES ASSUME Init PROVE KeyInv
    OBVIOUS
  <2>1. \A q \in Questions : versions[q] = current[q] /\ versions[q] \in {{}, {1}}
    BY DEF Init
  <2>2. Contiguous /\ LatestIsCurrent
    BY <2>1 DEF Contiguous, LatestIsCurrent, IsLatest
  <2>3. PlansSound
    BY DEF Init, IdleEdit, PlansSound, PlanFollows, PlanDemotes, Open
  <2> QED
    BY <2>2, <2>3 DEF KeyInv
<1>2. TypeOK /\ TypeOK' /\ KeyInv /\ [Next]_vars => KeyInv'
  <2> SUFFICES ASSUME TypeOK, TypeOK', KeyInv, [Next]_vars PROVE KeyInv'
    OBVIOUS
  <2>1. ASSUME NEW e \in Editors, NEW q \in Questions, UpdateSolution(e, q) PROVE KeyInv'
    BY <2>1, ReadMakesSoundPlan DEF UpdateSolution
  <2>2. ASSUME NEW e \in Editors, NEW q \in Questions, GeneratorStarts(e, q) PROVE KeyInv'
    BY <2>2, ReadMakesSoundPlan DEF GeneratorStarts
  <2>3. ASSUME NEW q \in Questions, RegenerateSolution(q) PROVE KeyInv'
    <3>1. PlansSound'
      BY <2>3 DEF RegenerateSolution, KeyInv, PlansSound, PlanFollows, PlanDemotes
    <3> QED
      BY <2>3, <3>1, PlansCarryOver DEF RegenerateSolution
  <2>4. ASSUME NEW e \in Editors, DemoteBegins(e) PROVE KeyInv'
    <3>1. PlansSound'
      BY <2>4 DEF DemoteBegins, TypeOK, EditRecord, KeyInv, PlansSound, PlanFollows, PlanDemotes, Open
    <3> QED
      BY <2>4, <3>1, PlansCarryOver DEF DemoteBegins
  <2>5. ASSUME NEW e \in Editors, DemoteEnds(e) PROVE KeyInv'
    <3>1. PlansSound'
      BY <2>5 DEF DemoteEnds, TypeOK, EditRecord, KeyInv, PlansSound, PlanFollows, PlanDemotes, Open
    <3> QED
      BY <2>5, <3>1, PlansCarryOver DEF DemoteEnds
  <2>6. ASSUME NEW e \in Editors, InsertFails(e) PROVE KeyInv'
    <3>1. PlansSound'
      BY <2>6 DEF InsertFails, TypeOK, EditRecord, KeyInv, PlansSound, PlanFollows, PlanDemotes, Open
    <3> QED
      BY <2>6, <3>1, PlansCarryOver DEF InsertFails
  <2>7. ASSUME NEW e \in Editors, InsertCommits(e) PROVE KeyInv'
    BY <2>7, CommitKeepsPlans, CommitMakesLatestCurrent DEF KeyInv
  <2>8. ASSUME NEW e \in Editors, Abort(e) PROVE KeyInv'
    <3>1. PlansSound'
      BY <2>8 DEF Abort, TypeOK, EditRecord, KeyInv, PlansSound, PlanFollows, PlanDemotes, Open
    <3> QED
      BY <2>8, <3>1, PlansCarryOver DEF Abort
  <2>9. CASE UNCHANGED vars
    <3>1. PlansSound'
      BY <2>9 DEF vars, KeyInv, PlansSound, PlanFollows, PlanDemotes
    <3> QED
      BY <2>9, <3>1, PlansCarryOver DEF vars
  <2> QED
    BY <2>1, <2>2, <2>3, <2>4, <2>5, <2>6, <2>7, <2>8, <2>9 DEF Next, Advance
<1> QED
  BY <1>1, <1>2, SolutionsTypeCorrect, PTL DEF Spec

\* However many edits and generator jobs overlap and abort, the current answer
\* key of a question is its latest version and the only current one.
THEOREM LatestKeyIsCurrent == Spec => []LatestIsCurrent
<1>1. KeyInv => LatestIsCurrent
  BY DEF KeyInv
<1> QED
  BY <1>1, KeyInvariant, PTL

\* An edit that was acknowledged keeps its version, and shares it with no other
\* acknowledged edit of the question.
THEOREM AcknowledgedEditsAreKept == Spec => []AcknowledgedEditsKept
<1>1. Init => AcknowledgedEditsKept
  BY DEF Init, IdleEdit, AcknowledgedEditsKept
<1>2. TypeOK /\ TypeOK' /\ AcknowledgedEditsKept /\ [Next]_vars => AcknowledgedEditsKept'
  <2> SUFFICES ASSUME TypeOK, TypeOK', AcknowledgedEditsKept, [Next]_vars
               PROVE  AcknowledgedEditsKept'
    OBVIOUS
  <2> USE DEF TypeOK, EditRecord, EditSteps, AcknowledgedEditsKept
  <2>1. ASSUME NEW e \in Editors, NEW q \in Questions, ReadLatest(e, q), UNCHANGED versions
        PROVE  AcknowledgedEditsKept'
    BY <2>1 DEF ReadLatest, PlannedEdit
  <2>2. ASSUME NEW e \in Editors, NEW q \in Questions,
               UpdateSolution(e, q) \/ GeneratorStarts(e, q)
        PROVE  AcknowledgedEditsKept'
    BY <2>1, <2>2 DEF UpdateSolution, GeneratorStarts
  <2>3. ASSUME NEW q \in Questions, RegenerateSolution(q) PROVE AcknowledgedEditsKept'
    BY <2>3 DEF RegenerateSolution
  <2>4. ASSUME NEW e \in Editors, DemoteBegins(e) PROVE AcknowledgedEditsKept'
    BY <2>4 DEF DemoteBegins
  <2>5. ASSUME NEW e \in Editors, DemoteEnds(e) PROVE AcknowledgedEditsKept'
    BY <2>5 DEF DemoteEnds
  <2>6. ASSUME NEW e \in Editors, InsertFails(e) PROVE AcknowledgedEditsKept'
    BY <2>6 DEF InsertFails
  <2>7. ASSUME NEW e \in Editors, InsertCommits(e) PROVE AcknowledgedEditsKept'
    BY <2>7 DEF InsertCommits, VersionTaken
  <2>8. ASSUME NEW e \in Editors, Abort(e) PROVE AcknowledgedEditsKept'
    BY <2>8 DEF Abort, Open
  <2>9. CASE UNCHANGED vars
    BY <2>9 DEF vars
  <2> QED
    BY <2>2, <2>3, <2>4, <2>5, <2>6, <2>7, <2>8, <2>9 DEF Next, Advance
<1> QED
  BY <1>1, <1>2, SolutionsTypeCorrect, PTL DEF Spec

-----------------------------------------------------------------------------
(* Edits are atomic *)

\* The reads with `where isCurrent take 1` find the only current key there is.
LEMMA KeyIsTheCurrentOne ==
  ASSUME NEW q \in Questions
  PROVE  /\ current[q] = {} => KeyInForce(q) = 0
         /\ \A n : current[q] = {n} => KeyInForce(q) = n
<1>1. ASSUME NEW n, current[q] = {n} PROVE KeyInForce(q) = n
  <2>1. (CHOOSE m \in {n} : TRUE) = n
    OBVIOUS
  <2>2. current[q] # {}
    BY <1>1
  <2> QED
    BY <1>1, <2>1, <2>2, Zenon DEF KeyInForce
<1> QED
  BY <1>1 DEF KeyInForce

\* The same after a step.
LEMMA KeyIsTheCurrentOneNext ==
  ASSUME NEW q \in Questions
  PROVE  /\ current'[q] = {} => KeyInForce(q)' = 0
         /\ \A n : current'[q] = {n} => KeyInForce(q)' = n
<1>1. ASSUME NEW n, current'[q] = {n} PROVE KeyInForce(q)' = n
  <2>1. (CHOOSE m \in {n} : TRUE) = n
    OBVIOUS
  <2>2. current'[q] # {}
    BY <1>1
  <2> QED
    BY <1>1, <2>1, <2>2, Zenon DEF KeyInForce
<1> QED
  BY <1>1 DEF KeyInForce

\* A commit gives the question the version after the one in force: the plan was
\* made on an older state, but a plan that can still commit is up to date.
LEMMA CommitFollowsKeyInForce ==
  ASSUME TypeOK, KeyInv, NEW e \in Editors, InsertCommits(e),
         NEW q, q = edit[e].question, NEW n, n = edit[e].next
  PROVE  /\ n = KeyInForce(q) + 1
         /\ KeyInForce(q)' = n
         /\ \A p \in Questions \ {q} : KeyInForce(p)' = KeyInForce(p)
<1> USE DEF TypeOK, EditRecord, EditSteps
<1>1. /\ q \in Questions
      /\ n \in Nat \ {0}
      /\ n \notin versions[q]
      /\ n - 1 \in versions[q] \union {0}
      /\ edit[e].demoted = current[q]
      /\ current' = [current EXCEPT ![q] = (@ \ edit[e].demoted) \union {n}]
  BY DEF InsertCommits, VersionTaken, KeyInv, PlansSound, PlanFollows, PlanDemotes, Open
<1>2. current'[q] = {n} /\ \A p \in Questions \ {q} : current'[p] = current[p]
  BY <1>1
<1>3. \A m \in versions[q] : m < n
  <2>1. versions[q] \in SUBSET (Nat \ {0}) /\ \A m \in versions[q] : \A k \in 1..m : k \in versions[q]
    BY <1>1 DEF KeyInv, Contiguous
  <2> QED
    BY <1>1, <2>1, FreeIsAbove
<1>4. KeyInForce(q) = n - 1
  <2>1. CASE versions[q] = {}
    <3>1. current[q] = {} /\ n - 1 = 0
      BY <1>1, <2>1 DEF KeyInv, LatestIsCurrent
    <3> QED
      BY <1>1, <3>1, KeyIsTheCurrentOne
  <2>2. CASE versions[q] # {}
    <3>1. PICK m \in versions[q] : (\A k \in versions[q] : k <= m) /\ current[q] = {m}
      BY <1>1, <2>2 DEF KeyInv, LatestIsCurrent, IsLatest
    <3>2. m \in Nat \ {0} /\ m < n
      BY <1>1, <1>3
    <3>3. m = n - 1
      <4>1. n - 1 <= m
        BY <1>1, <3>1, <3>2
      <4> QED
        BY <1>1, <3>2, <4>1
    <3> QED
      BY <1>1, <3>1, <3>3, KeyIsTheCurrentOne
  <2> QED
    BY <2>1, <2>2
<1>5. KeyInForce(q)' = n
  BY <1>1, <1>2, KeyIsTheCurrentOneNext
<1>6. ASSUME NEW p \in Questions \ {q} PROVE KeyInForce(p)' = KeyInForce(p)
  <2>1. current'[p] = current[p]
    BY <1>2, <1>6
  <2> DEFINE Pick(S) == IF S = {} THEN 0 ELSE CHOOSE m \in S : TRUE
  <2>2. KeyInForce(p)' = Pick(current'[p]) /\ KeyInForce(p) = Pick(current[p])
    BY DEF KeyInForce
  <2> HIDE DEF Pick
  <2> QED
    BY <2>1, <2>2
<1>7. n = KeyInForce(q) + 1
  BY <1>1, <1>4
<1> QED
  BY <1>5, <1>6, <1>7

\* Seen from outside, an edit is one atomic step: the version in force goes up by
\* one, or the edit is refused. The read before the transaction, the demoting
\* UPDATE and the insert cannot be told apart from it.
THEOREM EditsAreAtomic == Spec => ImplementsAnswerKey
<1> DEFINE KeyBar == [q \in Questions |-> KeyInForce(q)]
           OutcomeBar == [e \in Editors |-> Outcome(e)]
<1>1. Init => Keys!Init
  <2> SUFFICES ASSUME Init PROVE Keys!Init
    OBVIOUS
  <2>1. ASSUME NEW q \in Questions PROVE KeyInForce(q) \in {0, 1}
    <3>1. current[q] = {} \/ current[q] = {1}
      BY DEF Init
    <3> QED
      BY <3>1, KeyIsTheCurrentOne
  <2>2. ASSUME NEW e \in Editors PROVE Outcome(e) = Keys!Pending
    BY DEF Init, IdleEdit, Outcome, Keys!Pending
  <2> QED
    BY <2>1, <2>2 DEF Keys!Init
<1>2. TypeOK /\ KeyInv /\ [Next]_vars => [Keys!Next]_(Keys!keyVars)
  <2> SUFFICES ASSUME TypeOK, KeyInv, [Next]_vars
               PROVE  Keys!Next \/ (KeyBar' = KeyBar /\ OutcomeBar' = OutcomeBar)
    BY DEF Keys!keyVars
  <2>1. ASSUME UNCHANGED current PROVE KeyBar' = KeyBar
    BY <2>1 DEF KeyInForce
  <2>2. ASSUME NEW e \in Editors, edit[e].step \in Open \union {"idle"},
               NEW r, edit' = [edit EXCEPT ![e] = r], r.step \in Open \union {"idle"}
        PROVE  OutcomeBar' = OutcomeBar
    <3>1. ASSUME NEW f \in Editors PROVE Outcome(f)' = Outcome(f)
      BY <2>2 DEF TypeOK, Outcome, Open
    <3> QED
      BY <3>1
  <2>3. ASSUME NEW e \in Editors, NEW q \in Questions, ReadLatest(e, q), UNCHANGED current
        PROVE  KeyBar' = KeyBar /\ OutcomeBar' = OutcomeBar
    <3>1. PICK n \in versions[q] \union {0} : edit' = [edit EXCEPT ![e] = PlannedEdit(q, n + 1)]
      BY <2>3 DEF ReadLatest
    <3>2. PlannedEdit(q, n + 1).step \in Open \union {"idle"} /\ edit[e].step \in Open \union {"idle"}
      BY <2>3 DEF ReadLatest, PlannedEdit, Open
    <3> HIDE DEF KeyBar, OutcomeBar
    <3> QED
      BY <2>1, <2>2, <2>3, <3>1, <3>2
  <2>4. ASSUME NEW e \in Editors, edit[e].step \in Open,
               edit' = [edit EXCEPT ![e].step = "failed"], UNCHANGED current
        PROVE  Keys!Next
    <3>1. \A f \in Editors : Outcome(f)' = IF f = e THEN Keys!Refused ELSE Outcome(f)
      BY <2>4 DEF TypeOK, EditRecord, Outcome, Keys!Refused
    <3>2. OutcomeBar[e] = Keys!Pending
      BY <2>4 DEF Outcome, Keys!Pending, Open
    <3>3. OutcomeBar' = [OutcomeBar EXCEPT ![e] = Keys!Refused]
      BY <3>1
    <3>4. KeyBar' = KeyBar
      BY <2>1, <2>4
    <3> QED
      BY <3>2, <3>3, <3>4 DEF Keys!Next, Keys!Refuse
  <2>5. ASSUME NEW e \in Editors, InsertCommits(e) PROVE Keys!Next
    <3>1. PICK q \in Questions, n \in Nat : q = edit[e].question /\ n = edit[e].next
      BY <2>5 DEF InsertCommits, TypeOK, EditRecord
    <3>2. n = KeyInForce(q) + 1 /\ KeyInForce(q)' = n
          /\ \A p \in Questions \ {q} : KeyInForce(p)' = KeyInForce(p)
      BY <2>5, <3>1, CommitFollowsKeyInForce
    <3>3. \A f \in Editors : Outcome(f)' = IF f = e THEN Keys!Saved(n) ELSE Outcome(f)
      BY <2>5, <3>1 DEF InsertCommits, TypeOK, EditRecord, Outcome, Keys!Saved
    <3>4. OutcomeBar[e] = Keys!Pending
      BY <2>5 DEF InsertCommits, Outcome, Keys!Pending
    <3>5. KeyBar' = [KeyBar EXCEPT ![q] = @ + 1] /\ KeyBar'[q] = n
      BY <3>1, <3>2
    <3>6. OutcomeBar' = [OutcomeBar EXCEPT ![e] = Keys!Saved(n)]
      BY <3>3
    <3>7. OutcomeBar' = [OutcomeBar EXCEPT ![e] = Keys!Saved(KeyBar'[q])]
      <4> HIDE DEF KeyBar, OutcomeBar
      <4> QED
        BY <3>5, <3>6
    <3>8. Keys!Save(e, q)
      BY <3>4, <3>5, <3>7, Zenon DEF Keys!Save
    <3> QED
      BY <3>1, <3>8, Zenon DEF Keys!Next
  <2>6. ASSUME NEW e \in Editors, NEW q \in Questions,
               UpdateSolution(e, q) \/ GeneratorStarts(e, q)
        PROVE  KeyBar' = KeyBar /\ OutcomeBar' = OutcomeBar
    BY <2>3, <2>6 DEF UpdateSolution, GeneratorStarts
  <2>7. ASSUME UNCHANGED edit PROVE OutcomeBar' = OutcomeBar
    BY <2>7 DEF Outcome
  <2>8. ASSUME NEW q \in Questions, RegenerateSolution(q)
        PROVE  KeyBar' = KeyBar /\ OutcomeBar' = OutcomeBar
    BY <2>1, <2>7, <2>8 DEF RegenerateSolution
  <2>9. ASSUME NEW e \in Editors, DemoteBegins(e) \/ DemoteEnds(e)
        PROVE  KeyBar' = KeyBar /\ OutcomeBar' = OutcomeBar
    <3>1. \A f \in Editors : Outcome(f)' = Outcome(f)
      BY <2>9 DEF DemoteBegins, DemoteEnds, TypeOK, EditRecord, Outcome
    <3> QED
      BY <2>1, <2>9, <3>1 DEF DemoteBegins, DemoteEnds
  <2>10. ASSUME NEW e \in Editors, InsertFails(e) \/ Abort(e) PROVE Keys!Next
    BY <2>4, <2>10 DEF InsertFails, Abort, Open
  <2>11. CASE UNCHANGED vars
    BY <2>1, <2>7, <2>11 DEF vars
  <2> QED
    BY <2>5, <2>6, <2>8, <2>9, <2>10, <2>11 DEF Next, Advance
<1> QED
  BY <1>1, <1>2, SolutionsTypeCorrect, KeyInvariant, PTL DEF Spec, ImplementsAnswerKey, Keys!Spec

=============================================================================
