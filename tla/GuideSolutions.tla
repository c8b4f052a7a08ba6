---------------------------- MODULE GuideSolutions ----------------------------
(***************************************************************************)
(* The versioned answer key (pauta) of the questions of a guide:           *)
(* GuidesService.updateSolution and regenerateSolution.                    *)
(*                                                                         *)
(* updateSolution reads the latest version OUTSIDE its transaction, then   *)
(* demotes whatever is current and inserts latest + 1 as current. The      *)
(* database runs at READ COMMITTED: the demoting UPDATE picks its rows     *)
(* from a snapshot, waits for the row locks of other transactions, and     *)
(* then re-checks the rows it picked, without seeing rows inserted since.  *)
(* Only the unique index on (question, version) stands between two         *)
(* overlapping edits and a question with two current keys.                 *)
(***************************************************************************)
EXTENDS Naturals, FiniteSets

CONSTANTS
  Editors,           \* edits: teacher requests and generator jobs, one each
  Questions,
  None,
  MaxRegenerations   \* bound: generation jobs asked for, per question

ASSUME SolutionsAssumption ==
  /\ None \notin Questions
  /\ MaxRegenerations \in Nat

VARIABLES
  versions,   \* per question: the version numbers of its committed rows
  current,    \* per question: those of them with isCurrent
  edit,       \* per editor: its step and what it holds
  genQueue    \* per question: messages in solution-generation-queue

vars == <<versions, current, edit, genQueue>>

-----------------------------------------------------------------------------

\* candidates: the rows the demoting UPDATE picked from its snapshot;
\* demoted: the rows it has changed, uncommitted and locked until the end.
EditSteps == {"idle", "begin", "demoting", "insert", "committed", "failed"}

EditRecord ==
  [step : EditSteps, question : Questions \union {None}, next : Nat,
   candidates : SUBSET Nat, demoted : SUBSET Nat]

IdleEdit ==
  [step |-> "idle", question |-> None, next |-> 0, candidates |-> {}, demoted |-> {}]

\* An edit of question q that is going to insert version n.
PlannedEdit(q, n) ==
  [step |-> "begin", question |-> q, next |-> n, candidates |-> {}, demoted |-> {}]

\* n is the highest version of q, or 0 when it has none.
IsLatest(n, q) ==
  /\ n \in versions[q] \union {0}
  /\ \A m \in versions[q] : m <= n

Open == {"begin", "demoting", "insert"}

LockedByAnother(e, rows) ==
  \E other \in Editors \ {e} :
    /\ edit[other].step = "insert"
    /\ edit[other].question = edit[e].question
    /\ edit[other].demoted \intersect rows # {}

\* A question under review normally has its generated key, version 1.
Init ==
  /\ \E seeded \in SUBSET Questions :
       /\ versions = [q \in Questions |-> IF q \in seeded THEN {1} ELSE {}]
       /\ current = versions
  /\ edit = [e \in Editors |-> IdleEdit]
  /\ genQueue = [q \in Questions |-> 0]

-----------------------------------------------------------------------------
(* The edit, from the read of the latest version to the commit             *)

ReadLatest(e, q) ==
  /\ edit[e].step = "idle"
  /\ \E n \in versions[q] \union {0} :
       /\ IsLatest(n, q)
       /\ edit' = [edit EXCEPT ![e] = PlannedEdit(q, n + 1)]

\* A teacher's edit; its answer key has been validated already.
UpdateSolution(e, q) ==
  /\ ReadLatest(e, q)
  /\ UNCHANGED <<versions, current, genQueue>>

RegenerateSolution(q) ==
  /\ genQueue[q] < MaxRegenerations
  /\ genQueue' = [genQueue EXCEPT ![q] = @ + 1]
  /\ UNCHANGED <<versions, current, edit>>

\* The generator takes a message and writes its key as one more version
\* (external; assumed to follow the same steps as a teacher's edit).
GeneratorStarts(e, q) ==
  /\ genQueue[q] > 0
  /\ ReadLatest(e, q)
  /\ genQueue' = [genQueue EXCEPT ![q] = @ - 1]
  /\ UNCHANGED <<versions, current>>

\* The transaction opens and its UPDATE takes a snapshot of the current rows.
DemoteBegins(e) ==
  /\ edit[e].step = "begin"
  /\ edit' = [edit EXCEPT ![e].step = "demoting",
                          ![e].candidates = current[edit[e].question]]
  /\ UNCHANGED <<versions, current, genQueue>>

\* The UPDATE ends once it holds the locks of the rows that still match.
DemoteEnds(e) ==
  /\ edit[e].step = "demoting"
  /\ ~LockedByAnother(e, edit[e].candidates)
  /\ edit' = [edit EXCEPT ![e].step = "insert",
                          ![e].demoted = edit[e].candidates
                                           \intersect current[edit[e].question]]
  /\ UNCHANGED <<versions, current, genQueue>>

\* Broken variant: the table has no unique index on (question, version).
VersionTakenNever(e) == FALSE

VersionTaken(e) == edit[e].next \in versions[edit[e].question]

\* Broken variant: a duplicate key is tried again with the same version.
InsertRetried(e) ==
  /\ edit[e].step = "insert"
  /\ VersionTaken(e)
  /\ edit' = [edit EXCEPT ![e].step = "begin"]
  /\ UNCHANGED <<versions, current, genQueue>>

InsertFails(e) ==
  /\ edit[e].step = "insert"
  /\ VersionTaken(e)
  /\ edit' = [edit EXCEPT ![e].step = "failed"]
  /\ UNCHANGED <<versions, current, genQueue>>

InsertCommits(e) ==
  LET q == edit[e].question IN
  /\ edit[e].step = "insert"
  /\ ~VersionTaken(e)
  /\ versions' = [versions EXCEPT ![q] = @ \union {edit[e].next}]
  /\ current' = [current EXCEPT ![q] = (@ \ edit[e].demoted) \union {edit[e].next}]
  /\ edit' = [edit EXCEPT ![e].step = "committed"]
  /\ UNCHANGED genQueue

\* The Lambda dies, or the interactive transaction times out while it waits.
Abort(e) ==
  /\ edit[e].step \in Open
  /\ edit' = [edit EXCEPT ![e].step = "failed"]
  /\ UNCHANGED <<versions, current, genQueue>>

-----------------------------------------------------------------------------

Advance(e) == DemoteBegins(e) \/ DemoteEnds(e) \/ InsertFails(e) \/ InsertCommits(e)

Next ==
  \/ \E e \in Editors, q \in Questions : UpdateSolution(e, q) \/ GeneratorStarts(e, q)
  \/ \E q \in Questions : RegenerateSolution(q)
  \/ \E e \in Editors : Advance(e) \/ Abort(e)

Spec == Init /\ [][Next]_vars

\* An open transaction is driven on by its Lambda; no edit has to start or abort.
FairSpec == Spec /\ \A e \in Editors : WF_vars(Advance(e))

-----------------------------------------------------------------------------
(* Properties *)

\* Versions are positive, and an edit that has started names its question and
\* the version it is going to insert.
TypeOK ==
  /\ versions \in [Questions -> SUBSET (Nat \ {0})]
  /\ current \in [Questions -> SUBSET (Nat \ {0})]
  /\ edit \in [Editors -> EditRecord]
  /\ genQueue \in [Questions -> Nat]
  /\ \A e \in Editors :
       edit[e].step # "idle" => edit[e].question \in Questions /\ edit[e].next # 0

\* However edits, generator jobs and aborts overlap, the current key of a
\* question is exactly its latest version, and there is one as soon as the
\* question has any: the `where isCurrent take 1` reads of publish, of the
\* submission flow and of the grader cannot pick an outdated key.
LatestIsCurrent ==
  \A q \in Questions :
    \/ versions[q] = {} /\ current[q] = {}
    \/ \E n \in versions[q] : IsLatest(n, q) /\ current[q] = {n}

\* No two acknowledged edits of a question share a version and none of them is
\* gone: the teacher who got a 200 finds the key in the history.
AcknowledgedEditsKept ==
  \A e \in Editors : edit[e].step = "committed" =>
    /\ edit[e].next \in versions[edit[e].question]
    /\ \A other \in Editors \ {e} :
         edit[other].step = "committed" /\ edit[other].question = edit[e].question
           => edit[other].next # edit[e].next

\* An edit in flight ends, acknowledged or refused: waiting for the locks of
\* another edit never turns into waiting for each other.
EditsEnd ==
  \A e \in Editors : edit[e].step \in Open ~> edit[e].step \in {"committed", "failed"}

\* The key in force, as the reads with `where isCurrent take 1` find it.
KeyInForce(q) == IF current[q] = {} THEN 0 ELSE CHOOSE n \in current[q] : TRUE

Outcome(e) ==
  CASE edit[e].step = "committed" -> [is |-> "saved", version |-> edit[e].next]
    [] edit[e].step = "failed" -> [is |-> "refused", version |-> 0]
    [] OTHER -> [is |-> "pending", version |-> 0]

Keys == INSTANCE AnswerKey WITH
          key <- [q \in Questions |-> KeyInForce(q)],
          outcome <- [e \in Editors |-> Outcome(e)]

\* Seen from outside, an edit is atomic: the read before the transaction, the
\* demoting UPDATE and the insert amount to one step that gives the question the
\* next version, or to a refusal that leaves no trace.
ImplementsAnswerKey == Keys!Spec

=============================================================================
