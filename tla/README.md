# Innova backend: TLA+ specifications

This directory specifies `innova-backend-serverless`, a NestJS backend that runs
as AWS Lambdas over PostgreSQL (Prisma, READ COMMITTED), SQS and S3. Teachers upload guides of exercises, an external
program (`innova-ai-engine`) extracts and solves them, teachers review and
publish them, students hand in photographs of their answers, the engine grades
them and this backend turns each grade into an attempt, a mastery update and a
graded submission.

Every Lambda serves one request or one batch at a time, but many Lambdas run at
once and share only the database and the queues. Almost no handler takes a
lock: it reads, awaits, and writes what it decided on the older state. The
specifications are about what survives that, and about the pure algorithms that
decide what a student is told: the rule engine, knowledge tracing and the
recommenders.

## Inventory

| Component | State | Operations | Interacts with | What makes it correct |
|---|---|---|---|---|
| Guide lifecycle (`modules/guides`) | `guides`, `guide_questions`, the `GUIDE` assignment | create, ingest, updateQuestion, updateGuide, publish, archive, list | guide-ingest-queue, pipeline, assignments, enrolments | status follows the transition table; one assignment per guide; nothing unreviewed is published; no guide waits for ever |
| Answer keys (`modules/guides`) | `guide_solutions`: version, isCurrent | updateSolution, regenerateSolution | solution-generation-queue; read by publish, complete and the grader | one current key, the latest; no acknowledged edit lost; an edit is atomic |
| Guide submissions (`modules/guide-submissions`) | `guide_submissions` | createSubmission, complete, processScanPage | S3, OCR, submission-grade-queue | cap, attempt numbers, no row without its message, traceable key version |
| Guide results (`guides`, `guide-submissions`, `parent`) | columns of `guide_submissions` and of its attempt | getResults, getResultsMatrix, overrideSubmissionErrorTag, getQuiz, listGuides, child summary | grader, classifier, teacher | no solution before the grade; an override stays; progress does not go back |
| Reprocess worker (`infrastructure/workers/attempt-reprocess*`) | `attempts`, `attempt_steps`, mastery, `guide_submissions` | batch handler, grading chain, legacy OCR path | attempt-reprocess-queue and its DLQ, llm-classify-queue | a grade has its evidence; no result lost; redelivery harmless |
| Attempts (`modules/attempts`) | `attempts`, `attempt_error_reports` | create, solveAdhoc, reportError, polls | rule engine, mastery, attempt-stream and llm-classify queues | an answered request left everything on record; an attempt is classified by one source |
| Rule engine (`modules/attempts/rule-engine`) | none | eleven families of strategies | Attempts | the order of the rules hides no misconception; no tag is undeserved, the presumptions apart |
| Mastery (`modules/mastery`) | `student_topic_mastery` | applyAttempt, course panel, heatmap, recommendNextExercise | Attempts, worker, parents | no update lost; the posterior is defined; what is shown follows the answers |
| Practice, assignments | `assignments`, targets | recommendNext, create, recommendForStudent, createRecommended | mastery, items | prerequisites respected, whatever the filter |
| Classrooms | `courses`, `classroom_invites`, `enrollments` | createForTeacher, createInvite, joinWithCode, archiveCourse | lifecycle (roster) | an invite is counted once per join |
| Alerts | `teacher_alerts` | hourly generator, findByCourse, resolve | mastery, attempts | one open alert per subject and day; a cycle that ends has raised what was due |
| Authentication | `users` (uid, password, tokenVersion, reset code), profiles | register, login, refresh, logout, forgot/confirm, link, seed, provision | Supabase, e-mail, all | a used reset code and an old session are dead; who is let in has a profile |
| Administration | `error_tags` | status changes, paged list, importer, seed | rule engine, Attempts | pages miss nothing that stayed; an import undoes no decision |
| Parents, items, skills | links, `exercises`, skills | bands and summaries, item bank, CRUD | mastery, practice | little state across requests |
| Adapters (SQS, S3, OCR, SSM) | none | I/O | AWS | `publishStandard` never throws: a send may be lost silently |

Hard behaviour, by component: stale reads followed by unconditional updates
(lifecycle, submissions, mastery, invites, reset codes, imports); chains of
statements that are not transactions (worker, attempts, scan pages, sign-up);
sends that fail silently (every producer); at-least-once delivery with a
visibility timeout that equals the Lambda's own timeout (worker); lock waits
inside an interactive transaction (answer keys); reads made of several queries
(results, matrix, pages of the catalogue); rules whose order decides (rule
engine); means over records that come into being with the answers (mastery).
`PROJECT.json` lists each hazard at its line.

## Modules

Each component module declares its parameters as CONSTANTS (with named assumptions
where the model or a proof needs them), has one action per atomic step of a handler (a read, a write, a
send: what another process can see the code stop between), and states its
properties at its end. `MC*` modules only give instances. Definitions marked
"Broken variant" are the mutations that show each property can fail; nothing
else uses them.

**GuideLifecycle**: one guide. `guide`, `question`, `assignments` and `enrolled`
are rows; `request` holds, per teacher request, the step it is at and what it
carries over an await; `ingestQueue` counts messages. `IngestRead`,
`IngestWrite`, `IngestSend` are `ingest`; `PublishRead` evaluates every check of
`publish` on one snapshot of guide, questions and roster (Prisma issues several
SELECTs for it; the model takes them at one instant) and `PublishWrite` is its
transaction. Two such transactions lock the question rows in the same order and
the guide last, so taking each as one step loses no outcome. `ArchiveRead` and
`ArchiveWrite` are `archive`. `RequestFails` is a failed write or a Lambda that
dies before it. `UpdateQuestion` and `Enroll` are other endpoints that write one
row. `Listed` is the teacher's list, which hides a guide by its `archivedAt` and not
by its status. The pipeline is external: what this code sends it and the statuses
it is expected to set. Three histories record what the properties except: `stale` are the
requests about to write a guide row that another request has written since they read
it, `overwrote` those that did, and `lost` says that an ingest message was not sent.

**GuideSolutions**: the answer keys of the questions of a guide. `ReadLatest` is
the read outside the transaction; `DemoteBegins` is the moment the UPDATE takes
its snapshot, `DemoteEnds` the moment it holds its row locks and has re-checked
the rows, `InsertCommits` and `InsertFails` the insert and the commit or the
duplicate key. That is the READ COMMITTED rule of PostgreSQL, which the model
marks as external. The generator of the engine is assumed to write keys the same way.

**AnswerKey** is what the answer keys promise, without transactions: an edit gives
the question the next version in one step or is refused. `GuideSolutions` implements
it (`ImplementsAnswerKey`): the key in force of a question is its current row, and an
edit has taken effect when its insert has committed.

**GuideSubmissions**: the submissions of one student (rows of two students never
meet). `ReadCount` and `ReadMax` are the two queries of `Promise.all`, in either
order; `Decide` compares; `Insert` runs against the unique index; a scan repeats
this over its pairs and sends after each row. `Complete*` are the three steps of
`complete`. `RequestFails` is an exception or the death of the Lambda at any
step. `gradeMessages` is every message handed to SQS; one that SQS refuses is
one the grader never takes. The grader and the teacher's new key versions are
the environment. `GraderTakes` is what a result does to the row: the worker skips GRADED
rows only, so a result that comes late sets a FAILED row to GRADING again; the history
`revived` names those rows.

**SubmissionGrading**: the reprocess queue and its workers. `Receive`,
`VisibilityExpires` and the deletion in `HandlerReturns` are SQS; `TakeRecord`
through `Close` are the statements of `processGuideSubmission` in order, each
its own step; `RecordFails` is an exception caught by the batch handler (nothing
is undone), `Crash` the loss of the whole Lambda. An attempt is named by the
delivery (message and receive count) whose run created it. `Overlap` allows a
message to become visible again while a Lambda still works on it, which
serverless.yml permits: VisibilityTimeout and Lambda timeout are both 60 seconds.

**ResultQueue** is what the queue and its consumer promise together: a submission is
given a result with all its evidence in one step, and a message is settled once,
deleted only when its submission has a result, or parked. `SubmissionGrading`
implements it (`ImplementsResultQueue`): the result of a submission is the attempt
its row points to, with the evidence that is then on record.

**Attempts**: what one student's answers to one topic become. `StartCreate` is the
topic lookup and the rule engine (any verdict it can give), `Insert`, `InsertSteps`,
`ReadMastery`, `UpsertMastery` and `Send` are the statements of
`AttemptsService.create` in order; `Adhoc*` are `solveAdhoc`. `Deliver`, `OcrUpdate`
and `CreateThrows` are the older OCR loop of the reprocess worker, which ends in the
same `create`. `ReportError` and the polls `GetStatus` and `GetDetail` are what the client
sees of an attempt. `Fails` stops an invocation after any statement. pKnown is kept as the
sequence of answers folded into it: the number is a function of that sequence, and
an answer missing from it is one that mastery has lost. Overlapping deliveries of
one message are SubmissionGrading's subject and left out here.

**Classroom**: the courses of one teacher. `CreateForTeacher`, `CreateInvite` and
`ArchiveCourse` are single statements (nothing stops a student from joining an
archived course with its code); `CourseAlerts` is what the teacher may resolve. `JoinRead` and `JoinWrite` are the read
and the transaction of `joinWithCode`. A cycle of the alert generator is `Snapshot`
(its one query), then `FindExisting` and `CreateAlert` for every alert that is due,
the two halves of `upsertAlertDedup`; `CycleFails` stops it anywhere. `Key` is what
the deduplication searches by: neither course nor unit, so a second off-track unit,
or a student idle in a second course of the teacher, raises no alert of its own.
Two histories, `joinsOverlapped` and `cyclesOverlapped`, record whether invocations
have overlapped, for what holds only until they do.

**RuleEngine**: the strategies of `factory.ts`, one operator each. A strategy tries its
rules in order and the first that matches names the tag, so a strategy is a sequence
of pairs of a condition and a tag, in the order of the code, and `Classify` takes the
first. An exercise carries what the code parses from its payload: the operands, and
two flags for where they are found (raw steps, or the fields minuend and subtrahend),
since a strategy that finds neither falls back to the rules that read the answer
alone. Numbers are exact fractions.

**Misconceptions** is the reference the engine is checked against: how an exercise is
worked, rightly and with each misconception. For subtraction, addition and sums of
fractions it follows the items of docs/error-taxonomy.md and the descriptions of the
seed, for the others the descriptions of the tags: columns of digits as a pupil works
them. It knows neither the guards of the rules nor their order. `Explaining` are the tags
of the misconceptions that lead to an answer, `MatchingTags` those of the rules that match
it in whatever order, `Deserved` what a tag asserts of the answer it is given to.
`Presumed` lists openly the tags whose rules ask less than that (`PresumedTags`):
`TagsAreDeserved` says nothing of them, and "What the properties leave room for" tells
what they accept.

**Mastery**: the BKT update of `applyAttempt` (`PKnownAfter`, from `PosteriorGivenObs`) in
exact fractions, with the one rounding of doubles that lasts: what reaches `NearOne` is
stored as 1 (`Stored`). The parameters of a topic may be 0 or 1, since nothing validates
them. Without evidence the posterior is NaN; that Prisma cannot send it and the upsert
fails is taken from how JSON writes numbers, and `ApplyAttempt` leaves the row. The module
also has what is read from the table: the teacher's panel and heatmap
and the parents' bands, each with the filter and the mean of its own service.

**StudentPractice**: a student who answers exercises that `recommendNextExercise` or
`practice.recommendNext` serves, and a teacher who creates assignments, from a
recommendation or by hand, while the item bank grows. An answer is classified,
recorded and traced in one step, because how answers overlap is Attempts' subject.
`AnswerDrill` puts a problem to the rule engine alone, so that its inputs can be many
without multiplying the histories of practice.

**Sessions**: one e-mail address and the requests about it. `Register`, `Login`,
`Refresh`, `Link`, `Forgot`, `Confirm` and the seed are handlers cut at their awaits;
`FindProfile` and `CreateProfile` come after the user row for all who create one. A
token is the claims it was signed with. A code that is guessed is no step here: only
codes that were mailed are tried. `SignUp` is Supabase (external), `Provision` the
script that creates the demo identities there.

**ErrorCatalog**: the tags and their status. `ListErrorTags` is one page with Prisma's
cursor (a row that has left the filter still is the place where the next page
starts, and `skip: 1` then skips a row that matches); `ReadEntry` and `WriteEntry` are
the importer's entries, batch by batch, interleaved within a batch.

**GuideResults**: the columns of a submission that graders, classifier and teacher
write at their own times, and what is shown of them. `StartResults` and
`FinishResults` are the two queries of `getResults`, `ReadQuestions`, `ReadCells` and
`BuildMatrix` those of `getResultsMatrix`; `StatusView`, `SubmissionDetail`, `Quiz`,
`ListedGuide` and `ChildsGuide` are the other screens.

**Platform** puts the last five in one deployment. They share no table that one of
them writes and another reads, so a step of one commutes with every step of the
others, and a property about one of them holds in all interleavings if it holds in
the behaviours where it moves alone. `served` names the service that does; without it
TLC would only multiply the four state spaces.

## Runs

| Run | Checks | Shows |
|---|---|---|
| `guide` | OneAssignmentPerGuide, PublishedIsResolved, CurrentAssignmentLinked, OnlyOverwritesLeaveTable, ExtractionEnds | with two requests overlapping: the table is left, a second assignment made and an unreviewed guide published only by requests that overwrite others; assignment and questions agree regardless; extraction ends unless a message was lost |
| `guide_stale_status` | StatusFollowsTransitions: violated | two requests overlap and ARCHIVED is left again |
| `solution_versions` | LatestIsCurrent, AcknowledgedEditsKept, ImplementsAnswerKey, EditsEnd | the unique index is enough to make overlapping edits atomic |
| `submissions` | AttemptsNumbered, CapOvershoot, ScanRowsQueued, RecordedVersionRequested | numbering, the bound on the cap's overshoot, scans and versions under overlap, failure and late results |
| `submission_cap` | CapRespected: violated | two overlapping requests exceed the cap |
| `grading` | TypeOK, GradedIsComplete, DeletedIsGraded, MasteryHasEvidence, ImplementsResultQueue, ResultsSettle | what at-least-once delivery cannot break |
| `grading_crash` | NoDuplicateAttempts: violated | a failure between attempt and close duplicates the attempt |
| `attempts` | AnsweredIsRecorded, CountIsExact, OnlyOverlapLosesAnswers, SettledIsMarked | what a chain without a transaction still guarantees, and that only overlapping updates lose an answer |
| `ocr_loop` | PhotosAreClassified: violated | the OCR loop classifies a copy of the attempt |
| `classroom` | UsesAreCounted, OneOpenAlertPerDay, EndedCycleHasAlerted | what find-then-create and a stale counter keep, with and without overlap |
| `platform` | rule engine: FirstRuleExplains, TagsAreDeserved; practice: PosteriorIsDefined, ShownMasteryFollowsAnswers, AssignedTopicsAreReady; sessions: ResetRevokesSessions, CodeIsSpentOnce, SessionHasProfile; catalogue: ListingIsComplete, ImportKeepsCuration; results: SolutionAfterGrade, MatrixShowsDecisions, StudentsCountOnce, ProgressSurvivesRetries | what students, teachers, parents and administrators are shown is deserved, defined and does not go back, and what the exceptions are |
| `rule_engine_docs` | ClassifiedAsDocumented: violated | answers that the taxonomy names get another tag or none |

GuideLifecycle, GuideSolutions, GuideSubmissions, Attempts and Classroom define a TypeOK too; no run
lists it, since it is proved (`GuideTypeCorrect` and so on).

### The five disagreements

* `guide_stale_status`. `guide-state-machine.ts` makes ARCHIVED terminal and its
  spec file says so, but the endpoints check the table on a row they read before
  an await and update by id alone. Archive while a publish or an ingest is
  between its read and its write, and the guide comes back to life. The same
  window lets two publications create two assignments. What holds instead:
  `OnlyOverwritesLeaveTable` and `OneAssignmentPerGuide` put each such step down to a
  request that overwrote another one's write, and `CurrentAssignmentLinked` says that
  the last assignment wins consistently.
* `submission_cap`. The comment of `createSubmission` announces a cap of one
  original plus `maxResubmissions`; count and insert are separate statements.
  Requests whose attempt numbers collide are stopped by the unique index, but
  two that insert one after the other, both counted before, are not. `CapOvershoot`
  bounds the damage: one row more for each further request in flight, among the rows that
  have counted since they were inserted (`Standing`). There is a second way past the
  cap: FAILED rows do not count, and a late result sets one to GRADING
  (attempt-reprocess.worker.ts:83 and :100) after its replacement was inserted. Each
  such row adds one.
* `grading_crash`. The plan of sprint S13 calls the chain "transaccional e
  idempotente por traceId"; it is neither. What holds instead is
  `GradedIsComplete`: because the row is closed last, whatever it points to went
  through the whole chain.
* `ocr_loop`. The plan of sprint S5 says that the photograph's attempt gets its steps
  and goes through classification again. `processLegacyOcr` marks it OCR_DONE and
  calls `create`, which inserts another attempt: that one gets steps, verdict and
  mastery, and the photograph's own, which the client polls, stays in OCR_DONE. What
  holds instead is `SettledIsMarked`.
* `rule_engine_docs`. The taxonomy and the guide to the tests name misconceptions by the
  procedure that leads to an answer; the rules have guards that leave some of them out.
  53 - 26 answered -27 is SWAPPED in README-TESTING.md:78 and error-taxonomy.md:27 and
  DIGIT_TRANSPOSITION in the code, which asks for a subtrahend larger than the minuend.
  325 - 171 answered 254 has its borrow omitted in the hundreds (error-taxonomy.md:26) and
  is UNCLASSIFIED. The rule for a lost whole accepts answers next to whole * den + num:
  1 1/4 answered 4 or 6 quarters has "lost its whole", answered 1 quarter (the whole lost,
  error-taxonomy.md:65) it is UNCLASSIFIED. `ClassifiedAsDocumented` states the documents; what
  holds instead is that the order of the rules is not to blame (`FirstRuleExplains`): a
  misconception goes unnamed only when no rule for it matches.

### What the properties leave room for

Behaviour of the code that a reader should know beside the disagreements. Each is
an exception written into a property, or follows from a definition; where a document
says otherwise the line is given.

Rule engine (`RuleEngine`, `Misconceptions`):

* A subdomain without a strategy classifies every answer UNCLASSIFIED, a right one
  too, and `create` stores that as `isCorrect = false`: pKnown falls.
* 10 x 100 answered 10 is UNCLASSIFIED. 1000 - 1 answered 1001 is FACT_ERROR when the
  payload has no raw steps.
* More answers that `ClassifiedAsDocumented` would refuse. 423 - 156 answered 333, the
  smaller digit taken from the larger in two columns, has the tag of the tens, which
  the reference gives it too; README-TESTING.md:80 lists only the one of the
  hundreds. 2/5 + 1/5 answered 3/10 and 1 1/4 + 1/4 answered 2/4 are FACT_ERROR, as the rules
  compare with numerators and fractions are near each other (error-taxonomy.md:62, :65). An
  inverted fraction (:64) is never named: its rule parses an expected answer that is a number.
  38 + 27 answered 56, the carry added to the units (:49), is DIGIT_TRANSPOSITION, and a carry
  omitted in the tens alone (:48) is UNCLASSIFIED. README-TESTING.md:82 gives 1000 - 1 = 999,
  the right answer, as an example of a misconception.
* A borrow through a zero is named for any wrong answer, since the rules look at the
  exercise and not at the answer (`FeatureTags`), with or without raw steps
  (error-taxonomy.md:37 wants them for both). ADD_CARRY_WRONG_COLUMN goes to answers 10 or
  100 from the sum without carries, FRACT_SUM_NUM_AND_DEN to the sum of the numerators
  whatever became of the denominators, FRACT_NOT_REDUCED to any multiple, and
  FRACT_WHOLE_NUMBER_LOST to what is near the whole: `PresumedTags`. The opposite of the right
  answer passes for a transposition of its digits.
* The rule for three-digit multipliers looks at two digits only. An answer of 0 to a division
  is taken for swapped operands.

Mastery and practice (`Mastery`, `StudentPractice`):

* Some 23 right answers take pKnown to exactly 1 in doubles. No wrong answer lowers it from
  there: the posterior of what is certain is certain. README-TESTING.md:116 says "pKnown decreases
  under N consecutive incorrect". `ShownMasteryFollowsAnswers` asks only that a wrong answer
  raises nothing, and `PosteriorIsDefined` that the update still exists.
* Nothing validates the parameters of a topic. Without slips and guesses, one right answer
  makes pKnown 1 and the posterior of a wrong one is 0/0; the update fails, after the attempt
  was stored. `PosteriorIsDefined` claims a posterior for `Regular` topics only.
* The first answer in a topic adds its record to the mean of the teacher's cell and
  may move it against the answer (`ShownMasteryFollowsAnswers` excepts it).
* `recommendForStudent` with a `topicId` looks for prerequisites among the records that
  the filter let through, so a topic with prerequisites is never recommended then, even
  if they are mastered: safe, as `AssignedTopicsAreReady` says, but too strict.
* `practice.recommendNext` does not look at what was answered: the exercise just solved
  is served again while it carries the most information. Exercises from guides are
  served without their statement.

Sessions, catalogue, results:

* Logging out revokes nothing; only a reset does. A local account makes every
  Supabase sign-in of the same e-mail fail on the unique e-mail.
* A page whose last tag has left the filter skips one tag (`listing.gaps` counts them).
* A student's status and results show the tag of the attempt and not the teacher's
  override; a resubmission hides the override from the matrix, which shows the latest
  attempt. `listGuides` may count graded questions that are no longer approved.
* The plan of the product, docs/PLAN_v9_ADDENDUM.md:135, "La pauta nunca se expone antes de
  `gradedAt`", is what `SolutionAfterGrade` states. It holds because `gradedAt` is never
  cleared, although the status may go back to GRADING.
* A guide that a stale publication brings back keeps its `archivedAt`: students see it,
  the teacher's list does not.

### Bounds

* `guide`, `guide_stale_status`: four requests (an ingest, a retry, a publish
  and an archive fit, in any order and any kind), two questions (one with and one
  without a topic, one resolved and one not), one student; two requests in flight
  are what a race needs.
* `solution_versions`: three edits on two questions reach three versions and
  every collision of two and of three; one regeneration per question.
* `submissions`: three requests, two at once, two questions (a scan has a first
  and a later one), cap 0 so that one row fills it, two key versions, one row brought back from FAILED
  (`MaxRevived`).
* `grading`: two results that disagree for one submission, two Lambdas, two
  deliveries each before the dead letter queue (the real limit is five: more
  deliveries only repeat), batches of up to two. The question has a topic; without
  one the mastery step does nothing.
* `attempts`: three requests of any kind, which two overlapping updates and a third
  that shows the loss need; one photograph with a topic and one without; two
  deliveries each before the dead letter queue.
* `classroom`: one course with two units and one student, who joins twice with a code
  of one use; two cycles, two days and at most two alerts due per cycle are what a
  duplicate, a masked alert and an alert of yesterday need.
* `attempts` also allows one error report.
* `platform`, rule engine: exercises for every strategy, chosen so that each rule
  matches somewhere and zeros, carries and borrows meet in every column (91
  subtractions, 24 additions, products, divisions, signs, fractions, decimals, ratios,
  equations, powers), each with the right answer, the answers of all its
  misconceptions and neighbours of the right one, with and without raw steps and
  fields. `rule_engine_docs` takes three of them. These are samples: the rules are arithmetic conditions on a few digits.
* `platform`, practice: three answers over two days, two topics of which one is the
  prerequisite of the other and one in a subdomain without a strategy, one exercise
  added meanwhile; three answers move a topic over the thresholds of mastery and bands. One topic has the
  default parameters, one neither slips nor guesses (0), one nothing but guesses (1).
  `NearOne` is 9/10, so that two or three answers round to 1 as some 23 do in doubles, where it
  is 1 - 2^-54; the proofs hold for any.
* `platform`, sessions: three requests of any kind, which a reset, the session it must
  end and one more confirmation need; two reset codes, one password (which password it
  is decides nothing).
* `platform`, catalogue: three tags, pages of one, batches of two so that two entries
  interleave, a file that names a tag twice, two status changes, one import.
* `platform`, results: one student, one question, two submissions (the newest is not
  the graded one), two deliveries that may be of one row, one override. Students' reads
  and the matrix are in different behaviours: a read changes no row.
* MaxDay, MaxDue, MaxReceive, MaxRegenerations, MaxVersion, MaxRevived, MaxReports, Concurrency and,
  in the services of Platform, MaxNewItems, MaxAnswers, LastDay, MaxCodes, MaxUpdates,
  MaxImports, MaxSubmissions and MaxOverrides are the only bounds in guards; each is a
  CONSTANT with a comment. Symmetry is over requests and deliveries that no
  property tells apart; runs with a liveness property use none.

### Fairness and deadlock

`GuideLifecycle`: a request that has started goes on (Lambdas run to their end)
and the pipeline works through its queue; nobody has to send a request or review
a question. Messages may be lost: when SQS refuses an ingest message, or the Lambda dies
before it, the guide really stays in EXTRACTING until it is archived, because `ingest`
answers a retry with a no-op. `ExtractionEnds` therefore excepts behaviours in which one was (`lost`). `GuideSolutions`: an open transaction
goes on. `SubmissionGrading`: the event source polls, a running Lambda goes on
and visibility timeouts pass; exceptions and crashes need not happen but may
always. Runs with CHECK_DEADLOCK FALSE are those whose environment may stop: all
requests answered, all messages settled, all bounds used up.

## Proofs

TLAPS checks the theorems below for every value of the constants that the named
assumption of the module allows: any number of requests, students, questions,
deliveries, and any bound. The properties of the runs are theorems, but for those
under "Only model-checked". Each proof module starts with the types,
then has one section per invariant: its definition, what each action does to it
(lemmas named `...Change`, `...Stays`), the initial states (`Init...`), a step
(`Next...`), and the theorem. A property is seldom inductive by itself, and what is
added to it says why the code is right.

**GuideSolutionsProofs** (`SolutionsAssumption`): `SolutionsTypeCorrect`,
`LatestKeyIsCurrent`, `AcknowledgedEditsAreKept`, `EditsAreAtomic`.
`LatestIsCurrent` says nothing of edits in flight. `KeyInv` adds that the versions of a
question have no gaps, that the version an edit plans to insert follows an existing
one, and that, as long as that version is free, the rows it picked to demote are the
current ones. The key step is arithmetic on version sets without gaps (`FreeIsAbove`,
`FreeIsUnique`): a free version that follows an existing one is above all of them and
unique, so a commit takes away the version every overlapping edit of the question has
planned, and the unique index then refuses it. The lock wait is not even needed for
safety, only the atomicity of the commit. `EditsAreAtomic` is the refinement of
`AnswerKey`, action by action: the commit maps to the abstract edit, a duplicate key to
the refusal, everything else to a stutter.

**SubmissionGradingProofs** (`GradingAssumption`): `GradingTypeCorrect`,
`GradesAreComplete`, `DeletedResultsAreGraded`, `MasteryIsBackedByAttempts`,
`GradingIsAtomic`. The danger is a chain that runs again and starts over the attempt a
grade points to. `GradingInv` excludes it: a receipt is held by one worker at most
(`ExclusiveInv`), receipts not yet given out have no attempt (`FreshInv`), nor has one
whose chain is still before its attempt (`UntouchedInv`); `ProgressInv` says what is
behind each step of the chain, so that the close links a complete attempt (`LinkInv`),
and `DoneInv` follows the links to the deletions. `EvidenceInv` adds that mastery
counts the attempts marked as fed, each marked once. `GradingIsAtomic` is the refinement of
`ResultQueue`: the first close of a submission is the abstract grading, a later one a
stutter since what it links is complete too.

**GuideSubmissionsProofs** (`SubmissionsAssumption`): `SubmissionsTypeCorrect`,
`AttemptsAreNumbered`, `OvershootIsBounded`, `ScanRowsAreQueued`,
`RecordedVersionIsRequested`. All steps are of a few kinds (`StepKinds`), so the
invariants are proved over kinds and not over twenty actions. `NumberInv`: the maximum a
request has read is the number of some row, or 0, whatever was inserted since; the next
number leaves no gap and the unique index refuses it if it is taken. `CapInv` bounds the
rows that have counted since they were inserted plus the requests that have passed the check
and not inserted yet by `MaxResubmissions + Concurrency`: a request passes only if the rows
left room, and there are at most `Concurrency` of them. A late result does not add to these
rows, whatever else it brings back. `TraceInv` says where the recorded version of a row
comes from, with the completion that has written and not sent yet.

**AttemptsProofs** (`AttemptsAssumption`): `AttemptsTypeCorrect`, `AnswersAreRecorded`,
`AttemptsAreCounted`, `LossesNeedAnOverlap`, `SettledPhotosAreMarked`. `RecordInv` says
what is on record at each step of a request. `MasteryInv` is about the sequence each
request has read (`PriorsAreFed`): it holds answers that were fed, none twice, and while
no updates have overlapped it is the sequence of the row and its holder the only one.

**GuideLifecycleProofs** (`GuideAssumption`): `GuideTypeCorrect`, `PublishedGuideIsLinked`,
`OneAssignment`, `PublishedIsReviewed` and `StatusIsOrderly`, all for any number of
overlapping requests. `FreshInv` says that what a request has checked is still true when it
writes, unless it is in `stale`: pipeline, review and enrollment go on meanwhile, but only
a request's own write makes another one stale. A step that leaves the table is then one of
a stale request, which the history `overwrote` records. `RowsInv` counts the
assignments against that history: a guide that is neither PUBLISHED nor ARCHIVED may be given
one more (`Room`), which a publication uses up, and only a request that overwrites opens
such room again. The other conjuncts say the same of the review and of `archivedAt`.

**ClassroomProofs** (`ClassroomAssumption`): `ClassroomTypeCorrect`, `UseCountsAreBacked`,
`AlertsAreNotRepeated`, `EndedCyclesAlerted`. The histories of overlap are in the
invariants: until two joins of a code have overlapped, what a join has read is the use
count (`ReadIsJoined`); until two cycles have, what a cycle has found missing is missing
still (`AlertInv`), also when midnight passes in between. `WorkInv` holds regardless:
what a cycle has struck off its list has been raised since it started.

**SessionsProofs** (`SessionsAssumption`), of `SessionsSpec`, the sessions by themselves:
`SessionsTypeCorrect`, `ResetEndsSessions`, `CodesAreSpentOnce`, `SessionsHaveProfiles`.
`VersionInv`: the token version of the row counts the resets answered, and a request
carries the number of those there were when it read the row. `CodeInv`: a code is
generated once and mailed only after it has been stored, so no row comes to hold again
one that has set a password. `ProfileInv`: a role that is in the row has a profile, or a
request that is to create it, unfinished or failed.

**PlatformProofs** (`ResultsAssumption`, `CatalogAssumption`, `NearOneAssumption`,
`ParametersAreProbabilities`, `PracticeAssumption`), of `Platform`'s `Spec`: `PlatformResetsEndSessions`,
`PlatformCodesAreSpentOnce`, `PlatformSessionsHaveProfiles`, `SolutionsFollowGrades`,
`MatrixIsDecided`, `StudentsAreCountedOnce`, `ProgressIsKept`, `ImportsKeepCuration`,
`ListingsAreComplete`, `RecommendedTopicsAreReady`, `PosteriorsAreDefined`,
`ShownMasteryMoves`. A behaviour of the deployment is one of each service
(`DeploymentServes`), which lifts what is proved of a service by itself to `Platform`;
it would lift it as well to a deployment in which the services interleave, so for what
is proved the restriction to one served service costs nothing.

* Results: `RowInv` (a closed row has its verdict and `gradedAt`), `VerdictInv` (a delivery
  closes a row that has a verdict) and `MatrixInv` (what was settled when the matrix was
  asked for is so still, and so it is in the cells once they are read) are inductive
  together; the step that takes progress back is shown to be one of two deliveries of a
  row (`GradedStays`). For `StudentsAreCountedOnce`, the cells of a matrix hold one tag
  per student and question (`OneCell`), so the students counted under different tags
  are disjoint and their numbers add up to no more than the students (`SumOfSizes`).
* Catalogue: for the import, `Kept` says what has become of a tag nobody has touched, and
  `Read` what an entry between its read and its write still knows: a draft that
  another entry of the same code may have activated, never a deprecated tag taken for a
  draft. `ListingInv` says of a listing under way that what it has shown is not beyond
  its cursor, that its pages rise, and that of the tags up to the cursor that match
  throughout it has missed no more than pages have started at a tag that had left the filter.
* Practice: `RecommendedTopicsAreReady` needs no invariant, only what the
  recommender looks at when it is asked. `MasteryInv` (each pKnown lies in 0..1, and is no less than the chance to learn once
  there was an answer) holds for parameters from 0 to 1, both included, and any `NearOne`. In a
  `Regular` topic it makes the evidence positive, also when pKnown is 1 (`HasEvidence`). It takes that
  `Over`, `Plus`, `Times`, `Not`, `Quotient` and `Below` are reduction, arithmetic and order of
  fractions. `ShownInv` adds that a wrong answer
  lowers whatever is on record, for each topic. It is inductive since the condition for
  that, an inequality of the likelihoods and of pKnown, survives the update itself and every
  increase (`OutweighedStays`), and it implies that a right answer does not lower. Sums,
  means and bands keep the order (`MeanMonotone`, `BandFollows`, `CellFollows`,
  `CellsFollow`), and an answer in a topic on record adds no subdomain to the panel
  (`SignalStays`).

`ShownMasteryMoves` has two hypotheses. `WrongAnswersLower`: for the parameters of each topic
a wrong *first* answer does not raise pL0. `ParametersInside`: they lie strictly between 0 and
1. Both are cases and no assumptions about the code, which accepts any parameters; a topic
that is learned faster than an answer is evidence against it has a pKnown that rises with
wrong answers, and then the property is false. `DefaultsLower` proves them for the
defaults of `schema.prisma`, which are also what the seed writes for every topic. At the
edges the property is checked in the run, whose topics have such parameters. That pKnown may
be rounded to 1 is part of the proof (`OneStays`, `LowersAsStored`): from there every answer
leaves it as it is.

Induction over data is not available as a rule, since the library's induction theorems
take an operator as a parameter. Where a proof needs it, it takes a least counterexample
instead: the set of the numbers (sizes, values, positions) at which the claim fails is a
set of naturals and, if not empty, has a least element, which the step refutes. That a
recursive function satisfies its own equation (`Gcd`, `Less`, the fold of the community
modules) is shown by a function given without recursion that does:
the greatest common divisor as the greatest element of the set of divisors, the order of
cross products, and the sums over all subsets of a finite set (`AreSums`).

Only model-checked, and why:

* `ExtractionEnds`, `EditsEnd`, `ResultsSettle`: liveness under fairness.
* `FirstRuleExplains`, `TagsAreDeserved`: they compare the rules, digit by digit, with
  reference algorithms for the misconceptions, on the exercises and answers of the run.
  They are claims about those samples and not about all numbers. What the order of the rules
  decides for every input is proved where it is needed: an answer classified as wrong is
  not the right one (`FirstMatchIsNotCorrect`, `CorrectIsRight`).
* The violated properties of the five disagreements, which are false.

## Not modelled, and the plan

Not modelled, with the reason:

* The generated catalogue (`error-tags.generated.ts`, 2,624 codes that nothing imports)
  and the rows of the seed: data. How the seed and the importer write them is modelled.
* The adapters (SQS, S3, OCR, SSM, mail): I/O. That a send can be lost in silence is
  part of the actions that send. The status page of the administrator reads queues
  and kill switches and keeps no state.
* The Mongo schemas, which no service injects, and the handlers that only log
  (`ocr-worker`, `llm-classifier`, `telemetry-persister`).
* Hashing, signatures, the life of tokens, the role guard, validation of request bodies
  and of the content of an answer key, presigned URLs, wording and layout.
* An alert inserted by hand, the link of a parent to a child, the CRUD of skills, reads
  that return rows as they are: one statement on one row, nothing to interleave.
* The Fisher information that orders candidates, and the order by difficulty: logarithms
  and exponentials, which TLA+ has not. Any order is allowed instead.
* The branch of the worker for a submission that no longer exists: only an operator's
  script deletes one. The other scripts are tools of a developer's machine.

What remains of the plan: the liveness properties have safety parts that could be
stated and proved apart (a Lambda that has a record can always take its next step, a
transaction waits only for one that is not waiting).
