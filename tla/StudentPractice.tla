--------------------------- MODULE StudentPractice ---------------------------
(***************************************************************************)
(* A student answering exercises: the loop of attempts.create (classify,   *)
(* record, trace), what the recommenders serve next (modules/mastery,      *)
(* modules/practice) and the assignments a teacher creates from a          *)
(* recommendation (modules/assignment).                                    *)
(*                                                                         *)
(* One answer is one step here: how answers of the same student overlap is *)
(* the subject of Attempts.  The Fisher information that orders the items  *)
(* of a topic is left out, so any of them may be the one that is served    *)
(* and any TopN of the recommended ones are assigned.  The bank of         *)
(* exercises grows meanwhile: by items of a teacher (modules/items), by    *)
(* the questions of a published guide, by the external generator.  No      *)
(* step reads an assignment, so a behaviour here ends with the first one.  *)
(***************************************************************************)
EXTENDS Misconceptions, Mastery

CONSTANTS
    Topics,         \* topics of the course
    CourseUnits,    \* the units of the course, sets of topics
    SubOf,          \* Topics -> subdomain of the topic, or NoSub
    DomainOf,       \* subdomain -> domain
    Prerequisites,  \* Topics -> SUBSET Topics
    Parameters,     \* Topics -> BKT parameters
    Pool,           \* exercises [id, topic, problem, status] there from the start
    NewItems,       \* exercises that may be added
    MaxNewItems,    \* bound: those that are
    WrongAnswers,   \* answers tried besides the right one, per problem
    Drills,         \* problems answered once each, for the rule engine alone
    TopN,           \* exercises of a recommended assignment
    Window,         \* days a right answer keeps an exercise from being served
    MaxAnswers, LastDay,
    NoDrill

\* Nothing checks the parameters of a topic: 0 and 1 are among them.
ASSUME ParametersAreProbabilities ==
    \A t \in Topics :
       /\ \A f \in {"pL0", "pT", "pS", "pG"} :
            Parameters[t][f] \in Fractions /\ ~Below(Whole(1), Parameters[t][f])
       /\ Parameters[t].pL0 = Stored(Parameters[t].pL0)

\* The units are made of the topics, and an exercise is a problem of its topic's subdomain.
ASSUME PracticeAssumption ==
    /\ IsFiniteSet(Topics) /\ CourseUnits \subseteq SUBSET Topics
    /\ NoRecord \notin Fractions /\ NoSub \notin Registered
    /\ \A ex \in Pool \cup NewItems :
         DOMAIN ex = {"id", "topic", "problem", "status"} /\ ex.problem.sub = SubOf[ex.topic]

VARIABLES
    pool,        \* Exercise rows
    drill,       \* the drill answered: [problem, answer, tag]
    mastery,     \* StudentTopicMastery of the student
    answers,     \* Attempt rows of the student
    day,
    assigned     \* assignments of the student: [reason, topics of the exercises]

practiceVars == <<pool, drill, mastery, answers, day, assigned>>

PracticeInit ==
    /\ pool = Pool
    /\ drill = NoDrill
    /\ mastery = [t \in Topics |-> NoRecord]
    /\ answers = {}
    /\ day = 0
    /\ assigned = {}

------------------------------------------------------------------------------
(* Classification of single answers. *)

AnswersTo(p) == {p.expected} \cup WrongAnswers[p] \cup {bug.answer : bug \in Bugs(p)}

Untouched == drill = NoDrill /\ answers = {} /\ pool = Pool /\ assigned = {}

AnswerDrill(p, x) ==
    /\ Untouched
    /\ drill' = [problem |-> p, answer |-> x, tag |-> Classify(p, x)]
    /\ UNCHANGED <<pool, mastery, answers, day, assigned>>

------------------------------------------------------------------------------
(* The bank of exercises. *)

AddExercise(ex, status) ==
    /\ drill = NoDrill /\ assigned = {}
    /\ Cardinality(pool) < Cardinality(Pool) + MaxNewItems
    /\ \A other \in pool : other.id # ex.id
    /\ pool' = pool \cup {[ex EXCEPT !.status = status]}
    /\ UNCHANGED <<drill, mastery, answers, day, assigned>>

\* items.create needs a prompt and a topic that exists; what it adds is active.
CreateItem(ex) == ex.topic \in Topics /\ AddExercise(ex, "ACTIVE")

\* Publishing a guide adds an exercise for each question with a topic, active too:
\* it is served to any student of the topic like the others.
MaterializeExercise(ex) == ex.topic \in Topics /\ AddExercise(ex, "ACTIVE")

\* generateItems leaves a message; what the generator writes is its own affair.
GenerateItems(ex) == \E status \in {"DRAFT", "ACTIVE"} : AddExercise(ex, status)

Active(topic) == {ex \in pool : ex.topic = topic /\ ex.status = "ACTIVE"}

\* The bank a teacher chooses from, of one topic or of all.
FindAll(filter) == UNION {Active(t) : t \in filter}

------------------------------------------------------------------------------
(* Answering exercises of the course. *)

\* Exercises answered right in this course within the window.
RecentCorrect ==
    {a.exercise : a \in {b \in answers : b.correct /\ b.inCourse /\ b.day >= day - Window}}

Fresh(topic) == {ex \in Active(topic) : ex.id \notin RecentCorrect}

\* mastery.recommendNextExercise: an exercise of the weakest topic on record that
\* has one left; none when every topic is exhausted or the student is new.
NextExercises ==
    LET open == {t \in Topics : mastery[t] # NoRecord /\ Fresh(t) # {}}
        weakest == {t \in open : \A u \in open : ~Below(mastery[u], mastery[t])}
    IN  UNION {Fresh(t) : t \in weakest}

\* practice.recommendNext: any active exercise (the best match for pKnown or the
\* prior), whatever the student has answered already.
PracticeExercises == UNION {Active(t) : t \in Topics}

Practising == drill = NoDrill /\ assigned = {} /\ Cardinality(answers) < MaxAnswers

Solve(ex, x, inCourse) ==
    LET tag == Classify(ex.problem, x)
        correct == tag = "CORRECT"
    IN  /\ Practising
        /\ answers' = answers \cup
             {[n |-> Cardinality(answers) + 1, exercise |-> ex.id, topic |-> ex.topic,
               sub |-> SubOf[ex.topic], inCourse |-> inCourse, correct |-> correct,
               right |-> Same(x, ex.problem.expected),
               tagSub |-> IF tag \in {"CORRECT", "UNCLASSIFIED", "FACT_ERROR", "PLACE_VALUE",
                                      "DIGIT_TRANSPOSITION"}
                            THEN NoSub ELSE SubOf[ex.topic],
               day |-> day]}
        /\ mastery' = ApplyAttempt(mastery, Parameters, ex.topic, correct)
        /\ UNCHANGED <<pool, drill, day, assigned>>

SolveRecommended(ex, x) == ex \in NextExercises /\ Solve(ex, x, TRUE)
SolvePractice(ex, x) == ex \in PracticeExercises /\ Solve(ex, x, FALSE)

NextDay ==
    /\ drill = NoDrill /\ assigned = {} /\ answers # {} /\ day < LastDay
    /\ day' = day + 1
    /\ UNCHANGED <<pool, drill, mastery, answers, assigned>>

------------------------------------------------------------------------------
(* Assignments. *)

\* Broken variant: a prerequisite without a record does not stand in the way.
PrereqsMetIfKnown(records, topic) ==
    \A t \in Prerequisites[topic] : t \in records => ~Below(mastery[t], <<3, 5>>)

\* A prerequisite is looked up among the records that the filter let through.
PrereqsMet(records, topic) ==
    \A t \in Prerequisites[topic] : t \in records /\ ~Below(mastery[t], <<3, 5>>)

RecommendForStudent(filter) ==
    LET records == {t \in filter : mastery[t] # NoRecord}
    IN  UNION {Active(t) : t \in {u \in records : PrereqsMet(records, u)}}

Assignment(reason, exercises) == [reason |-> reason, topics |-> {ex.topic : ex \in exercises}]

\* createRecommended for the topics of filter: all, or the one of the request.
\* Nothing to recommend is a 404.
CreateRecommended(filter) ==
    LET recommended == RecommendForStudent(filter)
    IN  /\ drill = NoDrill /\ assigned = {}
        /\ recommended # {}
        /\ \E chosen \in kSubset(Min({TopN, Cardinality(recommended)}), recommended) :
             assigned' = {Assignment("PRACTICE_RECOMMENDER", chosen)}
        /\ UNCHANGED <<pool, drill, mastery, answers, day>>

\* create takes whatever the teacher has chosen, for whomever.
CreateAssignment(ex) ==
    /\ drill = NoDrill /\ assigned = {}
    /\ ex \in FindAll(Topics)
    /\ assigned' = {Assignment("TEACHER_MANUAL", {ex})}
    /\ UNCHANGED <<pool, drill, mastery, answers, day>>

ItemsNext == \E ex \in NewItems : CreateItem(ex) \/ GenerateItems(ex)

AssignmentsNext ==
    \/ \E ex \in pool : CreateAssignment(ex)
    \/ CreateRecommended(Topics)
    \/ \E t \in Topics : CreateRecommended({t})

PracticeNext ==
    \/ Untouched /\ \E p \in Drills : \E x \in AnswersTo(p) : AnswerDrill(p, x)
    \/ Practising /\ \E ex \in pool : \E x \in AnswersTo(ex.problem) :
         SolveRecommended(ex, x) \/ SolvePractice(ex, x)
    \/ \E ex \in NewItems : MaterializeExercise(ex)
    \/ NextDay
    \/ ItemsNext \/ AssignmentsNext

------------------------------------------------------------------------------
(* Properties. *)

\* The order of the rules hides no misconception: when some rule of the strategy
\* that matches the answer names a misconception that leads to it, so does the tag
\* that is given, the first one's, or it is one of the two for a borrow through a
\* zero, which come before the last rules whatever the answer.
FirstRuleExplains ==
    drill # NoDrill =>
      LET explaining == Explaining(drill.problem, drill.answer)
      IN  ~Same(drill.answer, drill.problem.expected)
            /\ explaining \cap MatchingTags(drill.problem, drill.answer) # {}
            => drill.tag \in explaining \cup FeatureTags

\* A tag that accuses the student of a procedure is given only to an answer that the
\* procedure leads to, the tags apart whose rules presume it.
TagsAreDeserved ==
    drill # NoDrill => \/ Deserved(drill.tag, drill.problem, drill.answer)
                       \/ Presumed(drill.tag, drill.problem, drill.answer)

\* What docs/error-taxonomy.md and README-TESTING.md say: a wrong answer that a
\* misconception of the taxonomy leads to gets the tag of one, and one that none
\* leads to is at most a slip or left to the language model.
ClassifiedAsDocumented ==
    drill # NoDrill /\ ~Same(drill.answer, drill.problem.expected) =>
      LET explaining == Explaining(drill.problem, drill.answer)
      IN  IF explaining # {} THEN drill.tag \in explaining
                             ELSE drill.tag \in {"UNCLASSIFIED", "FACT_ERROR"}

\* A topic that may be known from the start, may be learned, and has slips, not only
\* slips.
Regular(param) ==
    /\ \A f \in {"pL0", "pT", "pS"} : Below(Whole(0), param[f])
    /\ Below(param.pS, Whole(1))

\* Whatever has been answered, pKnown stays between pT and 1; and the next posterior
\* of a regular topic is defined, even when pKnown has been rounded to 1 (no division
\* of zero by zero, and no answer whose update is lost to a NaN).
PosteriorIsDefined ==
    answers # {} => \A t \in Topics :
       /\ mastery[t] # NoRecord =>
            ~Below(mastery[t], Parameters[t].pT) /\ ~Below(Whole(1), mastery[t])
       /\ Regular(Parameters[t]) => \A correct \in BOOLEAN :
            Evidence(Parameters[t], Prior(mastery, Parameters, t), correct)[1] > 0

\* What is shown moves with the answers.  A right answer lowers neither the band that
\* parents see of a unit nor, in a topic on record, the teacher's cells of the panel
\* and of the heatmap; a wrong one raises none of them.  (In a subdomain with a
\* strategy: without one a right answer counts as wrong.  The first answer in a
\* topic adds a row to the mean of its cell and may move it either way.)
ShownMasteryFollowsAnswers ==
    [][\A a \in answers' \ answers : a.sub \in Registered =>
         LET Band(m, u) == UnitBand(m, Parameters, u)
             Cell(m, as) == CourseMastery(m, SubOf, as)[a.sub]
             Domain(m, as) == CourseHeatmap(m, SubOf, DomainOf, as)[DomainOf[a.sub]]
         IN  /\ \A u \in CourseUnits : IF a.right THEN Band(mastery', u) >= Band(mastery, u)
                                                 ELSE Band(mastery', u) <= Band(mastery, u)
             /\ mastery[a.topic] # NoRecord =>
                  IF a.right
                  THEN /\ ~Below(Cell(mastery', answers'), Cell(mastery, answers))
                       /\ ~Below(Domain(mastery', answers'), Domain(mastery, answers))
                  ELSE /\ ~Below(Cell(mastery, answers), Cell(mastery', answers'))
                       /\ ~Below(Domain(mastery, answers), Domain(mastery', answers'))
      ]_practiceVars

\* Whatever the filter of the request, a recommended assignment holds exercises of
\* topics whose prerequisites were all mastered when it was created.
AssignedTopicsAreReady ==
    [][\A r \in assigned' \ assigned : r.reason = "PRACTICE_RECOMMENDER" =>
         \A topic \in r.topics : \A t \in Prerequisites[topic] :
           mastery[t] # NoRecord /\ ~Below(mastery[t], <<3, 5>>)]_practiceVars
==============================================================================
