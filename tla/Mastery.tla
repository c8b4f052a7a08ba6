------------------------------- MODULE Mastery -------------------------------
(***************************************************************************)
(* Knowledge tracing and what is read from it: modules/mastery, the bands  *)
(* of modules/parent.                                                      *)
(*                                                                         *)
(* Probabilities are exact fractions, but for the one rounding of the      *)
(* code's doubles that lasts: to 1.  A mastery table maps a topic to       *)
(* pKnown, or to NoRecord while the student has no row for it.  An answer  *)
(* on record is [exercise, topic, sub, inCourse, correct, tagSub, day]:    *)
(* sub is the subdomain of the exercise's topic, tagSub that of the error  *)
(* tag, both possibly NoSub.                                               *)
(***************************************************************************)
EXTENDS RuleEngine, Functions

CONSTANTS NoRecord, NoSub,
          NearOne   \* from here on a probability is rounded to 1 (in doubles 1 - 2^-54)

Plus(x, y) ==
    LET g == Gcd[<<x[2], y[2]>>]
    IN  Over(x[1] * (y[2] \div g) + y[1] * (x[2] \div g), (x[2] \div g) * y[2])
Times(x, y) == Over(x[1] * y[1], x[2] * y[2])
Not(x) == Over(x[2] - x[1], x[2])
Quotient(x, y) == \* of non-negative fractions
    LET g == Gcd[<<x[2], y[2]>>]
    IN  Over(x[1] * (y[2] \div g), (x[2] \div g) * y[1])

Fractions == Nat \X (Nat \ {0})

\* a/b < c/d: by their integer parts, then by the inverses of what is left (the
\* cross products may not fit in 32 bits).
Less[p \in Fractions \X Fractions] ==
    LET a == p[1][1]  b == p[1][2]  c == p[2][1]  d == p[2][2]
    IN  IF a \div b # c \div d THEN a \div b < c \div d
        ELSE c % d # 0 /\ (a % b # 0 => Less[<< <<d, c % d>>, <<b, a % b>> >>])

Below(x, y) == Less[<<x, y>>]

ASSUME NearOneAssumption ==
    NearOne \in Fractions /\ Below(Whole(0), NearOne) /\ Below(NearOne, Whole(1))

\* What a column of doubles keeps of a probability.
Stored(p) == IF Below(p, NearOne) THEN p ELSE Whole(1)

------------------------------------------------------------------------------
(* Bayesian knowledge tracing. *)

\* The parameters of a topic that sets none: bktPL0, bktPTransit, bktPSlip, bktPGuess.
DefaultParameters == [pL0 |-> <<3, 10>>, pT |-> <<1, 10>>, pS |-> <<1, 10>>, pG |-> <<1, 5>>]

\* Broken variant: a right answer is taken for a slip.
LikelihoodOfSlip(param, correct) ==
    [known |-> param.pS, unknown |-> IF correct THEN param.pG ELSE Not(param.pG)]

Likelihood(param, correct) ==
    IF correct THEN [known |-> Not(param.pS), unknown |-> param.pG]
               ELSE [known |-> param.pS, unknown |-> Not(param.pG)]

\* The denominator of the posterior.
Evidence(param, prior, correct) ==
    LET l == Likelihood(param, correct)
    IN  Plus(Times(l.known, prior), Times(l.unknown, Not(prior)))

PosteriorGivenObs(param, prior, correct) ==
    Quotient(Times(Likelihood(param, correct).known, prior), Evidence(param, prior, correct))

\* Broken variant: the chance to learn is weighed with what is known already.
LearnedFromKnown(param, prior, correct) ==
    LET posterior == PosteriorGivenObs(param, prior, correct)
    IN  Stored(Plus(posterior, Times(posterior, param.pT)))

\* pKnown after an answer, when there is a posterior (it is within 0..1 before the
\* code clamps it).
PKnownAfter(param, prior, correct) ==
    LET posterior == PosteriorGivenObs(param, prior, correct)
    IN  Stored(Plus(posterior, Times(Not(posterior), param.pT)))

Prior(mastery, param, topic) ==
    IF mastery[topic] = NoRecord THEN param[topic].pL0 ELSE mastery[topic]

\* Without evidence the posterior is 0/0, a NaN that passes the clamp; the query with
\* it fails, as JSON has no such number, and the row stays.
ApplyAttempt(mastery, param, topic, correct) ==
    LET prior == Prior(mastery, param, topic)
    IN  IF Evidence(param[topic], prior, correct)[1] = 0 THEN mastery
        ELSE [mastery EXCEPT ![topic] = PKnownAfter(param[topic], prior, correct)]

------------------------------------------------------------------------------
(* What teachers and parents read. *)

Mean(f, S) ==
    LET sum == FoldFunctionOnSet(Plus, Whole(0), f, S)
    IN  Over(sum[1], sum[2] * Cardinality(S))

\* The subdomain an answer counts for: its tag's, else its exercise's topic's.
SubdomainOfAttempt(a) == IF a.tagSub # NoSub THEN a.tagSub ELSE a.sub

\* Subdomains with signal: an answer of this course or a mastery row.
LiveSubs(mastery, subOf, answers) ==
    ({SubdomainOfAttempt(a) : a \in {b \in answers : b.inCourse}}
       \cup {subOf[t] : t \in {u \in DOMAIN mastery : mastery[u] # NoRecord}}) \ {NoSub}

\* Mean of the mastery rows when there are any, else the accuracy, else 0.3.
SubdomainPKnown(mastery, subOf, answers, sub) ==
    LET rows == {t \in DOMAIN mastery : subOf[t] = sub /\ mastery[t] # NoRecord}
        seen == {a \in answers : a.inCourse /\ SubdomainOfAttempt(a) = sub}
        right == {a \in seen : a.correct}
    IN  IF rows # {} THEN Mean(mastery, rows)
        ELSE IF seen # {} THEN Over(Cardinality(right), Cardinality(seen))
        ELSE <<3, 10>>

\* A row of the course panel, and the same student's row of the heatmap: a cell
\* per live subdomain, and per domain (domainOf) the mean of its live cells.
CourseMastery(mastery, subOf, answers) ==
    [sub \in LiveSubs(mastery, subOf, answers) |-> SubdomainPKnown(mastery, subOf, answers, sub)]

CourseHeatmap(mastery, subOf, domainOf, answers) ==
    LET cells == CourseMastery(mastery, subOf, answers)
        live(d) == {s \in DOMAIN cells : domainOf[s] = d}
    IN  [d \in {domainOf[s] : s \in DOMAIN cells} |->
           Mean(cells, live(d))]

\* What a parent sees of a unit.
ToBand(p) == IF ~Below(p, <<7, 10>>) THEN 3 ELSE IF ~Below(p, <<2, 5>>) THEN 2 ELSE 1

UnitBand(mastery, param, topics) ==
    ToBand(Mean([t \in topics |-> Prior(mastery, param, t)], topics))
==============================================================================
