--------------------------- MODULE Misconceptions ---------------------------
(***************************************************************************)
(* The reference the rule engine is checked against: how exercises are     *)
(* worked, rightly and with the misconceptions the error tags name.  The   *)
(* subtractions, additions and sums of fractions follow the taxonomy       *)
(* (docs/error-taxonomy.md, items 1 to 18) and the descriptions of the     *)
(* tags (prisma/seed.ts), not the guards of the rules.  The procedures     *)
(* work on columns of digits, signs or parts of fractions as a pupil does, *)
(* and know neither the order of the rules nor what the payload carries.   *)
(***************************************************************************)
EXTENDS RuleEngine

LOCAL INSTANCE TLC

Value(column) == MapThenSumSet(LAMBDA k : column[k] * 10^k, Columns)

\* The stored answer of an exercise.  Of a sum of fractions it is the value; of one
\* mixed number, or of a fraction alone as in the unit tests, the numerator.
RightAnswer(sub, form, o) ==
    CASE sub = "ARITH_SUB" \/ sub = "INT_SUB" -> Whole(o[1] - o[2])
      [] sub = "ARITH_ADD" \/ sub = "INT_ADD" -> Whole(o[1] + o[2])
      [] sub = "ARITH_MUL" \/ sub = "INT_MUL" -> Whole(o[1] * o[2])
      [] sub = "ARITH_DIV" -> Whole(o[1] \div o[2])
      [] sub = "FRACT_ADDSUB" /\ form = "plus" -> Over(o[1] * o[4] + o[3] * o[2], o[2] * o[4])
      [] sub = "FRACT_ADDSUB" /\ form = "minus" -> Over(o[1] * o[4] - o[3] * o[2], o[2] * o[4])
      [] sub = "FRACT_ADDSUB" /\ form = "mixed" -> Whole(o[1] * o[3] + o[2])
      [] sub = "FRACT_ADDSUB" /\ form = "mixed_plus" ->
           Over((o[1] * o[3] + o[2]) * o[5] + o[4] * o[3], o[3] * o[5])
      [] sub = "FRACT_ADDSUB" /\ form = "numerator" -> Whole(o[1])
      [] sub = "FRACT_MUL" -> Over(o[1] * o[3], o[2] * o[4])
      [] sub = "FRACT_DIV" -> Over(o[1] * o[4], o[2] * o[3])
      [] sub = "DEC_ADD" -> Over(o[1] * 10^o[4] + o[3] * 10^o[2], 10^(o[2] + o[4]))
      [] sub = "DEC_SUB" -> Over(o[1] * 10^o[4] - o[3] * 10^o[2], 10^(o[2] + o[4]))
      [] sub = "DEC_MUL" -> Over(o[1] * o[3], 10^(o[2] + o[4]))
      [] sub = "DEC_DIV" -> Over(o[1] * 10^o[4], o[3] * 10^o[2])
      [] sub = "RATIO_PERCENT" -> Over(o[1] * o[2], 100)
      [] sub = "RATIO_PROPORTION" -> Over(o[2] * o[3], o[1])
      [] sub = "ALGEBRA_EQ_LINEAR" -> Over(o[3] - o[2], o[1])
      [] sub = "POW_POWER" /\ form = "product" -> Whole(o[1]^(o[2] + o[3]))
      [] sub = "POW_POWER" /\ form = "power" -> Whole(o[1]^(o[2] * o[3]))
      [] sub = "POW_POWER" /\ form = "quotient" -> Whole(o[1]^(o[2] - o[3]))
      [] sub = "POW_POWER" /\ form = "zero" -> Whole(1)
      [] sub = "POW_ROOT" -> Whole(CHOOSE r \in 0..50 :
                               r * r = o[1] + (IF form = "sum" THEN o[2] ELSE 0))

\* As the client sends it: the expression as a step, the operands of an operation
\* on whole numbers in the fields as well.
Exercise(sub, form, ops) ==
    [sub |-> sub, form |-> form, ops |-> ops, steps |-> TRUE,
     fields |-> sub \in {"ARITH_SUB", "ARITH_ADD", "ARITH_MUL", "ARITH_DIV", "INT_ADD", "INT_SUB",
                        "INT_MUL"},
     expected |-> RightAnswer(sub, form, ops)]

\* The same exercise answered without raw steps; without the fields; without either.
WithoutSteps(p) == [p EXCEPT !.steps = FALSE]
WithoutFields(p) == [p EXCEPT !.fields = FALSE]
BareExercise(p) == WithoutSteps(WithoutFields(p))

------------------------------------------------------------------------------
(* Misconceptions: what a pupil who has one answers, and its tags. *)

Bug(answer, tag) == [answer |-> answer, tag |-> tag]

\* The columns where a - b borrows from the next one.
BorrowingColumns(a, b) == {k \in Columns : Digit(b, k) > Digit(a, k)}

\* In the columns ks the smaller digit is taken from the larger one, without a borrow.
SmallerFromLargerIn(a, b, ks) ==
    a - b + MapThenSumSet(LAMBDA k : 2 * (Digit(b, k) - Digit(a, k)) * 10^k, ks)

\* Items 1 and 2: the borrow of the units is one from the tens; the others are
\* "the same in the hundreds".
OmittedBorrowTags(ks) ==
    {IF k = 0 THEN "SUB_BORROW_OMITTED_TENS" ELSE "SUB_BORROW_OMITTED_HUNDREDS" : k \in ks}

\* (With a smaller than b there is no borrow to do right in another column.)
OmittedBorrows(a, b) ==
    LET all == BorrowingColumns(a, b)
        omitted == IF b > a THEN {all} ELSE SUBSET all \ {{}}
    IN  UNION {{Bug(Whole(SmallerFromLargerIn(a, b, ks)), tag) : tag \in OmittedBorrowTags(ks)} :
                 ks \in omitted}

\* Item 4: the units borrow from a zero, which becomes 9, or lends as if it were not
\* one, and is not paid for on its left.  Item 5: in a chain of zeros the same happens
\* half way.
BorrowsFromZero(a, b) ==
    LET chain == {k \in 1..3 : 10^k < a /\ \A j \in 1..k : Digit(a, j) = 0}
    IN  IF 0 \notin BorrowingColumns(a, b) THEN {}
        ELSE {Bug(Whole(a - b + 10^k), "SUB_BORROW_FROM_ZERO") :
                k \in chain \cup {j + 1 : j \in chain}}
             \cup {Bug(Whole(a - b + 10^(k + 1)), "SUB_BORROW_PROPAGATION_STOP") :
                      k \in IF Cardinality(chain) > 1 THEN chain ELSE {}}

\* Item 3 is the difference the other way round; its description in the seed, every
\* column that way round.
SubtractionBugs(a, b) ==
    {Bug(Whole(b - a), "SUB_SWAPPED"),
     Bug(Whole(SmallerFromLargerIn(a, b, BorrowingColumns(a, b))), "SUB_SWAPPED")}
    \cup OmittedBorrows(a, b)
    \cup (IF b > a THEN {} ELSE BorrowsFromZero(a, b))

CarryingColumns(a, b) == {k \in Columns : Digit(a, k) + Digit(b, k) >= 10}
WithoutCarries(a, b) == Value([k \in Columns |-> (Digit(a, k) + Digit(b, k)) % 10])

\* Item 9: the carry of one column, or every carry, is forgotten.  Item 10: the carry
\* of a column is added to another than the next.
AdditionBugs(a, b) ==
    LET carrying == CarryingColumns(a, b)
    IN  IF carrying = {} THEN {}
        ELSE {Bug(Whole(n), "ADD_CARRY_OMITTED") :
                n \in {WithoutCarries(a, b)} \cup {a + b - 10^(k + 1) : k \in carrying}}
             \cup UNION {{Bug(Whole(a + b - 10^(k + 1) + 10^j), "ADD_CARRY_WRONG_COLUMN") :
                            j \in (0..3) \ {k + 1}} : k \in carrying}

\* The last two digits of the right answer are written in the other order.
LastTwoSwapped(n) == (n \div 100) * 100 + Units(n) * 10 + Tens(n)

PartialProductsUnshifted(a, b) ==
    MapThenSumSet(LAMBDA k : a * Digit(b, k), Columns)

MatchingColumnsOnly(a, b) ==
    MapThenSumSet(LAMBDA k : Digit(a, k) * Digit(b, k) * 100^k, 0..1)

ArithmeticBugs(p) ==
    LET e == p.expected[1]
        a == p.ops[1]
        b == p.ops[2]
        Answers(n, tag) == {Bug(Whole(n), tag)}
    IN  (IF e > 9 /\ Length(e) = Length(LastTwoSwapped(e))
           THEN Answers(LastTwoSwapped(e), "DIGIT_TRANSPOSITION") ELSE {})
        \cup (IF e = 0 THEN {} ELSE Answers(e * 10, "PLACE_VALUE"))
        \cup (IF e % 10 = 0 /\ e # 0 THEN Answers(e \div 10, "PLACE_VALUE") ELSE {})
        \cup (CASE p.sub = "ARITH_SUB" -> SubtractionBugs(a, b)
                [] p.sub = "ARITH_ADD" -> AdditionBugs(a, b)
                [] p.sub = "ARITH_MUL" ->
                     (IF e = 0 /\ a + b # 0 THEN Answers(a + b, "MUL_ZERO_TIMES_N") ELSE {})
                     \cup Answers(a + b, "MUL_ADD_INSTEAD")
                     \cup (IF IsPowerOfTen(b) THEN Answers(a, "MUL_POWER_OF_TEN_NO_ZEROS") ELSE {})
                     \cup (IF IsPowerOfTen(a) THEN Answers(b, "MUL_POWER_OF_TEN_NO_ZEROS") ELSE {})
                     \cup (IF a \in 1..9 /\ b \in 1..9
                             THEN {Bug(Whole(n), "MUL_TABLE_RECALL") :
                                     n \in {(a - 1) * b, (a + 1) * b, a * (b - 1), a * (b + 1)}}
                             ELSE {})
                     \cup (IF Length(b) = 2
                             THEN Answers(PartialProductsUnshifted(a, b), "MUL_PARTIAL_NOT_SHIFTED")
                             ELSE {})
                     \cup (IF Length(a) = 2 /\ Length(b) = 2
                             THEN Answers(MatchingColumnsOnly(a, b), "MUL_ONLY_CORRESPONDING")
                             ELSE {})
                [] p.sub = "ARITH_DIV" ->
                     Answers(b \div a, "DIV_SWAPPED")
                     \cup (IF ZeroCount(e) > 0 /\ e > 9
                             THEN Answers(WithoutZeros(e), "DIV_ZERO_SKIPPED") ELSE {})
                     \cup Answers(e + 1, "DIV_QUOTIENT_TOO_LARGE")
                     \cup Answers(e - 1, "DIV_REMAINDER_GE_DIVISOR"))

IntegerBugs(p) ==
    LET a == p.ops[1]
        b == p.ops[2]
        m == Magnitude(a)
        n == Magnitude(b)
    IN  CASE p.sub = "INT_ADD" /\ a # 0 /\ Sign(a) = Sign(b) ->
               {Bug(Whole(Sign(a) * Magnitude(m - n)), "INT_SAME_SIGN_SUBTRACTS")}
          [] p.sub = "INT_ADD" /\ (a < 0) # (b < 0) ->
               {Bug(Whole(s * (m + n)), "INT_ADDS_MAGNITUDES") : s \in {-1, 1}}
               \cup {Bug(Whole(-(a + b)), "INT_KEEPS_WRONG_SIGN")}
          [] p.sub = "INT_SUB" ->
               {IF b < 0 THEN Bug(Whole(a - n), "INT_DOUBLE_NEGATIVE_NOT_APPLIED")
                         ELSE Bug(Whole(a + b), "INT_SUB_AS_ADD")}
          [] p.sub = "INT_MUL" /\ a < 0 /\ b < 0 -> {Bug(Whole(-(m * n)), "INT_NEG_TIMES_NEG_IS_NEG")}
          [] p.sub = "INT_MUL" /\ (a < 0) # (b < 0) -> {Bug(Whole(m * n), "INT_NEG_TIMES_POS_IS_POS")}
          [] OTHER -> {}

FractionBugs(p) ==
    LET a == p.ops[1]
        b == p.ops[2]
        c == p.ops[3]
        d == p.ops[4]
    IN  CASE p.sub = "FRACT_MUL" -> {Bug(Over(a * d, b * c), "FRACT_MUL_CROSS")}
          [] p.sub = "FRACT_DIV" -> {Bug(Over(a * c, b * d), "FRACT_DIV_NO_RECIPROCAL"),
                                     Bug(Over(b * c, a * d), "FRACT_DIV_INVERTS_FIRST")}
          [] p.sub = "DEC_ADD" -> {Bug(Over(a + c, 10^Max({b, d})), "DEC_ADD_RIGHT_ALIGNED")}
          [] p.sub = "DEC_SUB" -> {Bug(Over(a - c, 10^Max({b, d})), "DEC_SUB_MISALIGNED")}
          [] p.sub = "DEC_MUL" ->
               {Bug(Over(a * c, 1), IF a \in {1, 10, 100} \/ c \in {1, 10, 100}
                                      THEN "DEC_MUL_WRONG_DIRECTION" ELSE "DEC_MUL_POINT_PLACEMENT")}
          [] p.sub = "DEC_DIV" -> {Bug(Over(a, c * 10^b), "DEC_DIV_NOT_SHIFTED"),
                                   Bug(Over(a, c), "DEC_DIV_POINT_IGNORED")}

RuleBugs(p) ==
    LET a == p.ops[1]
        b == p.ops[2]
        c == p.ops[3]
    IN  CASE p.sub = "RATIO_PERCENT" -> {Bug(Over(b, a), "RATIO_DIVIDE_BY_PERCENT"),
                                         Bug(Whole(a * b), "RATIO_DECIMAL_SHIFT")}
          [] p.sub = "RATIO_PROPORTION" -> {Bug(Whole(c + b - a), "RATIO_ADDITIVE"),
                                            Bug(Over(a * c, b), "RATIO_CROSS_PRODUCT")}
          [] p.sub = "ALGEBRA_EQ_LINEAR" -> {Bug(Over(c + b, a), "ALGEBRA_SIGN_FLIP"),
                                             Bug(Over(c - a * b, a), "ALGEBRA_DIVIDES_ONE_TERM")}
          [] p.form = "zero" -> {Bug(Whole(0), "POW_ZERO_EXPONENT_IS_ZERO")}
          [] p.form = "product" -> {Bug(Whole(a^(b * c)), "POW_PRODUCT_MULTIPLIES")}
          [] p.form = "power" -> {Bug(Whole(a^(b + c)), "POW_OF_POWER_ADDS")}
          [] p.form = "quotient" -> {Bug(Whole(a^(b \div c)), "POW_QUOTIENT_DIVIDES")}
          [] p.form = "single" -> {Bug(Over(a, 2), "POW_ROOT_HALVES")}
          [] p.form = "sum" -> {Bug(Whole((CHOOSE r \in 0..50 : r * r = a)
                                          + (CHOOSE r \in 0..50 : r * r = b)),
                                    "POW_ROOT_OF_SUM_DISTRIBUTES")}

\* Items 14 to 17, on fractions of the same denominator.  (Item 15, a result not
\* reduced, has the right value: only its numerator tells it.)
FractionSumBugs(p) ==
    LET o == p.ops
        e == p.expected
        Inverted == IF e[1] = 0 THEN {} ELSE {Bug(Over(e[2], e[1]), "FRACT_INVERTED")}
    IN  CASE p.form = "plus" -> {Bug(Over(o[1] + o[3], o[2] + o[4]), "FRACT_SUM_NUM_AND_DEN")} \cup Inverted
          [] p.form = "minus" -> Inverted
          [] p.form = "mixed" -> {Bug(Whole(o[2]), "FRACT_WHOLE_NUMBER_LOST")}
          [] p.form = "mixed_plus" ->
               {Bug(Over(o[2] * o[5] + o[4] * o[3], o[3] * o[5]), "FRACT_WHOLE_NUMBER_LOST")} \cup Inverted
          [] p.form = "numerator" ->
               {Bug(Whole(o[2]), "FRACT_INVERTED")}
               \cup {Bug(Whole(k * o[1]), "FRACT_NOT_REDUCED") : k \in 2..4}

Bugs(p) ==
    CASE p.sub \in {"ARITH_SUB", "ARITH_ADD", "ARITH_MUL", "ARITH_DIV"} -> ArithmeticBugs(p)
      [] p.sub = "FRACT_ADDSUB" -> FractionSumBugs(p)
      [] ~Parsed(p) -> {}
      [] p.sub \in {"INT_ADD", "INT_SUB", "INT_MUL"} -> IntegerBugs(p)
      [] p.sub \in {"FRACT_MUL", "FRACT_DIV", "DEC_ADD", "DEC_SUB", "DEC_MUL", "DEC_DIV"} ->
           FractionBugs(p)
      [] p.sub \in {"RATIO_PERCENT", "RATIO_PROPORTION", "ALGEBRA_EQ_LINEAR", "POW_POWER",
                    "POW_ROOT"} -> RuleBugs(p)
      [] OTHER -> {}

------------------------------------------------------------------------------
(* What a classification says. *)

\* The tags of the misconceptions that lead to answer x.
Explaining(p, x) == {bug.tag : bug \in {b \in Bugs(p) : Same(b.answer, x)}}

\* The tags of the rules that match answer x, in whatever order.
MatchingTags(p, x) ==
    LET rules == IF p.sub \in Registered THEN GetStrategy(p, x) ELSE <<>>
    IN  {rules[i][2] : i \in Matches(rules)}

\* Tags whose rule looks at the exercise and hardly at the answer, or asks only that
\* the answer be near some number: they presume a procedure that they do not check.
FeatureTags == {"SUB_BORROW_FROM_ZERO", "SUB_BORROW_PROPAGATION_STOP"}
PresumedTags == FeatureTags \cup {"ADD_CARRY_WRONG_COLUMN", "FRACT_SUM_NUM_AND_DEN",
                                  "FRACT_NOT_REDUCED", "FRACT_WHOLE_NUMBER_LOST"}

DigitsOf(n) == [k \in 1..Length(n) |-> Digit(n, k - 1)]

\* x is written with the digits of e in another order.
Rearranges(x, e) ==
    /\ Length(x) = Length(e) /\ x # e
    /\ \E order \in Permutations(1..Length(e)) :
          \A k \in 1..Length(e) : DigitsOf(x)[k] = DigitsOf(e)[order[k]]

\* Answer x is what its tag says: for the tags that name no procedure, a relation to
\* the right answer; for the others, what the procedure leads to.
Deserved(tag, p, x) ==
    CASE tag = "UNCLASSIFIED" -> TRUE
      [] tag = "CORRECT" -> Same(x, p.expected)
      [] tag = "FACT_ERROR" -> Within(x, p.expected, 2)
      [] tag = "DIGIT_TRANSPOSITION" -> Rearranges(Magnitude(x[1]), Magnitude(p.expected[1]))
      [] tag = "PLACE_VALUE" -> \/ x[1] = p.expected[1] * 10
                               \/ x[1] = p.expected[1] \div 10
      [] tag \in {"DEC_MUL_WRONG_DIRECTION", "DEC_MUL_POINT_PLACEMENT", "DEC_DIV_POINT_IGNORED",
                  "DEC_DIV_NOT_SHIFTED", "RATIO_DECIMAL_SHIFT"} ->
           \E i, j \in 0..4 : i # j /\ 0 \in {i, j} /\ x[1] * p.expected[2] * 10^i = p.expected[1] * x[2] * 10^j
      [] OTHER -> tag \in Explaining(p, x)

\* Digits are compared without the sign: the opposite of the right answer passes for
\* one with its digits in another order.
Presumed(tag, p, x) ==
    \/ tag \in PresumedTags
    \/ tag = "DIGIT_TRANSPOSITION" /\ Same(x, Whole(-p.expected[1]))
==============================================================================
