------------------------------ MODULE RuleEngine ------------------------------
(***************************************************************************)
(* The deterministic classifier of an answer: attempts/rule-engine.        *)
(*                                                                         *)
(* A strategy per subdomain (factory.ts) tries its rules in order and the  *)
(* first that matches names the error tag; an answer no rule matches is    *)
(* UNCLASSIFIED.  The rules of a strategy are therefore a sequence of      *)
(* pairs <<condition, tag>>, in the order of the code.                     *)
(*                                                                         *)
(* An exercise is [sub, form, ops, steps, fields, expected]: the           *)
(* subdomain, the shape of its expression, the operands in it, whether the *)
(* payload carries the expression as its first raw step and whether it has *)
(* the operands in its minuend and subtrahend, and the stored answer.      *)
(* Numbers are exact fractions <<n, d>> with d > 0: the strategies compare *)
(* with a tolerance of 1e-9 (approx), or as doubles, which the arithmetic  *)
(* here is exact for: ARITH and INT work on whole numbers, and FRACT_ADDSUB *)
(* divides and subtracts without a tolerance, so that its instances are    *)
(* numbers whose quotients and differences come out the same in doubles.   *)
(***************************************************************************)
EXTENDS Integers, Sequences, FiniteSets, FiniteSetsExt, SequencesExt

------------------------------------------------------------------------------
(* Exact fractions. *)

Whole(n) == <<n, 1>>
Same(x, y) == x[1] * y[2] = y[1] * x[2]
Magnitude(n) == IF n < 0 THEN -n ELSE n
Gcd[p \in Nat \X Nat] == IF p[2] = 0 THEN p[1] ELSE Gcd[<<p[2], p[1] % p[2]>>]

\* n / d in lowest terms.
Over(n, d) ==
    LET g == Gcd[<<Magnitude(n), Magnitude(d)>>]
    IN  IF d < 0 THEN <<-(n \div g), -(d \div g)>> ELSE <<n \div g, d \div g>>

Sign(n) == IF n < 0 THEN -1 ELSE IF n = 0 THEN 0 ELSE 1

\* |x - e| <= k
Within(x, e, k) == Magnitude(x[1] * e[2] - e[1] * x[2]) <= k * x[2] * e[2]

\* x / e = 10^k for some k in -4..4 other than 0.
PowerOfTenApart(x, e) ==
    /\ e[1] # 0 /\ x[1] # 0
    /\ \E k \in 1..4 : \/ Same(x, <<e[1] * 10^k, e[2]>>)
                       \/ Same(e, <<x[1] * 10^k, x[2]>>)

------------------------------------------------------------------------------
(* Whole numbers, digit by digit. *)

Columns == 0..4
Digit(n, k) == (n \div 10^k) % 10
Units(n) == Digit(n, 0)
Tens(n) == Digit(n, 1)
Hundreds(n) == Digit(n, 2)
Length(n) == IF n = 0 THEN 1 ELSE Cardinality({k \in 0..8 : 10^k <= n})
CountDigit(n, d) == Cardinality({k \in 0..(Length(n) - 1) : Digit(n, k) = d})
ZeroCount(n) == CountDigit(n, 0)

\* Broken variant: the digits are compared as sets, without their number.
SameDigits(a, b) ==
    \A d \in 0..9 : (CountDigit(Magnitude(a), d) > 0) = (CountDigit(Magnitude(b), d) > 0)

IsTranspositionOf(a, b) ==
    \A d \in 0..9 : CountDigit(Magnitude(a), d) = CountDigit(Magnitude(b), d)

ComputeNoBorrow(m, s) ==
    MapThenSumSet(LAMBDA k : Magnitude(Digit(m, k) - Digit(s, k)) * 10^k, Columns)

ComputeNoCarry(a, b) ==
    MapThenSumSet(LAMBDA k : ((Digit(a, k) + Digit(b, k)) % 10) * 10^k, Columns)

\* The digits of n without its zeros.
WithoutZeros(n) ==
    MapThenSumSet(
        LAMBDA k : Digit(n, k) * 10^Cardinality({j \in 0..(k - 1) : Digit(n, j) # 0}),
        Columns)

IsPowerOfTen(n) == n \in {10, 100, 1000, 10000}

------------------------------------------------------------------------------
(* Where a strategy finds the operands of an exercise. *)

\* minuend and subtrahend, which are 0 when they are not there.
Fields(p) == IF p.fields THEN p.ops ELSE <<0, 0>>

\* The expression of the first step, else the fields: parseFactors, parseDivision,
\* parseTwoInts.
ParseOperands(p) == p.steps \/ p.fields

\* Only the expression, and none of these: a fraction over zero, an equation that
\* has no unknown.
ParseTwoFractions(p) == p.steps /\ p.ops[2] # 0 /\ p.ops[4] # 0
ParseLinear(p) == p.steps /\ p.ops[1] # 0
ParseStep(p) == p.steps

------------------------------------------------------------------------------
(* The four operations on whole numbers. *)

SubtractionRules(p, x) ==
    LET e == p.expected[1]
        s == x[1]
        m == Fields(p)[1]
        b == Fields(p)[2]
        noBorrow == ComputeNoBorrow(m, b)
    IN  << <<b > m /\ s = b - m, "SUB_SWAPPED">>,
           <<s = noBorrow /\ Units(b) > Units(m) /\ Tens(m) > 0, "SUB_BORROW_OMITTED_TENS">>,
           <<Hundreds(b) > Hundreds(m) /\ Tens(m) = 0 /\ s = noBorrow,
             "SUB_BORROW_OMITTED_HUNDREDS">>,
           <<Tens(m) = 0 /\ Hundreds(m) > 0 /\ Units(b) > Units(m), "SUB_BORROW_FROM_ZERO">>,
           <<ZeroCount(m) >= 2 /\ p.steps, "SUB_BORROW_PROPAGATION_STOP">>,
           <<IsTranspositionOf(s, e), "DIGIT_TRANSPOSITION">>,
           <<s = e * 10 \/ s * 10 = e \/ s = e \div 10, "PLACE_VALUE">>,
           <<Magnitude(s - e) <= 2, "FACT_ERROR">> >>

AdditionRules(p, x) ==
    LET e == p.expected[1]
        s == x[1]
        a == Fields(p)[1]
        b == Fields(p)[2]
        noCarry == ComputeNoCarry(a, b)
        carries == Units(a) + Units(b) >= 10
    IN  << <<s = noCarry /\ carries, "ADD_CARRY_OMITTED">>,
           <<Magnitude(s - noCarry) \in {10, 100} /\ carries, "ADD_CARRY_WRONG_COLUMN">>,
           <<IsTranspositionOf(s, e), "DIGIT_TRANSPOSITION">>,
           <<Magnitude(s - e) <= 2, "FACT_ERROR">> >>

\* The rules on the answer alone that end ARITH_MUL and ARITH_DIV.
AnswerOnlyRules(e, s) ==
    << <<IsTranspositionOf(s, e), "DIGIT_TRANSPOSITION">>,
       <<e # 0 /\ (s = e * 10 \/ s * 10 = e), "PLACE_VALUE">> >>

MultiplicationRules(p, x) ==
    LET e == p.expected[1]
        s == x[1]
        a == p.ops[1]
        b == p.ops[2]
        nonTen == IF IsPowerOfTen(a) THEN b ELSE a
        operandRules ==
           << <<(a = 0 \/ b = 0) /\ s = (IF a = 0 THEN b ELSE a) /\ s # 0, "MUL_ZERO_TIMES_N">>,
              <<s = a + b /\ a + b # a * b, "MUL_ADD_INSTEAD">>,
              <<(IsPowerOfTen(a) \/ IsPowerOfTen(b)) /\ s = nonTen, "MUL_POWER_OF_TEN_NO_ZEROS">>,
              <<a \in 1..9 /\ b \in 1..9 /\ Magnitude(s - e) \in {a, b}, "MUL_TABLE_RECALL">>,
              <<b >= 10 /\ s = a * Units(b) + a * Tens(b), "MUL_PARTIAL_NOT_SHIFTED">>,
              <<a >= 10 /\ b >= 10 /\ s = Tens(a) * Tens(b) * 100 + Units(a) * Units(b),
                "MUL_ONLY_CORRESPONDING">> >>
    IN  (IF ParseOperands(p) THEN operandRules ELSE <<>>)
        \o AnswerOnlyRules(e, s)
        \o << <<Magnitude(s - e) <= 2, "FACT_ERROR">> >>

DivisionRules(p, x) ==
    LET e == p.expected[1]
        s == x[1]
        dividend == p.ops[1]
        divisor == p.ops[2]
        operandRules ==
           << <<dividend > 0 /\ divisor > 0 /\ s = divisor \div dividend, "DIV_SWAPPED">>,
              <<e >= 10 /\ ZeroCount(e) > 0 /\ s = WithoutZeros(e), "DIV_ZERO_SKIPPED">>,
              <<s = e + 1, "DIV_QUOTIENT_TOO_LARGE">>,
              <<s = e - 1, "DIV_REMAINDER_GE_DIVISOR">> >>
    IN  (IF ParseOperands(p) THEN operandRules ELSE <<>>) \o AnswerOnlyRules(e, s)

------------------------------------------------------------------------------
(* Integers. *)

IntAdditionRules(p, x) ==
    LET e == p.expected[1]
        s == x[1]
        a == p.ops[1]
        b == p.ops[2]
        sameSign == a # 0 /\ b # 0 /\ (a < 0) = (b < 0)
        diffSign == (a < 0) # (b < 0)
    IN  << <<sameSign /\ s = Sign(a) * Magnitude(Magnitude(a) - Magnitude(b)),
             "INT_SAME_SIGN_SUBTRACTS">>,
           <<diffSign /\ Magnitude(s) = Magnitude(a) + Magnitude(b) /\ Magnitude(s) # Magnitude(e),
             "INT_ADDS_MAGNITUDES">>,
           <<diffSign /\ s = -e /\ e # 0, "INT_KEEPS_WRONG_SIGN">> >>

IntSubtractionRules(p, x) ==
    LET s == x[1]
        a == p.ops[1]
        b == p.ops[2]
    IN  << <<b < 0 /\ s = a - Magnitude(b), "INT_DOUBLE_NEGATIVE_NOT_APPLIED">>,
           <<b > 0 /\ s = a + b, "INT_SUB_AS_ADD">> >>

IntMultiplicationRules(p, x) ==
    LET e == p.expected[1]
        s == x[1]
        a == p.ops[1]
        b == p.ops[2]
        product == Magnitude(a * b)
    IN  << <<a < 0 /\ b < 0 /\ s = -product /\ e > 0, "INT_NEG_TIMES_NEG_IS_NEG">>,
           <<(a < 0) # (b < 0) /\ s = product /\ e < 0, "INT_NEG_TIMES_POS_IS_POS">> >>

------------------------------------------------------------------------------
(* Fractions.  The rule for an inverted fraction is absent: it parses       *)
(* String(expectedAnswer) as "n/d", which no number prints as.              *)

\* The pair "n1/d1 + n2/d2" or "n1/d1 - n2/d2" that the expression holds somewhere:
\* a whole number before the first fraction is not seen.
HoldsPair(p) == p.steps /\ p.form \in {"plus", "minus", "mixed_plus"}
FractionPair(p) == IF p.form = "mixed_plus" THEN Tail(p.ops) ELSE p.ops

\* x is an integer multiple of e, by 2 or more.
IsMultiple(x, e) ==
    LET n == x[1] * e[2]
        d == e[1] * x[2]
    IN  /\ d # 0 /\ Sign(n) = Sign(d)
        /\ Magnitude(n) > Magnitude(d) /\ Magnitude(n) % Magnitude(d) = 0

\* An expression is parsed as a mixed number only when it is nothing else.
FractionAddSubRules(p, x) ==
    LET pair == FractionPair(p)
    IN  << <<HoldsPair(p) /\ pair[2] = pair[4] /\ Same(x, Whole(pair[1] + pair[3])),
             "FRACT_SUM_NUM_AND_DEN">>,
           <<IsMultiple(x, p.expected), "FRACT_NOT_REDUCED">>,
           <<p.steps /\ p.form = "mixed" /\ Within(x, Whole(p.ops[1] * p.ops[3] + p.ops[2]), 1),
             "FRACT_WHOLE_NUMBER_LOST">>,
           <<Within(x, p.expected, 1), "FACT_ERROR">> >>

FractionMultiplicationRules(p, x) ==
    LET a == p.ops[1]  b == p.ops[2]  c == p.ops[3]  d == p.ops[4]
    IN  << <<b * c # 0 /\ Same(x, Over(a * d, b * c)), "FRACT_MUL_CROSS">> >>

FractionDivisionRules(p, x) ==
    LET a == p.ops[1]  b == p.ops[2]  c == p.ops[3]  d == p.ops[4]
    IN  << <<Same(x, Over(a * c, b * d)), "FRACT_DIV_NO_RECIPROCAL">>,
           <<a * d # 0 /\ Same(x, Over(b * c, a * d)), "FRACT_DIV_INVERTS_FIRST">> >>

------------------------------------------------------------------------------
(* Decimals.  An operand is two members of ops: its digits read as an       *)
(* integer, and how many of them follow the point.                          *)

Places(p, k) == p.ops[2 * k]
Digits(p, k) == p.ops[2 * k - 1]
MaxPlaces(p) == Max({Places(p, 1), Places(p, 2)})

MisalignedRules(p, x, digits, tag) ==
    << <<Places(p, 1) # Places(p, 2) /\ Same(x, Over(digits, 10^MaxPlaces(p))), tag>> >>

\* A decimal operand whose magnitude is 10^k, k in -4..4 other than 0.
IsDecimalPowerOfTen(p, k) == PowerOfTenApart(Over(Magnitude(Digits(p, k)), 10^Places(p, k)), Whole(1))

DecimalMultiplicationRules(p, x) ==
    << <<PowerOfTenApart(x, p.expected) /\ \E k \in 1..2 : IsDecimalPowerOfTen(p, k),
         "DEC_MUL_WRONG_DIRECTION">>,
       <<PowerOfTenApart(x, p.expected), "DEC_MUL_POINT_PLACEMENT">> >>

DecimalDivisionRules(p, x) ==
    << <<Places(p, 2) > 0 /\ p.expected[1] # 0 /\ x[1] # 0
           /\ Same(x, <<p.expected[1], p.expected[2] * 10^Places(p, 2)>>), "DEC_DIV_NOT_SHIFTED">>,
       <<PowerOfTenApart(x, p.expected), "DEC_DIV_POINT_IGNORED">> >>

------------------------------------------------------------------------------
(* Ratios, equations, powers and roots. *)

PercentRules(p, x) ==
    << <<ParseStep(p) /\ p.ops[1] # 0 /\ Same(x, Over(p.ops[2], p.ops[1])),
         "RATIO_DIVIDE_BY_PERCENT">>,
       <<PowerOfTenApart(x, p.expected), "RATIO_DECIMAL_SHIFT">> >>

ProportionRules(p, x) ==
    LET a == p.ops[1]  b == p.ops[2]  c == p.ops[3]
    IN  << <<Same(x, Whole(c + (b - a))), "RATIO_ADDITIVE">>,
           <<b # 0 /\ Same(x, Over(a * c, b)), "RATIO_CROSS_PRODUCT">> >>

LinearEquationRules(p, x) ==
    LET a == p.ops[1]  b == p.ops[2]  c == p.ops[3]
    IN  << <<Same(x, Over(c + b, a)), "ALGEBRA_SIGN_FLIP">>,
           <<Magnitude(a) # 1 /\ Same(x, Over(c - a * b, a)), "ALGEBRA_DIVIDES_ONE_TERM">> >>

\* x = a^(m/n), for a rational x.
IsRootOfPower(x, a, m, n) == x[1] > 0 /\ n # 0 /\ x[1]^n = a^m * x[2]^n

PowerLawsRules(p, x) ==
    LET a == p.ops[1]  m == p.ops[2]  n == p.ops[3]
        zeroExponent == m = 0 \/ (n = 0 /\ p.form \in {"product", "quotient"})
    IN  << <<p.form = "product" /\ Same(x, Whole(a^(m * n))), "POW_PRODUCT_MULTIPLIES">>,
           <<p.form = "power" /\ Same(x, Whole(a^(m + n))), "POW_OF_POWER_ADDS">>,
           <<p.form = "quotient" /\ IsRootOfPower(x, a, m, n), "POW_QUOTIENT_DIVIDES">>,
           <<zeroExponent /\ x[1] = 0 /\ Same(p.expected, Whole(1)), "POW_ZERO_EXPONENT_IS_ZERO">> >>

RootLawsRules(p, x) ==
    << <<p.form = "sum" /\ \E r \in 0..p.ops[1], s \in 0..p.ops[2] :
             r * r = p.ops[1] /\ s * s = p.ops[2] /\ Same(x, Whole(r + s)),
         "POW_ROOT_OF_SUM_DISTRIBUTES">>,
       <<p.form = "single" /\ Same(x, Over(p.ops[1], 2)), "POW_ROOT_HALVES">> >>

------------------------------------------------------------------------------
(* The registry of strategies and the classification. *)

Registered == {"ARITH_SUB", "ARITH_ADD", "ARITH_MUL", "ARITH_DIV", "INT_ADD", "INT_SUB",
               "INT_MUL", "FRACT_ADDSUB", "FRACT_MUL", "FRACT_DIV", "DEC_ADD", "DEC_SUB",
               "DEC_MUL", "DEC_DIV", "RATIO_PERCENT", "RATIO_PROPORTION",
               "ALGEBRA_EQ_LINEAR", "POW_POWER", "POW_ROOT"}

\* Whether the operands are found.
Parsed(p) ==
    CASE p.sub \in {"ARITH_SUB", "ARITH_ADD"} -> p.fields
      [] p.sub \in {"ARITH_MUL", "ARITH_DIV", "INT_ADD", "INT_SUB", "INT_MUL"} -> ParseOperands(p)
      [] p.sub \in {"FRACT_MUL", "FRACT_DIV"} -> ParseTwoFractions(p)
      [] p.sub = "ALGEBRA_EQ_LINEAR" -> ParseLinear(p)
      [] OTHER -> ParseStep(p)

\* Strategies with rules that need no operands.
ReadsAnswers == {"ARITH_SUB", "ARITH_ADD", "ARITH_MUL", "ARITH_DIV", "FRACT_ADDSUB", "RATIO_PERCENT"}

GetStrategy(p, x) ==
    IF ~Parsed(p) /\ p.sub \notin ReadsAnswers THEN <<>>
    ELSE CASE p.sub = "ARITH_SUB" -> SubtractionRules(p, x)
           [] p.sub = "ARITH_ADD" -> AdditionRules(p, x)
           [] p.sub = "ARITH_MUL" -> MultiplicationRules(p, x)
           [] p.sub = "ARITH_DIV" -> DivisionRules(p, x)
           [] p.sub = "INT_ADD" -> IntAdditionRules(p, x)
           [] p.sub = "INT_SUB" -> IntSubtractionRules(p, x)
           [] p.sub = "INT_MUL" -> IntMultiplicationRules(p, x)
           [] p.sub = "FRACT_ADDSUB" -> FractionAddSubRules(p, x)
           [] p.sub = "FRACT_MUL" -> FractionMultiplicationRules(p, x)
           [] p.sub = "FRACT_DIV" -> FractionDivisionRules(p, x)
           [] p.sub = "DEC_ADD" ->
                MisalignedRules(p, x, Digits(p, 1) + Digits(p, 2), "DEC_ADD_RIGHT_ALIGNED")
           [] p.sub = "DEC_SUB" ->
                MisalignedRules(p, x, Digits(p, 1) - Digits(p, 2), "DEC_SUB_MISALIGNED")
           [] p.sub = "DEC_MUL" -> DecimalMultiplicationRules(p, x)
           [] p.sub = "DEC_DIV" -> DecimalDivisionRules(p, x)
           [] p.sub = "RATIO_PERCENT" -> PercentRules(p, x)
           [] p.sub = "RATIO_PROPORTION" -> ProportionRules(p, x)
           [] p.sub = "ALGEBRA_EQ_LINEAR" -> LinearEquationRules(p, x)
           [] p.sub = "POW_POWER" -> PowerLawsRules(p, x)
           [] p.sub = "POW_ROOT" -> RootLawsRules(p, x)
           [] OTHER -> <<>>

\* The positions of the rules that match.
Matches(rules) == {i \in DOMAIN rules : rules[i][1]}

\* Broken variant: a later rule that matches overrides an earlier one.
LastMatch(rules) ==
    LET matching == Matches(rules)
    IN  IF matching = {} THEN "UNCLASSIFIED" ELSE rules[Max(matching)][2]

\* The first rule that matches names the tag.
FirstMatch(rules) ==
    LET matching == Matches(rules)
    IN  IF matching = {} THEN "UNCLASSIFIED" ELSE rules[Min(matching)][2]

\* A subdomain without a strategy gets the fallback, whatever the answer.
Classify(p, x) ==
    IF p.sub \notin Registered THEN "UNCLASSIFIED"
    ELSE IF Same(x, p.expected) THEN "CORRECT"
    ELSE FirstMatch(GetStrategy(p, x))
==============================================================================
