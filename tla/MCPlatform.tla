------------------------------ MODULE MCPlatform ------------------------------
(* The instance of Platform that TLC checks.                                  *)
(* Practice: two arithmetic topics, one a prerequisite of the other, and one  *)
(* of geometry, for which the rule engine has no strategy.                    *)
EXTENDS Platform, TLC

MCTopics == {"add", "sub", "geo"}
MCUnits == {{"add", "sub"}, {"geo"}}
MCSubOf == [t \in MCTopics |-> CASE t = "add" -> "ARITH_ADD" [] t = "sub" -> "ARITH_SUB" [] OTHER -> "GEOM_AREA"]
MCDomainOf == [s \in {"ARITH_ADD", "ARITH_SUB", "GEOM_AREA"} |-> IF s = "GEOM_AREA" THEN "GEOM" ELSE "ARITH"]
MCPrerequisites == [t \in MCTopics |-> IF t = "sub" THEN {"add"} ELSE {}]
\* The parameters that the seed writes, and at the edges: neither slips nor guesses,
\* where a right answer proves and a wrong one refutes; and nothing but guesses.
MCParameters == [t \in MCTopics |->
    CASE t = "add" -> DefaultParameters
      [] t = "sub" -> [DefaultParameters EXCEPT !.pS = Whole(0), !.pG = Whole(0)]
      [] t = "geo" -> [DefaultParameters EXCEPT !.pG = Whole(1)]]
MCNearOne == <<9, 10>>
Geo == [sub |-> "GEOM_AREA", form |-> "plain", ops |-> <<>>, steps |-> FALSE, fields |-> FALSE, expected |-> Whole(12)]
Item(id, topic, p, status) == [id |-> id, topic |-> topic, problem |-> p, status |-> status]
A1 == Exercise("ARITH_ADD", "plain", <<38, 27>>)
A2 == Exercise("ARITH_ADD", "plain", <<12, 3>>)
S1 == Exercise("ARITH_SUB", "plain", <<53, 26>>)
MCPool == {Item("a1", "add", A1, "ACTIVE"), Item("a2", "add", A2, "ACTIVE"), Item("s1", "sub", S1, "ACTIVE"),
           Item("s2", "sub", S1, "DRAFT"), Item("g1", "geo", Geo, "ACTIVE")}
MCNewItems == {Item("s3", "sub", S1, "ACTIVE")}
SubOps == {<<m, s>> : m \in {0, 26, 53, 57, 60, 100, 110, 302, 325, 405, 423, 1000, 1305}, s \in {1, 23, 27, 95, 148, 171, 841}}
AddOps == {<<m, s>> : m \in {1, 38, 58, 99, 123, 152, 455}, s \in {9, 27, 55, 63, 67}}
MulOps == {<<0,7>>,<<23,45>>,<<7,8>>,<<2,2>>,<<12,10>>,<<3,1>>,<<10,100>>,<<2,3>>,<<40,20>>,<<6,12>>,<<100,7>>}
DivOps == {<<84,4>>,<<618,6>>,<<20,2>>,<<816,8>>,<<7,7>>,<<4,2>>}
IntOps == {<<a, b>> : a \in {-7, -4, -2, 0, 3, 5}, b \in {-6, -3, 2, 4}}
FracOps == {<<1,2,3,4>>,<<2,3,3,2>>,<<2,5,1,5>>,<<1,2,1,3>>}
Plain(sub, ops) == {Exercise(sub, "plain", o) : o \in ops}
Subtractions == Plain("ARITH_SUB", SubOps)
Products == Plain("ARITH_MUL", MulOps)
Payloads(p) == {WithoutSteps(p), WithoutFields(p), BareExercise(p)}
Sampled == Products \cup {Exercise("ARITH_SUB", "plain", <<53, 26>>), Exercise("ARITH_ADD", "plain", <<38, 27>>),
    Exercise("INT_ADD", "plain", <<-7, 4>>), Exercise("INT_SUB", "plain", <<5, -3>>), Exercise("INT_MUL", "plain", <<-4, -6>>),
    Exercise("ARITH_DIV", "plain", <<618, 6>>), Exercise("FRACT_ADDSUB", "mixed", <<1,1,4>>),
    Exercise("FRACT_MUL", "plain", <<1,2,3,4>>), Exercise("DEC_ADD", "plain", <<25,1,125,2>>),
    Exercise("RATIO_PERCENT", "plain", <<20,50>>), Exercise("RATIO_PROPORTION", "plain", <<2,3,4>>),
    Exercise("ALGEBRA_EQ_LINEAR", "plain", <<2,3,11>>), Exercise("POW_POWER", "product", <<2,3,2>>),
    Exercise("POW_ROOT", "single", <<16>>)}
\* An expression that no operands are read from: its answer is whatever was stored.
Unreadable(sub, ops) == [sub |-> sub, form |-> "plain", ops |-> ops, steps |-> TRUE, fields |-> FALSE, expected |-> Whole(1)]
MCDrills ==
    Subtractions \cup {WithoutSteps(p) : p \in Subtractions} \cup UNION {Payloads(p) : p \in Sampled}
    \cup Plain("ARITH_ADD", AddOps) \cup Products \cup Plain("ARITH_DIV", DivOps)
    \cup UNION {Plain(s, IntOps) : s \in {"INT_ADD", "INT_SUB", "INT_MUL"}}
    \cup UNION {Plain(s, FracOps) : s \in {"FRACT_MUL", "FRACT_DIV"}}
    \cup {Exercise("FRACT_ADDSUB", f, o) : f \in {"plus", "minus"}, o \in {<<2,5,1,5>>,<<3,8,1,8>>,<<5,8,3,8>>}}
    \cup {Exercise("FRACT_ADDSUB", "mixed", o) : o \in {<<1,1,4>>,<<2,3,4>>}}
    \cup {Exercise("FRACT_ADDSUB", "mixed_plus", o) : o \in {<<1,1,4,1,4>>,<<2,3,8,1,8>>}}
    \cup {Exercise("FRACT_ADDSUB", "numerator", o) : o \in {<<3,5>>,<<1,2>>}}
    \cup UNION {Plain(s, {<<25,1,125,2>>,<<3,0,14,1>>,<<125,2,10,0>>,<<5,1,5,1>>}) : s \in {"DEC_ADD", "DEC_SUB", "DEC_MUL"}}
    \cup Plain("DEC_DIV", {<<75,1,25,1>>,<<8,0,2,1>>,<<45,1,9,0>>})
    \cup Plain("RATIO_PERCENT", {<<20,50>>,<<25,80>>,<<10,10>>})
    \cup Plain("RATIO_PROPORTION", {<<2,3,4>>,<<1,2,2>>,<<3,6,5>>})
    \cup Plain("ALGEBRA_EQ_LINEAR", {<<2,3,11>>,<<1,2,9>>,<<-3,-4,5>>,<<3,0,6>>})
    \cup {Exercise("POW_POWER", f, o) : f \in {"product", "power"}, o \in {<<2,3,2>>,<<2,2,2>>}}
    \cup {Exercise("POW_POWER", "quotient", o) : o \in {<<2,6,3>>,<<3,2,1>>}}
    \cup {Unreadable("FRACT_MUL", <<1,0,3,4>>), Unreadable("FRACT_DIV", <<1,2,3,0>>), Unreadable("ALGEBRA_EQ_LINEAR", <<0,3,5>>)}
    \cup {Exercise("POW_POWER", "zero", <<5,0,0>>), Exercise("POW_ROOT", "single", <<16>>), Exercise("POW_ROOT", "sum", <<9,16>>)}
    \cup {Geo, S1}
MCWrong == [p \in MCDrills \cup {A1, A2, S1, Geo} |-> {Over(p.expected[1] + d * p.expected[2], p.expected[2]) : d \in IF p \in {A1, A2, S1, Geo} THEN {5} ELSE -3..3}]

\* For ClassifiedAsDocumented: items 2 and 3, and item 17 of the taxonomy.
MCDocumented == {Exercise("ARITH_SUB", "plain", <<325, 171>>), S1, Exercise("FRACT_ADDSUB", "mixed", <<1,1,4>>)}

\* The importer's file names one tag twice, in different batches of two.
MCEntries == <<[code |-> 1, status |-> "DRAFT"], [code |-> 3, status |-> "ACTIVE"],
               [code |-> 1, status |-> "DRAFT"]>>

\* No action tells a delivery of results from another.
Symmetry == Permutations(Graders)
==============================================================================
