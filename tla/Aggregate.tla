------------------------------ MODULE Aggregate ------------------------------
(***************************************************************************)
(* The aggregators of COUNT, MIN, MAX, SUM and AVG (src/unnamed/part_001, *)
(* package functions).  HashAggregate calls Aggregate of every aggregator *)
(* once per row of a group and Eval of each once the group ends; the model *)
(* runs the five aggregators side by side over one group of NRows rows.   *)
(*                                                                         *)
(* The aggregated expression is a field path; its value on a row is one  *)
(* of Inputs.  A missing field evaluates to Null (spec: FieldNotFound     *)
(* during expression evaluation yields Null).  Values keep their type tag *)
(* and a natural number for their content; integers are W-bit two's     *)
(* complement, and the doubles of the model are small integral values, on *)
(* which float64 arithmetic is exact.                                      *)
(***************************************************************************)
EXTENDS Integers, Sequences, FiniteSets

CONSTANTS
  NRows,     \* rows in the group
  Inputs,    \* values the expression can take on a row
  W          \* integer width in bits (64 in the code)

ASSUME NRows \in Nat \ {0} /\ W \in Nat /\ W >= 2

MinInt == -(2^(W-1))
MaxInt == 2^(W-1) - 1
Wrap(x) == ((x - MinInt) % 2^W) + MinInt

\* document.Value with Type 0: an aggregator that has seen nothing yet.
NoValue == [type |-> "any", v |-> 0]
Null    == [type |-> "null", v |-> 0]
IntVal(x)    == [type |-> "int", v |-> x]
DoubleVal(x) == [type |-> "double", v |-> x]

\* The type tags of types.go, whose numeric order orders mixed types.
Tag(x) == CASE x.type = "any" -> 0 [] x.type = "null" -> 128
            [] x.type = "bool" -> 129 [] x.type = "int" -> 144
            [] x.type = "double" -> 160 [] x.type = "text" -> 192

IsNumber(x) == x.type \in {"int", "double"}

\* Value.IsGreaterThan / IsLesserThan for two values of one type or two numbers.
IsGreaterThan(x, y) == x.v > y.v
IsLesserThan(x, y)  == x.v < y.v

VARIABLES
  input,      \* the values of the expression on the rows of the group
  pos,        \* the next row
  countStar,  \* CountAggregator.Count of COUNT(*)
  count,      \* CountAggregator.Count of COUNT(expr)
  min, max,   \* MinAggregator.Min, MaxAggregator.Max
  sumI, sumF, \* SumAggregator.SumI, SumF (NoValue for a nil pointer)
  avg, counter  \* AvgAggregator.Avg, Counter

vars == <<input, pos, countStar, count, min, max, sumI, sumF, avg, counter>>

\* CountAggregator.Aggregate: COUNT(*) counts rows, COUNT(e) non-Null values.
CountAggregate(c, v) == IF v # Null THEN c + 1 ELSE c

\* Mutant: numbers of different types are compared by their type tags.
MinAggregate_tagsOnly(m, v) ==
  IF v = Null THEN m
  ELSE IF m = NoValue THEN v
  ELSE IF m.type = v.type THEN IF IsGreaterThan(m, v) THEN v ELSE m
  ELSE IF Tag(m) > Tag(v) THEN v ELSE m

(***************************************************************************)
(* MinAggregator.Aggregate: Null is skipped, the first value is kept; a   *)
(* value of the same type, or two numbers, are compared by value, other   *)
(* types by type tag.                                                      *)
(***************************************************************************)
MinAggregate(m, v) ==
  IF v = Null THEN m
  ELSE IF m = NoValue THEN v
  ELSE IF m.type = v.type \/ (IsNumber(m) /\ IsNumber(v))
         THEN IF IsGreaterThan(m, v) THEN v ELSE m
  ELSE IF Tag(m) > Tag(v) THEN v ELSE m

\* MaxAggregator.Aggregate, symmetrically.
MaxAggregate(m, v) ==
  IF v = Null THEN m
  ELSE IF m = NoValue THEN v
  ELSE IF m.type = v.type \/ (IsNumber(m) /\ IsNumber(v))
         THEN IF IsLesserThan(m, v) THEN v ELSE m
  ELSE IF Tag(m) < Tag(v) THEN v ELSE m

(***************************************************************************)
(* SumAggregator.Aggregate: non-numbers are skipped; integers accumulate *)
(* in SumI with int64 wrapping until the first double, which moves the    *)
(* sum to SumF, where every later number is added.                        *)
(***************************************************************************)
SumAggregate(si, sf, v) ==
  CASE ~IsNumber(v)                       -> [i |-> si, f |-> sf]
    [] sf # NoValue                       -> [i |-> si, f |-> DoubleVal(sf.v + v.v)]
    [] v.type = "double"                  ->
         [i |-> si, f |-> DoubleVal((IF si # NoValue THEN si.v ELSE 0) + v.v)]
    [] OTHER                              ->
         [i |-> IntVal(Wrap((IF si # NoValue THEN si.v ELSE 0) + v.v)), f |-> sf]

\* AvgAggregator.Aggregate: only integers and doubles are averaged.
AvgCounts(v) == IsNumber(v)

\* One row: HashAggregate runs every aggregator on it.
AggregateRow ==
  /\ pos <= NRows
  /\ LET v == input[pos]
         s == SumAggregate(sumI, sumF, v)
     IN /\ countStar' = countStar + 1
        /\ count' = CountAggregate(count, v)
        /\ min' = MinAggregate(min, v)
        /\ max' = MaxAggregate(max, v)
        /\ sumI' = s.i /\ sumF' = s.f
        /\ avg' = IF AvgCounts(v) THEN avg + v.v ELSE avg
        /\ counter' = IF AvgCounts(v) THEN counter + 1 ELSE counter
  /\ pos' = pos + 1
  /\ UNCHANGED input

Init ==
  /\ input \in [1..NRows -> Inputs]
  /\ pos = 1
  /\ countStar = 0 /\ count = 0
  /\ min = NoValue /\ max = NoValue
  /\ sumI = NoValue /\ sumF = NoValue
  /\ avg = 0 /\ counter = 0

Next == AggregateRow

Spec == Init /\ [][Next]_vars

(***************************************************************************)
(* Eval of each aggregator once the group has ended.                      *)
(***************************************************************************)
Done == pos > NRows

MinEval == IF min = NoValue THEN Null ELSE min
MaxEval == IF max = NoValue THEN Null ELSE max
SumEval == IF sumF # NoValue THEN sumF ELSE IF sumI # NoValue THEN sumI ELSE Null

\* A Double that is not integral: the fraction num / den.
Ratio(n, d) == [type |-> "double", num |-> n, den |-> d]

\* Mutant: the mean computed by integer division, as for two integers.
AvgEval_intDiv ==
  IF counter = 0 THEN Ratio(0, 1) ELSE Ratio(avg \div counter, 1)

\* AvgAggregator.Eval: 0.0 for a group without numbers, else Avg / Counter.
AvgEval ==
  IF counter = 0 THEN Ratio(0, 1) ELSE Ratio(avg, counter)

(***************************************************************************)
(* Reference order (spec 4.1 and 4.6): numbers compare by value whatever  *)
(* their type, other values of one type by value, different types by tag. *)
(***************************************************************************)
Less(x, y) ==
  IF x.type = y.type \/ (IsNumber(x) /\ IsNumber(y)) THEN x.v < y.v
  ELSE Tag(x) < Tag(y)

Seen == {input[i] : i \in 1..NRows} \ {Null}
Numbers == {i \in 1..NRows : IsNumber(input[i])}

\* The sum of the values of rows S of the group (a recursion over a
\* constant function, so that the module can be instantiated).
RECURSIVE SumRows(_, _)
SumRows(f, S) ==
  IF S = {} THEN 0
  ELSE LET i == CHOOSE j \in S : TRUE IN f[i].v + SumRows(f, S \ {i})

SumOver(S) == SumRows(input, S)

(***************************************************************************)
(* MIN and MAX return a least and a greatest non-Null value of the group  *)
(* in the value order, and Null for a group of Nulls, whatever order the  *)
(* rows come in and however their types are mixed.                        *)
(***************************************************************************)
MinMaxAreExtremes ==
  Done =>
    IF Seen = {} THEN MinEval = Null /\ MaxEval = Null
    ELSE /\ MinEval \in Seen /\ \A x \in Seen : ~Less(x, MinEval)
         /\ MaxEval \in Seen /\ \A x \in Seen : ~Less(MaxEval, x)

(***************************************************************************)
(* AVG returns the mean of the numeric values of the group as a Double,   *)
(* integers and doubles mixed, Nulls and other types left out of both the *)
(* sum and the count, whatever order the rows come in; and 0.0 when the  *)
(* group has no number (spec 4.6).  This is what AvgAggregator.Aggregate *)
(* accumulates row by row and Eval divides at the end of the group.       *)
(***************************************************************************)
AvgIsMean ==
  Done =>
    /\ AvgEval.type = "double"
    /\ IF Numbers = {} THEN AvgEval.num = 0
       ELSE AvgEval.num * Cardinality(Numbers) = SumOver(Numbers) * AvgEval.den

(***************************************************************************)
(* SUM is exact: the sum of the numeric values, an Integer when all are  *)
(* integers and it fits, a Double otherwise (spec 4.6 and 8.6), Null for *)
(* a group without numbers.                                                *)
(***************************************************************************)
SumIsExact ==
  Done =>
    LET total == SumOver(Numbers)
        allInt == \A i \in Numbers : input[i].type = "int"
    IN SumEval = IF Numbers = {} THEN Null
                 ELSE IF allInt /\ total \in MinInt..MaxInt THEN IntVal(total)
                 ELSE DoubleVal(total)
====
