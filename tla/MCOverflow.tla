----------------------------- MODULE MCOverflow -----------------------------
(***************************************************************************)
(* The two places the engine adds int64 values, side by side: expression  *)
(* evaluation (Values, 4-bit integers) and the SUM aggregator (Aggregate, *)
(* 3-bit integers over a group of three rows of 1 or 3).  The two do not  *)
(* share state; each step is a step of one of them.  One run asks of both *)
(* whether integer arithmetic is the exact arithmetic of the spec, with   *)
(* overflow promoted to Double (spec 4.6 and scenario S6).                *)
(***************************************************************************)
EXTENDS Values

\* The variables of Aggregate; those of Values come with EXTENDS.
VARIABLES input, pos, countStar, count, min, max, sumI, sumF, avg, counter

\* Rows of 1 and 3: 3 + 1 already leaves the 3-bit range -4..3.
SumInputs == {[type |-> "int", v |-> 1], [type |-> "int", v |-> 3]}

aggVars == <<input, pos, countStar, count, min, max, sumI, sumF, avg, counter>>

Agg == INSTANCE Aggregate WITH NRows <- 3, W <- 3, Inputs <- SumInputs

bothVars == <<vars, aggVars>>

OverflowSpec ==
  /\ Init /\ Agg!Init
  /\ [][\/ Next /\ UNCHANGED aggVars
        \/ Agg!Next /\ UNCHANGED vars]_bothVars

(***************************************************************************)
(* Integer arithmetic of the engine is exact: every expression evaluates  *)
(* to the spec's result (EvaluationMatchesSpec) and SUM of a group *)
(* is its exact sum, a Double once it leaves the int64 range               *)
(* (Aggregate!SumIsExact).                                                 *)
(***************************************************************************)
ArithmeticIsExact == EvaluationMatchesSpec /\ Agg!SumIsExact
====
