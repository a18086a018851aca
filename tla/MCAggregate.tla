---------------------------- MODULE MCAggregate -----------------------------
(* Groups of three rows over Null, both booleans, three 3-bit integers   *)
(* (two of which overflow when added), two doubles equal to integers of  *)
(* the set, and one text.                                                 *)
EXTENDS Aggregate
MCInputs ==
  {Null, [type |-> "bool", v |-> 0], [type |-> "bool", v |-> 1],
   IntVal(-4), IntVal(1), IntVal(3), DoubleVal(1), DoubleVal(3),
   [type |-> "text", v |-> 0]}
====
