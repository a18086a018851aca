------------------------------ MODULE MCValues -------------------------------
(* Values with 4-bit integers (-8..7): every boundary of int64 arithmetic *)
(* (MinInt, MaxInt, -1, 0) occurs among the operand pairs, and the double *)
(* inputs -9..9 in halves include values whose truncation lies outside    *)
(* the integer range on both sides.                                       *)
EXTENDS Values
====
