------------------------------- MODULE MCScan -------------------------------
(***************************************************************************)
(* Model-checking instance of Scan: three rows; indexed values 0..4 of    *)
(* three types (a bool below the integers 1..3, a text above them);       *)
(* primary-key operands and document bytes 0..4, so that each can fall    *)
(* below, between, on and above the keys 1..3.                             *)
(***************************************************************************)
EXTENDS Scan

MCTyp == [x \in 0..4 |-> IF x = 0 THEN "bool" ELSE IF x = 4 THEN "text" ELSE "int"]

\* Index scans of every operator, and the primary-key scans of = and >=.
MCCheckedKinds ==
  [src : {"index"}, op : Ops] \cup [src : {"pk"}, op : {"=", ">="}]

\* The primary-key scans of >, < and <=.
MCPKCompareKinds == [src : {"pk"}, op : {">", "<", "<="}]
====
