------------------------------ MODULE MCRange -------------------------------
(* Range over two encoded values, so a value can lie below, on or above *)
(* a bound, and lists of up to two ranges.                               *)
EXTENDS Range
CONSTANTS none
MCEnc == {0, 1}
====
