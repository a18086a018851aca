------------------------------ MODULE MCUpdate ------------------------------
(* Update with three rows of two fields, two values and a buffer of two   *)
(* rows, so that a statement needs several full batches and a short last *)
(* one, and a SET clause can copy one field into the other.              *)
EXTENDS Update
MCVals == {0, 1}
MCFields == {"a", "b"}
====
