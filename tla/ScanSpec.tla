------------------------------ MODULE ScanSpec ------------------------------
(***************************************************************************)
(* What a range scan of a comparison operator promises (spec 4.4, 4.5 and  *)
(* 5): it passes the rows of its range to the callback one at a time, in  *)
(* the order of the scanned store, each once; it returns without error    *)
(* once it has passed all of them, or returns the first error of a read   *)
(* or of the callback.  result is the sequence of row keys the range      *)
(* holds; it does not change during the scan.                              *)
(***************************************************************************)
EXTENDS Naturals, Sequences

CONSTANT Keys        \* row keys

VARIABLES
  result,   \* the row keys of the range, in store order
  out,      \* the row keys passed to the callback so far
  done,     \* the scan has returned
  err       \* it returned an error

avars == <<result, out, done, err>>

Init ==
  /\ result \in Seq(Keys)
  /\ out = <<>> /\ done = FALSE /\ err = FALSE

\* The next row of the range is passed to the callback.
Emit ==
  /\ ~done /\ Len(out) < Len(result)
  /\ out' = Append(out, result[Len(out) + 1])
  /\ UNCHANGED <<result, done, err>>

\* Every row of the range has been passed: the scan returns nil.
Finish ==
  /\ ~done /\ out = result
  /\ done' = TRUE
  /\ UNCHANGED <<result, out, err>>

\* A read or the callback fails: the scan returns that error.
Fail ==
  /\ ~done
  /\ done' = TRUE /\ err' = TRUE
  /\ UNCHANGED <<result, out>>

Next == Emit \/ Finish \/ Fail

\* A scan does not suspend: unless it fails it keeps going until it returns.
Spec == Init /\ [][Next]_avars /\ WF_avars(Emit \/ Finish)
====
