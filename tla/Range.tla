------------------------------- MODULE Range --------------------------------
(***************************************************************************)
(* The range model used by the planner and by the scan operators          *)
(* (src/unnamed/part_002, package stream): ValueRange/IndexRange,          *)
(* IsInRange on an encoded value, the Cost heuristic of a list of ranges  *)
(* and Append, which builds the list while dropping duplicates.           *)
(*                                                                         *)
(* Encoded values are abstracted to the members of Enc, a set of naturals *)
(* whose order stands for bytes.Compare of the order-preserving key       *)
(* encoding.  A range is a record: min and max are an encoded bound or    *)
(* None (the Value or ValueBuffer is empty), plus the exclusive and exact *)
(* flags.  An IndexRange is taken with Arity <= IndexArityMax, the branch *)
(* IsInRange takes for single-column and full composite bounds.           *)
(* The state is the two lists being built, so that every range a list    *)
(* can hold, and every list, is checked.                                   *)
(***************************************************************************)
EXTENDS Integers, Sequences, FiniteSets
LOCAL INSTANCE SequencesExt

CONSTANTS
  Enc,         \* encoded values, ordered as bytes.Compare orders them
  None,        \* an empty bound
  MaxRanges    \* bound on the length of a list of ranges

ASSUME Enc \subseteq Nat /\ None \notin Enc /\ MaxRanges \in Nat \ {0}

Bound == Enc \cup {None}

(***************************************************************************)
(* The ranges the comparison operators build: exclusive and exact are     *)
(* never both set (encode panics on it), and an exact range has a min.    *)
(***************************************************************************)
Ranges ==
  {r \in [min: Bound, max: Bound, exclusive: BOOLEAN, exact: BOOLEAN] :
     ~(r.exclusive /\ r.exact) /\ (r.exact => r.min # None)}

VARIABLES
  vr,   \* a ValueRanges list
  ir    \* an IndexRanges list

vars == <<vr, ir>>

\* bytes.Compare on the abstract encoding.
Compare(a, b) == IF a < b THEN -1 ELSE IF a = b THEN 0 ELSE 1

(***************************************************************************)
(* ValueRange.IsInRange.  cmpMin defaults to 1, cmpMax to -1.  The result *)
(* is cmpMax <= 0: cmpMin only decides the exact and exclusive cases.     *)
(***************************************************************************)
ValueIsInRange(r, v) ==
  LET cmpMin == IF r.min # None THEN Compare(v, r.min) ELSE 1
      cmpMax == IF r.max # None THEN Compare(v, r.max) ELSE -1
  IN IF r.exact THEN cmpMin = 0
     ELSE IF r.exclusive /\ cmpMin = 0 THEN FALSE
     ELSE IF r.exclusive /\ cmpMax = 0 THEN FALSE
     ELSE cmpMax <= 0

\* Mutant: the lower bound is not checked (as in ValueRange.IsInRange).
IndexIsInRange_noMin(r, v) == ValueIsInRange(r, v)

\* IndexRange.IsInRange: as above, but the result is cmpMin >= 0 /\ cmpMax <= 0.
IndexIsInRange(r, v) ==
  LET cmpMin == IF r.min # None THEN Compare(v, r.min) ELSE 1
      cmpMax == IF r.max # None THEN Compare(v, r.max) ELSE -1
  IN IF r.exact THEN cmpMin = 0
     ELSE IF r.exclusive /\ cmpMin = 0 THEN FALSE
     ELSE IF r.exclusive /\ cmpMax = 0 THEN FALSE
     ELSE cmpMin >= 0 /\ cmpMax <= 0

(***************************************************************************)
(* ValueRanges.Cost: a two-sided range adds 50 and, lacking a continue,   *)
(* falls through to the final += 200.                                      *)
(***************************************************************************)
ValueRangeCost(r) ==
  IF r.exact THEN 1
  ELSE IF r.min # None /\ r.max # None THEN 50 + 200
  ELSE IF r.min # None \/ r.max # None THEN 100
  ELSE 200

\* Mutant: the two-sided case falls through, as in ValueRanges.Cost.
IndexRangeCost_fallThrough(r) == ValueRangeCost(r)

\* IndexRanges.Cost, per range: exact 1, two-sided 50, one-sided 100, open 200.
IndexRangeCost(r) ==
  IF r.exact THEN 1
  ELSE IF r.min # None /\ r.max # None THEN 50
  ELSE IF r.min # None \/ r.max # None THEN 100
  ELSE 200

\* The loop of Cost: the sum over the list.
ValueRangesCost(s) == FoldLeft(LAMBDA acc, r : acc + ValueRangeCost(r), 0, s)
IndexRangesCost(s) == FoldLeft(LAMBDA acc, r : acc + IndexRangeCost(r), 0, s)

(***************************************************************************)
(* IsEqual compares the flags and both bounds (before encoding the range  *)
(* types are all unset), so it is equality of the abstract records.       *)
(***************************************************************************)
IsEqual(a, b) == a = b

\* ValueRanges.Append and IndexRanges.Append: a duplicate is ignored.
AppendRange(s, r) ==
  IF \E j \in 1..Len(s) : IsEqual(s[j], r) THEN s ELSE Append(s, r)

(***************************************************************************)
(* The planner appends one range per index-amenable predicate.            *)
(***************************************************************************)
AppendValueRange(r) ==
  /\ Len(vr) < MaxRanges
  /\ vr' = AppendRange(vr, r)
  /\ UNCHANGED ir

AppendIndexRange(r) ==
  /\ Len(ir) < MaxRanges
  /\ ir' = AppendRange(ir, r)
  /\ UNCHANGED vr

Init == vr = <<>> /\ ir = <<>>

Next ==
  \/ \E r \in Ranges : AppendValueRange(r)
  \/ \E r \in Ranges : AppendIndexRange(r)

Spec == Init /\ [][Next]_vars

(***************************************************************************)
(* Reference definitions (spec section 4.5).                              *)
(***************************************************************************)
RefInRange(r, v) ==
  IF r.exact THEN v = r.min
  ELSE /\ r.min # None => IF r.exclusive THEN v > r.min ELSE v >= r.min
       /\ r.max # None => IF r.exclusive THEN v < r.max ELSE v <= r.max

RefCost(r) ==
  CASE r.exact                    -> 1
    [] r.min # None /\ r.max # None -> 50
    [] r.min # None \/ r.max # None -> 100
    [] OTHER                        -> 200

RECURSIVE RefListCost(_)
RefListCost(s) == IF s = <<>> THEN 0 ELSE RefCost(Head(s)) + RefListCost(Tail(s))

(***************************************************************************)
(* Properties.                                                             *)
(***************************************************************************)

(***************************************************************************)
(* An IndexRange scan keeps exactly the encoded values the spec puts in   *)
(* the range: equality for exact ranges, min <= v <= max otherwise, with  *)
(* both bounds excluded when exclusive.                                    *)
(***************************************************************************)
IndexInRangeMatchesSpec ==
  \A j \in 1..Len(ir), v \in Enc : IndexIsInRange(ir[j], v) = RefInRange(ir[j], v)

(***************************************************************************)
(* IndexRanges.Cost gives the spec's heuristic for the whole list, so the *)
(* planner's order exact < two-sided < one-sided < open holds for it.     *)
(***************************************************************************)
IndexCostMatchesSpec == IndexRangesCost(ir) = RefListCost(ir)

(***************************************************************************)
(* ValueRanges agree with the spec as IndexRanges do: IsInRange keeps    *)
(* exactly the values the spec puts in the range, and Cost is monotone   *)
(* (spec 8.5): a two-sided range costs no more than a one-sided one.      *)
(***************************************************************************)
ValueRangesMatchSpec ==
  /\ \A j \in 1..Len(vr), v \in Enc : ValueIsInRange(vr[j], v) = RefInRange(vr[j], v)
  /\ \A i, j \in 1..Len(vr) :
       (vr[i].min # None /\ vr[i].max # None /\ ~vr[i].exact
        /\ (vr[j].min = None) # (vr[j].max = None) /\ ~vr[j].exact)
         => ValueRangeCost(vr[i]) <= ValueRangeCost(vr[j])
====
