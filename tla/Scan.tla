-------------------------------- MODULE Scan --------------------------------
(***************************************************************************)
(* The range scans of the comparison operators =, >, >=, <, <=             *)
(* (src/sql/query/expr/comparison.go): IterateIndex walks an index with   *)
(* AscendGreaterOrEqual and decides, for each entry, to pass its row to   *)
(* the callback, to skip it or to stop; IteratePK walks the table store   *)
(* itself from a seek key.                                                 *)
(*                                                                         *)
(* Encoded values are naturals whose order is bytes.Compare of the        *)
(* order-preserving encoding: values of one type in value order, types in *)
(* the order of their tags (Typ gives the type of each).  An index holds  *)
(* one entry <<value, key>> per row, ordered by value then key (spec      *)
(* 4.4).  The table store is ordered by key; the bytes of a row's encoded *)
(* document are doc[k], a natural drawn from Docs so that every order     *)
(* relative to a key can occur.  One scan runs per behaviour: the kind    *)
(* of scan, its operand and the table are chosen in Init.  Every visited *)
(* entry may fail: the engine read (ValueCopy, GetDocument), the value    *)
(* comparison or the callback returns an error.                           *)
(***************************************************************************)
EXTENDS Integers, Sequences, FiniteSets
LOCAL INSTANCE SequencesExt

CONSTANTS
  Vals,       \* encoded values of the indexed field
  Typ,        \* the type of each encoded value
  PKs,        \* row keys (encoded primary keys)
  Datas,      \* encoded primary-key operands of IteratePK
  Docs,       \* encoded documents, ordered with the keys by bytes.Compare
  ScanKinds   \* the scans checked: [src: {"index", "pk"}, op: Ops]

Ops == {"=", ">", ">=", "<", "<="}

ASSUME Vals \subseteq Nat /\ PKs \subseteq Nat /\ Datas \subseteq Nat /\ Docs \subseteq Nat
ASSUME Typ \in [Vals -> STRING]
\* Types occupy contiguous intervals of the order (the encoding prefixes the tag).
ASSUME \A x, y, z \in Vals : x < y /\ y < z /\ Typ[x] = Typ[z] => Typ[y] = Typ[x]
ASSUME ScanKinds \subseteq [src : {"index", "pk"}, op : Ops]

VARIABLES
  kind,    \* the operator and the access path
  v,       \* the operand: an encoded value, or the encoded key `data`
  rows,    \* the keys of the table
  field,   \* the indexed value of each row
  doc,     \* the encoded document of each row
  pos,     \* the iterator's position in the sequence it visits
  out,     \* the keys passed to the callback
  done,    \* the scan returned
  err      \* it returned an error

vars == <<kind, v, rows, field, doc, pos, out, done, err>>

(***************************************************************************)
(* What the iterator visits.                                               *)
(***************************************************************************)
\* The index store, ordered by value then row key.
Entries == SetToSortSeq({<<field[k], k>> : k \in rows},
                        LAMBDA a, b : a[1] < b[1] \/ (a[1] = b[1] /\ a[2] < b[2]))

\* index.EmptyPivot(t): the smallest encoding of type t.
EmptyPivot(t) == CHOOSE x \in {y \in Vals : Typ[y] = t} : \A y \in Vals : Typ[y] = t => x <= y

\* idx.AscendGreaterOrEqual(pivot): the entries from pivot on, each as <<compared, key>>.
AscendGreaterOrEqual(pivot) == SelectSeq(Entries, LAMBDA e : e[1] >= pivot)

\* tb.Store iterator from Seek(seek) on; each row as <<its encoded document, key>>.
StoreFrom(seek) ==
  LET ks == SetToSortSeq({k \in rows : k >= seek}, <)
  IN [i \in 1..Len(ks) |-> <<doc[ks[i]], ks[i]>>]

\* eqOp.IteratePK: tb.Store.Get(data), ErrKeyNotFound returns nil.
StoreGet(data) == IF data \in rows THEN <<<<doc[data], data>>>> ELSE <<>>

Visited ==
  IF kind.src = "index"
    THEN AscendGreaterOrEqual(IF kind.op \in {"<", "<="} THEN EmptyPivot(Typ[v]) ELSE v)
  ELSE CASE kind.op = "="              -> StoreGet(v)
         [] kind.op \in {">", ">="}    -> StoreFrom(v)
         [] kind.op \in {"<", "<="}    -> StoreFrom(-1)

(***************************************************************************)
(* The decision of each loop body on the compared bytes c: "emit" passes  *)
(* the row to fn, "skip" goes on, "stop" returns nil (errStop, return nil *)
(* or break).                                                              *)
(***************************************************************************)
IndexEq(c)  == IF c = v THEN "emit" ELSE "stop"
IndexGt(c)  == IF c = v THEN "skip" ELSE "emit"
IndexGte(c) == "emit"

\* Mutant: the < scan stops only past v, so it passes v itself.
IndexLt_pastV(c) == IF v < c THEN "stop" ELSE "emit"

\* ltOp.IterateIndex: v.IsLesserThanOrEqual(val) returns errStop.
IndexLt(c)  == IF v <= c THEN "stop" ELSE "emit"
IndexLte(c) == IF v < c THEN "stop" ELSE "emit"

PKEq(c)  == "emit"
\* gtOp.IteratePK: bytes.Equal(data, d) returns nil; d is the document.
PKGt(c)  == IF c = v THEN "stop" ELSE "emit"
PKGte(c) == "emit"
\* ltOp/lteOp.IteratePK: CompareBytes(data, d) <= 0 (resp. < 0) breaks.
PKLt(c)  == IF v <= c THEN "stop" ELSE "emit"
PKLte(c) == IF v < c THEN "stop" ELSE "emit"

Decide(c) ==
  LET op == kind.op IN
  IF kind.src = "index"
    THEN CASE op = "=" -> IndexEq(c) [] op = ">" -> IndexGt(c) [] op = ">=" -> IndexGte(c)
           [] op = "<" -> IndexLt(c) [] op = "<=" -> IndexLte(c)
    ELSE CASE op = "=" -> PKEq(c) [] op = ">" -> PKGt(c) [] op = ">=" -> PKGte(c)
           [] op = "<" -> PKLt(c) [] op = "<=" -> PKLte(c)

(***************************************************************************)
(* One iteration of the scan loop.                                         *)
(***************************************************************************)
Current == Visited[pos]

Visiting == ~done /\ pos <= Len(Visited)

\* The row is read (GetDocument) and passed to fn, which returns nil.
Emit ==
  /\ Visiting /\ Decide(Current[1]) = "emit"
  /\ out' = Append(out, Current[2]) /\ pos' = pos + 1
  /\ UNCHANGED <<kind, v, rows, field, doc, done, err>>

\* gtOp.IterateIndex: an entry equal to v returns nil to the index walk.
Skip ==
  /\ Visiting /\ Decide(Current[1]) = "skip"
  /\ pos' = pos + 1
  /\ UNCHANGED <<kind, v, rows, field, doc, out, done, err>>

\* errStop (filtered out by the caller), return nil or break.
Stop ==
  /\ Visiting /\ Decide(Current[1]) = "stop"
  /\ done' = TRUE
  /\ UNCHANGED <<kind, v, rows, field, doc, pos, out, err>>

\* ValueCopy, the comparison, GetDocument or fn returns an error.
Fail ==
  /\ Visiting
  /\ done' = TRUE /\ err' = TRUE
  /\ UNCHANGED <<kind, v, rows, field, doc, pos, out>>

\* The iterator is no longer Valid: the scan returns nil.
End ==
  /\ ~done /\ pos > Len(Visited)
  /\ done' = TRUE
  /\ UNCHANGED <<kind, v, rows, field, doc, pos, out, err>>

Init ==
  /\ kind \in ScanKinds
  /\ rows \in SUBSET PKs
  \* Only the indexed values matter to an index scan, only the documents
  \* to a primary-key scan; the other is fixed.
  /\ v \in IF kind.src = "index" THEN Vals ELSE Datas
  /\ field \in IF kind.src = "index" THEN [rows -> Vals]
                                     ELSE {[k \in rows |-> CHOOSE x \in Vals : TRUE]}
  /\ doc \in IF kind.src = "pk" THEN [rows -> Docs]
                                ELSE {[k \in rows |-> CHOOSE d \in Docs : TRUE]}
  /\ pos = 1 /\ out = <<>> /\ done = FALSE /\ err = FALSE

Advance == Emit \/ Skip \/ Stop \/ End

Next == Advance \/ Fail

\* A scan runs in the caller's goroutine and never waits (spec 5).
Spec == Init /\ [][Next]_vars /\ WF_vars(Advance)

(***************************************************************************)
(* The range of each scan (spec 4.5, table of scan seeds and stop          *)
(* conditions): = keeps k = v, > every k after v, >= from v on, < and <=   *)
(* the values of v's type below v (up to v).                               *)
(***************************************************************************)
InRange(x) ==
  CASE kind.op = "="  -> x = v
    [] kind.op = ">"  -> x > v
    [] kind.op = ">=" -> x >= v
    [] kind.op = "<"  -> x < v /\ (kind.src = "pk" \/ Typ[x] = Typ[v])
    [] kind.op = "<=" -> x <= v /\ (kind.src = "pk" \/ Typ[x] = Typ[v])

\* The row keys of the range in store order: index order, or key order.
Expected ==
  IF kind.src = "index"
    THEN [i \in 1..Len(SelectSeq(Entries, LAMBDA e : InRange(e[1]))) |->
            SelectSeq(Entries, LAMBDA e : InRange(e[1]))[i][2]]
    ELSE SetToSortSeq({k \in rows : InRange(k)}, <)

Abs == INSTANCE ScanSpec WITH Keys <- PKs, result <- Expected

(***************************************************************************)
(* Every scan implements ScanSpec: it passes exactly the rows of its      *)
(* range, in store order, each once, and returns without error only after *)
(* passing the last one; unless a read or the callback fails it returns.  *)
(* A scan that stops too early, passes a row outside the range, or skips *)
(* the wrong entries breaks it.                                            *)
(***************************************************************************)
ScanRefinesSpec == Abs!Spec
====
