------------------------------- MODULE Update -------------------------------
(***************************************************************************)
(* UPDATE ... SET/UNSET ... WHERE, as UpdateStmt.Run executes it           *)
(* (src/sql/query/update.go).  The statement reads the table in batches: *)
(* a resumableIterator seeks to curKey and streams the documents through  *)
(* the WHERE filter and a Limit(updateBufferSize); each selected document *)
(* is rewritten by the SET (or UNSET) clause into a buffer, and when the  *)
(* batch ends the buffered documents are written back with Table.Replace. *)
(* A batch shorter than the buffer ends the loop; otherwise the loop      *)
(* resumes at the key of the last document of the batch.                  *)
(*                                                                         *)
(* Keys are 1..NKeys in their store order.  A document has the fields    *)
(* Fields, each holding a value of Vals, or Missing once UNSET removed it. *)
(* The statement is an input chosen in Init: the WHERE clause is the set  *)
(* of values of field "a" it accepts; the clause is either SET, a map    *)
(* from field names to expressions (a constant or another field), or     *)
(* UNSET, a set of field names; setFails are the values of "a" on which   *)
(* evaluating SET returns an error (say a + 1 on a text).  The ghosts     *)
(* orig, times and failed record the table before the statement, how     *)
(* often each row was replaced and whether an evaluation error occurred. *)
(***************************************************************************)
EXTENDS Naturals, Sequences, FiniteSets
LOCAL INSTANCE SequencesExt

CONSTANTS
  NKeys,             \* number of rows in the table
  Vals,              \* field values
  Fields,            \* field names
  Missing,           \* the value of a field that is not in the document
  BufferSize,        \* updateBufferSize (100 in the code)
  MaxUpdates         \* bound on the ghost replace counter of a row

ASSUME NKeys \in Nat \ {0} /\ BufferSize \in Nat \ {0}
ASSUME MaxUpdates \in Nat \ {0} /\ Missing \notin Vals /\ "a" \in Fields

Keys == 1..NKeys
NoKey == 0           \* rit.curKey = nil: Seek starts at the first key

Docs == [Fields -> Vals]
\* An expression of a SET pair: a constant, or the value of a field.
Exprs == [const : Vals] \cup [field : Fields]
SetClauses == {[kind |-> "set", pairs |-> p] :
                 p \in UNION {[D -> Exprs] : D \in SUBSET Fields \ {{}}}}
UnsetClauses == {[kind |-> "unset", fields |-> F] : F \in SUBSET Fields \ {{}}}

VARIABLES
  rows,       \* the table: key -> document
  where,      \* values of field "a" accepted by the WHERE clause
  stmt,       \* the SET or UNSET clause
  setFails,   \* values of field "a" on which evaluating SET fails
  curKey,     \* rit.curKey
  pc,         \* "loop" while Run iterates, "done" once it returned
  err,        \* the error Run returned
  orig, times, failed   \* ghosts

vars == <<rows, where, stmt, setFails, curKey, pc, err, orig, times, failed>>

(***************************************************************************)
(* The rewrite of one document.  stmt.set ranges over the Go map          *)
(* stmt.Pairs, whose order is chosen anew by each range loop; each        *)
(* expression is evaluated on the document being rewritten, so it sees   *)
(* the pairs already applied.  Replace and Set (a field not yet in the    *)
(* document) give the field the same value; the order of the fields in   *)
(* the document is not modelled.                                           *)
(***************************************************************************)
Eval(e, d) == IF "const" \in DOMAIN e THEN e.const ELSE d[e.field]

SetPairs(d, order) ==
  FoldLeft(LAMBDA doc, f : [doc EXCEPT ![f] = Eval(stmt.pairs[f], doc)], d, order)

\* stmt.unset: each listed field that is present is deleted.
Unset(d) == [f \in Fields |-> IF f \in stmt.fields THEN Missing ELSE d[f]]

\* The orders in which range may visit the pairs of the SET clause.
PairOrders == IF stmt.kind = "set" THEN SetToSeqs(DOMAIN stmt.pairs) ELSE {<<>>}

Rewrite(d, order) == IF stmt.kind = "set" THEN SetPairs(d, order) ELSE Unset(d)

(***************************************************************************)
(* resumableIterator.Iterate: Seek(curKey) positions at the first key not *)
(* smaller than curKey, and the stream filters by the WHERE clause.        *)
(***************************************************************************)
Seek(k) == SelectSeq([i \in Keys |-> i], LAMBDA x : x >= k)

Selected(k) == SelectSeq(Seek(k), LAMBDA x : rows[x]["a"] \in where)

\* Limit(updateBufferSize): at most BufferSize documents reach the callback.
Limited(s) == SubSeq(s, 1, IF Len(s) < BufferSize THEN Len(s) ELSE BufferSize)

\* The callback stops the iteration at the first document whose SET fails.
FirstFailure(s) ==
  LET bad == {j \in 1..Len(s) : stmt.kind = "set" /\ rows[s[j]]["a"] \in setFails}
  IN IF bad = {} THEN Len(s) + 1 ELSE CHOOSE j \in bad : \A x \in bad : j <= x

\* Mutant: the next batch resumes at the first key of this one.
ResumeKey_first(batch) == batch[1]

\* rit.curKey = keys[i-1]: the next batch resumes at the last key updated.
ResumeKey(batch) == batch[Len(batch)]

\* Mutant: the loop also ends after a full batch.
LastBatch_orFull(i) == i <= BufferSize

\* if i < deleteBufferSize { break }: a short batch ends the loop.
LastBatch(i) == i < BufferSize

(***************************************************************************)
(* One iteration of the for loop of Run: st.Iterate fills the buffers,    *)
(* the Replace loop writes them back (err is overwritten by each Replace), *)
(* then the loop breaks or resumes.                                        *)
(***************************************************************************)
Batch ==
  /\ pc = "loop"
  /\ \A k \in Keys : times[k] < MaxUpdates
  /\ LET taken   == Limited(Selected(curKey))
         f       == FirstFailure(taken)
         i       == f - 1
         batch   == SubSeq(taken, 1, i)
         iterErr == f <= Len(taken)
         updated == {batch[j] : j \in 1..i}
     IN /\ \E order \in [updated -> PairOrders] :
             rows' = [k \in Keys |-> IF k \in updated THEN Rewrite(rows[k], order[k])
                                                   ELSE rows[k]]
        /\ times' = [k \in Keys |-> IF k \in updated THEN times[k] + 1 ELSE times[k]]
        /\ failed' = (failed \/ iterErr)
        /\ IF LastBatch(i)
             THEN /\ pc' = "done"
                  /\ err' = (iterErr /\ i = 0)
                  /\ UNCHANGED curKey
             ELSE /\ curKey' = ResumeKey(batch)
                  /\ UNCHANGED <<pc, err>>
  /\ UNCHANGED <<where, stmt, setFails, orig>>

Init ==
  /\ rows \in [Keys -> Docs]
  /\ where \in SUBSET Vals
  /\ stmt \in SetClauses \cup UnsetClauses
  /\ setFails \in IF stmt.kind = "set" THEN SUBSET Vals ELSE {{}}
  /\ curKey = NoKey
  /\ pc = "loop"
  /\ err = FALSE
  /\ orig = rows
  /\ times = [k \in Keys |-> 0]
  /\ failed = FALSE

Next == Batch

\* Run is a plain loop of one goroutine: it keeps taking its next step.
Spec == Init /\ [][Next]_vars /\ WF_vars(Next)

(***************************************************************************)
(* Properties.                                                             *)
(***************************************************************************)
(***************************************************************************)
(* A statement whose SET clause never failed has updated every row that   *)
(* matched the WHERE clause before it started: resuming the scan at the   *)
(* last key of a full batch, and ending at the first short batch, never   *)
(* skips a matching row.                                                   *)
(***************************************************************************)
NoMatchingRowMissed ==
  (pc = "done" /\ ~failed) =>
    \A k \in Keys : orig[k]["a"] \in where => times[k] >= 1

(***************************************************************************)
(* Run always returns: every full batch moves the scan forward, so the    *)
(* loop ends at a short batch.                                             *)
(***************************************************************************)
Terminates == <>(pc = "done")

(***************************************************************************)
(* The statement does what the spec says of UPDATE: when Run returns      *)
(* without error, each matching row was replaced exactly once and no      *)
(* other row was touched (the scan resumes after the last key of a batch:*)
(* seek to next_key_after(last)); and the first evaluation error of the  *)
(* SET clause surfaces to the caller, so that the transaction rolls back. *)
(* The order in which stmt.set applies the pairs is not part of it: the   *)
(* spec does not say which row a SET expression sees.                     *)
(***************************************************************************)
UpdateMatchesSpec ==
  /\ []((pc = "done" /\ ~failed) =>
          \A k \in Keys : times[k] = IF orig[k]["a"] \in where THEN 1 ELSE 0)
  /\ []((pc = "done" /\ failed) => err)
====
