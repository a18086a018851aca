----------------------------- MODULE MCCatalog -----------------------------
(***************************************************************************)
(* Model-checking instance of Catalog: three user names, one field path.  *)
(***************************************************************************)
EXTENDS Catalog, TLC

CONSTANTS n1, n2, n3, sysCatalog, sysSequence, p1

MCUserNames == {n1, n2, n3}
MCPaths == {p1}
\* CREATE TABLE t or CREATE TABLE t(p1 ... PRIMARY KEY)
MCCreateConstraints == {{}, {[path |-> p1, pk |-> TRUE]}}

MCSymmetry == Permutations(MCUserNames)

(***************************************************************************)
(* Inputs excluded by the run that checks what holds apart from the two   *)
(* defects shown by the violation runs:                                    *)
(*   - DROP TABLE of a table that has indexes (catalogCache.DeleteTable    *)
(*     leaves them in c.indexes);                                          *)
(*   - renaming a table onto another cached table (updateTable does not  *)
(*     check the new name).                                                *)
(* Every other input of Catalog's Next is kept.                            *)
(***************************************************************************)
HasIndexes(n) == cache.perTable[n] # {}
OntoOtherTable(old, new) == new # old /\ new \in DOMAIN cache.tables

NextNoDefectInputs ==
  \/ Begin \/ Commit \/ Rollback \/ Restart
  \/ \E n \in Names, fcs \in CreateConstraints : CreateTable(n, fcs)
  \/ \E n \in Names : ~HasIndexes(n) /\ DropTable(n)
  \/ \E n \in Names, t \in Names, cons \in BOOLEAN : CreateIndex(n, t, cons)
  \/ \E n \in Names : DropIndex(n)
  \/ \E t \in Names, fc \in FieldConstraint : AddFieldConstraint(t, fc)
  \/ \E old, new \in Names : ~OntoOtherTable(old, new) /\ RenameTable(old, new)
  \/ \E n \in Names : ReIndex(n)
  \/ ReIndexAll
  \/ \E n \in Names : CreateSequence(n)
  \/ \E n \in Names : DropSequence(n)

SpecNoDefectInputs == Init /\ [][NextNoDefectInputs]_vars
====
