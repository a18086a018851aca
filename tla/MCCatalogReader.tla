-------------------------- MODULE MCCatalogReader --------------------------
(***************************************************************************)
(* Model-checking instance of CatalogReader: the names and paths of       *)
(* MCCatalog, a writer of at most two statements per transaction and one  *)
(* reader running GetTable.                                                *)
(***************************************************************************)
EXTENDS CatalogReader, TLC

CONSTANTS n1, n2, n3, sysCatalog, sysSequence, p1

MCUserNames == {n1, n2, n3}
MCPaths == {p1}
\* CREATE TABLE t or CREATE TABLE t(p1 ... PRIMARY KEY)
MCCreateConstraints == {{}, {[path |-> p1, pk |-> TRUE]}}

MCSymmetry == Permutations(MCUserNames)
====
