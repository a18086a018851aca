--------------------------- MODULE CatalogReader ---------------------------
(***************************************************************************)
(* A read-only transaction running Catalog.GetTable while the writable    *)
(* transaction of Catalog runs its statements (catalog.go:71-97).         *)
(*                                                                         *)
(* Read-only transactions run in parallel with the writer and read the    *)
(* engine through their own snapshot of the committed data.  The catalog  *)
(* cache is shared: GetTable reads it under its read lock twice, once for *)
(* the TableInfo (catalogCache.GetTable) and once for the table's index   *)
(* list (catalogCache.GetTableIndexes), and looks the table's store up in *)
(* the reader's own transaction in between.  Each writer statement is one *)
(* step here, so the reader may run between any two statements, and      *)
(* between its own two cache reads.                                        *)
(*                                                                         *)
(* A store is identified by the name of its table: a table of the         *)
(* reader's snapshot has its store there, the system tables always do.    *)
(***************************************************************************)
EXTENDS Catalog

VARIABLE
  rd    \* the reader: [pc, tbl, snap, err, ti, idx]

NoTable == [ro |-> FALSE, fcs |-> {}]

ReaderIdle == [pc |-> "idle", tbl |-> CatalogTableName, snap |-> <<>>,
               err |-> "none", ti |-> NoTable, idx |-> {}]

allVars == <<vars, rd>>

\* The reader's transaction begins: its snapshot is the committed rows.
ReaderBegin ==
  /\ rd.pc = "idle"
  /\ \E n \in Names :
       rd' = [ReaderIdle EXCEPT !.pc = "info", !.tbl = n, !.snap = Committed]
  /\ UNCHANGED vars

\* ti, err := c.cache.GetTable(tableName); return on ErrTableNotFound.
ReaderGetInfo ==
  /\ rd.pc = "info"
  /\ rd' = IF rd.tbl \in DOMAIN cache.tables
           THEN [rd EXCEPT !.pc = "store", !.ti = cache.tables[rd.tbl]]
           ELSE [rd EXCEPT !.pc = "done", !.err = "tableNotFound"]
  /\ UNCHANGED vars

\* s, err := tx.Tx.GetStore(ti.StoreName), in the reader's transaction.
ReaderGetStore ==
  /\ rd.pc = "store"
  /\ rd' = IF rd.tbl \in DOMAIN LoadCache(rd.snap).tables
           THEN [rd EXCEPT !.pc = "indexes"]
           ELSE [rd EXCEPT !.pc = "done", !.err = "storeNotFound", !.ti = NoTable]
  /\ UNCHANGED vars

\* idxInfos := c.cache.GetTableIndexes(tableName); the Table is returned.
ReaderGetIndexes ==
  /\ rd.pc = "indexes"
  /\ rd' = [rd EXCEPT !.pc = "done", !.idx = cache.perTable[rd.tbl]]
  /\ UNCHANGED vars

\* The read-only transaction ends.
ReaderEnd ==
  /\ rd.pc = "done"
  /\ rd' = ReaderIdle
  /\ UNCHANGED vars

ReaderStep == ReaderBegin \/ ReaderGetInfo \/ ReaderGetStore \/ ReaderGetIndexes \/ ReaderEnd

(***************************************************************************)
(* The writer's steps leave the reader alone; a restart of the process    *)
(* ends the reader's transaction as well.                                  *)
(***************************************************************************)
ReaderNext ==
  \/ (Begin \/ Commit \/ Rollback \/ Statement) /\ UNCHANGED rd
  \/ Restart /\ rd' = ReaderIdle
  \/ ReaderStep

ReaderInit == Init /\ rd = ReaderIdle

ReaderSpec == ReaderInit /\ [][ReaderNext]_allVars

(***************************************************************************)
(* What GetTable(n) returns in a transaction that sees the rows cat: the  *)
(* catalog Load would build from them.                                     *)
(***************************************************************************)
GetTableIn(cat, n) ==
  LET c == LoadCache(cat)
  IN IF n \in DOMAIN c.tables
     THEN [err |-> "none", ti |-> c.tables[n], idx |-> c.perTable[n]]
     ELSE [err |-> "tableNotFound", ti |-> NoTable, idx |-> {}]

(***************************************************************************)
(* Snapshot isolation for readers of the catalog: GetTable in a read-only *)
(* transaction returns the table as of the reader's snapshot, neither an  *)
(* uncommitted table, constraint or index of the concurrent writer nor an *)
(* error for a table the writer has dropped or renamed but not committed. *)
(***************************************************************************)
ReadersSeeSnapshot ==
  rd.pc = "done" =>
    [err |-> rd.err, ti |-> rd.ti, idx |-> rd.idx] = GetTableIn(rd.snap, rd.tbl)

(***************************************************************************)
(* The question of the catalog_defects run: does every view of the cache  *)
(* give the catalog it stands for?  The writer's, between transactions,   *)
(* and a concurrent reader's, at the end of its GetTable.                  *)
(***************************************************************************)
CatalogViewsConsistent == CacheMirrorsCatalog /\ ReadersSeeSnapshot
====
