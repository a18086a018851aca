------------------------------ MODULE Catalog ------------------------------
(***************************************************************************)
(* The catalog of genji (src/internal/database/catalog.go).               *)
(*                                                                         *)
(* Two copies of the schema are kept: the in-memory catalogCache (tables, *)
(* indexes, indexesPerTables, sequences) and the persisted rows of the     *)
(* __genji_catalog table (CatalogTable).  Every Catalog method mutates     *)
(* both inside the single writable transaction of the engine.  Each cache  *)
(* mutation appends a compensating closure to tx.OnRollbackHooks; when the *)
(* transaction aborts, the hooks run in LIFO order while the engine        *)
(* discards the persisted writes.                                          *)
(*                                                                         *)
(* Data is abstracted to names: a table is its read-only flag and its set *)
(* of field constraints, an index is the table it belongs to and whether  *)
(* a table constraint owns it.  Rows and index entries are not modelled    *)
(* here; building an index is an outcome that may fail.                    *)
(***************************************************************************)
EXTENDS Naturals, Sequences, FiniteSets

CONSTANTS
  UserNames,          \* names a statement may give a table, index or sequence
  CatalogTableName,   \* __genji_catalog: read-only, present only in the cache
  SequenceTableName,  \* __genji_sequence: writable, present only in the cache
  Paths,              \* field paths a constraint may be declared on
  CreateConstraints,  \* constraint sets a CREATE TABLE may declare
  MaxTxOps            \* bound: statements executed in one transaction

SystemTables == {CatalogTableName, SequenceTableName}
Names == UserNames \cup SystemTables

ASSUME SystemTables \cap UserNames = {} /\ MaxTxOps \in Nat \ {0}

FieldConstraint == [path: Paths, pk: BOOLEAN]
ASSUME CreateConstraints \subseteq SUBSET FieldConstraint

TableInfo == [ro: BOOLEAN, fcs: SUBSET FieldConstraint]
IndexInfo == [table: Names, cons: BOOLEAN]

VARIABLES
  cache,         \* catalogCache: [tables, indexes, perTable, seqs]
  catalog,       \* rows of the __genji_catalog store, keyed by name
  hooks,         \* tx.OnRollbackHooks, oldest first
  txState,       \* "none" | "open" | "failed" (a statement returned an error)
  snapshot,      \* catalog rows when the transaction began (engine undo)
  cacheAtBegin,  \* history: the cache when the transaction began
  nOps           \* statements run in the current transaction

vars == <<cache, catalog, hooks, txState, snapshot, cacheAtBegin, nOps>>

(***************************************************************************)
(* Partial functions keyed by name (Go maps).                              *)
(***************************************************************************)
Put(f, k, v) == [x \in DOMAIN f \cup {k} |-> IF x = k THEN v ELSE f[x]]
Drop(f, k)   == [x \in DOMAIN f \ {k} |-> f[x]]
Merge(f, g)  == [x \in DOMAIN f \cup DOMAIN g |->
                   IF x \in DOMAIN g THEN g[x] ELSE f[x]]
IsMapOf(f, S) == DOMAIN f \subseteq Names /\ \A x \in DOMAIN f : f[x] \in S

(***************************************************************************)
(* Rows of __genji_catalog (tableInfoToDocument, indexInfoToDocument,      *)
(* sequenceInfoToDocument): the name is the primary key.                   *)
(***************************************************************************)
\* Mutant: the table's field constraints are not written to its row.
TableRow_noFcs(ti) == [type |-> "table", fcs |-> {}]

TableRow(ti)    == [type |-> "table", fcs |-> ti.fcs]
IndexRow(info)  == [type |-> "index", table |-> info.table, cons |-> info.cons]
SequenceRow     == [type |-> "sequence"]

(***************************************************************************)
(* Table.Insert / Replace / Delete on the catalog store: an insert of an  *)
(* existing key is ErrDuplicateDocument, a replace or delete of a missing *)
(* key is an error.                                                        *)
(***************************************************************************)
InsertRow(cat, n, row) ==
  IF n \in DOMAIN cat THEN [err |-> TRUE, cat |-> cat]
                      ELSE [err |-> FALSE, cat |-> Put(cat, n, row)]
ReplaceRow(cat, n, row) ==
  IF n \notin DOMAIN cat THEN [err |-> TRUE, cat |-> cat]
                         ELSE [err |-> FALSE, cat |-> Put(cat, n, row)]
DeleteRow(cat, n) ==
  IF n \notin DOMAIN cat THEN [err |-> TRUE, cat |-> cat]
                         ELSE [err |-> FALSE, cat |-> Drop(cat, n)]

InsertTable(cat, n, ti)      == InsertRow(cat, n, TableRow(ti))
ReplaceTable(cat, n, ti)     == ReplaceRow(cat, n, TableRow(ti))
DeleteTableRow(cat, n)       == DeleteRow(cat, n)
InsertIndex(cat, n, info)    == InsertRow(cat, n, IndexRow(info))
DeleteIndexRow(cat, n)       == DeleteRow(cat, n)
InsertSequence(cat, n)       == InsertRow(cat, n, SequenceRow)
DeleteSequenceRow(cat, n)    == DeleteRow(cat, n)

(***************************************************************************)
(* Rollback hooks: each closure is a record of the values it captured.    *)
(***************************************************************************)
NoHook == [kind |-> "none"]

UndoAddTable(c, h) == [c EXCEPT !.tables = Drop(c.tables, h.name)]

UndoDeleteTable(c, h) ==
  [c EXCEPT !.tables   = Put(c.tables, h.name, h.ti),
            !.indexes  = Merge(c.indexes, h.removed),
            !.perTable = IF DOMAIN h.removed # {}
                           THEN [c.perTable EXCEPT ![h.name] = DOMAIN h.removed]
                           ELSE c.perTable]

UndoAddIndex(c, h) ==
  [c EXCEPT !.indexes = Drop(c.indexes, h.name),
            !.perTable[h.table] = h.previous]

UndoDeleteIndex(c, h) ==
  [c EXCEPT !.indexes = Put(c.indexes, h.name, h.info),
            !.perTable[h.info.table] = h.old]

\* Mutant: the undo puts the old name back with the modified clone.
UndoUpdateTable_keepsClone(c, h) ==
  [c EXCEPT !.tables   = Put(Drop(c.tables, h.newName), h.name,
                             c.tables[h.newName]),
            !.indexes  = Merge(c.indexes, h.oldIndexes),
            !.perTable = IF h.newName # h.name
                           THEN [c.perTable EXCEPT ![h.newName] = {},
                                                   ![h.name] = DOMAIN h.oldIndexes]
                           ELSE c.perTable]

UndoUpdateTable(c, h) ==
  [c EXCEPT !.tables   = Put(Drop(c.tables, h.newName), h.name, h.ti),
            !.indexes  = Merge(c.indexes, h.oldIndexes),
            !.perTable = IF h.newName # h.name
                           THEN [c.perTable EXCEPT ![h.newName] = {},
                                                   ![h.name] = DOMAIN h.oldIndexes]
                           ELSE c.perTable]

UndoAddSequence(c, h)    == [c EXCEPT !.seqs = @ \ {h.name}]
UndoDeleteSequence(c, h) == [c EXCEPT !.seqs = @ \cup {h.name}]

Undo(c, h) ==
  CASE h.kind = "addTable"       -> UndoAddTable(c, h)
    [] h.kind = "deleteTable"    -> UndoDeleteTable(c, h)
    [] h.kind = "addIndex"       -> UndoAddIndex(c, h)
    [] h.kind = "deleteIndex"    -> UndoDeleteIndex(c, h)
    [] h.kind = "updateTable"    -> UndoUpdateTable(c, h)
    [] h.kind = "addSequence"    -> UndoAddSequence(c, h)
    [] h.kind = "deleteSequence" -> UndoDeleteSequence(c, h)

\* Transaction.Rollback runs the hooks newest first.
RECURSIVE RunHooks(_, _)
RunHooks(c, hs) ==
  IF hs = <<>> THEN c
  ELSE RunHooks(Undo(c, hs[Len(hs)]), SubSeq(hs, 1, Len(hs) - 1))

(***************************************************************************)
(* catalogCache methods.  Each runs under the cache's write lock, so each  *)
(* is one atomic step; it returns the new cache and the hook it appended.  *)
(***************************************************************************)
Fail(c)    == [err |-> TRUE, c |-> c, hook |-> NoHook]
Ok(c, h)   == [err |-> FALSE, c |-> c, hook |-> h]
Taken(c, n) == n \in DOMAIN c.tables \cup DOMAIN c.indexes \cup c.seqs

CacheAddTable(c, n, ti) ==
  IF Taken(c, n) THEN Fail(c)
  ELSE Ok([c EXCEPT !.tables = Put(c.tables, n, ti)],
          [kind |-> "addTable", name |-> n])

\* The indexes of the table are collected but stay in c.indexes.
CacheDeleteTable(c, n) ==
  IF n \notin DOMAIN c.tables \/ c.tables[n].ro THEN Fail(c)
  ELSE LET removed == [i \in {j \in DOMAIN c.indexes : c.indexes[j].table = n}
                        |-> c.indexes[i]]
       IN Ok([c EXCEPT !.tables = Drop(c.tables, n), !.perTable[n] = {}],
             [kind |-> "deleteTable", name |-> n, ti |-> c.tables[n],
              removed |-> removed])

\* The index name is given (name generation is not modelled here).
CacheAddIndex(c, n, info) ==
  IF Taken(c, n) \/ info.table \notin DOMAIN c.tables THEN Fail(c)
  ELSE Ok([c EXCEPT !.indexes = Put(c.indexes, n, info),
                    !.perTable[info.table] = @ \cup {n}],
          [kind |-> "addIndex", name |-> n, table |-> info.table,
           previous |-> c.perTable[info.table]])

\* Mutant: the index leaves the global map but not its table's list.
CacheDeleteIndex_keepsPerTable(c, n) ==
  IF n \notin DOMAIN c.indexes \/ c.indexes[n].cons THEN Fail(c)
  ELSE Ok([c EXCEPT !.indexes = Drop(c.indexes, n)],
          [kind |-> "deleteIndex", name |-> n, info |-> c.indexes[n],
           old |-> c.perTable[c.indexes[n].table]])

CacheDeleteIndex(c, n) ==
  IF n \notin DOMAIN c.indexes \/ c.indexes[n].cons THEN Fail(c)
  ELSE LET t == c.indexes[n].table
       IN Ok([c EXCEPT !.indexes = Drop(c.indexes, n),
                       !.perTable[t] = @ \ {n}],
             [kind |-> "deleteIndex", name |-> n, info |-> c.indexes[n],
              old |-> c.perTable[t]])

\* FieldConstraints.Add: one constraint per path, at most one primary key.
FieldConstraintsAdd(fcs, fc) ==
  IF \E x \in fcs : x.path = fc.path \/ (x.pk /\ fc.pk)
    THEN [err |-> TRUE, fcs |-> fcs]
    ELSE [err |-> FALSE, fcs |-> fcs \cup {fc}]

(***************************************************************************)
(* updateTable clones the TableInfo, lets fn modify the clone and, when   *)
(* the name changed, moves the table's indexes to the new name.  The new  *)
(* name is not checked against the cache.  fn is one of the two callbacks *)
(* of the code, given as a record: a rename, or a field constraint added. *)
(***************************************************************************)
UpdateFn(fn, nm, ti) ==
  IF fn.kind = "rename"
    THEN [err |-> FALSE, name |-> fn.new, ti |-> ti]
    ELSE LET r == FieldConstraintsAdd(ti.fcs, fn.fc)
         IN [err |-> r.err, name |-> nm, ti |-> [ti EXCEPT !.fcs = r.fcs]]

CacheUpdateTable(c, n, fn) ==
  IF n \notin DOMAIN c.tables \/ c.tables[n].ro THEN Fail(c)
  ELSE
    LET r       == UpdateFn(fn, n, c.tables[n])
        renamed == r.name # n
        moved   == IF renamed THEN c.perTable[n] ELSE {}
        oldIdx  == [i \in moved |-> c.indexes[i]]
        newIdx  == [i \in moved |-> [c.indexes[i] EXCEPT !.table = r.name]]
        tabs    == IF renamed THEN Drop(c.tables, n) ELSE c.tables
        per     == IF moved # {}
                     THEN [c.perTable EXCEPT ![r.name] = moved, ![n] = {}]
                     ELSE c.perTable
    IN IF r.err THEN Fail(c)
       ELSE Ok([c EXCEPT !.tables = Put(tabs, r.name, r.ti),
                         !.indexes = Merge(c.indexes, newIdx),
                         !.perTable = per],
               [kind |-> "updateTable", name |-> n, newName |-> r.name,
                ti |-> c.tables[n], oldIndexes |-> oldIdx])

CacheAddSequence(c, n) ==
  IF Taken(c, n) THEN Fail(c)
  ELSE Ok([c EXCEPT !.seqs = @ \cup {n}], [kind |-> "addSequence", name |-> n])

\* Mutant: the sequence is reported dropped but stays cached.
CacheDeleteSequence_keeps(c, n) ==
  IF n \notin c.seqs THEN Fail(c)
  ELSE Ok(c, [kind |-> "deleteSequence", name |-> n])

CacheDeleteSequence(c, n) ==
  IF n \notin c.seqs THEN Fail(c)
  ELSE Ok([c EXCEPT !.seqs = @ \ {n}], [kind |-> "deleteSequence", name |-> n])

\* buildIndex iterates the table; Index.Set may reject a duplicate value.
BuildIndexOutcomes == {"ok", "duplicate"}

(***************************************************************************)
(* Statements.  A statement runs while the transaction is open; when it    *)
(* returns an error the cache keeps the effects it already had and the    *)
(* transaction must roll back.  Persisted writes of a failed statement are *)
(* discarded by that rollback, so they are not kept.                       *)
(***************************************************************************)
StmtGuard == txState = "open" /\ nOps < MaxTxOps

Succeed(c, cat, hs) ==
  /\ cache' = c /\ catalog' = cat /\ hooks' = hs /\ nOps' = nOps + 1
  /\ UNCHANGED <<txState, snapshot, cacheAtBegin>>

FailStmt(c, hs) ==
  /\ cache' = c /\ hooks' = hs /\ txState' = "failed" /\ nOps' = nOps + 1
  /\ UNCHANGED <<catalog, snapshot, cacheAtBegin>>

\* Catalog.CreateTable: persisted row first, then the cache.
CreateTable(n, fcs) ==
  /\ StmtGuard
  /\ LET ti  == [ro |-> FALSE, fcs |-> fcs]
         ins == InsertTable(catalog, n, ti)
         add == CacheAddTable(cache, n, ti)
     IN IF ins.err \/ add.err THEN FailStmt(cache, hooks)
        ELSE Succeed(add.c, ins.cat, Append(hooks, add.hook))

\* Catalog.dropIndex over the indexes removed with a table.
DropIndexes(cat, S) ==
  IF S \subseteq DOMAIN cat THEN [err |-> FALSE, cat |-> [x \in DOMAIN cat \ S |-> cat[x]]]
                            ELSE [err |-> TRUE, cat |-> cat]

\* Catalog.DropTable: cache first, then the index rows, then the table row.
DropTable(n) ==
  /\ StmtGuard
  /\ LET del == CacheDeleteTable(cache, n)
         hs  == Append(hooks, del.hook)
         di  == DropIndexes(catalog, DOMAIN del.hook.removed)
         dt  == DeleteTableRow(di.cat, n)
     IN IF del.err THEN FailStmt(cache, hooks)
        ELSE IF di.err \/ dt.err THEN FailStmt(del.c, hs)
        ELSE Succeed(del.c, dt.cat, hs)

\* Catalog.CreateIndex: cache, persisted row, then build over the rows.
CreateIndex(n, t, cons) ==
  /\ StmtGuard
  /\ LET info == [table |-> t, cons |-> cons]
         add  == CacheAddIndex(cache, n, info)
         hs   == Append(hooks, add.hook)
         ins  == InsertIndex(catalog, n, info)
     IN IF add.err THEN FailStmt(cache, hooks)
        ELSE IF ins.err THEN FailStmt(add.c, hs)
        ELSE \E o \in BuildIndexOutcomes :
               IF o = "ok" THEN Succeed(add.c, ins.cat, hs)
                           ELSE FailStmt(add.c, hs)

\* Catalog.DropIndex: refused for indexes owned by a table constraint.
DropIndex(n) ==
  /\ StmtGuard
  /\ LET del == CacheDeleteIndex(cache, n)
         hs  == Append(hooks, del.hook)
         dr  == DeleteIndexRow(catalog, n)
     IN IF del.err THEN FailStmt(cache, hooks)
        ELSE IF dr.err THEN FailStmt(del.c, hs)
        ELSE Succeed(del.c, dr.cat, hs)

\* Catalog.AddFieldConstraint: update the clone, then replace the row.
AddFieldConstraint(t, fc) ==
  /\ StmtGuard
  /\ LET upd == CacheUpdateTable(cache, t, [kind |-> "fc", fc |-> fc])
         hs  == Append(hooks, upd.hook)
         rep == ReplaceTable(catalog, t, upd.c.tables[t])
     IN IF upd.err THEN FailStmt(cache, hooks)
        ELSE IF rep.err THEN FailStmt(upd.c, hs)
        ELSE Succeed(upd.c, rep.cat, hs)

\* Catalog.replaceIndex for every moved index, retargeted to table t.
ReplaceIndexes(cat, S, t) ==
  IF S \subseteq DOMAIN cat
    THEN [err |-> FALSE,
          cat |-> [x \in DOMAIN cat |-> IF x \in S THEN [cat[x] EXCEPT !.table = t]
                                                   ELSE cat[x]]]
    ELSE [err |-> TRUE, cat |-> cat]

\* Catalog.RenameTable: cache, row under the new name, index rows, old row.
RenameTable(old, new) ==
  /\ StmtGuard
  /\ LET upd == CacheUpdateTable(cache, old, [kind |-> "rename", new |-> new])
         hs  == Append(hooks, upd.hook)
         ins == InsertTable(catalog, new, upd.c.tables[new])
         rep == ReplaceIndexes(ins.cat, DOMAIN upd.hook.oldIndexes, new)
         del == DeleteTableRow(rep.cat, old)
     IN IF upd.err THEN FailStmt(cache, hooks)
        ELSE IF ins.err \/ rep.err \/ del.err THEN FailStmt(upd.c, hs)
        ELSE Succeed(upd.c, del.cat, hs)

\* Catalog.ReIndex: GetIndex, GetTable of its table, truncate, rebuild.
ReIndex(n) ==
  /\ StmtGuard
  /\ IF n \notin DOMAIN cache.indexes
        \/ cache.indexes[n].table \notin DOMAIN cache.tables
       THEN FailStmt(cache, hooks)
       ELSE \E o \in BuildIndexOutcomes :
              IF o = "ok" THEN Succeed(cache, catalog, hooks)
                          ELSE FailStmt(cache, hooks)

\* Catalog.ReIndexAll: ReIndex of every index listed by the cache.
ReIndexAll ==
  /\ StmtGuard
  /\ IF \E i \in DOMAIN cache.indexes : cache.indexes[i].table \notin DOMAIN cache.tables
       THEN FailStmt(cache, hooks)
       ELSE \E o \in BuildIndexOutcomes :
              IF o = "ok" \/ DOMAIN cache.indexes = {}
                THEN Succeed(cache, catalog, hooks)
                ELSE FailStmt(cache, hooks)

\* Catalog.CreateSequence: row, sequence counter, then the cache.
CreateSequence(n) ==
  /\ StmtGuard
  /\ LET ins == InsertSequence(catalog, n)
         add == CacheAddSequence(cache, n)
     IN IF ins.err \/ add.err THEN FailStmt(cache, hooks)
        ELSE Succeed(add.c, ins.cat, Append(hooks, add.hook))

\* Catalog.DropSequence: cache, then the row.
DropSequence(n) ==
  /\ StmtGuard
  /\ LET del == CacheDeleteSequence(cache, n)
         hs  == Append(hooks, del.hook)
         dr  == DeleteSequenceRow(catalog, n)
     IN IF del.err THEN FailStmt(cache, hooks)
        ELSE IF dr.err THEN FailStmt(del.c, hs)
        ELSE Succeed(del.c, dr.cat, hs)

(***************************************************************************)
(* The writable transaction (one at a time; the engine serialises them).  *)
(***************************************************************************)
Begin ==
  /\ txState = "none"
  /\ txState' = "open" /\ snapshot' = catalog /\ cacheAtBegin' = cache
  /\ hooks' = <<>> /\ nOps' = 0
  /\ UNCHANGED <<cache, catalog>>

\* Mutant: commit keeps the hooks of the finished transaction.
Commit_keepsHooks ==
  /\ txState = "open"
  /\ txState' = "none"
  /\ UNCHANGED <<cache, catalog, hooks, snapshot, cacheAtBegin, nOps>>

\* Committing keeps the writes and discards the hooks.
Commit ==
  /\ txState = "open"
  /\ txState' = "none" /\ hooks' = <<>>
  /\ UNCHANGED <<cache, catalog, snapshot, cacheAtBegin, nOps>>

\* ROLLBACK, a failed statement or a failed commit: hooks LIFO, engine undo.
Rollback ==
  /\ txState \in {"open", "failed"}
  /\ cache' = RunHooks(cache, hooks)
  /\ catalog' = snapshot
  /\ txState' = "none" /\ hooks' = <<>>
  /\ UNCHANGED <<snapshot, cacheAtBegin, nOps>>

(***************************************************************************)
(* Start-up.  The infos read back from the __genji_catalog rows are given *)
(* to Catalog.Load, which appends the two system tables (__genji_catalog  *)
(* made read-only); catalogCache.load then fills the maps in that order,  *)
(* so a system table replaces a user row of the same name.                *)
(***************************************************************************)
LoadedTables(cat) ==
  [n \in {x \in DOMAIN cat : cat[x].type = "table"} |-> [ro |-> FALSE, fcs |-> cat[n].fcs]]

LoadedIndexes(cat) ==
  [n \in {x \in DOMAIN cat : cat[x].type = "index"} |->
     [table |-> cat[n].table, cons |-> cat[n].cons]]

SystemTableInfos == [n \in SystemTables |-> [ro |-> n = CatalogTableName, fcs |-> {}]]

LoadCache(cat) ==
  LET is == LoadedIndexes(cat)
  IN [tables   |-> Merge(LoadedTables(cat), SystemTableInfos),
      indexes  |-> is,
      perTable |-> [t \in Names |-> {i \in DOMAIN is : is[i].table = t}],
      seqs     |-> {x \in DOMAIN cat : cat[x].type = "sequence"}]

\* A new database: no rows yet.
InitCache == LoadCache(<<>>)

(***************************************************************************)
(* The process stops at any step and the database is opened again.  The   *)
(* engine keeps the committed rows and discards an open transaction; the  *)
(* cache and the rollback hooks lived in memory and are rebuilt by Load.  *)
(***************************************************************************)
Committed == IF txState = "none" THEN catalog ELSE snapshot

Restart ==
  /\ catalog' = Committed
  /\ cache' = LoadCache(Committed)
  /\ txState' = "none" /\ hooks' = <<>>
  /\ UNCHANGED <<snapshot, cacheAtBegin, nOps>>

Init ==
  /\ cache = InitCache
  /\ catalog = <<>>
  /\ hooks = <<>>
  /\ txState = "none"
  /\ snapshot = <<>>
  /\ cacheAtBegin = InitCache
  /\ nOps = 0

\* One statement of the writable transaction, with any inputs.
Statement ==
  \/ \E n \in Names, fcs \in CreateConstraints : CreateTable(n, fcs)
  \/ \E n \in Names : DropTable(n)
  \/ \E n \in Names, t \in Names, cons \in BOOLEAN : CreateIndex(n, t, cons)
  \/ \E n \in Names : DropIndex(n)
  \/ \E t \in Names, fc \in FieldConstraint : AddFieldConstraint(t, fc)
  \/ \E old, new \in Names : RenameTable(old, new)
  \/ \E n \in Names : ReIndex(n)
  \/ ReIndexAll
  \/ \E n \in Names : CreateSequence(n)
  \/ \E n \in Names : DropSequence(n)

Next == Begin \/ Commit \/ Rollback \/ Restart \/ Statement

Spec == Init /\ [][Next]_vars

(***************************************************************************)
(* Invariants and properties.                                              *)
(***************************************************************************)
HookKinds == {"addTable", "deleteTable", "addIndex", "deleteIndex",
              "updateTable", "addSequence", "deleteSequence"}

\* The shape of every variable; no hook is kept outside a transaction.
TypeOK ==
  /\ IsMapOf(cache.tables, TableInfo)
  /\ IsMapOf(cache.indexes, IndexInfo)
  /\ cache.perTable \in [Names -> SUBSET Names]
  /\ cache.seqs \subseteq Names
  /\ DOMAIN catalog \subseteq Names
  /\ \A i \in 1..Len(hooks) : hooks[i].kind \in HookKinds
  /\ txState \in {"none", "open", "failed"}
  /\ nOps \in 0..MaxTxOps
  /\ txState = "none" => hooks = <<>>

(***************************************************************************)
(* The rows the cache stands for: every user table, index and sequence of *)
(* the cache as a __genji_catalog row.                                     *)
(***************************************************************************)
CacheRows ==
  LET ts == DOMAIN cache.tables \ SystemTables
      is == DOMAIN cache.indexes
  IN [n \in ts \cup is \cup cache.seqs |->
        IF n \in ts THEN TableRow(cache.tables[n])
        ELSE IF n \in is THEN IndexRow(cache.indexes[n])
        ELSE SequenceRow]

(***************************************************************************)
(* Between transactions the cache mirrors __genji_catalog: the same names *)
(* with the same kind and content, no name of two kinds, and the system   *)
(* tables still cached with __genji_catalog read-only.  A statement that  *)
(* updates the cache and the store differently, or a rollback that does   *)
(* not undo the cache, breaks it after the transaction ends.               *)
(***************************************************************************)
CacheMirrorsCatalog ==
  txState = "none" =>
    /\ CacheRows = catalog
    /\ DOMAIN cache.tables \cap DOMAIN cache.indexes = {}
    /\ (DOMAIN cache.tables \cup DOMAIN cache.indexes) \cap cache.seqs = {}
    /\ SystemTables \subseteq DOMAIN cache.tables
    /\ cache.tables[CatalogTableName].ro

(***************************************************************************)
(* At every step, inside transactions too, the per-table index lists       *)
(* (GetTableIndexes, used by GetTable to maintain indexes on writes) agree *)
(* with the global index map (GetIndex, ListIndexes, ReIndexAll), and      *)
(* every index belongs to a table of the cache.                            *)
(***************************************************************************)
IndexesMatchPerTable ==
  /\ \A i \in DOMAIN cache.indexes : cache.indexes[i].table \in DOMAIN cache.tables
  /\ \A t \in Names :
       cache.perTable[t] = {i \in DOMAIN cache.indexes : cache.indexes[i].table = t}

(***************************************************************************)
(* A rollback (ROLLBACK, a failed statement, a failed commit) leaves the  *)
(* cache exactly as it was when the transaction began: the LIFO hooks     *)
(* undo every cache mutation of the transaction.                           *)
(***************************************************************************)
RollbackRestoresCache == [][Rollback => cache' = cacheAtBegin]_vars

(***************************************************************************)
(* A restart loses exactly the open transaction: the cache Load rebuilds  *)
(* from the committed __genji_catalog rows equals the cache as of the last *)
(* commit (the cache at Begin when a transaction was open).  A catalog    *)
(* row that does not round-trip a TableInfo or IndexInfo, or a cache      *)
(* entry with no row behind it, breaks it.                                 *)
(***************************************************************************)
RestartRestoresCommittedCache ==
  [][Restart => cache' = IF txState = "none" THEN cache ELSE cacheAtBegin]_vars
====
