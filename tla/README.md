# TLA+ models of genji

These modules model the parts of genji where correctness depends on a sequence of steps or on arithmetic at the edges. Genji is an embedded SQL document database; its code is in `src/`. Each module is translated from the Go source. `PROJECT.json` maps every definition to the lines it models, lists the TLC runs, the mutants that show each property can fail, the findings and the hazards.

## The system and its parts

| Part | Source | State and operations | Module |
|---|---|---|---|
| Catalog and catalog cache | `src/internal/database/catalog.go` | The in-memory `catalogCache` (tables, indexes, indexes per table, sequences) and the persisted `__genji_catalog` rows. Statements: CreateTable, DropTable, CreateIndex, DropIndex, AddFieldConstraint, RenameTable, ReIndex, ReIndexAll, CreateSequence, DropSequence. Every cache change pushes a rollback hook on the transaction. Restart and `Load`. A read-only transaction running `Catalog.GetTable` concurrently with the writer. | `Catalog`, `MCCatalog`, `CatalogReader`, `MCCatalogReader` |
| UPDATE statement | `src/sql/query/update.go` | `UpdateStmt.Run`: a resumable batched scan, the SET/UNSET rewrite, then write-back with `Table.Replace`. | `Update`, `MCUpdate` |
| Comparison operators | `src/sql/query/expr/comparison.go` | `IterateIndex` and `IteratePK` of `=`, `>`, `>=`, `<`, `<=`; the evaluation of comparisons, IN, NOT IN, IS and IS NOT. | `Scan` refining `ScanSpec`, `MCScan`; `Values` |
| Range model | `src/unnamed/part_002` | `ValueRange`/`IndexRange`: IsInRange, Cost, IsEqual, Append. | `Range`, `MCRange` |
| Value evaluation | `src/document/value.go`, `src/document/cast.go` | `calculateValues`, `calculateIntegers` (int64 with overflow detection), `calculateFloats`; `CastAs` and every `CastAs<T>`; `IsTruthy`/`IsZeroValue`. | `Values`, `MCValues` |
| Aggregators | `src/unnamed/part_001`, `src/types/types.go` | COUNT, MIN, MAX, SUM, AVG: Aggregate per row, Eval at the end of the group. | `Aggregate`, `MCAggregate` |
| SELECT parser | `src/sql/parser/select.go` | `parseSelectStatement` and the clause parsers (DISTINCT, projected expressions, FROM, WHERE, GROUP BY, ORDER BY, LIMIT, OFFSET), then `selectConfig.ToStream` with its error checks. | `SelectParser`, `MCSelectParser` |
| Integer arithmetic, composed | `src/document/value.go`, `src/unnamed/part_001` | Expression evaluation and SUM side by side, asked one question about int64 overflow. | `MCOverflow` (composes `Values` and `Aggregate`) |
| Stream iterator, tests | `stream/iterator.go`, `create_test.go`, `part_000` | An adapter and the tests. | not modelled (see below) |

How the parts interact:
- A statement runs inside a `Transaction`. Catalog statements change the shared cache first and then the catalog table. When the transaction fails, the hooks run newest first and undo the cache changes. The store's own rollback undoes the rows. When the database is reopened, `Load` rebuilds the cache from the committed rows.
- UPDATE reads through the table store, filters with the WHERE expression (which uses the comparison operators) and evaluates SET expressions. Those expressions use the value arithmetic.
- The planner turns comparison predicates into index or primary-key range scans (the `Iterate*` methods of the comparison operators). It builds range lists and orders plans by their Cost.
- The aggregators run over the groups of a query and compare values by the same type order.

## Modules and how they correspond to the code

**Catalog.** The state is:
- `cache`, a record of the four maps of `catalogCache`;
- `catalog`, the rows of `__genji_catalog`, keyed by name;
- `txState`, which is "none", "open" or "failed" (a statement returned an error);
- `hooks`, the `OnRollbackHooks` stack, where a hook is a record naming what it restores;
- `snapshot`, the rows when the transaction began, which the engine's rollback restores;
- `cacheAtBegin`, a history variable holding the cache when the transaction began;
- `nOps`, the number of statements in the transaction.

Each `Catalog` method is one action:
- Its cache mutation is the `Cache*` operator of the `catalogCache` method. The operator returns either a failure or the new cache with the hook it pushed.
- The catalog-table calls that follow (`insertTable`, `replaceIndex`, `deleteTable`, ...) are part of the same action.
- When any step fails, the whole statement fails and keeps the changes made so far, as in the code. The transaction must then roll back.

The transaction actions:
- `Rollback` runs the hooks newest first (`RunHooks`), and `Commit` drops them.
- `Restart` may happen at any step. The engine keeps the committed rows, and an open transaction is lost. `LoadCache` is `Catalog.Load` plus `catalogCache.load`: it rebuilds the cache from the infos read back from the rows, after appending the two system tables.

**CatalogReader** extends Catalog with a read-only transaction `rd` that runs `Catalog.GetTable` (catalog.go:71-97). Read-only transactions run in parallel with the writer (spec section 5). The reader's steps:
- `ReaderBegin` takes the committed rows as the reader's snapshot and chooses a table name.
- `ReaderGetInfo` is `catalogCache.GetTable` under the read lock. It returns ErrTableNotFound when the name is not cached.
- `ReaderGetStore` is `tx.Tx.GetStore` in the reader's own transaction. A store is identified by its table's name: it exists when the snapshot has the table.
- `ReaderGetIndexes` is `catalogCache.GetTableIndexes` under a second read lock, after which the Table is returned.
- `ReaderEnd` ends the transaction.

Writer statements are whole steps, so the reader runs between any two statements, and also between its own two cache reads. A restart ends the reader too. `GetTableIn(cat, n)` is what GetTable returns in a transaction that sees the rows `cat`.

Names, index paths and build outcomes are small sets. A REINDEX or CREATE INDEX build may fail on a duplicate value (`BuildIndexOutcomes`).

**Update.** The state is:
- `rows`, where a document is a function from the fields `a` and `b` to a value, or to `Missing` once UNSET removed the field;
- the statement, chosen once in `Init`:
  - `where`, the accepted values of `a`;
  - `stmt`, either SET (a map from field names to a constant or another field) or UNSET (a set of field names);
  - `setFails`, the values of `a` on which SET evaluation returns an error;
- `curKey`, `pc` and `err` of `Run`;
- ghosts: `orig`, `times` (how often each row was replaced) and `failed`.

`Batch` is one iteration of the `for` loop: Seek, filter, Limit, the callback up to its first failing SET, the Replace loop, the break test and the resume key. Each rewritten row gets its own order of the SET pairs (`PairOrders`), because `stmt.set` ranges over a Go map. Every expression is evaluated on the document being rewritten (`SetPairs`). So SET a = 1, b = a gives (1, 1) or (1, 0), depending on the map order. The spec does not say which row a SET expression sees, so no property states which result is right.

**Scan and ScanSpec.** `ScanSpec` is what a range scan promises (spec 4.4, 4.5, 5):
- the rows of its range, `result`, reach the callback one at a time, in store order;
- it returns nil after the last of them;
- or it returns an error at any step, because a read or the callback failed.

`Scan` is the code. One scan is chosen in `Init`: the operator, the access path (index or primary key), the operand and the table. The sequence the iterator visits (`Visited`) is:
- for an index, `AscendGreaterOrEqual` from `v`, or from `EmptyPivot(v.Type)` for `<` and `<=`;
- for a primary-key scan, the store from `Seek(data)` or from `Seek(nil)`, or the single row of `Store.Get`.

Each visited entry is handled by one action:
- `Emit` passes the row to the callback;
- `Skip` returns nil from the callback (only `>`);
- `Stop` covers errStop, break and `return nil`;
- `Fail` covers a failing read, comparison or callback;
- `End` fires when the iterator is no longer valid.

The decision is the per-operator operator named after the method (`IndexLt` is `ltOp.IterateIndex`, `PKGt` is `gtOp.IteratePK`). Encoded values are naturals ordered as `bytes.Compare` orders the encoding: values of one type in value order, types by tag. Documents are naturals drawn from `Docs`, so that every order of a document against a key occurs.

The refinement mapping sends `result` to `Expected`, the keys of the rows the spec's range selects, in store order. The other variables map to themselves.

**Range.** The state is two lists being built by `Append`. Every range and every list within the bound is checked for IsInRange and Cost against the spec's definitions. `IsEqual`, which Append uses to drop duplicates, compares `Value`s whose IsEqual is not under `src/`. It is taken as record equality, so no property is stated about duplicates.

**Values.** An operator and two operands, or a unary operator (a cast target or the truth test) and one operand, are chosen. One action evaluates the expression once:
- `Calculate` evaluates `calculateValues`.
- `Cast` evaluates `CastAs`, as `CastFunc.Eval` calls it.
- `Comparison` evaluates `cmpOp.Eval`.
- `In`, `NotIn`, `Is` and `IsNot` evaluate the `Eval` of `inOp`, `notInOp`, `isOp` and `isNotOp`.
- `Truthy` evaluates `IsTruthy`.
- Integers are W-bit two's complement, with Go's wrapping, truncating division and bit operators.
- Doubles are exact rationals (records `num`/`den`, reduced with a RECURSIVE `GCD`). `calculateFloats` is `+ - * /` on them, with `%` as `math.Mod` and Null for a zero divisor. Float64 rounding is not modelled; it is exact for the sums, products and remainders of the halves used as inputs.
- Go's `int64(f)` (`GoInt64`) is the exact truncation when it fits. Otherwise it is a choice between MinInt (amd64) and saturation (arm64): the language leaves it to the implementation.
- A text is one of eight literals. `IntSyntax`, `FloatSyntax`, `BoolSyntax`, `Base64Ok`, `JSONArrays` and `JSONDocuments` say what `strconv.ParseInt`, `ParseFloat`, `ParseBool`, base64 decoding and JSON unmarshalling make of each.
- A blob carries the base64 literal it decodes from, and an array its elements. A document is abstracted to its number of fields, and `MarshalJSON` to one text.
- `Value.IsEqual`/`IsLesserThan` and `ArrayContains` are not under `src/`. `ValueEq` and `ValueLess` follow spec 4.1: numbers by value, other types by content within a type and by type family across types.
- `Reference` is written from spec 4.1, 8.6 and 8.7, independently of the code. It gives the exact result, the cast table, or three-valued logic with the zeros of each type.

**Aggregate.** A group of `NRows` values is chosen, and `AggregateRow` feeds each row to all five aggregators. `MinEval`, `MaxEval`, `SumEval` and `AvgEval` are the Eval methods read once the group has ended. AVG's result is a fraction `num / den`, because the mean of integral values need not be integral.

**SelectParser.** A statement is a sequence of tokens after SELECT. An expression is one token, because `ParseExpr` is not under `src/`.
- Each clause parser is an operator from a token sequence and a position to `[ok, pos, val]`. A parser that does not find its keyword returns its position unchanged, which stands for the scanner's `Unscan`.
- `ProjectedLoop` is the loop of `parseProjectedExprs`; it fails on a repeated result name.
- `ToStream` builds the stream stages in the code's order (table scan, filter, group-by or hash aggregate, projection, distinct, sort, skip, take) and returns the code's errors: a grouped field outside GROUP BY, a non-numeric LIMIT or OFFSET, a wildcard without a table.
- `ParseSelectStatement` chains the clause parsers as the code does; without FROM it stops after the projection. `ParseQuery` accepts only when every token is consumed.
- The state is the input (`toks`, and `origin`, the grammar configurations the input renders from), `done` and `res`. The one action, `Parse`, parses the input.
- The reference `Expected(c)` is written from spec 4.6: a configuration `c` of clauses is rendered to tokens by `Render`, and `Expected` gives the stream the spec's semantics build, or rejection when one of its validity rules fails.

**MCOverflow.** Composes `Values` (W = 4) and an instance of `Aggregate` (three rows of 1 or 3, W = 3). Each step is a step of one of them. Their variables are listed explicitly, because TLC does not evaluate `UNCHANGED` of an instance's `vars` tuple here.

## Runs

| Run | Expect | Checks | Shows |
|---|---|---|---|
| `MCCatalog.cfg` | pass | TypeOK, CacheMirrorsCatalog, IndexesMatchPerTable, RollbackRestoresCache, RestartRestoresCommittedCache | Covers up to two statements per transaction over three names, with restarts at any step. Outside a transaction the cache equals the catalog. Per-table index lists agree with the index map. Rollback restores the cache exactly. A restart rebuilds the cache of the last commit. `SpecNoDefectInputs` excludes only the two inputs that reach the defects below. |
| `MCCatalogReader.cfg` (module `MCCatalogReader`) | violation | CatalogViewsConsistent | Checks `CacheMirrorsCatalog` together with `ReadersSeeSnapshot`; each conjunct was also checked alone. A concurrent reader's GetTable sees the writer's uncommitted changes (catalog.go:72). For example, after an uncommitted CREATE TABLE the reader fails on a store that is not in its snapshot. With every input allowed, the cache also stops mirroring the catalog. Renaming onto a cached table overwrites it, and the rollback then deletes it (catalog.go:711); a rename onto `__genji_catalog` can even commit. DROP TABLE leaves the table's indexes in the cache (catalog.go:466). |
| `MCUpdate.cfg` | pass | NoMatchingRowMissed, Terminates | Every matching row is updated, and the loop ends. |
| `MCUpdate_spec.cfg` | violation | UpdateMatchesSpec | A SET error after the first row of a batch is lost (update.go:104): TLC's trace rewrites row 1, fails SET on row 2, and Run returns no error. With the exactly-once conjunct checked alone, the last row of a full batch is updated twice (update.go:114). The order of the SET pairs (update.go:122) is not part of the property, because the spec does not say which row a SET expression sees. |
| `MCScan.cfg` | pass | ScanRefinesSpec | All five index scans, and the `=` and `>=` primary-key scans, implement ScanSpec. |
| `MCScan_pk.cfg` | violation | ScanRefinesSpec | The `>`, `<` and `<=` primary-key scans compare the operand with the document bytes, not the key (comparison.go:131, 241, 303). `pk < 1` returns row 1. |
| `MCRange.cfg` | pass | IndexInRangeMatchesSpec, IndexCostMatchesSpec | IndexRange.IsInRange and IndexRanges.Cost agree with the spec for every range shape and list. |
| `MCRange_values.cfg` | violation | ValueRangesMatchSpec | ValueRange.IsInRange ignores the lower bound (part_002:233). Its Cost also charges 250 for a two-sided range (part_002:186). |
| `MCValues.cfg` | pass | ExactInRange, PredicatesMatchSpec | Away from MinInt and from numbers whose truncation is not an integer, every operator and every cast gives the spec's result. Arithmetic on a Bool is left out of the property. calculateValues returns Null for it, as spec 4.1 says, but the comments of `Add` through `BitwiseXor` (value.go:286-335) say booleans can be calculated. Every comparison, IN, NOT IN, IS, IS NOT and truth test follows three-valued logic and the value order, except the truth of a blob. |
| `MCOverflow.cfg` (module `MCOverflow`) | violation | ArithmeticIsExact | The conjunction of `EvaluationMatchesSpec` (Values) and `SumIsExact` (Aggregate); each was also checked alone and is violated. SUM wraps on int64 overflow (part_001:515): SUM(3, 1) returns -4 at W = 3. `x - MinInt` gives a wrong Double or a wrapped Int (value.go:377). `MinInt / -1` wraps. Checked separately: `CAST('9' AS INTEGER)` at W = 4 (the int64 analogue is `'9223372036854775808'`) returns MinInt or MaxInt, not an error (cast.go:91). The same holds for a Double (cast.go:82) and for bit operations on doubles (value.go:462). An empty blob is truthy (value.go:153), though spec 4.1 says it is not. |
| `MCAggregate.cfg` | pass | MinMaxAreExtremes, AvgIsMean | MIN/MAX are extremes of the mixed-type order. AVG's Eval returns the mean of the numbers as a Double, and 0.0 for a group with none; the integers and doubles are mixed, and Nulls and other types are left out. |
| `MCSelectParser.cfg` | pass | ParserMatchesGrammar | Every well-formed statement of the bounded grammar parses to the stream the spec describes, every invalid one is rejected with the code's error, and every ill-formed token sequence is rejected. |

Each property of a passing run has a mutant in `PROJECT.json`: a plausible bug in the mapped code that TLC catches with that property. Two examples:
- `TableRow_noFcs`, a catalog row that omits the field constraints, is caught only after a restart;
- `IndexLt_pastV`, a `<` scan that passes `v` itself, breaks the refinement.

## Bounds and why they are enough

- **Catalog.** Three user names, one field path, `MaxTxOps = 2`, with symmetry over the names.
  - Two statements in one transaction is the smallest case where a hook of the first must undo a change the second relies on. Examples: an index created and then its table renamed, or two index operations on one table.
  - Three names allow a table, its index and a second table.
  - A restart may follow any state, including a failed statement inside a transaction.
  - One reader is enough: readers do not change the cache, so they do not interact with each other.
- **Update.**
  - Three rows of two fields, two values and a buffer of 2: a full batch, a resumed batch and a short final batch all occur.
  - Every WHERE, SET (constants and field copies, one or two pairs, in both orders), UNSET and failure combination is enumerated.
  - `MaxUpdates = 3` bounds the ghost counter; a row replaced more than twice is already a violation of exact-once.
- **Scan.**
  - Five encoded values of three types (a bool, three integers, a text), tables of up to three of the keys 1..3, and every operand.
  - Documents are drawn from five byte strings, enough to put a document below, equal to and above every key.
  - Runs of equal values, values of other types before and after the operand's type, and an empty table all occur.
- **Range.** Two encoded values plus None, and lists of up to two ranges. Every shape of range occurs (exact, exclusive, one-sided, two-sided, open), and so do pairs for Append.
- **Values.** W = 4 (88,760 initial states, about 4 s).
  - Every pair of operands for the 18 binary operators, and every operand for the 8 unary ones.
  - The operands are the 16 integers, the 37 halves from -9 to 9, the eight text literals, Null, both bools, an empty and a one-byte blob, an empty array and `[1]`, and an empty and a one-field document.
  - The overflow checks do not depend on the width, so their failure cases (including MinInt) all occur at W = 4.
  - The halves include doubles that truncate into the range (-8.5, 7.5) and doubles that do not (8, -9).
  - The literals cover each parser outcome: integer syntax in and out of range, float-only syntax, bool, base64 (including the empty blob), a JSON array and a JSON document.
  - Every type has a zero and a non-zero operand, and `1.0 IN [1]` exercises cross-type equality.
- **Aggregate.**
  - Three rows whose values are drawn from Null, two bools, the integers -4, 1, 3, the doubles 1, 3 and a text, with W = 3.
  - Mixed-type orders, integer-then-double promotion in SUM and an int overflow all occur.

- **SelectParser.** Identifiers `a`, `b`, `t`; the aggregate `COUNT(*)`; the numbers `2` and `1.5`; the text `'x'`.
  - Projections are `*`, `a`, `b`, `COUNT(*)`, `a AS b`, alone or in lists of two or three. So wildcards, aliases that collide with a path, and aggregates with and without GROUP BY all occur.
  - Every clause is present or absent, ORDER BY with no direction, ASC or DESC, LIMIT and OFFSET numeric or not. That gives 4,688 configurations, 2,092 of them valid.
  - The ill-formed inputs are the renderings of the small configurations with one token removed or two adjacent tokens swapped (22,041 sequences). These are the inputs a parser that forgets an `Unscan` or reads clauses in the wrong order gets wrong.
  - In total 26,729 initial states; the run takes under a minute.

## Fairness

- `Update` and `Scan` are plain loops in the caller's goroutine, with no waits (spec 5: the pipeline is pull-based and synchronous). Weak fairness on their steps is therefore justified. For `Scan`, fairness is on the non-failing steps only: a failure is possible but never forced.
- `ScanSpec` has the matching fairness on Emit and Finish, so the refinement also says that a scan which does not fail returns after passing its whole range.
- The other modules check only safety.

## Not modelled

- **Float64 rounding.** Doubles are exact rationals. Rounding, NaN from infinite operands, negative zero and ParseFloat's range errors are left out.
- **The binary encoding, String and parseJSONValue of values.** Formatting and decoding, with no state.
- **The contents of texts, blobs, arrays and documents.** The parsers are tables over a few literals, and MarshalJSON is one abstract text. `ValueBuffer`/`FieldBuffer.UnmarshalJSON` are not under `src/`, so the JSON tables follow spec 4.1.
- **Expressions and the scanner.** `ParseExpr` and the scanner are not under `src/`. An expression is one token, and a token is a model value.
- **stream/iterator.go.** An adapter whose iteration the Update and Scan models already cover.
- **Index name generation, type inference of index paths, store creation.** The Catalog model abstracts these to their outcomes. The hazards at catalog.go:525 and :572 stay without a property.
- **Other catalog read methods.** GetIndex, ListIndexes and GetSequence are single map lookups under the read lock. They show the same visibility as GetTable, which is modelled. The engine's snapshots are modelled from spec section 5 (`ReaderBegin`), because the engine is not in the sources.
- **Lock granularity of writer statements.** A writer statement takes the cache's write lock once per cache method, so DROP TABLE with indexes takes it several times. The model makes each statement one step. The reader finding does not depend on this.
- **Field order of documents.** SET appends a new field in map order. The model keeps field values, not layout.
- **The tests.** They are read for intent.
