---------------------------- MODULE SelectParser ----------------------------
(***************************************************************************)
(* The SELECT parser of genji (src/sql/parser/select.go).                  *)
(*                                                                         *)
(* parseSelectStatement runs after the SELECT token: DISTINCT, the        *)
(* projected expressions, FROM, WHERE, GROUP BY, ORDER BY, LIMIT and      *)
(* OFFSET, each parsed by a function that reads the next token and puts   *)
(* it back (Unscan) when its clause is absent.  selectConfig.ToStream     *)
(* then builds the stream of operators.                                    *)
(*                                                                         *)
(* A statement is a sequence of tokens.  An expression is one token       *)
(* (ParseExpr is not under src/): a field path, an aggregate call or a    *)
(* literal.  The parsers are operators over the token sequence and a      *)
(* position; each returns [ok, pos, val], pos being the next token.       *)
(***************************************************************************)
EXTENDS Integers, Sequences, FiniteSets
LOCAL INSTANCE SequencesExt

CONSTANTS
  Idents,      \* identifiers: field paths, aliases and table names
  Aggregates,  \* aggregate calls, e.g. COUNT(*)
  NumberLits,  \* numeric literals, with the int64 CastAsInteger gives them
  TextLits     \* text literals

ASSUME NumberLits \in [DOMAIN NumberLits -> Int]

ExprToks == Idents \cup Aggregates \cup DOMAIN NumberLits \cup TextLits
Keywords == {"DISTINCT", "*", ",", "AS", "FROM", "WHERE", "GROUP", "ORDER",
             "BY", "ASC", "DESC", "LIMIT", "OFFSET"}
ASSUME ExprToks \cap Keywords = {}

\* An absent clause (a nil expr.Expr or Path).
None == "none"

Ok(p, v)  == [ok |-> TRUE, pos |-> p, val |-> v]
Fail(p)   == [ok |-> FALSE, pos |-> p, val |-> None]

\* The token at position i; past the end, the scanner returns EOF.
Tok(t, i) == IF i <= Len(t) THEN t[i] ELSE "EOF"

(***************************************************************************)
(* Helpers of the parser that are not under src/, taken from the grammar: *)
(* an expression, an identifier and a path are one token.                 *)
(***************************************************************************)
ParseExpr(t, i)  == IF Tok(t, i) \in ExprToks THEN Ok(i + 1, Tok(t, i)) ELSE Fail(i)
ParseIdent(t, i) == IF Tok(t, i) \in Idents THEN Ok(i + 1, Tok(t, i)) ELSE Fail(i)
ParsePath(t, i)  == ParseIdent(t, i)

\* An optional clause "KW expr"; parseCondition is not under src/.
KeywordExpr(t, i, kw) == IF Tok(t, i) # kw THEN Ok(i, None) ELSE ParseExpr(t, i + 1)
ParseCondition(t, i) == KeywordExpr(t, i, "WHERE")
ParseLimit(t, i)     == KeywordExpr(t, i, "LIMIT")
ParseOffset(t, i)    == KeywordExpr(t, i, "OFFSET")

\* parseDistinct.
ParseDistinct(t, i) ==
  IF Tok(t, i) = "DISTINCT" THEN Ok(i + 1, TRUE) ELSE Ok(i, FALSE)

(***************************************************************************)
(* parseProjectedExpr: "*", or an expression named by its literal text or *)
(* by "AS ident".  The wildcard is not a NamedExpr.                        *)
(***************************************************************************)
ParseProjectedExpr(t, i) ==
  IF Tok(t, i) = "*" THEN Ok(i + 1, [e |-> "*", name |-> "*"])
  ELSE LET pe == ParseExpr(t, i)
           id == ParseIdent(t, pe.pos + 1)
       IN IF ~pe.ok THEN pe
          ELSE IF Tok(t, pe.pos) # "AS" THEN Ok(pe.pos, [e |-> pe.val, name |-> pe.val])
          ELSE IF ~id.ok THEN id
          ELSE Ok(id.pos, [e |-> pe.val, name |-> id.val])

(***************************************************************************)
(* The loop of parseProjectedExprs: while a comma follows, parse one more *)
(* expression, refusing a name already taken.                              *)
(***************************************************************************)
RECURSIVE ProjectedLoop(_, _, _, _)
ProjectedLoop(t, i, pexprs, names) ==
  IF Tok(t, i) # "," THEN Ok(i, pexprs)
  ELSE LET pe == ParseProjectedExpr(t, i + 1)
       IN IF ~pe.ok \/ pe.val.name \in names THEN Fail(pe.pos)
          ELSE ProjectedLoop(t, pe.pos, Append(pexprs, pe.val), names \cup {pe.val.name})

ParseProjectedExprs(t, i) ==
  LET pe == ParseProjectedExpr(t, i)
  IN IF ~pe.ok THEN pe ELSE ProjectedLoop(t, pe.pos, <<pe.val>>, {pe.val.name})

\* parseFrom: the table name, or "" when there is no FROM.
ParseFrom(t, i) ==
  IF Tok(t, i) # "FROM" THEN Ok(i, "") ELSE ParseIdent(t, i + 1)

\* parseGroupBy: GROUP must be followed by BY.
ParseGroupBy(t, i) ==
  IF Tok(t, i) # "GROUP" THEN Ok(i, None)
  ELSE IF Tok(t, i + 1) # "BY" THEN Fail(i + 1)
  ELSE ParseExpr(t, i + 2)

\* Mutant: the token read after the path is not put back (no Unscan).
ParseOrderBy_noUnscan(t, i) ==
  LET p == ParsePath(t, i + 2)
  IN IF Tok(t, i) # "ORDER" THEN Ok(i, [path |-> None, dir |-> None])
     ELSE IF Tok(t, i + 1) # "BY" \/ ~p.ok THEN Fail(i + 1)
     ELSE IF Tok(t, p.pos) \in {"ASC", "DESC"}
          THEN Ok(p.pos + 1, [path |-> p.val, dir |-> Tok(t, p.pos)])
          ELSE Ok(p.pos + 1, [path |-> p.val, dir |-> None])

\* parseOrderBy: ORDER BY path, then an optional ASC or DESC.
ParseOrderBy(t, i) ==
  LET p == ParsePath(t, i + 2)
  IN IF Tok(t, i) # "ORDER" THEN Ok(i, [path |-> None, dir |-> None])
     ELSE IF Tok(t, i + 1) # "BY" \/ ~p.ok THEN Fail(i + 1)
     ELSE IF Tok(t, p.pos) \in {"ASC", "DESC"}
          THEN Ok(p.pos + 1, [path |-> p.val, dir |-> Tok(t, p.pos)])
          ELSE Ok(p.pos, [path |-> p.val, dir |-> None])

(***************************************************************************)
(* selectConfig.ToStream.  A stage of the stream is [kind, x], x being    *)
(* its arguments.                                                          *)
(***************************************************************************)
Stage(k, x) == [kind |-> k, x |-> x]
IsAggregate(pe) == pe.e \in Aggregates
AggregateArgs(cfg) ==
  LET aggs == SelectSeq(cfg.proj, IsAggregate)
  IN [k \in 1..Len(aggs) |-> aggs[k].e]

\* With GROUP BY only aggregates and the GROUP BY expression may be selected.
InvalidGroupedField(cfg) ==
  \E k \in 1..Len(cfg.proj) : ~IsAggregate(cfg.proj[k]) /\ cfg.proj[k].e # cfg.group

HasWildcard(cfg) == \E k \in 1..Len(cfg.proj) : cfg.proj[k].e = "*"

\* OffsetExpr/LimitExpr.Eval on an empty environment, IsNumber, CastAsInteger.
NumericArg(e) == e \in DOMAIN NumberLits

ToStream(cfg) ==
  LET scan  == IF cfg.table # "" THEN <<Stage("SeqScan", <<cfg.table>>)>> ELSE <<>>
      where == IF cfg.where # None THEN <<Stage("Filter", <<cfg.where>>)>> ELSE <<>>
      group == IF cfg.group # None
               THEN <<Stage("GroupBy", <<cfg.group>>), Stage("HashAggregate", AggregateArgs(cfg))>>
               ELSE IF AggregateArgs(cfg) # <<>>
               THEN <<Stage("HashAggregate", AggregateArgs(cfg))>> ELSE <<>>
      dist  == IF cfg.distinct THEN <<Stage("Distinct", <<>>)>> ELSE <<>>
      sort  == IF cfg.order.path = None THEN <<>>
               ELSE IF cfg.order.dir = "DESC" THEN <<Stage("SortReverse", <<cfg.order.path>>)>>
               ELSE <<Stage("Sort", <<cfg.order.path>>)>>
      skip  == IF cfg.offset # None THEN <<Stage("Skip", <<NumberLits[cfg.offset]>>)>> ELSE <<>>
      take  == IF cfg.limit # None THEN <<Stage("Take", <<NumberLits[cfg.limit]>>)>> ELSE <<>>
  IN IF \/ cfg.group # None /\ InvalidGroupedField(cfg)
        \/ cfg.table = "" /\ HasWildcard(cfg)
        \/ cfg.offset # None /\ ~NumericArg(cfg.offset)
        \/ cfg.limit # None /\ ~NumericArg(cfg.limit)
     THEN [ok |-> FALSE, stream |-> <<>>]
     ELSE [ok |-> TRUE,
           stream |-> scan \o where \o group \o <<Stage("Project", cfg.proj)>>
                      \o dist \o sort \o skip \o take]

NoOrder == [path |-> None, dir |-> None]

(***************************************************************************)
(* parseSelectStatement: the clauses in their fixed order; without FROM   *)
(* the statement ends after the projection.  Its result is the stream and *)
(* the position of the first token it did not read.                        *)
(***************************************************************************)
ParseSelectStatement(t) ==
  LET d  == ParseDistinct(t, 1)
      pr == ParseProjectedExprs(t, d.pos)
      fr == ParseFrom(t, pr.pos)
      wh == ParseCondition(t, fr.pos)
      gb == ParseGroupBy(t, wh.pos)
      ob == ParseOrderBy(t, gb.pos)
      li == ParseLimit(t, ob.pos)
      of == ParseOffset(t, li.pos)
      cfg(table, end) ==
        [distinct |-> d.val, proj |-> pr.val, table |-> table,
         where  |-> IF end THEN None ELSE wh.val,
         group  |-> IF end THEN None ELSE gb.val,
         order  |-> IF end THEN NoOrder ELSE ob.val,
         limit  |-> IF end THEN None ELSE li.val,
         offset |-> IF end THEN None ELSE of.val]
      Done(c, p) == LET s == ToStream(c) IN [ok |-> s.ok, pos |-> p, stream |-> s.stream]
  IN IF ~pr.ok \/ ~fr.ok THEN [ok |-> FALSE, pos |-> 0, stream |-> <<>>]
     ELSE IF fr.val = "" THEN Done(cfg("", TRUE), fr.pos)
     ELSE IF ~wh.ok \/ ~gb.ok \/ ~ob.ok \/ ~li.ok \/ ~of.ok
          THEN [ok |-> FALSE, pos |-> 0, stream |-> <<>>]
     ELSE Done(cfg(fr.val, FALSE), of.pos)

\* The query parser accepts a statement only when every token was read.
ParseQuery(t) ==
  LET r == ParseSelectStatement(t)
  IN IF r.ok /\ r.pos = Len(t) + 1 THEN [accepted |-> TRUE, stream |-> r.stream]
     ELSE [accepted |-> FALSE, stream |-> <<>>]

(***************************************************************************)
(* The state: one statement's tokens after SELECT, the configuration it   *)
(* was written from (none for an ill-formed one), and the parse result   *)
(* once the parser has run.                                                *)
(***************************************************************************)
CONSTANTS
  Inputs       \* [toks, origin]: token sequences with the clauses they render

VARIABLES toks, origin, done, res
vars == <<toks, origin, done, res>>

Init ==
  /\ \E in \in Inputs : toks = in.toks /\ origin = in.origin
  /\ done = FALSE
  /\ res = [accepted |-> FALSE, stream |-> <<>>]

\* Parser.ParseQuery on "SELECT " followed by toks.
Parse ==
  /\ ~done
  /\ done' = TRUE
  /\ res' = ParseQuery(toks)
  /\ UNCHANGED <<toks, origin>>

Next == Parse

Spec == Init /\ [][Next]_vars

(***************************************************************************)
(* The grammar of SELECT (spec 4.7 statement surface) as the token        *)
(* sequence a configuration renders to.  A projected item is [e, name,    *)
(* as]: as tells whether the name is written with AS.                     *)
(***************************************************************************)
RenderItem(it) ==
  IF it.e = "*" THEN <<"*">> ELSE IF it.as THEN <<it.e, "AS", it.name>> ELSE <<it.e>>

RenderList(l) ==
  FlattenSeq([k \in 1..2 * Len(l) - 1 |->
                IF k % 2 = 1 THEN RenderItem(l[(k + 1) \div 2]) ELSE <<",">>])

Opt(kws, e) == IF e = None THEN <<>> ELSE kws \o <<e>>

Render(c) ==
  (IF c.distinct THEN <<"DISTINCT">> ELSE <<>>) \o RenderList(c.proj) \o
  (IF c.table = "" THEN <<>>
   ELSE <<"FROM", c.table>> \o Opt(<<"WHERE">>, c.where) \o Opt(<<"GROUP", "BY">>, c.group)
        \o Opt(<<"ORDER", "BY">>, c.order.path)
        \o (IF c.order.dir = None THEN <<>> ELSE <<c.order.dir>>)
        \o Opt(<<"LIMIT">>, c.limit) \o Opt(<<"OFFSET">>, c.offset))

(***************************************************************************)
(* What the spec says a statement of configuration c gives (4.6, 4.7 and  *)
(* the InvalidArgument errors of section 6): the stages its clauses ask   *)
(* for, in the fixed order                                                 *)
(*   Scan, Filter?, GroupBy?, HashAggregate?, Project, Distinct?, Sort?,  *)
(*   Skip?, Take?                                                          *)
(* and an error for a duplicate result name, a non-numeric LIMIT or       *)
(* OFFSET, a selected field that is neither grouped nor aggregated, and a *)
(* wildcard with no table to copy fields from.                            *)
(***************************************************************************)
Expected(c) ==
  LET n      == Len(c.proj)
      names  == [k \in 1..n |-> c.proj[k].name]
      items  == [k \in 1..n |-> [e |-> c.proj[k].e, name |-> c.proj[k].name]]
      aggs   == {k \in 1..n : c.proj[k].e \in Aggregates}
      aggSeq == [j \in 1..Cardinality(aggs) |->
                   c.proj[CHOOSE k \in aggs : Cardinality({m \in aggs : m <= k}) = j].e]
      When(b, st) == IF b THEN <<st>> ELSE <<>>
      valid ==
        /\ \A k, m \in 1..n : k # m => names[k] # names[m]
        /\ {c.limit, c.offset} \subseteq DOMAIN NumberLits \cup {None}
        /\ c.group # None => \A k \in 1..n : k \in aggs \/ c.proj[k].e = c.group
        /\ c.table = "" => \A k \in 1..n : c.proj[k].e # "*"
  IN IF ~valid THEN [accepted |-> FALSE, stream |-> <<>>]
     ELSE [accepted |-> TRUE,
           stream |->
             When(c.table # "", Stage("SeqScan", <<c.table>>))
             \o When(c.where # None, Stage("Filter", <<c.where>>))
             \o When(c.group # None, Stage("GroupBy", <<c.group>>))
             \o When(c.group # None \/ aggs # {}, Stage("HashAggregate", aggSeq))
             \o <<Stage("Project", items)>>
             \o When(c.distinct, Stage("Distinct", <<>>))
             \o When(c.order.path # None,
                     Stage(IF c.order.dir = "DESC" THEN "SortReverse" ELSE "Sort", <<c.order.path>>))
             \o When(c.offset # None, Stage("Skip", <<NumberLits[c.offset]>>))
             \o When(c.limit # None, Stage("Take", <<NumberLits[c.limit]>>))]

(***************************************************************************)
(* The parser agrees with the grammar: a statement written from a         *)
(* configuration gives the stream, or the error, the spec gives it, and a *)
(* token sequence no configuration renders to is refused.  Each clause    *)
(* parser reading one token too many or too few, a clause parsed out of   *)
(* order, or a check of ToStream dropped shows up here.                   *)
(***************************************************************************)
ParserMatchesGrammar ==
  done =>
    IF origin = {} THEN ~res.accepted
    ELSE \A c \in origin : res = Expected(c)
====
