--------------------------- MODULE MCSelectParser ---------------------------
(***************************************************************************)
(* Model-checking instance of SelectParser.  Statements are written from  *)
(* every configuration of the clauses over two fields, one table, one     *)
(* aggregate, an integer, a double and a text literal: every clause with  *)
(* one projected item, and lists of two or three items with the clauses   *)
(* that check them (FROM for the wildcard, GROUP BY).  The ill-formed     *)
(* statements are those single-item statements with one token dropped or  *)
(* two neighbouring tokens swapped, when no configuration renders them.   *)
(***************************************************************************)
EXTENDS SelectParser, TLC

LOCAL SX == INSTANCE SequencesExt

MCIdents     == {"a", "b", "t"}
MCAggregates == {"COUNT(*)"}
\* CastAsInteger truncates the double 1.5 to 1.
MCNumberLits == ("2" :> 2) @@ ("1.5" :> 1)
MCTextLits   == {"'x'"}

Item(e, name, as) == [e |-> e, name |-> name, as |-> as]
Star  == Item("*", "*", FALSE)
PathA == Item("a", "a", FALSE)
PathB == Item("b", "b", FALSE)
Items == {Star, PathA, PathB, Item("COUNT(*)", "COUNT(*)", FALSE), Item("a", "b", TRUE)}

SingleLists == [1..1 -> Items]
LongLists   == [1..2 -> Items] \cup [1..3 -> {PathA, PathB}]

Orders  == {NoOrder} \cup [path: {"a", "b"}, dir: {None, "ASC", "DESC"}]
Numbers == {None, "2", "1.5", "'x'"}

NoClauses(d, p) ==
  [distinct |-> d, proj |-> p, table |-> "", where |-> None, group |-> None,
   order |-> NoOrder, limit |-> None, offset |-> None]

Configs ==
  {NoClauses(d, p) : d \in BOOLEAN, p \in SingleLists \cup LongLists}
  \cup [distinct: BOOLEAN, proj: SingleLists, table: {"t"}, where: {None, "a"},
        group: {None, "a"}, order: Orders, limit: Numbers, offset: Numbers]
  \cup [distinct: BOOLEAN, proj: LongLists, table: {"t"}, where: {None},
        group: {None, "a"}, order: {NoOrder}, limit: {None}, offset: {None}]

Rendered == {Render(c) : c \in Configs}

SmallConfigs == {c \in Configs : Len(c.proj) = 1 /\ {c.limit, c.offset} \subseteq {None, "2"}}

Swap(s, i) == [s EXCEPT ![i] = s[i + 1], ![i + 1] = s[i]]

Candidates ==
  UNION {{SX!RemoveAt(r, i) : i \in 1..Len(r)} \cup {Swap(r, i) : i \in 1..Len(r) - 1}
           : r \in {Render(c) : c \in SmallConfigs}}

MCInputs ==
  {[toks |-> Render(c), origin |-> {c}] : c \in Configs}
  \cup {[toks |-> m, origin |-> {}] : m \in Candidates \ Rendered}
====
