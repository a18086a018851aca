CONSTANTS
  Idents <- MCIdents
  Aggregates <- MCAggregates
  NumberLits <- MCNumberLits
  TextLits <- MCTextLits
  Inputs <- MCInputs

SPECIFICATION Spec
\* One statement is parsed; the parser is then done.
CHECK_DEADLOCK FALSE

INVARIANT ParserMatchesGrammar
