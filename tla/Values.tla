------------------------------- MODULE Values -------------------------------
(***************************************************************************)
(* Arithmetic and casts on document values (src/document/value.go,        *)
(* src/document/cast.go).  Add, Sub, Mul, Div, Mod, BitwiseAnd/Or/Xor all *)
(* go through calculateValues, which yields Null for Null, Bool and       *)
(* non-numeric operands, hands two integers to calculateIntegers and any  *)
(* pair with a Double to calculateFloats.  CastAs converts a value to a   *)
(* target type through the CastAs<T> functions.                           *)
(*                                                                         *)
(* Integers are W-bit two's complement (int64 is W = 64; the detection    *)
(* logic does not depend on W), and Go's wrapping arithmetic, truncating  *)
(* division and bit operations are modelled exactly.  Doubles are exact   *)
(* rationals: float64 rounding is not modelled, which is exact for the    *)
(* sums, products and remainders of the small halves used as inputs.      *)
(* Go's int64(f) of a float outside the int64 range is implementation-    *)
(* dependent (amd64 gives MinInt64, arm64 saturates) and is a choice.     *)
(* A text is a literal from a small set; what strconv and the JSON and    *)
(* base64 decoders make of each literal is a table.  A document is        *)
(* abstracted to its number of fields.  The comparison operators, IN, IS  *)
(* and IsTruthy (comparison.go, value.go) evaluate predicates on values.  *)
(***************************************************************************)
EXTENDS Integers, Sequences, TLC
LOCAL INSTANCE Bitwise

CONSTANT W     \* integer width in bits

ASSUME W \in Nat /\ W >= 2

MinInt == -(2^(W-1))
MaxInt == 2^(W-1) - 1
Int64 == MinInt..MaxInt

\* Go's conversion of a mathematical result to intW: wrap modulo 2^W.
Wrap(x) == ((x - MinInt) % 2^W) + MinInt

Abs(x) == IF x < 0 THEN -x ELSE x

\* Go's / truncates toward zero; % takes the sign of the dividend.
Quot(x, y) == IF (x < 0) = (y < 0) THEN Abs(x) \div Abs(y) ELSE -(Abs(x) \div Abs(y))
Rem(x, y)  == x - y * Quot(x, y)

\* Bit operations on the two's complement representation.
Bits(x) == x % 2^W
BitOp(op, x, y) ==
  Wrap(CASE op = "&" -> Bits(x) & Bits(y)
         [] op = "|" -> Bits(x) | Bits(y)
         [] op = "^" -> Bits(x) ^^ Bits(y))

Ops == {"+", "-", "*", "/", "%", "&", "|", "^"}

\* The types a value can be cast to (types.ValueType without Null).
Types == {"bool", "int", "double", "text", "blob", "array", "document"}

(***************************************************************************)
(* Values.  Integers carry v; doubles are reduced rationals num/den with  *)
(* den > 0; bools carry 0 or 1; a text carries its literal and a blob the *)
(* base64 literal it decodes from; an array carries its elements and a    *)
(* document its number of fields.                                          *)
(***************************************************************************)
Null       == [type |-> "null", v |-> 0]
BoolVal(t) == [type |-> "bool", v |-> IF t THEN 1 ELSE 0]
IntVal(x)  == [type |-> "int", v |-> x]
Text(s)    == [type |-> "text", lit |-> s]
Blob(s)    == [type |-> "blob", b64 |-> s]
Array(e)   == [type |-> "array", elems |-> e]
Document(n) == [type |-> "document", v |-> n]
Error      == [type |-> "error", v |-> 0]

RECURSIVE GCD(_, _)
GCD(x, y) == IF y = 0 THEN x ELSE GCD(y, x % y)

Rat(n, d) ==
  LET g == GCD(Abs(n), Abs(d))
      s == IF d < 0 THEN -1 ELSE 1
  IN [type |-> "double", num |-> (s * n) \div g, den |-> (s * d) \div g]

DoubleVal(x) == Rat(x, 1)

RatAdd(x, y) == Rat(x.num * y.den + y.num * x.den, x.den * y.den)
RatSub(x, y) == Rat(x.num * y.den - y.num * x.den, x.den * y.den)
RatMul(x, y) == Rat(x.num * y.num, x.den * y.den)
RatDiv(x, y) == Rat(x.num * y.den, x.den * y.num)

\* The truncation of a double toward zero, as a mathematical integer.
Trunc(x) == Quot(x.num, x.den)

\* math.Mod: x - y * trunc(x / y), with the sign of x.
RatMod(x, y) == RatSub(x, RatMul(y, DoubleVal(Trunc(RatDiv(x, y)))))

\* Mutant: a double is truncated toward minus infinity.
GoInt64_floor(x) ==
  IF (x.num \div x.den) \in Int64 THEN {x.num \div x.den} ELSE {MinInt}

\* Go's int64(f): exact truncation when it fits, otherwise what the build
\* produces (amd64 CVTTSD2SI gives MinInt64, arm64 FCVTZS saturates).
GoInt64(x) ==
  IF Trunc(x) \in Int64 THEN {Trunc(x)}
  ELSE {MinInt, IF x.num > 0 THEN MaxInt ELSE MinInt}

(***************************************************************************)
(* Text literals and what the parsers make of them.  "9" is decimal       *)
(* integer syntax outside the W-bit range, as "9223372036854775808" is    *)
(* for int64: strconv.ParseInt fails with a range error on it.            *)
(***************************************************************************)
TextLits == {"", "1", "9", "-2.5", "true", "[1]", "{}", "AQ=="}

\* strconv.ParseInt(s, 10, 64): defined on decimal integer syntax; the
\* value is the mathematical one and is accepted only when in range.
IntSyntax   == ("1" :> 1) @@ ("9" :> 9)
\* strconv.ParseFloat(s, 64)
FloatSyntax == ("1" :> DoubleVal(1)) @@ ("9" :> DoubleVal(9)) @@ ("-2.5" :> Rat(-5, 2))
\* strconv.ParseBool(s)
BoolSyntax  == ("1" :> TRUE) @@ ("true" :> TRUE)
\* base64.StdEncoding.DecodeString(s) succeeds ("true" is four base64
\* digits, "" decodes to an empty blob)
Base64Ok    == {"", "true", "AQ=="}
\* ValueBuffer.UnmarshalJSON / FieldBuffer.UnmarshalJSON: the elements of
\* a JSON array and the number of fields of a JSON object
JSONArrays    == "[1]" :> <<IntVal(1)>>
JSONDocuments == "{}" :> 0

\* The canonical JSON text of a non-text value (MarshalJSON); its
\* characters are abstracted to one literal.
Marshalled == Text("<json>")

\* Double inputs: the halves around the integer range, so that some
\* truncate into it and some (beyond MaxInt + 1) do not.
DoubleInputs == {Rat(n, 2) : n \in -2 * (MaxInt + 2) .. 2 * (MaxInt + 2)}

Inputs ==
  {Null, BoolVal(FALSE), BoolVal(TRUE), Blob(""), Blob("AQ=="),
   Array(<<>>), Array(<<IntVal(1)>>), Document(0), Document(1)}
    \cup {IntVal(x) : x \in Int64} \cup DoubleInputs \cup {Text(s) : s \in TextLits}

IsNumber(v) == v.type \in {"int", "double"}

VARIABLES a, b, op, res

vars == <<a, b, op, res>>

None == [type |-> "none", v |-> 0]

\* Mutant: the addition check also flags xr = xa.
AddOverflowed_ge(xa, xb, xr) == (xr >= xa) # (xb > 0)

\* if (xr > xa) != (xb > 0): the wrapped sum moved the wrong way.
AddOverflowed(xa, xb, xr) == (xr > xa) # (xb > 0)

\* if (xr < 0) == ((xa < 0) != (xb < 0)) && xr/xb == xa: no overflow.
MulFits(xa, xb, xr) ==
  (xr < 0) = ((xa < 0) # (xb < 0)) /\ Wrap(Quot(xr, xb)) = xa

(***************************************************************************)
(* calculateIntegers.  For '-' xb is negated first (in intW) and the '+'  *)
(* case runs with it.                                                      *)
(***************************************************************************)
CalculateIntegers(xa, xb0, o) ==
  LET xb == IF o = "-" THEN Wrap(-xb0) ELSE xb0
  IN CASE o \in {"+", "-"} ->
            LET xr == Wrap(xa + xb)
            IN IF AddOverflowed(xa, xb, xr) THEN DoubleVal(xa + xb) ELSE IntVal(xr)
       [] o = "*" ->
            IF xa = 0 \/ xb = 0 THEN IntVal(0)
            ELSE LET xr == Wrap(xa * xb)
                 IN IF MulFits(xa, xb, xr) THEN IntVal(xr) ELSE DoubleVal(xa * xb)
       [] o = "/" -> IF xb = 0 THEN Null ELSE IntVal(Wrap(Quot(xa, xb)))
       [] o = "%" -> IF xb = 0 THEN Null ELSE IntVal(Wrap(Rem(xa, xb)))
       [] o \in {"&", "|", "^"} -> IntVal(BitOp(o, xa, xb))

(***************************************************************************)
(* calculateFloats.  Both operands go through CastAsDouble (which cannot  *)
(* fail for numbers); / by zero and a NaN from math.Mod give Null, and the *)
(* bit operations convert both sides back with Go's int64(f).             *)
(***************************************************************************)
CalculateFloats(xa, xb, o) ==
  CASE o = "+" -> {RatAdd(xa, xb)}
    [] o = "-" -> {RatSub(xa, xb)}
    [] o = "*" -> {RatMul(xa, xb)}
    [] o = "/" -> IF xb.num = 0 THEN {Null} ELSE {RatDiv(xa, xb)}
    [] o = "%" -> IF xb.num = 0 THEN {Null} ELSE {RatMod(xa, xb)}
    [] o \in {"&", "|", "^"} ->
         {IntVal(BitOp(o, ia, ib)) : ia \in GoInt64(xa), ib \in GoInt64(xb)}

(***************************************************************************)
(* The casts (cast.go).  Each returns the set of possible results, Error  *)
(* standing for a returned error.                                          *)
(***************************************************************************)
CastAsBool(v) ==
  CASE v.type = "bool" -> {v}
    [] v.type = "int"  -> {BoolVal(v.v # 0)}
    [] v.type = "text" -> IF v.lit \in DOMAIN BoolSyntax
                          THEN {BoolVal(BoolSyntax[v.lit])} ELSE {Error}
    [] OTHER -> {Error}

\* A text is tried with ParseInt first; on any error (syntax or range) it
\* is parsed as a float and converted with int64(f).
CastAsInteger(v) ==
  CASE v.type = "int"    -> {v}
    [] v.type = "bool"   -> {IntVal(v.v)}
    [] v.type = "double" -> {IntVal(i) : i \in GoInt64(v)}
    [] v.type = "text" ->
         IF v.lit \in DOMAIN IntSyntax /\ IntSyntax[v.lit] \in Int64
         THEN {IntVal(IntSyntax[v.lit])}
         ELSE IF v.lit \in DOMAIN FloatSyntax
              THEN {IntVal(i) : i \in GoInt64(FloatSyntax[v.lit])}
              ELSE {Error}
    [] OTHER -> {Error}

CastAsDouble(v) ==
  CASE v.type = "double" -> {v}
    [] v.type = "int"    -> {DoubleVal(v.v)}
    [] v.type = "text"   -> IF v.lit \in DOMAIN FloatSyntax
                            THEN {FloatSyntax[v.lit]} ELSE {Error}
    [] OTHER -> {Error}

\* MarshalJSON cannot fail on these values, nor Unquote on a blob's JSON.
CastAsText(v) == IF v.type = "text" THEN {v} ELSE {Marshalled}

CastAsBlob(v) ==
  CASE v.type = "blob" -> {v}
    [] v.type = "text" -> IF v.lit \in Base64Ok THEN {Blob(v.lit)} ELSE {Error}
    [] OTHER -> {Error}

CastAsArray(v) ==
  CASE v.type = "array" -> {v}
    [] v.type = "text"  -> IF v.lit \in DOMAIN JSONArrays
                           THEN {Array(JSONArrays[v.lit])} ELSE {Error}
    [] OTHER -> {Error}

CastAsDocument(v) ==
  CASE v.type = "document" -> {v}
    [] v.type = "text"     -> IF v.lit \in DOMAIN JSONDocuments
                              THEN {Document(JSONDocuments[v.lit])} ELSE {Error}
    [] OTHER -> {Error}

CastAs(v, t) ==
  IF v.type = t \/ v.type = "null" THEN {v}
  ELSE CASE t = "bool"     -> CastAsBool(v)
         [] t = "int"      -> CastAsInteger(v)
         [] t = "double"   -> CastAsDouble(v)
         [] t = "blob"     -> CastAsBlob(v)
         [] t = "text"     -> CastAsText(v)
         [] t = "array"    -> CastAsArray(v)
         [] t = "document" -> CastAsDocument(v)

\* calculateValues: Null and Bool operands, and non-numbers, give Null; a
\* Double on either side selects calculateFloats.
CalculateValues(x, y, o) ==
  CASE x.type = "null" \/ y.type = "null" -> {Null}
    [] x.type = "bool" \/ y.type = "bool" -> {Null}
    [] IsNumber(x) /\ IsNumber(y) ->
         IF x.type = "double" \/ y.type = "double"
         THEN LET fa == CastAsDouble(x)
                  fb == CastAsDouble(y)
              IN IF Error \in fa \cup fb THEN {Null}
                 ELSE UNION {CalculateFloats(xa, xb, o) : xa \in fa, xb \in fb}
         ELSE {CalculateIntegers(x.v, y.v, o)}
    [] OTHER -> {Null}

(***************************************************************************)
(* The value order (Value.IsEqual, IsGreaterThan..., which are not under  *)
(* src/, after spec 4.1): Null equals only Null; integers and doubles     *)
(* compare by value; other values of one type by content; values of      *)
(* different types are never equal and are ordered by type family:        *)
(* Null < Bool < numbers < Text < Blob < Array < Document.  Texts and     *)
(* blobs compare bytewise: the literals are listed in that order.         *)
(***************************************************************************)
Family(x) ==
  CASE x.type = "null" -> 0 [] x.type = "bool" -> 1
    [] x.type \in {"int", "double"} -> 2 [] x.type = "text" -> 3
    [] x.type = "blob" -> 4 [] x.type = "array" -> 5 [] x.type = "document" -> 6

TextOrder == <<"", "-2.5", "1", "9", "AQ==", "[1]", "true", "{}">>
BlobOrder == <<"", "AQ==", "true">>     \* decoded: empty, 0x01, 0xb6bb9e
Rank(seq, s) == CHOOSE i \in DOMAIN seq : seq[i] = s

AsRat(v) == IF v.type = "int" THEN DoubleVal(v.v) ELSE v
RatLess(x, y) == x.num * y.den < y.num * x.den

ValueEq(x, y) ==
  IF IsNumber(x) /\ IsNumber(y) THEN AsRat(x) = AsRat(y) ELSE x = y

ValueLess(x, y) ==
  CASE IsNumber(x) /\ IsNumber(y) -> RatLess(AsRat(x), AsRat(y))
    [] Family(x) # Family(y) -> Family(x) < Family(y)
    [] x.type \in {"bool", "document"} -> x.v < y.v
    [] x.type = "text" -> Rank(TextOrder, x.lit) < Rank(TextOrder, y.lit)
    [] x.type = "blob" -> Rank(BlobOrder, x.b64) < Rank(BlobOrder, y.b64)
    [] x.type = "array" -> Len(x.elems) < Len(y.elems)
    [] OTHER -> FALSE

\* document.ArrayContains: an element equal to v.
ArrayContains(arr, v) == \E i \in DOMAIN arr.elems : ValueEq(arr.elems[i], v)

CmpOps == {"=", "!=", ">", ">=", "<", "<="}
SetOps == {"IN", "NOT IN", "IS", "IS NOT"}

\* cmpOp.compare
Compare(l, r, o) ==
  CASE o = "="  -> ValueEq(l, r)
    [] o = "!=" -> ~ValueEq(l, r)
    [] o = ">"  -> ValueLess(r, l)
    [] o = ">=" -> ValueLess(r, l) \/ ValueEq(l, r)
    [] o = "<"  -> ValueLess(l, r)
    [] o = "<=" -> ValueLess(l, r) \/ ValueEq(l, r)

\* Mutant: comparing with NULL is not short-circuited.
CmpEval_noNull(x, y, o) == BoolVal(Compare(x, y, o))

\* cmpOp.Eval: comparing with NULL evaluates to NULL.
CmpEval(x, y, o) ==
  IF x.type = "null" \/ y.type = "null" THEN Null ELSE BoolVal(Compare(x, y, o))

\* inOp.Eval: NULL on either side is NULL; a non-array right side is false.
InEval(x, y) ==
  CASE x.type = "null" \/ y.type = "null" -> Null
    [] y.type # "array" -> BoolVal(FALSE)
    [] OTHER -> BoolVal(ArrayContains(y, x))

\* notInOp.Eval: true and false swap, anything else passes through.
NotInEval(x, y) ==
  LET v == InEval(x, y)
  IN CASE v = BoolVal(TRUE) -> BoolVal(FALSE)
       [] v = BoolVal(FALSE) -> BoolVal(TRUE)
       [] OTHER -> v

(***************************************************************************)
(* IsZeroValue.  A blob is tested with v.V() == nil: the interface holds a *)
(* []byte, which is never the untyped nil, even when the slice is empty.   *)
(* Only NewEmptyValue makes a blob whose V() is nil, and no input is one. *)
(***************************************************************************)
IsZeroValue(v) ==
  CASE v.type \in {"bool", "int"} -> v.v = 0
    [] v.type = "double" -> v.num = 0
    [] v.type = "blob" -> FALSE
    [] v.type = "text" -> v.lit = ""
    [] v.type = "array" -> v.elems = <<>>
    [] v.type = "document" -> v.v = 0
    [] OTHER -> FALSE

(***************************************************************************)
(* An expression such as a + b, a < b, a IN b, CAST(a AS t) or the truth *)
(* of a is evaluated once on its operands; b is Null for a unary one.     *)
(***************************************************************************)
Binary == Ops \cup CmpOps \cup SetOps
Unary  == Types \cup {"truthy"}

Init ==
  /\ op \in Binary \cup Unary
  /\ a \in Inputs
  /\ b \in IF op \in Unary THEN {Null} ELSE Inputs
  /\ res = None

\* Evaluate(o, R): operator o gives one of the results R.
Evaluate(o, R) ==
  /\ op \in o
  /\ res = None
  /\ res' \in R
  /\ UNCHANGED <<a, b, op>>

Calculate  == Evaluate(Ops, CalculateValues(a, b, op))
Cast       == Evaluate(Types, CastAs(a, op))
Comparison == Evaluate(CmpOps, {CmpEval(a, b, op)})
In         == Evaluate({"IN"}, {InEval(a, b)})
NotIn      == Evaluate({"NOT IN"}, {NotInEval(a, b)})
Is         == Evaluate({"IS"}, {BoolVal(ValueEq(a, b))})
IsNot      == Evaluate({"IS NOT"}, {BoolVal(~ValueEq(a, b))})
\* IsTruthy: not Null and not the zero value of its type.
Truthy     == Evaluate({"truthy"}, {BoolVal(a.type # "null" /\ ~IsZeroValue(a))})

Next == Calculate \/ Cast \/ Comparison \/ In \/ NotIn \/ Is \/ IsNot \/ Truthy

Spec == Init /\ [][Next]_vars

(***************************************************************************)
(* Reference.  Arithmetic (spec 4.1, 8.6, 8.7): the exact result, as an   *)
(* Integer when both operands are integers and it fits and as a Double    *)
(* otherwise; Null for a Null or non-numeric operand and for a zero       *)
(* divisor; bit operations on the operands truncated to integers, Null    *)
(* when a truncation is not an integer (a failed cast in an expression    *)
(* yields Null, spec 229).  Casts: the spec 4.1 table, with Double to     *)
(* Integer truncating toward zero and failing when no integer is that     *)
(* truncation.                                                             *)
(***************************************************************************)
SpecTrunc(v) ==
  CASE v.type = "int"    -> v.v
    [] v.type = "double" -> Trunc(v)
    [] v.type = "text"   -> Trunc(FloatSyntax[v.lit])

SpecCast(v, t) ==
  IF v.type = "null" \/ v.type = t THEN v
  ELSE LET numText == v.type = "text" /\ v.lit \in DOMAIN FloatSyntax
       IN CASE t = "bool" /\ v.type = "int" -> BoolVal(v.v # 0)
            [] t = "bool" /\ v.type = "text" /\ v.lit \in DOMAIN BoolSyntax ->
                 BoolVal(BoolSyntax[v.lit])
            [] t = "int" /\ v.type = "bool" -> IntVal(v.v)
            [] t = "int" /\ (v.type = "double" \/ numText) /\ SpecTrunc(v) \in Int64 ->
                 IntVal(SpecTrunc(v))
            [] t = "double" /\ v.type = "int" -> DoubleVal(v.v)
            [] t = "double" /\ numText -> FloatSyntax[v.lit]
            [] t = "text" -> Marshalled
            [] t = "blob" /\ v.type = "text" /\ v.lit \in Base64Ok -> Blob(v.lit)
            [] t = "array" /\ v.type = "text" /\ v.lit \in DOMAIN JSONArrays ->
                 Array(JSONArrays[v.lit])
            [] t = "document" /\ v.type = "text" /\ v.lit \in DOMAIN JSONDocuments ->
                 Document(JSONDocuments[v.lit])
            [] OTHER -> Error

ExactRat(x, y, o) ==
  CASE o = "+" -> RatAdd(x, y)
    [] o = "-" -> RatSub(x, y)
    [] o = "*" -> RatMul(x, y)
    [] o = "/" -> RatDiv(x, y)
    [] o = "%" -> RatMod(x, y)

(***************************************************************************)
(* Predicates (spec 4.1): any comparison involving Null yields Null, and  *)
(* Null equals only Null; the order is total, so <= and >= are the        *)
(* negations of > and <; a value is truthy iff it is not Null and not the *)
(* zero of its type (0, 0.0, false, "", empty blob, array or document).   *)
(***************************************************************************)
SpecZeros ==
  {BoolVal(FALSE), IntVal(0), DoubleVal(0), Text(""), Blob(""), Array(<<>>), Document(0)}

SpecPredicate(x, y, o) ==
  LET member == y.type = "array" /\ ArrayContains(y, x)
  IN CASE o = "truthy" -> BoolVal(x # Null /\ x \notin SpecZeros)
       [] o = "IS"     -> BoolVal(ValueEq(x, y))
       [] o = "IS NOT" -> BoolVal(~ValueEq(x, y))
       [] x = Null \/ y = Null -> Null
       [] o = "="  -> BoolVal(ValueEq(x, y))
       [] o = "!=" -> BoolVal(~ValueEq(x, y))
       [] o = "<"  -> BoolVal(ValueLess(x, y))
       [] o = ">"  -> BoolVal(ValueLess(y, x))
       [] o = "<=" -> BoolVal(~ValueLess(y, x))
       [] o = ">=" -> BoolVal(~ValueLess(x, y))
       [] o = "IN" -> BoolVal(member)
       [] o = "NOT IN" -> BoolVal(~member)

Reference(x, y, o) ==
  CASE o \in Types -> SpecCast(x, o)
    [] o \in CmpOps \cup SetOps \cup {"truthy"} -> SpecPredicate(x, y, o)
    [] ~IsNumber(x) \/ ~IsNumber(y) -> Null
    [] o \in {"/", "%"} /\ AsRat(y).num = 0 -> Null
    [] o \in {"&", "|", "^"} ->
         IF SpecTrunc(x) \in Int64 /\ SpecTrunc(y) \in Int64
         THEN IntVal(BitOp(o, SpecTrunc(x), SpecTrunc(y))) ELSE Null
    [] x.type = "int" /\ y.type = "int" ->
         LET m == CASE o = "+" -> x.v + y.v
                    [] o = "-" -> x.v - y.v
                    [] o = "*" -> x.v * y.v
                    [] o = "/" -> Quot(x.v, y.v)
                    [] o = "%" -> Rem(x.v, y.v)
         IN IF m \in Int64 THEN IntVal(m) ELSE DoubleVal(m)
    [] OTHER -> ExactRat(AsRat(x), AsRat(y), o)

\* The operands every conversion to intW handles: every integer except
\* MinInt (whose negation wraps), and every double or numeric text whose
\* truncation is an intW.
Representable(v) ==
  CASE v.type = "int" -> v.v # MinInt
    [] v.type = "double" \/ (v.type = "text" /\ v.lit \in DOMAIN FloatSyntax) ->
         SpecTrunc(v) \in Int64
    [] OTHER -> TRUE

(***************************************************************************)
(* On representable operands every operator and every cast gives the      *)
(* spec's result: the overflow checks of calculateIntegers promote every  *)
(* wrap to the exact Double, calculateFloats and the bit operations on    *)
(* doubles agree with exact arithmetic, and CastAs<T> follow the cast     *)
(* table, Double and Text to Integer truncating toward zero.  Arithmetic  *)
(* on a Bool is left out: calculateValues returns Null for it, as spec    *)
(* 4.1 says, while the comments of Add ... BitwiseXor say booleans can be *)
(* calculated, and the two are not reconciled here.                       *)
(***************************************************************************)
ExactInRange ==
  (/\ res # None /\ op \in Ops \cup Types /\ Representable(a) /\ Representable(b)
   /\ ~(op \in Ops /\ "bool" \in {a.type, b.type}))
    => res = Reference(a, b, op)

(***************************************************************************)
(* The predicates follow SQL's three-valued logic and the value order:    *)
(* cmpOp.Eval, IN and NOT IN give Null exactly when an operand is Null,   *)
(* IS and IS NOT treat Null as a value, >= and <= are consistent with <   *)
(* and > across integers, doubles and other types, and IsTruthy is false  *)
(* exactly for Null and the zero of each type.  The truth of a blob is    *)
(* left to EvaluationMatchesSpec.                                          *)
(***************************************************************************)
PredicatesMatchSpec ==
  (res # None /\ op \in CmpOps \cup SetOps \cup {"truthy"}
     /\ ~(op = "truthy" /\ a.type = "blob"))
    => res = Reference(a, b, op)

(***************************************************************************)
(* Every evaluation gives the spec's result.  In particular numbers never *)
(* wrap silently: an integer overflow is promoted to the exact Double     *)
(* (spec 8.6) and a value whose truncation is not an integer is never    *)
(* turned into one, by CAST or by a bit operation; and an empty blob is   *)
(* not truthy (spec 4.1).                                                  *)
(***************************************************************************)
EvaluationMatchesSpec == res # None => res = Reference(a, b, op)
====
