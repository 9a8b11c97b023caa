------------------------------ MODULE Predicate ------------------------------
(***************************************************************************)
(* internal/predicate: the boolean expressions that assertions, selection  *)
(* filters, value constraints, repeat conditions and cleanup conditions    *)
(* are written in, from their tokens to their value, and the expansion of  *)
(* the {{...}} literals plan/predicate_exprs.go adds.                      *)
(*                                                                         *)
(* A value is a tuple of its Go type and its content.  A text's content is *)
(* a tuple too: a word, or the decimal writing of a number with so many    *)
(* places.  What a predicate can tell of a text is its place in the order  *)
(* of texts, the number it writes, and whether it holds both kinds of      *)
(* quotes.  A number is a whole number of hundredths.  A field's name is   *)
(* the sequence of its dotted parts.                                       *)
(***************************************************************************)
EXTENDS Integers, SequencesExt

CONSTANTS
  TextOrder,   \* the texts predicates compare, in the order of strings.Compare
  TwoQuotes    \* the words that hold both a single and a double quote

ASSUME TextAssumption == IsInjective(TextOrder)

(* A json.Number is the number a template's extract rule read, which is not a
   float64 until it has been through JSON again. *)
Number(n) == <<"number", n>>
JsonNumber(n) == <<"json.Number", n>>
Text(t) == <<"text", t>>
Word(w) == Text(<<"word", w>>)
DecimalText(n, places) == Text(<<"decimal", n, places>>)
Bool(b) == <<"bool", b>>
List(s) == <<"list", s>>
Object(f) == <<"object", f>>
Null == <<"null">>

Kind(v) == v[1]

(* An evaluation that fails has an error for its value.  A field the context
   does not hold is told apart (UnknownFieldError). *)
UnknownField(name) == <<"unknownField", name>>
Mismatch == <<"mismatch">>
Failed(v) == Kind(v) \in {"unknownField", "mismatch"}

-----------------------------------------------------------------------------
(* The tokens of an expression.  Brackets, commas and the keyword in are one
   word; the others carry their content. *)
Operator(o) == <<"operator", o>>
Name(parts) == <<"name", parts>>
Mark(m) == <<m>>

(* The kinds a literal's token has: the value's own. *)
LiteralKinds == {"number", "text", "bool"}

Orders == {"<", ">", "<=", ">="}
Comparisons == Orders \cup {"==", "!="}

(* The parts of an expression. *)
Literal(v) == <<"literal", v>>
Field(parts) == <<"field", parts>>
Array(elements) == <<"array", elements>>
Not(operand) == <<"not", operand>>
Binary(op, left, right) == <<"binary", op, left, right>>
NoNode == <<"none">>

(* What a parse function returns: a node, and the token after it; 0 for an
   expression that does not parse. *)
At(node, next) == [node |-> node, next |-> next]
Unparsed == At(NoNode, 0)

TokenAt(ts, i) == IF i \in 1..Len(ts) THEN ts[i] ELSE Mark("end")
OperatorAt(ts, i, ops) ==
  Kind(TokenAt(ts, i)) = "operator" /\ TokenAt(ts, i)[2] \in ops

RECURSIVE ParseExpression(_, _), ParseAnds(_, _), ParseChain(_, _, _),
          ParseComparison(_, _), ParseIn(_, _), ParseUnary(_, _),
          ParsePrimary(_, _), ParseElements(_, _, _)

(* A side that does not parse leaves nothing. *)
Joined(op, left, right) ==
  IF right.next = 0 THEN Unparsed ELSE At(Binary(op, left.node, right.node), right.next)

(* parseLogicalOr and parseLogicalAnd: operands of one operator, grouped from
   the left. *)
ParseChain(ts, left, op) ==
  IF left.next = 0 \/ ~OperatorAt(ts, left.next, {op}) THEN left
  ELSE ParseChain(ts, Joined(op, left, IF op = "||" THEN ParseAnds(ts, left.next + 1)
                                       ELSE ParseComparison(ts, left.next + 1)), op)

(* Mutant of ParseExpression: && binds no tighter than ||. *)
ParseExpressionFlat(ts, i) == ParseChain(ts, ParseChain(ts, ParseComparison(ts, i), "||"), "&&")

ParseAnds(ts, i) == ParseChain(ts, ParseComparison(ts, i), "&&")
ParseExpression(ts, i) == ParseChain(ts, ParseAnds(ts, i), "||")

(* One comparison at most: a < b < c does not parse. *)
Compared(ts, left) ==
  IF left.next = 0 \/ ~OperatorAt(ts, left.next, Comparisons) THEN left
  ELSE Joined(TokenAt(ts, left.next)[2], left, ParseIn(ts, left.next + 1))

ParseComparison(ts, i) == Compared(ts, ParseIn(ts, i))

Contained(ts, left) ==
  IF left.next = 0 \/ TokenAt(ts, left.next) # Mark("in") THEN left
  ELSE Joined("in", left, ParsePrimary(ts, left.next + 1))

ParseIn(ts, i) == Contained(ts, ParseUnary(ts, i))

Negated(operand) == IF operand.next = 0 THEN Unparsed ELSE At(Not(operand.node), operand.next)

ParseUnary(ts, i) ==
  IF OperatorAt(ts, i, {"!"}) THEN Negated(ParseUnary(ts, i + 1)) ELSE ParsePrimary(ts, i)

(* The rest of an array literal from an element on. *)
Elements(ts, element, before) ==
  CASE element.next = 0 -> Unparsed
    [] TokenAt(ts, element.next) = Mark(",") ->
         ParseElements(ts, element.next + 1, Append(before, element.node))
    [] TokenAt(ts, element.next) = Mark("]") ->
         At(Array(Append(before, element.node)), element.next + 1)
    [] OTHER -> Unparsed

ParseElements(ts, i, before) == Elements(ts, ParseExpression(ts, i), before)

Grouped(ts, inner) ==
  IF inner.next # 0 /\ TokenAt(ts, inner.next) = Mark(")")
  THEN At(inner.node, inner.next + 1) ELSE Unparsed

ParsePrimary(ts, i) ==
  LET t == TokenAt(ts, i)
  IN CASE Kind(t) \in LiteralKinds -> At(Literal(t), i + 1)
       [] Kind(t) = "name" -> At(Field(t[2]), i + 1)
       [] t = Mark("(") -> Grouped(ts, ParseExpression(ts, i + 1))
       [] t = Mark("[") ->
            IF TokenAt(ts, i + 1) = Mark("]") THEN At(Array(<<>>), i + 2)
            ELSE ParseElements(ts, i + 1, <<>>)
       [] OTHER -> Unparsed

(* parseTokens: all of the tokens, or nothing. *)
Parse(ts) ==
  LET p == ParseExpression(ts, 1) IN IF p.next = Len(ts) + 1 THEN p.node ELSE NoNode

-----------------------------------------------------------------------------
Place(t) == CHOOSE i \in 1..Len(TextOrder) : TextOrder[i] = t

Sign(a, b) == IF a < b THEN -1 ELSE IF a = b THEN 0 ELSE 1

Ordered(op, c) ==
  CASE op = "<" -> c < 0 [] op = ">" -> c > 0 [] op = "<=" -> c <= 0 [] op = ">=" -> c >= 0

(* decimalRe and decimalPair: the texts that are ordered as numbers. *)
IsAmount(v) == Kind(v) = "number" \/ (Kind(v) = "text" /\ v[2][1] = "decimal")

(* In hundredths, for at most two decimal places. *)
Amount(v) == IF Kind(v) = "number" THEN v[2] ELSE v[2][2] * 10 ^ (2 - v[2][3])

(* Mutant of CompareOrder: two decimal texts order as text. *)
CompareOrderAsText(op, a, b) ==
  IF Kind(a) = "text" /\ Kind(b) = "text" THEN Bool(Ordered(op, Sign(Place(a[2]), Place(b[2]))))
  ELSE IF IsAmount(a) /\ IsAmount(b) THEN Bool(Ordered(op, Sign(Amount(a), Amount(b))))
  ELSE Mismatch

(* compareFloat, compareMixed and compareString: numbers and decimal texts
   order by their amounts, any other two texts as text. *)
CompareOrder(op, a, b) ==
  IF IsAmount(a) /\ IsAmount(b) THEN Bool(Ordered(op, Sign(Amount(a), Amount(b))))
  ELSE IF Kind(a) = "text" /\ Kind(b) = "text"
  THEN Bool(Ordered(op, Sign(Place(a[2]), Place(b[2]))))
  ELSE Mismatch

(* The values that compare for equality: of one kind, and scalar. *)
Comparable(a, b) == Kind(a) = Kind(b) /\ Kind(a) \in LiteralKinds

(* The comparison operators.  A decimal text and a number are never equal. *)
Compare(op, a, b) ==
  IF op \in Orders THEN CompareOrder(op, a, b)
  ELSE IF Comparable(a, b) THEN Bool((a = b) <=> (op = "=="))
  ELSE Mismatch

(* Elements of another type are passed over. *)
In(a, list) ==
  IF Kind(list) # "list" THEN Mismatch
  ELSE Bool(\E i \in 1..Len(list[2]) : Comparable(a, list[2][i]) /\ a = list[2][i])

ResolveField(parts, fields) ==
  FoldLeft(LAMBDA v, part :
             IF Failed(v) THEN v
             ELSE IF Kind(v) # "object" THEN Mismatch
             ELSE IF part \in DOMAIN v[2] THEN v[2][part] ELSE UnknownField(parts),
           Object(fields), parts)

RECURSIVE Eval(_, _)

(* && and ||: the right side is not looked at when the left decides. *)
EvalBoolean(op, left, right, fields) ==
  LET l == Eval(left, fields)
      r == Eval(right, fields)
  IN IF Failed(l) THEN l
     ELSE IF Kind(l) # "bool" THEN Mismatch
     ELSE IF l[2] = (op = "||") THEN l
     ELSE IF Failed(r) \/ Kind(r) = "bool" THEN r
     ELSE Mismatch

EvalBinary(op, left, right, fields) ==
  LET l == Eval(left, fields)
      r == Eval(right, fields)
  IN IF Failed(l) THEN l
     ELSE IF Failed(r) THEN r
     ELSE IF op = "in" THEN In(l, r)
     ELSE Compare(op, l, r)

EvalArray(elements, fields) ==
  LET values == [i \in 1..Len(elements) |-> Eval(elements[i], fields)]
      failed == SelectSeq(values, Failed)
  IN IF failed = <<>> THEN List(values) ELSE failed[1]

EvalNot(operand, fields) ==
  LET v == Eval(operand, fields)
  IN IF Failed(v) THEN v ELSE IF Kind(v) = "bool" THEN Bool(~v[2]) ELSE Mismatch

Eval(n, fields) ==
  CASE n[1] = "literal" -> n[2]
    [] n[1] = "field" -> ResolveField(n[2], fields)
    [] n[1] = "array" -> EvalArray(n[2], fields)
    [] n[1] = "not" -> EvalNot(n[2], fields)
    [] n[1] = "binary" ->
         IF n[2] \in {"&&", "||"} THEN EvalBoolean(n[2], n[3], n[4], fields)
         ELSE EvalBinary(n[2], n[3], n[4], fields)

(* Predicate.Eval: the result has to be a boolean. *)
Holds(n, fields) ==
  LET v == IF n = NoNode THEN Mismatch ELSE Eval(n, fields)
  IN IF Failed(v) \/ Kind(v) = "bool" THEN v ELSE Mismatch

-----------------------------------------------------------------------------
(* literalToken: what fmt.Sprint writes for any other value is a text of its
   own. *)
LiteralToken(v) ==
  CASE Kind(v) \in LiteralKinds -> v
    [] Kind(v) = "json.Number" -> Number(v[2])
    [] OTHER -> Text(<<"printed", v>>)

(* Expand gives the value of a text that holds an expression, an error when it
   can't be had, and any other text itself. *)
ExpandToken(t, Expand(_)) ==
  IF Failed(Expand(t)) THEN Expand(t) ELSE LiteralToken(Expand(t))

ExpandTokens(ts, Expand(_)) ==
  [i \in 1..Len(ts) |-> IF Kind(ts[i]) = "text" THEN ExpandToken(ts[i], Expand) ELSE ts[i]]

(* EvalExpanding, which assertions and repeat conditions use. *)
EvalExpanding(ts, fields, Expand(_)) ==
  LET expanded == ExpandTokens(ts, Expand)
      errors == SelectSeq(expanded, Failed)
  IN IF errors # <<>> THEN errors[1] ELSE Holds(Parse(expanded), fields)

(* ExpandText writes the tokens out again, and tokenize reads them back.  A
   text is quoted with the kind of quote it does not hold: one that holds both
   ends early, and what follows it is read as something else. *)
Reread(ts) ==
  [i \in 1..Len(ts) |->
    IF Kind(ts[i]) = "text" /\ ts[i][2][1] = "word" /\ ts[i][2][2] \in TwoQuotes
    THEN Mark("cut") ELSE ts[i]]

(* A selection filter: its text is expanded first, then evaluated. *)
EvalText(ts, fields, Expand(_)) ==
  LET expanded == ExpandTokens(ts, Expand)
      errors == SelectSeq(expanded, Failed)
  IN IF errors # <<>> THEN errors[1] ELSE Holds(Parse(Reread(expanded)), fields)
=============================================================================
