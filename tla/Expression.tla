----------------------------- MODULE Expression -----------------------------
(***************************************************************************)
(* plan/expr.go and plan/predicate_exprs.go: the {{...}} expressions that  *)
(* step values, assertions and conditions are written with, what they      *)
(* evaluate to, and the renaming of the steps they read when a step is     *)
(* isolated.                                                               *)
(*                                                                         *)
(* A text that holds expressions is Template(segments), each segment       *)
(* Says(w), literal text, or Expr(form).  A form is what stands between    *)
(* the braces: Plain(step, name), with step "" for a single identifier;    *)
(* Offset(step, name, n, places, unit), n with its sign and unit "" for    *)
(* none; RandomOf(n); or Odd, which no pattern matches.                    *)
(***************************************************************************)
EXTENDS Predicate

CONSTANTS
  IntLimit,     \* an int64 is at least -IntLimit and below IntLimit
  MaxSeconds    \* the longest time.Duration, in seconds

ASSUME WidthAssumption ==
  /\ IntLimit \in Nat \ {0}
  /\ MaxSeconds \in Nat

Template(segments) == Text(<<"template", segments>>)
Says(w) == <<"says", w>>
Expr(form) == <<"expr", form>>
Plain(step, name) == <<"plain", step, name>>
Offset(step, name, n, places, unit) == <<"offset", step, name, n, places, unit>>
RandomOf(n) == <<"random", n>>
Odd == <<"odd">>

Date(day) == Text(<<"date", day>>)
Instant(second) == Text(<<"instant", second>>)

(* ctx.  today and now are the time the step's inputs were resolved. *)
Context(today, now, env, values, outputs) ==
  [today |-> today, now |-> now, env |-> env, values |-> values, outputs |-> outputs]

(* The outputs of a context that can read none. *)
NoOutputs == [unreadable |-> TRUE]

-----------------------------------------------------------------------------
Per == [second |-> 1, minute |-> 60, hour |-> 3600, day |-> 86400]
MaxRandomLength == 64

(* offsetDuration: whether a number of units is a time at all. *)
IsDuration(n, unit) == unit \in DOMAIN Per /\ n <= MaxSeconds \div Per[unit]

Seconds(n, unit) == n * Per[unit]
Size(n) == IF n < 0 THEN -n ELSE n

(* What an offset adds to a reference. *)
NothingAdded == <<"nothing">>
NumberAdded(n, places) == <<"number", n, places>>
TimeAdded(seconds) == <<"time", seconds>>

(* parseRefOffset, after the patterns of the clocks and of today. *)
ParseRefOffset(f) ==
  LET step == f[2]
      name == f[3]
      n == f[4]
      places == f[5]
      unit == f[6]
      base == IF step = "" THEN <<"ref", name>> ELSE <<"output", step, name>>
  IN CASE step = "" /\ name \in {"uuid", "random", "today", "now", "unixtime"} -> Mismatch
       [] step = "env" -> Mismatch
       [] unit = "" -> Append(base, NumberAdded(n, places))
       [] OTHER ->
            IF places = 0 /\ IsDuration(Size(n), unit)
            THEN Append(base, TimeAdded(Seconds(n, unit))) ELSE Mismatch

(* parseExprInner. *)
ParseForm(f) ==
  LET clock == f[2] = "" /\ f[3] \in {"now", "unixtime"}
  IN CASE f[1] = "random" -> IF f[2] \in 1..MaxRandomLength THEN f ELSE Mismatch
       [] f[1] = "odd" -> Mismatch
       [] f[1] = "plain" /\ f[2] = "env" -> <<"env", f[3]>>
       [] f[1] = "plain" /\ f[2] # "" -> <<"output", f[2], f[3], NothingAdded>>
       [] f[1] = "plain" /\ clock -> <<f[3], 0>>
       [] f[1] = "plain" /\ f[3] = "today" -> <<"today", 0>>
       [] f[1] = "plain" /\ f[3] = "uuid" -> <<"uuid">>
       [] f[1] = "plain" -> <<"ref", f[3], NothingAdded>>
       [] f[1] = "offset" /\ clock /\ f[5] = 0 /\ f[6] # "" ->
            IF IsDuration(Size(f[4]), f[6]) THEN <<f[3], Seconds(f[4], f[6])>> ELSE Mismatch
       [] f[1] = "offset" /\ f[2] = "" /\ f[3] = "today" /\ f[5] = 0 /\ f[6] = "day" ->
            <<"today", f[4]>>
       [] OTHER -> ParseRefOffset(f)

-----------------------------------------------------------------------------
(* int64 arithmetic. *)
IsInt64(n) == -IntLimit <= n /\ n < IntLimit
Wrapped(n) == ((n + IntLimit) % (2 * IntLimit)) - IntLimit

IsNumber(v) == Kind(v) \in {"number", "json.Number"}
IsWhole(v) == IsNumber(v) /\ v[2] % 100 = 0

Larger(a, b) == IF a < b THEN b ELSE a

(* n, written with p places, written with places: what is cut off is lost. *)
Scaled(n, p, places) == IF p <= places THEN n * 10 ^ (places - p) ELSE n \div 10 ^ (p - places)

(* addDecimalText: each side has to be an int64 once both have the places of
   the more precise of the two. *)
AddDecimalText(t, n, places) ==
  LET p == Larger(t[3], places)
      a == Scaled(t[2], t[3], p)
      b == Scaled(n, places, p)
  IN IF t[1] # "decimal" \/ ~IsInt64(a) \/ ~IsInt64(b) THEN Mismatch
     ELSE DecimalText(Wrapped(a + b), p)

(* addNumber: whole numbers add as int64, others as float64, text as text. *)
AddNumber(v, n, places) ==
  CASE Kind(v) = "text" -> IF v[2][1] = "decimal" THEN AddDecimalText(v[2], n, places) ELSE Mismatch
    [] IsWhole(v) /\ places = 0 -> Number(100 * Wrapped(v[2] \div 100 + n))
    [] IsNumber(v) -> Number(v[2] + Scaled(n, places, 2))
    [] OTHER -> Mismatch

(* A date moves by whole days, Unix seconds by any time. *)
AddTime(v, seconds) ==
  CASE Kind(v) = "text" ->
         IF v[2][1] = "date" /\ seconds % Per["day"] = 0
         THEN Date(v[2][2] + seconds \div Per["day"]) ELSE Mismatch
    [] IsWhole(v) -> Number(100 * Wrapped(v[2] \div 100 + seconds))
    [] OTHER -> Mismatch

(* applyOffset. *)
ApplyOffset(v, added) ==
  CASE Failed(v) \/ added = NothingAdded -> v
    [] added[1] = "number" -> AddNumber(v, added[2], added[3])
    [] added[1] = "time" -> AddTime(v, added[2])

(* Mutant of OutputExprValue: a number of a response is read as it is. *)
OutputExprValueAsRead(v) == IF Kind(v) \in {"null", "list", "object"} THEN Mismatch ELSE v

(* outputExprValue: a reference reads a single value, and a number of a
   response as a number of Go. *)
OutputExprValue(v) ==
  CASE Kind(v) \in {"null", "list", "object"} -> Mismatch
    [] Kind(v) = "json.Number" -> Number(v[2])
    [] OTHER -> v

OutputAt(step, name, ctx) ==
  IF ctx.outputs = NoOutputs \/ step \notin DOMAIN ctx.outputs THEN Mismatch
  ELSE IF name \in DOMAIN ctx.outputs[step] THEN OutputExprValue(ctx.outputs[step][name])
  ELSE Mismatch

(* evalOneExpr. *)
EvalForm(f, ctx) ==
  LET p == ParseForm(f)
  IN CASE Failed(p) -> p
       [] p[1] = "today" -> Date(ctx.today + p[2])
       [] p[1] = "now" -> Instant(ctx.now + p[2])
       [] p[1] = "unixtime" -> Number(100 * (ctx.now + p[2]))
       [] p[1] \in {"uuid", "random"} -> Text(<<"drawn", p>>)
       [] p[1] = "env" -> IF p[2] \in DOMAIN ctx.env THEN ctx.env[p[2]] ELSE Mismatch
       [] p[1] = "ref" ->
            IF p[2] \in DOMAIN ctx.values THEN ApplyOffset(ctx.values[p[2]], p[3]) ELSE Mismatch
       [] p[1] = "output" -> ApplyOffset(OutputAt(p[2], p[3], ctx), p[4])

IsTemplate(v) == Kind(v) = "text" /\ v[2][1] = "template"

(* A template of one expression is its value, any other is text. *)
EvalTemplate(segments, ctx) ==
  LET values == [i \in 1..Len(segments) |->
                   IF segments[i][1] = "expr" THEN EvalForm(segments[i][2], ctx)
                   ELSE Word(segments[i][2])]
      failed == SelectSeq(values, Failed)
  IN IF failed # <<>> THEN failed[1]
     ELSE IF Len(segments) = 1 /\ segments[1][1] = "expr" THEN values[1]
     ELSE Text(<<"joined", values>>)

RECURSIVE EvalExpr(_, _)

(* The values of the items of a list or an object, or the error of one. *)
EvalItems(items, ctx) ==
  LET values == [k \in DOMAIN items |-> EvalExpr(items[k], ctx)]
  IN IF \E k \in DOMAIN items : Failed(values[k]) THEN <<"failed">> ELSE <<"values", values>>

(* Also exprExpander, for the quoted literals of a predicate. *)
EvalExpr(raw, ctx) ==
  CASE IsTemplate(raw) -> EvalTemplate(raw[2][2], ctx)
    [] Kind(raw) \in {"list", "object"} ->
         LET items == EvalItems(raw[2], ctx)
         IN IF items[1] = "failed" THEN Mismatch ELSE <<Kind(raw), items[2]>>
    [] OTHER -> raw

-----------------------------------------------------------------------------
(* validateExpr's part of what is checked when a plan is loaded: each form of
   a text parses. *)
FormsOf(v) == {s[2] : s \in {x \in ToSet(v[2][2]) : x[1] = "expr"}}

RECURSIVE ValidExpr(_)
ValidExpr(v) ==
  CASE IsTemplate(v) -> \A f \in FormsOf(v) : ~Failed(ParseForm(f))
    [] Kind(v) \in {"list", "object"} -> \A k \in DOMAIN v[2] : ValidExpr(v[2][k])
    [] OTHER -> TRUE

(* ExprOutputRefs and ExprValueOutputRefs: the outputs an expression reads. *)
FormRefs(f) ==
  LET p == ParseForm(f) IN IF p[1] = "output" THEN {<<p[2], p[3]>>} ELSE {}

RECURSIVE OutputRefs(_)
OutputRefs(v) ==
  CASE IsTemplate(v) -> UNION {FormRefs(f) : f \in FormsOf(v)}
    [] Kind(v) \in {"list", "object"} -> UNION {OutputRefs(v[2][k]) : k \in DOMAIN v[2]}
    [] OTHER -> {}

(* Mutant of RenameForm: an offset keeps the old name. *)
RenameFormPlain(f, ids) ==
  IF f[1] = "plain" /\ f[2] \in DOMAIN ids /\ f[2] # "env" THEN [f EXCEPT ![2] = ids[f[2]]]
  ELSE f

RenameForm(f, ids) ==
  IF f[1] \in {"plain", "offset"} /\ f[2] \in DOMAIN ids /\ f[2] # "env"
  THEN [f EXCEPT ![2] = ids[f[2]]] ELSE f

(* RewriteExprRefs: only text is rewritten. *)
RewriteExprRefs(v, ids) ==
  IF ~IsTemplate(v) THEN v
  ELSE Template([i \in 1..Len(v[2][2]) |->
                   IF v[2][2][i][1] = "expr" THEN Expr(RenameForm(v[2][2][i][2], ids))
                   ELSE v[2][2][i]])

RewritePredicate(ts, ids) == [i \in 1..Len(ts) |-> RewriteExprRefs(ts[i], ids)]

(* PredicateOutputRefs. *)
PredicateRefs(ts) == UNION {OutputRefs(ts[i]) : i \in {j \in 1..Len(ts) : Kind(ts[j]) = "text"}}
=============================================================================
