----------------------------- MODULE StepChecks -----------------------------
(***************************************************************************)
(* What becomes of one response: executeStepWith after send                *)
(* (engine/engine.go).  How it is judged is StepVerdict; here is what is   *)
(* read off its body: the error detection rules, the extraction of outputs *)
(* (adapter/template.go), and the assertions on the body                   *)
(* (validate/mechanical.go).                                               *)
(***************************************************************************)
EXTENDS Expression, StepVerdict

(* gjson over the parts of a normalized path. *)
Absent == <<"absent">>
Position == "0" :> 1 @@ "1" :> 2

Inside(v, part) ==
  CASE Kind(v) = "object" /\ part \in DOMAIN v[2] -> v[2][part]
    [] Kind(v) = "list" /\ part \in DOMAIN Position ->
         IF Position[part] <= Len(v[2]) THEN v[2][Position[part]] ELSE Absent
    [] OTHER -> Absent

(* NormalizeJSONPath: $ alone is the whole body. *)
Whole == <<"$">>
Reading(body, path) == IF path = Whole THEN body ELSE FoldLeft(Inside, body, path)

Present(v) == v \notin {Absent, Null}

(* jsonValueEqual, for an actual value decoded from JSON. *)
RECURSIVE ValuesEqual(_, _)
ValuesEqual(actual, expected) ==
  CASE IsNumber(expected) -> Kind(actual) = "number" /\ actual[2] = expected[2]
    [] Kind(expected) \in {"list", "object"} ->
         /\ Kind(actual) = Kind(expected)
         /\ DOMAIN actual[2] = DOMAIN expected[2]
         /\ \A k \in DOMAIN expected[2] : ValuesEqual(actual[2][k], expected[2][k])
    [] OTHER -> actual = expected

Empty(v) == v \in {List(<<>>), Object(<<>>), Word("")}

RuleTriggered(rule, body) ==
  LET v == Reading(body, rule.path)
  IN CASE rule.rule = "exists" -> Present(v)
       [] rule.rule = "non-empty" -> Present(v) /\ ~Empty(v)
       [] rule.rule = "equals" -> v # Absent /\ ValuesEqual(v, rule.value)

(* ErrorStatus.StatusFor: 0 for a mapping that gives the category none. *)
StatusFor(mapping, category) ==
  IF category \in DOMAIN mapping.categories THEN mapping.categories[category]
  ELSE mapping.status

CategoryOf(rule, body) ==
  LET v == Reading(body, rule.category)
  IN IF rule.category # <<>> /\ Kind(v) = "text" THEN v[2][2] ELSE ""

(* effectiveErrorRules: a node's own rules replace the graph's. *)
EffectiveRules(s) == IF s.nodeRules # <<>> THEN s.nodeRules ELSE s.graphRules

(* detectBodyError and CheckErrorDetection: the first rule that triggers. *)
DetectBodyError(s, body) ==
  LET triggered == SelectSeq(EffectiveRules(s), LAMBDA r : RuleTriggered(r, body))
      category == CategoryOf(triggered[1], body)
      own == StatusFor(triggered[1].statuses, category)
  IN IF triggered = <<>> THEN NoBodyError
     ELSE [found |-> TRUE, status |-> IF own # 0 THEN own ELSE StatusFor(s.errorStatus, category)]

-----------------------------------------------------------------------------
(* gjsonValue: a number that is itself an output keeps its digits. *)
GjsonValue(v) == IF Kind(v) = "number" THEN JsonNumber(v[2]) ELSE v

(* transformElements: a field an element does not have is left out. *)
TransformElement(element, fields) ==
  Object([f \in {g \in DOMAIN fields : Reading(element, fields[g]) # Absent} |->
            GjsonValue(Reading(element, fields[f]))])

TransformElements(list, fields) ==
  List([i \in 1..Len(list[2]) |-> TransformElement(list[2][i], fields)])

LeftOut == <<"leftOut">>
Defaulted(rule) ==
  IF rule.default # Absent THEN rule.default ELSE IF rule.optional THEN LeftOut ELSE Mismatch

ExtractHeader(rule, headers) ==
  IF rule.header \in DOMAIN headers THEN headers[rule.header] ELSE Defaulted(rule)

ExtractPath(rule, body) ==
  LET v == Reading(body, rule.path)
  IN CASE v = Absent \/ (v = Null /\ rule.default # Absent) -> Defaulted(rule)
       [] rule.fields = <<>> -> GjsonValue(v)
       [] Kind(v) = "list" -> TransformElements(v, rule.fields)
       [] OTHER -> Mismatch

Extract(rule, r) ==
  IF rule.header # "" THEN ExtractHeader(rule, r.headers) ELSE ExtractPath(rule, r.body)

NotJSON == <<"notJSON">>
ReadsBody(s) == \E o \in DOMAIN s.extract : s.extract[o].header = ""

(* The outputs ExtractOutputs returns, or its error. *)
ExtractOutputs(s, r) ==
  LET found == [o \in DOMAIN s.extract |-> Extract(s.extract[o], r)]
      kept == {o \in DOMAIN found : found[o] # LeftOut}
  IN IF (ReadsBody(s) /\ r.body = NotJSON) \/ \E o \in DOMAIN found : Failed(found[o])
     THEN Mismatch ELSE Object(Restrict(found, kept))

(* convertHeaderOutputs, for the type integer: a text that is none stays. *)
ConvertHeader(s, o, v) ==
  IF /\ o \in DOMAIN s.extract /\ s.extract[o].header # "" /\ o \in s.integers
     /\ Kind(v) = "text" /\ v[2][1] = "decimal" /\ v[2][3] = 0
  THEN Number(100 * v[2][2]) ELSE v

(* echoInputOutputs: the inputs a node declares as outputs too. *)
Echoed(s) ==
  LET outs == {o \in DOMAIN s.fromInput : s.fromInput[o] \in DOMAIN s.inputs}
  IN [o \in outs |-> s.inputs[s.fromInput[o]]]

FinishOutputs(s, found) ==
  Object(Echoed(s) @@ [o \in DOMAIN found[2] |-> ConvertHeader(s, o, found[2][o])])

(* The outputs as JSON holds them, which is what assertions read. *)
RECURSIVE Marshalled(_)
Marshalled(v) ==
  CASE Kind(v) = "json.Number" -> Number(v[2])
    [] Kind(v) \in {"list", "object"} -> <<Kind(v), [k \in DOMAIN v[2] |-> Marshalled(v[2][k])]>>
    [] OTHER -> v

(* What executeStepWith has after a response below 400. *)
ExtractedOutputs(s, r) ==
  LET found == ExtractOutputs(s, r)
  IN [failed |-> Failed(found),
      outputs |-> IF Failed(found) THEN NoOutputMap ELSE FinishOutputs(s, found)]

-----------------------------------------------------------------------------
(* assertionExprContext. *)
Ctx(s) == Context(s.today, s.now, s.env, s.inputs, s.earlier)

(* The JSON an assertion is checked against. *)
BodyFor(r, outs, a) ==
  IF a.raw \/ outs = NoOutputMap THEN r.body ELSE Marshalled(outs)

CheckFieldEquals(s, body, a) ==
  LET v == Reading(body, a.path)
      expected == EvalExpr(a.value, Ctx(s))
  IN ~Failed(expected) /\ a.path # <<>> /\ v # Absent /\ ValuesEqual(v, expected)

(* A body that is no JSON object fails; null decodes to an empty one. *)
CheckPredicate(s, body, a) ==
  LET fields == IF body = Null THEN <<>> ELSE body[2]
      Expand(t) == EvalExpr(t, Ctx(s))
  IN /\ body = Null \/ Kind(body) = "object"
     /\ EvalExpanding(a.expr, fields, Expand) = Bool(TRUE)

(* RunMechanical, of the assertions that read the body or the outputs. *)
CheckBody(s, r, outs, a) ==
  LET body == BodyFor(r, outs, a)
  IN CASE a.type = "fieldExists" -> a.path # <<>> /\ Present(Reading(body, a.path))
       [] a.type = "fieldAbsent" -> a.path # <<>> /\ ~Present(Reading(body, a.path))
       [] a.type = "fieldEquals" -> CheckFieldEquals(s, body, a)
       [] a.type = "predicate" -> CheckPredicate(s, body, a)

-----------------------------------------------------------------------------
(* The values of this step that a check may compare. *)
Values ==
  {v \in {Marshalled(outputs)[2][o] : o \in DOMAIN outputs[2]} \cup
         {EvalExpr(step.assertions[i].value, Ctx(step)) : i \in 1..Len(step.assertions)} :
     ~Failed(v) /\ (Kind(v) = "text" => v[2] \in ToSet(TextOrder))}

Less(a, b) == Compare("<", a, b) = Bool(TRUE)

(* fieldEquals, ==, != and in are one equality over JSON values, and the four
   orders are one order: two values that order are less, greater or neither,
   and amounts order alike as texts and as numbers, also when the same offset is
   added to both in an expression. *)
ComparisonsAgree ==
  stage = "judged" /\ outputs # NoOutputMap =>
    /\ \A a, b \in Values :
         /\ Comparable(a, b) =>
              /\ ValuesEqual(a, b) <=> Compare("==", a, b) = Bool(TRUE)
              /\ ValuesEqual(a, b) <=> Compare("!=", a, b) = Bool(FALSE)
              /\ ValuesEqual(a, b) <=> In(a, List(<<b, Null>>)) = Bool(TRUE)
         /\ Compare("<", a, b) = Compare(">", b, a)
         /\ Compare("<=", a, b) = Compare(">=", b, a)
         /\ ~Failed(Compare("<", a, b)) => Less(a, b) = (Compare(">=", a, b) = Bool(FALSE))
    /\ \A a, b, c \in {v \in Values : IsAmount(v)} : Less(a, b) /\ Less(b, c) => Less(a, c)
    /\ \A a, b \in {v \in Values : IsAmount(v)}, places \in 0..2 :
         Less(a, b) => Less(AddNumber(a, 1, places), AddNumber(b, 1, places))

(* An output a plain rule reads is the value of the body, whoever reads it: an
   assertion, or an expression of a later step. *)
OutputsReadAsTheBody ==
  stage = "checked" /\ outputs # NoOutputMap =>
    \A o \in DOMAIN step.extract \cap DOMAIN outputs[2] :
      LET rule == step.extract[o]
          v == Reading(response.body, rule.path)
          later == [Ctx(step) EXCEPT !.outputs = ("this" :> outputs[2])]
      IN /\ rule.header = "" /\ rule.fields = <<>> /\ Present(v)
         /\ o \notin DOMAIN Echoed(step)
         => /\ Marshalled(outputs)[2][o] = v
            /\ Kind(v) \in LiteralKinds =>
                 EvalExpr(Template(<<Expr(Plain("this", o))>>), later) = v

(* The text an expression is written in, with the brackets it needs: written
   takes the tree its author meant. *)
Strength(n) ==
  CASE n[1] # "binary" -> IF n[1] = "not" THEN 5 ELSE 6
    [] n[2] = "||" -> 1
    [] n[2] = "&&" -> 2
    [] n[2] = "in" -> 4
    [] OTHER -> 3

RECURSIVE Written(_, _)
Bracketed(n, least) ==
  IF Strength(n) < least THEN <<Mark("(")>> \o Written(n, 1) \o <<Mark(")")>> ELSE Written(n, least)

(* least: the strength the place asks for, so that the operand of a comparison
   is bracketed when it is a comparison itself. *)
Written(n, least) ==
  CASE Strength(n) < least -> Bracketed(n, least)
    [] n[1] = "literal" -> <<n[2]>>
    [] n[1] = "field" -> <<Name(n[2])>>
    [] n[1] = "array" ->
         <<Mark("[")>> \o
         FoldLeft(LAMBDA ts, i : ts \o (IF i = 1 THEN <<>> ELSE <<Mark(",")>>) \o Written(n[2][i], 1),
                  <<>>, [i \in 1..Len(n[2]) |-> i]) \o <<Mark("]")>>
    [] n[1] = "not" -> <<Operator("!")>> \o Written(n[2], 5)
    [] n[2] = "in" -> Written(n[3], 5) \o <<Mark("in")>> \o Written(n[4], 6)
    [] OTHER ->
         LET s == Strength(n)
         IN Written(n[3], IF s = 3 THEN 4 ELSE s) \o <<Operator(n[2])>> \o Written(n[4], s + 1)

(* read, meant, left and filtered are what the text, the tree its author meant,
   the tree's left side and the text as a filter come to. *)
ReadAsMeant(a, read, meant, left, filtered) ==
  LET Decides(op, b) == a.meant[1] = "binary" /\ a.meant[2] = op /\ left = Bool(b)
  IN /\ a.plain => read = meant
     /\ Decides("||", TRUE) => meant = Bool(TRUE)
     /\ Decides("&&", FALSE) => meant = Bool(FALSE)
     /\ a.quotable => filtered = read

(* A predicate is read as its author bracketed it in mind (Parse), a side that
   && or || does not need can't make it fail, and a selection filter, whose
   text is expanded before it is parsed, comes to what an assertion comes to,
   unless a value holds both kinds of quotes. *)
ReadsAsWritten ==
  stage = "checked" =>
    \A i \in 1..Len(step.assertions) :
      LET a == step.assertions[i]
          fields == BodyFor(response, outputs, a)[2]
          Expand(t) == EvalExpr(t, Ctx(step))
      IN a.type = "predicate" /\ Kind(BodyFor(response, outputs, a)) = "object" =>
           ReadAsMeant(a, EvalExpanding(a.expr, fields, Expand), Holds(a.meant, fields),
                       Eval(a.meant[3], fields), EvalText(a.expr, fields, Expand))

(* The outputs of the earlier steps under the clones' names: those that refs
   holds, as a run orders its steps by the references alone. *)
ClonedOutputs(refs) ==
  LET ids == step.clones
      Named(s) == IF s \in DOMAIN ids THEN ids[s] ELSE s
      original(s) == CHOOSE r \in DOMAIN step.earlier : Named(r) = s
      Read(s) == {o \in DOMAIN step.earlier[original(s)] : <<s, o>> \in refs}
  IN [s \in {Named(r) : r \in DOMAIN step.earlier} |->
        [o \in Read(s) |-> step.earlier[original(s)][o]]]

(* When a step is isolated its assertions read the clones of the steps they
   read before, with the offsets they had (RewriteAssertionRefs), in a text, and
   AssertionOutputRefs names every output they read: with those outputs alone,
   under the clones' names, they come to what they came to. *)
RenamedRefsRead ==
  stage = "checked" /\ step.earlier # NoOutputs =>
    \A i \in 1..Len(step.assertions) :
      LET a == step.assertions[i]
          value == RewriteExprRefs(a.value, step.clones)
          expr == RewritePredicate(a.expr, step.clones)
          Here(t) == EvalExpr(t, Ctx(step))
          There(t) == EvalExpr(t, [Ctx(step) EXCEPT !.outputs = ClonedOutputs(PredicateRefs(expr))])
      IN /\ a.type = "fieldEquals" /\ Kind(a.value) = "text" =>
              EvalExpr(value, [Ctx(step) EXCEPT !.outputs = ClonedOutputs(OutputRefs(value))])
                = EvalExpr(a.value, Ctx(step))
         /\ a.type = "predicate" => ExpandTokens(expr, There) = ExpandTokens(a.expr, Here)

(* A value is one value to whatever reads or compares it: a body's path, an
   output, an assertion, an expression, a filter. *)
ValuesAreOne == ComparisonsAgree /\ OutputsReadAsTheBody

(* A text keeps its meaning through parsing, expansion and the renaming of the
   steps that it reads. *)
TextsKeepTheirMeaning == ReadsAsWritten /\ RenamedRefsRead
=============================================================================
