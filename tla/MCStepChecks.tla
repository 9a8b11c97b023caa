---------------------------- MODULE MCStepChecks ----------------------------
(***************************************************************************)
(* Small instances of StepChecks: steps that differ in what they expect    *)
(* and in how their result is judged, steps that extract outputs of every  *)
(* kind and compare them, and steps with one predicate each.               *)
(***************************************************************************)
EXTENDS StepChecks

(* "10" < "9.5" as text.  both holds two kinds of quotes. *)
MCTextOrder ==
  <<<<"decimal", 10, 0>>, <<"decimal", 95, 1>>, <<"decimal", 950, 2>>,
    <<"word", "">>, <<"word", "TEMP">>, <<"word", "a">>, <<"word", "both">>, <<"word", "open">>>>

NoMapping == [categories |-> <<>>, status |-> 0]
Temp(n) == [categories |-> "TEMP" :> n, status |-> 0]

PlainStep ==
  [expects |-> <<>>, assertions |-> <<>>, extract |-> <<>>, integers |-> {}, fromInput |-> <<>>,
   inputs |-> <<>>, earlier |-> NoOutputs, clones |-> <<>>, env |-> <<>>, today |-> 20, now |-> 100,
   nodeRules |-> <<>>, graphRules |-> <<>>, errorStatus |-> NoMapping,
   known |-> "none", goOn |-> FALSE, strict |-> FALSE, cleanup |-> TRUE]

Assertion ==
  [type |-> "status", expect |-> Code(200), path |-> <<>>, value |-> Null, expr |-> <<>>,
   raw |-> FALSE, meant |-> Literal(Bool(TRUE)), plain |-> TRUE, quotable |-> TRUE]

Response(status, grpc, body) == [status |-> status, grpc |-> grpc, headers |-> <<>>, body |-> body]
Case(s, r, found) == [step |-> s, response |-> r, schema |-> found]

-----------------------------------------------------------------------------
(* What a step expects, what its assertion expects, and what it gets. *)
Fault == Object("error" :> Object("category" :> Word("TEMP")))
Fine == Object("error" :> Null)

Rule(kind, statuses) ==
  [rule |-> kind, path |-> <<"error">>, value |-> Null, category |-> <<"error", "category">>,
   statuses |-> statuses]
RuleSets == {<<>>, <<Rule("exists", Temp(503))>>, <<Rule("equals", NoMapping), Rule("non-empty", NoMapping)>>}

Expected == {<<>>, <<Code(404)>>, <<Code(503)>>, <<Class(5)>>, <<GrpcName("NOT_FOUND")>>,
             <<GrpcName("UNAVAILABLE")>>, <<Code(404), Class(5)>>}
Asserted == {Code(200), Class(2), Class(5), Code(404), Code(503), GrpcName("OK"),
             GrpcName("NOT_FOUND"), GrpcName("UNAVAILABLE")}
Got == {Response(st[1], st[2], b) :
          st \in {<<200, "">>, <<200, "OK">>, <<404, "">>, <<404, "NOT_FOUND">>, <<503, "UNAVAILABLE">>},
          b \in {Fault, Fine}}

ExpectCases ==
  {Case([PlainStep EXCEPT !.expects = e, !.graphRules = rs, !.errorStatus = Temp(404),
                          !.assertions = <<[Assertion EXCEPT !.expect = a]>>], r, "none") :
     e \in Expected, rs \in RuleSets, a \in Asserted, r \in Got}

JudgeCases ==
  {Case([PlainStep EXCEPT !.expects = e, !.known = k, !.goOn = g, !.strict = st, !.cleanup = c,
                          !.nodeRules = <<Rule("exists", NoMapping)>>,
                          !.extract = "id" :> [header |-> "", path |-> <<"id">>, fields |-> <<>>,
                                               optional |-> FALSE, default |-> Absent],
                          !.assertions = <<[Assertion EXCEPT !.type = t, !.path = <<"id">>]>>],
        r, found) :
     e \in {<<>>, <<Class(4)>>}, k \in {"none", "active", "expired"}, g \in BOOLEAN,
     st \in BOOLEAN, c \in BOOLEAN, t \in {"schema", "fieldExists", "fieldAbsent"},
     r \in {Response(200, "", Object("id" :> Word("a"))), Response(200, "", Fault),
            Response(200, "", NotJSON), Response(200, "", Fine), Response(404, "", Null),
            Response(201, "", Object("id" :> Null))},
     found \in {"noBody", "valid", "invalid", "badRequest"}}

-----------------------------------------------------------------------------
(* A list of priced items, amounts in every form, and a header. *)
Item(n) == Object("sku" :> Word("a") @@ "price" :> Number(n))
Body(total, due) ==
  Object("id" :> Word("a") @@ "total" :> total @@ "due" :> due @@ "open" :> Bool(TRUE)
         @@ "none" :> Null @@ "items" :> List(<<Item(400), Item(950)>>))

Path(p) == [header |-> "", path |-> p, fields |-> <<>>, optional |-> FALSE, default |-> Absent]
Extracts ==
  [total |-> Path(<<"total">>), due |-> Path(<<"due">>), open |-> Path(<<"open">>),
   none |-> [Path(<<"none">>) EXCEPT !.default = Word("open")],
   first |-> Path(<<"items", "0", "price">>),
   gone |-> [Path(<<"gone">>) EXCEPT !.optional = TRUE],
   all |-> [Path(<<"items">>) EXCEPT !.fields = "sku" :> <<"sku">> @@ "cost" :> <<"price">>],
   left |-> [Path(<<>>) EXCEPT !.header = "Left", !.default = Word("a")]]

(* An earlier step, by itself and isolated. *)
Earlier == [make |-> [price |-> JsonNumber(950), text |-> DecimalText(95, 1), none |-> Null],
            other |-> [price |-> JsonNumber(400)]]

Forms == {Plain("make", "price"), Plain("make", "text"), Plain("make", "none"), Plain("other", "price"),
          Offset("make", "price", 1, 0, ""), Offset("make", "text", -25, 2, ""), Plain("", "x"),
          Offset("", "x", 2, 0, "hour"), Offset("", "today", 3, 0, "day"), Offset("", "today", 3, 0, "hour"),
          Offset("", "now", -1, 0, "minute"), Offset("", "uuid", 1, 0, ""), Plain("", "unixtime"),
          Offset("", "day", 2, 0, "day"), Offset("", "day", 1, 0, "hour"), Plain("env", "home"), RandomOf(65), Odd}
Expected1 == {Template(<<Expr(f)>>) : f \in Forms}
             \cup {Template(<<Says("a"), Expr(Plain("other", "price"))>>), Number(400),
                   DecimalText(950, 2), DecimalText(10, 0), Object("price" :> Template(<<Expr(Plain("", "x"))>>))}

OutputCases ==
  {Case([PlainStep EXCEPT !.extract = Extracts, !.integers = {"left"}, !.fromInput = [x |-> "x", y |-> "y"],
                          !.inputs = [x |-> Number(1000), day |-> Date(20)], !.earlier = Earlier,
                          !.clones = "make" :> "make_2", !.env = [home |-> Word("a")],
                          !.assertions = <<[Assertion EXCEPT !.type = "fieldEquals", !.path = p, !.value = v,
                                                             !.raw = raw],
                                           [Assertion EXCEPT !.type = "predicate",
                                                             !.expr = <<Name(p), Operator("=="), v>>,
                                                             !.plain = FALSE]>>],
        [Response(200, "", Body(t, d)) EXCEPT !.headers = h], "none") :
     p \in {<<"total">>, <<"due">>}, raw \in BOOLEAN, t \in {Number(400), Number(1000)},
     v \in {x \in Expected1 : Kind(x) # "object"}, d \in {DecimalText(95, 1), Word("open"), Number(1050)},
     h \in {<<>>, "Left" :> DecimalText(10, 0)}}

-----------------------------------------------------------------------------
(* Predicates, as their author meant them: two levels of operators. *)
Leaves == {Field(<<"total">>), Field(<<"open">>), Field(<<"gone", "x">>), Literal(Number(400)),
           Literal(Word("both"))}
Truths == {Field(<<"open">>), Field(<<"gone", "x">>), Literal(Bool(FALSE))}
Pairs(ops, ns) == {Binary(o, a, b) : o \in ops, a \in ns, b \in ns}
Level1 == Pairs({"==", "<"}, Leaves) \cup Pairs({"&&", "||"}, Truths) \cup {Not(n) : n \in Truths}
          \cup {Binary("in", Field(<<"total">>), Array(<<Literal(Number(400)), Field(<<"due">>)>>))}
          \cup {Binary("in", Field(<<"open">>), Array(<<>>))}
Level2 == Pairs({"&&", "||"}, {Field(<<"open">>), Not(Field(<<"open">>)),
                               Binary("||", Field(<<"open">>), Field(<<"gone", "x">>)),
                               Binary("&&", Literal(Bool(FALSE)), Field(<<"gone", "x">>)),
                               Binary("==", Field(<<"total">>), Literal(Number(400)))})
          \cup {Not(Binary("==", Field(<<"total">>), Literal(Number(400)))),
                Not(Not(Field(<<"open">>))),
                Binary("==", Binary("<", Field(<<"total">>), Literal(Number(500))), Field(<<"open">>)),
                Binary("in", Binary("&&", Field(<<"open">>), Field(<<"open">>)), Array(<<Field(<<"open">>)>>))}

HoldsBoth(n) == n[1] = "binary" /\ Literal(Word("both")) \in {n[3], n[4]}

PredicateCases ==
  {Case([PlainStep EXCEPT !.assertions =
           <<[Assertion EXCEPT !.type = "predicate", !.meant = n, !.expr = Written(n, 1), !.raw = TRUE,
                               !.quotable = ~HoldsBoth(n)]>>],
        Response(200, "", Body(t, DecimalText(95, 1))), "none") :
     n \in Level1 \cup Level2 \cup {Literal(Bool(TRUE)), Field(<<"open">>), Field(<<"total">>)},
     t \in {Number(400), Number(950), Word("open")}}

MCCases == ExpectCases \cup JudgeCases \cup OutputCases \cup PredicateCases
=============================================================================
