------------------------------ MODULE MCPlanLoad ------------------------------
EXTENDS Prompt

(* A shop of four calls: create has a response that may lack its code, ship and
   show read the ID a create answered, and pay the label of a ship. *)
MCGraph ==
  [create |-> [inputs |-> <<"name">>, requires |-> {}, satisfies |-> {"made"}, cleanup |-> "pay", optional |-> {"name"},
               outputs |-> {"id", "code"}, mayLack |-> {"code"}, default |-> <<>>],
   ship   |-> [inputs |-> <<"id", "code">>, requires |-> {"made"}, satisfies |-> {}, cleanup |-> "", optional |-> {"code"},
               outputs |-> {"label"}, mayLack |-> {},
               default |-> [id |-> Ref("from", "create", "id")]],
   pay    |-> [inputs |-> <<"label">>, requires |-> {}, satisfies |-> {}, cleanup |-> "", optional |-> {}, outputs |-> {"receipt"}, mayLack |-> {},
               default |-> [label |-> Ref("from", "ship", "label")]],
   show   |-> [inputs |-> <<"id">>, requires |-> {"made"}, satisfies |-> {}, cleanup |-> "", optional |-> {},
               outputs |-> {"state"}, mayLack |-> {}, default |-> <<>>]]

A == <<"a">>
B == <<"b">>
C == <<"c">>

(* A step as an author writes it: its instances differ in what a test varies. *)
Plain(id, node) ==
  [id |-> id, node |-> node, deps |-> <<>>, values |-> <<>>, negative |-> FALSE,
   asserts |-> {}, mutations |-> <<>>, isolated |-> FALSE, variantOf |-> <<>>]

Deps(ids) == {<<>>} \cup {<<id>> : id \in ids}
Mutation(name, set) == [name |-> name, set |-> set]

(* The plan's first step, its second, which may be a create that is to be
   refused or reads the third, and the third, which has the mutations. *)
FirstSteps ==
  {[Plain(A, "create") EXCEPT !.deps = d, !.asserts = r] :
     d \in Deps({B}), r \in {{}, {Ref("expr", B, "id")}}}
SecondSteps ==
  {[Plain(B, "create") EXCEPT !.negative = n, !.deps = d, !.values = v] :
     n \in BOOLEAN, d \in Deps({C}),
     v \in {<<>>, [name |-> Ref("expr", A, "code")]}} \cup
  {[Plain(B, "ship") EXCEPT !.deps = d] : d \in Deps({A})}
ThirdSteps ==
  {[Plain(C, "ship") EXCEPT !.values = v, !.mutations = m, !.asserts = r] :
     v \in {<<>>, [id |-> Ref("from", A, "id")],
            [id |-> Ref("from", B, "id"), code |-> Ref("from", A, "code")],
            [id |-> Ref("expr", A, "id"), code |-> Ref("input", B, "name")]},
     m \in {<<>>, <<Mutation("m", [code |-> Ref("expr", B, "id")]), Mutation("n", [code |-> Literal])>>},
     r \in {{}, {Ref("expr", B, "id")}}}
(* A chain of defaults: pay reads a ship, which reads a create. *)
ChainSteps ==
  {[Plain(C, "pay") EXCEPT !.mutations = <<Mutation("m", v)>>, !.asserts = r] :
     v \in {<<>>, [label |-> Literal]}, r \in {{}, {Ref("expr", A, "id")}}}
Isolated(s) == [s EXCEPT !.isolated = TRUE]

Checks ==
  {<<>>, <<Plain(<<"v">>, "show")>>, <<Plain(<<"v">>, "ship")>>}

(* Plans that are refused, or whose IDs look like a variant's. *)
OddPlans ==
  LET c(m) == [Plain(C, "ship") EXCEPT !.mutations = m, !.isolated = TRUE]
      isolated == c(<<Mutation("m", [id |-> Literal])>>)
      plans == {<<Plain(A, "create"), Plain(id, "create"), [isolated EXCEPT !.deps = <<A>>]>> :
                  id \in {CloneId(A, "m"), SiblingId(C, "m"), A}} \cup
               {<<Plain(A, "create"), [Plain(B, "ship") EXCEPT !.deps = <<d>>], isolated>> :
                  d \in {SiblingId(C, "m"), CloneId(A, "m"), C, B, <<"d">>}} \cup
               {<<Plain(A, "create"), c(<<>>)>>,
                <<Plain(A, "create"), isolated, [isolated EXCEPT !.id = B]>>}
  IN  {[steps |-> p, checks |-> <<>>, layered |-> <<>>] : p \in plans}

(* A layer gives an input its value, or has a verification step read a step. *)
Layers ==
  {<<>>, <<"ship", "id">> :> Literal, <<"show", "id">> :> Ref("from", "create", "id")}

MCPlans ==
  {[steps |-> <<a, b, c>>, checks |-> <<>>, layered |-> <<>>] :
     a \in FirstSteps, b \in SecondSteps, c \in ThirdSteps \cup ChainSteps} \cup
  {[steps |-> <<a, b, Isolated(c)>>, checks |-> v, layered |-> l] :
     a \in FirstSteps, b \in SecondSteps, v \in Checks, l \in Layers,
     c \in ChainSteps \cup {c \in ThirdSteps : c.mutations # <<>> /\ c.asserts = {}}} \cup
  OddPlans

-----------------------------------------------------------------------------
(* Workflows of the same shop.  "order" has two slots, "bare" has none; the
   addons follow a create or a ship. *)
Named(node) == Plain(<<node>>, node)
Slot(name, deps) == [Plain(<<name>>, "slot") EXCEPT !.deps = deps]
Workflow(kind, ss) ==
  [kind |-> kind, steps |-> ss, checks |-> <<>>, cleanup |-> <<>>, slots |-> <<>>,
   inject |-> <<>>, after |-> <<>>, wire |-> <<>>, priority |-> 0]
Plainly == Marker(FALSE)
Perhaps == Marker(TRUE)
Value(x) == [kind |-> "literal", value |-> x]

Order2 ==
  [Workflow("base", <<Plain(<<"first">>, "create"), Slot("extra", <<<<"first">>>>), Slot("late", <<<<"extra">>>>),
                      [Named("pay") EXCEPT !.deps = <<<<"late">>>>, !.values = [label |-> Plainly]]>>)
     EXCEPT !.slots = <<[name |-> "extra", options |-> {"ships", "two"}, default |-> "ships"],
                        [name |-> "late", options |-> {"asks", "ends", "shows"}, default |-> ""]>>,
            !.checks = <<Plain(<<"v">>, "show")>>]

MCWorkflows ==
  "order" :> Order2 @@
  "bare" :> Workflow("base", <<Named("create"), [Named("ship") EXCEPT !.values = [id |-> Plainly, code |-> Perhaps]],
                               [Named("pay") EXCEPT !.values = [label |-> Ref("from", <<"ship">>, "label")]]>>) @@
  "maybe" :> [Workflow("base", <<Named("create"), Slot("extra", <<<<"create">>>>),
                                 [Named("pay") EXCEPT !.values = [label |-> Plainly]]>>)
                EXCEPT !.slots = <<[name |-> "extra", options |-> {"ships", "shows"}, default |-> "shows"]>>] @@
  "ships" :> [Workflow("option", <<[Named("ship") EXCEPT !.values = [id |-> Plainly]]>>)
                EXCEPT !.inject = [code |-> Value("first")]] @@
  "two" :> [Workflow("option",
                     <<[Plain(<<"create2">>, "create") EXCEPT !.values = [name |-> Empty]],
                       [Plain(<<"ship2">>, "ship") EXCEPT !.deps = <<<<"create2">>>>,
                          !.values = [id |-> Ref("from", <<"create2">>, "id")]]>>)
              EXCEPT !.inject = [name |-> Value("first"), code |-> Ref("from", "create", "code")],
                     !.checks = <<Plain(<<"w">>, "ship")>>] @@
  "asks" :> Workflow("option", <<Named("show")>>) @@
  "ends" :> [Workflow("option", <<[Named("show") EXCEPT !.values = [id |-> Plainly]]>>)
               EXCEPT !.inject = [name |-> Value("second"), code |-> Value("second")],
                      !.cleanup = <<"show">>] @@
  "shows" :> Workflow("option", <<[Named("show") EXCEPT !.values = [id |-> Perhaps]]>>) @@
  "again" :> [Workflow("addon", <<[Named("ship") EXCEPT !.values = [id |-> Plainly]],
                                  [Named("pay") EXCEPT !.values = [label |-> Ref("from", <<"ship">>, "label")],
                                      !.asserts = {Ref("expr", <<"ship">>, "label")}]>>)
                EXCEPT !.after = <<"create">>, !.wire = [id |-> Ref("from", After, "id")]] @@
  "more" :> [Workflow("addon", <<Named("create"),
                                 [Plain(<<"look">>, "show") EXCEPT !.values = [id |-> Plainly], !.deps = <<<<"show">>>>]>>)
               EXCEPT !.after = <<"create">>, !.checks = <<[Plain(<<"v">>, "show")
                 EXCEPT !.values = [id |-> Ref("from", <<"create">>, "id")]]>>] @@
  "pays" :> [Workflow("addon", <<[Named("pay") EXCEPT !.values = [label |-> Plainly]]>>)
               EXCEPT !.after = <<"pay", "ship">>, !.wire = [label |-> Ref("from", <<"ship">>, "label")], !.priority = 1] @@
  "labels" :> [Workflow("addon", <<[Named("pay") EXCEPT !.values = [label |-> Plainly], !.deps = <<<<"ship">>>>]>>)
                 EXCEPT !.after = <<"create">>] @@
  "brief" :> Workflow("base", <<Named("create")>>) @@
  "later" :> [Workflow("addon", <<[Named("pay") EXCEPT !.values = [label |-> Plainly]]>>)
                EXCEPT !.after = <<"show">>] @@
  "lost" :> [Workflow("addon", <<Named("nowhere")>>) EXCEPT !.after = <<"create">>]

ChoiceSets ==
  {[late |-> "ends"], [late |-> "asks"], [extra |-> "two", late |-> "ends"], [extra |-> "two", late |-> "shows"]}
AddonLists ==
  {<<>>, <<"again", "more">>, <<"more", "labels">>, <<"more">>, <<"pays", "labels">>, <<"labels", "pays">>}
OverrideSets ==
  {<<>>, <<<<"pay">>, "label">> :> Value("mine"), <<<<"inc0", "ship">>, "id">> :> Value("mine")}

MCRecipes ==
  {[base |-> b, choices |-> c, addons |-> a, overrides |-> o, layered |-> l] :
     b \in {"order", "bare"}, c \in ChoiceSets, a \in AddonLists, o \in OverrideSets,
     l \in {<<>>, <<"show", "id">> :> Literal}} \cup
  {[base |-> b, choices |-> <<>>, addons |-> a, overrides |-> <<>>, layered |-> <<>>] :
     b \in {"bare", "order", "maybe", "gone"}, a \in {<<>>, <<"lost">>, <<"ships">>, <<"gone">>}} \cup
  {[base |-> b, choices |-> c, addons |-> a, overrides |-> o, layered |-> <<>>] :
     b \in {"brief", "bare", "order"}, c \in {<<>>, [late |-> "ends"]},
     a \in {<<"later">>, <<"more", "later">>, <<"later", "more">>, <<"again", "later">>},
     o \in {<<>>, <<<<"inc1", "pay">>, "label">> :> Value("mine")}}

Selection(b, choices, addons) == [base |-> b, choices |-> choices, addons |-> addons]
Selections ==
  <<Selection("order", [late |-> "asks"], <<"more">>), Selection("gone", <<>>, <<>>),
    Selection("order", [extra |-> "again"], <<"more">>),
    Selection("order", [late |-> "asks"], <<"more", "more">>),
    Selection("bare", <<>>, <<"labels">>)>>
Answers ==
  {[values |-> v, wrong |-> w] : w \in BOOLEAN,
     v \in {<<>>, <<<<"show">>, "id">> :> Value("told"),
            (<<<<"show">>, "id">> :> Value("told") @@ <<<<"ship">>, "id">> :> Value("told"))}}
Layered == [none |-> <<>>, one |-> <<"show", "id">> :> Literal]
MCPrompts ==
  [p \in (DOMAIN Selections) \X (DOMAIN Selections) \X DOMAIN Layered |->
     [layered |-> Layered[p[3]], selections |-> {Selections[p[1]], Selections[p[2]]},
      answers |-> Answers]]
MCAddonPrefix == <<"inc0", "inc1">>
=============================================================================
