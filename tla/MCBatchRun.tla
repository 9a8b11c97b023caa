------------------------------- MODULE MCBatchRun -------------------------------
(***************************************************************************)
(* Projects for BatchRun: what layers, recipes, written values and {} can  *)
(* make of a matrix of at most four specs, three of them run.              *)
(***************************************************************************)
EXTENDS BatchRun

value(v) == [source |-> "value", arg |-> v, constraint |-> "none"]
pool(v) == [source |-> "pool", arg |-> v, constraint |-> "none"]
limited(c) == [source |-> "none", arg |-> "none", constraint |-> c]

Nothing == [x \in {} |-> None]
bare(f) == [bare |-> f, qualified |-> Nothing]
only(node, input, d) == [bare |-> Nothing, qualified |-> (<<node, input>> :> d)]

(* create takes a region, a coupon and an optional note, get a region. *)
graph == [create |-> [region |-> value("R"), coupon |-> pool("C"), note |-> None],
          get    |-> [region |-> value("R")]]

(* eu sets the region everywhere, us where an order is made, vip its coupon. *)
layers == [eu  |-> bare("region" :> value("EU")),
           us  |-> only("create", "region", value("US")),
           vip |-> [bare |-> ("note" :> value("N")),
                    qualified |-> (<<"create", "coupon">> :> value("V"))]]

(* few bounds a pool, and any replaces it by another. *)
coupons == [few |-> bare("coupon" :> limited("few")),
            any |-> bare("coupon" :> pool("D")),
            vip |-> only("create", "coupon", value("V"))]

step(values) == [node |-> "create", values |-> values]
check(values) == [node |-> "get", values |-> values]
plan(steps, checks) == [layers |-> <<>>, steps |-> steps, checks |-> checks]
recipe(names, values) == [layers |-> names, steps |-> <<step(values)>>, checks |-> <<>>]

asWritten == "region" :> value("W")
allWritten == asWritten @@ ("coupon" :> value("W")) @@ ("note" :> value("W"))

project0 == [graph |-> graph, layers |-> layers, optional |-> {"note"}, plans |-> <<>>,
             base |-> <<>>, groups |-> <<>>, noDedup |-> FALSE, shuffle |-> FALSE]

with(plans, groups) == [project0 EXCEPT !.plans = plans, !.groups = groups]

unset == plan(<<step(Nothing)>>, <<>>)
written == plan(<<step(allWritten)>>, <<>>)
checked == plan(<<step(allWritten)>>, <<check(Nothing)>>)
empty == plan(<<step(asWritten @@ ("coupon" :> None))>>, <<>>)
noNote == plan(<<step(allWritten @@ ("note" :> None))>>, <<>>)

MCProjects ==
  {with(<<unset>>, <<<<"us", "eu">>>>),
   with(<<written, written>>, <<<<"vip">>>>),
   with(<<checked>>, <<<<"eu", "us">>>>),
   with(<<empty>>, <<<<"vip">>>>),
   with(<<noNote>>, <<<<"vip">>>>),
   with(<<plan(<<step(asWritten)>>, <<>>)>>, <<<<"eu">>, <<"vip">>>>),
   with(<<unset>>, <<<<"eu">>, <<"eu">>>>),
   with(<<recipe(<<"eu">>, Nothing)>>, <<<<"eu", "us">>>>),
   with(<<recipe(<<"eu", "vip">>, Nothing)>>, <<<<"eu">>, <<"vip">>>>),
   with(<<recipe(<<"gone">>, Nothing)>>, <<<<"eu">>>>),
   [with(<<empty>>, <<<<"any", "few">>>>) EXCEPT !.layers = coupons],
   [with(<<unset>>, <<<<"few">>>>) EXCEPT !.layers = coupons, !.base = <<"vip">>],
   [with(<<unset>>, <<<<"eu">>>>) EXCEPT !.base = <<"us">>],
   [with(<<written>>, <<<<"eu">>>>) EXCEPT !.noDedup = TRUE],
   [with(<<unset, written>>, <<>>) EXCEPT !.shuffle = TRUE]}

MCNames == <<"any", "eu", "few", "gone", "us", "vip">>
=============================================================================
