------------------------------ MODULE MCStepInputs ------------------------------
(***************************************************************************)
(* Steps for StepInputs: one that combines each pair of ways to value two  *)
(* inputs, and steps whose selections draw, tie, miss or run dry; and, for *)
(* a step of one literal input, environment files with includes, parents   *)
(* and vars, and overrides, credentials, headers and flags that meet; and, *)
(* for a step of two scalars and a list, templates.                        *)
(***************************************************************************)
EXTENDS StepInputs

CONSTANTS hostRef, keyRef   \* the placeholders of the files

item(price, stock, id) == [price |-> price, stock |-> stock, id |-> id]

(* Two of the items tie at the lowest price; the third is out of stock, and has
   no id. *)
outputs == ("items" :> <<item(1, 1, 11), item(1, 3, 12), item(2, 0, Nil)>>)
           @@ ("none" :> <<>>) @@ ("count" :> 2) @@ ("null" :> Nil)

by(strategy, from, filter, field) ==
  [from |-> from, strategy |-> strategy, filter |-> filter, index |-> 1, by |-> field,
   onTie |-> "first", field |-> "id"]
strict(sel) == [sel EXCEPT !.onTie = "fail"]

always == [op |-> "none", other |-> "a"]
differs == [op |-> "differs", other |-> "a"]
below == [op |-> "below", other |-> "a"]

literal(v) == [kind |-> "default", default |-> v, pool |-> <<>>, sequential |-> FALSE,
               constraint |-> always]
pooled(v, pool, sequential, constraint) ==
  [kind |-> "default", default |-> v, pool |-> pool, sequential |-> sequential,
   constraint |-> constraint]
empty(source) == [kind |-> "empty", default |-> [source |-> source, value |-> 7]]
selected(sel) == [kind |-> "select", from |-> sel.from, select |-> sel]
ofSelection(name, field) == [kind |-> "fromSelection", selection |-> name, field |-> field]

(* What a, then b, may be valued by. *)
Firsts ==
  {literal(2), literal(Bad), pooled(Nil, <<1, 2>>, FALSE, always),
   [kind |-> "from", from |-> "count"], [kind |-> "from", from |-> "gone"],
   [kind |-> "from", from |-> "null"], empty("plain"), empty("other"), empty("none"),
   selected(by("random", "items", "none", "")), [kind |-> "unset"]}

Seconds ==
  {pooled(2, <<1, 2, 3>>, FALSE, differs), pooled(Nil, <<Bad, 2, 1>>, FALSE, below),
   pooled(2, <<2, 3>>, TRUE, differs), pooled(2, <<>>, FALSE, below),
   [kind |-> "fromResolved", input |-> "a"],
   selected(by("random", "items", "none", "")), selected(by("index", "items", "inStock", "")),
   selected(by("last", "gone", "none", ""))}

plainTemplate ==
  [path |-> <<Literal("pay")>>, headers |-> <<>>, body |-> <<>>, form |-> <<>>, grpc |-> FALSE]

step0 == [node |-> "pay", outputs |-> outputs, inputs |-> <<"a", "b">>, optional |-> {},
          values |-> <<>>, selections |-> <<>>, fuzzed |-> "none", elsewhere |-> {},
          scalars |-> {"count", "null"}, earlier |-> "amount" :> 6,
          template |-> plainTemplate]

url(match, u) == [match |-> match, url |-> u, auth |-> NoAuth, headers |-> <<>>,
                  rewrite |-> None, values |-> <<>>]
values(match, v) == [url(match, None) EXCEPT !.values = v]

plain == [NoPartial EXCEPT !.url = "api"]
file0 == [multi |-> FALSE, include |-> <<>>, shared |-> plain, environments |-> <<>>]
setup0 == [file |-> file0, envFlag |-> None, envVar |-> None, envConfig |-> FALSE,
           defaultEnv |-> None, vars |-> <<>>, auto |-> NoOverlay, overlay |-> NoOverlay,
           planAuth |-> NoAuth, planHeaders |-> <<>>, flags |-> <<>>]

(* The values are those of the node, or of a glob that gives way to them. *)
overriding(v) ==
  IF v = <<>> THEN setup0
  ELSE [setup0 EXCEPT !.auto.overrides = <<values("pay", v), values("p*", [k \in DOMAIN v |-> 9])>>]

Pairs ==
  {[setup |-> overriding(overrides),
    step |-> [step0 EXCEPT !.values = ("a" :> first) @@ ("b" :> second), !.optional = optional]] :
     first \in Firsts, second \in Seconds, optional \in {{}, {"a", "b"}},
     overrides \in {<<>>, ("a" :> 3)}}

(* What an earlier step was sent or not, values sent as written, and picks of
   what is no array and fields that the pick lacks. *)
ofInput(ref) == [kind |-> "fromInput", ref |-> ref]
raw(v) == [kind |-> "raw", value |-> v]
lacking(sel) == [sel EXCEPT !.field = "name"]

Sourced ==
  {[setup |-> overriding(overrides),
    step |-> [step0 EXCEPT !.values = ("a" :> first) @@ ("b" :> second), !.optional = optional]] :
     first \in {ofInput("amount"), ofInput("gone"), raw(2), raw(Bad)},
     second \in {pooled(2, <<1, 2, 3>>, FALSE, differs), selected(by("first", "count", "none", "")),
                selected(lacking(by("random", "items", "none", "")))},
     optional \in {{}, {"a", "b"}}, overrides \in {<<>>, ("a" :> 3)}}

(* A fuzz case of a, whose value or absence an override leaves alone. *)
Fuzzed ==
  {[setup |-> overriding(("a" :> 3) @@ ("b" :> 4)),
    step |-> [step0 EXCEPT !.values = ("a" :> first) @@ ("b" :> second), !.optional = {"a"},
                           !.fuzzed = "a"]] :
     first \in {literal(2), empty("none")}, second \in Seconds}

with(selections, valued, optional) ==
  [setup |-> overriding(("d" :> 4) @@ ("e" :> 5)),
   step |-> [step0 EXCEPT !.inputs = <<"a", "b", "c">>, !.selections = selections,
                          !.values = valued, !.optional = optional]]

bothOf(x, y) == ("p" :> x) @@ ("q" :> y)
reads(field) == ("a" :> ofSelection("p", "id")) @@ ("b" :> ofSelection("q", field))
             @@ ("c" :> selected(by("random", "items", "none", "")))

Selecting ==
  {with(bothOf(x, y), reads(field), optional) :
     x \in {by("random", "items", "none", ""), by("random", "items", "inStock", ""),
            by("min", "items", "none", "price"), by("min", "items", "none", "stock"),
            by("random", "gone", "none", ""), by("last", "null", "none", "")},
     y \in {by("random", "items", "none", ""), by("max", "items", "inStock", "price"),
            by("min", "items", "none", "stock"), strict(by("min", "items", "none", "price")),
            by("first", "none", "none", ""), by("match", "items", "inStock", "")},
     optional \in {{}, {"a"}}, field \in {"id", "name"}}

-----------------------------------------------------------------------------
step1 == [step0 EXCEPT !.inputs = <<"a">>, !.values = ("a" :> literal(2))]

bearer(k) == [type |-> "bearer", header |-> None, key |-> k]
apikey(k) == [type |-> "apikey", header |-> "X-Key", key |-> k]
noAuth == [type |-> "none", header |-> None, key |-> None]
OneOf(S) == {<<>>} \cup {<<x>> : x \in S}

(* dev, which may extend a base, itself or nobody there, and an include that
   adds to one of them, to what they share, or brings a base of its own. *)
Base(own) ==
  [NoPartial EXCEPT !.url = hostRef, !.auth = bearer(keyRef), !.headers = ("X-A" :> "base"),
                    !.overrides = <<url("pay", hostRef)>>, !.vars = own]
Devs(parents) ==
  {[NoPartial EXCEPT !.extends = parent, !.url = u, !.headers = h, !.overrides = ovs, !.vars = v] :
     parent \in parents, u \in {None, "dev"}, h \in {<<>>, "X-A" :> "dev"},
     ovs \in OneOf({url("pay", "d")}), v \in {<<>>, "host" :> "dev"}}

added == [NoPartial EXCEPT !.url = "inc", !.headers = ("X-A" :> "inc"), !.vars = ("key" :> "inc")]
Includes ==
  {<<>>} \cup
  {<<[shared |-> NoPartial, environments |-> n :> added]>> : n \in {"_base", "dev"}}
  \cup {<<[shared |-> added, environments |-> <<>>],
          [shared |-> NoPartial, environments |-> "_base" :> [added EXCEPT !.auth = apikey("i")]]>>}

FilesOf(parents) ==
  {[multi |-> TRUE, include |-> include,
    shared |-> [plain EXCEPT !.vars = ("key" :> "shared"), !.headers = ("X-B" :> "shared"),
                             !.values = ("v" :> "shared")],
    environments |-> ("_base" :> Base(own)) @@ ("dev" :> dev)] :
     include \in Includes, own \in {<<>>, "host" :> "base"}, dev \in Devs(parents)}

OfFiles(parents) ==
  {[setup0 EXCEPT !.file = file, !.defaultEnv = "dev", !.vars = cli] :
     file \in FilesOf(parents), cli \in {<<>>, "host" :> "cli"}}

Refused == {[setup0 EXCEPT !.file = f, !.defaultEnv = "dev"] : f \in FilesOf({"gone", "dev"})}

aFile == CHOOSE f \in FilesOf({"_base"}) : f.include = <<>>
(* Each way to name the environment, with and without the next one, and a var
   that is no one's. *)
Naming ==
  {[setup0 EXCEPT !.file = file, !.envFlag = flag, !.envVar = var, !.envConfig = config,
                  !.defaultEnv = "dev", !.overlay.environment = over, !.vars = cli] :
     file \in {aFile, file0}, flag \in {None, "dev", "_base"}, var \in {None, "dev", "gone"},
     config \in BOOLEAN, over \in {None, "dev"}, cli \in {<<>>, "typo" :> "x"}}

-----------------------------------------------------------------------------
(* An override of the node or of a glob: its URL, a credential of its own,
   headers, a rewrite, or values alone. *)
Overrides ==
  {url("pay", "p1"), url("p*", "p2"),
   [url("pay", None) EXCEPT !.auth = bearer("o")],
   [url("p*", "p3") EXCEPT !.auth = apikey("o"), !.headers = ("x-a" :> "o"), !.rewrite = "v2"],
   [url("pay", None) EXCEPT !.rewrite = "v1", !.headers = ("x-key" :> "o")],
   values("pay", "a" :> 4)}

flag(pattern, u) == [pattern |-> pattern, url |-> u]
Flags ==
  {<<>>, <<flag("pay", "f1")>>, <<flag("p*", "f2")>>, <<flag("*", "f3"), flag("pay", "f4")>>,
   <<flag("pay", "grpc"), flag("pay", "f5")>>, <<flag("pay", "f6"), flag("p*", "f7")>>}

Routed ==
  {[setup0 EXCEPT !.file.shared.auth = a, !.file.shared.headers = ("X-A" :> "e") @@ ("X-B" :> "e"),
                  !.file.shared.overrides = mine, !.overlay.overrides = theirs,
                  !.planHeaders = ("x-b" :> "p") @@ ("authorization" :> "p") @@ ("X-Key" :> "p"),
                  !.overlay.headers = over, !.flags = flags] :
     a \in {bearer("e"), apikey("e"), noAuth}, mine \in OneOf(Overrides),
     theirs \in OneOf(Overrides), over \in {<<>>, "x-a" :> "l", "authorization" :> "l"},
     flags \in Flags}

(* The overlays' and the plan's credentials, and a rewrite of a gRPC target. *)
Credentials ==
  {[setup0 EXCEPT !.file.shared.auth = apikey("e"), !.auto.auth = x, !.overlay.auth = y,
                  !.planAuth = z, !.auto.headers = ("X-A" :> "l1"), !.overlay.headers = over,
                  !.overlay.overrides = ovs] :
     x \in {NoAuth, bearer("a")}, y \in {NoAuth, bearer("o")}, z \in {NoAuth, noAuth},
     over \in {<<>>, "x-a" :> "l2"},
     ovs \in OneOf({url("p*", "p2"), [url("pay", "grpc") EXCEPT !.rewrite = "v1"]})}

Drawing(runs) ==
  {[setup |-> r.setup, step |-> r.step, draws |-> <<x, y, x>>] :
     r \in runs, x \in {0, 2, 5}, y \in {0, 2, 5}}
-----------------------------------------------------------------------------
(* Texts: what a block holds, with blocks of the same and of other keys around
   it, side by side and one inside the other; and some that are not nested. *)
Wrap(texts) ==
  {<<If(k)>> \o s \o <<Close(k)>> : s \in texts, k \in {"a", "l", "a|b"}}
  \cup {<<Each("l")>> \o s \o <<Close("l")>> : s \in texts}
Beside(texts, others) == {s \o r : s \in texts, r \in others}

Leaves == {<<Literal("x")>>, <<Hole("a")>>, <<Hole("l")>>, <<Dot("")>>, <<Dot("id")>>, <<Index>>}
Inner == Wrap(Leaves)
Texts == Leaves \cup Wrap(Inner) \cup Wrap(Beside({<<Hole("a")>>, <<Dot("")>>}, Inner))
Crossed ==
  {<<If("a"), Each("l"), Dot(""), Close("a"), Close("l")>>, <<If("a"), Hole("a")>>,
   <<Each("l"), Dot("")>>, <<If("a"), If("l"), Close("a"), Hole("b"), Close("l")>>}

inBody(s) == [plainTemplate EXCEPT !.body = s]
optionally(s) == <<If("a")>> \o s \o <<Close("a")>>
field(key, s) == [key |-> key, text |-> s]

(* A key used in several parts, whole or not. *)
Parts ==
  {[plainTemplate EXCEPT !.path = path, !.headers = ("X-A" :> header) @@ ("X-B" :> <<Hole("b")>>),
                         !.grpc = grpc] :
     path \in {<<Literal("pay")>>, <<Hole("a")>>}, grpc \in BOOLEAN,
     header \in {<<Hole("a")>>, optionally(<<Hole("a")>>), optionally(<<Literal("x")>>)}}
  \cup {[plainTemplate EXCEPT !.form = <<field("f", s), field("g", r)>>] :
           s \in {<<Hole("l")>>, <<Hole("a")>>, optionally(<<Hole("a")>>)},
           r \in {<<Hole("gone")>>, <<Hole("b"), Literal("x")>>, <<Literal("x")>>}}

Lacking == [kind |-> "unset"]
Given ==
  {("a" :> Lacking) @@ ("b" :> Lacking) @@ ("l" :> l) : l \in {Lacking, literal(52)}}
  \cup {("a" :> literal(2)) @@ ("b" :> Lacking) @@ ("l" :> literal(50)),
        ("a" :> literal(Blank)) @@ ("b" :> literal(3)) @@ ("l" :> literal(53))}

ThatRender(templates, setups, others) ==
  {[setup |-> s, draws |-> <<0>>,
    step |-> [step0 EXCEPT !.inputs = <<"a", "b", "l">>, !.optional = {"a", "b", "l"},
                           !.values = given, !.elsewhere = elsewhere, !.template = template]] :
     template \in templates, s \in setups, given \in Given, elsewhere \in others}

Templated ==
  ThatRender({inBody(s) : s \in Texts \cup Crossed}, {setup0}, {{"a", "l"}})
  \cup ThatRender({inBody(s) : s \in Beside(Inner, Leaves)}, {setup0}, {{}})
  \cup ThatRender(Parts, {setup0, [setup0 EXCEPT !.overlay.headers = ("Content-Type" :> "json")]},
                  {{}, {"b"}})

-----------------------------------------------------------------------------
Starting(setups) == {[setup |-> s, step |-> step1, draws |-> <<0>>] : s \in setups}

(* TLC sorts a set that it counts, and joins another to a sorted one fast. *)
Joined(S, T) == IF Cardinality(S) = 0 THEN T ELSE S \cup T

MCRuns ==
  Joined(Templated,
    Joined(Drawing(Pairs \cup Sourced \cup Fuzzed \cup Selecting),
      Starting(Joined(Routed, Refused \cup Naming \cup Credentials \cup OfFiles({None, "_base"})))))

MCNames == <<"p", "q">>
MCOrders == [n \in 1..3 |-> SetToSeq(Permutations(1..n))]
MCCanonical ==
  ("X-A" :> "x-a") @@ ("x-a" :> "x-a") @@ ("X-B" :> "x-b") @@ ("x-b" :> "x-b")
  @@ ("Authorization" :> "authorization") @@ ("authorization" :> "authorization")
  @@ ("X-Key" :> "x-key") @@ ("x-key" :> "x-key") @@ ("Content-Type" :> "content-type")
MCGlobs == ("p*" :> {"pay", "post"}) @@ ("*" :> {"pay", "post", "get"})
MCTemplates == {("X-A" :> "t") @@ ("x-key" :> "t")}
MCCompound == ("a|b" :> {"a", "b"})
MCLists ==
  (50 :> <<>>) @@ (52 :> <<"" :> 1, "" :> 2>>) @@ (53 :> <<("id" :> 4) @@ ("n" :> 5), "id" :> 6>>)
MCReference == (hostRef :> "host") @@ (keyRef :> "key")
=============================================================================
