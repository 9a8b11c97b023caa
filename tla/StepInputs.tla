------------------------------ MODULE StepInputs ------------------------------
(***************************************************************************)
(* One resolution of a step's inputs: ResolveInputsWithContext             *)
(* (engine/resolve.go) with its selections (engine/selection.go), its      *)
(* fallback pools and its draws (engine/seed.go), then the values and the  *)
(* route that the router has for its node (executeStepWith,                *)
(* engine/engine.go; Routes), and the request that its template makes of   *)
(* them (Template).  Which step a reference reads is in PlanLoad: here the *)
(* outputs are given.                                                      *)
(*                                                                         *)
(* All of it happens twice, as a run and its replay with --seed make it:   *)
(* the same files and flags, the same step, the same outputs and the same  *)
(* random source.                                                          *)
(***************************************************************************)
EXTENDS Routes, Template

Nil == -1        \* a JSON null, or nothing
Bad == -2        \* a value whose expression can't be evaluated

CONSTANTS
  Names,    \* the names of selections, in order
  Orders,   \* the orders that the shuffles of a pool leave it in, for each length
  Runs      \* what is run: what a run is started with, a step of it with the
            \* outputs and the earlier steps' inputs that it can read, and the
            \* numbers it draws, over again when they are used up

Compares(sel) == sel.strategy \in {"min", "max"}

(* The selections of a step, each with the array that it is of. *)
SelectionsOf(s) ==
  {<<sel.from, sel>> : sel \in Range(s.selections)}
  \cup {<<v.from, v.select>> : v \in {v \in Range(s.values) : v.kind = "select"}}

(* The outputs but the scalars are arrays, whose elements can be compared by the
   field that they are compared by. *)
ASSUME RunsAssumption ==
  \A run \in Runs :
    /\ run.draws \in Seq(Nat) \ {<<>>}
    /\ \A use \in SelectionsOf(run.step) :
         LET arr == run.step.outputs[use[1]]
             sel == use[2]
         IN  use[1] \in DOMAIN run.step.outputs \ run.step.scalars =>
               /\ DOMAIN arr = 1..Len(arr) /\ Len(arr) \in Nat
               /\ sel.index \in Nat
               /\ Compares(sel) => \A i \in DOMAIN arr : arr[i][sel.by] \in Int

(* The inputs of a node have names of their own (graph/validate.go), what is raw
   is a value, the orders of a pool are orders of it, and a file lists its
   includes and its overrides. *)
ASSUME ListsAssumption ==
  \A run \in Runs :
    /\ run.step.inputs \in Seq(Range(run.step.inputs)) /\ IsInjective(run.step.inputs)
    /\ \A v \in Range(run.step.values) : v.kind = "raw" => v.value # Nil
    /\ \A v \in Range(run.step.values) :
         v.kind = "default" /\ v.pool # <<>> =>
           LET n == Len(v.pool)
           IN  /\ n \in Nat /\ DOMAIN v.pool = 1..n
               /\ Orders[n] \in Seq([1..n -> 1..n]) \ {<<>>}
    /\ run.setup.file.include \in Seq(Range(run.setup.file.include))
    /\ \A mef \in PartsOf(run.setup.file) : IsFiniteSet(DOMAIN mef.environments)
    /\ \A listed \in {run.setup.auto.overrides, run.setup.overlay.overrides} \cup
                     {p.overrides : p \in PartialsOf(run.setup.file)} :
         /\ listed \in Seq(Range(listed))
         /\ \A i \in DOMAIN listed : "headers" \in DOMAIN listed[i]

(* A node's name is not a glob, flags are listed, and no map of headers sets a
   name twice, whatever its case; those of several files may, see Winners. *)
ASSUME HeadersAssumption ==
  /\ \A node \in Nodes : ~isGlob(node)
  /\ \A template \in Templates : Single(template)
  /\ \A run \in Runs :
       LET s == run.setup
       IN  /\ s.flags \in Seq(Range(s.flags))
           /\ Single(s.planHeaders) /\ Single(s.auto.headers) /\ Single(s.overlay.headers)
           /\ \A listed \in {s.auto.overrides, s.overlay.overrides} \cup
                            {p.overrides : p \in PartialsOf(s.file)} :
                \A i \in DOMAIN listed : Single(listed[i].headers)

VARIABLES
  step,         \* the step
  draws,        \* its random source
  stage,        \* "routes", "selections", "inputs", "sent", "unrendered" or "failed"
  drawn,        \* how many numbers were drawn
  named,        \* the named selections resolved: name -> the pick
  dedupCache,   \* the picks made: dedupKey -> the pick
  decisions,    \* the selection decisions, in order
  pos,          \* the next input
  inputs,       \* the inputs resolved: name -> value
  resolutions,  \* the resolution records, in order
  sent          \* history: what the run, then its replay, ended with

stepVars == <<step, draws, stage, drawn, named, dedupCache, decisions, pos, inputs,
              resolutions, sent>>
vars == <<routeVars, stepVars>>

Put(f, x, v) == [y \in DOMAIN f \cup {x} |-> IF y = x THEN v ELSE f[y]]

Init ==
  /\ \E run \in Runs : setup = run.setup /\ step = run.step /\ draws = run.draws
  /\ RoutesInit
  /\ stage = "routes" /\ drawn = 0 /\ named = <<>> /\ dedupCache = <<>>
  /\ decisions = <<>> /\ pos = 1 /\ inputs = <<>> /\ resolutions = <<>>
  /\ sent = <<>>

-----------------------------------------------------------------------------
(* Selections.  An array holds records, and a filter keeps those in stock. *)

Candidates(arr, sel) == {i \in DOMAIN arr : sel.filter = "inStock" => arr[i].stock > 0}

Best(arr, sel) ==
  LET value(i) == arr[i][sel.by]
      among == Candidates(arr, sel)
  IN  {i \in among : \A j \in among : IF sel.strategy = "min" THEN value(i) <= value(j)
                                                             ELSE value(i) >= value(j)}

Nth(S, n) == CHOOSE x \in S : Cardinality({y \in S : y < x}) = n - 1

(* applySelection: the pick, 0 for none.  "match" and no strategy are first
   among those the filter keeps. *)
applySelection(arr, sel, draw) ==
  LET among == Candidates(arr, sel)
  IN  IF among = {} THEN 0
      ELSE IF sel.strategy = "last" THEN Max(among)
      ELSE IF sel.strategy = "index"
           THEN IF sel.index < Cardinality(among) THEN Nth(among, sel.index + 1) ELSE 0
      ELSE IF sel.strategy = "random" THEN Nth(among, (draw % Cardinality(among)) + 1)
      ELSE IF Compares(sel) THEN Min(Best(arr, sel))
      ELSE Min(among)

(* Mutants of dedupKey: min by one field shares its pick with min by another;
   every use of a selection picks for itself. *)
dedupKeyWithoutField(from, sel, user) == <<from, sel.strategy, sel.filter, sel.index>>
dedupKeyOfTheUser(from, sel, user) ==
  <<from, sel.strategy, sel.filter, sel.index, IF Compares(sel) THEN sel.by ELSE None, user>>

(* What picks that must be alike have in common. *)
dedupKey(from, sel, user) ==
  <<from, sel.strategy, sel.filter, sel.index, IF Compares(sel) THEN sel.by ELSE None>>

NextDraw == draws[(drawn % Len(draws)) + 1]
Draws1(from, sel, user) ==
  sel.strategy = "random" /\ dedupKey(from, sel, user) \notin DOMAIN dedupCache

Picked(from, sel, user) ==
  LET key == dedupKey(from, sel, user)
  IN  IF key \in DOMAIN dedupCache THEN dedupCache[key]
      ELSE applySelection(step.outputs[from], sel, NextDraw)

Ties(from, sel) ==
  sel.onTie = "fail" /\ Compares(sel) /\ Cardinality(Best(step.outputs[from], sel)) > 1

Decide(user, from, sel, pick) ==
  decisions' = Append(decisions, [user |-> user, from |-> from, sel |-> sel, at |-> pick])

(* The selection of user picks an element of the array from. *)
Select(from, sel, user) ==
  LET pick == Picked(from, sel, user)
  IN  /\ drawn' = IF Draws1(from, sel, user) THEN drawn + 1 ELSE drawn
      /\ dedupCache' = Put(dedupCache, dedupKey(from, sel, user), pick)
      /\ Decide(user, from, sel, pick)

HasOutput(from) == from \in DOMAIN step.outputs
HasArray(from) == HasOutput(from) /\ from \notin step.scalars
SelectionFails(from, sel, user) ==
  ~HasArray(from) \/ Picked(from, sel, user) = 0 \/ Ties(from, sel)

-----------------------------------------------------------------------------
Value(name) == IF name \in DOMAIN step.values THEN step.values[name] ELSE [kind |-> "unset"]
Optional(name) == name \in step.optional

Record(name, source, value) == [input |-> name, source |-> source, value |-> value]

NoRequest == [url |-> None, rewrite |-> None, headers |-> <<>>]

(* The records of the inputs that only an override sets are in any order. *)
Outcome(values, picks, records, request) ==
  [inputs |-> values, decisions |-> picks, records |-> Range(records), request |-> request]

(* The step ends without a request, and shows how far it got. *)
Fail(name) ==
  /\ stage' = "failed"
  /\ resolutions' = Append(resolutions, Record(name, "error", Nil))
  /\ sent' = Append(sent, Outcome(inputs, decisions, resolutions', NoRequest))
  /\ UNCHANGED <<step, draws, drawn, named, dedupCache, decisions, pos, inputs>>

(* Mutant of NextSelections: in the order a Go map is ranged over. *)
NextSelectionsAny == DOMAIN step.selections \ DOMAIN named

(* In name order: a random selection draws. *)
NextSelections ==
  LET open == DOMAIN step.selections \ DOMAIN named
      rank(n) == CHOOSE k \in DOMAIN Names : Names[k] = n
  IN  {n \in open : \A m \in open : rank(n) <= rank(m)}

(* Mutant of requiredInputReads: a missing output is nobody's loss. *)
requiredInputReadsNone(selName) == FALSE

requiredInputReads(selName) ==
  \E n \in Range(step.inputs) \ step.optional :
    Value(n).kind = "fromSelection" /\ Value(n).selection = selName

SelectNamed ==
  /\ stage = "selections"
  /\ \E n \in NextSelections :
       LET sel == step.selections[n]
       IN  IF ~SelectionFails(sel.from, sel, n)
           THEN /\ Select(sel.from, sel, n)
                /\ named' = Put(named, n, Picked(sel.from, sel, n))
                /\ UNCHANGED <<step, draws, stage, pos, inputs, resolutions, sent>>
           ELSE IF ~HasOutput(sel.from) /\ ~requiredInputReads(n)
           THEN /\ named' = Put(named, n, 0)
                /\ UNCHANGED <<step, draws, stage, drawn, dedupCache, decisions, pos, inputs,
                               resolutions, sent>>
           ELSE Fail(n)

BeginInputs ==
  /\ stage = "selections" /\ NextSelections = {}
  /\ stage' = "inputs"
  /\ UNCHANGED <<step, draws, drawn, named, dedupCache, decisions, pos, inputs, resolutions, sent>>

-----------------------------------------------------------------------------
(* resolveInput, one action for each source in its order of priority. *)

Name == step.inputs[pos]
Resolving(kind) == stage = "inputs" /\ pos <= Len(step.inputs) /\ Value(Name).kind = kind

Take(source, value) ==
  /\ pos' = pos + 1
  /\ inputs' = IF value = Nil THEN inputs ELSE Put(inputs, Name, value)
  /\ resolutions' = Append(resolutions, Record(Name, source, value))
  /\ UNCHANGED <<step, draws, stage, named, sent>>

NoPick == UNCHANGED <<drawn, dedupCache, decisions>>
LeaveOut(source) == Take(source, Nil) /\ NoPick

(* extractField: the element has no such field, an optional input's or not. *)
Lacks(from, at, field) == field \notin DOMAIN step.outputs[from][at]

(* {}: a plain default is for a required input alone, and one with a pool, a
   reference or a constraint for none. *)
ResolveEmpty ==
  /\ Resolving("empty")
  /\ IF Optional(Name) THEN LeaveOut("optional_skip")
     ELSE LET d == Value(Name).default
          IN  \/ d.source = "none" /\ Fail(Name)
              \/ d.source = "other" /\ LeaveOut("graph_default")
              \/ d.source = "plain" /\ Take("graph_default", d.value) /\ NoPick

ResolveFromSelection ==
  /\ Resolving("fromSelection")
  /\ LET v == Value(Name)
         sel == step.selections[v.selection]
         pick == named[v.selection]
     IN  IF v.selection \notin DOMAIN named THEN Fail(Name)
         ELSE IF pick = 0 THEN LeaveOut("optional_skip")
         ELSE IF Lacks(sel.from, pick, v.field) THEN Fail(Name)
         ELSE /\ Take("named_selection", step.outputs[sel.from][pick][v.field])
              /\ Decide(Name, sel.from, sel, pick)
              /\ UNCHANGED <<drawn, dedupCache>>

ResolveFromResolved ==
  /\ Resolving("fromResolved")
  /\ IF Value(Name).input \in DOMAIN inputs
     THEN Take("from_resolved", inputs[Value(Name).input]) /\ NoPick
     ELSE Fail(Name)

(* What an earlier step was sent, which no input may lack. *)
ResolveFromInput ==
  /\ Resolving("fromInput")
  /\ LET ref == Value(Name).ref
     IN  IF ref \in DOMAIN step.earlier THEN Take("from_input", step.earlier[ref]) /\ NoPick
         ELSE Fail(Name)

ResolveFrom ==
  /\ Resolving("from")
  /\ LET from == Value(Name).from
     IN  IF HasOutput(from) THEN Take("plan_from", step.outputs[from]) /\ NoPick
         ELSE IF Optional(Name) THEN LeaveOut("optional_skip")
         ELSE Fail(Name)

ResolveSelect ==
  /\ Resolving("select")
  /\ LET v == Value(Name)
         pick == Picked(v.from, v.select, Name)
     IN  IF ~HasOutput(v.from) /\ Optional(Name) THEN LeaveOut("optional_skip")
         ELSE IF SelectionFails(v.from, v.select, Name) THEN Fail(Name)
         ELSE IF Lacks(v.from, pick, v.select.field) THEN Fail(Name)
         ELSE /\ Select(v.from, v.select, Name)
              /\ Take("select_edge", step.outputs[v.from][pick][v.select.field])

(* raw: no expression, constraint or pool. *)
ResolveRaw ==
  /\ Resolving("raw")
  /\ Take("raw_value", Value(Name).value) /\ NoPick

(* checkConstraint: an input that was left out is null, which differs from every
   value and which nothing can be ordered against. *)
Errs(c) == c.op = "below" /\ c.other \notin DOMAIN inputs
Passes(c, value) ==
  CASE c.op = "none" -> TRUE
    [] c.op = "differs" -> c.other \in DOMAIN inputs => value # inputs[c.other]
    [] c.op = "below" -> c.other \in DOMAIN inputs /\ value < inputs[c.other]

(* A pool in the order its shuffle leaves it in. *)
Shuffled(pool, draw) ==
  LET orders == Orders[Len(pool)]
      order == orders[(draw % Len(orders)) + 1]
  IN  [k \in DOMAIN pool |-> pool[order[k]]]

(* resolveWithFallback: the default, when it meets the constraint, and else the
   first of the pool that does. *)
ResolveDefault ==
  /\ Resolving("default")
  /\ LET v == Value(Name)
         shuffles == v.pool # <<>> /\ ~v.sequential
         pool == IF shuffles THEN Shuffled(v.pool, NextDraw) ELSE v.pool
         fits == {k \in DOMAIN pool : pool[k] # Bad /\ Passes(v.constraint, pool[k])}
     IN  IF v.default # Nil /\ (v.default = Bad \/ Errs(v.constraint)) THEN Fail(Name)
         ELSE IF v.default # Nil /\ Passes(v.constraint, v.default)
         THEN Take("plan_default", v.default) /\ NoPick
         ELSE IF fits # {}
         THEN /\ Take("fallback_pool", pool[Min(fits)])
              /\ drawn' = IF shuffles THEN drawn + 1 ELSE drawn
              /\ UNCHANGED <<dedupCache, decisions>>
         ELSE Fail(Name)

ResolveUnset ==
  /\ Resolving("unset")
  /\ IF Optional(Name) THEN LeaveOut("optional_skip") ELSE Fail(Name)

-----------------------------------------------------------------------------
(* Mutant of recordOverrideValue: the record of what was overridden stays. *)
recordOverrideValueToo(records, name, value) ==
  Append(records, Record(name, "override_value", value))

recordOverrideValue(records, name, value) ==
  LET record == Record(name, "override_value", value)
      old == {k \in DOMAIN records : records[k].input = name}
  IN  IF old = {} THEN Append(records, record) ELSE [records EXCEPT ![Min(old)] = record]

(* The values that the router has for the node, but for the input its fuzz case
   sets. *)
OverlayValues == ResolveValueOverride(step.node)
Overridden == DOMAIN OverlayValues \ {step.fuzzed}
Resolved == stage = "inputs" /\ pos > Len(step.inputs)

Recorded(n) == {k \in DOMAIN resolutions : resolutions[k].input = n}
Overlaid == {n \in Overridden : \E k \in Recorded(n) : resolutions[k].source = "override_value"}

(* One of them, in the order that a Go map is ranged over. *)
OverrideInput ==
  /\ Resolved
  /\ \E n \in Overridden \ Overlaid :
       /\ inputs' = Put(inputs, n, OverlayValues[n])
       /\ resolutions' = recordOverrideValue(resolutions, n, OverlayValues[n])
  /\ UNCHANGED <<step, draws, stage, drawn, named, dedupCache, decisions, pos, sent>>

(* A header that the template can't replace gives the request a type. *)
Typed ==
  LET kept == Resolve(routes, step.node).route.protected
  IN  \E h \in DOMAIN kept : Canonical[h] = Canonical["Content-Type"]

(* What the template's texts come to, and the headers they are sent with.  A
   form has a type and a gRPC call none. *)
Rendered(request) ==
  LET form == IF step.template.form = <<>> THEN <<>> ELSE "Content-Type" :> "form"
      routed == RequestOf(step.node, withHeaders(form, [h \in DOMAIN request.headers |-> "template"]))
      types == {h \in DOMAIN routed.headers : step.template.grpc /\ Canonical[h] = Canonical["Content-Type"]}
  IN  [url |-> routed.url, rewrite |-> routed.rewrite, text |-> request,
       headers |-> [h \in DOMAIN routed.headers \ types |-> routed.headers[h]]]

Finish(to, request) ==
  /\ Resolved /\ Overlaid = Overridden
  /\ stage' = to
  /\ sent' = Append(sent, Outcome(inputs, decisions, resolutions, request))
  /\ UNCHANGED <<step, draws, drawn, named, dedupCache, decisions, pos, inputs, resolutions>>

Requests == BuildRequest(step.template, inputs, Typed)

(* The request goes out, to the route of the node. *)
Send == \E r \in Requests : Finish("sent", Rendered(r))

(* A part of the template can't be rendered: nothing is sent. *)
Unrendered == Requests = {} /\ Finish("unrendered", NoRequest)

-----------------------------------------------------------------------------
(* The inputs that have a default of the graph, or a value in a step of the
   node. *)
Supplied ==
  step.elsewhere \cup
  {n \in Range(step.inputs) :
     IF Value(n).kind = "empty" THEN Value(n).default.source # "none" ELSE Value(n).kind # "unset"}

TemplateRefused ==
  validateTemplateInputs(step.template, Range(step.inputs), step.optional, Supplied) # {}

(* The routes are built and the templates checked before the first step, and a
   run whose files are refused has none. *)
BeginStep ==
  /\ stage = "routes" /\ phase \in {"ready", "refused"}
  /\ stage' = IF phase = "ready" /\ ~TemplateRefused THEN "selections" ELSE "failed"
  /\ UNCHANGED <<routeVars, step, draws, drawn, named, dedupCache, decisions, pos, inputs,
                 resolutions, sent>>

ResolveStep ==
  \/ SelectNamed \/ BeginInputs
  \/ ResolveEmpty \/ ResolveFromSelection \/ ResolveFromResolved \/ ResolveFromInput
  \/ ResolveFrom \/ ResolveSelect \/ ResolveRaw \/ ResolveDefault \/ ResolveUnset
  \/ OverrideInput \/ Send \/ Unrendered

(* The same step of a run with the same seed. *)
Replay ==
  /\ stage \in {"sent", "unrendered", "failed"} /\ Len(sent) = 1
  /\ stage' = "routes" /\ drawn' = 0 /\ named' = <<>> /\ dedupCache' = <<>>
  /\ decisions' = <<>> /\ pos' = 1 /\ inputs' = <<>> /\ resolutions' = <<>>
  /\ phase' = "load" /\ env' = NoPartial /\ auth' = NoAuth /\ base' = NoRoute
  /\ queue' = <<>> /\ routes' = <<>> /\ valueOverrides' = <<>>
  /\ UNCHANGED <<setup, step, draws, sent>>

Done ==
  /\ Len(sent) = 2 \/ (stage = "failed" /\ sent = <<>>)
  /\ UNCHANGED vars

Next ==
  \/ BuildRoutes /\ UNCHANGED stepVars
  \/ ResolveStep /\ UNCHANGED routeVars
  \/ BeginStep \/ Replay \/ Done

Spec == Init /\ [][Next]_vars

-----------------------------------------------------------------------------
Alike(d, e) ==
  /\ d.from = e.from /\ d.sel.strategy = e.sel.strategy
  /\ d.sel.filter = e.sel.filter /\ d.sel.index = e.sel.index
  /\ Compares(d.sel) => d.sel.by = e.sel.by

(* Each pick is one its own selection may make, and a step that selects alike
   twice, by name or not, picks one element: what it sends of a random element's
   fields is of the same element (resolve.go dedupCache). *)
PicksAreTheirs ==
  \A k \in DOMAIN decisions :
    LET d == decisions[k]
        arr == step.outputs[d.from]
    IN  /\ d.at \in Candidates(arr, d.sel)
        /\ Compares(d.sel) => d.at \in Best(arr, d.sel)
        /\ d.sel.onTie = "fail" /\ Compares(d.sel) => Best(arr, d.sel) = {d.at}
        /\ \A j \in DOMAIN decisions : Alike(d, decisions[j]) => decisions[j].at = d.at

(* With the same seed a step picks what it picked, and sends what it sent
   (seed.go stepDraws, resolve.go's name order). *)
ReplaySendsTheSame == Len(sent) = 2 => sent[1] = sent[2]

Sent == stage \in {"sent", "unrendered"}

(* What an input is fed by gave a null. *)
FedByNull(n) ==
  LET v == Value(n)
      picked(field) == \E k \in DOMAIN decisions :
        /\ decisions[k].user = n
        /\ step.outputs[decisions[k].from][decisions[k].at][field] = Nil
  IN  \/ v.kind = "from" /\ step.outputs[v.from] = Nil
      \/ v.kind = "fromInput" /\ step.earlier[v.ref] = Nil
      \/ v.kind = "select" /\ picked(v.select.field)
      \/ v.kind = "fromSelection" /\ picked(v.field)
      \/ v.kind = "default" /\ Nil \in Range(v.pool)

(* What is sent is what one record says; the override that names the node, else
   one of its globs, gives it the value it says, whichever route the node has,
   and not to the input that a fuzz case is about; and only an input that is
   optional, {} or fed by a null is left out (resolve.go, routing.go
   ResolveValueOverride, override_resolution.go). *)
EveryInputIsAccountedFor ==
  Sent => \A n \in Range(step.inputs) \cup DOMAIN inputs :
    /\ Cardinality(Recorded(n)) = 1
    /\ \A k \in Recorded(n) :
         /\ resolutions[k].value = IF n \in DOMAIN inputs THEN inputs[n] ELSE Nil
         /\ n # step.fuzzed /\ OverrideValue(step.node, n) # {}
              <=> resolutions[k].source = "override_value"
         /\ resolutions[k].source = "override_value" => inputs[n] \in OverrideValue(step.node, n)
    /\ n \notin DOMAIN inputs => Optional(n) \/ Value(n).kind = "empty" \/ FedByNull(n)

(* A text of a template comes to what it says as it is written, conditionals one
   inside the other and around iterations, whatever keys they share, and is
   refused when a key that it comes to has no value (template.go
   substitutePlaceholders, findBlockClose; templates.md:197).  A block inside an
   iteration is apart: templates.md:270 says that it is not repeated with it, and
   the code repeats it. *)
TextsReadAsWritten ==
  Sent => \A s \in Sources(step.template) :
            WellNested(s) /\ ~BlockInEach(s)
              => substitutePlaceholders(s, inputs) = Reading(s, inputs)

(* An input that a template always uses, and that is optional without a default
   and given no value, is found before the run (validate_template_inputs.go:24,
   "This catches cases where a template unconditionally uses {{key}} but the
   graph declares the input as optional without providing a default value"). *)
AbsentInputsAreCaught ==
  stage = "unrendered" =>
    \A s \in Sources(step.template), n \in step.optional :
      WellNested(s) /\ n \in Unconditional(s)
        => Value(n).kind # "unset" \/ n \in step.elsewhere
=============================================================================
