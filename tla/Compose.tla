-------------------------------- MODULE Compose --------------------------------
(***************************************************************************)
(* How a recipe becomes a plan (intent/recipe.go, compose.go, autowire.go, *)
(* postprocess.go): the base workflow's template is loaded, an option's    *)
(* steps take the place of each slot's marker, addons are spliced in after *)
(* the node they name, what is still to be wired is wired, the recipe's    *)
(* overrides are applied and the dependencies rebuilt.  Then the plan is   *)
(* loaded and run like any other (PlanLoad).                               *)
(*                                                                         *)
(* A slot's marker is a step whose ID is the slot's name and whose node is *)
(* "slot".  Selections, constraints, descriptions and the assertions that  *)
(* composition adds or cleans up are left out.                             *)
(***************************************************************************)
EXTENDS PlanLoad

CONSTANTS
  Workflows,  \* name -> [kind, steps, checks, cleanup, slots, inject, after, wire, priority]
  Recipes,    \* [base, choices, addons, overrides, layered], overrides by <<step, input>>
  AddonPrefix \* "inc0", "inc1", ...: the prefixes of the addons' steps

VARIABLES
  recipe,     \* the recipe that is composed
  attached    \* the addons spliced in: [node, after, steps]

composeVars == <<vars, recipe, attached>>

Draft == [steps |-> <<>>, checks |-> <<>>, cleanup |-> <<>>, layered |-> <<>>]

Base == Workflows[recipe.base]

(* One stage of the composition: it is refused, or the draft becomes p. *)
ComposeStage(from, bad, to, next, p) ==
  /\ phase = from
  /\ phase' = IF bad THEN "refused" ELSE to
  /\ pos' = IF bad THEN pos ELSE next
  /\ plan' = IF bad THEN plan ELSE p
  /\ UNCHANGED <<sortVars, stateVars>>

Idle == UNCHANGED <<recipe, attached>>

-----------------------------------------------------------------------------
(* Templates. *)

IsSlotMarker(s) == s.node = "slot"
InputsOf(s) == IF s.node \in Node THEN Range(Graph[s.node].inputs) ELSE {}

(* LoadWorkflowTemplate: every node of the template is one of the graph's. *)
TemplateIsBad(w) ==
  \/ \E s \in Range(Workflows[w].steps) : ~IsSlotMarker(s) /\ s.node \notin Node
  \/ Range(Workflows[w].cleanup) \ Node # {}
  \/ \E v \in Range(Workflows[w].checks) : v.node \notin Node

(* A workflow whose template can be loaded. *)
Loads(w) == w \in DOMAIN Workflows /\ ~TemplateIsBad(w)

MergeCleanup(p, w) ==
  p.cleanup \o SelectSeq(Workflows[w].cleanup, LAMBDA n : n \notin Range(p.cleanup))

(* What is composed later knows the state the plan ends in: its verification of
   a node replaces the one that is there. *)
MergeVerification(p, checks) ==
  SelectSeq(p.checks, LAMBDA v : \A c \in Range(checks) : c.node # v.node) \o checks

-----------------------------------------------------------------------------
(* AUTOWIRE. *)

Producers(ss, output) ==
  {i \in DOMAIN ss : /\ ~ss[i].negative /\ ss[i].node \in Node
                     /\ output \in Graph[ss[i].node].outputs}

(* The markers in sub are wired: where wire says so, else to the last of the
   steps ss that produces the output, wherever it stands. *)
AutoWire(sub, ss, wire) ==
  LET wired(v, n) ==
        IF ~IsMarker(v) THEN v
        ELSE IF n \in DOMAIN wire THEN wire[n]
        ELSE IF Producers(ss, n) # {} THEN Ref("from", ss[Max(Producers(ss, n))].id, n)
        ELSE v
  IN  [i \in DOMAIN sub |->
         [sub[i] EXCEPT !.values = [n \in DOMAIN @ |-> wired(@[n], n)]]]

(* NearestProducer, which depends on no later step. *)
Nearest(ss, i, output) ==
  {j \in Producers(ss, output) : j < i /\ ~DependsOnStep(ss, ss[j].id, ss[i].id)}

(* resolveRemainingAutowire, for one step. *)
WireStep(ss, i) ==
  LET names   == {n \in DOMAIN ss[i].values : IsMarker(ss[i].values[n])}
      fed     == {n \in names : Nearest(ss, i, n) # {}}
      from(n) == ss[Max(Nearest(ss, i, n))].id
      wired   == [n \in fed |-> Ref("from", from(n), n)]
      unset   == [n \in {n \in names \ fed : ss[i].values[n].optional} |-> Empty]
  IN  [ss EXCEPT ![i] = AddDeps([@ EXCEPT !.values = wired @@ unset @@ @],
                                {from(n) : n \in fed})]

ResolveRemainingAutowire(ss) ==
  FoldLeft(WireStep, InjectReferenceDeps(ss), [i \in DOMAIN ss |-> i])

-----------------------------------------------------------------------------
(* Slots. *)

(* The option of a slot: the recipe's choice, or the default; "" for none. *)
Chosen(sd) ==
  IF sd.name \in DOMAIN recipe.choices THEN recipe.choices[sd.name] ELSE sd.default

MarkersOf(ss, slot) == {i \in DOMAIN ss : IsSlotMarker(ss[i]) /\ ss[i].id = <<slot>>}

(* Mutant of Rooted: a step that waits for another template's is passed over. *)
RootedIfFree(sub, deps) ==
  [k \in DOMAIN sub |-> IF sub[k].deps = <<>> THEN [sub[k] EXCEPT !.deps = deps] ELSE sub[k]]

(* addInsertionDeps, and what fillSlots does with the marker's dependencies: a
   step that depends on none of its own template waits for deps. *)
Rooted(sub, deps) ==
  [k \in DOMAIN sub |->
     IF Range(sub[k].deps) \cap Ids(sub) = {}
     THEN [sub[k] EXCEPT !.deps = @ \o deps] ELSE sub[k]]

(* The option's steps take the marker's place. *)
Filled(ss, i, sub) ==
  SubSeq(ss, 1, i - 1) \o Rooted(sub, ss[i].deps) \o SubSeq(ss, i + 1, Len(ss))

LastId(sub) == sub[Len(sub)].id

(* A dependency on a slot is one on the last step of its option. *)
RenameSlots(ss) ==
  LET slots == Range(Base.slots)
      last(d) == LET sd == CHOOSE sd \in slots : d = <<sd.name>>
                 IN  LastId(Workflows[Chosen(sd)].steps)
  IN  [i \in DOMAIN ss |->
         [ss[i] EXCEPT !.deps =
            [k \in DOMAIN @ |-> IF \E sd \in slots : @[k] = <<sd.name>> THEN last(@[k]) ELSE @[k]]]]

(* An option's inject sets an input of every step that leaves it open, the way a
   default would. *)
ApplyInject(ss, inject) ==
  LET open(s) == {n \in InputsOf(s) \cap DOMAIN inject :
                    n \notin DOMAIN s.values \/ IsEmpty(s.values[n])}
  IN  [i \in DOMAIN ss |->
         [ss[i] EXCEPT !.values = [n \in open(ss[i]) |-> Bound(ss, i, inject[n])] @@ @]]

(* Mutant of InjectAll: the last slot's value comes first. *)
InjectLastFirst(ss) ==
  FoldLeft(LAMBDA s, sd : ApplyInject(s, Workflows[Chosen(sd)].inject), ss, Reverse(Base.slots))

(* Where two options inject an input, the slot declared first has its way. *)
InjectAll(ss) ==
  FoldLeft(LAMBDA s, sd : ApplyInject(s, Workflows[Chosen(sd)].inject), ss, Base.slots)

Load ==
  ComposeStage("asked", ~Loads(recipe.base),
               IF Base.slots = <<>> THEN "resolving" ELSE "filling", 1,
               [steps |-> Base.steps, checks |-> Base.checks, cleanup |-> Base.cleanup,
                layered |-> <<>>])
  /\ Idle

(* The slots are filled in the order they are declared. *)
FillSlot ==
  /\ phase = "filling" /\ pos <= Len(Base.slots)
  /\ LET option == Chosen(Base.slots[pos])
         marker == MarkersOf(plan.steps, Base.slots[pos].name)
     IN  ComposeStage("filling",
           ~Loads(option) \/ marker = {} \/ Workflows[option].steps = <<>>,
           "filling", pos + 1,
           [plan EXCEPT !.steps = Filled(@, Min(marker), Workflows[option].steps),
                        !.cleanup = MergeCleanup(plan, option),
                        !.checks = MergeVerification(plan, Workflows[option].checks)])
  /\ Idle

WireSlots ==
  /\ phase = "filling" /\ pos > Len(Base.slots)
  /\ LET ss == InjectAll(RenameSlots(plan.steps))
     IN  ComposeStage("filling", FALSE, "resolving", 1,
                      [plan EXCEPT !.steps = InjectReferenceDeps(AutoWire(ss, ss, <<>>))])
  /\ Idle

-----------------------------------------------------------------------------
(* Addons. *)

AddonIsBad(w) ==
  \/ w \notin DOMAIN Workflows
  \/ Workflows[w].kind # "addon" \/ Workflows[w].after = <<>>

(* The recipe's addons by priority, in the order given where it is the same. *)
ByPriority(addons) ==
  LET before(i, j) == \/ Workflows[addons[i]].priority < Workflows[addons[j]].priority
                      \/ Workflows[addons[i]].priority = Workflows[addons[j]].priority /\ i < j
      sequence == SetToSortSeq(DOMAIN addons, before)
  IN  [k \in DOMAIN addons |-> addons[sequence[k]]]

ResolveAddons ==
  ComposeStage("resolving", \E w \in Range(recipe.addons) : AddonIsBad(w), "adding", 1, plan)
  /\ Idle

(* Where an addon goes: after the last addon attached to the first of its nodes
   that has one or is in the plan, else after the last step on that node. *)
AttachedTo(node) == {k \in DOMAIN attached : attached[k].node = node}
OnNode(ss, node) == {i \in DOMAIN ss : ss[i].node = node}
CanFollow(ss, node) == AttachedTo(node) # {} \/ OnNode(ss, node) # {}
StepToFollow(ss, node) ==
  IF AttachedTo(node) # {} THEN LastId(attached[Max(AttachedTo(node))].steps)
  ELSE ss[Max(OnNode(ss, node))].id

(* prefixStepRefs: the addon's own IDs get its prefix, and so do the references
   to them, save those in an expression. *)
WithPrefix(s, ids, prefix) ==
  LET new(id) == IF id \in ids THEN <<prefix>> \o id ELSE id
  IN  [s EXCEPT
         !.deps = [k \in DOMAIN @ |-> new(@[k])],
         !.values = [n \in DOMAIN @ |->
                       IF @[n].kind \in {"from", "input"} THEN [@[n] EXCEPT !.step = new(@)]
                       ELSE @[n]],
         !.asserts = {[a EXCEPT !.step = new(@)] : a \in @}]

Prefixed(sub, prefix) ==
  [k \in DOMAIN sub |-> [WithPrefix(sub[k], Ids(sub), prefix) EXCEPT !.id = <<prefix>> \o @]]

(* $after stands for the step that the addon follows. *)
After == <<"$after">>
WireFrom(wire, id) ==
  [n \in DOMAIN wire |-> IF IsRef(wire[n]) /\ wire[n].step = After
                         THEN [wire[n] EXCEPT !.step = id] ELSE wire[n]]

(* InjectReferenceDeps for the steps outside the addon. *)
InjectOutsideDeps(sub) ==
  [k \in DOMAIN sub |-> AddDeps(sub[k], ReferencedSteps(sub[k]) \ Ids(sub))]

(* The addon w's steps, ready to be spliced into ss after the step id. *)
Ready(ss, w, prefix, id) ==
  InjectOutsideDeps(
    Rooted(AutoWire(Prefixed(Workflows[w].steps, prefix), ss, WireFrom(Workflows[w].wire, id)),
           <<id>>))

Spliced(ss, sub, id) ==
  LET at == Min({i \in DOMAIN ss : ss[i].id = id})
  IN  SubSeq(ss, 1, at) \o sub \o SubSeq(ss, at + 1, Len(ss))

ComposeAddon ==
  /\ phase = "adding" /\ pos <= Len(recipe.addons)
  /\ LET w      == ByPriority(recipe.addons)[pos]
         nodes  == SelectSeq(Workflows[w].after, LAMBDA n : CanFollow(plan.steps, n))
         id     == StepToFollow(plan.steps, nodes[1])
         sub    == Ready(plan.steps, w, AddonPrefix[pos], id)
         checks == [k \in DOMAIN Workflows[w].checks |->
                      WithPrefix(Workflows[w].checks[k], Ids(Workflows[w].steps), AddonPrefix[pos])]
         bad    == nodes = <<>> \/ ~Loads(w)
     IN  /\ ComposeStage("adding", bad, "adding", pos + 1,
                         [plan EXCEPT !.steps = Spliced(@, sub, id),
                                      !.cleanup = MergeCleanup(plan, w),
                                      !.checks = MergeVerification(plan, checks)])
         /\ attached' = IF bad THEN attached
                        ELSE Append(attached, [node |-> nodes[1], after |-> id, steps |-> sub])
  /\ UNCHANGED recipe

AddonsDone ==
  /\ phase = "adding" /\ pos > Len(recipe.addons)
  /\ ComposeStage("adding", FALSE, "composed", 1,
                  [plan EXCEPT !.steps = ResolveRemainingAutowire(@)])
  /\ Idle

-----------------------------------------------------------------------------
(* Overrides and PostProcess. *)

Overridden(p, overrides) ==
  LET mine(s) == {o[2] : o \in {o \in DOMAIN overrides : o[1] = s.id}}
  IN  [p EXCEPT !.steps =
         [i \in DOMAIN @ |->
            [@[i] EXCEPT !.values = [n \in mine(p.steps[i]) |-> overrides[<<p.steps[i].id, n>>]] @@ @]]]

(* A recipe's overrides must name steps that are there, and replace the wiring of
   the inputs they set. *)
Override ==
  ComposeStage("composed", \E o \in DOMAIN recipe.overrides : o[1] \notin Ids(plan.steps),
               "overridden", 1, Overridden(plan, recipe.overrides))
  /\ Idle

StepPrefix(id) == IF id[1] \in Range(AddonPrefix) THEN id[1] ELSE ""

(* depResolver.resolve: a dependency on a node is one on its steps, those of the
   same addon, or of the base, if there are any. *)
ResolveDep(ss, s, dep) ==
  LET onNode == {i \in DOMAIN ss : <<ss[i].node>> = dep}
      own    == {i \in onNode : StepPrefix(ss[i].id) = StepPrefix(s.id)}
      others == {i \in own : ss[i].id # s.id}
      ids(is) == {ss[i].id : i \in is} \ {s.id}
  IN  IF onNode = {} THEN {dep} \cap (Ids(ss) \ {s.id})
      ELSE IF others # {} THEN ids(others) ELSE ids(onNode)

(* A step that requires a token follows the steps of its own group that satisfy
   it. *)
TokenDeps(ss, s) ==
  {ss[i].id : i \in {i \in DOMAIN ss :
     /\ {ss[i].node, s.node} \subseteq Node
     /\ ss[i].id # s.id /\ StepPrefix(ss[i].id) = StepPrefix(s.id)
     /\ Graph[ss[i].node].satisfies \cap Graph[s.node].requires # {}}}

CollectStepDeps(ss, s) ==
  LET defaulted == {n \in InputsOf(s) \ DOMAIN s.values :
                      n \in DOMAIN Graph[s.node].default /\ IsRef(Graph[s.node].default[n])}
      named == {v.step : v \in {v \in Range(s.values) : v.kind = "from"}}
                 \cup {<<Graph[s.node].default[n].step>> : n \in defaulted}
                 \cup Range(s.deps)
  IN  UNION {ResolveDep(ss, s, d) : d \in named} \cup TokenDeps(ss, s)

FixDependsOn(ss) ==
  [i \in DOMAIN ss |-> [ss[i] EXCEPT !.deps = SetToSeq(CollectStepDeps(ss, ss[i]))]]

(* A node with a cleanup has it run, once. *)
AddCleanupSteps(p) ==
  LET known == SelectSeq(p.steps, LAMBDA s : s.node \in Node)
      pairs == [i \in DOMAIN known |-> Graph[known[i].node].cleanup]
      add(list, pair) == IF pair = "" \/ pair \in Range(list) THEN list ELSE Append(list, pair)
  IN  FoldLeft(add, p.cleanup, pairs)

PostProcessed(p) ==
  [p EXCEPT !.steps = FixDependsOn(@), !.cleanup = AddCleanupSteps(p)]

PostProcess(layered) ==
  /\ phase = "overridden"
  /\ phase' = "parsed"
  /\ LET p == [PostProcessed(plan) EXCEPT !.layered = layered]
     IN  plan' = p /\ steps' = p.steps
  /\ UNCHANGED <<inDegree, ready, sorted, pos, stateVars>>
  /\ Idle

Compose == Load \/ FillSlot \/ WireSlots \/ ResolveAddons \/ ComposeAddon \/ AddonsDone

-----------------------------------------------------------------------------
(* The check that aat validate makes of workflows (intent/workflow_compat.go). *)

Options(base) == UNION {sd.options : sd \in Range(Workflows[base].slots)}
TemplatesOf(base) == {base} \cup Options(base)
HasShape(base) == \A w \in TemplatesOf(base) : Loads(w)

(* Mutant of Feeds: one option that produces the output is enough. *)
FeedsSometimes(base, output) ==
  \E w \in TemplatesOf(base) : Producers(Workflows[w].steps, output) # {}

(* Every composition of the base has a step that produces the output. *)
Feeds(base, output) ==
  LET produces(w) == Producers(Workflows[w].steps, output) # {}
  IN  \/ produces(base)
      \/ \E sd \in Range(Workflows[base].slots) :
           sd.options # {} /\ \A w \in sd.options : produces(w)

Producible(n) == \E node \in Node : n \in Graph[node].outputs

(* The names of the plain AUTOWIRE inputs in a template. *)
PlainMarkers(w) ==
  {n \in UNION {DOMAIN s.values : s \in Range(Workflows[w].steps)} :
     \E s \in Range(Workflows[w].steps) :
       n \in DOMAIN s.values /\ s.values[n] = Marker(FALSE)}

BaseIsWarnedOf(base) ==
  \E w \in TemplatesOf(base) : \E n \in PlainMarkers(w) :
    Producible(n) /\ ~Feeds(base, n) /\ ~(w # base /\ Producers(Workflows[w].steps, n) # {})

HasAnyNode(base, nodes) ==
  \E w \in TemplatesOf(base) : \E n \in Range(nodes) : OnNode(Workflows[w].steps, n) # {}

AddonIsWarnedOf(base, addon) ==
  /\ HasAnyNode(base, Workflows[addon].after)
  /\ \E n \in PlainMarkers(addon) \ DOMAIN Workflows[addon].wire :
       Producible(n) /\ ~Feeds(base, n)
=============================================================================
