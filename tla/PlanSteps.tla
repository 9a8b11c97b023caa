------------------------------- MODULE PlanSteps -------------------------------
(***************************************************************************)
(* The preparation of a plan (plan/instantiate.go, plan/binding.go,        *)
(* plan/validate.go) as operators on its sequence of steps.                *)
(*                                                                         *)
(* A step's ID is a sequence of its parts, because expansion builds new    *)
(* IDs from old ones and an author may write an ID that looks like one of  *)
(* those.  A value is a literal or a reference to another step: "from" an  *)
(* output, "expr" for an expression that names an output, "input" for an   *)
(* input.  What a value, a pool or a filter is worth, its type, and the    *)
(* syntax of expressions are left out.                                     *)
(***************************************************************************)
EXTENDS Naturals, Sequences, FiniteSets, SequencesExt, FiniteSetsExt, Functions, TLC

CONSTANT
  Graph       \* node -> [inputs, optional, outputs, mayLack, default]

(* inputs: a node's input names, in order.  optional: those that may be left
   out.  default: for some inputs, Literal or the node and output they come
   from.  outputs: the output names; mayLack: those a response may not hold. *)
Node == DOMAIN Graph

Literal == [kind |-> "literal"]
Ref(kind, step, field) == [kind |-> kind, step |-> step, field |-> field]
IsRef(v) == v.kind \in {"from", "expr", "input"}

(* AUTOWIRE, or AUTOWIRE? for an input that may stay unset, and the value {}. *)
Marker(optional) == [kind |-> "marker", optional |-> optional]
IsMarker(v) == v.kind = "marker"
Empty == [kind |-> "empty"]
IsEmpty(v) == v.kind = "empty"

Ids(ss) == {ss[i].id : i \in DOMAIN ss}
StepOf(ss, id) == ss[CHOOSE i \in DOMAIN ss : ss[i].id = id]
NodeOf(ss, id) == StepOf(ss, id).node

(* The steps that s reads: through its values, and through the output
   references in its assertions and its repeat condition. *)
ValueRefs(s) == {v \in Range(s.values) : IsRef(v)}
ReferencedSteps(s) == {v.step : v \in ValueRefs(s) \cup s.asserts}

AddDeps(s, ids) == [s EXCEPT !.deps = @ \o SetToSeq(ids \ Range(@))]

(* Mutant of InjectReferenceDeps: an assertion's references are forgotten. *)
InjectValueDeps(ss) ==
  [i \in DOMAIN ss |->
     AddDeps(ss[i], ({v.step : v \in ValueRefs(ss[i])} \cap Ids(ss)) \ {ss[i].id})]

(* A reference implies its dependency.  (The order the new ones are listed in
   decides only the order of the copies expansion makes.) *)
InjectReferenceDeps(ss) ==
  [i \in DOMAIN ss |->
     AddDeps(ss[i], (ReferencedSteps(ss[i]) \cap Ids(ss)) \ {ss[i].id})]

-----------------------------------------------------------------------------
(* Binding a default's reference to a node to one of the plan's steps. *)

DepsOf(ss, ids) == UNION {Range(ss[i].deps) : i \in {i \in DOMAIN ss : ss[i].id \in ids}}

RECURSIVE Reach(_, _)
Reach(ss, ids) ==
  LET more == DepsOf(ss, ids) \ ids
  IN  IF more = {} THEN ids ELSE Reach(ss, ids \cup more)

(* The steps that a step depends on, directly or through others. *)
Prerequisites(ss, id) == Reach(ss, DepsOf(ss, {id}))
DependsOnStep(ss, from, to) == to \in Prerequisites(ss, from)

DefaultRefStep(ss, i, node) ==
  LET all    == {j \in DOMAIN ss : ss[j].node = node}
      after(j) == DependsOnStep(ss, ss[j].id, ss[i].id)
      near   == {j \in all : j < i /\ ~ss[j].negative /\ ~after(j)}
      usable == {j \in all : ~ss[j].negative /\ (ss[j].id = ss[i].id \/ ~after(j))}
  IN  IF near # {} THEN ss[Max(near)].id
      ELSE IF usable # {} THEN ss[Min(usable)].id
      ELSE IF all # {} THEN ss[Min(all)].id
      ELSE <<node>>

(* A layer's default of an input comes before the graph's. *)
HasDefault(layered, node, input) ==
  <<node, input>> \in DOMAIN layered \/ input \in DOMAIN Graph[node].default
EffectiveDefault(layered, node, input) ==
  IF <<node, input>> \in DOMAIN layered
  THEN layered[<<node, input>>] ELSE Graph[node].default[input]

Unset(layered, s) ==
  IF s.node \notin Node THEN {}
  ELSE {n \in Range(Graph[s.node].inputs) :
          n \notin DOMAIN s.values /\ HasDefault(layered, s.node, n)}

(* TranslateFromRefAt: a default, or an injected value, for the step at i. *)
Bound(ss, i, d) ==
  IF IsRef(d) THEN Ref("from", DefaultRefStep(ss, i, d.step), d.field) ELSE d

(* Every default is bound before any dependency is added. *)
MergeDefaults(ss, layered) ==
  [i \in DOMAIN ss |->
     LET merged == [n \in Unset(layered, ss[i]) |->
                      Bound(ss, i, EffectiveDefault(layered, ss[i].node, n))]
         read   == {v.step : v \in {v \in Range(merged) : IsRef(v)}}
     IN  AddDeps([ss[i] EXCEPT !.values = merged @@ @], (read \cap Ids(ss)) \ {ss[i].id})]

(* The step a verification step's default reads: the last one on the node, one
   that is not expected to fail if there is any. *)
VerificationRefStep(ss, node) ==
  LET all == {j \in DOMAIN ss : ss[j].node = node}
      ok  == {j \in all : ~ss[j].negative}
  IN  IF ok # {} THEN ss[Max(ok)].id
      ELSE IF all # {} THEN ss[Max(all)].id ELSE <<node>>

(* A verification step v, with its values and the defaults it is bound to. *)
BindVerification(ss, layered, v) ==
  [v EXCEPT !.values =
     @ @@ [n \in Unset(layered, v) |->
             LET d == EffectiveDefault(layered, v.node, n)
             IN  IF IsRef(d) THEN Ref("from", VerificationRefStep(ss, d.step), d.field) ELSE d]]

PrepareInstance(p) == MergeDefaults(InjectReferenceDeps(p.steps), p.layered)

-----------------------------------------------------------------------------
(* Mutations. *)

CloneId(id, m) == id \o <<"__", m>>
SiblingId(id, m) == id \o <<"--", m>>

(* transitivePrereqClosure: depth first, each step after those it depends on; a
   dependency on no step of the plan is passed over. *)
RECURSIVE Visit(_, _, _)
Visit(ss, acc, id) ==
  IF id \in acc.seen THEN acc
  ELSE LET here == [acc EXCEPT !.seen = @ \cup {id}]
       IN  IF id \notin Ids(ss) THEN here
           ELSE LET all == FoldLeft(LAMBDA a, d : Visit(ss, a, d), here, StepOf(ss, id).deps)
                IN  [all EXCEPT !.order = Append(@, id)]

Closure(ss, s) ==
  FoldLeft(LAMBDA a, d : Visit(ss, a, d), [seen |-> {}, order |-> <<>>], s.deps).order

(* Mutant of Rewrite: the values keep reading the originals. *)
RewriteDepsOnly(s, ids, m) ==
  [s EXCEPT !.deps = [k \in DOMAIN @ |-> IF @[k] \in ids THEN CloneId(@[k], m) ELSE @[k]]]

(* rewriteStepRefs: what s reads and waits for among ids is now the copy. *)
Rewrite(s, ids, m) ==
  LET new(id) == IF id \in ids THEN CloneId(id, m) ELSE id
      ref(v)  == IF IsRef(v) THEN [v EXCEPT !.step = new(@)] ELSE v
  IN  [s EXCEPT !.deps = [k \in DOMAIN @ |-> new(@[k])],
                !.values = [n \in DOMAIN @ |-> ref(@[n])],
                !.asserts = {ref(a) : a \in @}]

Clone(s, ids, m) ==
  [Rewrite(s, ids, m) EXCEPT !.id = CloneId(s.id, m), !.variantOf = s.id]

(* The happy path's step, its mutations gone. *)
Happy(s) == [s EXCEPT !.mutations = <<>>, !.isolated = FALSE]

Sibling(s, m) ==
  [Happy(s) EXCEPT !.id = SiblingId(s.id, m.name), !.variantOf = s.id,
                   !.values = m.set @@ @, !.asserts = {}, !.negative = TRUE]

(* What one mutation of s adds to the plan. *)
Variant(ss, s, m) ==
  IF ~s.isolated THEN <<Sibling(s, m)>>
  ELSE LET closure == Closure(ss, s)
           ids     == Range(closure)
       IN  [k \in DOMAIN closure |-> Clone(StepOf(ss, closure[k]), ids, m.name)]
             \o <<Rewrite(Sibling(s, m), ids, m.name)>>

ExpandMutations(ss) ==
  FlattenSeq([i \in DOMAIN ss |->
    <<Happy(ss[i])>> \o
    FlattenSeq([k \in DOMAIN ss[i].mutations |-> Variant(ss, ss[i], ss[i].mutations[k])])])

(* detectCloneIdCollisions: a copy would get the ID of a step of the plan. *)
CloneIdCollides(ss) ==
  \E i \in DOMAIN ss :
    /\ ss[i].isolated
    /\ \E k \in DOMAIN ss[i].mutations :
         \E id \in Range(Closure(ss, ss[i])) : CloneId(id, ss[i].mutations[k].name) \in Ids(ss)

(* validateMutationsSyntax: what depends on more than one field. *)
MutationsAreBad(ss) ==
  \E i \in DOMAIN ss :
    \/ ss[i].isolated /\ ss[i].mutations = <<>>
    \/ \E k, l \in DOMAIN ss[i].mutations :
         k # l /\ ss[i].mutations[k].name = ss[i].mutations[l].name

-----------------------------------------------------------------------------
(* Validate. *)

DeclaresField(node, v) ==
  IF v.kind = "input" THEN v.field \in Range(Graph[node].inputs)
  ELSE v.field \in Graph[node].outputs

RefIsBad(ss, v) == v.step \notin Ids(ss) \/ ~DeclaresField(NodeOf(ss, v.step), v)

(* An expression may not read its own step, nor one that is expected to fail,
   which stores no outputs.  A from or fromInput reference may. *)
OutputRefIsBad(ss, s, v) ==
  RefIsBad(ss, v) \/ v.step = s.id \/ StepOf(ss, v.step).negative

Required(node) == Range(Graph[node].inputs) \ Graph[node].optional

StepIsBad(ss, s) ==
  \/ s.node \notin Node
  \/ Range(s.deps) \ Ids(ss) # {}
  \/ s.id \in Range(s.deps)
  \/ Required(s.node) \ DOMAIN s.values # {}
  \/ DOMAIN s.values \ Range(Graph[s.node].inputs) # {}
  \/ \E v \in Range(s.values) : IsMarker(v)
  \/ \E v \in ValueRefs(s) : RefIsBad(ss, v)
  \/ \E v \in {v \in ValueRefs(s) : v.kind = "expr"} \cup s.asserts : OutputRefIsBad(ss, s, v)

HasCycle(ss) == \E id \in Ids(ss) : DependsOnStep(ss, id, id)

(* Mutant of Valid: cycles are left to the run. *)
ValidButForCycles(ss) ==
  Cardinality(Ids(ss)) = Len(ss) /\ \A i \in DOMAIN ss : ~StepIsBad(ss, ss[i])

Valid(ss) ==
  /\ Cardinality(Ids(ss)) = Len(ss)
  /\ \A i \in DOMAIN ss : ~StepIsBad(ss, ss[i])
  /\ ~HasCycle(ss)

(* A verification step reads main steps only. *)
CheckIsBad(ss, v) ==
  \/ DOMAIN v.values \ Range(Graph[v.node].inputs) # {}
  \/ \E r \in ValueRefs(v) : RefIsBad(ss, r)
  \/ \E r \in v.asserts : OutputRefIsBad(ss, v, r)
=============================================================================
