--------------------------------- MODULE Matrix ---------------------------------
(***************************************************************************)
(* The run matrix of aat run batch: every plan with every permutation of   *)
(* the layer groups, less the duplicates (cmd/aat/run_batch_cmd.go,        *)
(* graph/permute.go), and what decides both: the layers' defaults          *)
(* (graph/layer.go) and what instantiation and a run make of them          *)
(* (plan/instantiate.go, engine/resolve.go).                               *)
(*                                                                         *)
(* A default, and a step's value, is where a value comes from: none, a     *)
(* plain value, a pool or another step's output, and the constraint it     *)
(* must meet.  A value with nothing set is the plan's {}.  References,     *)
(* which PlanLoad models, keep their text here.                            *)
(***************************************************************************)
EXTENDS Naturals, SequencesExt

CONSTANTS
  Names,     \* the layers' names in alphabetical order, none a prefix of another
  Projects   \* the projects and command lines considered

(* The names a project uses, and the layers of its plans and command line, are
   the files' and the flags' lists. *)
ASSUME MatrixAssumption ==
  /\ Names \in Seq(Range(Names))
  /\ \A k, l \in DOMAIN Names : Names[k] = Names[l] => k = l
  /\ \A p \in Projects :
       /\ p.groups \in Seq(Seq(Range(Names)))
       /\ p.base \in Seq(Range(Names))
       /\ p.plans \in Seq(Range(p.plans))
       /\ \A k \in DOMAIN p.plans : p.plans[k].layers \in Seq(Range(Names))

VARIABLES
  project,   \* the project and the command line
  phase,     \* how far the batch is
  specs,     \* the runs to make, in order
  infos,     \* while duplicates are looked for: what each spec would run
  skipped    \* the duplicates, each with the run it is a duplicate of

matrixVars == <<project, phase, specs, infos, skipped>>

Graph == project.graph    \* node -> input -> its default
Layers == project.layers  \* layer -> its defaults, by input and by node and input
Plans == project.plans

InitMatrix ==
  /\ project \in Projects
  /\ phase = "discovered" /\ specs = <<>> /\ infos = <<>> /\ skipped = <<>>

-----------------------------------------------------------------------------
(* S in the order of the pairs in R, each element at the place that what comes
   before it leaves. *)
InOrder(S, R) ==
  LET place(x) == Cardinality({y \in S : <<y, x>> \in R})
  IN  [n \in 1..Cardinality(S) |-> CHOOSE x \in S : place(x) = n - 1]

(* The elements of s at the positions in S. *)
Picked(s, S) ==
  LET at == InOrder(S, {p \in S \X S : p[1] < p[2]})
  IN  [n \in DOMAIN at |-> s[at[n]]]

-----------------------------------------------------------------------------
(* Layers. *)

None == [source |-> "none", arg |-> "none", constraint |-> "none"]
HasValue(d) == d.source # "none"
IsLiteralOnly(d) == d.source = "value" /\ d.constraint = "none"

MergeInputDefault(base, overlay) ==
  LET from == IF HasValue(overlay) THEN overlay ELSE base
  IN  [source |-> from.source, arg |-> from.arg,
       constraint |-> IF overlay.constraint # "none" THEN overlay.constraint ELSE base.constraint]

SetBy(f, key) == IF key \in DOMAIN f THEN f[key] ELSE None

(* One layer over d, the default of an input: its bare entry, then its qualified one. *)
ApplyLayer(d, layer, node, input) ==
  MergeInputDefault(MergeInputDefault(d, SetBy(layer.bare, input)),
                    SetBy(layer.qualified, <<node, input>>))

LayeredDefault(layers, default, names, node, input) ==
  FoldLeft(LAMBDA d, name : ApplyLayer(d, layers[name], node, input), default, names)

EffectiveDefault(names, node, input) ==
  LayeredDefault(Layers, Graph[node][input], names, node, input)

WithoutRepeats(s) == Picked(s, {k \in DOMAIN s : \A j \in 1..k - 1 : s[j] # s[k]})

mergeLayerNames(base, extra) ==
  IF extra = <<>> THEN base ELSE WithoutRepeats(base \o extra)

(* The layers a run of the spec applies: a recipe's own ones first. *)
EffectiveLayers(spec) ==
  LET own == Plans[spec.plan].layers
  IN  own \o Picked(spec.layers, {k \in DOMAIN spec.layers : spec.layers[k] \notin Range(own)})

(* The plan can't be prepared: ResolveLayerNames knows no such layer. *)
Unreadable(spec) == ~(Range(EffectiveLayers(spec)) \subseteq DOMAIN Layers)

-----------------------------------------------------------------------------
(* The matrix. *)

Rank(name) == CHOOSE k \in DOMAIN Names : Names[k] = name
Ranks(layers) == [k \in DOMAIN layers |-> Rank(layers[k])]

(* A sequence of numbers comes before another. *)
Precedes(a, b) ==
  \E k \in 1..Len(b) :
    /\ k <= Len(a) + 1
    /\ k > Len(a) \/ a[k] < b[k]
    /\ \A j \in 1..k - 1 : a[j] = b[j]

Label(layers) ==
  LET sorted(p) == \/ Rank(layers[p[1]]) < Rank(layers[p[2]])
                   \/ layers[p[1]] = layers[p[2]] /\ p[1] < p[2]
      at == InOrder(DOMAIN layers, {p \in (DOMAIN layers) \X (DOMAIN layers) : sorted(p)})
  IN  [n \in DOMAIN at |-> layers[at[n]]]

(* The place in each group of the layer that is taken of it, 0 for none. *)
Combos(groups) ==
  {c \in [DOMAIN groups -> UNION {0..Len(groups[k]) : k \in DOMAIN groups}] :
     \A k \in DOMAIN groups : c[k] \in 0..Len(groups[k])}

Chosen(groups, c) ==
  Picked([k \in DOMAIN groups |-> IF c[k] = 0 THEN "-" ELSE groups[k][c[k]]],
         {k \in DOMAIN groups : c[k] # 0})

(* Combinations of one label stay as the product has them, which is what
   sort.Slice does with up to twelve. *)
SortsBefore(groups, c, d) ==
  LET a == Ranks(Label(Chosen(groups, c)))
      b == Ranks(Label(Chosen(groups, d)))
  IN  Precedes(a, b) \/ (a = b /\ Precedes(c, d))

(* One layer of each group or none, the combinations sorted by label. *)
GenerateLayerPermutations(groups) ==
  LET combos == Combos(groups)
      order == InOrder(combos, {p \in combos \X combos : SortsBefore(groups, p[1], p[2])})
  IN  [n \in DOMAIN order |-> Chosen(groups, order[n])]

(* The plan and the combination that the k-th spec is of. *)
PlanAt(k, width) == ((k - 1) \div width) + 1
PermAt(k, width) == ((k - 1) % width) + 1

buildRunMatrix ==
  LET perms == IF project.groups = <<>> THEN <<(<<>>)>>
               ELSE GenerateLayerPermutations(project.groups)
      width == Len(perms)
      spec(k) == [plan |-> PlanAt(k, width), label |-> Label(perms[PermAt(k, width)]),
                  layers |-> mergeLayerNames(project.base, perms[PermAt(k, width)])]
  IN  [k \in 1..Len(Plans) * width |-> spec(k)]

BuildMatrix ==
  /\ phase = "discovered"
  /\ phase' = "built"
  /\ specs' = buildRunMatrix
  /\ UNCHANGED <<project, infos, skipped>>

-----------------------------------------------------------------------------
(* Duplicates. *)

(* A step's values with the defaults of the inputs it leaves unset merged in. *)
WithDefaults(step, names) ==
  LET filled == {i \in DOMAIN Graph[step.node] : HasValue(EffectiveDefault(names, step.node, i))}
  IN  [i \in DOMAIN step.values \cup filled |->
         IF i \in DOMAIN step.values THEN step.values[i]
         ELSE EffectiveDefault(names, step.node, i)]

Instantiate(plan, names) == [s \in DOMAIN plan.steps |-> WithDefaults(plan.steps[s], names)]

(* Mutant of Fingerprint: of the plan as it is written. *)
FingerprintAsWritten(spec) ==
  [steps |-> [s \in DOMAIN Plans[spec.plan].steps |-> Plans[spec.plan].steps[s].values],
   checks |-> Plans[spec.plan].checks]

(* Of the Execution section, whose verification entries are as written. *)
Fingerprint(spec) ==
  [steps |-> Instantiate(Plans[spec.plan], EffectiveLayers(spec)),
   checks |-> Plans[spec.plan].checks]

SymmetricDifference(a, b) == (a \ b) \cup (b \ a)

dedupScore(spec) ==
  LET effective == EffectiveLayers(spec)
  IN  100 * Cardinality(SymmetricDifference(Range(spec.layers), Range(effective))) + Len(effective)

fingerprintSpecs ==
  /\ phase = "built"
  /\ phase' = "fingerprinted"
  /\ infos' = [k \in DOMAIN specs |->
                IF Unreadable(specs[k]) THEN [err |-> TRUE, fingerprint |-> <<>>, score |-> 0]
                ELSE [err |-> FALSE, fingerprint |-> Fingerprint(specs[k]),
                      score |-> dedupScore(specs[k])]]
  /\ UNCHANGED <<project, specs, skipped>>

(* Mutant of Group: whose plan it is doesn't matter. *)
GroupOfAnyPlan(k) ==
  IF infos[k].err THEN {k}
  ELSE {j \in DOMAIN specs : ~infos[j].err /\ infos[j].fingerprint = infos[k].fingerprint}

(* An unreadable spec is a group of its own: its run tells what is wrong. *)
Group(k) ==
  IF infos[k].err THEN {k}
  ELSE {j \in DOMAIN specs : /\ ~infos[j].err /\ infos[j].fingerprint = infos[k].fingerprint
                             /\ specs[j].plan = specs[k].plan}

(* The first of the group's specs with the lowest score. *)
Canonical(k) ==
  LET lowest == {j \in Group(k) : \A i \in Group(k) : infos[j].score <= infos[i].score}
  IN  Min(lowest)

deduplicateSpecs ==
  /\ phase = "fingerprinted"
  /\ phase' = "deduplicated"
  /\ IF project.groups = <<>> \/ project.noDedup THEN UNCHANGED <<specs, skipped>>
     ELSE /\ specs' = Picked(specs, {k \in DOMAIN specs : Canonical(k) = k})
          /\ skipped' = Picked([k \in DOMAIN specs |->
                                 [spec |-> specs[k], duplicateOf |-> specs[Canonical(k)]]],
                               {k \in DOMAIN specs : Canonical(k) # k})
  /\ infos' = <<>>
  /\ UNCHANGED project

(* --shuffle puts the runs in any order. *)
Shuffle ==
  /\ phase = "deduplicated"
  /\ phase' = "ready"
  /\ \E order \in Bijection(DOMAIN specs, DOMAIN specs) :
       /\ project.shuffle \/ \A k \in DOMAIN specs : order[k] = k
       /\ specs' = [k \in DOMAIN specs |-> specs[order[k]]]
  /\ UNCHANGED <<project, infos, skipped>>

-----------------------------------------------------------------------------
(* What a run sends. *)

LeftOut == [source |-> "leftOut", arg |-> "none", constraint |-> "none"]
Refused == [source |-> "refused", arg |-> "none", constraint |-> "none"]

(* resolveInput of a {}: the default as the run's layers leave it, when it is
   a plain value and the input is required. *)
ResolveEmpty(node, input, names) ==
  LET d == EffectiveDefault(names, node, input)
  IN  IF input \in project.optional THEN LeftOut
      ELSE IF ~HasValue(d) THEN Refused
      ELSE IF IsLiteralOnly(d) THEN d ELSE LeftOut

(* Where a step takes each input that it has a value for from. *)
Taken(step, names) ==
  LET values == WithDefaults(step, names)
  IN  [i \in DOMAIN values |->
         IF values[i] = None THEN ResolveEmpty(step.node, i, names) ELSE values[i]]

(* The values of the plan's steps. *)
StepsSend(spec) ==
  [s \in DOMAIN Plans[spec.plan].steps |-> Taken(Plans[spec.plan].steps[s], EffectiveLayers(spec))]

-----------------------------------------------------------------------------
Deduplicated == phase \in {"deduplicated", "ready"}

(* Every spec of the matrix is run or skipped, once; a skipped one names one of
   the same plan that isn't itself skipped (run_batch_cmd.go deduplicateSpecs). *)
EverySpecIsAnswered ==
  Deduplicated =>
    LET skippedSpecs == {skipped[n].spec : n \in DOMAIN skipped}
    IN  /\ Range(specs) \cup skippedSpecs = Range(buildRunMatrix)
        /\ Len(specs) + Len(skipped) = Len(buildRunMatrix)
        /\ \A n \in DOMAIN skipped :
             /\ skipped[n].duplicateOf \in Range(specs)
             /\ skipped[n].duplicateOf.plan = skipped[n].spec.plan

(* The steps of a would take every value from where those of b take it, less
   the values that the plan writes {}. *)
SendsSame(a, b) ==
  \A s \in DOMAIN StepsSend(a) : \A i \in DOMAIN StepsSend(a)[s] :
    \/ SetBy(Plans[a.plan].steps[s].values, i) = None
       /\ i \in DOMAIN Plans[a.plan].steps[s].values
    \/ i \in DOMAIN StepsSend(b)[s] /\ StepsSend(a)[s][i] = StepsSend(b)[s][i]

(* A skipped run would have sent what the run it is a duplicate of sends. *)
SkippedStepsAreTheSame ==
  Deduplicated => \A n \in DOMAIN skipped : SendsSame(skipped[n].spec, skipped[n].duplicateOf)

(* A batch leaves nothing out: each spec has its entry, and one that is skipped
   would have sent what the run sent that it is said to duplicate
   (docs/user/batch-layers.md:92). *)
BatchesLeaveNothingOut == EverySpecIsAnswered /\ SkippedStepsAreTheSame
=============================================================================
