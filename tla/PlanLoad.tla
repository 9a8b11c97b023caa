-------------------------------- MODULE PlanLoad --------------------------------
(***************************************************************************)
(* From the plan an author wrote to the values its steps send: Engine.Run  *)
(* prepares the plan (PlanSteps), sorts it (Scheduler), and runs the steps *)
(* in that order, resolving each input from what earlier steps stored      *)
(* (engine/resolve.go, engine/run_state.go).  What a run makes of answers, *)
(* known issues, interrupts and cleanup is in PlanRun: here a step's       *)
(* request succeeds, is refused, or ends the run.                          *)
(***************************************************************************)
EXTENDS PlanSteps, Scheduler

CONSTANT
  Plans       \* the plans considered, as they are parsed

VARIABLES
  plan,       \* the parsed plan, which instantiation leaves alone
  phase,      \* how far the run is
  pos,        \* the next step in sorted, or the next verification step
  outputs,    \* RunState.outputs: step ID -> the names of its outputs
  inputs,     \* RunState.inputs: step ID -> the names of its inputs
  order,      \* RunState.order: the IDs with outputs, in the order stored
  reads       \* history: who read what from whom, and whether it had run

stateVars == <<outputs, inputs, order, reads>>
vars == <<sortVars, plan, phase, pos, stateVars>>

Phase == {"parsed", "prepared", "expanded", "valid", "sorting", "running",
          "verifying", "done", "refused", "unsorted", "failed"}

Init ==
  /\ plan \in Plans
  /\ phase = "parsed"
  /\ steps = plan.steps
  /\ inDegree = <<>> /\ ready = {} /\ sorted = <<>>
  /\ pos = 1
  /\ outputs = <<>> /\ inputs = <<>> /\ order = <<>>
  /\ reads = {}

(* One stage of InstantiateAndValidateWithLayers: the steps become ss and the
   next phase begins, or the plan is refused. *)
Stage(from, to, bad, ss) ==
  /\ phase = from
  /\ phase' = IF bad THEN "refused" ELSE to
  /\ steps' = IF bad THEN steps ELSE ss
  /\ UNCHANGED <<inDegree, ready, sorted, plan, pos, stateVars>>

Prepare  == Stage("parsed", "prepared", MutationsAreBad(plan.steps), PrepareInstance(plan))
Expand   == Stage("prepared", "expanded", CloneIdCollides(steps), ExpandMutations(steps))
Validate ==
  Stage("expanded", "valid",
        ~Valid(steps) \/ \E v \in Range(plan.checks) : CheckIsBad(steps, v), steps)

BeginSort ==
  /\ phase = "valid"
  /\ phase' = "sorting"
  /\ inDegree' = Degrees
  /\ ready' = Free(Degrees)
  /\ sorted' = <<>>
  /\ UNCHANGED <<steps, plan, pos, stateVars>>

SortStep ==
  /\ phase = "sorting"
  /\ TakeFirst
  /\ UNCHANGED <<plan, phase, pos, stateVars>>

EndSort ==
  /\ phase = "sorting" /\ ready = {}
  /\ phase' = IF Len(sorted) = Len(steps) THEN "running" ELSE "unsorted"
  /\ UNCHANGED <<sortVars, plan, pos, stateVars>>

-----------------------------------------------------------------------------
(* ResolveInputs. *)

HasOutput(v) == v.step \in DOMAIN outputs /\ v.field \in outputs[v.step]
Resolves(v) ==
  IF v.kind = "input" THEN v.step \in DOMAIN inputs /\ v.field \in inputs[v.step]
  ELSE HasOutput(v)

(* An input set to {} takes a plain default, unless it is optional. *)
TakesDefault(s, n) ==
  /\ n \notin Graph[s.node].optional /\ HasDefault(plan.layered, s.node, n)
  /\ EffectiveDefault(plan.layered, s.node, n).kind = "literal"

(* An optional input that reads an output with from is left out when the
   output is missing, and so is one set to {}, as is a required one whose
   default is not plain.  An expression or a fromInput that can't be resolved
   fails the step whatever the input is. *)
MayBeLeftOut(s, n) ==
  \/ n \in Graph[s.node].optional /\ s.values[n].kind \in {"from", "empty"}
  \/ IsEmpty(s.values[n]) /\ HasDefault(plan.layered, s.node, n)

Resolved(s) ==
  {n \in DOMAIN s.values :
     /\ IsRef(s.values[n]) => Resolves(s.values[n])
     /\ IsEmpty(s.values[n]) => TakesDefault(s, n)}
Unresolvable(s) == {n \in DOMAIN s.values \ Resolved(s) : ~MayBeLeftOut(s, n)}

Ran(id) == id \in DOMAIN inputs

(* What s reads: its values, with the inputs that were matched by name, and the
   references in its assertions. *)
ReadsOf(s, matched) ==
  {[by |-> s.id, input |-> n, from |-> s.values[n].step, ran |-> Ran(s.values[n].step),
    byName |-> n \in matched] : n \in {n \in DOMAIN s.values : IsRef(s.values[n])}}
  \cup
  {[by |-> s.id, input |-> "asserted", from |-> a.step, ran |-> Ran(a.step),
    byName |-> FALSE] : a \in s.asserts}

(* The outputs a successful response may hold. *)
Responses(node) ==
  {out \in SUBSET Graph[node].outputs : Graph[node].outputs \ Graph[node].mayLack \subseteq out}

(* A refused step stores no outputs. *)
Store(s, out) ==
  /\ outputs' = (s.id :> out) @@ outputs
  /\ order' = IF s.id \in Range(order) THEN order ELSE Append(order, s.id)

Fail ==
  /\ phase' = "failed"
  /\ UNCHANGED <<pos, outputs, order>>

RunStep ==
  /\ phase = "running" /\ pos <= Len(sorted)
  /\ LET s == steps[sorted[pos]]
     IN  /\ reads' = reads \cup ReadsOf(s, {})
         /\ IF Unresolvable(s) # {}
            THEN Fail /\ UNCHANGED inputs
            ELSE /\ inputs' = (s.id :> Resolved(s)) @@ inputs
                 /\ \/ Fail
                    \/ /\ pos' = pos + 1 /\ UNCHANGED phase
                       /\ IF s.negative THEN UNCHANGED <<outputs, order>>
                          ELSE \E out \in Responses(s.node) : Store(s, out)
  /\ UNCHANGED <<sortVars, plan>>

StepsDone ==
  /\ phase = "running" /\ pos > Len(sorted)
  /\ phase' = "verifying"
  /\ pos' = 1
  /\ UNCHANGED <<sortVars, plan, stateVars>>

-----------------------------------------------------------------------------
(* Verification.  Its steps were bound before the mutations were expanded. *)

Check(k) ==
  LET v == plan.checks[k]
  IN  BindVerification(InjectReferenceDeps(plan.steps), plan.layered, v)

(* outputSources: the steps with outputs, the last one first, where no fuzz case
   ran. *)
Sources == Reverse(order)

(* fillValuesByOutputName: an input still unset reads the latest output of its
   name. *)
Matching(n) == {k \in DOMAIN Sources : n \in outputs[Sources[k]]}
Matched(v) == {n \in Range(Graph[v.node].inputs) \ DOMAIN v.values : Matching(n) # {}}
FillValuesByOutputName(v) ==
  [v EXCEPT !.values =
     @ @@ [n \in Matched(v) |-> Ref("from", Sources[Min(Matching(n))], n)]]

VerifyStep ==
  /\ phase = "verifying" /\ pos <= Len(plan.checks)
  /\ LET v == FillValuesByOutputName(Check(pos))
     IN  /\ reads' = reads \cup ReadsOf(v, Matched(Check(pos)))
         /\ IF Unresolvable(v) # {} \/ Required(v.node) \ DOMAIN v.values # {}
            THEN Fail /\ UNCHANGED inputs
            ELSE /\ inputs' = (v.id :> Resolved(v)) @@ inputs
                 /\ \/ Fail
                    \/ /\ pos' = pos + 1 /\ UNCHANGED phase
                       /\ \E out \in Responses(v.node) : Store(v, out)
  /\ UNCHANGED <<sortVars, plan>>

Verified ==
  /\ phase = "verifying" /\ pos > Len(plan.checks)
  /\ phase' = "done"
  /\ UNCHANGED <<sortVars, plan, pos, stateVars>>

Over == phase \in {"done", "refused", "unsorted", "failed"}
Terminated == Over /\ UNCHANGED vars

Next ==
  \/ Prepare \/ Expand \/ Validate
  \/ BeginSort \/ SortStep \/ EndSort
  \/ RunStep \/ StepsDone \/ VerifyStep \/ Verified
  \/ Terminated

Spec == Init /\ [][Next]_vars

-----------------------------------------------------------------------------
Prepared == PrepareInstance(plan)
Running == phase \in {"running", "verifying", "done", "failed"}

Mutations == {m \in (DOMAIN plan.steps) \X (1..2) : m[2] \in DOMAIN plan.steps[m[1]].mutations}
Of(m) == plan.steps[m[1]].mutations[m[2]]
SiblingOf(m) == SiblingId(plan.steps[m[1]].id, Of(m).name)

(* The copies an isolated mutation makes, and with its sibling the steps that
   are the mutation's own. *)
CopiesOf(m) ==
  IF ~plan.steps[m[1]].isolated THEN {}
  ELSE {CloneId(id, Of(m).name) : id \in Range(Closure(Prepared, Prepared[m[1]]))}
(* A value that a mutation's set gives its sibling. *)
IsSet(r) ==
  \E m \in Mutations : r.by = SiblingOf(m) /\ r.input \in DOMAIN Of(m).set

(* A plan that passes validation has an order that runs every step
   (scheduler.go:76 reports a cycle; validate.go is to have found it), and
   whatever a step reads of another step, written by the author, merged from a
   default or rewritten for a copy, that step has run by then (binding.go:141,
   instantiate.go:121 and :536).  A value that a mutation sets is apart: it
   adds no dependency, so the step it is read of may not have run. *)
ReadsComeAfter ==
  /\ phase # "unsorted"
  /\ \A r \in reads : r.ran \/ r.by = r.from \/ IsSet(r)

(* An isolated mutation runs on prerequisites of its own: what its steps read is
   one of them, and no other step reads them (instantiate.go:335, "without
   leakage between the happy path and the mutations or between sibling
   mutations").  Inputs of a verification step that are matched by name are
   apart: they may be read of a copy. *)
IsolatedReadsOwn ==
  \A m \in Mutations : plan.steps[m[1]].isolated /\ Running =>
    LET copies == CopiesOf(m)
        group  == copies \cup {SiblingOf(m)}
    IN  \A r \in reads :
          /\ r.by \in group => r.from \in group \cup {plan.steps[m[1]].id} \/ IsSet(r)
          /\ r.from \in copies => r.by \in group \/ r.byName

(* What every step reads is there by then, and its own (ReadsComeAfter,
   IsolatedReadsOwn): the dependencies that instantiation adds and the copies
   that it makes belong together. *)
ReadsAreInOrder == ReadsComeAfter /\ IsolatedReadsOwn
=============================================================================
