--------------------------------- MODULE Prompt ---------------------------------
(***************************************************************************)
(* aat prompt (intent/interpret.go, cmd/aat/prompt.go): a model picks a    *)
(* workflow, the plan is composed from it, the model says what the inputs  *)
(* still open are to be, or that the workflow is the wrong one, and the    *)
(* plan is saved as a recipe, which may be run in the plan's place.  What  *)
(* a model answers is any of a few answers; the texts it is sent, a        *)
(* selection it changes and an assertion it adds are left out, and so is   *)
(* the retry after a plan that is not valid, which concerns selections.    *)
(***************************************************************************)
EXTENDS Compose

CONSTANT
  Prompts     \* name -> what a model is asked: [layered, selections, answers]

VARIABLE
  prompt      \* [mode, said, again, told, kept]

promptVars == <<composeVars, prompt>>

NoPlan == "none"
Nothing == [mode |-> "none", said |-> "nothing", again |-> FALSE, told |-> NoPlan, kept |-> TRUE]
Said == Prompts[prompt.said]

Start ==
  /\ inDegree = <<>> /\ ready = {} /\ sorted = <<>>
  /\ pos = 1
  /\ outputs = <<>> /\ inputs = <<>> /\ order = <<>>
  /\ reads = {}
  /\ attached = <<>>

(* A plan that is written out, a recipe, or a prompt. *)
PromptInit ==
  /\ Start
  /\ \/ /\ plan \in Plans /\ steps = plan.steps /\ phase = "parsed"
        /\ recipe = Nothing /\ prompt = Nothing
     \/ /\ recipe \in Recipes /\ phase = "asked"
        /\ plan = Draft /\ steps = <<>> /\ prompt = [Nothing EXCEPT !.mode = "recipe"]
     \/ /\ \E p \in DOMAIN Prompts : prompt = [Nothing EXCEPT !.mode = "prompt", !.said = p]
        /\ phase = "selecting"
        /\ plan = Draft /\ steps = <<>> /\ recipe = Nothing

-----------------------------------------------------------------------------
(* validateWorkflowSelection. *)

ChoicesAreBad(sel) ==
  /\ Workflows[sel.base].slots # <<>>
  /\ \E slot \in DOMAIN sel.choices :
       \A sd \in Range(Workflows[sel.base].slots) :
         sd.name = slot => sel.choices[slot] \notin sd.options

SelectionIsBad(sel) ==
  \/ sel.base \notin DOMAIN Workflows
  \/ Workflows[sel.base].kind = "addon"
  \/ ChoicesAreBad(sel)
  \/ ~IsInjective(sel.addons)
  \/ \E w \in Range(sel.addons) : w \notin DOMAIN Workflows \/ Workflows[w].kind # "addon"

(* A selection that is not valid is asked for again, once; if that is not valid
   either, or the call fails, the first one stays.  The layers given with the
   prompt are added to the first selection, not to the one after a wrong plan. *)
SelectWorkflow ==
  /\ phase = "selecting"
  /\ \E first, second \in Said.selections :
       LET sel == IF SelectionIsBad(first) /\ ~SelectionIsBad(second) THEN second ELSE first
       IN  recipe' = [base |-> sel.base, choices |-> sel.choices, addons |-> sel.addons,
                      overrides |-> <<>>,
                      layered |-> IF prompt.again THEN <<>> ELSE Said.layered]
  /\ phase' = "asked"
  /\ pos' = 1 /\ plan' = Draft /\ attached' = <<>>
  /\ UNCHANGED <<sortVars, stateVars, prompt>>

(* isInputFed, negated: the inputs that are the model's to give. *)
IsUnfed(s, n) ==
  IF n \in DOMAIN s.values /\ s.values[n] = Marker(FALSE) THEN TRUE
  ELSE /\ ~(n \in DOMAIN s.values /\ s.values[n].kind = "from")
       /\ n \notin Graph[s.node].optional /\ n \notin DOMAIN Graph[s.node].default

UnfedInputs(ss) ==
  UNION {{<<ss[i].id, n>> : n \in {n \in InputsOf(ss[i]) : IsUnfed(ss[i], n)}} : i \in DOMAIN ss}

ValueOf(ss, key) == StepOf(ss, key[1]).values

(* validateUnfedInputsCovered: an open input without a value is to be answered. *)
Uncovered(ss, answer) ==
  {key \in UnfedInputs(ss) \ DOMAIN answer.values :
     ~(key[2] \in DOMAIN ValueOf(ss, key) /\ ValueOf(ss, key)[key[2]].kind \in {"literal", "expr"})}

(* applyTargetedResponse: a value for an open input is taken, one for an input
   that is wired is not.  An input that reads another step's input goes on to. *)
Accepted(ss, answer) ==
  {key \in DOMAIN answer.values \cap UnfedInputs(ss) :
     key[2] \in DOMAIN ValueOf(ss, key) => ValueOf(ss, key)[key[2]].kind # "input"}

(* The answer to use: asked for again, once, when an input was left open. *)
Answered(ss, first, second) ==
  IF first.wrong /\ ~prompt.again THEN first
  ELSE IF Uncovered(ss, first) # {} /\ Uncovered(ss, second) = {} THEN second
  ELSE first

(* Mutant of SavedRecipe: the addons are forgotten. *)
SavedWithoutAddons(r, answer) == [r EXCEPT !.overrides = answer.values, !.addons = <<>>]

(* The recipe that is saved: the selection, and every value of the answer. *)
SavedRecipe(r, answer) == [r EXCEPT !.overrides = answer.values]

(* The plan takes the accepted values, the recipe keeps every one.  A wrong plan
   is believed once, and the workflow picked again. *)
FillPlan ==
  /\ prompt.mode = "prompt" /\ phase = "composed"
  /\ \E first, second \in Said.answers :
       LET answer == Answered(plan.steps, first, second)
           values == Restrict(answer.values, Accepted(plan.steps, answer))
       IN  IF answer.wrong /\ ~prompt.again
           THEN /\ phase' = "selecting"
                /\ prompt' = [prompt EXCEPT !.again = TRUE]
                /\ UNCHANGED <<plan, recipe>>
           ELSE /\ phase' = "overridden"
                /\ plan' = Overridden(plan, values)
                /\ recipe' = SavedRecipe(recipe, answer)
                /\ prompt' = [prompt EXCEPT !.kept = (values = answer.values)]
  /\ UNCHANGED <<sortVars, pos, stateVars, attached>>

(* The run has the layers of the selection, or if there are none the prompt's.
   What the model was asked and answered is then done with. *)
FinishPrompt ==
  /\ prompt.mode = "prompt"
  /\ PostProcess(IF recipe.layered = <<>> THEN Said.layered ELSE recipe.layered)
  /\ prompt' = [prompt EXCEPT !.told = plan', !.said = Nothing.said, !.again = FALSE]

(* The plan is validated, without its layers, before it is shown. *)
IsValidPlan(p) ==
  LET ss == PrepareInstance(p)
  IN  /\ ~MutationsAreBad(p.steps) /\ ~CloneIdCollides(ss)
      /\ Valid(ExpandMutations(ss))
      /\ \A v \in Range(p.checks) : ~CheckIsBad(ExpandMutations(ss), v)

Shown == IsValidPlan([plan EXCEPT !.layered = <<>>])

RefusePrompt ==
  /\ prompt.mode = "prompt" /\ phase = "parsed" /\ ~Shown
  /\ phase' = "refused"
  /\ UNCHANGED <<sortVars, plan, pos, stateVars, recipe, attached, prompt>>

(* The saved recipe is run instead of the plan. *)
RunSaved ==
  /\ prompt.mode = "prompt" /\ phase = "parsed" /\ Shown
  /\ prompt' = [prompt EXCEPT !.mode = "replay"]
  /\ phase' = "asked"
  /\ pos' = 1 /\ plan' = Draft /\ steps' = <<>> /\ attached' = <<>>
  /\ UNCHANGED <<inDegree, ready, sorted, stateVars, recipe>>

OverrideRecipe == prompt.mode # "prompt" /\ Override /\ UNCHANGED prompt
FinishRecipe == prompt.mode # "prompt" /\ PostProcess(recipe.layered) /\ UNCHANGED prompt
Run ==
  /\ prompt.mode = "prompt" /\ phase = "parsed" => Shown
  /\ Next
  /\ UNCHANGED <<recipe, attached, prompt>>

PromptNext ==
  \/ SelectWorkflow \/ FillPlan \/ FinishPrompt \/ RefusePrompt \/ RunSaved
  \/ Compose /\ UNCHANGED prompt
  \/ OverrideRecipe \/ FinishRecipe
  \/ Run

PromptSpec == PromptInit /\ [][PromptNext]_promptVars

-----------------------------------------------------------------------------
IsComposed == prompt.mode # "none" /\ phase \in {"valid", "running", "verifying", "done", "failed"}
Order(id) == CHOOSE k \in DOMAIN sorted : steps[sorted[k]].id = id

(* The steps of the base and of the chosen options, as their templates have
   them. *)
Filling == {Chosen(sd) : sd \in Range(Base.slots)}
TemplateSteps ==
  {s \in UNION {Range(Workflows[w].steps) : w \in {recipe.base} \cup Filling} : ~IsSlotMarker(s)}

(* The value that the first of the slots whose option injects n has for it. *)
Injected(n) ==
  LET k == {k \in DOMAIN Base.slots : n \in DOMAIN Workflows[Chosen(Base.slots[k])].inject}
  IN  {Workflows[Chosen(Base.slots[j])].inject[n] : j \in IF k = {} THEN {} ELSE {Min(k)}}

Sends(id, n, d) ==
  LET values == StepOf(steps, id).values
  IN  n \in DOMAIN values /\ IF IsRef(d) THEN NodeOf(steps, values[n].step) = d.step
                             ELSE values[n] = d

(* What a recipe sets, its steps send, whatever its template wired, and what a
   chosen option injects reaches every step of the base and of its options that
   leaves the input open, the first slot's value where two inject it
   (compose.go:488, recipe_overrides.go:47): nothing that composition does
   later undoes it. *)
RecipesSayWhatIsSent ==
  IsComposed /\ prompt.mode # "prompt" =>
    /\ \A o \in DOMAIN recipe.overrides : Sends(o[1], o[2], recipe.overrides[o])
    /\ \A s \in TemplateSteps : \A n \in InputsOf(s) : \A d \in Injected(n) :
         (n \notin DOMAIN s.values \/ IsEmpty(s.values[n])) /\ <<s.id, n>> \notin DOMAIN recipe.overrides
           => Sends(s.id, n, d)

(* The check of workflows takes an addon for one of the base only if a template
   of the base has a node that the addon follows (workflow_compat.go:248).  One
   that follows another addon's step alone is composed all the same, unchecked. *)
IsUnchecked(s) ==
  \E k \in DOMAIN recipe.addons :
    /\ AddonPrefix[k] = StepPrefix(s.id)
    /\ ~HasAnyNode(recipe.base, Workflows[ByPriority(recipe.addons)[k]].after)

(* A recipe that takes the options its slots offer, of a base and with addons
   that aat validate has nothing against, leaves no marker of an output the
   graph can produce (workflow_compat.go:275, "cannot feed").  Two kinds of steps
   are apart: those of a base without slots, where only an earlier step feeds a
   marker, and those of an addon that IsUnchecked, although validation.md:92 says
   that what an addon wires is produced "in every base the addon attaches to". *)
CompatibleRecipesAreWired ==
  phase = "composed" /\ HasShape(recipe.base) /\ ~BaseIsWarnedOf(recipe.base)
    /\ (\A w \in Range(recipe.addons) : ~AddonIsWarnedOf(recipe.base, w))
    /\ (\A sd \in Range(Base.slots) : Chosen(sd) \in sd.options)
  => \A s \in Range(plan.steps) : \A n \in DOMAIN s.values :
       s.values[n] = Marker(FALSE) /\ Producible(n)
         => \/ Base.slots = <<>> /\ StepPrefix(s.id) = ""
            \/ IsUnchecked(s)

(* What the check of workflows does not see, the run does: no step of a composed
   plan is sent with an input that is still to be wired, the copies of its
   mutations and what a prompt or a saved recipe left open among them
   (workflows.md:258, "fails validation instead of sending it"). *)
MarkersAreNotSent ==
  IsComposed => \A s \in Range(steps) : \A n \in DOMAIN s.values : ~IsMarker(s.values[n])

(* A recipe composes into what it and the check of workflows say, or does not
   run. *)
RecipesAreHonoured ==
  RecipesSayWhatIsSent /\ CompatibleRecipesAreWired /\ MarkersAreNotSent

(* An addon's steps run after the step it was attached to, those of a second
   addon at the same node after the first's (compose.go:528, "auto-chaining"),
   although the dependencies are rebuilt later and a node's name in them is then
   read as the steps on that node. *)
AddonsFollowTheirPoint ==
  phase = "running" /\ prompt.mode # "none" =>
    \A k \in DOMAIN attached : \A s \in Range(attached[k].steps) :
      Order(attached[k].after) < Order(s.id)

(* Running the recipe that a prompt saved composes the plan the prompt showed,
   if every value the model gave was taken and the layers are the same
   (prompt.go:290, "compact recipe format"). *)
RecipesReplay ==
  prompt.mode = "replay" /\ phase = "parsed" /\ prompt.kept
    /\ plan.layered = prompt.told.layered
  => plan = prompt.told
=============================================================================
