# A TLA+ model of AAT

AAT runs API test plans: it takes a plan (steps over the nodes of an API graph),
sends the requests, checks the answers, and releases what the steps created.
This directory holds TLA+ modules translated from the Go source, TLC
configurations that check them on small instances, and proofs that TLAPS checks
for every instance. Paths and line numbers here and in `PROJECT.json` are those
of the repository.

    tlc -workers 2 -config MCPlanRun.cfg MCPlanRun
    tlapm PlanRunProofs.tla

## 1. The system

### Components and how they interact

```
recipe, prompt ─> compose ─> plan ─> prepare ─> expand ─> validate ─> sort
                                                                       │
aat run batch ─> run matrix ─> goroutine per run ─> attempts ─> Engine.Run
                                     │     │                       │
  summary, exit code <─ entries ─────┘  archive directory     main loop ─ fuzz cases ─ verification ─ cleanup
                                           │                       │                                    │
                         web UI, clean, import              step: inputs ─ route ─ template      chains of requests
                                                                   │                                    │
                                                            repeat ─ retry ─ token ─ pacer ─────────────┘
                                                                   │
                                                    the API under test (the sandbox shop)
                                                                   │
                                                     the response: outputs, checks, verdict
```

| Component | State it keeps | Operations | What is hard | What makes it correct |
| --- | --- | --- | --- | --- |
| Run (`engine/engine.go`) | outcome, results, the cleanup stack, the known-issue log | run the sorted steps, verify, stop at a checkpoint, abort, clean up | a failure at every point between a create and its cleanup; an interrupt between a request and its answer; outcomes a known issue covers | what was created is released, and the outcome says what happened |
| Cleanup (`engine/cleanup.go`, `cleanup_skip.go`) | a stack of entries, the IDs in use, the skips | filter by `runOn`, run each entry and its chain, skip what is not needed | chains and cycles; entries released by main steps; the budget after an interrupt | last created first, each once, whole chains |
| Step retries (`engine/retry.go`, `errors.go`) | attempt, last result, wait | classify, decide, wait, resend | answers that are lost; `Retry-After`; an interrupt in the wait | never twice unless told, never before the wait |
| Step repetition (`engine/repeat.go`) | the cursors sent, what is collected, the request count | poll until a condition holds, page to the end | looping cursors, several limits at once | what passes was waited for; no page twice |
| Pacer (`engine/pacer.go`) and token (`config/auth_provider.go`) | the next free slot; a token and its expiry | wait for a slot; authenticate | a lock released before a sleep, a lock held over the network, cancellation | starts are an interval apart; no token is handed out that is about to end |
| Batch (`cmd/aat/run_batch_cmd.go`, `run_shared.go`) | the matrix, results by run, archives, counts | permute layers, drop duplicates, start runs, retry attempts, rename archives, tally | concurrent runs, interrupts at every stage of an attempt, defaults decided late | entries, files, counts and the exit code agree; nothing is left out |
| Fuzzing (`engine/fuzz.go`) | per target: the live setup, clean or not, failures in a row | reuse a setup, rebuild it, judge a case | a setup that an earlier case used up | a finding is about the case and not about its setup |
| Plan and scheduling (`plan/`, `engine/scheduler.go`) | the steps and their dependencies | bind references, apply defaults and layers, expand mutations, sort | rewrites of references one after the other | a step reads only what was run before it, and of its own copy |
| Composition and prompt (`intent/`, `cmd/aat/prompt.go`) | a recipe, the plan made of it | fill slots, wire, splice addons, ask a model, save | each stage moves what earlier ones placed; answers that are dropped | what a recipe says is sent, and a saved recipe makes the plan again |
| Inputs and routes (`engine/resolve.go`, `selection.go`, `routing.go`, `config/multi_env.go`) | the values resolved, the picks shared, the overrides | resolve, pick, merge environments, route | precedence of layers, files and flags; a map's order | each input is accounted for; a request carries the most specific setting |
| Templates (`adapter/template.go`) | a parsed template | classify inputs, render, check before a run | blocks in blocks with the same tags | a text reads as it is written |
| Checks (`validate/`, `internal/predicate`, `plan/expr.go`) | outputs, verdicts | extract, evaluate predicates and expressions, judge | texts, numbers and times that read alike | the verdict is what the run makes of the response |
| Archive (`archive/`, `server/service.go`) | a directory per run | write, rename an attempt away, save, unsave, import, clean, backfill | several processes without a lock, one of them killed | no attempt is lost; a saved run stays |
| Sandbox shop (`internal/sandbox`) | carts, orders, payments, shipments | the handlers of the demo API | the lock is released during a latency | an order's status says what was done of it |

`PROJECT.json` lists every component with what is modelled of it, and under
`hazards` the places where the code can go wrong in a way a test would hardly
reach, each with the properties that would notice.

### Modules

| Module | Models | Checked by | Proved in |
| --- | --- | --- | --- |
| `Pacer` | `engine/pacer.go` | `MCPacedRuns` | `SharedStateProofs` |
| `TokenCache` | `config/auth_provider.go` | `MCPacedRuns` | `SharedStateProofs` |
| `PacedRuns` | runs that share both | `MCPacedRuns` | `SharedStateProofs` |
| `PlanRun` | `Engine.Run` with verification, checkpoint, interrupt and cleanup | `MCPlanRun` | `PlanRunProofs` |
| `ResourceLedger` | the abstract promise of a run about resources, which `PlanRun` implements | `MCPlanRun` | `PlanRunProofs` |
| `CleanupChain` | `Engine.runCleanup` request by request, with chains | `MCCleanupChain` | `CleanupChainProofs` |
| `StepContext` | the limits and the context that retries and repetition share | with the next three | |
| `StepRetry` | one request and its retries | `MCRepeatedStep` | `RepeatedStepProofs` |
| `StepRepeat` | a polled or paged step, a request being one pair of actions | `MCRepeatedStep` | `RepeatedStepProofs` |
| `RepeatedStep` | both together, which implements `StepRepeat` | `MCRepeatedStep` | `RepeatedStepProofs` |
| `Matrix` | the run matrix, its labels and duplicates, and what a run sends | `MCBatchRun` | |
| `BatchRun` | a batch with retries, archives and the exit code | `MCBatchRun` | `BatchRunProofs` |
| `FuzzRun` | the fuzz cases of `Engine.Run` and the setups they run on | `MCFuzzRun` | `StepOrderProofs` |
| `Scheduler` | `TopologicalSort` | `MCPlanLoad` | `StepOrderProofs` |
| `PlanSteps`, `PlanLoad` | a plan's preparation, expansion, validation, sort and reads | `MCPlanLoad` | |
| `Compose` | a plan composed from a recipe | `MCPlanLoad` | |
| `Prompt` | `aat prompt`, its recipe and the replay | `MCPlanLoad` | |
| `Routes` | environments, overlays and overrides to a request's target and headers | `MCStepInputs` | `StepInputsProofs` |
| `Template` | request templates and their check before a run | `MCStepInputs` | |
| `StepInputs` | the resolution of a step's inputs and its replay | `MCStepInputs` | `StepInputsProofs` |
| `Predicate`, `Expression` | the predicate and expression languages | `MCStepChecks` | |
| `StepVerdict` | a response judged, whatever is read off its body | `MCStepChecks` | `PlanRunProofs` |
| `StepChecks` | what is read off a body: errors, outputs, assertions | `MCStepChecks` | |
| `ArchiveStore` | the archive directory, one system call at a time | `MCArchiveStore` | `ArchiveStoreProofs` |
| `SandboxShop` | the sandbox's shop | `MCSandboxShop` | `SharedStateProofs` |

The modules are levels of one system. `BatchRun` has a run of the engine as one
action with any outcome the engine has; `PlanRun` is that run, with the requests
of a step as one send and one answer; `RepeatedStep` is one such step; `PacedRuns`
is the wait before its requests; `CleanupChain` is what `PlanRun` does in one
action per registered cleanup; `StepInputs` comes before a send, `StepChecks` and
`StepVerdict` after an answer; `PlanLoad`, `Compose` and `Prompt` make the plan. They are
separate because their products are out of TLC's reach and because each level
uses of the one below only what is stated here: a request ends in an answer or an
error, and an error may have had an effect. Where two levels meet in one module
(`RepeatedStep`, `PacedRuns`, `BatchRun` over `Matrix`, `PlanLoad` over
`Scheduler`, `Prompt` over `Compose` over `PlanLoad`, `StepInputs` over `Routes`
and `Template`), the composition is checked, and for the first two the proof says
that it implements its parts.

## 2. State and actions against the code

**Pacer, TokenCache, PacedRuns.** `next` is `Pacer.next`; `phase[r]` is where a
caller is in `Wait`. `Reserve` is the critical section (read the clock, take the
later of now and `next`, move `next`). The lock is released before the clock is
read again, so `StartAtOnce` and `Arm` are separate actions that other requests'
reservations and the clock fall between. `Cancel` leaves the slot taken, as the
code does. In `TokenCache`, `holder` has `mu` over the whole of `Authenticate`:
the cached token is handed out, or a fetch begins, its answer comes with a
lifetime and is read later than it was issued. `PacedRuns` gives the runs of a
batch a token first and then their requests in turn.

**PlanRun.** A plan is a record of what the loop looks at: which steps create,
which release what, which are expected to fail, the state of the known issue on
each step, the checkpoint, the verification steps, and two engine options. Each
request is two actions (`SendStep`, `StepAnswered`), so an `Interrupt` and the
API's effect fall between. An answer is one of four kinds with the findings of
the assertions and of the OpenAPI check. `Settle` is everything the loop does
with an answer: the outcome, the known-issue log's `raw`, whether the run ends,
and the push of the pairing, which comes before any check is looked at.
`EndRun` and `Abort` start the cleanup with the outcome it is gated on.
`live` is the API: the resources alive. A request may have had its effect (`mayAct`)
when its answer was lost, when its outputs could not be read, and when a status says
that the server failed; a rejection has none. Cleanups and what is leaked or needed
are told by what could have happened, as `StepRetry` and `FuzzRun` do it.
`goOn` (`ContinueOnAssertionFailure`) is a field of the engine that no command
sets; both of its values are checked. `CleanupStack.Filter` drops entries
before the first cleanup; the model drops each when it is reached
(`DropUnselected`), which no other entry can tell apart.

**CleanupChain.** A case is what `runCleanup` finds: the pairings of the graph's
nodes, the steps that ran, what is registered, what main steps released, the
plan's listings and the outcome. `NextPlanned` takes the next of the plan's own
cleanup steps, `NextRegistered` the top of the stack, `SkipReleased`, `SkipWhen`
and `Send` are the three ways on from the head of a chain, and `Answered` gives
the result its ID and ends the chain, records a cycle, or goes on to the next
node. An ID is a node and a number: `node` and `node_2` in the source. Those of the
plan's steps and of its verification steps (`checks`) are taken from the start. Whether
an ID written out in a plan looks like another's is left out.

**StepRetry, StepRepeat, RepeatedStep.** A failed attempt is one of the kinds
that the statuses, body errors and transport errors come to under the
classification and the rules; a block is its `max`, `on` and `failOn`. `Send` is
one attempt; `Accept`, `Exhausted`, `CancelBeforeWait`, `Refuse`, `AskedTooLong`
and `StartWait` are the exits of the retry loop in the code's order, and the clock
and the timer follow. In `StepRepeat` the switch and the three checks after a
response are in the code's order; `seen` is the map of the cursors sent, `gathered`
the responses that went into the collected outputs. In `RepeatedStep` a request
of the repetition begins `StepRetry` anew, and its answer is the result of the
retries. Time is in units of a backoff; its random part is left out.

**Matrix, BatchRun.** A default or a value is where a value comes from (a plain
value, a pool, another step's output, nothing) with its constraint; layers merge
field by field. `BuildMatrix` makes the specs, `Canonical` keeps one of each
fingerprint, `Taken` is what a run makes of a step's values. `pc[i]` is where run
`i` is in `loadAndRunPlanWithRetries`: before an attempt, in its delay, in its
setup, in the engine. `main[i]` and `saved[i]` are which attempts are in
`archive.json` and in `attempt-NN.json`. The sequential batch is `Parallel = 1`.

**FuzzRun.** A plan is its fuzz targets with the number of cases and of the
steps copied for one. `queue` and `idx` are those of `Engine.Run`; `group[t]` is
the target's `fuzzGroup`, `caseInfo[c]` what `fuzzRunState` and `failedSetup`
hold of a case. `Choose` is the head of the loop, with the context check,
`Verify` the verification before the first step after the plan, `SkipStopped`,
`SkipFailed`, `Reuse` and `SendCopy` are `beforeSetupCopy` and its caller,
`CopyAnswered` and `CaseAnswered` what the loop does with an answer, a rebuild
among it. `live` has, for a copied step, the case whose copy stands in, and
`caseInfo[c].on` whose copies case `c` ran on.

**Scheduler, PlanSteps, PlanLoad.** `Scheduler` is Kahn's algorithm with the ready
step that comes first in the plan taken first. `PlanSteps` has the preparation as
operators on the sequence of steps: implied dependencies, defaults and layers,
the copies of a mutation with their renaming, and the rules of validation.
`PlanLoad` runs them in order and then reads, per step, what its values refer to.

**Compose, Prompt.** One action per stage: load, fill each slot, wire, choose and
splice each addon, override, post-process. `Prompt` has a model's selection and
answers, each asked for again once if refused, the wrong-plan signal, the recipe
saved and a run of it.

**Routes, Template, StepInputs.** `LoadEnvironment` merges includes, parents and
vars, `Configure` makes the run's route, `RegisterOverride` and `RegisterFlag`
the router's entries one after the other. A template's text is a sequence of
tokens, read by the passes of the renderer. In `StepInputs` selections are taken
in name order and inputs in the node's order, one action per input, whose value is
written in the plan, raw, an earlier step's output, its input (`ResolveFromInput`) or a
pick; a missing output, field or array fails it as in the code. `OverrideInput`
then sets what the router has for the node, one input at a time in the order of a
map, and `Send` ends the step. `draws` is the step's stream, `dedupCache` the shared
picks, `decisions` and `resolutions` what the archive is told of both; everything
happens twice, as a run and its replay.

**StepVerdict, StepChecks.** One response through `executeStepWith`, extraction, body
errors, assertions, `expectFailure` and the loop's cases: `stage` is how far it got,
`verdict` what `Run` made of it. The judgement (`StepVerdict`) takes what is read off
the body as three parameters, `BodyErrorOf`, `OutputsOf` and `BodyCheck`, which the
configuration gives the definitions of `StepChecks`; this one has the recursion over
values and texts, the other can be reasoned about. A number is a whole number of
hundredths; a text's content is a word or a decimal writing.

**ArchiveStore.** `at` maps a name to a directory and `file` a directory to its
files; a rename moves the name, and whoever has the directory open goes on in it.
A system call is one action. Web requests are `request[q]`, with what is still to
do; a killed writer leaves a cut-off file.

**SandboxShop.** The tables are functions from IDs to records and `seq` the ID
counters. A charge or shipment is `Begin…` and `Finish…`, with the lock released
in between. A listing pages by the texts of IDs, whose digits are in `Radix`.

## 3. The runs

| Run | Instance | Shows | States |
| --- | --- | --- | --- |
| `PacedRuns` | 2 runs, 3 requests, interval 2, lifetimes 0 and 3, buffer 2, the clock to 3 and on while something is awaited | slots are spaced and none is idle; tokens are fetched when needed and serve; every call ends, unless it is behind a fetch that never does | 228,968 |
| `PlanRuns` | 3 steps; every known issue, expected failure, verification, option, listing, condition, checkpoint | the outcome is honest, cleanup is gated on the truth, no leak, cleanups are needed, the ledger is kept, the run ends | 968,968 |
| `RepeatedSteps` | 36 retry blocks, polls and listings of 2 cursors, max up to 4, waits asked for up to 3 with a limit of 2 | one effect unless told, waits, what was waited for, pages once, termination | 455,034 |
| `BatchRetries` | up to 4 specs, 3 run, 2 at a time, 1 retry each | attempts are accounted for, nothing is left out | 117,092 |
| `CleanupChains` | 4 nodes, chains of 2, 1 or 2 resources, sound and cyclic graphs, verification IDs, 2 outcomes | each entry once under its own ID, whole chains | 423,624 |
| `FuzzSetups` | up to 4 cases and 2 copied steps, every scope, 1 or 2 targets, the limit of 3 failed setups | untouched setups, a true report | 212,270 |
| `PlanLoads` | plans of up to 4 steps with mutations, layers and checks; recipes with slots, addons and addons that follow another's step; prompts | the order is right, reads are of what ran, recipes are honoured and replayed | 91,219 |
| `ShopOrders` | 2 clients, 2 products, 3 orders, 1 reset, IDs that gain a digit | a status tells what was done; a listing has every order once | 93,825 |
| `ArchiveStore` | a run of 2 attempts, an old run, the `!run-ID` names of both, either of which may be given to either run, 3 requests of any kind | no attempt is lost, a saved run stays | 418,577 |
| `StepInputs` | steps that value two inputs in each pair of ways, selections, filters, environments and templates | picks are shared rightly, a replay is the same, every input is accounted for, requests and texts are as written | 234,527 |
| `StepChecks` | texts, numbers, times and paths that read alike | the verdict, the checks and the values are the run's, texts keep their meaning | 30,576 |
| `MissedInputs` | the steps of `StepInputs` | a violation, see below | |

**Why the bounds are enough.** Two requests contend for a slot, and a third sees
the effect of a cancelled one. A plan's order matters between a step that
creates, one that creates or fails, and one that releases; a fourth step repeats
one of these. A chain needs three nodes to tell a cycle back to its start from
one back to its middle. Retries are capped at two or three, which reaches every
exit of the loop at the first, at a middle and at the last attempt; a listing
of two cursors can end, loop to its last page and loop to an earlier one. Two
parallel runs of three have one that starts late, after an interrupt or not. A
third fuzz case runs on a setup that a second reused, and a fourth after it was
rebuilt. Three requests to the archive are a check, a change that falls in
between, and a third that puts the name back; the proof's first attempt found
that a fourth matters, see `ArchiveStore` below. Time is bounded by what the
limits allow, so no bound cuts a behaviour off, except `Horizon` in `Pacer`, past
which only waits that were begun go on; `MaxOrders` and `MaxResets` bound the
shop's counters. The theorems have none of these bounds.

**Deadlock** is checked in every run but three: the clock of `PacedRuns` stops at
its horizon, and the requests of `ArchiveStore` and the orders of `SandboxShop`
are finitely many, so that these end in a state with nothing to do.

### A violation: where a document and the code differ

| Run | The code | The document |
| --- | --- | --- |
| `MissedInputs` | an input that a template uses in a conditional block and outside of it is classified as conditional alone (`adapter/template.go:1046`), so that the check before the run accepts a plan whose step cannot be sent | a plan with a missing input is refused before it runs |

### Fairness

Liveness is checked under weak fairness only. `PacedSpec` (`Fairness` and
`AuthFairness`): the clock, the scheduler of a goroutine that can run, a timer
that is due, and a caller that finds the mutex free; neither the cancellation nor the
token endpoint. The fetch is made by `http.DefaultClient`, which has no timeout
(`config/auth.go:125`), on a context without a deadline and with the mutex held
(`config/auth_provider.go:51`), so it may never end; `EveryCallEnds` says that nothing
else keeps a caller waiting. `FairSpec` of `PlanRun` and `StepSpec` of `RepeatedStep`: the
progress of one goroutine, because every request of a step ends, in an answer or in the
timeout of the step executor's own client (`adapter/http_executor.go`, 30 seconds), and
every timer fires; never the interrupt. No run needs strong fairness. The other runs check
safety alone and use `Spec` (`PromptSpec` in `PlanLoads`) without fairness.

## 4. What is proved

TLAPS checks these for every value of the constants. The assumptions are those
named in the modules: `PacerAssumption` and `PacedAssumption` (an interval of at
least one, a buffer and lifetimes that are natural numbers), `PlanAssumption`,
`WaitAssumption`, `RetryAssumption`, `RepeatAssumption`, `CaseAssumption`,
`CleanupAssumption`, `BatchAssumption`, `MatrixAssumption`, `FuzzAssumption`,
`StoreAssumption`, `ShopAssumption`, `CasesAssumption`, `RunsAssumption`,
`ListsAssumption` and `HeadersAssumption`. They say what kind of thing a constant is, that a step expects
failures alone and a gRPC response has its name's status, as the plan's validation and
the executor see to, that the layers' names are distinct, that a case's registered
steps are steps with a pairing, and that a target that only reads does not reuse and a
shared one copies nothing, as `expandFuzz` sees to; that a page of the shop's holds an
order at least and its IDs are printed in a base of at least two; that the inputs of a
node have names of their own (`graph/validate.go`), that a raw value is written out, that a comparison's field is a
number in every element of an output that is an array, that a shuffle leaves an order of the pool and
that a file lists its includes and its overrides and names finitely many environments;
that no node's name is a glob and no one map of headers sets a name twice, whatever
its case, where Go's own order of a map would decide (several files may between them:
`Winners`);
nothing else of what the code does.

| Theorem | Says | By |
| --- | --- | --- |
| `SharedStateProofs!SlotsAreSpaced`, `NoSlotIsIdle` | slots are an interval apart, and a request is held back only behind another's slot | `PacerInv` |
| `SharedStateProofs!PacedRunsPace`, `BatchesAreSpaced` | a batch, whatever it does with tokens, implements the pacer, and so has both | a step of the pacer or a stutter, action by action |
| `SharedStateProofs!TokensServe` | a token is asked for only when none is left, and serves when it is handed out | `TokenInv` |
| `PlanRunProofs!TypesAreKept`, `ReleasedLastCreatedFirst` | the state keeps its types; cleanups are settled in reverse order, each once | `RunInv` |
| `PlanRunProofs!RunsKeepTheLedger` | every step of a run is a step of `ResourceLedger` or leaves it alone | `RunInv`, one case per action |
| `PlanRunProofs!OutcomesAreHonest`, `CleanupIsGatedOnTruth` | the outcome, and what cleanup is gated on, say what happened | `OutcomeInv` |
| `PlanRunProofs!NothingLeaks`, `CleanupsAreNeeded` | what was acknowledged is released; what is released was there, unless a request that may have acted, for all its answer said, released it before | `LiveInv` |
| `PlanRunProofs!VerdictsAreTheRuns` | the verdict on a response is what `PlanRun` decides on its answer | `JudgeInv`, one case of `Run` at a time |
| `PlanRunProofs!AssertionsFollowTheExpectation` | the status assertions of a negative step agree with `expectFailure` | `JudgeInv` |
| `RepeatedStepProofs!OneEffectUnlessTold`, `WaitsAreHonoured`, `GivesUpForAReason` | the retries of one request | `RetryInv` |
| `RepeatedStepProofs!PagesAreReadOnce`, `PassesOnItsCondition`, `LimitsAreKept` | the repetition of a step | `RepeatInv` |
| `RepeatedStepProofs!RequestsAreRetriedWithin` | a step that does both implements `StepRepeat` | `StepInv`, one case per action |
| `RepeatedStepProofs!RequestsKeepTheirPolicy`, `RetriedStepsRepeat` | and has the properties of both | `StepInv` |
| `BatchRunProofs!AttemptsAreAccounted` | entry, counts and files of a run are those of its attempts | `BatchInv` |
| `BatchRunProofs!NothingIsLeftOut` | every spec of the matrix is run or skipped; a skipped one would have sent what its duplicate sends | `MatrixInv` |
| `BatchRunProofs!MatrixIsComplete` | every plan has a spec for every choice of the groups | `CombosAreOrdered`, `InOrderLists` |
| `CleanupChainProofs!EntriesAreSettledOnce`, `ChainsGoOn` | each cleanup once under its own ID, the last created first; chains are whole | `ChainInv` |
| `ArchiveStoreProofs!AttemptsAreNotLost`, `SavedRunsStay` | no attempt is lost; a saved run keeps its archive (an action property) | `ArchiveInv` |
| `SharedStateProofs!StatusIsTheTruth` | an order's status tells what was done of it, once | `ShopInv` |
| `SharedStateProofs!ListingsAreWhole` | a client that reads every page has each order that stayed, and none twice | `ListInv` |
| `StepInputsProofs!PicksAreTheSelections` | each pick is one that its selection may make; alike selections pick one element | `SelectionInv` |
| `StepInputsProofs!InputsAreAccountedFor` | what is sent is what one record says of each input; overrides reach what they name; nothing required is left out but by `{}` or a null | `RouteInv`, `SelectionInv`, `AccountInv` |
| `StepInputsProofs!RequestsCarryWhatWasSet` | a request carries each header once, as the most specific of its seven sources sets it, and goes where the last flag, else the override, else the environment says | `RouteInv`, `RouterInv` |
| `StepOrderProofs!OrderIsValid`, `OrderIsThePlans`, `ErrorIsACycle` | the sort respects dependencies and the plan's order, and stops short only at a cycle | `SortInv` |
| `StepOrderProofs!SetupsStayUntouched` | a fuzz case runs on one whole setup that no other can have changed | `SetupInv` |
| `StepOrderProofs!ReportsAreTrue` | cases are reported once, as they ran, none is forgotten, and the skipped copies are those not sent | `SetupInv`, `ReportInv` |

**Pacer and token.** `PacerInv` says that `next` is an interval past every slot
taken and either never moved or an interval past some slot. `AsksOnlyWhenNeeded`
compares fetches that may be far apart; `TokenInv` makes it inductive by saying of
each fetched token that it is the cached one or that its renewal is over
(`OldOnesAreOver`), that the cached expiry is the arrival of the last answer plus
the lifetime less the buffer (`CachedIsDated`), and that whoever fetches holds the
mutex and is the last one to have begun (`OneFetches`).

**PlanRun.** `LastCreatedFirst` speaks of the settled entries alone, and a settled
entry comes off the stack; `OrderInv` adds that the stack is in the order of the
steps, that every settled step is above every one still on it, and that everything
on either is below the loop's position. `OutcomeInv` ties the running tally to the
results: before the run closes, the outcome is passed exactly when every result was
as asked or excused, an error exactly when an answer was lost, and `raw` is passed
exactly when none was excused (`TallyInv`); verification answers come after the
last step (`VerificationInv`). `LiveInv` follows a resource: acknowledged and not
negative means registered or settled; registered means acknowledged; acknowledged
means alive, or settled, or that some later step tried to release it; released
means not alive.

**StepVerdict.** `Run` goes through its cases one by one, with the outputs stored and
the cleanup registered on the way; `stepFailed` looks at the result all at once, and
`PlanRun` follows it. `AgreesByFields` says when a verdict is the one `PlanRun` gives,
and three lemmas show it of each case: what ends the steps (`EndingFailuresAgree`),
what is left to the checks (`ChecksVerdictsAgree`) and what strict mode ends after the
cleanup is registered (`StrictVerdictsAgree`). `JudgeInv` keeps what was found until it
is judged: the checks are those of this response (`ChecksAreRun`) and the match is of
this failure (`MatchIsTheFailures`), from which a match means a status of 400 or above
(`OnlyFailuresMatch`), which no assertion that was skipped can hold of.

**Step.** An untold step goes on only from an answer that had no effect (the
default policy names 429 alone, which no category stands for), so it has had
none whenever it is about to be sent or waits; that is the heart of `RetryInv`.
`RepeatInv` has two facts that the code relies on without saying so. Every cursor
sent is in `seen` by the time the next answer is judged (`SeenIsSent`): the first
one is put there after its request and the others before theirs. And a response
that is waited on gave a cursor that is not in `seen` (`NextIsNew`). `StepInv`
adds that the retries have left nothing behind between two requests (`Fresh`), so
that each starts as a step's only request does.

**BatchRun.** `UnderWay`: before it returns, a run is at the attempt after those
that ended, each was set aside under its number, and `archive.json` is not there.
For the matrix, `MatrixInv` follows the phases: the specs are the matrix until
duplicates are looked for, each that can be read then has the fingerprint of what it
would run, and from there on the kept and the skipped are together the matrix
(`Answered`). `CanonicalIs` is the heart of it, a group's canonical spec is in the
group and its own canonical one, so that what a skipped spec is said to duplicate
was kept. `SameFingerprint` says why nothing is lost: with equal fingerprints the
steps' values are equal after the defaults were merged in, and a run looks up the
layers again only for a `{}`. Sorting is `InOrder`, by how many elements come before
one; `InOrderLists` says that a finite set under a total order is listed whole and
once. `MatrixAssumption` is that the layers' names are distinct and that plans,
groups and the command line list such names.

**CleanupChain.** `ChainInv` is the conjunction of the types, `OwnIds` (a new ID is
none of the plan's and none given out), `Links` (a result that was not a pairing's
came directly behind its predecessor in the chain), `Falling` and `OrderInv` (what
is left is older than what is at hand and what was done), `EntryInv` (what is at
hand is the plan's, a step's pairing or the next of the last result's chain),
`SettledInv` (a registered cleanup has no result and no skip until it is taken up,
and one of either afterwards) and `GoesFurther` (a chain that stopped at a result
had a reason, or its next call is at hand). That a fresh ID exists is by the
least number that no result has.

**ArchiveStore.** `NothingIsLost` at first said that an attempt is somewhere unless
clean, an import or a failed rename accounts for it. The proof did not go through,
for a good reason: `unnameDir` checks that a directory is named and then renames
it, and in between another run may have come to that name; with four requests the
run-ID of a run that is going on then leads to another run's directory, over whose
archive it writes. TLC confirms it with four requests. `mixed` is the history of
such runs, which the property exempts, see observation 27. The invariant `Kept`
says that an attempt is in one file of one directory, was written, and stands in
`archive.json` only if it is its run's current one; `Placed` that no two names
lead to one directory; `OwnOrMixed` that a run-ID leads to that run's attempts.

**SandboxShop.** `Tells(o)` reads an order's record against the tables of
payments, shipments and returns; `Once` says that no two payments or shipments are
of one order, deleted orders included; `Typed` that IDs are below their counters,
which is why a new one is new. A `Finish…` works on whatever the order is by then:
the proof is that the transition it repeats after the latency is guarded by the
status again. `ListInv` says of a listing that its IDs ascend, that none is past the
cursor, and that every order that stayed is listed up to the cursor, and listed at all
once the listing is over. That a page goes on where the last one ended is a matter of
the order of IDs: `ComesBeforeIsLess` is that `compareIDs`, which compares texts, orders
IDs by their numbers, because a number's digits and the zeros before them keep the
order (`DigitsKeepOrder`, `PrintedKeepsOrder`), for every width and page size. `Digits`
is recursive; that there is such a function, and what it returns, is shown from the
least number for which it would fail.

**Scheduler.** `SortInv`: a step's in-degree is the number of its prerequisites
not yet placed, and `ready` is exactly the steps at zero.

**FuzzRun.** First the queue. `RunOrder` numbers the pieces by how many go ahead
of them; that these numbers are all different and leave none out (`PlacesDiffer`)
is what makes it a queue with each piece once. A case's pieces are then side by
side (`Blocks`), and stay so when a case goes again, because its row ends where the
new one is put in (`AgainKeeps`). `SetupsAreUntouched` speaks of the cases that were
sent; what makes it inductive is what is known of the case at hand and of the setup
in use. Past its first copy a case failed, or it builds, and every copy up to here
is its own and was sent, or it reuses, and every copy up to here is the live one
and was not sent (`Prepared`, `Building`). A setup in use is one whole case's, that
case is over, and no case sent on it since harmed it (`CleanServes`). And a setup
that a case was sent on is never built a second time, because its case is over
(`UsedIsOver`): without that, "the cases sent on it" would mix two setups of one
name. After an abort nothing more is sent, and the last two need not hold.
`ReportInv` rests on `SetupInv`. A target's own step is ahead of all its cases
(`OwnFirst`), so that whether it got through is settled before any copy is counted;
the count of skipped copies is that of the copies passed and not sent (`Counts`),
which a rebuild lowers by exactly the row it puts back; and a case that was passed
and had to run is reported or goes again (`NoneForgotten`).

**StepInputs.** `PicksAreTheirs` compares any two decisions; `SelectionInv` makes it
one fact about the cache: every decision is its selection's own (`Own`) and its key
leads to its pick, and a named selection that was resolved was decided
(`NamedDecided`). `SelectionsPickTheirs` says that `applySelection` returns an element
that the strategy may pick, for every array: some element is the best
(`SomeAreBest`) and each rank up to the count is an element's (`NthIsOf`). The
accounting has two sides. What overrides say: `RouteInv` follows the queue of
overrides into the router, whose values are at every point those of the overrides
registered so far, in order (`Carries`), and `ValuesAreTheOverrides` says that the two
loops of `ResolveValueOverride`, turn by turn, come to what `OverrideValue` reads off
the files. That an environment lists its overrides when its file does is
`FilesAreListed`: the fold over the includes and the search for the parents are each
shown to exist, and to return a list, from the least number of includes, or of names
not yet visited, for which they would not. What is sent: `AccountInv` says that the first records are the inputs' in
order and the others of inputs that only an override sets (`RecordsInOrder`), that a
record says what its input is (`RecordsAreTrue`) or what its override says
(`OverridesAreTrue`), and of what is missing that it may be (`LeftOutRightly`), for
which a named selection that came to nothing must be one that no required input reads
(`NoneReadsNothing`). An input may be overridden that an earlier override record is
not of: `RecordIsOverridden` is that there is still one record of each.
Of the headers, setting one map over another gives, name by name, what the first map
says if it says anything and else the second (`HeadersAreSet`, with `First`), so a
route is read as layers: the default one's are the environment's, the plan's, the
overlays' and the credential's (`DefaultCarries`), for whichever of an environment's
names that differ in case alone is set last; an override's replace them, and it
inherits no credential beside one of its own (`OverrideCarries`). The layers are
those `HeaderSources` lists (`SourcesAre`), and the first to name a header says it
(`MostSpecificIs`). Which route a node takes is told from the order the router was
filled in: after `n` overrides it is the last that names the node, else the last of
its globs (`RoutedTo`), and after `m` flags the last of those that reach it
(`FlaggedTo`), a flag for a name standing on the route that the name then had;
`RouterInv` follows both through the loading.

### What stays with TLC, and why

- Liveness (`EveryCallEnds`, `RunEnds`, `RepeatEnds`) and the fairness part of
  `KeepsTheLedger`: out of the prover's reach.
- `ReplaySendsTheSame` compares two whole runs, and holds only where no map's order
  decides: with an environment whose headers differ in case alone the code itself may
  send either (`Winners`), which the run's files leave out.
- `SettingsComeFromTheNearest`, the other half of `RequestsSayWhatWasSet`, and
  `TextsReadAsWritten`: what the recursion over files and parents, and over the blocks
  of a text, computes.
- `PlanLoad`, `Compose`, `Prompt`, and of `StepChecks` `ValuesAreOne` and
  `TextsKeepTheirMeaning`: their properties are about what operators compute of small
  documents, several of them recursive (the operators of `SequencesExt` they are
  written with among them).

## 5. Observations

Places where the code surprised while it was modelled. The model follows the
code; a property says so where it exempts one of these. Only `MissedInputs` is
listed as a finding, because a run shows it.

**Scheduling and reads.** (1) `detectRequiresCycles` may miss a cycle that its
search reaches through a cycle breaker first, which depends on a map's order
(`docs/user/graphs.md:786`); validation is then not deterministic, and
`BackwardChain` fails later with "unresolvable cycle". (2) A node that requires and
satisfies a token may be its own satisfier, and the "minimal subgraph" of
`chain.go:78` is not minimal. `outputSources` may read an isolated mutation's copy,
although its comment says the happy path alone (`engine.go:1017`,
`instantiate.go:182`). Mutations of one name on two isolated steps that share a
prerequisite are refused. A layer or value for an unknown node can reach a nil map.

**Inputs and checks.** (3) A `json.Number` from a template's `fields` is not
coerced by `predicate.coerceNumeric`, so that a filter like `price < 1000` errors
(`selection.go:114`, `docs/user/value-flow.md:179`). (4) `RewriteAssertionRefs`
rewrites only values that are strings (`predicate_exprs.go:87`). (5)
`compareString` is not transitive over decimal and other texts; `null` in a
predicate is an unknown field; `!a in xs` parses as `(!a) in xs`. (6)
`expectFailure` by a gRPC name matches a body error that was given that status by
code, while an assertion of the same name does not. (7) An extraction error on the
unexpected success of a negative step is reported as an infrastructure error. (8)
An expanded filter whose value holds both kinds of quotes no longer parses, and a
`json.Number` with an exponent is read in other tokens. (9) `addDecimalText` says
it reports false when out of range (`expr.go:546`), but its sum wraps
(`expr.go:557`). (10) `ruleTriggered` compares the raw text with `{}`, so `{ }`
triggers. A null output of a plain `from` silently leaves out a required input. An
override wins after the resolution, so that inputs that referred to it used the
value before, and an input that cannot be resolved fails even when overridden.
`optional` excuses an output that is not there (`resolve.go:471`, `:490`), but neither an
earlier step's input that is not there nor a field that its array's element lacks.
Blocks in templates do nest: conditional ones may (`docs/user/templates.md:197`), but
"a block inside another is not repeated for each element of the outer one" (`:270`),
while the renderer repeats whatever stands in an iteration, other blocks included
(`template.go:729`). `Template` follows the renderer; `TextsReadAsWritten` leaves out
the texts with a block in an iteration (`BlockInEach`), of which code and document
disagree.

**Environments.** `mergePartials` loses `extends` when a file includes another
(`multi_env.go:160`, `:262`; `docs/user/environments.md:228`), and appends
overrides where its comment says it prepends. Headers of a parent and a child that
differ only in case both survive, and which is sent is a map's choice
(`environment.go:403`); `Routes` has it as `Winners`.

**Composition.** (11) `buildOutputMap` wires an input to the last producer of the
list, which may be the consuming step or a later one (`compose.go:110`). (12) With
two addons at one node, `$after` in the second is the first addon's last step. (13)
`depResolver` reads a dependency whose ID equals a node's name as all steps on that
node, which can make cycles (`postprocess.go:124`). (14) `prefixStepRefs` does not
rename `{{step.output}}` in expressions (`compose.go:131`). (15) `stepPrefix` takes
any ID that starts with "inc" for an addon's. (16) An addon without steps panics.
(17) The compatibility check ignores the order of steps, and leaves out an addon none
of whose nodes to follow is in the base template (`workflow_compat.go:247`), though
another addon may bring that node in and the addon is then spliced
(`compose.go:541`): an input that nobody feeds is not warned of (compare
`docs/user/validation.md:92`), and only the plan's own validation refuses it.
`RecipesAreHonoured` exempts such steps by name (`IsUnchecked`), and demands that the
marker of an unfed input is never sent. (18) A recipe's choice of
an unknown slot is accepted. (19) After a wrong-plan reselection the layers of the
command line are not merged again (`interpret.go:170`). (20) A saved recipe keeps
values that the prompt refused, which `RecipesReplay` exempts by `kept`. (21) A
retried answer that signals the wrong plan reselects after values were applied.

**Fuzzing.** (22) A bound with a fraction gives an at-min case of 0 outside of it
(`generate.go` `numberCases`). (23) A pool value that breaks the length limits is a
positive case. (24) The batch's counters may print out of order
(`run_batch_cmd.go:743`). (25) `ExpandFuzzCases` looks at dependencies in the plan's
order, so that a read-only step listed ahead of a copied one it depends on is used
as it is. (26) `fileSafe` can give two cases one file.

**Runs and batches.** A negative step that succeeds ends the run before its
pairing is pushed (`engine.go:533`, `docs/user/graphs.md:205`). An interrupt in a
retry's wait leaves a count with the retry that was not sent (`retry.go:188`,
`result.go:132`). With `--retries`, a plan that an interrupt kept from starting is
recorded as an error (`run_batch_cmd.go:838`). A node in the chain of a plan-level
cleanup step runs whatever its `runOn` (`engine.go:770`). Duplicates are found
before the run, yet layers also give verification steps their defaults and replace
`{}` at run time (`instantiate.go:215`, `resolve.go:340`), so that a skipped run may
have sent something else. A token is fetched once per run (`run_shared.go:1122`),
so a long run may outlive it. A token endpoint that takes a request and never answers
holds up every run that uses its provider, without a timeout
(`auth_provider.go:51`, `auth.go:125`).

**Archive.** (27) `renameDir` and `unnameDir` check a name and then rename it; the
directory that has the name may be another by then, and a run that is going on may
get another run's directory under its ID, as said above. An import that found a
name free merges into what came to it since (`transfer.go:121`). An interrupt in a
plan's retry delay leaves `attempt-01.json` alone. A backfill can bring a renamed
directory back with a summary alone, which blocks the unsave. A clean that opened a
directory before it was saved goes on deleting.

## 6. What is not modelled, and why

- The generation of fuzz cases and their findings; what `--seed` draws; a case's
  patch of a built request; the cleanups that cases and copies register.
- Types and spelling rules of validation, the parsing of documents, redaction,
  printing, progress: text to text. OpenAPI checks are a verdict in the models.
- How a template's values are escaped and joined; transforms and the executors.
- Repeated decisions of `fromSelection`; retry counts summed over a repeated step.
- The texts sent to a model, selections it changes, and the clients of the services.
- Batches' directories, search and export in the archive; the read-only handlers.
- The MCP tools and other commands, each one call of what is modelled.
- The exit code's and a refund's arithmetic is in the models without a property.
- The file system's failures: a rename that fails is a warning in the code.
- Two requests of one run at once: a run sends its requests one after another.

## 7. Plan

Done, the most important first: the core (`Pacer`, `PlanRun` with
`ResourceLedger`, the step, `BatchRun`, `CleanupChain`, `FuzzRun`), the load of a
plan and its composition, inputs, routes, templates and checks, the archive and the
shop; then the proofs of section 4.

Next proofs: what the blocks of a template render to.

Next modules: the generation of fuzz cases (`fuzz/generate.go`) with the property
that a negative case violates what it says; the OpenAPI import; the connection
pool's sharing and closing; the batch's progress display.
