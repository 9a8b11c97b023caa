------------------------------- MODULE PlanRun -------------------------------
(***************************************************************************)
(* Engine.Run (engine/engine.go) for a plan that runs no fuzz cases: the   *)
(* main loop over the sorted steps, the verification steps, the            *)
(* --stop-after checkpoint, an interrupt, and the cleanup phase.           *)
(*                                                                         *)
(* A step's node may create a resource, which the node's cleanup pairing   *)
(* releases, or may release a resource that an earlier step created.  The  *)
(* API under test is the set of the resources that are alive.  Each        *)
(* request is two actions, so that an interrupt can fall between them.     *)
(* What a step does inside executeStepWithTracking is in StepRetry, what   *)
(* follows one cleanup entry is in CleanupChain.                           *)
(***************************************************************************)
EXTENDS Naturals, Sequences

CONSTANTS
  N,       \* the most main steps a plan has, which TopologicalSort put in order
  Plans    \* the plans considered, with the engine's options

Step == 1..N
RunOn == {"always", "success", "failure"}
Outcome == {"passed", "failed", "error", "aborted", "stopped"}

(* steps: the number of main steps.  creates: the steps on a node with a
   cleanup pairing.  releases[s]: the step whose resource s releases, 0 for
   none: s is on the pairing's node or on one of its releasedBy nodes, and sends
   the inputs the cleanup would send.  conditional: the pairings with a when
   condition.  listed[s]: the runOn of each execution.cleanup step on the
   pairing's node.  extra: the runOn of the other cleanup steps.  negative: the
   steps with expectFailure.  known[s]: the state of the knownIssue that governs
   s.  checks: the number of verification steps.  goOn:
   ContinueOnAssertionFailure.  strict: strict OAS validation. *)
PlanSet ==
  [steps: 0..N, creates: SUBSET Step, releases: [Step -> 0..N], conditional: SUBSET Step,
   listed: [Step -> SUBSET RunOn], extra: Seq(RunOn), negative: SUBSET Step,
   known: [Step -> {"none", "active", "expired"}], stopAfter: 0..N,
   checks: Nat, goOn: BOOLEAN, strict: BOOLEAN]

ASSUME PlanAssumption ==
  /\ N \in Nat
  /\ Plans \subseteq PlanSet

(* What a step came back with.  got: a status below 400 ("ok"), one whose body
   reports an error ("body"), a status of 400 or above ("status"), or no
   response the engine can use ("error").  mayAct: it leaves open whether the API
   acted, as a 5xx does, also one that a retry followed, and a lost answer.
   match: the failure is the one expectFailure names.  assertions and oas: what
   the checks found. *)
Answer == [got: {"ok", "body", "status", "error"}, mayAct: BOOLEAN, match: BOOLEAN,
           assertions: BOOLEAN, oas: BOOLEAN]

VARIABLES
  plan,
  pc,         \* "loop", "inFlight", "verify", "checking", "cleanup", "done"
  pos,        \* the main step the loop is at
  ctxDone,    \* the run's context was cancelled
  outcome,
  raw,        \* knownIssueLog.raw
  end,        \* how the plan's own steps ended before the last one
  results,    \* the main steps' results, in order
  verified,   \* the verification steps' results
  stack,      \* the cleanup stack: the steps that registered a cleanup
  extras,     \* the other plan-level cleanup steps still to run
  gate,       \* the outcome cleanup is gated on
  settled,    \* history: what became of each registered cleanup, in order
  live        \* the API: the steps whose resource is alive

engineVars == <<outcome, raw, end, results, verified, stack>>
cleanupVars == <<extras, gate, settled>>
vars == <<plan, pc, pos, ctxDone, engineVars, cleanupVars, live>>

-----------------------------------------------------------------------------
(* Mutants of StepFailed: a strict OpenAPI violation is not a failure. *)
StepFailedNoOAS(s, a) ==
  IF s \in plan.negative THEN ~a.match \/ ~a.assertions
  ELSE a.got \in {"body", "status"} \/ ~a.assertions

(* The failures a knownIssue can cover; a transport error is not one. *)
StepFailed(s, a) ==
  IF s \in plan.negative THEN ~a.match \/ ~a.assertions
  ELSE \/ a.got \in {"body", "status"}
       \/ plan.strict /\ ~a.oas
       \/ ~a.assertions

(* Mutant of Suppressed: an entry past its date still covers. *)
SuppressedExpired(s, a) ==
  a.got # "error" /\ StepFailed(s, a) /\ plan.known[s] # "none"

Suppressed(s, a) ==
  a.got # "error" /\ StepFailed(s, a) /\ plan.known[s] = "active"

Failing(s, a) == a.got = "error" \/ StepFailed(s, a)
Uncovered(s, a) == Failing(s, a) /\ ~Suppressed(s, a)

(* Nothing follows a step that brought back nothing to build on. *)
NothingToBuildOn(s, a) ==
  IF s \in plan.negative THEN ~a.match ELSE a.got # "ok"

(* Mutant of Registers: a failed assertion keeps the pairing off the stack. *)
RegistersIfPassed(s, a) ==
  s \in plan.creates \ plan.negative /\ a.got = "ok" /\ a.assertions

(* The pairing goes on the stack before the checks, because the API may have
   created the resource whatever they say. *)
Registers(s, a) ==
  s \in plan.creates \ plan.negative /\ a.got = "ok"

(* Mutant of EndOf: the checkpoint is looked at even after a failure that ends
   the run. *)
EndOfStopsFirst(s, a) ==
  IF s = plan.stopAfter THEN "checkpoint"
  ELSE IF a.got = "error" \/ NothingToBuildOn(s, a) THEN "error"
  ELSE "none"

EndOf(s, a) ==
  IF a.got = "error" \/ NothingToBuildOn(s, a)
  THEN IF Suppressed(s, a) THEN "covered" ELSE "error"
  ELSE IF Uncovered(s, a) /\ (~plan.goOn \/ (plan.strict /\ ~a.oas /\ s \notin plan.negative))
  THEN "error"
  ELSE IF s = plan.stopAfter THEN "checkpoint" ELSE "none"

(* cleanupRunOnMatches. *)
RunOnMatches(runOn, o) ==
  \/ runOn = "always"
  \/ runOn = "success" /\ o = "passed"
  \/ runOn = "failure" /\ o # "passed"

(* A pairing the plan does not list always runs; a listed one runs when any
   of its listings matches the outcome. *)
Selected(s) ==
  plan.listed[s] = {} \/ \E r \in plan.listed[s] : RunOnMatches(r, gate)

(* stepReleased: what a releasing step's result has to be. *)
DidItsJob(r) == r.answer.got = "ok" /\ r.step \notin plan.negative

(* Mutant of Released: a release by a main step is not noticed. *)
ReleasedByNone(s) == FALSE

(* releasingStep: a later main step released the resource of s. *)
Released(s) ==
  \E i, j \in 1..Len(results) :
    /\ i < j
    /\ results[i].step = s
    /\ plan.releases[results[j].step] = s
    /\ DidItsJob(results[j])

-----------------------------------------------------------------------------
Init ==
  /\ plan \in Plans
  /\ pc = "loop"
  /\ pos = 1
  /\ ctxDone = FALSE
  /\ outcome = "passed"
  /\ raw = "passed"
  /\ end = "none"
  /\ results = <<>>
  /\ verified = <<>>
  /\ stack = <<>>
  /\ extras = {}
  /\ gate = "passed"
  /\ settled = <<>>
  /\ live = {}

(* Ctrl+C or SIGTERM, at any moment. *)
Interrupt ==
  /\ pc # "done"
  /\ ~ctxDone
  /\ ctxDone' = TRUE
  /\ UNCHANGED <<plan, pc, pos, engineVars, cleanupVars, live>>

(* Mutant of Gating: cleanup is gated on what the run reports. *)
GatingReported(o) == o

(* knownIssueLog.gating: only a passed report can hide a covered failure. *)
Gating(o) == IF o = "passed" THEN raw ELSE o

(* The head of runCleanup, gated on the outcome o. *)
StartCleanup(o) ==
  /\ pc' = "cleanup"
  /\ gate' = o
  /\ extras' = {i \in 1..Len(plan.extra) : RunOnMatches(plan.extra[i], o)}
  /\ UNCHANGED settled

(* abortedResult: its cleanup is gated on the outcome aborted. *)
Abort ==
  /\ outcome' = "aborted"
  /\ StartCleanup("aborted")

(* The loop looks at the context before each step. *)
SendStep ==
  /\ pc = "loop" /\ pos <= plan.steps /\ end = "none"
  /\ ~ctxDone
  /\ pc' = "inFlight"
  /\ UNCHANGED <<plan, pos, ctxDone, engineVars, cleanupVars, live>>

AbortBeforeStep ==
  /\ pc = "loop" /\ pos <= plan.steps /\ end = "none"
  /\ ctxDone
  /\ Abort
  /\ UNCHANGED <<plan, pos, ctxDone, raw, end, results, verified, stack, live>>

(* The answers a step can get.  What says nothing new is fixed. *)
Answers(s) ==
  {a \in Answer :
    /\ a.got = "ok" => ~a.mayAct
    /\ a.got = "error" => a.mayAct
    /\ a.match => s \in plan.negative /\ a.got \in {"body", "status"}
    /\ s \in plan.negative => (a.match \/ a.assertions) /\ a.oas
    /\ s \notin plan.negative => a.got = "ok" \/ (a.assertions /\ a.oas)}

(* The API creates or releases what a request that went through asks for.  One
   that it refused changes nothing; any other may have gone through as well. *)
Effect(s) ==
  (live \ {plan.releases[s]}) \cup (IF s \in plan.creates THEN {s} ELSE {})

ApiAnswers(s, a) ==
  \/ a.got = "ok" /\ live' = Effect(s)
  \/ a.got # "ok" /\ live' = live
  \/ a.mayAct /\ live' = Effect(s)

(* A step that failed because the run was interrupted is an abort. *)
Interrupted(got) == got = "error" /\ ctxDone

AbortInStep(s, a) ==
  /\ Interrupted(a.got)
  /\ Abort
  /\ UNCHANGED <<pos, raw, end, stack>>

Settle(s, a) ==
  /\ ~Interrupted(a.got)
  /\ outcome' = IF a.got = "error" THEN "error"
                ELSE IF Uncovered(s, a) THEN "failed" ELSE outcome
  /\ raw' = IF Suppressed(s, a) THEN "failed" ELSE raw
  /\ end' = EndOf(s, a)
  /\ stack' = IF Registers(s, a) THEN Append(stack, s) ELSE stack
  /\ pos' = pos + 1
  /\ pc' = "loop"
  /\ UNCHANGED cleanupVars

StepAnswered ==
  /\ pc = "inFlight"
  /\ \E a \in Answers(pos) :
       /\ ApiAnswers(pos, a)
       /\ results' = Append(results, [step |-> pos, answer |-> a])
       /\ AbortInStep(pos, a) \/ Settle(pos, a)
  /\ UNCHANGED <<plan, ctxDone, verified>>

LoopOver == pc = "loop" /\ (pos > plan.steps \/ end # "none")

(* Mutant of StopAtCheckpoint: the checkpoint cleans up. *)
StopAtCheckpointCleans ==
  /\ LoopOver
  /\ end = "checkpoint"
  /\ outcome' = "stopped"
  /\ StartCleanup("stopped")
  /\ UNCHANGED <<plan, pos, ctxDone, raw, end, results, verified, stack, live>>

(* checkpointResult: no cleanup, and a failure is not lost. *)
StopAtCheckpoint ==
  /\ LoopOver
  /\ end = "checkpoint"
  /\ outcome' = IF outcome = "failed" THEN "failed" ELSE "stopped"
  /\ pc' = "done"
  /\ UNCHANGED <<plan, pos, ctxDone, raw, end, results, verified, stack, cleanupVars, live>>

(* A plan that ended early runs no verification step. *)
EndRun ==
  /\ LoopOver
  /\ end \in {"error", "covered"} \/ (end = "none" /\ plan.checks = 0)
  /\ StartCleanup(Gating(outcome))
  /\ UNCHANGED <<plan, pos, ctxDone, engineVars, live>>

StartVerification ==
  /\ LoopOver
  /\ end = "none" /\ plan.checks > 0
  /\ pc' = "verify"
  /\ UNCHANGED <<plan, pos, ctxDone, engineVars, cleanupVars, live>>

(* A request under a cancelled context never leaves, and its error aborts the
   run. *)
SendCheck ==
  /\ pc = "verify"
  /\ IF ctxDone
     THEN Abort /\ verified' = Append(verified, "error") /\ UNCHANGED <<raw, end, results, stack>>
     ELSE pc' = "checking" /\ UNCHANGED <<engineVars, cleanupVars>>
  /\ UNCHANGED <<plan, pos, ctxDone, live>>

VerificationOver(v) ==
  \/ v = "error"
  \/ v = "fail" /\ ~plan.goOn
  \/ Len(verified) + 1 = plan.checks

(* Mutant of VerificationOutcome: a pass after a failure wins. *)
VerificationOutcomeLast(v) ==
  IF v = "error" THEN "error" ELSE IF v = "fail" THEN "failed" ELSE outcome

(* runVerification's outcome, which replaces the run's unless it passed. *)
VerificationOutcome(v) ==
  IF v = "error" THEN "error"
  ELSE IF v = "fail" \/ \E i \in 1..Len(verified) : verified[i] = "fail" THEN "failed"
  ELSE outcome

CheckAnswered ==
  /\ pc = "checking"
  /\ \E v \in {"pass", "fail", "error"} :
       /\ verified' = Append(verified, v)
       /\ \/ Interrupted(v) /\ Abort
          \/ /\ ~Interrupted(v) /\ VerificationOver(v)
             /\ outcome' = VerificationOutcome(v)
             /\ StartCleanup(Gating(VerificationOutcome(v)))
          \/ /\ ~Interrupted(v) /\ ~VerificationOver(v)
             /\ pc' = "verify"
             /\ UNCHANGED <<outcome, cleanupVars>>
  /\ UNCHANGED <<plan, pos, ctxDone, raw, end, results, stack, live>>

-----------------------------------------------------------------------------
(* Mutant of Without: an entry is never over. *)
WithoutNone(i) == extras

Without(i) == extras \ {i}

(* Plan-level cleanup steps of other nodes go first, in the plan's order. *)
RunExtra ==
  /\ pc = "cleanup"
  /\ \E i \in extras : (\A j \in extras : i <= j) /\ extras' = Without(i)
  /\ UNCHANGED <<plan, pc, pos, ctxDone, engineVars, gate, settled, live>>

(* Mutants of Top and Rest: the oldest entry is next; the wrong end goes. *)
TopOldest == stack[1]
RestNewest == Tail(stack)

Top == stack[Len(stack)]
Rest == SubSeq(stack, 1, Len(stack) - 1)

Pop(how) ==
  /\ pc = "cleanup" /\ extras = {} /\ stack # <<>>
  /\ stack' = Rest
  /\ settled' = Append(settled, [step |-> Top, how |-> how])
  /\ UNCHANGED <<plan, pc, pos, ctxDone, outcome, raw, end, results, verified, extras, gate>>

(* CleanupStack.Filter drops the entry before the first one runs, which no
   other entry can tell from dropping it when it is reached. *)
DropUnselected ==
  /\ Pop("unselected")
  /\ ~Selected(Top)
  /\ UNCHANGED live

SkipReleased ==
  /\ Pop("released")
  /\ Selected(Top) /\ Released(Top)
  /\ UNCHANGED live

SkipCondition ==
  /\ Pop("condition")
  /\ Selected(Top) /\ ~Released(Top) /\ Top \in plan.conditional
  /\ UNCHANGED live

(* A condition that holds or can't be evaluated leaves the cleanup to run. *)
CleanUp(how) ==
  /\ Pop(how)
  /\ Selected(Top) /\ ~Released(Top)
  /\ \/ how = "cleaned" /\ live' = live \ {Top}
     \/ how = "failed" /\ live' \in {live, live \ {Top}}

CleanupDone ==
  /\ pc = "cleanup" /\ extras = {} /\ stack = <<>>
  /\ pc' = "done"
  /\ UNCHANGED <<plan, pos, ctxDone, engineVars, cleanupVars, live>>

(* The result has been returned. *)
Terminated == pc = "done" /\ UNCHANGED vars

Progress ==
  \/ SendStep \/ AbortBeforeStep \/ StepAnswered
  \/ StopAtCheckpoint \/ EndRun \/ StartVerification \/ SendCheck \/ CheckAnswered
  \/ RunExtra \/ DropUnselected \/ SkipReleased \/ SkipCondition
  \/ (\E how \in {"cleaned", "failed"} : CleanUp(how))
  \/ CleanupDone

Next == Interrupt \/ Progress \/ Terminated

Spec == Init /\ [][Next]_vars

(* Every request ends, in an answer or in its timeout, and the loop goes on. *)
FairSpec == Spec /\ WF_vars(Progress)

-----------------------------------------------------------------------------
Pc == {"loop", "inFlight", "verify", "checking", "cleanup", "done"}
How == {"unselected", "released", "condition", "cleaned", "failed"}
Sent == {"cleaned", "failed"}

(* The variables hold what their names say. *)
TypeOK ==
  /\ plan \in Plans
  /\ pc \in Pc
  /\ pos \in 1..N + 1
  /\ ctxDone \in BOOLEAN
  /\ outcome \in Outcome
  /\ raw \in {"passed", "failed"}
  /\ end \in {"none", "error", "covered", "checkpoint"}
  /\ results \in Seq([step : Step, answer : Answer])
  /\ verified \in Seq({"pass", "fail", "error"})
  /\ stack \in Seq(Step)
  /\ extras \subseteq Nat
  /\ gate \in Outcome
  /\ settled \in Seq([step : Step, how : How])
  /\ live \subseteq Step

Result == {results[i] : i \in 1..Len(results)}
Over == pc = "done"
AtCheckpoint == end = "checkpoint"

(* What the plan's author asked of a step, read off its answer alone. *)
AsAsked(r) ==
  IF r.step \in plan.negative
  THEN r.answer.match /\ r.answer.assertions
  ELSE /\ r.answer.got = "ok"
       /\ r.answer.assertions
       /\ plan.strict => r.answer.oas

(* What a knownIssue in force excuses: anything but a lost answer. *)
Excused(r) == plan.known[r.step] = "active" /\ r.answer.got # "error"

AllVerified == \A i \in 1..Len(verified) : verified[i] = "pass"

(* The step's own answer said that the resource was created. *)
Acknowledged(s) ==
  \E r \in Result : r.step = s /\ r.answer.got = "ok" /\ s \in plan.creates

(* No resource the API acknowledged is left alive by a run that cleans up,
   unless the plan's runOn or the pairing's condition kept it, its cleanup was
   sent and failed, or the step was meant to fail; and none is gone, but by a
   main step, from a run that stops at its checkpoint for a harness to go on
   with, which it does only on that step and when nothing ended it there
   (engine.go Run, the push before the checks, runCleanup, checkpointResult). *)
NoLeak ==
  /\ Over /\ ~AtCheckpoint =>
       \A s \in live \ plan.negative :
         Acknowledged(s) =>
           \E i \in 1..Len(settled) :
             settled[i].step = s /\ settled[i].how \in {"failed", "unselected", "condition"}
  /\ Over /\ AtCheckpoint =>
       LET last == results[Len(results)]
       IN  /\ last.step = plan.stopAfter
           /\ last.answer.got = "ok" \/ last.answer.match
           /\ settled = <<>> /\ verified = <<>>
           /\ \A s \in Step : Acknowledged(s) =>
                \/ s \in live
                \/ \E r \in Result : /\ plan.releases[r.step] = s
                                     /\ r.answer.got = "ok" \/ r.answer.mayAct

(* A cleanup is sent only for a resource that is alive, as far as the answers
   tell: one that is gone was released by a step whose answer left open whether
   the API acted, or that was meant to fail (cleanup_skip.go releasingStep). *)
CleanupIsNeeded ==
  [][settled' # settled /\ settled'[Len(settled')].how \in Sent =>
       LET s == settled'[Len(settled')].step
       IN  \/ s \in live
           \/ \E r \in Result : /\ plan.releases[r.step] = s
                                /\ r.answer.mayAct \/ r.step \in plan.negative]_vars

(* Resources are released in the reverse of the order they were created in,
   each at most once, and each after its own step was answered (cleanup.go
   runCleanupStack). *)
LastCreatedFirst ==
  \A i \in 1..Len(settled) :
    /\ settled[i].step < pos
    /\ \A j \in 1..i - 1 : settled[j].step > settled[i].step

Clean == (\A r \in Result : AsAsked(r) \/ Excused(r)) /\ AllVerified
Whole ==
  \/ end = "covered"
  \/ Len(results) = plan.steps /\ Len(verified) = plan.checks
Lost ==
  \/ \E r \in Result : r.answer.got = "error"
  \/ \E i \in 1..Len(verified) : verified[i] = "error"

Honest ==
  /\ outcome = "passed" => Clean /\ Whole
  /\ Clean /\ Whole /\ ~AtCheckpoint => outcome = "passed"
  /\ outcome = "error" <=> Lost /\ outcome # "aborted"
  /\ outcome = "failed" => ~Clean
  /\ outcome = "aborted" => ctxDone
  /\ outcome = "stopped" => AtCheckpoint /\ Clean

(* The reported outcome says what happened: a run passes if and only if it did
   everything the plan asked, a failure a knownIssue excuses aside; an error is
   a lost answer; a failure is an answer that was not as asked; an abort was
   asked for (engine.go Run, runVerification, abortedResult, checkpointResult). *)
OutcomeIsHonest == Over => Honest

(* What cleanup is gated on is what really happened: a cleanup step with runOn
   success never runs after a failure, an excused one included, and one with
   runOn failure never runs after a run that did all it was asked
   (known_issue.go gating, engine.go endRun). *)
CleanupGateIsTruth ==
  pc = "cleanup" =>
    LET asAsked == (\A r \in Result : AsAsked(r)) /\ AllVerified
    IN  /\ gate = "passed" => asAsked
        /\ asAsked /\ gate # "passed" => ctxDone

(* Every run ends, whatever is interrupted, lost or refused. *)
RunEnds == <>Over

(* The ledger of what the run registered, settled or kept. *)
Ledger == INSTANCE ResourceLedger WITH
  Resource <- Step,
  phase <- IF pc = "cleanup" THEN "closing"
           ELSE IF ~Over THEN "open"
           ELSE IF AtCheckpoint /\ settled = <<>> THEN "kept" ELSE "closed",
  owed <- stack,
  paid <- [i \in 1..Len(settled) |-> settled[i].step]

(* The run keeps the ledger: what a step created is settled once, the last
   created first, and nothing is settled that was not registered (engine.go Run,
   endRun, checkpointResult; cleanup.go runCleanupStack). *)
KeepsTheLedger == Ledger!Spec
=============================================================================
