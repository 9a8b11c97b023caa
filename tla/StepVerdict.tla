----------------------------- MODULE StepVerdict -----------------------------
(***************************************************************************)
(* How executeStepWith and Engine.Run (engine/engine.go) judge one         *)
(* response: the reading of its body, runStepAssertions, expectFailure,    *)
(* and the chain of cases by which Run decides on the result.              *)
(*                                                                         *)
(* What is read off the body is a parameter here, given by StepChecks: the *)
(* judgement is the same whatever it is.  PlanRun abstracts all of this to *)
(* an Answer; AsAnswer is the answer a result stands for.  Fuzz cases are  *)
(* in FuzzRun, retries in StepRetry.                                       *)
(***************************************************************************)
EXTENDS Integers, Sequences

CONSTANTS
  Cases,                \* the steps, with the response each gets
  BodyErrorOf(_, _),    \* the error a step's rules find in a body: [found, status]
  OutputsOf(_, _),      \* what a step's rules extract: [failed, outputs]
  BodyCheck(_, _, _, _) \* whether an assertion on the body or the outputs holds

VARIABLES
  step,       \* the plan's step, its node's rules and its template's
  response,   \* [status, grpc: the status name or "", headers, body]
  schema,     \* the OpenAPI validation: its response's part
  stage,      \* "answered", "read", "checked", "matched", "judged"
  bodyError,  \* result.ResponseBodyError
  outputs,    \* result.Outputs
  failure,    \* result.Error is set
  checks,     \* the result of each assertion, by its place in the step
  matched,    \* result.ExpectFailure.Passed
  verdict     \* what Run made of it

judgeVars ==
  <<step, response, schema, stage, bodyError, outputs, failure, checks, matched, verdict>>

-----------------------------------------------------------------------------
(* grpcstatus.table. *)
GrpcHTTP ==
  [OK |-> 200, CANCELLED |-> 499, UNKNOWN |-> 500, INVALID_ARGUMENT |-> 400,
   DEADLINE_EXCEEDED |-> 504, NOT_FOUND |-> 404, ALREADY_EXISTS |-> 409,
   PERMISSION_DENIED |-> 403, RESOURCE_EXHAUSTED |-> 429, FAILED_PRECONDITION |-> 400,
   ABORTED |-> 409, OUT_OF_RANGE |-> 400, UNIMPLEMENTED |-> 501, INTERNAL |-> 500,
   UNAVAILABLE |-> 503, DATA_LOSS |-> 500, UNAUTHENTICATED |-> 401]

(* The forms a status is written in: httpstatus.Code, httpstatus.Class and
   grpcstatus.CodeByName. *)
Code(n) == <<"code", n>>
Class(n) == <<"class", n>>
GrpcName(name) == <<"name", name>>

(* IsFailure: all that the plan's validation lets a step expect. *)
ExpectsFailure(e) ==
  \/ e = Code(e[2]) /\ e[2] \in Nat /\ e[2] >= 400
  \/ e = Class(e[2]) /\ e[2] \in 4..5
  \/ e = GrpcName(e[2]) /\ e[2] \in DOMAIN GrpcHTTP /\ GrpcHTTP[e[2]] >= 400

(* A response by gRPC has the status its name stands for (GrpcExecutor). *)
ASSUME CasesAssumption ==
  \A c \in Cases :
    /\ \A i \in 1..Len(c.step.expects) : ExpectsFailure(c.step.expects[i])
    /\ \A i \in 1..Len(c.step.assertions) :
         LET a == c.step.assertions[i]
         IN a.type = "status" /\ a.expect[1] = "name" => a.expect[2] \in DOMAIN GrpcHTTP
    /\ c.response.status \in Nat
    /\ c.response.grpc # "" =>
         /\ c.response.grpc \in DOMAIN GrpcHTTP
         /\ c.response.status = GrpcHTTP[c.response.grpc]
    /\ BodyErrorOf(c.step, c.response.body).status \in Nat

ContradictsFailure(e) ==
  \/ e[1] = "code" /\ e[2] < 400
  \/ e[1] = "class" /\ e[2] < 4
  \/ e[1] = "name" /\ GrpcHTTP[e[2]] < 400

(* ExpectedStatus.Matches: by name only when both sides have one. *)
StatusMatches(e, status, grpc) ==
  CASE e[1] = "class" -> status \div 100 = e[2]
    [] e[1] = "name" /\ grpc # "" -> e[2] = grpc
    [] e[1] = "name" /\ grpc = "" -> GrpcHTTP[e[2]] = status
    [] e[1] = "code" -> e[2] = status

(* checkStatus: a name never holds for a response without one. *)
CheckStatus(e, status, grpc) ==
  CASE e[1] = "name" -> grpc = e[2]
    [] e[1] = "class" -> status \div 100 = e[2]
    [] e[1] = "code" -> status = e[2]
    [] OTHER -> FALSE

NoBodyError == [found |-> FALSE, status |-> 0]
NoOutputMap == <<"noOutputs">>

-----------------------------------------------------------------------------
JudgeInit ==
  /\ \E c \in Cases : step = c.step /\ response = c.response /\ schema = c.schema
  /\ stage = "answered"
  /\ bodyError = NoBodyError
  /\ outputs = NoOutputMap
  /\ failure = FALSE
  /\ checks = <<>>
  /\ matched = FALSE
  /\ verdict = <<>>

Negative == step.expects # <<>>

(* A status of 400 or above brings back no outputs. *)
ReadFailure ==
  /\ stage = "answered" /\ response.status >= 400
  /\ stage' = "read"
  /\ UNCHANGED <<step, response, schema, bodyError, outputs, failure, checks, matched, verdict>>

(* The body error is looked for first, and then stands for outputs that can't
   be extracted. *)
ReadSuccess ==
  /\ stage = "answered" /\ response.status < 400
  /\ bodyError' = BodyErrorOf(step, response.body)
  /\ LET found == OutputsOf(step, response)
     IN /\ failure' = (found.failed /\ ~bodyError'.found)
        /\ outputs' = IF found.failed THEN NoOutputMap ELSE found.outputs
  /\ stage' = IF failure' THEN "matched" ELSE "read"
  /\ UNCHANGED <<step, response, schema, checks, matched, verdict>>

(* StepResult.FailureStatus. *)
FailureStatus ==
  IF bodyError.found /\ bodyError.status # 0 THEN <<bodyError.status, "">>
  ELSE <<response.status, response.grpc>>

Passed(b) == [passed |-> b, skipped |-> FALSE]
Skipped == [passed |-> TRUE, skipped |-> TRUE]

(* checkSchema and buildSchemaCheck: what was not validated is skipped. *)
CheckSchema ==
  CASE schema \in {"none", "skipped", "noBody"} -> Skipped
    [] schema \in {"valid", "badRequest"} -> Passed(TRUE)
    [] schema = "invalid" -> Passed(FALSE)

(* Mutant of CheckAssertion: any status assertion of a negative step is
   skipped. *)
CheckAssertionSkipAll(a) ==
  CASE a.type = "status" /\ Negative -> Skipped
    [] a.type = "status" /\ ~Negative ->
         Passed(CheckStatus(a.expect, FailureStatus[1], FailureStatus[2]))
    [] OTHER -> Passed(TRUE)

CheckAssertion(a) ==
  IF a.type = "status"
  THEN IF Negative /\ ContradictsFailure(a.expect) THEN Skipped
       ELSE Passed(CheckStatus(a.expect, FailureStatus[1], FailureStatus[2]))
  ELSE IF a.type = "schema" THEN CheckSchema
  ELSE Passed(BodyCheck(step, response, outputs, a))

(* runStepAssertions. *)
RunAssertions ==
  /\ stage = "read"
  /\ checks' = [i \in 1..Len(step.assertions) |-> CheckAssertion(step.assertions[i])]
  /\ stage' = "checked"
  /\ UNCHANGED <<step, response, schema, bodyError, outputs, failure, matched, verdict>>

(* Run compares the status with expectFailure once the step is over. *)
MatchFailure ==
  /\ stage = "checked"
  /\ matched' = \E i \in 1..Len(step.expects) :
                   StatusMatches(step.expects[i], FailureStatus[1], FailureStatus[2])
  /\ stage' = "matched"
  /\ UNCHANGED <<step, response, schema, bodyError, outputs, failure, checks, verdict>>

-----------------------------------------------------------------------------
ChecksPassed == \A i \in DOMAIN checks : checks[i].passed

(* oasStrictError: a negative step is exempt. *)
StrictViolation == step.strict /\ ~Negative /\ schema \in {"invalid", "badRequest"}

(* Mutant of ResultFailed: the checks of a matched failure don't count. *)
ResultFailedMatched ==
  IF Negative THEN ~matched
  ELSE response.status >= 400 \/ bodyError.found \/ StrictViolation \/ ~ChecksPassed

(* stepFailed, which a knownIssue covers. *)
ResultFailed ==
  IF Negative THEN ~matched \/ ~ChecksPassed
  ELSE response.status >= 400 \/ bodyError.found \/ StrictViolation \/ ~ChecksPassed

ResultSuppressed == ~failure /\ ResultFailed /\ step.known = "active"

(* What Run is left with: the outcome, how the plan's steps end, and whether
   the outputs were stored and the cleanup registered. *)
Verdict(outcome, end, kept) ==
  [outcome |-> outcome, end |-> end,
   stored |-> kept /\ outputs # NoOutputMap, pushed |-> kept /\ step.cleanup]

Judge(v) ==
  /\ stage = "matched"
  /\ verdict' = v
  /\ stage' = "judged"
  /\ UNCHANGED <<step, response, schema, bodyError, outputs, failure, checks, matched>>

JudgeError == failure /\ Judge(Verdict("error", "error", FALSE))

(* A failure that ends the run whatever the options say. *)
EndingFailure ==
  IF ResultSuppressed THEN Verdict("passed", "covered", FALSE)
  ELSE Verdict("failed", "error", FALSE)

(* The checks that failed, of a step that did what it should. *)
ChecksVerdict(kept) ==
  IF ChecksPassed \/ ResultSuppressed THEN Verdict("passed", "none", kept)
  ELSE Verdict("failed", IF step.goOn THEN "none" ELSE "error", kept)

JudgeExpectedFailure == ~failure /\ Negative /\ matched /\ Judge(ChecksVerdict(FALSE))
JudgeUnexpected == ~failure /\ Negative /\ ~matched /\ Judge(EndingFailure)

JudgeFailure ==
  /\ ~failure /\ ~Negative
  /\ response.status >= 400 \/ bodyError.found
  /\ Judge(EndingFailure)

(* The outputs are stored and the cleanup registered before strict mode and
   the assertions have their say. *)
JudgeSuccess ==
  /\ ~failure /\ ~Negative /\ response.status < 400 /\ ~bodyError.found
  /\ Judge(IF StrictViolation /\ ~ResultSuppressed THEN Verdict("failed", "error", TRUE)
           ELSE ChecksVerdict(TRUE))

JudgeNext ==
  \/ ReadFailure \/ ReadSuccess \/ RunAssertions \/ MatchFailure
  \/ JudgeError \/ JudgeExpectedFailure \/ JudgeUnexpected \/ JudgeFailure \/ JudgeSuccess
  \/ stage = "judged" /\ UNCHANGED judgeVars

JudgeSpec == JudgeInit /\ [][JudgeNext]_judgeVars

-----------------------------------------------------------------------------
(* The result as PlanRun sees it. *)
AsAnswer ==
  [got |-> IF failure THEN "error" ELSE IF response.status >= 400 THEN "status"
           ELSE IF bodyError.found THEN "body" ELSE "ok",
   mayAct |-> failure \/ response.status >= 500 \/ FailureStatus[1] >= 500,
   match |-> matched, assertions |-> ChecksPassed,
   oas |-> schema \notin {"invalid", "badRequest"}]

AsPlan ==
  [steps |-> 1, creates |-> IF step.cleanup THEN {1} ELSE {}, releases |-> <<0>>,
   conditional |-> {}, listed |-> <<{}>>, extra |-> <<>>,
   negative |-> IF Negative THEN {1} ELSE {}, known |-> <<step.known>>, stopAfter |-> 0,
   checks |-> 0, goOn |-> step.goOn, strict |-> step.strict]

AsRun == INSTANCE PlanRun WITH
  N <- 1, Plans <- {}, plan <- AsPlan, pc <- "inFlight", pos <- 1, ctxDone <- FALSE,
  outcome <- "passed", raw <- "passed", end <- "none", results <- <<>>, verified <- <<>>,
  stack <- <<>>, extras <- {}, gate <- "passed", settled <- <<>>, live <- {}

(* What Run decides on a result, and whether a knownIssue covers it, is what
   PlanRun decides on the answer the result stands for: the cases Run goes
   through one by one agree with stepFailed, which looks at them all at once. *)
VerdictIsTheRuns ==
  stage = "judged" =>
    /\ verdict.end = AsRun!EndOf(1, AsAnswer)
    /\ verdict.pushed = AsRun!Registers(1, AsAnswer)
    /\ (verdict.outcome = "error") = failure
    /\ (verdict.outcome = "failed") = (~failure /\ AsRun!Uncovered(1, AsAnswer))
    /\ ResultSuppressed = AsRun!Suppressed(1, AsAnswer)

(* The status assertions of a negative step (runStepAssertions): one that was
   skipped could not have held on the failure expectFailure names, and one that
   asks for the very status expectFailure asks for holds, by name where the
   failure has one. *)
ChecksFollowTheExpectation ==
  stage = "matched" /\ ~failure /\ Negative /\ matched =>
    \A i \in DOMAIN checks :
      LET a == step.assertions[i]
          holds == CheckStatus(a.expect, FailureStatus[1], FailureStatus[2])
      IN a.type = "status" =>
           /\ checks[i].skipped => ~holds
           /\ step.expects = <<a.expect>> /\ (a.expect[1] = "name" => FailureStatus[2] # "")
              => checks[i] = Passed(TRUE)
=============================================================================
