------------------------------ MODULE StepRetry ------------------------------
(***************************************************************************)
(* One request with its retries: executeStepWithRetry and retryResult      *)
(* (engine/retry.go) over the classification of errors.go, for a plain     *)
(* step, a negative one and a cleanup step.                                *)
(*                                                                         *)
(* A failed attempt is one of the kinds below, which stand for the         *)
(* statuses and errors that classifyStepResult and the retry rules tell    *)
(* apart.  Time is the wait between an answer and the next request,        *)
(* counted in units of a backoff step, and the limit on what a server may  *)
(* ask for is Cap units.                                                   *)
(***************************************************************************)
EXTENDS StepContext

CONSTANT Steps    \* the steps considered

(* The kinds of failed attempts: 429, 503, 500, 404 and 401; an error in the
   body of a 200, with no status of its own or with one its rule names; and no
   response, for a timeout, an unknown host or a request that was not built. *)
Kind == {"s429", "s503", "s500", "s404", "s401", "body", "body429", "body503", "body400",
         "timeout", "network", "adapter"}

Category == {"transient", "server", "client", "auth", "response_error", "timeout", "network", "adapter"}
Rule == Category \cup {"429", "503", "500", "404"}

(* What is written in a step's own retry block. *)
Block == [max : Nat, on : SUBSET Rule, failOn : SUBSET Rule]
NoBlock == [max |-> 3, on |-> {"429"}, failOn |-> {}]      \* rateLimitRetry
CleanupBlock == [max |-> 3, on |-> {}, failOn |-> {}]      \* cleanupRetry

(* own: whether the step has a retry block.  expects: the kinds of failures its
   expectFailure matches. *)
StepSet ==
  [role : {"plain", "negative", "cleanup"}, own : BOOLEAN, block : Block,
   expects : SUBSET Kind]

ASSUME RetryAssumption == Steps \subseteq StepSet

VARIABLES
  step,
  attemptPc,  \* "send", "judge", "wait", "done"
  attempt,    \* the number of the retry being considered, 0 for the first send
  answer,     \* what the last attempt came back with, "ok" or a kind
  asked,      \* the wait its response asked for
  waited,     \* the units waited since
  wait,       \* the units to wait
  cancelled,  \* the result's Error is the context's
  action,     \* ErrorClass.Action, "none" without a classification
  retryCount,
  retriedOn,
  sent,       \* history: the requests sent
  acted       \* history: the requests the API may have acted on

resultVars == <<cancelled, action, retryCount, retriedOn>>
retryVars == <<step, attemptPc, attempt, answer, asked, waited, wait, ctxDone, resultVars, sent, acted>>

-----------------------------------------------------------------------------
(* retryPolicy, and executeCleanupEntry for a cleanup step.  A negative step's
   block only turns the retries of a rate limit off, with max 0. *)
NoRetries(s) == s.role = "negative" /\ s.own /\ s.block.max = 0
Written(s) == s.role = "plain" /\ s.own
(* Mutant of Policy: a step without a block retries what a block without rules
   does. *)
PolicyOfBlock(s) == IF Written(s) THEN s.block ELSE CleanupBlock

Policy(s) ==
  IF s.role = "cleanup" THEN CleanupBlock
  ELSE IF Written(s) THEN s.block ELSE NoBlock

HasResponse(k) == k \notin {"timeout", "network", "adapter"}

(* classifyError, classifyStatusCode, classifyStepResult. *)
CategoryOf(k) ==
  IF k \in {"s429", "s503"} THEN "transient"
  ELSE IF k = "s500" THEN "server"
  ELSE IF k = "s404" THEN "client"
  ELSE IF k = "s401" THEN "auth"
  ELSE IF k \in {"body", "body429", "body503", "body400"} THEN "response_error"
  ELSE k

(* FailureStatus, as a rule names it: a body error stands for its own. *)
StatusOf(k) ==
  IF k \in {"s429", "body429"} THEN "429"
  ELSE IF k \in {"s503", "body503"} THEN "503"
  ELSE IF k = "s500" THEN "500"
  ELSE IF k = "s404" THEN "404"
  ELSE "other"

(* The category of the status that a body error was given. *)
CategoriesOf(k) ==
  {CategoryOf(k)} \cup
  (IF k \in {"body429", "body503"} THEN {"transient"}
   ELSE IF k = "body400" THEN {"client"} ELSE {})

RuleMatches(r, k) == r = StatusOf(k) \/ r \in CategoriesOf(k)

ShouldRetry(k, c, n) ==
  /\ n <= c.max
  /\ ~\E r \in c.failOn : RuleMatches(r, k)
  /\ IF c.on # {} THEN \E r \in c.on : RuleMatches(r, k)
     ELSE CategoriesOf(k) \cap {"transient", "timeout", "server"} # {}

(* Whether the policy looks at the result: unexpectedRateLimit for a negative
   step, classifyStepResult otherwise. *)
Failed(k) ==
  /\ k # "ok"
  /\ step.role = "negative" =>
       HasResponse(k) /\ StatusOf(k) = "429" /\ k \notin step.expects

(* retryBackoff: doubling, up to a cap, with the jitter left out. *)
Backoff(n) == IF n = 1 THEN 1 ELSE 2

(* Mutant of WaitFor: what the server asked for replaces the backoff. *)
WaitForAsked(n, a) == IF a > 0 THEN a ELSE Backoff(n)

WaitFor(n, a) == IF a > Backoff(n) THEN a ELSE Backoff(n)

-----------------------------------------------------------------------------
RetryInit ==
  /\ step \in Steps
  /\ attemptPc = "send"
  /\ attempt = 0
  /\ answer = "ok"
  /\ asked = 0
  /\ waited = 0
  /\ wait = 0
  /\ ctxDone = FALSE
  /\ cancelled = FALSE
  /\ action = "none"
  /\ retryCount = 0
  /\ retriedOn = <<>>
  /\ sent = 0
  /\ acted = 0

(* An interrupt, or the end of the cleanup budget of an interrupted run. *)
RetryInterrupt ==
  /\ attemptPc # "done" /\ ~ctxDone
  /\ ctxDone' = TRUE
  /\ UNCHANGED <<step, attemptPc, attempt, answer, asked, waited, wait, resultVars, sent, acted>>

(* What the API may have done with a request that came back as k. *)
MayAct(k) == k \in {"ok", "s503", "s500", "timeout"}

(* A step is sent, and answered or not; under a cancelled context the request
   comes back without a response, whatever the API did with it. *)
SendAttempt ==
  /\ attemptPc = "send"
  /\ \E k \in Kind \cup {"ok"}, a \in Asks :
       /\ ctxDone => ~HasResponse(k)
       /\ a > 0 => HasResponse(k) /\ k # "ok"
       /\ answer' = k
       /\ asked' = a
       /\ acted' = IF MayAct(k) THEN acted + 1 ELSE acted
  /\ sent' = sent + 1
  /\ retryCount' = attempt
  /\ action' = "none"
  /\ attemptPc' = "judge"
  /\ UNCHANGED <<step, attempt, waited, wait, ctxDone, cancelled, retriedOn>>

Finish(act) ==
  /\ attemptPc' = "done"
  /\ action' = act

(* No failure, or one that the step has no policy for. *)
Accept ==
  /\ attemptPc = "judge"
  /\ NoRetries(step) \/ ~Failed(answer)
  /\ attemptPc' = "done"
  /\ UNCHANGED <<step, attempt, answer, asked, waited, wait, ctxDone, resultVars, sent, acted>>

Retriable == attemptPc = "judge" /\ ~NoRetries(step) /\ Failed(answer)

OutOfRetries ==
  /\ Retriable /\ attempt >= Policy(step).max
  /\ Finish("failed")
  /\ UNCHANGED <<step, attempt, answer, asked, waited, wait, ctxDone, cancelled, retryCount, retriedOn, sent, acted>>

(* The head of the retry loop looks at the context first. *)
CancelBeforeWait ==
  /\ Retriable /\ attempt < Policy(step).max
  /\ ctxDone
  /\ cancelled' = TRUE
  /\ Finish("failed")
  /\ UNCHANGED <<step, attempt, answer, asked, waited, wait, ctxDone, retryCount, retriedOn, sent, acted>>

Refuse ==
  /\ Retriable /\ attempt < Policy(step).max /\ ~ctxDone
  /\ ~ShouldRetry(answer, Policy(step), attempt + 1)
  /\ Finish(IF Written(step) THEN "failed_fast" ELSE "failed")
  /\ UNCHANGED <<step, attempt, answer, asked, waited, wait, ctxDone, cancelled, retryCount, retriedOn, sent, acted>>

(* Mutant of TooLong: whatever the server asks for is waited out. *)
TooLongNever(a) == FALSE

TooLong(a) == a > Cap

AskedTooLong ==
  /\ Retriable /\ attempt < Policy(step).max /\ ~ctxDone
  /\ ShouldRetry(answer, Policy(step), attempt + 1)
  /\ TooLong(asked)
  /\ Finish("failed_fast")
  /\ UNCHANGED <<step, attempt, answer, asked, waited, wait, ctxDone, cancelled, retryCount, retriedOn, sent, acted>>

StartBackoff ==
  /\ Retriable /\ attempt < Policy(step).max /\ ~ctxDone
  /\ ShouldRetry(answer, Policy(step), attempt + 1)
  /\ ~TooLong(asked)
  /\ attempt' = attempt + 1
  /\ retriedOn' = Append(retriedOn, CategoryOf(answer))
  /\ wait' = WaitFor(attempt + 1, asked)
  /\ waited' = 0
  /\ attemptPc' = "wait"
  /\ UNCHANGED <<step, answer, asked, ctxDone, cancelled, action, retryCount, sent, acted>>

Tick ==
  /\ attemptPc = "wait" /\ waited < wait
  /\ waited' = waited + 1
  /\ UNCHANGED <<step, attemptPc, attempt, answer, asked, wait, ctxDone, resultVars, sent, acted>>

(* The retry that is never sent counts. *)
CancelInWait ==
  /\ attemptPc = "wait" /\ ctxDone
  /\ cancelled' = TRUE
  /\ retryCount' = attempt
  /\ Finish("failed")
  /\ UNCHANGED <<step, attempt, answer, asked, waited, wait, ctxDone, retriedOn, sent, acted>>

(* The timer fired.  When the context is done as well, select takes either. *)
Resend ==
  /\ attemptPc = "wait" /\ waited = wait
  /\ attemptPc' = "send"
  /\ UNCHANGED <<step, attempt, answer, asked, waited, wait, ctxDone, resultVars, sent, acted>>

RetryReturned == attemptPc = "done" /\ UNCHANGED retryVars

RetryProgress ==
  \/ SendAttempt \/ Accept \/ OutOfRetries \/ CancelBeforeWait \/ Refuse \/ AskedTooLong
  \/ StartBackoff \/ Tick \/ CancelInWait \/ Resend

RetryNext == RetryInterrupt \/ RetryProgress \/ RetryReturned

RetrySpec == RetryInit /\ [][RetryNext]_retryVars

-----------------------------------------------------------------------------
(* The variables hold what their names say. *)
RetryTypeOK ==
  /\ step \in Steps
  /\ attemptPc \in {"send", "judge", "wait", "done"}
  /\ attempt \in Nat
  /\ answer \in Kind \cup {"ok"}
  /\ asked \in Asks
  /\ waited \in Nat /\ wait \in Nat
  /\ ctxDone \in BOOLEAN
  /\ cancelled \in BOOLEAN
  /\ action \in {"none", "failed", "failed_fast"}
  /\ retryCount \in Nat
  /\ retriedOn \in Seq(Category)
  /\ sent \in Nat /\ acted \in Nat

(* The most retries a step may be given: its own block's, or three. *)
MaxRetries == IF step.role = "plain" /\ step.own THEN step.block.max ELSE 3

(* A step that was not told to retry is not sent again once the API may have
   acted on it: a lost answer is never answered with a second order (retry.go
   rateLimitRetry). *)
OnceUnlessTold ==
  ~(step.role = "cleanup" \/ (step.role = "plain" /\ step.own)) => acted <= 1

(* A request is not sent before its server asked for it, nor does a step sit
   out more than the limit, or more than the retries it was given. *)
WaitsAreKept ==
  /\ attemptPc = "send" /\ attempt > 0 =>
       /\ waited >= asked
       /\ waited >= (IF attempt = 1 THEN 1 ELSE 2)
  /\ wait <= (IF Cap > 2 THEN Cap ELSE 2)
  /\ sent <= MaxRetries + 1

(* A step gives up on a failure that is worth a retry only when its retries are
   used up, the server asked for too long, or the run was interrupted, and then
   its result carries the context's error, which makes the run an abort and not
   a failure of the API (engine.go Run). *)
GivesUpOnlyWhen ==
  attemptPc = "done" /\ answer \in {"s429", "body429"} /\ answer \notin step.expects /\ step.role # "cleanup" /\ ~step.own =>
    \/ sent = 4
    \/ asked > Cap
    \/ ctxDone /\ cancelled
=============================================================================
