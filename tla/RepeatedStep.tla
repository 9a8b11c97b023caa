---------------------------- MODULE RepeatedStep ----------------------------
(***************************************************************************)
(* A step as the engine sends it (engine/retry.go executeStepWithTracking): with a     *)
(* repeat block request after request, each with its own retries, and once *)
(* with its retries otherwise.  StepRepeat sees a request only when its    *)
(* retries are over, and each request starts StepRetry afresh.             *)
(***************************************************************************)
EXTENDS StepRetry, StepRepeat

CONSTANT Cases    \* the steps considered, each with the repeat block it has, if any

ASSUME CaseAssumption ==
  \A c \in Cases : /\ c.step \in Steps /\ c.block \in Blocks /\ c.repeated \in BOOLEAN
                   /\ c.repeated => c.step.role = "plain"

VARIABLE repeated  \* the step has a repeat block

repeatVars == <<block, pc, now, cursor, seen, last, wake, stopVars, historyVars, gathered>>
stepVars == <<vars, retryVars, repeated>>

-----------------------------------------------------------------------------
(* A step without a block is in its only request from the start. *)
StepInit ==
  /\ \E c \in Cases : step = c.step /\ block = c.block /\ repeated = c.repeated
  /\ RetryInit
  /\ pc = IF repeated THEN "send" ELSE "sending"
  /\ now = 0 /\ cursor = block.start /\ seen = {} /\ last = NoResponse /\ wake = 0
  /\ stop = "" /\ failure = FALSE /\ cut = FALSE
  /\ pages = <<>> /\ held = {} /\ startAt = 0 /\ gathered = <<>>

StepInterrupt ==
  /\ pc # "done" /\ ~ctxDone
  /\ ctxDone' = TRUE
  /\ UNCHANGED <<repeatVars, step, attemptPc, attempt, answer, asked, waited, wait, resultVars,
                 sent, acted, repeated>>

(* executeStepWithRetry is called for the next page. *)
SendPage ==
  /\ Send
  /\ UNCHANGED <<retryVars, repeated>>

(* The request's retries, one action at a time. *)
Attempt ==
  /\ pc = "sending"
  /\ RetryProgress
  /\ UNCHANGED <<repeatVars, repeated>>

RequestOver == pc = "sending" /\ attemptPc = "done"

(* The request's result goes to the repetition, and nothing of its retries is
   left for the next request; the sum of their counts is left out. *)
PageAnswered ==
  /\ repeated /\ RequestOver
  /\ Answered
  /\ last'.ok = (answer = "ok")
  /\ attemptPc' = "send" /\ attempt' = 0 /\ answer' = "ok"
  /\ asked' = 0 /\ waited' = 0 /\ wait' = 0
  /\ cancelled' = FALSE /\ action' = "none" /\ retryCount' = 0 /\ retriedOn' = <<>>
  /\ sent' = 0 /\ acted' = 0
  /\ UNCHANGED <<step, repeated>>

(* Without a block the request's result is the step's. *)
OnlyAnswer ==
  /\ ~repeated /\ RequestOver
  /\ pc' = "done"
  /\ UNCHANGED <<block, now, cursor, seen, last, wake, stopVars, historyVars, gathered,
                 retryVars, repeated>>

(* What follows an answer in the repetition leaves the request's retries be. *)
Between ==
  /\ Stop \/ StartWait \/ CancelWait \/ Wake
  /\ UNCHANGED <<retryVars, repeated>>

StepOver == Over /\ UNCHANGED stepVars

StepProgress == SendPage \/ Attempt \/ PageAnswered \/ OnlyAnswer \/ Between
StepNext == StepInterrupt \/ StepProgress \/ StepOver

(* A request ends in its answer or its timeout, and timers fire. *)
StepSpec == StepInit /\ [][StepNext]_stepVars /\ WF_stepVars(StepProgress)
=============================================================================
