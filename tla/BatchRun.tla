------------------------------- MODULE BatchRun -------------------------------
(***************************************************************************)
(* aat run batch: the runs that its matrix (Matrix) leaves to make, by     *)
(* batchSequential or batchParallel (cmd/aat/run_batch_cmd.go), each with  *)
(* its plan-level retries (loadAndRunPlanWithRetries,                      *)
(* cmd/aat/run_shared.go), and the aggregate.                              *)
(*                                                                         *)
(* A run is one spec of the matrix.  What the engine does with a plan is   *)
(* in PlanRun: here an attempt ends in one of its outcomes.                *)
(***************************************************************************)
EXTENDS Matrix

CONSTANTS
  Parallel,    \* --parallel, 1 for batchSequential
  MaxRetries   \* --retries

ASSUME BatchAssumption ==
  /\ Parallel \in Nat \ {0}
  /\ MaxRetries \in Nat

Outcome == {"passed", "failed", "error", "aborted"}

(* An attempt as loadAndRunPlanToDir returns it.  A setup error has no outcome
   of its own, and fuzzFailed marks a run that a fuzz finding failed. *)
Attempt == [outcome : Outcome \cup {"setup"}, fuzzFailed : BOOLEAN]

VARIABLES
  pc,         \* spec: "waiting", "head", "delay", "setup", "running", "done"
  attempt,    \* spec: the attempt it is at
  ran,        \* spec: history: the attempts that ended, in order
  entry,      \* spec: the outcome that its entry in batch.json records
  attempts,   \* spec: the attempts its entry counts, 0 when there was no retry
  main,       \* spec: the attempt that archive.json holds, 0 for none
  saved,      \* spec: the attempts that attempt-NN.json files hold
  ctxDone,    \* the batch was interrupted
  unmatched,  \* a --fuzz name matched no plan
  stats,      \* the counts of the summary
  outcome,    \* the aggregate outcome, "none" while the batch runs
  exit        \* the exit code

runVars == <<pc, attempt, ran, entry, attempts, main, saved>>
batchVars == <<unmatched, stats, outcome, exit>>
others == <<matrixVars, batchVars>>
vars == <<runVars, ctxDone, others>>

-----------------------------------------------------------------------------
Run == DOMAIN pc     \* the specs, once the batch is running
Total == MaxRetries + 1
Active == {i \in Run : pc[i] \notin {"waiting", "done"}}

IsRetryable(a) == a.outcome \in {"failed", "error"} /\ ~a.fuzzFailed

Init ==
  /\ InitMatrix
  /\ pc = <<>> /\ attempt = <<>> /\ ran = <<>> /\ entry = <<>>
  /\ attempts = <<>> /\ main = <<>> /\ saved = <<>>
  /\ ctxDone = FALSE
  /\ unmatched \in BOOLEAN
  /\ stats = [o \in Outcome \cup {"skipped"} |-> 0]
  /\ outcome = "none"
  /\ exit = 0

(* The matrix, its duplicates and its order, before anything runs. *)
Plan ==
  /\ BuildMatrix \/ fingerprintSpecs \/ deduplicateSpecs \/ Shuffle
  /\ UNCHANGED <<runVars, ctxDone, batchVars>>

Launch ==
  /\ phase = "ready"
  /\ phase' = "running"
  /\ pc' = [i \in DOMAIN specs |-> "waiting"]
  /\ attempt' = [i \in DOMAIN specs |-> 1]
  /\ ran' = [i \in DOMAIN specs |-> <<>>]
  /\ entry' = [i \in DOMAIN specs |-> "none"]
  /\ attempts' = [i \in DOMAIN specs |-> 0]
  /\ main' = [i \in DOMAIN specs |-> 0]
  /\ saved' = [i \in DOMAIN specs |-> {}]
  /\ UNCHANGED <<project, specs, infos, skipped, ctxDone, batchVars>>

Interrupt ==
  /\ phase = "running" /\ outcome = "none" /\ ~ctxDone
  /\ ctxDone' = TRUE
  /\ UNCHANGED <<runVars, others>>

(* errgroup starts the specs in order, at most Parallel at once.  Without
   retries a run is set up whatever the context is. *)
Start(i) ==
  /\ pc[i] = "waiting"
  /\ \A j \in 1..i - 1 : pc[j] # "waiting"
  /\ Cardinality(Active) < Parallel
  /\ pc' = [pc EXCEPT ![i] = IF MaxRetries > 0 THEN "head" ELSE "setup"]
  /\ UNCHANGED <<attempt, ran, entry, attempts, main, saved, ctxDone, others>>

(* Mutant of Recorded: buildPlanResult takes a result without a summary for a
   run that passed. *)
RecordedOutcome(o, hasSummary) == IF hasSummary THEN o ELSE "passed"

(* buildPlanResult: a result without a summary is an error, whatever its
   outcome. *)
Recorded(o, hasSummary) == IF hasSummary THEN o ELSE "error"

Return(i, o, hasSummary, n) ==
  /\ pc' = [pc EXCEPT ![i] = "done"]
  /\ entry' = [entry EXCEPT ![i] = Recorded(o, hasSummary)]
  /\ attempts' = [attempts EXCEPT ![i] = IF n > 1 THEN n ELSE 0]

(* An interrupt before an attempt, or in the delay before one. *)
Cancelled(i) ==
  /\ pc[i] \in {"head", "delay"} /\ ctxDone
  /\ Return(i, "aborted", FALSE, attempt[i] - 1)
  /\ UNCHANGED <<attempt, ran, main, saved, ctxDone, others>>

Begin(i) ==
  /\ pc[i] = "head" /\ ~ctxDone
  /\ pc' = [pc EXCEPT ![i] = IF attempt[i] > 1 THEN "delay" ELSE "setup"]
  /\ UNCHANGED <<attempt, ran, entry, attempts, main, saved, ctxDone, others>>

(* The delay ended.  When the context is done as well, select takes either. *)
DelayOver(i) ==
  /\ pc[i] = "delay"
  /\ pc' = [pc EXCEPT ![i] = "setup"]
  /\ UNCHANGED <<attempt, ran, entry, attempts, main, saved, ctxDone, others>>

(* The plan loads, its overlays apply and the run authenticates, or not. *)
SetUp(i) ==
  /\ pc[i] = "setup" /\ ~Unreadable(specs[i])
  /\ pc' = [pc EXCEPT ![i] = "running"]
  /\ UNCHANGED <<attempt, ran, entry, attempts, main, saved, ctxDone, others>>

SetUpFails(i) ==
  /\ pc[i] = "setup"
  /\ Return(i, "setup", FALSE, attempt[i])
  /\ ran' = [ran EXCEPT ![i] = Append(@, [outcome |-> "setup", fuzzFailed |-> FALSE])]
  /\ UNCHANGED <<attempt, main, saved, ctxDone, others>>

GoesOn(i, a) == IsRetryable(a) /\ attempt[i] < Total

(* Mutant of Kept: the attempt's archive stays where the next one goes. *)
KeptInPlace(i) == attempt[i]

(* What is at archive.json once an attempt that is retried was renamed. *)
Kept(i) == 0

(* The engine returned and the archive was written.  An attempt that is retried
   is renamed to attempt-NN.json. *)
RunEnds(i) ==
  /\ pc[i] = "running"
  /\ \E a \in [outcome : Outcome, fuzzFailed : BOOLEAN] :
       /\ a.outcome = "aborted" => ctxDone
       /\ a.fuzzFailed => a.outcome = "failed"
       /\ ran' = [ran EXCEPT ![i] = Append(@, a)]
       /\ \/ /\ GoesOn(i, a)
             /\ attempt' = [attempt EXCEPT ![i] = @ + 1]
             /\ saved' = [saved EXCEPT ![i] = @ \cup {attempt[i]}]
             /\ main' = [main EXCEPT ![i] = Kept(i)]
             /\ pc' = [pc EXCEPT ![i] = "head"]
             /\ UNCHANGED <<entry, attempts>>
          \/ /\ ~GoesOn(i, a)
             /\ Return(i, a.outcome, TRUE, attempt[i])
             /\ main' = [main EXCEPT ![i] = attempt[i]]
             /\ UNCHANGED <<attempt, saved>>
  /\ UNCHANGED <<ctxDone, others>>

Count(o) == Cardinality({i \in Run : entry[i] = o})

Aggregate(s, u) ==
  IF s["aborted"] > 0 THEN "aborted"
  ELSE IF s["error"] > 0 \/ u THEN "error"
  ELSE IF s["failed"] > 0 THEN "failed" ELSE "passed"

(* batchExitCode: a name that matched nothing comes before everything. *)
ExitCode(s, u) ==
  IF u THEN 2
  ELSE IF s["aborted"] > 0 THEN 130
  ELSE IF s["error"] > 0 THEN 2
  ELSE IF s["failed"] > 0 THEN 1 ELSE 0

(* Every run returned: the counts, to which the skipped runs are added,
   batch.json's outcome and the exit code. *)
Tally ==
  /\ phase = "running" /\ outcome = "none"
  /\ \A i \in Run : pc[i] = "done"
  /\ stats' = [o \in DOMAIN stats |-> IF o = "skipped" THEN Len(skipped) ELSE Count(o)]
  /\ outcome' = Aggregate(stats', unmatched)
  /\ exit' = ExitCode(stats', unmatched)
  /\ UNCHANGED <<matrixVars, runVars, ctxDone, unmatched>>

Exited == outcome # "none" /\ UNCHANGED vars

RunStep(i) ==
  \/ Start(i) \/ Cancelled(i) \/ Begin(i) \/ DelayOver(i)
  \/ SetUp(i) \/ SetUpFails(i) \/ RunEnds(i)

Next == Plan \/ Launch \/ Interrupt \/ (\E i \in Run : RunStep(i)) \/ Tally \/ Exited

Spec == Init /\ [][Next]_vars

-----------------------------------------------------------------------------
Over == outcome # "none"

(* An entry tells how its run's last attempt ended and how many there were; an
   interrupt is the one thing that may turn what was going to be retried into
   an error (run_batch_cmd.go buildPlanResult). *)
EntryTellsTheLastAttempt(i) ==
  /\ attempts[i] = (IF Len(ran[i]) > 1 THEN Len(ran[i]) ELSE 0)
  /\ entry[i] \in {"passed", "failed", "aborted"} => ran[i] # <<>> /\ Last(ran[i]).outcome = entry[i]
  /\ ran[i] # <<>> /\ Last(ran[i]).outcome = "passed" => entry[i] = "passed"
  /\ ran[i] = <<>> => ctxDone

(* Every attempt that ran is on disk exactly once, under the name its place
   among the attempts gives it: the last one in archive.json, unless the run
   was interrupted or its setup failed before another could take its place
   (run_shared.go loadAndRunPlanWithRetries, the rename). *)
EveryAttemptIsKept(i) ==
  LET n == Len(ran[i])
  IN  /\ (saved[i] \cup {main[i]}) \ {0} = {k \in 1..n : ran[i][k].outcome # "setup"}
      /\ main[i] \notin saved[i]
      /\ main[i] \in {0, n}
      /\ main[i] = 0 => ctxDone \/ Last(ran[i]).outcome = "setup"

(* What a batch reports and what it leaves on disk are one account of the
   attempts: each plan's entry is its last attempt's, and every attempt has its
   archive (run_shared.go loadAndRunPlanWithRetries, run_batch_cmd.go
   buildPlanResult). *)
AttemptsAreAccountedFor ==
  \A i \in Run : pc[i] = "done" => EntryTellsTheLastAttempt(i) /\ EveryAttemptIsKept(i)
=============================================================================
