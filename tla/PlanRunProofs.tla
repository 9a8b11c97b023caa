---------------------------- MODULE PlanRunProofs ----------------------------
(***************************************************************************)
(* What PlanRun promises for plans of any length: its types, the order in  *)
(* which resources are released, that the outcome reported and the gate of *)
(* the cleanups say what happened, that nothing the run knows of is left   *)
(* alive, and that a run keeps the ledger.  Last, StepVerdict: what becomes*)
(* of one response, and that it is what PlanRun decides on it.             *)
(***************************************************************************)
EXTENDS PlanRun, StepVerdict, SequenceTheorems, TLAPS

(* The order of the registered and of the settled cleanups. *)
OrderInv ==
  /\ \A i \in 1..Len(stack) : stack[i] < pos
  /\ \A i, j \in 1..Len(stack) : i < j => stack[i] < stack[j]
  /\ \A i \in 1..Len(stack) : \A j \in 1..Len(settled) : stack[i] < settled[j].step
  /\ LastCreatedFirst
  /\ pc \notin {"cleanup", "done"} => settled = <<>>
  /\ pc \in {"inFlight", "verify", "checking"} => end = "none"
  /\ pc = "cleanup" => ~AtCheckpoint
  /\ pc = "inFlight" => pos <= N
  /\ pc = "done" => stack = <<>> \/ (AtCheckpoint /\ settled = <<>>)

RunInv == TypeOK /\ OrderInv

-----------------------------------------------------------------------------
(* Every plan that is considered is a plan. *)
LEMMA PlanIsTyped == TypeOK => plan \in PlanSet
BY PlanAssumption DEF TypeOK

(* A run starts with nothing registered. *)
LEMMA InitHolds == Init => RunInv
<1> SUFFICES ASSUME Init PROVE RunInv
  OBVIOUS
<1>1. pos \in 1..N + 1
  BY PlanAssumption DEF Init
<1>2. stack = <<>> /\ settled = <<>> /\ results = <<>> /\ verified = <<>>
  BY DEF Init
<1>3. TypeOK
  <2>1. /\ results \in Seq([step : Step, answer : Answer])
        /\ verified \in Seq({"pass", "fail", "error"})
        /\ stack \in Seq(Step)
        /\ settled \in Seq([step : Step, how : How])
    BY <1>2
  <2> QED BY <1>1, <2>1 DEF Init, TypeOK, Pc, Outcome
<1>4. OrderInv
  BY <1>2 DEF Init, OrderInv, LastCreatedFirst
<1> QED BY <1>3, <1>4 DEF RunInv

(* Starting cleanup keeps the cleanup variables' types, and selects only steps
   that the plan has. *)
LEMMA StartCleanupTypes ==
  ASSUME TypeOK, NEW o \in Outcome, StartCleanup(o)
  PROVE  pc' = "cleanup" /\ gate' \in Outcome /\ extras' \subseteq Nat /\ settled' = settled
BY PlanIsTyped DEF StartCleanup, PlanSet

(* What cleanup is gated on is an outcome. *)
LEMMA GatingTypes ==
  ASSUME TypeOK, NEW o \in Outcome
  PROVE  Gating(o) \in Outcome
BY DEF Gating, TypeOK, Outcome

(* A sequence without its last element. *)
LEMMA ButLast ==
  ASSUME NEW S, NEW s \in Seq(S), s # <<>>
  PROVE  LET t == SubSeq(s, 1, Len(s) - 1)
         IN  /\ t \in Seq(S) /\ Len(t) = Len(s) - 1
             /\ \A i \in 1..Len(t) : t[i] = s[i]
<1> DEFINE t == SubSeq(s, 1, Len(s) - 1)
<1>0. Len(s) \in Nat /\ Len(s) >= 1
  OBVIOUS
<1>1. \A i \in 1..Len(s) - 1 : s[i] \in S
  OBVIOUS
<1>2. 1 \in Int /\ Len(s) - 1 \in Int
  BY <1>0
<1>3. t \in Seq(S)
  BY <1>1, <1>2, SubSeqProperties
<1>4. \A i \in 1..Len(s) - 1 : t[i] = s[i]
  BY <1>1, <1>2, SubSeqProperties
<1>5. Len(s) <= 1 => t = <<>>
  BY <1>0, <1>2, SubSeqEmpty
<1>6. Len(s) > 1 => Len(t) = Len(s) - 1
  BY <1>0, <1>1, <1>2, SubSeqProperties
<1> HIDE DEF t
<1>7. Len(t) = Len(s) - 1
  <2>1. CASE Len(s) <= 1
    <3>1. Len(t) = 0
      BY <1>5, <2>1
    <3> DEFINE n == Len(s)
    <3>2. n \in Nat /\ n >= 1 /\ n <= 1
      BY <1>0, <2>1
    <3> HIDE DEF n
    <3>3. n = 1
      BY <3>2
    <3> QED BY <3>1, <3>3 DEF n
  <2>2. CASE Len(s) > 1
    BY <1>6, <2>2
  <2> QED BY <1>0, <2>1, <2>2
<1>8. t \in Seq(S) /\ Len(t) = Len(s) - 1 /\ \A i \in 1..Len(t) : t[i] = s[i]
  BY <1>3, <1>4, <1>7
<1> QED BY <1>8 DEF t

(* Popping the stack is the one way an entry leaves it. *)
LEMMA PopHolds ==
  ASSUME RunInv, NEW how \in How, Pop(how), live' \subseteq live
  PROVE  RunInv'
<1>1. /\ Len(stack) \in Nat \ {0} /\ Top \in Step /\ Rest \in Seq(Step)
      /\ Len(Rest) = Len(stack) - 1
      /\ \A i \in 1..Len(Rest) : Rest[i] = stack[i]
  <2>1. stack \in Seq(Step) /\ stack # <<>>
    BY DEF Pop, RunInv, TypeOK
  <2>2. Len(stack) \in Nat \ {0} /\ Top \in Step
    BY <2>1 DEF Top
  <2>3. Rest \in Seq(Step) /\ Len(Rest) = Len(stack) - 1 /\ \A i \in 1..Len(Rest) : Rest[i] = stack[i]
    BY <2>1, ButLast DEF Rest
  <2> QED BY <2>2, <2>3
<1>2. TypeOK'
  BY <1>1 DEF Pop, RunInv, TypeOK
<1>3. /\ Len(settled') = Len(settled) + 1
      /\ settled'[Len(settled) + 1].step = Top
      /\ \A i \in 1..Len(settled) : settled'[i] = settled[i]
  BY <1>1 DEF Pop, RunInv, TypeOK
<1>4. \A i \in 1..Len(Rest) : Rest[i] < Top
  BY <1>1 DEF RunInv, OrderInv, Top
<1>5. OrderInv'
  <2>1. \A i \in 1..Len(stack') : stack'[i] < pos'
    BY <1>1 DEF Pop, RunInv, OrderInv
  <2>2. \A i, j \in 1..Len(stack') : i < j => stack'[i] < stack'[j]
    BY <1>1 DEF Pop, RunInv, OrderInv
  <2>3. \A i \in 1..Len(stack') : \A j \in 1..Len(settled') : stack'[i] < settled'[j].step
    <3> SUFFICES ASSUME NEW i \in 1..Len(Rest), NEW j \in 1..Len(settled')
                 PROVE  Rest[i] < settled'[j].step
      BY DEF Pop
    <3>1. CASE j = Len(settled) + 1
      BY <1>3, <1>4, <3>1
    <3>2. CASE j \in 1..Len(settled)
      BY <1>1, <1>3, <3>2 DEF RunInv, OrderInv
    <3> QED BY <1>3, <3>1, <3>2 DEF RunInv, TypeOK
  <2>4. LastCreatedFirst'
    <3>1. Top < pos /\ \A j \in 1..Len(settled) : Top < settled[j].step
      BY <1>1 DEF RunInv, OrderInv, Top
    <3>2. Len(settled) \in Nat /\ pos' = pos
      BY DEF Pop, RunInv, TypeOK
    <3> SUFFICES ASSUME NEW i \in 1..Len(settled) + 1
                 PROVE  /\ settled'[i].step < pos
                        /\ \A j \in 1..i - 1 : settled'[j].step > settled'[i].step
      BY <1>3, <3>2 DEF LastCreatedFirst
    <3>3. CASE i = Len(settled) + 1
      <4> SUFFICES \A j \in 1..Len(settled) : settled'[j].step > Top
        BY <1>3, <3>1, <3>2, <3>3
      <4>1. \A j \in 1..Len(settled) : settled'[j].step = settled[j].step
        BY <1>3
      <4> QED BY <3>1, <4>1
    <3>4. CASE i \in 1..Len(settled)
      <4>1. /\ settled[i].step < pos
            /\ \A j \in 1..i - 1 : settled[j].step > settled[i].step
        BY <3>4 DEF RunInv, OrderInv, LastCreatedFirst
      <4>2. \A j \in 1..i - 1 : settled'[j] = settled[j]
        BY <1>3, <3>2, <3>4
      <4> QED BY <1>3, <3>4, <4>1, <4>2
    <3> QED BY <3>2, <3>3, <3>4
  <2> QED BY <2>1, <2>2, <2>3, <2>4 DEF Pop, OrderInv, RunInv, AtCheckpoint
<1> QED BY <1>2, <1>5 DEF RunInv

(* An answer's step is registered at most on top of the stack. *)
LEMMA AnswerHolds == RunInv /\ StepAnswered => RunInv'
<1> SUFFICES ASSUME RunInv, StepAnswered PROVE RunInv'
  OBVIOUS
<1>1. PICK a \in Answers(pos) :
        /\ ApiAnswers(pos, a)
        /\ results' = Append(results, [step |-> pos, answer |-> a])
        /\ AbortInStep(pos, a) \/ Settle(pos, a)
  BY DEF StepAnswered
<1>2. pos \in Step /\ a \in Answer /\ pc = "inFlight" /\ settled = <<>>
  BY <1>1 DEF StepAnswered, RunInv, TypeOK, OrderInv, Step, Answers
<1>3. live' \subseteq Step
  BY <1>1, <1>2 DEF ApiAnswers, Effect, RunInv, TypeOK
<1>4. results' \in Seq([step : Step, answer : Answer])
  BY <1>1, <1>2 DEF RunInv, TypeOK
<1>5. CASE AbortInStep(pos, a)
  BY <1>2, <1>3, <1>4, <1>5, StartCleanupTypes, "aborted" \in Outcome
     DEF AbortInStep, Abort, RunInv, TypeOK, OrderInv, LastCreatedFirst,
         StepAnswered, Outcome, Pc, AtCheckpoint
<1>6. CASE Settle(pos, a)
  <2>1. pos \in Nat /\ pos' = pos + 1 /\ pos' \in 1..N + 1
    BY <1>2, <1>6, PlanAssumption DEF Settle, Step
  <2>5. stack \in Seq(Step) /\ (stack' = stack \/ stack' = Append(stack, pos))
    BY <1>6 DEF Settle, RunInv, TypeOK
  <2>6. stack' \in Seq(Step)
    BY <1>2, <2>5
  <2>7. /\ \A i \in 1..Len(stack') : stack'[i] < pos'
        /\ \A i, j \in 1..Len(stack') : i < j => stack'[i] < stack'[j]
    <3>1. \A i \in 1..Len(stack) : stack[i] < pos /\ stack[i] \in Nat
      BY <2>5, PlanAssumption DEF RunInv, OrderInv, Step
    <3>2. \A i, j \in 1..Len(stack) : i < j => stack[i] < stack[j]
      BY DEF RunInv, OrderInv
    <3>3. CASE stack' = stack
      BY <2>1, <3>1, <3>2, <3>3
    <3>4. CASE stack' = Append(stack, pos)
      BY <2>1, <2>5, <3>1, <3>2, <3>4
    <3> QED BY <2>5, <3>3, <3>4
  <2>2. end' \in {"none", "error", "covered", "checkpoint"}
    BY <1>6 DEF Settle, EndOf
  <2>3. TypeOK'
    BY <1>2, <1>3, <1>4, <1>6, <2>1, <2>2, <2>6
       DEF Settle, StepAnswered, cleanupVars, RunInv, TypeOK, Outcome, Pc
  <2>4. OrderInv'
    BY <1>2, <1>6, <2>7 DEF Settle, cleanupVars, OrderInv, LastCreatedFirst, AtCheckpoint
  <2> QED BY <2>3, <2>4 DEF RunInv
<1> QED BY <1>1, <1>5, <1>6

(* The steps of the loop, of verification and of an interrupt leave the stack
   alone. *)
LEMMA OthersHold ==
  ASSUME RunInv,
         \/ Interrupt \/ Terminated \/ SendStep \/ AbortBeforeStep \/ StopAtCheckpoint
         \/ EndRun \/ StartVerification \/ SendCheck \/ CheckAnswered \/ RunExtra \/ CleanupDone
  PROVE  RunInv'
<1> USE DEF RunInv, TypeOK, OrderInv, LastCreatedFirst, AtCheckpoint, Pc, engineVars, cleanupVars
<1>a. "aborted" \in Outcome
  BY DEF Outcome
<1>1. CASE Interrupt
  BY <1>1 DEF Interrupt
<1>2. CASE Terminated
  BY <1>2 DEF Terminated, vars
<1>3. CASE SendStep
  <2>1. plan.steps \in 0..N
    BY PlanIsTyped DEF PlanSet
  <2>2. pos <= N
    BY <1>3, <2>1, PlanAssumption DEF SendStep
  <2> QED BY <1>3, <2>2 DEF SendStep
<1>4. CASE AbortBeforeStep
  BY <1>4, <1>a, StartCleanupTypes DEF AbortBeforeStep, Abort
<1>5. CASE StopAtCheckpoint
  BY <1>5 DEF StopAtCheckpoint, LoopOver, Outcome
<1>6. CASE EndRun
  BY <1>6, GatingTypes, StartCleanupTypes DEF EndRun, LoopOver
<1>7. CASE StartVerification
  BY <1>7 DEF StartVerification, LoopOver
<1>8. CASE SendCheck
  <2>1. Append(verified, "error") \in Seq({"pass", "fail", "error"})
    OBVIOUS
  <2>2. CASE ctxDone
    BY <1>8, <1>a, <2>1, <2>2, StartCleanupTypes DEF SendCheck, Abort
  <2>3. CASE ~ctxDone
    BY <1>8, <2>3 DEF SendCheck
  <2> QED BY <2>2, <2>3
<1>9. CASE CheckAnswered
  <2>1. PICK v \in {"pass", "fail", "error"} :
          /\ verified' = Append(verified, v)
          /\ \/ Interrupted(v) /\ Abort
             \/ /\ outcome' = VerificationOutcome(v)
                /\ StartCleanup(Gating(VerificationOutcome(v)))
             \/ pc' = "verify" /\ UNCHANGED <<outcome, cleanupVars>>
    BY <1>9 DEF CheckAnswered
  <2>2. VerificationOutcome(v) \in Outcome
    BY DEF VerificationOutcome, Outcome
  <2>3. Gating(VerificationOutcome(v)) \in Outcome
    BY <2>2, GatingTypes
  <2>4. verified' \in Seq({"pass", "fail", "error"})
    BY <2>1
  <2>5. CASE Abort
    BY <1>9, <1>a, <2>4, <2>5, StartCleanupTypes DEF CheckAnswered, Abort
  <2>6. CASE /\ outcome' = VerificationOutcome(v)
             /\ StartCleanup(Gating(VerificationOutcome(v)))
    BY <1>9, <2>2, <2>3, <2>4, <2>6, StartCleanupTypes DEF CheckAnswered
  <2>7. CASE pc' = "verify" /\ UNCHANGED <<outcome, cleanupVars>>
    BY <1>9, <2>4, <2>7 DEF CheckAnswered
  <2> QED BY <2>1, <2>5, <2>6, <2>7
<1>10. CASE RunExtra
  BY <1>10 DEF RunExtra, Without
<1>11. CASE CleanupDone
  BY <1>11 DEF CleanupDone
<1> QED BY <1>1, <1>2, <1>3, <1>4, <1>5, <1>6, <1>7, <1>8, <1>9, <1>10, <1>11

(* Cleaning up pops the stack. *)
LEMMA CleanupHolds ==
  ASSUME RunInv,
         \/ DropUnselected \/ SkipReleased \/ SkipCondition
         \/ \E how \in {"cleaned", "failed"} : CleanUp(how)
  PROVE  RunInv'
<1>1. PICK how \in How : Pop(how) /\ live' \subseteq live
  BY DEF DropUnselected, SkipReleased, SkipCondition, CleanUp, How
<1> QED BY <1>1, PopHolds

(* Every step of a run preserves the invariant. *)
LEMMA NextHolds == RunInv /\ [Next]_vars => RunInv'
<1> SUFFICES ASSUME RunInv, [Next]_vars PROVE RunInv'
  OBVIOUS
<1>1. CASE UNCHANGED vars
  BY <1>1 DEF vars, engineVars, cleanupVars, RunInv, TypeOK, OrderInv, LastCreatedFirst, AtCheckpoint
<1>2. CASE Next
  BY <1>2, AnswerHolds, OthersHold, CleanupHolds DEF Next, Progress
<1> QED BY <1>1, <1>2

(* The types and the order hold in every run. *)
LEMMA RunInvHolds == Spec => []RunInv
BY InitHolds, NextHolds, PTL DEF Spec

(* The variables hold what their names say, for plans of any length. *)
THEOREM TypesAreKept == Spec => []TypeOK
<1>1. RunInv => TypeOK
  BY DEF RunInv
<1> QED BY <1>1, RunInvHolds, PTL

(* Resources are released in the reverse of the order they were created in,
   each at most once (cleanup.go runCleanupStack). *)
THEOREM ReleasedLastCreatedFirst == Spec => []LastCreatedFirst
<1>1. RunInv => LastCreatedFirst
  BY DEF RunInv, OrderInv
<1> QED BY <1>1, RunInvHolds, PTL

-----------------------------------------------------------------------------
(* The ledger starts empty. *)
LEMMA LedgerInit == Init => Ledger!Init
BY DEF Init, Ledger!Init, Over, AtCheckpoint

(* The ledger's settled resources after a cleanup that popped the stack. *)
LEMMA LedgerSettles ==
  ASSUME RunInv, NEW how \in How, Pop(how)
  PROVE  Ledger!Settle
<1>1. Len(settled') = Len(settled) + 1 /\ settled' = Append(settled, [step |-> Top, how |-> how])
  BY DEF Pop, RunInv, TypeOK
<1>2. [i \in 1..Len(settled') |-> settled'[i].step]
        = Append([i \in 1..Len(settled) |-> settled[i].step], Top)
  BY <1>1 DEF RunInv, TypeOK
<1> QED BY <1>2 DEF Pop, Ledger!Settle, Top, Rest, Over, AtCheckpoint

(* A step of the run is a step of the ledger, or leaves it alone. *)
LEMMA LedgerStep == RunInv /\ [Next]_vars => [Ledger!Next]_(Ledger!ledgerVars)
<1> SUFFICES ASSUME RunInv, [Next]_vars PROVE [Ledger!Next]_(Ledger!ledgerVars)
  OBVIOUS
<1> USE DEF Ledger!ledgerVars, Over, AtCheckpoint, engineVars, cleanupVars
<1>1. CASE UNCHANGED vars
  BY <1>1 DEF vars
<1>2. CASE Interrupt \/ Terminated \/ SendStep \/ StartVerification \/ RunExtra
  <2>1. CASE Interrupt \/ Terminated
    BY <2>1 DEF Interrupt, Terminated, vars
  <2>2. CASE SendStep \/ StartVerification
    <3>1. pc = "loop" /\ pc' \in {"inFlight", "verify"}
      BY <2>2 DEF SendStep, StartVerification, LoopOver
    <3>2. stack' = stack /\ settled' = settled
      BY <2>2 DEF SendStep, StartVerification
    <3> QED BY <3>1, <3>2
  <2>3. CASE RunExtra
    <3>1. UNCHANGED <<pc, end, stack, settled>>
      BY <2>3 DEF RunExtra
    <3> QED BY <3>1
  <2> QED BY <1>2, <2>1, <2>2, <2>3
<1>3. CASE AbortBeforeStep \/ EndRun
  <2>1. pc = "loop" /\ pc' = "cleanup" /\ stack' = stack /\ settled' = settled
    BY <1>3 DEF AbortBeforeStep, EndRun, LoopOver, Abort, StartCleanup
  <2> QED BY <2>1 DEF Ledger!Next, Ledger!Close
<1>4. CASE SendCheck \/ CheckAnswered
  <2>1. /\ pc \in {"verify", "checking"} /\ pc' \in {"verify", "checking", "cleanup"}
        /\ stack' = stack /\ settled' = settled
    BY <1>4 DEF SendCheck, CheckAnswered, Abort, StartCleanup
  <2> QED BY <2>1 DEF Ledger!Next, Ledger!Close
<1>5. CASE StopAtCheckpoint
  <2>1. pc = "loop" /\ pc' = "done" /\ end = "checkpoint" /\ end' = end
        /\ stack' = stack /\ settled' = settled /\ settled = <<>>
    BY <1>5 DEF StopAtCheckpoint, LoopOver, RunInv, OrderInv
  <2> QED BY <2>1 DEF Ledger!Next, Ledger!Keep
<1>6. CASE CleanupDone
  <2>1. /\ pc = "cleanup" /\ pc' = "done" /\ end # "checkpoint" /\ end' = end
        /\ stack = <<>> /\ stack' = stack /\ settled' = settled
    BY <1>6 DEF CleanupDone, RunInv, OrderInv
  <2> QED BY <2>1 DEF Ledger!Next, Ledger!Finish
<1>7. CASE StepAnswered
  <2>1. PICK a \in Answers(pos) : AbortInStep(pos, a) \/ Settle(pos, a)
    BY <1>7 DEF StepAnswered
  <2>2. CASE AbortInStep(pos, a)
    <3>1. pc = "inFlight" /\ pc' = "cleanup" /\ stack' = stack /\ settled' = settled
      BY <1>7, <2>2 DEF StepAnswered, AbortInStep, Abort, StartCleanup
    <3> QED BY <3>1 DEF Ledger!Next, Ledger!Close
  <2>3. CASE Settle(pos, a)
    <3>1. /\ pc = "inFlight" /\ pc' = "loop" /\ settled' = settled /\ pos \in Step
          /\ stack' = stack \/ stack' = Append(stack, pos)
      BY <1>7, <2>3 DEF StepAnswered, Settle, RunInv, OrderInv, TypeOK, Step
    <3> QED BY <3>1 DEF Ledger!Next, Ledger!Register
  <2> QED BY <2>1, <2>2, <2>3
<1>8. CASE \/ DropUnselected \/ SkipReleased \/ SkipCondition
           \/ \E how \in {"cleaned", "failed"} : CleanUp(how)
  <2>1. PICK how \in How : Pop(how)
    BY <1>8 DEF DropUnselected, SkipReleased, SkipCondition, CleanUp, How
  <2> QED BY <2>1, LedgerSettles DEF Ledger!Next
<1> QED BY <1>1, <1>2, <1>3, <1>4, <1>5, <1>6, <1>7, <1>8 DEF Next, Progress

(* A run of any length keeps the ledger of ResourceLedger, its fairness aside:
   what a step registered is settled at most once, the last registered first,
   and never before the run closes (engine.go Run, endRun, checkpointResult). *)
THEOREM RunsKeepTheLedger == Spec => Ledger!Init /\ [][Ledger!Next]_(Ledger!ledgerVars)
BY LedgerInit, LedgerStep, RunInvHolds, PTL DEF Spec

-----------------------------------------------------------------------------
(* What the run tells of its steps. *)

(* The results are those of the first steps, each with an answer the step can
   get. *)
ResultsInv ==
  \A i \in 1..Len(results) : results[i].step = i /\ results[i].answer \in Answers(i)

AllCovered == \A r \in Result : AsAsked(r) \/ Excused(r)
NoneExcused == \A r \in Result : AsAsked(r) \/ ~Excused(r)
SomeLost == \E r \in Result : r.answer.got = "error"

(* The checkpoint's step was answered, and nothing ended the run there. *)
ReachedCheckpoint ==
  /\ Len(results) > 0
  /\ results[Len(results)].step = plan.stopAfter
  /\ \/ results[Len(results)].answer.got = "ok"
     \/ results[Len(results)].answer.match

(* While the plan's steps and its verification run, outcome and raw are the
   tally of the results, and no answer that was lost is forgotten. *)
TallyInv ==
  pc \notin {"cleanup", "done"} =>
    /\ Len(results) = pos - 1 /\ pos <= plan.steps + 1
    /\ outcome \in {"passed", "failed", "error"}
    /\ outcome = "passed" <=> AllCovered
    /\ outcome = "error" <=> SomeLost
    /\ raw = "passed" <=> NoneExcused
    /\ end = "error" => outcome # "passed"
    /\ SomeLost => end = "error"
    /\ end = "checkpoint" => ReachedCheckpoint

(* Verification starts after the last step, and goes on while it can. *)
VerificationInv ==
  /\ pc \in {"loop", "inFlight"} => verified = <<>>
  /\ pc = "inFlight" => pos <= plan.steps
  /\ pc \in {"verify", "checking"} =>
       /\ pos = plan.steps + 1 /\ Len(verified) < plan.checks
       /\ \A i \in 1..Len(verified) : verified[i] # "error"

AllAsAsked == (\A r \in Result : AsAsked(r)) /\ AllVerified

(* Once the run has ended its own steps, nothing changes what it tells. *)
EndedInv ==
  /\ pc \in {"cleanup", "done"} => Honest
  /\ pc = "cleanup" => /\ gate = "passed" => AllAsAsked
                       /\ AllAsAsked /\ gate # "passed" => ctxDone
  /\ Over /\ AtCheckpoint => ReachedCheckpoint /\ settled = <<>> /\ verified = <<>>

OutcomeInv == ResultsInv /\ TallyInv /\ VerificationInv /\ EndedInv

Registered(s) == \E i \in 1..Len(stack) : stack[i] = s
Settled(s) == \E i \in 1..Len(settled) : settled[i].step = s

(* A later step asked for the release of the resource of s, and may have got
   it. *)
ReleaseTried(s) ==
  \E j \in 1..Len(results) :
    /\ s < j /\ plan.releases[results[j].step] = s
    /\ results[j].answer.got = "ok" \/ results[j].answer.mayAct

(* What the API acknowledged stays on the stack until it is settled, and is
   alive until something released it. *)
LiveInv ==
  /\ \A s \in Step : Acknowledged(s) /\ s \notin plan.negative => Registered(s) \/ Settled(s)
  /\ \A s \in Step : Registered(s) => Acknowledged(s)
  /\ \A s \in Step : Acknowledged(s) => s \in live \/ ReleaseTried(s) \/ Settled(s)
  /\ \A s \in Step : Released(s) => s \notin live
  /\ \A i \in 1..Len(settled) :
       settled[i].how \in {"cleaned", "released"} => settled[i].step \notin live

-----------------------------------------------------------------------------
(* What an answer means: a step fails exactly when its answer is not what was
   asked of it, and what is suppressed is what a knownIssue excuses. *)
LEMMA AnswerMeaning ==
  ASSUME NEW s \in Step, NEW a \in Answers(s)
  PROVE  LET r == [step |-> s, answer |-> a]
         IN  /\ Failing(s, a) <=> ~AsAsked(r)
             /\ Suppressed(s, a) <=> ~AsAsked(r) /\ Excused(r)
             /\ Uncovered(s, a) <=> ~AsAsked(r) /\ ~Excused(r)
<1> DEFINE r == [step |-> s, answer |-> a]
<1>1. /\ a.got \in {"ok", "body", "status", "error"}
      /\ a.match => s \in plan.negative /\ a.got \in {"body", "status"}
      /\ r.step = s /\ r.answer = a
  BY DEF Answers, Answer
<1> HIDE DEF r
<1>2. Failing(s, a) <=> ~AsAsked(r)
  BY <1>1 DEF Failing, StepFailed, AsAsked
<1>3. Suppressed(s, a) <=> Failing(s, a) /\ Excused(r)
  BY <1>1 DEF Suppressed, Failing, Excused
<1>4. Uncovered(s, a) <=> Failing(s, a) /\ ~Excused(r)
  BY <1>3 DEF Uncovered
<1> QED BY <1>2, <1>3, <1>4 DEF r

(* How a step ends the run: a lost answer always does, a covered failure is no
   error, and a checkpoint is reached only on an answer to go on from. *)
LEMMA EndMeaning ==
  ASSUME NEW s \in Step, NEW a \in Answers(s)
  PROVE  /\ EndOf(s, a) = "error" => Uncovered(s, a)
         /\ a.got = "error" => EndOf(s, a) = "error"
         /\ EndOf(s, a) = "checkpoint" => s = plan.stopAfter /\ (a.got = "ok" \/ a.match)
<1>1. /\ a.got \in {"ok", "body", "status", "error"}
      /\ a.match => s \in plan.negative /\ a.got \in {"body", "status"}
  BY DEF Answers, Answer
<1>2. a.got = "error" \/ NothingToBuildOn(s, a) => Failing(s, a)
  BY <1>1 DEF NothingToBuildOn, Failing, StepFailed
<1>3. a.got = "error" => ~Suppressed(s, a)
  BY DEF Suppressed
<1>4. ~(a.got = "error" \/ NothingToBuildOn(s, a)) => a.got = "ok" \/ a.match
  BY DEF NothingToBuildOn
<1> QED BY <1>2, <1>3, <1>4 DEF EndOf, Uncovered

(* A result joins the others at the end. *)
LEMMA ResultJoins ==
  ASSUME RunInv, NEW r \in [step : Step, answer : Answer], results' = Append(results, r)
  PROVE  /\ Len(results) \in Nat /\ Len(results') = Len(results) + 1
         /\ results'[Len(results) + 1] = r
         /\ \A i \in 1..Len(results) : results'[i] = results[i]
         /\ Result' = Result \cup {r}
<1>1. results \in Seq([step : Step, answer : Answer])
  BY DEF RunInv, TypeOK
<1>2. /\ Len(results) \in Nat /\ Len(results') = Len(results) + 1
      /\ results'[Len(results) + 1] = r
      /\ \A i \in 1..Len(results) : results'[i] = results[i]
  BY <1>1
<1>3. \A i \in 1..Len(results') : i = Len(results) + 1 \/ i \in 1..Len(results)
  BY <1>2
<1>4. 1..Len(results) \subseteq 1..Len(results') /\ Len(results) + 1 \in 1..Len(results')
  BY <1>2
<1> QED BY <1>2, <1>3, <1>4 DEF Result

(* What is read off an answer does not change while the run goes on. *)
LEMMA MeaningStays ==
  ASSUME plan' = plan
  PROVE  /\ \A s : Answers(s)' = Answers(s)
         /\ \A r : (AsAsked(r)' <=> AsAsked(r)) /\ (Excused(r)' <=> Excused(r))
<1>1. \A s : Answers(s)' = Answers(s)
  BY DEF Answers
<1>2. \A r : (AsAsked(r)' <=> AsAsked(r)) /\ (Excused(r)' <=> Excused(r))
  BY DEF AsAsked, Excused
<1> QED BY <1>1, <1>2

(* A tally of the same results is the same. *)
LEMMA TallyStays ==
  ASSUME plan' = plan, results' = results
  PROVE  /\ Result' = Result /\ (ResultsInv => ResultsInv')
         /\ AllCovered' <=> AllCovered
         /\ NoneExcused' <=> NoneExcused
         /\ SomeLost' <=> SomeLost
         /\ ReachedCheckpoint' <=> ReachedCheckpoint
         /\ (\A r \in Result : AsAsked(r))' <=> \A r \in Result : AsAsked(r)
<1>1. Result' = Result
  BY DEF Result
<1>2. ResultsInv => ResultsInv'
  BY MeaningStays DEF ResultsInv
<1>3. /\ AllCovered' <=> AllCovered
      /\ NoneExcused' <=> NoneExcused
      /\ (\A r \in Result : AsAsked(r))' <=> \A r \in Result : AsAsked(r)
  BY <1>1, MeaningStays DEF AllCovered, NoneExcused
<1>4. SomeLost' <=> SomeLost
  BY <1>1 DEF SomeLost
<1>5. ReachedCheckpoint' <=> ReachedCheckpoint
  BY DEF ReachedCheckpoint
<1> QED BY <1>1, <1>2, <1>3, <1>4, <1>5

(* A run starts with nothing to tell. *)
LEMMA OutcomeInit == Init => OutcomeInv
<1> SUFFICES ASSUME Init PROVE OutcomeInv
  OBVIOUS
<1>1. /\ pc = "loop" /\ pos = 1 /\ outcome = "passed" /\ raw = "passed" /\ end = "none"
      /\ results = <<>> /\ verified = <<>> /\ Len(results) = 0
  BY DEF Init
<1>2. Result = {}
  BY <1>1 DEF Result
<1>3. plan.steps \in Nat
  BY PlanAssumption DEF Init, PlanSet
<1>4. ResultsInv /\ VerificationInv /\ EndedInv
  BY <1>1 DEF ResultsInv, VerificationInv, EndedInv, Over
<1>5. TallyInv
  BY <1>1, <1>2, <1>3 DEF TallyInv, AllCovered, NoneExcused, SomeLost
<1> QED BY <1>4, <1>5 DEF OutcomeInv

(* An abort reports itself: the context was cancelled, and either an answer was
   lost or the plan was not gone through. *)
LEMMA AbortIsHonest ==
  ASSUME ctxDone, Abort, ctxDone' = ctxDone, (~Clean \/ ~Whole)'
  PROVE  EndedInv'
BY DEF EndedInv, Honest, Abort, StartCleanup, Over

(* A step's answer is tallied, and may end the run. *)
LEMMA OutcomeAnswer == RunInv /\ OutcomeInv /\ StepAnswered => OutcomeInv'
<1> SUFFICES ASSUME RunInv, OutcomeInv, StepAnswered PROVE OutcomeInv'
  OBVIOUS
<1>1. PICK a \in Answers(pos) :
        /\ results' = Append(results, [step |-> pos, answer |-> a])
        /\ AbortInStep(pos, a) \/ Settle(pos, a)
  BY DEF StepAnswered
<1> DEFINE r == [step |-> pos, answer |-> a]
<1>2. /\ pos \in Step /\ a \in Answer /\ pc = "inFlight" /\ end = "none"
      /\ plan' = plan /\ ctxDone' = ctxDone /\ verified' = verified
      /\ r.step = pos /\ r.answer = a
  BY <1>1 DEF StepAnswered, RunInv, TypeOK, OrderInv, Step, Answers
<1>3. /\ Len(results) \in Nat /\ Len(results') = Len(results) + 1
      /\ results'[Len(results) + 1] = r
      /\ \A i \in 1..Len(results) : results'[i] = results[i]
      /\ Result' = Result \cup {r}
  BY <1>1, <1>2, ResultJoins
<1>4. /\ Len(results) = pos - 1 /\ pos <= plan.steps /\ verified = <<>>
      /\ outcome \in {"passed", "failed", "error"}
      /\ outcome = "passed" <=> AllCovered
      /\ outcome = "error" <=> SomeLost
      /\ raw = "passed" <=> NoneExcused
      /\ ~SomeLost
  BY <1>2 DEF OutcomeInv, TallyInv, VerificationInv
<1>5. ResultsInv'
  <2>1. \A i \in 1..Len(results) + 1 : i \in 1..Len(results) \/ i = pos
    BY <1>2, <1>3, <1>4 DEF Step
  <2>2. r.answer \in Answers(pos)
    BY <1>1
  <2> QED BY <1>2, <1>3, <1>4, <2>1, <2>2, MeaningStays DEF OutcomeInv, ResultsInv
<1>6. /\ AllCovered' <=> AllCovered /\ (AsAsked(r) \/ Excused(r))
      /\ NoneExcused' <=> NoneExcused /\ (AsAsked(r) \/ ~Excused(r))
      /\ SomeLost' <=> SomeLost \/ a.got = "error"
  BY <1>2, <1>3, MeaningStays DEF AllCovered, NoneExcused, SomeLost
<1>7. /\ Failing(pos, a) <=> ~AsAsked(r)
      /\ Suppressed(pos, a) <=> ~AsAsked(r) /\ Excused(r)
      /\ Uncovered(pos, a) <=> ~AsAsked(r) /\ ~Excused(r)
  BY <1>2, AnswerMeaning
<1>8. a.got = "error" => ~Excused(r) /\ ~AsAsked(r)
  BY <1>2, <1>7 DEF Excused, Failing
<1> HIDE DEF r
<1>9. CASE AbortInStep(pos, a)
  <2>1. a.got = "error" /\ ctxDone /\ pc' = "cleanup" /\ Abort
    BY <1>9 DEF AbortInStep, Interrupted, Abort, StartCleanup
  <2>2. ~Clean'
    BY <1>2, <1>6, <1>8, <2>1 DEF Clean, AllCovered
  <2>3. EndedInv'
    BY <1>2, <2>1, <2>2, AbortIsHonest
  <2> QED BY <1>5, <2>1, <2>3 DEF OutcomeInv, TallyInv, VerificationInv
<1>10. CASE Settle(pos, a)
  <2>1. /\ pc' = "loop" /\ pos' = pos + 1 /\ end' = EndOf(pos, a)
        /\ outcome' = IF a.got = "error" THEN "error"
                      ELSE IF Uncovered(pos, a) THEN "failed" ELSE outcome
        /\ raw' = IF Suppressed(pos, a) THEN "failed" ELSE raw
    BY <1>10 DEF Settle
  <2>2. VerificationInv' /\ EndedInv'
    BY <1>2, <1>4, <2>1 DEF VerificationInv, EndedInv, Over
  <2>3. Len(results') = pos' - 1 /\ pos' <= plan'.steps + 1
    <3>1. plan.steps \in Nat /\ pos \in Nat
      BY <1>2, PlanIsTyped DEF RunInv, PlanSet, Step
    <3> QED BY <1>2, <1>3, <1>4, <2>1, <3>1
  <2>4. /\ EndOf(pos, a) = "error" => Uncovered(pos, a)
        /\ a.got = "error" => EndOf(pos, a) = "error"
        /\ EndOf(pos, a) = "checkpoint" => pos = plan.stopAfter /\ (a.got = "ok" \/ a.match)
    BY <1>2, EndMeaning
  <2>5. /\ outcome' \in {"passed", "failed", "error"}
        /\ outcome' = "passed" <=> AllCovered'
        /\ outcome' = "error" <=> SomeLost'
        /\ raw' = "passed" <=> NoneExcused'
        /\ end' = "error" => outcome' # "passed"
        /\ SomeLost' => end' = "error"
    BY <1>4, <1>6, <1>7, <1>8, <2>1, <2>4
  <2>6. end' = "checkpoint" => ReachedCheckpoint'
    BY <1>2, <1>3, <2>1, <2>4 DEF ReachedCheckpoint
  <2>7. TallyInv'
    BY <2>3, <2>5, <2>6 DEF TallyInv
  <2> QED BY <1>5, <2>2, <2>7 DEF OutcomeInv
<1> QED BY <1>1, <1>9, <1>10

(* What a run that ended its own steps tells, it goes on telling. *)
LEMMA EndedStays ==
  ASSUME UNCHANGED <<plan, outcome, end, results, verified>>, ctxDone => ctxDone'
  PROVE  /\ Honest => Honest'
         /\ AllAsAsked' <=> AllAsAsked
<1>1. AllVerified' <=> AllVerified
  BY DEF AllVerified
<1>2. AllAsAsked' <=> AllAsAsked
  BY <1>1, TallyStays DEF AllAsAsked
<1>3. (Clean' <=> Clean) /\ (Whole' <=> Whole) /\ (Lost' <=> Lost)
  BY <1>1, TallyStays DEF Clean, AllCovered, Whole, Lost, SomeLost
<1> QED BY <1>2, <1>3 DEF Honest, AtCheckpoint

(* Nothing but the tally decides how a run without verification ends. *)
LEMMA EndIsHonest == RunInv /\ OutcomeInv /\ (EndRun \/ StopAtCheckpoint) => OutcomeInv'
<1> SUFFICES ASSUME RunInv, OutcomeInv, EndRun \/ StopAtCheckpoint PROVE OutcomeInv'
  OBVIOUS
<1>1. /\ pc = "loop"
      /\ pos > plan.steps \/ end # "none"
      /\ UNCHANGED <<plan, pos, ctxDone, raw, end, results, verified>>
      /\ pc' \in {"cleanup", "done"}
  BY DEF EndRun, StopAtCheckpoint, LoopOver, StartCleanup, engineVars
<1>2. /\ Len(results) = pos - 1 /\ pos <= plan.steps + 1
      /\ outcome \in {"passed", "failed", "error"}
      /\ outcome = "passed" <=> AllCovered
      /\ outcome = "error" <=> SomeLost
      /\ raw = "passed" <=> NoneExcused
      /\ end = "error" => outcome # "passed"
      /\ SomeLost => end = "error"
      /\ end = "checkpoint" => ReachedCheckpoint
      /\ verified = <<>>
  BY <1>1 DEF OutcomeInv, TallyInv, VerificationInv
<1>3. pos \in Nat /\ plan.steps \in Nat /\ plan.checks \in Nat
  BY PlanIsTyped DEF RunInv, TypeOK, PlanSet
<1>4. (Clean <=> AllCovered) /\ (Lost <=> SomeLost)
  BY <1>2 DEF Clean, AllVerified, AllCovered, Lost, SomeLost
<1>5. (Clean' <=> Clean) /\ (Lost' <=> Lost) /\ (Whole' <=> Whole)
      /\ (AllAsAsked' <=> AllAsAsked)
  <2>1. AllVerified' <=> AllVerified
    BY <1>1 DEF AllVerified
  <2> QED BY <1>1, <2>1, TallyStays DEF Clean, AllCovered, Lost, SomeLost, Whole, AllAsAsked
<1>6. ResultsInv' /\ TallyInv' /\ VerificationInv'
  BY <1>1, TallyStays DEF OutcomeInv, TallyInv, VerificationInv
<1>7. CASE StopAtCheckpoint
  <2>1. /\ end = "checkpoint" /\ pc' = "done" /\ settled' = settled
        /\ outcome' = IF outcome = "failed" THEN "failed" ELSE "stopped"
    BY <1>7 DEF StopAtCheckpoint, cleanupVars
  <2>2. settled = <<>>
    BY <1>1 DEF RunInv, OrderInv
  <2>3. Honest'
    BY <1>1, <1>2, <1>4, <1>5, <2>1 DEF Honest, AtCheckpoint
  <2> QED BY <1>1, <1>2, <1>6, <2>1, <2>2, <2>3, TallyStays
          DEF OutcomeInv, EndedInv, Over, AtCheckpoint
<1>8. CASE EndRun
  <2>1. /\ pc' = "cleanup" /\ outcome' = outcome /\ gate' = Gating(outcome)
        /\ end \in {"error", "covered"} \/ (end = "none" /\ plan.checks = 0)
    BY <1>8 DEF EndRun, StartCleanup, engineVars
  <2>2. end = "none" => Whole
    <3> SUFFICES ASSUME end = "none" PROVE Len(results) = plan.steps /\ Len(verified) = plan.checks
      BY DEF Whole
    <3>1. pos = plan.steps + 1
      BY <1>1, <1>2, <1>3
    <3> QED BY <1>2, <1>3, <2>1, <3>1
  <2>3. Honest'
    BY <1>1, <1>2, <1>4, <1>5, <2>1, <2>2 DEF Honest, AtCheckpoint, Whole
  <2>4. AllAsAsked <=> AllCovered /\ NoneExcused
    BY <1>2 DEF AllAsAsked, AllVerified, AllCovered, NoneExcused
  <2>5. gate' = "passed" <=> AllAsAsked'
    BY <1>2, <1>5, <2>1, <2>4 DEF Gating
  <2> QED BY <1>6, <2>1, <2>3, <2>5 DEF OutcomeInv, EndedInv, Over
<1> QED BY <1>7, <1>8

(* A verification step's answer replaces the run's outcome only when it is
   worse. *)
LEMMA OutcomeCheck == RunInv /\ OutcomeInv /\ CheckAnswered => OutcomeInv'
<1> SUFFICES ASSUME RunInv, OutcomeInv, CheckAnswered PROVE OutcomeInv'
  OBVIOUS
<1>1. PICK v \in {"pass", "fail", "error"} :
        /\ verified' = Append(verified, v)
        /\ \/ Interrupted(v) /\ Abort
           \/ /\ VerificationOver(v)
              /\ outcome' = VerificationOutcome(v)
              /\ StartCleanup(Gating(VerificationOutcome(v)))
           \/ /\ ~VerificationOver(v)
              /\ pc' = "verify"
              /\ UNCHANGED <<outcome, cleanupVars>>
  BY DEF CheckAnswered
<1>2. pc = "checking" /\ end = "none" /\ UNCHANGED <<plan, pos, ctxDone, raw, end, results>>
  BY DEF CheckAnswered, RunInv, OrderInv
<1>3. /\ Len(results) = pos - 1 /\ pos = plan.steps + 1
      /\ outcome \in {"passed", "failed", "error"}
      /\ outcome = "passed" <=> AllCovered
      /\ outcome = "error" <=> SomeLost
      /\ raw = "passed" <=> NoneExcused
      /\ ~SomeLost
      /\ Len(verified) < plan.checks
      /\ \A i \in 1..Len(verified) : verified[i] # "error"
  BY <1>2 DEF OutcomeInv, TallyInv, VerificationInv
<1>4. pos \in Nat /\ plan.steps \in Nat /\ plan.checks \in Nat
  BY PlanIsTyped DEF RunInv, TypeOK, PlanSet
<1>5. /\ Len(verified) \in Nat /\ Len(verified') = Len(verified) + 1
      /\ verified'[Len(verified) + 1] = v
      /\ \A i \in 1..Len(verified) :
           verified'[i] = verified[i] /\ verified[i] \in {"pass", "fail", "error"}
  BY <1>1 DEF RunInv, TypeOK
<1>6. /\ AllVerified' <=> AllVerified /\ v = "pass"
      /\ Lost' <=> v = "error"
  <2>1. \A i \in 1..Len(verified') : i = Len(verified) + 1 \/ i \in 1..Len(verified)
    BY <1>5
  <2>2. 1..Len(verified) \subseteq 1..Len(verified') /\ Len(verified) + 1 \in 1..Len(verified')
    BY <1>5
  <2>3. AllVerified' <=> AllVerified /\ v = "pass"
    BY <1>5, <2>1, <2>2 DEF AllVerified
  <2>4. SomeLost' <=> SomeLost
    BY <1>2, TallyStays
  <2>5. (\E i \in 1..Len(verified') : verified'[i] = "error") <=> v = "error"
    BY <1>3, <1>5, <2>1, <2>2
  <2> QED BY <1>3, <2>3, <2>4, <2>5 DEF Lost, SomeLost
<1>7. ResultsInv'
  BY <1>2, TallyStays DEF OutcomeInv
<1>8. CASE Interrupted(v) /\ Abort
  <2>1. v = "error" /\ ctxDone /\ pc' = "cleanup"
    BY <1>8 DEF Interrupted, Abort, StartCleanup
  <2>2. ~Clean'
    BY <1>6, <2>1 DEF Clean
  <2>3. EndedInv'
    BY <1>2, <1>8, <2>1, <2>2, AbortIsHonest
  <2> QED BY <1>7, <2>1, <2>3 DEF OutcomeInv, TallyInv, VerificationInv
<1>9. CASE /\ VerificationOver(v)
           /\ outcome' = VerificationOutcome(v)
           /\ StartCleanup(Gating(VerificationOutcome(v)))
  <2>1. pc' = "cleanup" /\ gate' = Gating(outcome')
    BY <1>9 DEF StartCleanup
  <2>2. outcome' = IF v = "error" THEN "error"
                   ELSE IF AllVerified' THEN outcome ELSE "failed"
    <3>1. v # "error" => (AllVerified' <=> ~(v = "fail" \/ \E i \in 1..Len(verified) : verified[i] = "fail"))
      BY <1>3, <1>5, <1>6 DEF AllVerified
    <3> QED BY <1>9, <3>1 DEF VerificationOutcome
  <2>3. Clean' <=> AllCovered /\ AllVerified'
    BY <1>2, TallyStays DEF Clean, AllCovered
  <2>4. AllVerified' => Whole'
    <3>1. v = "pass" => Len(verified) + 1 = plan.checks
      BY <1>9 DEF VerificationOver
    <3> QED BY <1>2, <1>3, <1>4, <1>5, <1>6, <3>1 DEF Whole
  <2>5. Honest'
    BY <1>2, <1>3, <1>6, <2>2, <2>3, <2>4 DEF Honest, AtCheckpoint
  <2>6. AllAsAsked' <=> AllCovered /\ NoneExcused /\ AllVerified'
    BY <1>2, TallyStays DEF AllAsAsked, AllCovered, NoneExcused
  <2>7. gate' = "passed" <=> AllAsAsked'
    BY <1>2, <1>3, <1>6, <2>1, <2>2, <2>6 DEF Gating
  <2> QED BY <1>7, <2>1, <2>5, <2>7 DEF OutcomeInv, TallyInv, VerificationInv, EndedInv, Over
<1>10. CASE /\ ~VerificationOver(v)
            /\ pc' = "verify"
            /\ UNCHANGED <<outcome, cleanupVars>>
  <2>1. v # "error" /\ Len(verified) + 1 # plan.checks
    BY <1>10 DEF VerificationOver
  <2>2. TallyInv'
    BY <1>2, <1>10, TallyStays DEF OutcomeInv, TallyInv
  <2>3. Len(verified') < plan.checks
    BY <1>3, <1>4, <1>5, <2>1
  <2>4. \A i \in 1..Len(verified') : verified'[i] # "error"
    BY <1>3, <1>5, <2>1
  <2>5. VerificationInv' /\ EndedInv'
    BY <1>2, <1>3, <1>10, <2>3, <2>4 DEF VerificationInv, EndedInv, Over
  <2> QED BY <1>7, <2>2, <2>5 DEF OutcomeInv
<1> QED BY <1>1, <1>8, <1>9, <1>10

(* The other steps tell nothing new; an interrupt is only remembered. *)
LEMMA OutcomeOthers ==
  ASSUME RunInv, OutcomeInv,
         \/ Interrupt \/ Terminated \/ SendStep \/ AbortBeforeStep \/ StartVerification
         \/ SendCheck \/ RunExtra \/ CleanupDone \/ UNCHANGED vars
  PROVE  OutcomeInv'
<1> USE DEF engineVars, cleanupVars
<1>1. ResultsInv'
  <2>1. plan' = plan /\ results' = results
    BY DEF Interrupt, Terminated, SendStep, AbortBeforeStep, StartVerification,
           SendCheck, RunExtra, CleanupDone, vars, Abort
  <2> QED BY <2>1, TallyStays DEF OutcomeInv
<1>2. CASE Interrupt \/ Terminated \/ UNCHANGED vars \/ RunExtra \/ CleanupDone
  <2>1. /\ UNCHANGED <<plan, pos, outcome, raw, end, results, verified, gate, settled>>
        /\ ctxDone => ctxDone'
        /\ \/ pc' = pc
           \/ pc = "cleanup" /\ pc' = "done"
    BY <1>2 DEF Interrupt, Terminated, RunExtra, CleanupDone, vars
  <2>2. /\ Honest => Honest'
        /\ AllAsAsked' <=> AllAsAsked
    BY <2>1, EndedStays
  <2>3. pc = "cleanup" => ~AtCheckpoint
    BY DEF RunInv, OrderInv
  <2>4. EndedInv'
    BY <2>1, <2>2, <2>3, TallyStays DEF OutcomeInv, EndedInv, Over, AtCheckpoint
  <2>5. TallyInv' /\ VerificationInv'
    BY <2>1, TallyStays DEF OutcomeInv, TallyInv, VerificationInv
  <2> QED BY <1>1, <2>4, <2>5 DEF OutcomeInv
<1>3. CASE SendStep \/ StartVerification
  <2>1. /\ UNCHANGED <<plan, pos, ctxDone, outcome, raw, end, results, verified>>
        /\ pc = "loop"
        /\ \/ pc' = "inFlight" /\ pos <= plan.steps
           \/ pc' = "verify" /\ pos > plan.steps /\ plan.checks > 0
    BY <1>3 DEF SendStep, StartVerification, LoopOver
  <2>2. pos \in Nat /\ plan.steps \in Nat
    BY PlanIsTyped DEF RunInv, TypeOK, PlanSet
  <2>3. TallyInv' /\ EndedInv'
    BY <2>1, TallyStays DEF OutcomeInv, TallyInv, EndedInv, Over
  <2>4. verified = <<>> /\ pos <= plan.steps + 1
    BY <2>1 DEF OutcomeInv, TallyInv, VerificationInv
  <2>5. VerificationInv'
    BY <2>1, <2>2, <2>4 DEF VerificationInv
  <2> QED BY <1>1, <2>3, <2>5 DEF OutcomeInv
<1>4. CASE AbortBeforeStep
  <2>1. /\ UNCHANGED <<plan, pos, ctxDone, end, results, verified>>
        /\ pc = "loop" /\ pos <= plan.steps /\ end = "none" /\ ctxDone /\ Abort
    BY <1>4 DEF AbortBeforeStep
  <2>2. pos \in Nat /\ plan.steps \in Nat /\ Len(results) = pos - 1
    BY <2>1, PlanIsTyped DEF RunInv, TypeOK, PlanSet, OutcomeInv, TallyInv
  <2>3. ~Whole'
    BY <2>1, <2>2 DEF Whole
  <2>4. EndedInv' /\ pc' = "cleanup"
    BY <2>1, <2>3, AbortIsHonest DEF Abort, StartCleanup
  <2> QED BY <1>1, <2>4 DEF OutcomeInv, TallyInv, VerificationInv
<1>5. CASE SendCheck
  <2>1. CASE ctxDone
    <3>1. Abort /\ verified' = Append(verified, "error") /\ ctxDone' = ctxDone
      BY <1>5, <2>1 DEF SendCheck
    <3>2. verified \in Seq({"pass", "fail", "error"})
      BY DEF RunInv, TypeOK
    <3>3. Len(verified) + 1 \in 1..Len(verified') /\ verified'[Len(verified) + 1] = "error"
      BY <3>1, <3>2
    <3>4. ~Clean'
      BY <3>3 DEF Clean, AllVerified
    <3>5. EndedInv' /\ pc' = "cleanup"
      BY <2>1, <3>1, <3>4, AbortIsHonest DEF Abort, StartCleanup
    <3> QED BY <1>1, <3>5 DEF OutcomeInv, TallyInv, VerificationInv
  <2>2. CASE ~ctxDone
    <3>1. /\ UNCHANGED <<plan, pos, ctxDone, outcome, raw, end, results, verified>>
          /\ pc = "verify" /\ pc' = "checking"
      BY <1>5, <2>2 DEF SendCheck
    <3>2. TallyInv' /\ VerificationInv' /\ EndedInv'
      BY <3>1, TallyStays DEF OutcomeInv, TallyInv, VerificationInv, EndedInv, Over
    <3> QED BY <1>1, <3>2 DEF OutcomeInv
  <2> QED BY <2>1, <2>2
<1> QED BY <1>2, <1>3, <1>4, <1>5

(* Cleaning up tells nothing new. *)
LEMMA OutcomePop ==
  ASSUME OutcomeInv, NEW how \in How, Pop(how)
  PROVE  OutcomeInv'
<1>1. /\ UNCHANGED <<plan, pos, ctxDone, outcome, raw, end, results, verified, gate>>
      /\ pc = "cleanup" /\ pc' = "cleanup"
  BY DEF Pop
<1>2. /\ Honest => Honest'
      /\ AllAsAsked' <=> AllAsAsked
  BY <1>1, EndedStays
<1>3. ResultsInv' /\ TallyInv' /\ VerificationInv'
  BY <1>1, TallyStays DEF OutcomeInv, TallyInv, VerificationInv
<1>4. EndedInv'
  BY <1>1, <1>2 DEF OutcomeInv, EndedInv, Over
<1> QED BY <1>3, <1>4 DEF OutcomeInv

(* Every step of a run keeps its tally. *)
LEMMA OutcomeNext == RunInv /\ OutcomeInv /\ [Next]_vars => OutcomeInv'
<1> SUFFICES ASSUME RunInv, OutcomeInv, [Next]_vars PROVE OutcomeInv'
  OBVIOUS
<1>1. CASE StepAnswered
  BY <1>1, OutcomeAnswer
<1>2. CASE EndRun \/ StopAtCheckpoint
  BY <1>2, EndIsHonest
<1>3. CASE CheckAnswered
  BY <1>3, OutcomeCheck
<1>4. CASE \/ DropUnselected \/ SkipReleased \/ SkipCondition
           \/ \E how \in {"cleaned", "failed"} : CleanUp(how)
  <2>1. PICK how \in How : Pop(how)
    BY <1>4 DEF DropUnselected, SkipReleased, SkipCondition, CleanUp, How
  <2> QED BY <2>1, OutcomePop
<1>5. CASE \/ Interrupt \/ Terminated \/ SendStep \/ AbortBeforeStep \/ StartVerification
           \/ SendCheck \/ RunExtra \/ CleanupDone \/ UNCHANGED vars
  BY <1>5, OutcomeOthers
<1> QED BY <1>1, <1>2, <1>3, <1>4, <1>5 DEF Next, Progress

LEMMA OutcomeInvHolds == Spec => []OutcomeInv
<1>1. RunInv /\ RunInv' /\ OutcomeInv /\ [Next]_vars => OutcomeInv'
  BY OutcomeNext
<1> QED BY <1>1, OutcomeInit, RunInvHolds, PTL DEF Spec

(* The outcome a run reports says what happened, for plans of any length:
   passed if and only if the run did all it was asked, error if and only if an
   answer was lost (engine.go Run, runVerification, abortedResult,
   checkpointResult). *)
THEOREM OutcomesAreHonest == Spec => []OutcomeIsHonest
<1>1. OutcomeInv => OutcomeIsHonest
  BY DEF OutcomeInv, EndedInv, OutcomeIsHonest, Over
<1> QED BY <1>1, OutcomeInvHolds, PTL

(* Cleanup is gated on what really happened, a failure that a knownIssue
   excuses included (known_issue.go gating, engine.go endRun). *)
THEOREM CleanupIsGatedOnTruth == Spec => []CleanupGateIsTruth
<1>1. OutcomeInv => CleanupGateIsTruth
  BY DEF OutcomeInv, EndedInv, CleanupGateIsTruth, AllAsAsked
<1> QED BY <1>1, OutcomeInvHolds, PTL

-----------------------------------------------------------------------------
(* The results tell a release by their places alone. *)
LEMMA ReleasedIs ==
  ASSUME RunInv, ResultsInv, NEW s \in Step
  PROVE  Released(s) <=> \E j \in 1..Len(results) :
                            s < j /\ plan.releases[results[j].step] = s /\ DidItsJob(results[j])
<1>1. Len(results) \in Nat /\ s \in Nat /\ s >= 1
  BY PlanAssumption DEF RunInv, TypeOK, Step
<1>2. \A i \in 1..Len(results) : results[i].step = i
  BY DEF ResultsInv
<1>3. \A j \in 1..Len(results) : s < j => s \in 1..Len(results)
  BY <1>1
<1> QED BY <1>1, <1>2, <1>3 DEF Released

(* Nothing is alive or owed when a run starts. *)
LEMMA LiveInit == Init => LiveInv
<1> SUFFICES ASSUME Init PROVE LiveInv
  OBVIOUS
<1>1. results = <<>> /\ stack = <<>> /\ settled = <<>> /\ live = {}
  BY DEF Init
<1>2. Result = {}
  BY <1>1 DEF Result
<1> QED BY <1>1, <1>2 DEF LiveInv, Acknowledged, Registered, Released

(* What leaves the results, the stack and the API alone keeps the account. *)
LEMMA LiveStays ==
  ASSUME LiveInv, UNCHANGED <<plan, results, stack, settled, live>>
  PROVE  LiveInv'
BY DEF LiveInv, Acknowledged, Registered, Settled, ReleaseTried, Released, DidItsJob, Result

(* An answer that was acknowledged puts its step on the stack; one that may have
   released a resource is remembered as such. *)
LEMMA LiveAnswer == RunInv /\ OutcomeInv /\ LiveInv /\ StepAnswered => LiveInv'
<1> SUFFICES ASSUME RunInv, OutcomeInv, LiveInv, StepAnswered PROVE LiveInv'
  OBVIOUS
<1>1. PICK a \in Answers(pos) :
        /\ ApiAnswers(pos, a)
        /\ results' = Append(results, [step |-> pos, answer |-> a])
        /\ AbortInStep(pos, a) \/ Settle(pos, a)
  BY DEF StepAnswered
<1> DEFINE r == [step |-> pos, answer |-> a]
<1>2. /\ pos \in Step /\ pos \in Nat /\ a \in Answer /\ pc = "inFlight" /\ settled = <<>>
      /\ plan' = plan /\ settled' = settled
      /\ r.step = pos /\ r.answer = a
      /\ Len(results) = pos - 1
  BY <1>1, PlanAssumption
     DEF StepAnswered, RunInv, TypeOK, OrderInv, Step, Answers, OutcomeInv, TallyInv,
         AbortInStep, Abort, StartCleanup, Settle, cleanupVars
<1>3. /\ Len(results) \in Nat /\ Len(results') = Len(results) + 1
      /\ results'[pos] = r
      /\ \A i \in 1..Len(results) : results'[i] = results[i] /\ i # pos /\ i < pos
      /\ Result' = Result \cup {r}
  BY <1>1, <1>2, ResultJoins
<1>4. \A i \in 1..Len(results') : i = pos \/ i \in 1..Len(results)
  BY <1>2, <1>3
<1>5. 1..Len(results) \subseteq 1..Len(results') /\ pos \in 1..Len(results')
  BY <1>2, <1>3
<1>6. RunInv' /\ ResultsInv' /\ ResultsInv
  BY AnswerHolds, OutcomeAnswer DEF OutcomeInv
<1> HIDE DEF r
<1>7. \A s \in Step : Acknowledged(s) => s < pos
  <2>1. \A q \in Result : q.step < pos
    BY <1>3, <1>6 DEF Result, ResultsInv
  <2> QED BY <2>1 DEF Acknowledged
<1>8. \A s \in Step :
        Acknowledged(s)' <=> Acknowledged(s) \/ (s = pos /\ a.got = "ok" /\ s \in plan.creates)
  BY <1>2, <1>3 DEF Acknowledged
<1>9. \A s \in Step :
        ReleaseTried(s)' <=>
          \/ ReleaseTried(s)
          \/ s < pos /\ plan.releases[pos] = s /\ (a.got = "ok" \/ a.mayAct)
  BY <1>2, <1>3, <1>4, <1>5 DEF ReleaseTried
<1>10. \A s \in Step :
         Released(s)' <=>
           \/ Released(s)
           \/ s < pos /\ plan.releases[pos] = s /\ a.got = "ok" /\ pos \notin plan.negative
  <2>1. \A s \in Step :
          Released(s)' <=> \E j \in 1..Len(results') :
                             s < j /\ plan.releases[results'[j].step] = s /\ DidItsJob(results'[j])
    BY <1>2, <1>4, <1>6 DEF Released, ResultsInv, DidItsJob, Step
  <2> QED BY <1>2, <1>3, <1>4, <1>5, <1>6, <2>1, ReleasedIs DEF DidItsJob
<1>11. \A s \in Step : Released(s) => s < pos
  <2>1. \A s \in Step : \A j \in 1..Len(results) : s < j => s < pos
    BY <1>2 DEF Step
  <2> QED BY <1>6, <2>1, ReleasedIs
<1>12. /\ pos \notin live' => a.got # "ok" \/ pos \notin plan.creates
       /\ \A s \in Step : s < pos =>
            /\ s \in live' => s \in live /\ (a.got = "ok" => plan.releases[pos] # s)
            /\ s \in live => s \in live' \/ (plan.releases[pos] = s /\ (a.got = "ok" \/ a.mayAct))
  BY <1>1, <1>2 DEF ApiAnswers, Effect
<1>13. Len(settled) = 0 /\ Len(settled') = 0 /\ \A s \in Step : ~Settled(s)
  <2>1. Len(settled) = 0 /\ Len(settled') = 0
    BY <1>2
  <2> QED BY <2>1 DEF Settled
<1>14. \A s \in Step : Acknowledged(s)' /\ s \notin plan.negative => Registered(s)'
  <2>1. CASE AbortInStep(pos, a)
    <3>1. a.got # "ok" /\ stack' = stack
      BY <2>1 DEF AbortInStep, Interrupted
    <3> QED BY <1>2, <1>8, <3>1 DEF LiveInv, Registered, Settled
  <2>2. CASE Settle(pos, a)
    <3>1. stack' = (IF Registers(pos, a) THEN Append(stack, pos) ELSE stack) /\ stack \in Seq(Step)
      BY <2>2 DEF Settle, RunInv, TypeOK
    <3>2. \A s \in Step : Registered(s) => Registered(s)'
      BY <3>1 DEF Registered
    <3>3. \A s \in Step : s = pos /\ Registers(pos, a) => Registered(s)'
      <4>1. Registers(pos, a) => /\ Len(stack) + 1 \in 1..Len(stack')
                                 /\ stack'[Len(stack) + 1] = pos
        BY <3>1
      <4> QED BY <4>1 DEF Registered
    <3> QED BY <1>2, <1>8, <3>2, <3>3 DEF LiveInv, Settled, Registers
  <2> QED BY <1>1, <2>1, <2>2
<1>15. \A s \in Step : Registered(s)' => Acknowledged(s)'
  <2>1. \A s \in Step : Registered(s)' => Registered(s) \/ (s = pos /\ Registers(pos, a))
    <3>1. /\ stack \in Seq(Step)
          /\ stack' = stack \/ (Registers(pos, a) /\ stack' = Append(stack, pos))
      BY <1>1 DEF AbortInStep, Settle, RunInv, TypeOK
    <3> QED BY <3>1 DEF Registered
  <2> QED BY <1>8, <2>1 DEF LiveInv, Registers
<1>16. \A s \in Step : Acknowledged(s)' => s \in live' \/ ReleaseTried(s)'
  <2> SUFFICES ASSUME NEW s \in Step, Acknowledged(s)' PROVE s \in live' \/ ReleaseTried(s)'
    OBVIOUS
  <2>1. CASE Acknowledged(s)
    <3>1. s < pos /\ (s \in live \/ ReleaseTried(s))
      BY <1>7, <1>13, <2>1 DEF LiveInv
    <3> QED BY <1>9, <1>12, <3>1
  <2>2. CASE s = pos /\ a.got = "ok" /\ s \in plan.creates
    BY <1>12, <2>2
  <2> QED BY <1>8, <2>1, <2>2
<1>17. \A s \in Step : Released(s)' => s \notin live'
  BY <1>10, <1>11, <1>12 DEF LiveInv
<1>18. \A i \in 1..Len(settled') : FALSE
  BY <1>13
<1> QED BY <1>2, <1>14, <1>15, <1>16, <1>17, <1>18 DEF LiveInv

(* A settled cleanup leaves the stack for the history, and what was cleaned or
   released is gone. *)
LEMMA LivePop ==
  ASSUME RunInv, LiveInv,
         \/ DropUnselected \/ SkipReleased \/ SkipCondition
         \/ \E how \in {"cleaned", "failed"} : CleanUp(how)
  PROVE  LiveInv'
<1>1. PICK how \in How :
        /\ Pop(how) /\ live' \subseteq live
        /\ how = "released" => Released(Top)
        /\ how = "cleaned" => Top \notin live'
        /\ \A s \in live : s \in live' \/ s = Top
  BY DEF DropUnselected, SkipReleased, SkipCondition, CleanUp, How
<1>2. /\ UNCHANGED <<plan, results>> /\ stack' = Rest
      /\ settled' = Append(settled, [step |-> Top, how |-> how])
      /\ stack \in Seq(Step) /\ stack # <<>> /\ settled \in Seq([step : Step, how : How])
  BY <1>1 DEF Pop, RunInv, TypeOK
<1> DEFINE top == Top
<1>3. top \in Step /\ Registered(top)
  <2>1. Len(stack) \in 1..Len(stack)
    BY <1>2
  <2> QED BY <1>2, <2>1 DEF Top, Registered
<1>4. \A s \in Step : Settled(s)' <=> Settled(s) \/ s = top
  <2>1. /\ Len(settled') = Len(settled) + 1 /\ Len(settled) \in Nat
        /\ settled'[Len(settled) + 1].step = top
        /\ \A i \in 1..Len(settled) : settled'[i] = settled[i]
    BY <1>2, <1>3
  <2>2. \A i \in 1..Len(settled') : i = Len(settled) + 1 \/ i \in 1..Len(settled)
    BY <2>1
  <2>3. 1..Len(settled) \subseteq 1..Len(settled') /\ Len(settled) + 1 \in 1..Len(settled')
    BY <2>1
  <2> HIDE DEF top
  <2> QED BY <2>1, <2>2, <2>3 DEF Settled
<1>5. \A s \in Step : /\ Registered(s)' => Registered(s)
                      /\ Registered(s) => Registered(s)' \/ s = top
  <2>1. /\ Len(Rest) = Len(stack) - 1 /\ Len(stack) \in Nat
        /\ \A i \in 1..Len(Rest) : Rest[i] = stack[i]
    BY <1>2, ButLast DEF Rest
  <2>2. \A i \in 1..Len(stack) : i \in 1..Len(Rest) \/ stack[i] = top
    BY <1>2, <2>1 DEF Top
  <2>3. 1..Len(Rest) \subseteq 1..Len(stack)
    BY <2>1
  <2> HIDE DEF top
  <2> QED BY <1>2, <2>1, <2>2, <2>3 DEF Registered
<1>6. \A s \in Step : /\ Acknowledged(s)' <=> Acknowledged(s)
                      /\ ReleaseTried(s)' <=> ReleaseTried(s)
                      /\ Released(s)' <=> Released(s)
  BY <1>2 DEF Acknowledged, ReleaseTried, Released, DidItsJob, Result
<1>7. \A i \in 1..Len(settled') :
        settled'[i].how \in {"cleaned", "released"} => settled'[i].step \notin live'
  <2>1. /\ Len(settled') = Len(settled) + 1 /\ Len(settled) \in Nat
        /\ settled'[Len(settled) + 1] = [step |-> top, how |-> how]
        /\ \A i \in 1..Len(settled) : settled'[i] = settled[i]
    BY <1>1, <1>2, <1>3
  <2>2. how \in {"cleaned", "released"} => top \notin live'
    BY <1>1, <1>3 DEF LiveInv
  <2> SUFFICES ASSUME NEW i \in 1..Len(settled'), settled'[i].how \in {"cleaned", "released"}
               PROVE  settled'[i].step \notin live'
    OBVIOUS
  <2> HIDE DEF top
  <2>3. CASE i = Len(settled) + 1
    BY <2>1, <2>2, <2>3
  <2>4. CASE i \in 1..Len(settled)
    BY <1>1, <2>1, <2>4 DEF LiveInv
  <2> QED BY <2>1, <2>3, <2>4
<1>8. \A s \in live : s \in live' \/ s = top
  BY <1>1
<1> HIDE DEF top
<1> QED BY <1>1, <1>2, <1>3, <1>4, <1>5, <1>6, <1>7, <1>8 DEF LiveInv

(* Every step of a run keeps the account of what is alive. *)
LEMMA LiveNext == RunInv /\ OutcomeInv /\ LiveInv /\ [Next]_vars => LiveInv'
<1> SUFFICES ASSUME RunInv, OutcomeInv, LiveInv, [Next]_vars PROVE LiveInv'
  OBVIOUS
<1>1. CASE StepAnswered
  BY <1>1, LiveAnswer
<1>2. CASE \/ DropUnselected \/ SkipReleased \/ SkipCondition
           \/ \E how \in {"cleaned", "failed"} : CleanUp(how)
  BY <1>2, LivePop
<1>3. CASE \/ Interrupt \/ Terminated \/ SendStep \/ AbortBeforeStep \/ StopAtCheckpoint
           \/ EndRun \/ StartVerification \/ SendCheck \/ CheckAnswered \/ RunExtra \/ CleanupDone
           \/ UNCHANGED vars
  <2>1. UNCHANGED <<plan, results, stack, settled, live>>
    BY <1>3 DEF Interrupt, Terminated, SendStep, AbortBeforeStep, StopAtCheckpoint, EndRun,
                StartVerification, SendCheck, CheckAnswered, RunExtra, CleanupDone, Abort,
                StartCleanup, vars, engineVars, cleanupVars
  <2> QED BY <2>1, LiveStays
<1> QED BY <1>1, <1>2, <1>3 DEF Next, Progress

LEMMA LiveInvHolds == Spec => [](RunInv /\ OutcomeInv /\ LiveInv)
<1>1. RunInv /\ OutcomeInv /\ LiveInv /\ [Next]_vars => LiveInv'
  BY LiveNext
<1> QED BY <1>1, LiveInit, RunInvHolds, OutcomeInvHolds, PTL DEF Spec

(* Nothing the API acknowledged is left alive by a run that cleans up, but what
   the plan keeps, what a failed cleanup left, and what a step meant to fail
   made; and nothing but a main step took from a harness what a checkpoint left
   it (engine.go Run, checkpointResult; cleanup.go runCleanup). *)
THEOREM NothingLeaks == Spec => []NoLeak
<1>1. RunInv /\ OutcomeInv /\ LiveInv => NoLeak
  <2> SUFFICES ASSUME RunInv, OutcomeInv, LiveInv, Over PROVE NoLeak
    BY DEF NoLeak
  <2>1. CASE ~AtCheckpoint
    <3>1. stack = <<>>
      BY <2>1 DEF RunInv, OrderInv, Over
    <3>2. \A s : ~Registered(s)
      BY <3>1 DEF Registered
    <3>3. \A i \in 1..Len(settled) : settled[i].how \in How
      <4> DEFINE Entry == [step : Step, how : How]
      <4>1. settled \in Seq(Entry)
        BY DEF RunInv, TypeOK
      <4>2. \A i \in 1..Len(settled) : settled[i] \in Entry
        <5> HIDE DEF Entry
        <5> QED BY <4>1, ElementOfSeq
      <4> QED BY <4>2
    <3> SUFFICES ASSUME NEW s \in live \ plan.negative, Acknowledged(s)
                 PROVE  \E i \in 1..Len(settled) :
                          settled[i].step = s /\ settled[i].how \in {"failed", "unselected", "condition"}
      BY <2>1 DEF NoLeak
    <3>4. s \in Step
      BY DEF RunInv, TypeOK
    <3>5. PICK i \in 1..Len(settled) : settled[i].step = s
      BY <3>2, <3>4 DEF LiveInv, Settled
    <3>6. settled[i].how \notin {"cleaned", "released"}
      BY <3>5 DEF LiveInv
    <3> QED BY <3>3, <3>5, <3>6 DEF How
  <2>2. CASE AtCheckpoint
    <3>1. ReachedCheckpoint /\ settled = <<>> /\ verified = <<>>
      BY <2>2 DEF OutcomeInv, EndedInv
    <3>2. \A s \in Step : Acknowledged(s) => s \in live \/ ReleaseTried(s)
      <4>1. \A s : ~Settled(s)
        BY <3>1 DEF Settled
      <4> QED BY <4>1 DEF LiveInv
    <3>3. \A s \in Step : ReleaseTried(s) =>
            \E r \in Result : /\ plan.releases[r.step] = s
                              /\ r.answer.got = "ok" \/ r.answer.mayAct
      BY DEF ReleaseTried, Result
    <3> QED BY <2>2, <3>1, <3>2, <3>3 DEF NoLeak, ReachedCheckpoint
  <2> QED BY <2>1, <2>2
<1> QED BY <1>1, LiveInvHolds, PTL

(* A cleanup is sent only for a resource that is alive as far as the answers
   tell: no cleanup releases what a main step released (cleanup_skip.go
   releasingStep). *)
THEOREM CleanupsAreNeeded == Spec => CleanupIsNeeded
<1> DEFINE Needed ==
      settled' # settled /\ settled'[Len(settled')].how \in Sent =>
       LET s == settled'[Len(settled')].step
       IN  \/ s \in live
           \/ \E r \in Result : /\ plan.releases[r.step] = s
                                /\ r.answer.mayAct \/ r.step \in plan.negative
<1>1. RunInv /\ OutcomeInv /\ LiveInv /\ [Next]_vars => [Needed]_vars
  <2> SUFFICES ASSUME RunInv, OutcomeInv, LiveInv, [Next]_vars,
                      settled' # settled, settled'[Len(settled')].how \in Sent
               PROVE  Needed
    OBVIOUS
  <2>1. PICK how \in How : Pop(how) /\ (how \in {"cleaned", "failed"} => ~Released(Top))
    BY DEF Next, Progress, DropUnselected, SkipReleased, SkipCondition, CleanUp, How,
           Interrupt, Terminated, SendStep, AbortBeforeStep, StepAnswered, AbortInStep, Settle,
           StopAtCheckpoint, EndRun, StartVerification, SendCheck, CheckAnswered, RunExtra,
           CleanupDone, Abort, StartCleanup, vars, engineVars, cleanupVars
  <2>2. /\ settled' = Append(settled, [step |-> Top, how |-> how])
        /\ stack \in Seq(Step) /\ stack # <<>> /\ settled \in Seq([step : Step, how : How])
    BY <2>1 DEF Pop, RunInv, TypeOK
  <2> DEFINE top == Top
  <2>3. top \in Step /\ Registered(top) /\ ~Settled(top)
    <3>1. Len(stack) \in 1..Len(stack)
      BY <2>2
    <3>2. top \in Step /\ Registered(top)
      BY <2>2, <3>1 DEF Top, Registered
    <3>3. \A j \in 1..Len(settled) : top < settled[j].step
      BY <3>1 DEF Top, RunInv, OrderInv
    <3>4. top \in Nat
      BY <3>2, PlanAssumption DEF Step
    <3> HIDE DEF top
    <3> QED BY <3>2, <3>3, <3>4 DEF Settled
  <2>4. settled'[Len(settled')] = [step |-> top, how |-> how]
    BY <2>2, <2>3
  <2>5. ~Released(top)
    BY <2>1, <2>4 DEF Sent
  <2> HIDE DEF top
  <2>6. top \in live \/ ReleaseTried(top)
    BY <2>3 DEF LiveInv
  <2>7. ReleaseTried(top) =>
          \E r \in Result : /\ plan.releases[r.step] = top
                            /\ r.answer.mayAct \/ r.step \in plan.negative
    BY <2>3, <2>5, ReleasedIs DEF ReleaseTried, Result, OutcomeInv, DidItsJob
  <2> QED BY <2>4, <2>6, <2>7
<1> QED BY <1>1, LiveInvHolds, PTL DEF Spec, CleanupIsNeeded

-----------------------------------------------------------------------------
(* A response is one of a case, and the checks and the match are what they were
   when they were made. *)
JudgedOn == \E c \in Cases : step = c.step /\ response = c.response /\ schema = c.schema
ChecksAreRun ==
  stage = "checked" \/ (stage = "matched" /\ ~failure) =>
    checks = [i \in 1..Len(step.assertions) |-> CheckAssertion(step.assertions[i])]
MatchIsTheFailures ==
  stage = "matched" /\ ~failure =>
    (matched <=> \E i \in 1..Len(step.expects) :
                   StatusMatches(step.expects[i], FailureStatus[1], FailureStatus[2]))
JudgeInv ==
  /\ JudgedOn
  /\ failure \in BOOLEAN /\ bodyError.status \in Nat
  /\ stage \in {"answered", "read", "checked"} => ~failure
  /\ ChecksAreRun /\ MatchIsTheFailures

(* No response is judged without being read. *)
LEMMA JudgeInitHolds == JudgeInit => JudgeInv
<1> SUFFICES ASSUME JudgeInit PROVE JudgeInv
  OBVIOUS
<1>1. JudgedOn
  BY DEF JudgeInit, JudgedOn
<1>2. failure = FALSE /\ bodyError = NoBodyError /\ stage = "answered"
  BY DEF JudgeInit
<1>3. ChecksAreRun /\ MatchIsTheFailures
  BY <1>2 DEF ChecksAreRun, MatchIsTheFailures
<1> QED BY <1>1, <1>2, <1>3 DEF JudgeInv, NoBodyError

(* What an assertion comes to, and the status it reads, are the response's. *)
LEMMA ChecksStay ==
  ASSUME UNCHANGED <<step, response, schema, bodyError, outputs>>
  PROVE  /\ FailureStatus' = FailureStatus
         /\ \A a : CheckAssertion(a)' = CheckAssertion(a)
<1>1. FailureStatus' = FailureStatus
  BY DEF FailureStatus
<1>2. CheckSchema' = CheckSchema /\ Negative' = Negative
  BY DEF CheckSchema, Negative
<1>3. ASSUME NEW a PROVE CheckAssertion(a)' = CheckAssertion(a)
  BY <1>1, <1>2 DEF CheckAssertion
<1> QED BY <1>1, <1>3

(* Each stage leaves what the earlier ones found. *)
LEMMA JudgeStepHolds == JudgeInv /\ [JudgeNext]_judgeVars => JudgeInv'
<1> SUFFICES ASSUME JudgeInv, [JudgeNext]_judgeVars PROVE JudgeInv'
  OBVIOUS
<1>0. JudgedOn'
  BY DEF JudgeInv, JudgedOn, JudgeNext, judgeVars, ReadFailure, ReadSuccess, RunAssertions,
         MatchFailure, JudgeError, JudgeExpectedFailure, JudgeUnexpected, JudgeFailure,
         JudgeSuccess, Judge
<1>1. CASE ReadFailure
  BY <1>0, <1>1 DEF ReadFailure, JudgeInv, ChecksAreRun, MatchIsTheFailures
<1>2. CASE ReadSuccess
  <2>1. PICK c \in Cases : step = c.step /\ response = c.response
    BY DEF JudgeInv, JudgedOn
  <2>2. BodyErrorOf(step, response.body).status \in Nat
    BY <2>1, CasesAssumption
  <2>3. failure' \in BOOLEAN /\ bodyError'.status \in Nat
    BY <1>2, <2>2 DEF ReadSuccess
  <2>4. stage' = (IF failure' THEN "matched" ELSE "read")
    BY <1>2 DEF ReadSuccess
  <2>5. (stage' \in {"answered", "read", "checked"} => ~failure') /\ (stage' # "checked")
        /\ (stage' = "matched" => failure')
    BY <2>3, <2>4
  <2> QED BY <1>0, <2>3, <2>5 DEF JudgeInv, ChecksAreRun, MatchIsTheFailures
<1>3. CASE RunAssertions
  <2>1. \A a : CheckAssertion(a)' = CheckAssertion(a)
    BY <1>3, ChecksStay DEF RunAssertions
  <2>2. checks' = [i \in 1..Len(step.assertions) |-> CheckAssertion(step.assertions[i])]
        /\ step' = step /\ stage' = "checked"
    BY <1>3 DEF RunAssertions
  <2>3. ChecksAreRun'
    BY <2>1, <2>2 DEF ChecksAreRun
  <2> QED BY <1>0, <1>3, <2>3 DEF RunAssertions, JudgeInv, MatchIsTheFailures
<1>4. CASE MatchFailure
  <2>1. FailureStatus' = FailureStatus /\ \A a : CheckAssertion(a)' = CheckAssertion(a)
    BY <1>4, ChecksStay DEF MatchFailure
  <2>2. ChecksAreRun'
    BY <1>4, <2>1 DEF MatchFailure, ChecksAreRun, JudgeInv
  <2>3. MatchIsTheFailures'
    BY <1>4, <2>1 DEF MatchFailure, MatchIsTheFailures
  <2> QED BY <1>0, <1>4, <2>2, <2>3 DEF MatchFailure, JudgeInv
<1>5. ASSUME NEW v, Judge(v) PROVE JudgeInv'
  BY <1>0, <1>5 DEF Judge, JudgeInv, ChecksAreRun, MatchIsTheFailures
<1>6. CASE UNCHANGED judgeVars
  <2>1. FailureStatus' = FailureStatus /\ \A a : CheckAssertion(a)' = CheckAssertion(a)
    BY <1>6, ChecksStay DEF judgeVars
  <2>2. ChecksAreRun'
    BY <1>6, <2>1 DEF judgeVars, ChecksAreRun, JudgeInv
  <2>3. MatchIsTheFailures'
    BY <1>6, <2>1 DEF judgeVars, MatchIsTheFailures, JudgeInv
  <2> QED BY <1>0, <1>6, <2>2, <2>3 DEF judgeVars, JudgeInv
<1> QED BY <1>1, <1>2, <1>3, <1>4, <1>5, <1>6 DEF JudgeNext, JudgeError, JudgeExpectedFailure,
        JudgeUnexpected, JudgeFailure, JudgeSuccess

(* No gRPC status has an empty name. *)
LEMMA NamesAreNamed == "" \notin DOMAIN GrpcHTTP
BY Zenon DEF GrpcHTTP

(* The status of a response by gRPC is that of its name. *)
LEMMA NamedStatus ==
  ASSUME JudgeInv
  PROVE  /\ FailureStatus[1] \in Nat
         /\ FailureStatus[2] # "" =>
              /\ FailureStatus[2] \in DOMAIN GrpcHTTP
              /\ FailureStatus[1] = GrpcHTTP[FailureStatus[2]]
<1>1. PICK c \in Cases : step = c.step /\ response = c.response
  BY DEF JudgeInv, JudgedOn
<1>2. /\ response.status \in Nat
      /\ response.grpc # "" =>
           /\ response.grpc \in DOMAIN GrpcHTTP
           /\ response.status = GrpcHTTP[response.grpc]
  BY <1>1, CasesAssumption
<1> QED BY <1>2 DEF FailureStatus, JudgeInv

(* The classes of failures start at 400. *)
LEMMA HundredsOfFailures ==
  \A s \in Nat : \A k \in {4, 5} : s \div 100 = k => s >= 400
OBVIOUS

(* What matches a status a step may expect is a failure. *)
LEMMA OnlyFailuresMatch ==
  ASSUME JudgeInv, NEW e, ExpectsFailure(e),
         StatusMatches(e, FailureStatus[1], FailureStatus[2])
  PROVE  FailureStatus[1] >= 400
<1> DEFINE s == FailureStatus[1]
           g == FailureStatus[2]
<1>1. /\ s \in Nat
      /\ g # "" => g \in DOMAIN GrpcHTTP /\ s = GrpcHTTP[g]
  BY NamedStatus
<1> HIDE DEF s, g
<1>2. StatusMatches(e, s, g)
  BY DEF s, g
<1>3. CASE e[1] = "code"
  <2>1. e[2] >= 400
    BY <1>3 DEF ExpectsFailure, Code, Class, GrpcName
  <2>2. e[2] = s
    BY <1>2, <1>3 DEF StatusMatches
  <2> QED BY <2>1, <2>2 DEF s
<1>4. CASE e[1] = "class"
  <2>1. e[2] \in {4, 5}
    BY <1>4 DEF ExpectsFailure, Code, Class, GrpcName
  <2>2. s \div 100 = e[2]
    BY <1>2, <1>4 DEF StatusMatches
  <2> QED BY <1>1, <2>1, <2>2, HundredsOfFailures DEF s
<1>5. CASE e[1] = "name"
  <2>1. e[2] \in DOMAIN GrpcHTTP /\ GrpcHTTP[e[2]] >= 400
    BY <1>5 DEF ExpectsFailure, Code, Class, GrpcName
  <2>2. s = GrpcHTTP[e[2]]
    BY <1>1, <1>2, <1>5 DEF StatusMatches
  <2> QED BY <2>1, <2>2 DEF s
<1>6. e[1] \in {"code", "class", "name"}
  BY DEF ExpectsFailure, Code, Class, GrpcName
<1> QED BY <1>3, <1>4, <1>5, <1>6

(* A failure's status, and its class, are above what contradicts one. *)
LEMMA FailuresAreAbove ==
  \A s \in Nat : s >= 400 =>
    /\ \A n : n < 400 => n # s
    /\ \A n : n < 4 => n # s \div 100
<1> SUFFICES ASSUME NEW s \in Nat, s >= 400
             PROVE  (\A n : n < 400 => n # s) /\ (\A n : n < 4 => n # s \div 100)
  OBVIOUS
<1>1. s \div 100 \in Nat /\ s \div 100 >= 4
  OBVIOUS
<1>2. \A n : n < 400 => n # s
  OBVIOUS
<1> QED BY <1>1, <1>2

(* A status that contradicts a failure is not the failure's. *)
LEMMA ContradictionsFail ==
  ASSUME NEW s \in Nat, s >= 400, NEW g, g \in DOMAIN GrpcHTTP => s = GrpcHTTP[g],
         NEW e, ContradictsFailure(e), e[1] = "name" => e[2] \in DOMAIN GrpcHTTP
  PROVE  ~CheckStatus(e, s, g)
<1>1. CASE e[1] = "code"
  <2>1. e[2] < 400
    BY <1>1 DEF ContradictsFailure
  <2>2. s # e[2]
    BY <2>1, FailuresAreAbove
  <2> QED BY <1>1, <2>2 DEF CheckStatus
<1>2. CASE e[1] = "class"
  <2>1. e[2] < 4
    BY <1>2 DEF ContradictsFailure
  <2>2. s \div 100 # e[2]
    BY <2>1, FailuresAreAbove
  <2> QED BY <1>2, <2>2 DEF CheckStatus
<1>3. CASE e[1] = "name"
  <2>1. GrpcHTTP[e[2]] < 400
    BY <1>3 DEF ContradictsFailure
  <2>2. GrpcHTTP[e[2]] # s
    BY <2>1, FailuresAreAbove
  <2>3. g # e[2]
    BY <1>3, <2>2
  <2> QED BY <1>3, <2>3 DEF CheckStatus
<1>4. e[1] \in {"code", "class", "name"}
  BY DEF ContradictsFailure
<1> QED BY <1>1, <1>2, <1>3, <1>4

(* A status that a step may expect does not contradict a failure. *)
LEMMA ExpectationsAreFailures ==
  ASSUME NEW e, ExpectsFailure(e)
  PROVE  ~ContradictsFailure(e) /\ e[1] \in {"code", "class", "name"}
<1>1. CASE e = Code(e[2]) /\ e[2] \in Nat /\ e[2] >= 400
  <2>1. e[1] = "code"
    BY <1>1 DEF Code
  <2>2. ~(e[2] < 400)
    BY <1>1
  <2> QED BY <2>1, <2>2 DEF ContradictsFailure
<1>2. CASE e = Class(e[2]) /\ e[2] \in 4..5
  <2>1. e[1] = "class"
    BY <1>2 DEF Class
  <2>2. ~(e[2] < 4)
    BY <1>2
  <2> QED BY <2>1, <2>2 DEF ContradictsFailure
<1>3. CASE e = GrpcName(e[2]) /\ e[2] \in DOMAIN GrpcHTTP /\ GrpcHTTP[e[2]] >= 400
  <2>1. e[1] = "name"
    BY <1>3 DEF GrpcName
  <2>2. \A n \in DOMAIN GrpcHTTP : GrpcHTTP[n] \in Nat
    BY DEF GrpcHTTP
  <2>3. ~(GrpcHTTP[e[2]] < 400)
    BY <1>3, <2>2
  <2> QED BY <2>1, <2>3 DEF ContradictsFailure
<1> QED BY <1>1, <1>2, <1>3 DEF ExpectsFailure

(* A negative step's status assertions agree with the match: the match is of a
   failure, which is what a skipped one would contradict. *)
LEMMA ChecksAgree == JudgeInv => ChecksFollowTheExpectation
<1> SUFFICES ASSUME JudgeInv, stage = "matched", ~failure, matched,
                    NEW j \in DOMAIN checks, step.assertions[j].type = "status", Negative
             PROVE  LET a == step.assertions[j]
                        holds == CheckStatus(a.expect, FailureStatus[1], FailureStatus[2])
                    IN /\ checks[j].skipped => ~holds
                       /\ step.expects = <<a.expect>> /\ (a.expect[1] = "name" => FailureStatus[2] # "")
                          => checks[j] = Passed(TRUE)
  BY DEF ChecksFollowTheExpectation
<1> DEFINE a == step.assertions[j]
           s == FailureStatus[1]
           g == FailureStatus[2]
<1>1. checks = [i \in 1..Len(step.assertions) |-> CheckAssertion(step.assertions[i])]
  BY DEF JudgeInv, ChecksAreRun
<1>2. j \in 1..Len(step.assertions) /\ checks[j] = CheckAssertion(a)
  BY <1>1
<1>3. PICK i \in 1..Len(step.expects) : StatusMatches(step.expects[i], s, g)
  BY DEF JudgeInv, MatchIsTheFailures
<1>4. PICK c \in Cases : step = c.step /\ response = c.response
  BY DEF JudgeInv, JudgedOn
<1>5. ExpectsFailure(step.expects[i])
  BY <1>3, <1>4, CasesAssumption
<1>6. s >= 400
  BY <1>3, <1>5, OnlyFailuresMatch
<1>7. /\ s \in Nat
      /\ g \in DOMAIN GrpcHTTP => s = GrpcHTTP[g]
  BY NamedStatus, NamesAreNamed, Zenon
<1>8. a.expect[1] = "name" => a.expect[2] \in DOMAIN GrpcHTTP
  BY <1>2, <1>4, CasesAssumption
<1>9. checks[j] = IF ContradictsFailure(a.expect) THEN Skipped ELSE Passed(CheckStatus(a.expect, s, g))
  BY <1>2 DEF CheckAssertion
<1> HIDE DEF a, s, g
<1>10. checks[j].skipped => ~CheckStatus(a.expect, s, g)
  <2>1. CASE ContradictsFailure(a.expect)
    BY <1>6, <1>7, <1>8, <2>1, ContradictionsFail
  <2>2. CASE ~ContradictsFailure(a.expect)
    BY <1>9, <2>2 DEF Passed
  <2> QED BY <2>1, <2>2
<1>11. step.expects = <<a.expect>> => step.expects[i] = a.expect
  BY <1>3
<1>12. ASSUME step.expects = <<a.expect>>, a.expect[1] = "name" => g # ""
       PROVE  checks[j] = Passed(TRUE)
  <2>1. StatusMatches(a.expect, s, g) /\ ExpectsFailure(a.expect)
    BY <1>3, <1>5, <1>11, <1>12, Zenon
  <2>2. ~ContradictsFailure(a.expect) /\ a.expect[1] \in {"code", "class", "name"}
    BY <2>1, ExpectationsAreFailures, Zenon
  <2>3. CheckStatus(a.expect, s, g) = TRUE
    <3>1. CASE a.expect[1] = "code"
      BY <2>1, <3>1, Zenon DEF StatusMatches, CheckStatus
    <3>2. CASE a.expect[1] = "class"
      BY <2>1, <3>2, Zenon DEF StatusMatches, CheckStatus
    <3>3. CASE a.expect[1] = "name"
      BY <1>12, <2>1, <3>3, Zenon DEF StatusMatches, CheckStatus
    <3> QED BY <2>2, <3>1, <3>2, <3>3
  <2> QED BY <1>9, <2>2, <2>3, Zenon DEF Passed
<1> QED BY <1>10, <1>12 DEF a, s, g

(* The status assertions of a negative step agree with its expectFailure
   (runStepAssertions): a skipped one could not have held, and one on the status
   that is expected holds. *)
THEOREM AssertionsFollowTheExpectation == JudgeSpec => []ChecksFollowTheExpectation
BY JudgeInitHolds, JudgeStepHolds, ChecksAgree, PTL DEF JudgeSpec

(* The API's answer was good. *)
Good == response.status < 400 /\ ~bodyError.found

(* A response is good or is not. *)
LEMMA StatusIsANumber ==
  ASSUME JudgeInv
  PROVE  response.status \in Nat /\ (~Good <=> response.status >= 400 \/ bodyError.found)
<1>1. PICK c \in Cases : response = c.response
  BY DEF JudgeInv, JudgedOn
<1>2. response.status \in Nat
  BY <1>1, CasesAssumption
<1> QED BY <1>2 DEF Good

(* PlanRun's words for a result, in this module's. *)
LEMMA AnswerIsTheResult ==
  ASSUME JudgeInv
  PROVE  /\ AsAnswer.got = "error" <=> failure
         /\ AsAnswer.got \in {"body", "status"} <=> ~failure /\ ~Good
         /\ AsAnswer.got = "ok" <=> ~failure /\ Good
         /\ AsAnswer.match = matched
         /\ AsAnswer.assertions = ChecksPassed
         /\ AsAnswer.oas = (schema \notin {"invalid", "badRequest"})
<1>1. ~Good <=> response.status >= 400 \/ bodyError.found
  BY StatusIsANumber
<1>2. AsAnswer.got = IF failure THEN "error" ELSE IF response.status >= 400 THEN "status"
                     ELSE IF bodyError.found THEN "body" ELSE "ok"
  BY DEF AsAnswer
<1>3. /\ AsAnswer.match = matched
      /\ AsAnswer.assertions = ChecksPassed
      /\ AsAnswer.oas = (schema \notin {"invalid", "badRequest"})
  BY DEF AsAnswer
<1> QED BY <1>1, <1>2, <1>3

(* The plan of one step that PlanRun is given. *)
LEMMA PlanIsTheSteps ==
  /\ AsPlan.negative = (IF Negative THEN {1} ELSE {})
  /\ AsPlan.creates = (IF step.cleanup THEN {1} ELSE {})
  /\ AsPlan.known[1] = step.known
  /\ AsPlan.stopAfter = 0
  /\ AsPlan.goOn = step.goOn
  /\ AsPlan.strict = step.strict
BY DEF AsPlan

(* The decisions of PlanRun on the answer a result stands for. *)
LEMMA RunDecides ==
  ASSUME JudgeInv
  PROVE  /\ ~failure => (AsRun!StepFailed(1, AsAnswer) <=> ResultFailed)
         /\ AsRun!Suppressed(1, AsAnswer) <=> ResultSuppressed
         /\ AsRun!Uncovered(1, AsAnswer) <=> failure \/ (ResultFailed /\ ~ResultSuppressed)
         /\ AsRun!NothingToBuildOn(1, AsAnswer) <=> IF Negative THEN ~matched ELSE failure \/ ~Good
         /\ AsRun!Registers(1, AsAnswer) <=> step.cleanup /\ ~Negative /\ ~failure /\ Good
<1>1. 1 \in AsPlan.negative <=> Negative
  BY PlanIsTheSteps
<1>2. 1 \in AsPlan.creates <=> step.cleanup
  BY PlanIsTheSteps
<1>3. ~failure => (AsRun!StepFailed(1, AsAnswer) <=> ResultFailed)
  <2>1. ~Good <=> response.status >= 400 \/ bodyError.found
    BY StatusIsANumber
  <2>2. ~failure => (ResultFailed <=>
          IF Negative THEN ~matched \/ ~ChecksPassed
          ELSE ~Good \/ (step.strict /\ schema \in {"invalid", "badRequest"}) \/ ~ChecksPassed)
    BY <2>1, Zenon DEF ResultFailed, StrictViolation
  <2>3. AsRun!StepFailed(1, AsAnswer) <=>
          IF Negative THEN ~AsAnswer.match \/ ~AsAnswer.assertions
          ELSE \/ AsAnswer.got \in {"body", "status"}
               \/ step.strict /\ ~AsAnswer.oas
               \/ ~AsAnswer.assertions
    BY <1>1, PlanIsTheSteps, Zenon DEF AsRun!StepFailed
  <2> QED BY <2>2, <2>3, AnswerIsTheResult, Zenon
<1>4. AsRun!Suppressed(1, AsAnswer) <=> ResultSuppressed
  BY <1>3, AnswerIsTheResult, PlanIsTheSteps, Zenon DEF AsRun!Suppressed, ResultSuppressed
<1>5. AsRun!Uncovered(1, AsAnswer) <=> failure \/ (ResultFailed /\ ~ResultSuppressed)
  BY <1>3, <1>4, AnswerIsTheResult, Zenon DEF AsRun!Uncovered, AsRun!Failing, ResultSuppressed
<1>6. AsRun!NothingToBuildOn(1, AsAnswer) <=> IF Negative THEN ~matched ELSE failure \/ ~Good
  BY <1>1, AnswerIsTheResult, Zenon DEF AsRun!NothingToBuildOn
<1>7. AsRun!Registers(1, AsAnswer) <=> step.cleanup /\ ~Negative /\ ~failure /\ Good
  BY <1>1, <1>2, AnswerIsTheResult, Zenon DEF AsRun!Registers
<1> QED BY <1>3, <1>4, <1>5, <1>6, <1>7

(* What a verdict has to be for the result as it is. *)
Agrees(v) ==
  /\ v.end = AsRun!EndOf(1, AsAnswer)
  /\ v.pushed = AsRun!Registers(1, AsAnswer)
  /\ (v.outcome = "error") = failure
  /\ (v.outcome = "failed") = (~failure /\ AsRun!Uncovered(1, AsAnswer))

(* How the steps end, in this module's words. *)
LEMMA EndIsDecided ==
  ASSUME JudgeInv
  PROVE  LET nothing == IF Negative THEN ~matched ELSE failure \/ ~Good
         IN AsRun!EndOf(1, AsAnswer) =
              IF failure \/ nothing THEN IF ResultSuppressed THEN "covered" ELSE "error"
              ELSE IF /\ ResultFailed /\ ~ResultSuppressed
                      /\ \/ ~step.goOn
                         \/ step.strict /\ schema \in {"invalid", "badRequest"} /\ ~Negative
                   THEN "error" ELSE "none"
<1>1. 1 \in AsPlan.negative <=> Negative
  BY PlanIsTheSteps
<1>2. 1 # AsPlan.stopAfter
  BY PlanIsTheSteps
<1>3. ~AsAnswer.oas <=> schema \in {"invalid", "badRequest"}
  BY AnswerIsTheResult
<1>4. AsRun!EndOf(1, AsAnswer) =
        IF AsAnswer.got = "error" \/ AsRun!NothingToBuildOn(1, AsAnswer)
        THEN IF AsRun!Suppressed(1, AsAnswer) THEN "covered" ELSE "error"
        ELSE IF /\ AsRun!Uncovered(1, AsAnswer)
                /\ ~step.goOn \/ (step.strict /\ ~AsAnswer.oas /\ ~(1 \in AsPlan.negative))
             THEN "error" ELSE "none"
  BY <1>2, PlanIsTheSteps, Zenon DEF AsRun!EndOf
<1>5. AsAnswer.got = "error" <=> failure
  BY AnswerIsTheResult
<1>6. CASE failure
  BY <1>4, <1>5, <1>6, RunDecides, Zenon
<1>7. CASE ~failure
  BY <1>1, <1>3, <1>4, <1>5, <1>7, RunDecides, Zenon
<1> QED BY <1>6, <1>7

(* What a verdict is made of. *)
LEMMA VerdictFields ==
  \A o, e, k : /\ Verdict(o, e, k).outcome = o
               /\ Verdict(o, e, k).end = e
               /\ Verdict(o, e, k).pushed = (k /\ step.cleanup)
BY DEF Verdict

(* A verdict is judged by its fields. *)
LEMMA AgreesByFields ==
  ASSUME JudgeInv, NEW o, NEW e, NEW k \in BOOLEAN,
         e = AsRun!EndOf(1, AsAnswer),
         (k /\ step.cleanup) <=> AsRun!Registers(1, AsAnswer),
         o = "error" <=> failure,
         o = "failed" <=> ~failure /\ AsRun!Uncovered(1, AsAnswer)
  PROVE  Agrees(Verdict(o, e, k))
<1> DEFINE v == Verdict(o, e, k)
<1>1. v.outcome = o /\ v.end = e /\ v.pushed = (k /\ step.cleanup)
  BY VerdictFields
<1> HIDE DEF v
<1>2. failure \in BOOLEAN
  BY DEF JudgeInv
<1>3. v.pushed = AsRun!Registers(1, AsAnswer)
  <2>1. (k /\ step.cleanup) = AsRun!Registers(1, AsAnswer)
    BY Zenon DEF AsRun!Registers
  <2> QED BY <1>1, <2>1, Zenon
<1>4. (v.outcome = "error") = failure
  BY <1>1, <1>2
<1>5. (v.outcome = "failed") = (~failure /\ AsRun!Uncovered(1, AsAnswer))
  BY <1>1, Zenon
<1>6. v.end = AsRun!EndOf(1, AsAnswer)
  BY <1>1, Zenon
<1>7. Agrees(v)
  BY <1>3, <1>4, <1>5, <1>6, Zenon DEF Agrees
<1> QED BY <1>7 DEF v

(* A result with an error ends the run. *)
LEMMA ErrorsAgree ==
  ASSUME JudgeInv, failure
  PROVE  Agrees(Verdict("error", "error", FALSE))
<1>1. AsRun!EndOf(1, AsAnswer) = "error"
  BY EndIsDecided, Zenon DEF ResultSuppressed
<1>2. ~AsRun!Registers(1, AsAnswer)
  BY RunDecides, Zenon
<1> QED BY <1>1, <1>2, AgreesByFields

(* So does a failure that leaves nothing to build on. *)
LEMMA EndingFailuresAgree ==
  ASSUME JudgeInv, ~failure, IF Negative THEN ~matched ELSE ~Good
  PROVE  Agrees(EndingFailure)
<1>1. ResultFailed
  BY StatusIsANumber, Zenon DEF ResultFailed
<1>2. ~AsRun!Registers(1, AsAnswer)
  BY RunDecides, Zenon
<1>3. AsRun!Uncovered(1, AsAnswer) <=> ~ResultSuppressed
  BY <1>1, RunDecides, Zenon
<1>4. AsRun!EndOf(1, AsAnswer) = IF ResultSuppressed THEN "covered" ELSE "error"
  BY EndIsDecided, Zenon
<1>5. CASE ResultSuppressed
  <2>1. EndingFailure = Verdict("passed", "covered", FALSE)
    BY <1>5 DEF EndingFailure
  <2> QED BY <1>2, <1>3, <1>4, <1>5, <2>1, AgreesByFields
<1>6. CASE ~ResultSuppressed
  <2>1. EndingFailure = Verdict("failed", "error", FALSE)
    BY <1>6 DEF EndingFailure
  <2> QED BY <1>2, <1>3, <1>4, <1>6, <2>1, AgreesByFields
<1> QED BY <1>5, <1>6

(* The verdict that is left to the checks. *)
LEMMA ChecksVerdictsAgree ==
  ASSUME JudgeInv, ~failure, NEW k \in BOOLEAN, k = ~Negative,
         IF Negative THEN matched ELSE Good,
         ~(StrictViolation /\ ~ResultSuppressed)
  PROVE  Agrees(ChecksVerdict(k))
<1>1. (k /\ step.cleanup) <=> AsRun!Registers(1, AsAnswer)
  BY RunDecides, Zenon
<1>2. ResultFailed <=> ~ChecksPassed \/ StrictViolation
  BY StatusIsANumber, Zenon DEF ResultFailed, StrictViolation
<1>3. AsRun!Uncovered(1, AsAnswer) <=> ~ChecksPassed /\ ~ResultSuppressed
  BY <1>2, RunDecides, Zenon
<1>4. AsRun!EndOf(1, AsAnswer) =
        IF ~ChecksPassed /\ ~ResultSuppressed /\ ~step.goOn THEN "error" ELSE "none"
  BY <1>2, EndIsDecided, Zenon DEF StrictViolation
<1>5. CASE ChecksPassed \/ ResultSuppressed
  <2>1. ChecksVerdict(k) = Verdict("passed", "none", k)
    BY <1>5 DEF ChecksVerdict
  <2> QED BY <1>1, <1>3, <1>4, <1>5, <2>1, AgreesByFields
<1>6. CASE ~(ChecksPassed \/ ResultSuppressed)
  <2>1. ChecksVerdict(k) = Verdict("failed", IF step.goOn THEN "none" ELSE "error", k)
    BY <1>6 DEF ChecksVerdict
  <2>2. CASE step.goOn
    BY <1>1, <1>3, <1>4, <1>6, <2>1, <2>2, AgreesByFields
  <2>3. CASE ~step.goOn
    BY <1>1, <1>3, <1>4, <1>6, <2>1, <2>3, AgreesByFields
  <2> QED BY <2>2, <2>3
<1> QED BY <1>5, <1>6

(* A strict violation of a step that did what it should ends the run. *)
LEMMA StrictVerdictsAgree ==
  ASSUME JudgeInv, ~failure, ~Negative, Good, StrictViolation, ~ResultSuppressed
  PROVE  Agrees(Verdict("failed", "error", TRUE))
<1>1. ResultFailed
  BY Zenon DEF ResultFailed
<1>2. AsRun!Uncovered(1, AsAnswer) /\ (step.cleanup <=> AsRun!Registers(1, AsAnswer))
  BY <1>1, RunDecides, Zenon
<1>3. AsRun!EndOf(1, AsAnswer) = "error"
  BY <1>1, EndIsDecided, Zenon DEF StrictViolation
<1> QED BY <1>2, <1>3, AgreesByFields

(* PlanRun decides the same as long as the result is the same. *)
LEMMA DecisionsStay ==
  ASSUME UNCHANGED <<step, response, schema, bodyError, failure, checks, matched>>
  PROVE  /\ AsRun!EndOf(1, AsAnswer)' = AsRun!EndOf(1, AsAnswer)
         /\ AsRun!Registers(1, AsAnswer)' = AsRun!Registers(1, AsAnswer)
         /\ AsRun!Uncovered(1, AsAnswer)' = AsRun!Uncovered(1, AsAnswer)
         /\ AsRun!Suppressed(1, AsAnswer)' = AsRun!Suppressed(1, AsAnswer)
         /\ ResultSuppressed' = ResultSuppressed
<1>1. ChecksPassed' = ChecksPassed /\ Negative' = Negative /\ StrictViolation' = StrictViolation
  BY DEF ChecksPassed, Negative, StrictViolation
<1>2. AsAnswer' = AsAnswer
  <2>1. FailureStatus' = FailureStatus
    BY DEF FailureStatus
  <2> QED BY <1>1, <2>1 DEF AsAnswer
<1>3. AsPlan' = AsPlan
  BY <1>1 DEF AsPlan
<1>4. ResultSuppressed' = ResultSuppressed
  BY <1>1 DEF ResultSuppressed, ResultFailed
<1>5. AsRun!Registers(1, AsAnswer)' = AsRun!Registers(1, AsAnswer)
  BY <1>2, <1>3 DEF AsRun!Registers
<1>6. AsRun!Suppressed(1, AsAnswer)' = AsRun!Suppressed(1, AsAnswer)
  BY <1>2, <1>3 DEF AsRun!Suppressed, AsRun!StepFailed
<1>7. AsRun!Uncovered(1, AsAnswer)' = AsRun!Uncovered(1, AsAnswer)
  BY <1>2, <1>3 DEF AsRun!Uncovered, AsRun!Failing, AsRun!Suppressed, AsRun!StepFailed
<1>8. AsRun!EndOf(1, AsAnswer)' = AsRun!EndOf(1, AsAnswer)
  BY <1>2, <1>3 DEF AsRun!EndOf, AsRun!NothingToBuildOn, AsRun!Uncovered, AsRun!Failing,
                    AsRun!Suppressed, AsRun!StepFailed
<1> QED BY <1>4, <1>5, <1>6, <1>7, <1>8

(* A verdict that agrees when it is given goes on to agree. *)
LEMMA JudgedAsTheRun ==
  ASSUME JudgeInv, NEW v, Judge(v), Agrees(v)
  PROVE  VerdictIsTheRuns'
<1>1. /\ verdict' = v /\ failure' = failure
      /\ UNCHANGED <<step, response, schema, bodyError, failure, checks, matched>>
  BY DEF Judge
<1>2. ResultSuppressed = AsRun!Suppressed(1, AsAnswer)
  BY RunDecides, Zenon DEF ResultSuppressed, AsRun!Suppressed
<1> QED BY <1>1, <1>2, DecisionsStay DEF VerdictIsTheRuns, Agrees

(* Whatever case of Run applies, its verdict agrees. *)
LEMMA EveryJudgementAgrees ==
  ASSUME JudgeInv, NEW v,
         \/ JudgeError /\ v = Verdict("error", "error", FALSE)
         \/ JudgeExpectedFailure /\ v = ChecksVerdict(FALSE)
         \/ JudgeUnexpected /\ v = EndingFailure
         \/ JudgeFailure /\ v = EndingFailure
         \/ JudgeSuccess /\ v = IF StrictViolation /\ ~ResultSuppressed
                                THEN Verdict("failed", "error", TRUE) ELSE ChecksVerdict(TRUE)
  PROVE  Judge(v) /\ Agrees(v)
<1>1. CASE JudgeError /\ v = Verdict("error", "error", FALSE)
  BY <1>1, ErrorsAgree DEF JudgeError
<1>2. CASE JudgeExpectedFailure /\ v = ChecksVerdict(FALSE)
  <2>1. ~failure /\ Negative /\ matched /\ Judge(v)
    BY <1>2 DEF JudgeExpectedFailure
  <2> QED BY <1>2, <2>1, ChecksVerdictsAgree DEF StrictViolation
<1>3. CASE JudgeUnexpected /\ v = EndingFailure
  BY <1>3, EndingFailuresAgree DEF JudgeUnexpected
<1>4. CASE JudgeFailure /\ v = EndingFailure
  <2>1. ~failure /\ ~Negative /\ ~Good /\ Judge(v)
    BY <1>4, StatusIsANumber DEF JudgeFailure
  <2> QED BY <1>4, <2>1, EndingFailuresAgree
<1>5. CASE JudgeSuccess /\ v = IF StrictViolation /\ ~ResultSuppressed
                               THEN Verdict("failed", "error", TRUE) ELSE ChecksVerdict(TRUE)
  <2>1. ~failure /\ ~Negative /\ Good /\ Judge(v)
    BY <1>5 DEF JudgeSuccess, Good
  <2>2. CASE StrictViolation /\ ~ResultSuppressed
    BY <1>5, <2>1, <2>2, StrictVerdictsAgree
  <2>3. CASE ~(StrictViolation /\ ~ResultSuppressed)
    BY <1>5, <2>1, <2>3, ChecksVerdictsAgree
  <2> QED BY <2>2, <2>3
<1> QED BY <1>1, <1>2, <1>3, <1>4, <1>5

(* No step of a judgement departs from PlanRun. *)
LEMMA VerdictStays ==
  ASSUME JudgeInv, VerdictIsTheRuns, [JudgeNext]_judgeVars
  PROVE  VerdictIsTheRuns'
<1>1. CASE ReadFailure \/ ReadSuccess \/ RunAssertions \/ MatchFailure
  <2>1. stage' # "judged"
    BY <1>1 DEF ReadFailure, ReadSuccess, RunAssertions, MatchFailure
  <2> QED BY <2>1 DEF VerdictIsTheRuns
<1>2. CASE JudgeError \/ JudgeExpectedFailure \/ JudgeUnexpected \/ JudgeFailure \/ JudgeSuccess
  <2>1. PICK v : Judge(v) /\ Agrees(v)
    BY <1>2, EveryJudgementAgrees
  <2> QED BY <2>1, JudgedAsTheRun
<1>3. CASE UNCHANGED judgeVars
  BY <1>3, DecisionsStay DEF judgeVars, VerdictIsTheRuns
<1> QED BY <1>1, <1>2, <1>3 DEF JudgeNext, judgeVars

(* Run's verdict on a result is what PlanRun decides on the answer the result
   stands for (Engine.Run's cases against stepFailed). *)
THEOREM VerdictsAreTheRuns == JudgeSpec => []VerdictIsTheRuns
<1>1. JudgeInit => VerdictIsTheRuns
  BY DEF JudgeInit, VerdictIsTheRuns
<1>2. JudgeInv /\ VerdictIsTheRuns /\ [JudgeNext]_judgeVars => VerdictIsTheRuns'
  BY VerdictStays
<1> QED BY <1>1, <1>2, JudgeInitHolds, JudgeStepHolds, PTL DEF JudgeSpec
=============================================================================
