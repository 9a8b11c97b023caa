------------------------------- MODULE FuzzRun -------------------------------
(***************************************************************************)
(* The fuzz cases of a run: the queue of Engine.Run (engine/engine.go) and *)
(* fuzzRunState (engine/fuzz.go).  A target's cases run on copies of the   *)
(* steps it depends on.  Under reuse a copy stands in for the next case's  *)
(* while no case may have changed it, a case whose reused copy turns out   *)
(* to be used up is sent again on a fresh one, and a target whose setup    *)
(* keeps failing is given up on.                                           *)
(*                                                                         *)
(* A plan is its targets, each with the number of cases and of the steps   *)
(* copied for a case.  Case c of target t is <<t, c>>.  Findings and the   *)
(* cleanups that cases and copies register are left out: a finding is a    *)
(* function of the answer that is judged, and PlanRun has the registering. *)
(***************************************************************************)
EXTENDS Naturals, Sequences, FiniteSets

CONSTANTS
  Plans,             \* the plans considered
  MaxSetupFailures   \* maxSetupFailures

TargetSet ==
  [scope : {"reuse", "isolated", "shared"}, readOnly : BOOLEAN, setup : Nat, cases : Nat]

(* expandFuzz: reuse on a target that only reads is shared, and shared copies
   nothing. *)
ASSUME FuzzAssumption ==
  /\ Plans \subseteq Seq(TargetSet)
  /\ \A p \in Plans : \A t \in DOMAIN p :
       /\ p[t].readOnly => p[t].scope # "reuse"
       /\ p[t].scope = "shared" => p[t].setup = 0
  /\ MaxSetupFailures \in Nat \ {0}

VARIABLES
  plan,
  queue,     \* the steps to send, in order
  idx,
  pc,        \* "next", "verifying", "chosen", "sent", "done", "aborted"
  end,       \* the plan ended early
  verified,
  ctxDone,
  group,     \* fuzzGroup, by target
  caseInfo,  \* by case: its setup's label, whether a stale answer was replaced,
             \* failedSetup, and the cases whose copies stand in for its own
  skipped,   \* copiesSkipped
  reports,   \* the cases with a result: the case, the answer and the label
  sends,     \* history: the cases sent, what on, and the answers
  copySent   \* history: the copies sent

vars == <<plan, queue, idx, pc, end, verified, ctxDone, group, caseInfo, skipped,
          reports, sends, copySent>>
history == <<sends, copySent>>

Targets == DOMAIN plan
CasesOf(t) == {t} \X (1..plan[t].cases)
Cases == UNION {CasesOf(t) : t \in Targets}

-----------------------------------------------------------------------------
(* The steps of a plan, as ExpandFuzzCases makes them: behind a target each of
   its cases, which is the last in a row with its copies. *)
It(kind, t, c, k) == [kind |-> kind, t |-> t, c |-> c, k |-> k]

Own(t) == It("own", t, 0, 0)
CaseItem(t, c, k) == It(IF k <= plan[t].setup THEN "copy" ELSE "case", t, c, k)
CaseItems(t, c) == [k \in 1..plan[t].setup + 1 |-> CaseItem(t, c, k)]
Items ==
  {Own(t) : t \in Targets}
    \cup UNION {{CaseItem(x[1], x[2], k) : k \in 1..plan[x[1]].setup + 1} : x \in Cases}

Sorted(i, j) ==
  \/ i.t < j.t
  \/ i.t = j.t /\ i.c < j.c
  \/ i.t = j.t /\ i.c = j.c /\ i.k < j.k

(* runsAfterPlan, runOrder: the n-th to be sent has n - 1 ahead of it. *)
RunsAfterPlan(i) ==
  i.kind = "copy" \/ (i.kind = "case" /\ plan[i.t].scope # "shared")
Ahead(i, j) ==
  \/ RunsAfterPlan(j) /\ ~RunsAfterPlan(i)
  \/ (RunsAfterPlan(i) <=> RunsAfterPlan(j)) /\ Sorted(i, j)
AheadOf(j) == {i \in Items : Ahead(i, j)}
RunOrder ==
  [n \in 1..Cardinality(Items) |-> CHOOSE i \in Items : Cardinality(AheadOf(i)) = n - 1]

NoLive(t) == [k \in 1..plan[t].setup |-> 0]
NoCase == <<0, 0>>

Init ==
  /\ plan \in Plans
  /\ queue = RunOrder
  /\ idx = 1
  /\ pc = "next"
  /\ end = FALSE
  /\ verified = FALSE
  /\ ctxDone = FALSE
  /\ group = [t \in Targets |->
       [passed |-> FALSE, live |-> NoLive(t), clean |-> FALSE, building |-> NoCase,
        failures |-> 0, stopped |-> FALSE]]
  /\ caseInfo = [c \in Cases |->
       [setup |-> "own", stale |-> FALSE, failed |-> FALSE, on |-> NoLive(c[1])]]
  /\ skipped = 0
  /\ reports = <<>>
  /\ sends = <<>>
  /\ copySent = {}

Here == queue[idx]
Case == <<Here.t, Here.c>>
G == group[Here.t]

Interrupt ==
  /\ pc \notin {"done", "aborted"} /\ ~ctxDone
  /\ ctxDone' = TRUE
  /\ UNCHANGED <<plan, queue, idx, pc, end, verified, group, caseInfo, skipped, reports, history>>

(* The rest of a plan that ended is not sent, nor are the cases on copies of a
   target that did not get through. *)
Due(i) == IF RunsAfterPlan(i) THEN group[i.t].passed ELSE ~end

PassOver ==
  /\ pc = "next" /\ idx <= Len(queue) /\ ~Due(Here)
  /\ idx' = idx + 1
  /\ UNCHANGED <<plan, queue, pc, end, verified, ctxDone, group, caseInfo, skipped, reports, history>>

AbortBetween ==
  /\ pc = "next" /\ idx <= Len(queue) /\ Due(Here) /\ ctxDone
  /\ pc' = "aborted"
  /\ UNCHANGED <<plan, queue, idx, end, verified, ctxDone, group, caseInfo, skipped, reports, history>>

(* Verification comes before the first step sent after the plan, or last. *)
Choose ==
  /\ pc = "next" /\ idx <= Len(queue) /\ Due(Here) /\ ~ctxDone
  /\ pc' = IF RunsAfterPlan(Here) /\ ~verified THEN "verifying" ELSE "chosen"
  /\ UNCHANGED <<plan, queue, idx, end, verified, ctxDone, group, caseInfo, skipped, reports, history>>

QueueEnds ==
  /\ pc = "next" /\ idx > Len(queue)
  /\ pc' = IF verified THEN "done" ELSE "verifying"
  /\ UNCHANGED <<plan, queue, idx, end, verified, ctxDone, group, caseInfo, skipped, reports, history>>

(* Nothing is verified of a plan that ended, and an interrupt ends the run. *)
Verify ==
  /\ pc = "verifying"
  /\ verified' = TRUE
  /\ \/ pc' = IF idx > Len(queue) THEN "done" ELSE "chosen"
     \/ ~end /\ ctxDone /\ pc' = "aborted"
  /\ UNCHANGED <<plan, queue, idx, end, ctxDone, group, caseInfo, skipped, reports, history>>

-----------------------------------------------------------------------------
(* beforeSetupCopy and the copies of a case whose setup failed. *)
Copying == pc = "chosen" /\ Here.kind = "copy"

NextItem == pc' = "next" /\ idx' = idx + 1

Give(c, setup, failed) ==
  caseInfo' = [caseInfo EXCEPT ![c].setup = setup, ![c].failed = failed]

SkipStopped ==
  /\ Copying /\ ~caseInfo[Case].failed /\ G.stopped
  /\ Give(Case, "failed", TRUE)
  /\ skipped' = skipped + 1
  /\ NextItem
  /\ UNCHANGED <<plan, queue, end, verified, ctxDone, group, reports, history>>

SkipFailed ==
  /\ Copying /\ caseInfo[Case].failed
  /\ skipped' = skipped + 1
  /\ NextItem
  /\ UNCHANGED <<plan, queue, end, verified, ctxDone, group, caseInfo, reports, history>>

Reusable ==
  /\ plan[Here.t].scope = "reuse" /\ G.clean /\ G.building # Case
  /\ G.live[Here.k] # 0

Reuse ==
  /\ Copying /\ ~caseInfo[Case].failed /\ ~G.stopped /\ Reusable
  /\ caseInfo' = [caseInfo EXCEPT ![Case].setup = "reused", ![Case].on[Here.k] = G.live[Here.k]]
  /\ skipped' = skipped + 1
  /\ NextItem
  /\ UNCHANGED <<plan, queue, end, verified, ctxDone, group, reports, history>>

SendCopy ==
  /\ Copying /\ ~caseInfo[Case].failed /\ ~G.stopped /\ ~Reusable
  /\ IF G.building = Case THEN UNCHANGED <<group, caseInfo>>
     ELSE /\ group' = [group EXCEPT ![Here.t].live = NoLive(Here.t),
                                    ![Here.t].clean = FALSE, ![Here.t].building = Case]
          /\ Give(Case, IF caseInfo[Case].stale THEN "rebuilt" ELSE "fresh", FALSE)
  /\ copySent' = copySent \cup {<<Case, Here.k>>}
  /\ pc' = "sent"
  /\ UNCHANGED <<plan, queue, idx, end, verified, ctxDone, skipped, reports, sends>>

(* A transport error on a cancelled context ends the run. *)
AbortSent(answer) ==
  /\ ctxDone /\ answer \in {"none", "notSent"}
  /\ pc' = "aborted"
  /\ UNCHANGED <<idx, group, caseInfo>>

(* setupCopySent; a failure a known issue covers counts as ok. *)
CopyPassed ==
  /\ NextItem
  /\ group' = [group EXCEPT ![Here.t].live[Here.k] = Here.c]
  /\ caseInfo' = [caseInfo EXCEPT ![Case].on[Here.k] = Here.c]

(* Mutant of CountFailure: the copies that came off stay in use. *)
CountFailureKeeps(g) == [g EXCEPT !.clean = TRUE, !.building = NoCase, !.failures = @ + 1,
                                  !.stopped = @ \/ g.failures + 1 >= MaxSetupFailures]

(* setupCopyFailed. *)
CountFailure(g) == [g EXCEPT !.clean = FALSE, !.building = NoCase, !.failures = @ + 1,
                             !.stopped = @ \/ g.failures + 1 >= MaxSetupFailures]

CopyFailed ==
  /\ NextItem
  /\ group' = [group EXCEPT ![Here.t] = CountFailure(@)]
  /\ Give(Case, "failed", TRUE)

CopyAnswered ==
  /\ pc = "sent" /\ Here.kind = "copy"
  /\ \/ CopyPassed
     \/ \E answer \in {"none", "failed"} :
          IF ctxDone /\ answer = "none" THEN AbortSent(answer) ELSE CopyFailed
  /\ UNCHANGED <<plan, queue, end, verified, ctxDone, skipped, reports, sends, copySent>>

-----------------------------------------------------------------------------
(* The plan's own step: whether it got through, and whether the plan ends. *)
SendOwn ==
  /\ pc = "chosen" /\ Here.kind = "own"
  /\ pc' = "sent"
  /\ UNCHANGED <<plan, queue, idx, end, verified, ctxDone, group, caseInfo, skipped, reports, history>>

OwnAnswered ==
  /\ pc = "sent" /\ Here.kind = "own"
  /\ \/ AbortSent("none") /\ end' = end
     \/ /\ NextItem
        /\ \E through, checkpoint \in BOOLEAN :
             /\ ~through => ~checkpoint
             /\ group' = [group EXCEPT ![Here.t].passed = through]
             /\ end' = (~through \/ checkpoint)
        /\ UNCHANGED caseInfo
  /\ UNCHANGED <<plan, queue, verified, ctxDone, skipped, reports, history>>

-----------------------------------------------------------------------------
(* What a case comes to: accepted, a 4xx, a rate limit, a 5xx, no response, not
   sent, or an answer that says the setup is used up, which is a refusal too. *)
Answer == {"accepted", "refused", "throttled", "server", "none", "notSent", "stale"}

Refused(a) == a \in {"refused", "stale"}
Report(a) == Append(reports, [case |-> Case, answer |-> a, setup |-> caseInfo[Case].setup])

(* A case whose setup failed is reported and not sent. *)
ReportUnsent ==
  /\ pc = "chosen" /\ Here.kind = "case" /\ caseInfo[Case].failed
  /\ reports' = Report("notSent")
  /\ NextItem
  /\ UNCHANGED <<plan, queue, end, verified, ctxDone, group, caseInfo, skipped, history>>

SendCase ==
  /\ pc = "chosen" /\ Here.kind = "case" /\ ~caseInfo[Case].failed
  /\ pc' = "sent"
  /\ UNCHANGED <<plan, queue, idx, end, verified, ctxDone, group, caseInfo, skipped, reports, history>>

(* rebuild: the copies go before the case once more. *)
Rebuilds(a) ==
  /\ caseInfo[Case].setup = "reused" /\ ~caseInfo[Case].stale
  /\ a = "stale" /\ plan[Here.t].setup > 0

Again == SubSeq(queue, 1, idx) \o CaseItems(Here.t, Here.c) \o SubSeq(queue, idx + 1, Len(queue))

(* Mutants of Rebuild: the setup that is used up stays in use; the copies that
   will be sent again are not taken off the skipped ones. *)
RebuildKeepsSetup ==
  /\ queue' = Again
  /\ caseInfo' = [caseInfo EXCEPT ![Case].stale = TRUE]
  /\ skipped' = skipped - plan[Here.t].setup
  /\ UNCHANGED <<group, reports>>
RebuildUncounted ==
  /\ queue' = Again
  /\ group' = [group EXCEPT ![Here.t].clean = FALSE]
  /\ caseInfo' = [caseInfo EXCEPT ![Case].stale = TRUE]
  /\ UNCHANGED <<skipped, reports>>

Rebuild ==
  /\ queue' = Again
  /\ group' = [group EXCEPT ![Here.t].clean = FALSE]
  /\ caseInfo' = [caseInfo EXCEPT ![Case].stale = TRUE]
  /\ skipped' = skipped - plan[Here.t].setup
  /\ UNCHANGED reports

(* Mutants of LeavesClean: a refusal leaves the setup as it was, whatever it
   says of it; so does a request without an answer. *)
LeavesCleanRefused(a) ==
  plan[Here.t].readOnly \/ Refused(a) \/ a \in {"throttled", "notSent"}
LeavesCleanUnanswered(a) ==
  /\ a # "stale"
  /\ plan[Here.t].readOnly \/ Refused(a) \/ a \in {"throttled", "notSent", "none"}

(* caseJudged. *)
LeavesClean(a) ==
  /\ a # "stale"
  /\ plan[Here.t].readOnly \/ Refused(a) \/ a \in {"throttled", "notSent"}

CaseJudged(a) ==
  /\ reports' = Report(a)
  /\ group' = [group EXCEPT ![Here.t].failures = 0, ![Here.t].building = NoCase,
                            ![Here.t].clean = LeavesClean(a)]
  /\ UNCHANGED <<queue, caseInfo, skipped>>

Ran(a) ==
  [case |-> Case, on |-> {caseInfo[Case].on[k] : k \in 1..plan[Here.t].setup}, answer |-> a]

CaseAnswered ==
  /\ pc = "sent" /\ Here.kind = "case"
  /\ \E a \in Answer :
       /\ sends' = Append(sends, Ran(a))
       /\ IF ctxDone /\ a \in {"none", "notSent"}
          THEN AbortSent(a) /\ UNCHANGED <<queue, skipped, reports>>
          ELSE NextItem /\ IF Rebuilds(a) THEN Rebuild ELSE CaseJudged(a)
  /\ UNCHANGED <<plan, end, verified, ctxDone, copySent>>

Returned == pc \in {"done", "aborted"} /\ UNCHANGED vars

Progress ==
  \/ PassOver \/ AbortBetween \/ Choose \/ QueueEnds \/ Verify
  \/ SkipStopped \/ SkipFailed \/ Reuse \/ SendCopy \/ CopyAnswered
  \/ SendOwn \/ OwnAnswered \/ ReportUnsent \/ SendCase \/ CaseAnswered

Next == Interrupt \/ Progress \/ Returned

Spec == Init /\ [][Next]_vars

-----------------------------------------------------------------------------
(* What no case may do to a setup that another runs on. *)
Harmless(s) ==
  s.answer \in {"refused", "throttled", "notSent"} \/ (plan[s.case[1]].readOnly /\ s.answer # "stale")

(* A case runs on one whole setup, its own or one that an earlier case of its
   target was sent on, and then nothing that came of it since can have changed
   it: no case was accepted on it, half done or lost, nor did the API say that
   it is used up (fuzz.go beforeSetupCopy, rebuild, caseJudged). *)
SetupsAreUntouched ==
  \A i \in DOMAIN sends :
    LET t == sends[i].case[1]
    IN  plan[t].setup > 0 =>
          /\ \E d \in 1..plan[t].cases :
               sends[i].on = {d} /\ {<<t, d>>} \X (1..plan[t].setup) \subseteq copySent
          /\ \A j \in 1..i - 1 :
               sends[j].case[1] = t /\ sends[j].on = sends[i].on => Harmless(sends[j])

(* The cases that a run which was not interrupted answers for. *)
Expected ==
  LET Is(i) == i.kind = "case" /\ group[i.t].passed
  IN  {<<i.t, i.c>> : i \in {x \in {queue[n] : n \in DOMAIN queue} : Is(x) /\ (RunsAfterPlan(x) \/ ~end)}}

Copies == UNION {{c} \X (1..plan[c[1]].setup) : c \in Cases}

(* A run reports every case of a target that got through once, whatever was
   sent again; it never judges a case by an answer that only says the setup it
   reused was used up; the setup it reports is what the case ran on; and the
   copies it counts as skipped are those it did not send (engine.go Run). *)
ReportIsTrue ==
  /\ \A i, j \in DOMAIN reports : i # j => reports[i].case # reports[j].case
  /\ \A i \in DOMAIN reports :
       LET r == reports[i]
           own == caseInfo[r.case].on = [k \in 1..plan[r.case[1]].setup |-> r.case[2]]
       IN  /\ r.setup = "reused" => ~own /\ r.answer # "stale"
           /\ r.setup \in {"fresh", "rebuilt"} => own
           /\ (r.setup = "rebuilt" => caseInfo[r.case].stale)
           /\ r.setup = "failed" => r.answer = "notSent"
  /\ pc = "done" =>
       /\ Expected \subseteq {reports[i].case : i \in DOMAIN reports}
       /\ skipped + Cardinality(copySent) =
            Cardinality({x \in Copies : group[x[1][1]].passed})
=============================================================================
