---------------------------- MODULE BatchRunProofs ----------------------------
(***************************************************************************)
(* A batch, for any project, groups of layers, number of retries and       *)
(* parallelism: the account of its attempts, what batch.json says of a run *)
(* and what is left on disk of it; and its matrix, of which no run is left *)
(* out, and none skipped that would have sent something else.              *)
(***************************************************************************)
EXTENDS BatchRun, FiniteSetTheorems, WellFoundedInduction, TLAPS

Stage == {"waiting", "head", "delay", "setup", "running", "done"}

(* Every run is at one stage, and its counters and files are its own. *)
RunTypes ==
  /\ pc \in [Run -> Stage]
  /\ attempt \in [Run -> Nat \ {0}]
  /\ ran \in [Run -> Seq(Attempt)]
  /\ DOMAIN entry = Run /\ attempts \in [Run -> Nat]
  /\ main \in [Run -> Nat]
  /\ DOMAIN saved = Run

(* Before it returns, a run is at the attempt after those that ended; each of
   them was set aside under its number, and none is at archive.json. *)
UnderWay(i) ==
  /\ Len(ran[i]) = attempt[i] - 1
  /\ saved[i] = 1..attempt[i] - 1
  /\ main[i] = 0
  /\ \A k \in 1..Len(ran[i]) : ran[i][k].outcome \in {"failed", "error"}

BatchInv ==
  /\ RunTypes
  /\ \A i \in Run : pc[i] # "done" => UnderWay(i)
  /\ AttemptsAreAccountedFor

-----------------------------------------------------------------------------
(* A batch starts with no run. *)
LEMMA BatchInit == Init => BatchInv
<1> SUFFICES ASSUME Init PROVE BatchInv
  OBVIOUS
<1>1. /\ pc = <<>> /\ attempt = <<>> /\ ran = <<>> /\ entry = <<>>
      /\ attempts = <<>> /\ main = <<>> /\ saved = <<>>
  BY DEF Init
<1>2. Run = {}
  BY <1>1 DEF Run
<1>3. RunTypes
  BY <1>1, <1>2 DEF RunTypes
<1> QED BY <1>2, <1>3 DEF BatchInv, AttemptsAreAccountedFor

(* Every run of the matrix starts at its first attempt. *)
LEMMA LaunchHolds == Launch => BatchInv'
<1> SUFFICES ASSUME Launch PROVE BatchInv'
  OBVIOUS
<1>1. /\ pc' = [i \in DOMAIN specs |-> "waiting"]
      /\ attempt' = [i \in DOMAIN specs |-> 1]
      /\ ran' = [i \in DOMAIN specs |-> <<>>]
      /\ entry' = [i \in DOMAIN specs |-> "none"]
      /\ attempts' = [i \in DOMAIN specs |-> 0]
      /\ main' = [i \in DOMAIN specs |-> 0]
      /\ saved' = [i \in DOMAIN specs |-> {}]
  BY DEF Launch
<1>2. Run' = DOMAIN specs
  BY <1>1 DEF Run
<1>3. RunTypes'
  BY <1>1, <1>2 DEF RunTypes, Stage
<1>4. \A i \in Run' : UnderWay(i)'
  BY <1>1, <1>2 DEF UnderWay
<1> QED BY <1>1, <1>2, <1>3, <1>4 DEF BatchInv, AttemptsAreAccountedFor

(* What one run does leaves the account of the others as it was. *)
LEMMA OthersStay ==
  ASSUME BatchInv, NEW i \in Run, ctxDone => ctxDone', Run' = Run, RunTypes',
         \A j \in Run \ {i} :
           /\ pc'[j] = pc[j] /\ attempt'[j] = attempt[j] /\ ran'[j] = ran[j]
           /\ entry'[j] = entry[j] /\ attempts'[j] = attempts[j]
           /\ main'[j] = main[j] /\ saved'[j] = saved[j],
         pc'[i] # "done" => UnderWay(i)',
         pc'[i] = "done" => (EntryTellsTheLastAttempt(i) /\ EveryAttemptIsKept(i))'
  PROVE  BatchInv'
<1>1. \A j \in Run \ {i} : UnderWay(j) => UnderWay(j)'
  BY DEF UnderWay
<1>2. \A j \in Run \ {i} : EntryTellsTheLastAttempt(j) => EntryTellsTheLastAttempt(j)'
  BY DEF EntryTellsTheLastAttempt
<1>3. \A j \in Run \ {i} : EveryAttemptIsKept(j) => EveryAttemptIsKept(j)'
  BY DEF EveryAttemptIsKept
<1> QED BY <1>1, <1>2, <1>3 DEF BatchInv, AttemptsAreAccountedFor

(* Going on to the next stage of an attempt changes nothing else. *)
LEMMA StageHolds ==
  ASSUME BatchInv, NEW i \in Run, Start(i) \/ Begin(i) \/ DelayOver(i) \/ SetUp(i)
  PROVE  BatchInv'
<1>1. PICK s \in Stage \ {"done"} : pc' = [pc EXCEPT ![i] = s]
  BY DEF Start, Begin, DelayOver, SetUp, Stage
<1>2. /\ UNCHANGED <<attempt, ran, entry, attempts, main, saved, ctxDone>>
      /\ pc[i] # "done"
  BY DEF Start, Begin, DelayOver, SetUp
<1>3. Run' = Run /\ RunTypes'
  BY <1>1, <1>2 DEF BatchInv, RunTypes, Run
<1>4. UnderWay(i)' /\ pc'[i] # "done"
  BY <1>1, <1>2 DEF BatchInv, RunTypes, UnderWay
<1> QED BY <1>1, <1>2, <1>3, <1>4, OthersStay DEF BatchInv, RunTypes

(* What is on disk of a run that returns. *)
LEMMA SavedAre ==
  ASSUME BatchInv, NEW i \in Run, pc[i] # "done"
  PROVE  /\ attempt[i] \in Nat \ {0} /\ Len(ran[i]) = attempt[i] - 1
         /\ ran[i] \in Seq(Attempt) /\ saved[i] = 1..Len(ran[i]) /\ main[i] = 0
         /\ \A k \in 1..Len(ran[i]) : ran[i][k].outcome \in {"failed", "error"}
BY DEF BatchInv, RunTypes, UnderWay

(* An interrupt before an attempt. *)
LEMMA CancelledHolds == \A i \in Run : BatchInv /\ Cancelled(i) => BatchInv'
<1> SUFFICES ASSUME NEW i \in Run, BatchInv, Cancelled(i) PROVE BatchInv'
  OBVIOUS
<1>1. /\ pc[i] # "done" /\ ctxDone
      /\ pc' = [pc EXCEPT ![i] = "done"] /\ entry' = [entry EXCEPT ![i] = "error"]
      /\ attempts' = [attempts EXCEPT ![i] = IF attempt[i] - 1 > 1 THEN attempt[i] - 1 ELSE 0]
      /\ UNCHANGED <<attempt, ran, main, saved, ctxDone>>
  BY DEF Cancelled, Return, Recorded
<1>2. /\ attempt[i] \in Nat \ {0} /\ Len(ran[i]) = attempt[i] - 1
      /\ ran[i] \in Seq(Attempt) /\ saved[i] = 1..Len(ran[i]) /\ main[i] = 0
      /\ \A k \in 1..Len(ran[i]) : ran[i][k].outcome \in {"failed", "error"}
  BY <1>1, SavedAre
<1>3. Run' = Run /\ RunTypes'
  BY <1>1, <1>2 DEF BatchInv, RunTypes, Run, Stage
<1>4. /\ pc'[i] = "done" /\ entry'[i] = "error"
      /\ attempts'[i] = IF Len(ran[i]) > 1 THEN Len(ran[i]) ELSE 0
  BY <1>1, <1>2 DEF BatchInv, RunTypes
<1>5. ran[i] # <<>> => Len(ran[i]) \in 1..Len(ran[i])
  BY <1>2
<1>6. EntryTellsTheLastAttempt(i)'
  BY <1>1, <1>2, <1>4, <1>5 DEF EntryTellsTheLastAttempt, Last
<1>7. EveryAttemptIsKept(i)'
  <2>1. {k \in 1..Len(ran[i]) : ran[i][k].outcome # "setup"} = 1..Len(ran[i])
    BY <1>2
  <2>2. (saved[i] \cup {main[i]}) \ {0} = 1..Len(ran[i]) /\ main[i] \notin saved[i]
    BY <1>2
  <2> QED BY <1>1, <1>2, <2>1, <2>2 DEF EveryAttemptIsKept
<1> QED BY <1>1, <1>3, <1>4, <1>6, <1>7, OthersStay DEF BatchInv, RunTypes

(* An attempt that could not be set up leaves no archive. *)
LEMMA SetUpFailsHolds == \A i \in Run : BatchInv /\ SetUpFails(i) => BatchInv'
<1> SUFFICES ASSUME NEW i \in Run, BatchInv, SetUpFails(i) PROVE BatchInv'
  OBVIOUS
<1> DEFINE a == [outcome |-> "setup", fuzzFailed |-> FALSE]
<1>1. /\ pc[i] # "done"
      /\ pc' = [pc EXCEPT ![i] = "done"] /\ entry' = [entry EXCEPT ![i] = "error"]
      /\ attempts' = [attempts EXCEPT ![i] = IF attempt[i] > 1 THEN attempt[i] ELSE 0]
      /\ ran' = [ran EXCEPT ![i] = Append(ran[i], a)]
      /\ UNCHANGED <<attempt, main, saved, ctxDone>>
  BY DEF SetUpFails, Return, Recorded
<1>2. /\ attempt[i] \in Nat \ {0} /\ Len(ran[i]) = attempt[i] - 1
      /\ ran[i] \in Seq(Attempt) /\ saved[i] = 1..Len(ran[i]) /\ main[i] = 0
      /\ \A k \in 1..Len(ran[i]) : ran[i][k].outcome \in {"failed", "error"}
  BY <1>1, SavedAre
<1>3. a \in Attempt /\ a.outcome = "setup"
  BY DEF Attempt
<1> HIDE DEF a
<1>4. /\ Append(ran[i], a) \in Seq(Attempt) /\ Len(Append(ran[i], a)) = attempt[i]
      /\ Append(ran[i], a)[attempt[i]] = a
      /\ \A k \in 1..Len(ran[i]) : Append(ran[i], a)[k] = ran[i][k]
  BY <1>2, <1>3
<1>5. Run' = Run /\ RunTypes'
  BY <1>1, <1>2, <1>4 DEF BatchInv, RunTypes, Run, Stage
<1>6. /\ pc'[i] = "done" /\ entry'[i] = "error" /\ ran'[i] = Append(ran[i], a)
      /\ attempts'[i] = IF attempt[i] > 1 THEN attempt[i] ELSE 0
  BY <1>1, <1>2 DEF BatchInv, RunTypes
<1>7. Len(ran'[i]) = attempt[i] /\ Last(ran'[i]) = a /\ ran'[i] # <<>>
  BY <1>2, <1>4, <1>6 DEF Last
<1>8. EntryTellsTheLastAttempt(i)'
  BY <1>2, <1>3, <1>6, <1>7 DEF EntryTellsTheLastAttempt
<1>9. {k \in 1..Len(ran'[i]) : ran'[i][k].outcome # "setup"} = 1..Len(ran[i])
  <2>1. \A k \in 1..Len(ran'[i]) : k \in 1..Len(ran[i]) \/ k = attempt[i]
    BY <1>2, <1>7
  <2>2. 1..Len(ran[i]) \subseteq 1..Len(ran'[i])
    BY <1>2, <1>7
  <2>3. \A k \in 1..Len(ran[i]) : ran'[i][k].outcome # "setup"
    BY <1>2, <1>4, <1>6
  <2>4. ran'[i][attempt[i]].outcome = "setup" /\ attempt[i] \notin 1..Len(ran[i])
    BY <1>2, <1>3, <1>4, <1>6
  <2> QED BY <2>1, <2>2, <2>3, <2>4
<1>10. EveryAttemptIsKept(i)'
  BY <1>1, <1>2, <1>3, <1>7, <1>9 DEF EveryAttemptIsKept
<1> QED BY <1>1, <1>5, <1>6, <1>8, <1>10, OthersStay DEF BatchInv, RunTypes

(* A run that ended is retried, its archive set aside, or returns. *)
LEMMA RunEndsHolds == \A i \in Run : BatchInv /\ RunEnds(i) => BatchInv'
<1> SUFFICES ASSUME NEW i \in Run, BatchInv, RunEnds(i) PROVE BatchInv'
  OBVIOUS
<1>1. PICK a \in [outcome : Outcome, fuzzFailed : BOOLEAN] :
        /\ ran' = [ran EXCEPT ![i] = Append(ran[i], a)]
        /\ \/ /\ GoesOn(i, a)
              /\ attempt' = [attempt EXCEPT ![i] = attempt[i] + 1]
              /\ saved' = [saved EXCEPT ![i] = saved[i] \cup {attempt[i]}]
              /\ main' = [main EXCEPT ![i] = 0]
              /\ pc' = [pc EXCEPT ![i] = "head"]
              /\ UNCHANGED <<entry, attempts>>
           \/ /\ pc' = [pc EXCEPT ![i] = "done"]
              /\ entry' = [entry EXCEPT ![i] = a.outcome]
              /\ attempts' = [attempts EXCEPT ![i] = IF attempt[i] > 1 THEN attempt[i] ELSE 0]
              /\ main' = [main EXCEPT ![i] = attempt[i]]
              /\ UNCHANGED <<attempt, saved>>
  BY DEF RunEnds, Return, Recorded, Kept
<1>2. pc[i] # "done" /\ ctxDone' = ctxDone
  BY DEF RunEnds
<1>3. /\ attempt[i] \in Nat \ {0} /\ Len(ran[i]) = attempt[i] - 1
      /\ ran[i] \in Seq(Attempt) /\ saved[i] = 1..Len(ran[i]) /\ main[i] = 0
      /\ \A k \in 1..Len(ran[i]) : ran[i][k].outcome \in {"failed", "error"}
  BY <1>2, SavedAre
<1>4. a \in Attempt /\ a.outcome \in Outcome /\ a.outcome # "setup"
  BY DEF Attempt, Outcome
<1>5. /\ Append(ran[i], a) \in Seq(Attempt) /\ Len(Append(ran[i], a)) = attempt[i]
      /\ Append(ran[i], a)[attempt[i]] = a
      /\ \A k \in 1..Len(ran[i]) : Append(ran[i], a)[k] = ran[i][k]
  BY <1>3, <1>4
<1>6. ran'[i] = Append(ran[i], a)
  BY <1>1 DEF BatchInv, RunTypes
<1>7. /\ Len(ran'[i]) = attempt[i] /\ Last(ran'[i]) = a /\ ran'[i] # <<>>
      /\ \A k \in 1..Len(ran'[i]) :
           \/ k = attempt[i] /\ ran'[i][k] = a
           \/ k \in 1..Len(ran[i]) /\ ran'[i][k] = ran[i][k]
  BY <1>3, <1>5, <1>6 DEF Last
<1>8. CASE pc' = [pc EXCEPT ![i] = "head"]
  <2>1. /\ GoesOn(i, a)
        /\ attempt' = [attempt EXCEPT ![i] = attempt[i] + 1]
        /\ saved' = [saved EXCEPT ![i] = saved[i] \cup {attempt[i]}]
        /\ main' = [main EXCEPT ![i] = 0]
        /\ UNCHANGED <<entry, attempts>>
    <3>1. pc'[i] = "head"
      BY <1>8 DEF BatchInv, RunTypes
    <3>2. pc' # [pc EXCEPT ![i] = "done"]
      BY <3>1 DEF BatchInv, RunTypes
    <3> QED BY <1>1, <3>2
  <2>2. Run' = Run /\ RunTypes'
    BY <1>1, <1>3, <1>5, <1>8, <2>1 DEF BatchInv, RunTypes, Run, Stage
  <2>3. /\ pc'[i] = "head" /\ attempt'[i] = attempt[i] + 1 /\ main'[i] = 0
        /\ saved'[i] = saved[i] \cup {attempt[i]}
    BY <1>3, <1>8, <2>1 DEF BatchInv, RunTypes
  <2>4. saved'[i] = 1..attempt'[i] - 1
    <3>1. saved'[i] = (1..attempt[i] - 1) \cup {attempt[i]}
      BY <1>3, <2>3
    <3> QED BY <1>3, <2>3, <3>1
  <2>5. a.outcome \in {"failed", "error"}
    BY <2>1 DEF GoesOn, IsRetryable
  <2>6. UnderWay(i)'
    <3>1. Len(ran'[i]) = attempt'[i] - 1
      BY <1>3, <1>7, <2>3
    <3>2. \A k \in 1..Len(ran'[i]) : ran'[i][k].outcome \in {"failed", "error"}
      BY <1>3, <1>7, <2>5
    <3> QED BY <2>3, <2>4, <3>1, <3>2 DEF UnderWay
  <2> QED BY <1>1, <1>2, <1>8, <2>1, <2>2, <2>3, <2>6, OthersStay DEF BatchInv, RunTypes
<1>9. CASE /\ pc' = [pc EXCEPT ![i] = "done"]
           /\ entry' = [entry EXCEPT ![i] = a.outcome]
           /\ attempts' = [attempts EXCEPT ![i] = IF attempt[i] > 1 THEN attempt[i] ELSE 0]
           /\ main' = [main EXCEPT ![i] = attempt[i]]
           /\ UNCHANGED <<attempt, saved>>
  <2>1. Run' = Run /\ RunTypes'
    BY <1>1, <1>3, <1>5, <1>9 DEF BatchInv, RunTypes, Run, Stage
  <2>2. /\ pc'[i] = "done" /\ entry'[i] = a.outcome /\ main'[i] = attempt[i] /\ saved'[i] = saved[i]
        /\ attempts'[i] = IF attempt[i] > 1 THEN attempt[i] ELSE 0
    BY <1>3, <1>9 DEF BatchInv, RunTypes
  <2>3. EntryTellsTheLastAttempt(i)'
    BY <1>7, <2>2 DEF EntryTellsTheLastAttempt
  <2>4. {k \in 1..Len(ran'[i]) : ran'[i][k].outcome # "setup"} = 1..attempt[i]
    BY <1>3, <1>4, <1>7
  <2>5. (saved'[i] \cup {main'[i]}) \ {0} = 1..attempt[i] /\ main'[i] \notin saved'[i]
    <3>1. 1..attempt[i] = (1..attempt[i] - 1) \cup {attempt[i]}
      BY <1>3
    <3> QED BY <1>3, <2>2, <3>1
  <2>6. EveryAttemptIsKept(i)'
    BY <1>3, <1>7, <2>2, <2>4, <2>5 DEF EveryAttemptIsKept
  <2> QED BY <1>1, <1>2, <1>9, <2>1, <2>2, <2>3, <2>6, OthersStay DEF BatchInv, RunTypes
<1> QED BY <1>1, <1>8, <1>9

(* Every step of a batch keeps the account. *)
LEMMA BatchNext == BatchInv /\ [Next]_vars => BatchInv'
<1> SUFFICES ASSUME BatchInv, [Next]_vars PROVE BatchInv'
  OBVIOUS
<1>1. CASE Launch
  BY <1>1, LaunchHolds
<1>2. CASE \E i \in Run : RunStep(i)
  BY <1>2, StageHolds, CancelledHolds, SetUpFailsHolds, RunEndsHolds DEF RunStep
<1>3. CASE Plan \/ Interrupt \/ Tally \/ Exited \/ UNCHANGED vars
  <2>1. UNCHANGED <<pc, attempt, ran, entry, attempts, main, saved>> /\ (ctxDone => ctxDone')
    BY <1>3 DEF Plan, Interrupt, Tally, Exited, vars, runVars
  <2> QED BY <2>1 DEF BatchInv, RunTypes, Run, UnderWay, AttemptsAreAccountedFor,
                      EntryTellsTheLastAttempt, EveryAttemptIsKept
<1> QED BY <1>1, <1>2, <1>3 DEF Next

(* Whatever is retried, interrupted or not set up, and however many runs go on
   at once, each run's entry is its last attempt's, and every attempt that ran
   has its archive under its own name (run_shared.go
   loadAndRunPlanWithRetries, run_batch_cmd.go buildPlanResult). *)
THEOREM AttemptsAreAccounted == Spec => []AttemptsAreAccountedFor
<1>1. BatchInv => AttemptsAreAccountedFor
  BY DEF BatchInv
<1> QED BY <1>1, BatchInit, BatchNext, PTL DEF Spec

-----------------------------------------------------------------------------
(* R orders S strictly, all of it. *)
Orders(R, S) ==
  /\ \A x \in S : <<x, x>> \notin R
  /\ \A x, y \in S : x # y => <<x, y>> \in R \/ <<y, x>> \in R
  /\ \A x, y, z \in S : <<x, y>> \in R /\ <<y, z>> \in R => <<x, z>> \in R

(* f lists S: each of its elements once. *)
Lists(f, S) ==
  /\ Cardinality(S) \in Nat
  /\ f \in [1..Cardinality(S) -> S]
  /\ \A m, n \in 1..Cardinality(S) : f[m] = f[n] => m = n
  /\ \A x \in S : \E n \in 1..Cardinality(S) : f[n] = x

(* A set that is ordered is listed by the places in its order. *)
LEMMA InOrderLists ==
  ASSUME NEW S, IsFiniteSet(S), NEW R, Orders(R, S)
  PROVE  Lists(InOrder(S, R), S)
<1> DEFINE before(x) == {y \in S : <<y, x>> \in R}
           place == [x \in S |-> Cardinality(before(x))]
           N == Cardinality(S)
<1>1. N \in Nat
  BY FS_CardinalityType
<1>2. ASSUME NEW x \in S PROVE IsFiniteSet(before(x)) /\ place[x] \in 0..N - 1
  <2>1. before(x) \in SUBSET (S \ {x})
    BY DEF Orders
  <2>2. IsFiniteSet(S \ {x}) /\ Cardinality(S \ {x}) = N - 1
    BY <1>1, FS_RemoveElement
  <2> HIDE DEF before, N
  <2>3. IsFiniteSet(before(x)) /\ Cardinality(before(x)) <= N - 1
    BY <2>1, <2>2, FS_Subset
  <2>4. Cardinality(before(x)) \in Nat
    BY <2>3, FS_CardinalityType
  <2> QED BY <1>1, <2>3, <2>4
<1>3. ASSUME NEW x \in S, NEW y \in S, <<x, y>> \in R PROVE place[x] < place[y]
  <2>1. before(x) \in SUBSET before(y) /\ x \in before(y) /\ x \notin before(x)
    BY <1>3 DEF Orders
  <2>2. IsFiniteSet(before(x)) /\ IsFiniteSet(before(y))
    BY <1>2
  <2>3. Cardinality(before(x)) <= Cardinality(before(y)) /\ Cardinality(before(x)) # Cardinality(before(y))
    BY <2>1, <2>2, FS_Subset
  <2>4. Cardinality(before(x)) \in Nat /\ Cardinality(before(y)) \in Nat
    BY <2>2, FS_CardinalityType
  <2> HIDE DEF before
  <2> QED BY <2>3, <2>4
<1>4. \A x, y \in S : x # y => place[x] # place[y]
  <2> SUFFICES ASSUME NEW x \in S, NEW y \in S, x # y PROVE place[x] # place[y]
    OBVIOUS
  <2>1. place[x] < place[y] \/ place[y] < place[x]
    BY <1>3 DEF Orders
  <2>2. place[x] \in Int /\ place[y] \in Int
    BY <1>2
  <2> HIDE DEF place
  <2> QED BY <2>1, <2>2
<1>5. place \in Injection(S, 0..N - 1)
  BY <1>2, <1>4 DEF Injection, IsInjective
<1>6. IsFiniteSet(0..N - 1) /\ Cardinality(0..N - 1) = N
  <2>1. 0 \in Int /\ N - 1 \in Int
    BY <1>1
  <2> HIDE DEF N
  <2>2. IsFiniteSet(0..N - 1) /\ Cardinality(0..N - 1) = (IF 0 > N - 1 THEN 0 ELSE N - 1 - 0 + 1)
    BY <2>1, FS_Interval
  <2> QED BY <1>1, <2>2
<1>7. place \in Surjection(S, 0..N - 1)
  <2> HIDE DEF place
  <2> QED BY <1>5, <1>6, FS_Injection
<1> DEFINE o == InOrder(S, R)
<1>8. DOMAIN o = 1..N /\ \A n \in 1..N : o[n] = CHOOSE x \in S : Cardinality(before(x)) = n - 1
  BY DEF InOrder
<1>9. \A x \in S : place[x] = Cardinality(before(x))
  OBVIOUS
<1>10. o = [n \in 1..N |-> o[n]]
  <2> DEFINE f == [n \in 1..N |-> CHOOSE x \in S : Cardinality(before(x)) = n - 1]
  <2>1. o = f
    BY DEF InOrder
  <2>2. f = [n \in 1..N |-> f[n]]
    <3> HIDE DEF N, before
    <3> QED OBVIOUS
  <2> HIDE DEF f, o
  <2> QED BY <2>1, <2>2
<1> HIDE DEF place, before, N, o
<1>11. ASSUME NEW n \in 1..N PROVE o[n] \in S /\ place[o[n]] = n - 1
  <2>1. n - 1 \in 0..N - 1
    BY <1>1
  <2>2. PICK x \in S : place[x] = n - 1
    BY <1>7, <2>1 DEF Surjection
  <2> QED BY <1>8, <1>9, <2>2
<1>12. ASSUME NEW x \in S PROVE \E n \in 1..N : o[n] = x
  <2>1. place[x] \in 0..N - 1
    BY <1>2
  <2>2. place[x] + 1 \in 1..N
    BY <1>1, <2>1
  <2> PICK n \in 1..N : n = place[x] + 1
    BY <2>2
  <2>3. o[n] \in S /\ place[o[n]] = n - 1
    BY <1>11
  <2>4. place[o[n]] = place[x]
    BY <1>1, <2>1, <2>3
  <2> QED BY <1>4, <2>3, <2>4
<1>13. \A m, n \in 1..N : o[m] = o[n] => m = n
  BY <1>1, <1>11
<1>14. o \in [1..N -> S]
  BY <1>10, <1>11
<1> QED BY <1>1, <1>12, <1>13, <1>14 DEF Lists, o, N

(* The positions of a sequence are in order, and what is picked at some of them
   are the elements at them. *)
LEMMA PickedLists ==
  ASSUME NEW s, NEW S \in SUBSET Nat, IsFiniteSet(S)
  PROVE  \E at : /\ Lists(at, S)
                 /\ Picked(s, S) = [n \in 1..Cardinality(S) |-> s[at[n]]]
<1> DEFINE R == {p \in S \X S : p[1] < p[2]}
           at == InOrder(S, R)
<1>1. Orders(R, S)
  <2>1. \A x, y \in S : <<x, y>> \in R <=> x < y
    OBVIOUS
  <2> HIDE DEF R
  <2> QED BY <2>1 DEF Orders
<1>2. Lists(at, S)
  <2> HIDE DEF R
  <2> QED BY <1>1, InOrderLists
<1>3. DOMAIN at = 1..Cardinality(S)
  BY DEF InOrder
<1>4. Picked(s, S) = [n \in DOMAIN at |-> s[at[n]]]
  BY DEF Picked
<1> QED BY <1>2, <1>3, <1>4

(* What is picked of a sequence is a sequence of its elements. *)
LEMMA PickedIsSeq ==
  ASSUME NEW T, NEW s \in Seq(T), NEW S \in SUBSET DOMAIN s
  PROVE  /\ IsFiniteSet(S) /\ Cardinality(S) \in Nat
         /\ Picked(s, S) \in Seq(T) /\ Len(Picked(s, S)) = Cardinality(S)
         /\ DOMAIN Picked(s, S) = 1..Cardinality(S)
         /\ \A n \in DOMAIN Picked(s, S) : \E k \in S : Picked(s, S)[n] = s[k]
         /\ \A k \in S : \E n \in DOMAIN Picked(s, S) : Picked(s, S)[n] = s[k]
<1>1. S \in SUBSET Nat /\ IsFiniteSet(S) /\ Cardinality(S) \in Nat
  <2>1. IsFiniteSet(1..Len(s))
    BY FS_Interval
  <2>2. S \in SUBSET (1..Len(s))
    OBVIOUS
  <2> QED BY <2>1, <2>2, FS_Subset, FS_CardinalityType
<1>2. PICK at : Lists(at, S) /\ Picked(s, S) = [n \in 1..Cardinality(S) |-> s[at[n]]]
  BY <1>1, PickedLists
<1>3. \A n \in 1..Cardinality(S) : at[n] \in S /\ Picked(s, S)[n] = s[at[n]]
  BY <1>2 DEF Lists
<1>4. Picked(s, S) \in [1..Cardinality(S) -> T]
  <2>1. \A n \in 1..Cardinality(S) : s[at[n]] \in T
    BY <1>3
  <2> QED BY <1>2, <2>1
<1>5. Picked(s, S) \in Seq(T) /\ Len(Picked(s, S)) = Cardinality(S)
  BY <1>1, <1>4
<1>6. \A k \in S : \E n \in 1..Cardinality(S) : at[n] = k
  BY <1>2 DEF Lists
<1>7. DOMAIN Picked(s, S) = 1..Cardinality(S)
  BY <1>4
<1> HIDE DEF Picked
<1>8. \A k \in S : \E n \in 1..Cardinality(S) : Picked(s, S)[n] = s[k]
  BY <1>3, <1>6
<1> QED BY <1>1, <1>3, <1>5, <1>7, <1>8

-----------------------------------------------------------------------------
(* A layer's rank is the place of its name among all. *)
LEMMA RankIs ==
  /\ DOMAIN Names \in SUBSET (Nat \ {0})
  /\ \A l \in Range(Names) : Rank(l) \in DOMAIN Names /\ Names[Rank(l)] = l
<1>1. DOMAIN Names = 1..Len(Names) /\ Len(Names) \in Nat
  BY MatrixAssumption
<1>2. ASSUME NEW l \in Range(Names) PROVE Rank(l) \in DOMAIN Names /\ Names[Rank(l)] = l
  <2>1. \E k \in DOMAIN Names : Names[k] = l
    BY DEF Range
  <2> QED BY <2>1 DEF Rank
<1> QED BY <1>1, <1>2

(* A label lists the layers that it is made of. *)
LEMMA LabelIsSeq ==
  ASSUME NEW layers \in Seq(Range(Names))
  PROVE  Label(layers) \in Seq(Range(Names))
<1> DEFINE D == DOMAIN layers
           sorted(p) == \/ Rank(layers[p[1]]) < Rank(layers[p[2]])
                        \/ layers[p[1]] = layers[p[2]] /\ p[1] < p[2]
           R == {p \in D \X D : sorted(p)}
           at == InOrder(D, R)
<1>1. IsFiniteSet(D) /\ D \in SUBSET Nat
  BY FS_Interval
<1>2. \A x \in D : layers[x] \in Range(Names)
  OBVIOUS
<1>3. \A x \in D : Rank(layers[x]) \in Nat
  BY <1>2, RankIs
<1>4. \A x, y \in D : Rank(layers[x]) = Rank(layers[y]) => layers[x] = layers[y]
  BY <1>2, RankIs
<1>5. \A x, y \in D : <<x, y>> \in R <=> \/ Rank(layers[x]) < Rank(layers[y])
                                         \/ layers[x] = layers[y] /\ x < y
  OBVIOUS
<1> HIDE DEF R, D
<1>6. Orders(R, D)
  BY <1>1, <1>3, <1>4, <1>5 DEF Orders
<1>7. Lists(at, D)
  BY <1>1, <1>6, InOrderLists
<1>8. Label(layers) = [n \in DOMAIN at |-> layers[at[n]]]
  BY DEF Label, R, D
<1>9. Label(layers) \in [1..Cardinality(D) -> Range(Names)] /\ Cardinality(D) \in Nat
  BY <1>2, <1>7, <1>8 DEF Lists
<1> QED BY <1>9

(* A set of numbers with one in it has a least one. *)
LEMMA LeastNat ==
  ASSUME NEW S \in SUBSET Nat, S # {}
  PROVE  \E k \in S : \A j \in S : k <= j
<1>1. IsWellFoundedOn(OpToRel(<, Nat), Nat)
  BY NatLessThanWellFounded
<1>2. \E x \in S : \A y \in S : ~(<<y, x>> \in OpToRel(<, Nat))
  BY <1>1, WFMin
<1>3. PICK i \in S : \A j \in S : ~(<<j, i>> \in OpToRel(<, Nat))
  BY <1>2
<1>4. \A j \in S : <<j, i>> \in Nat \X Nat /\ <<j, i>>[1] = j /\ <<j, i>>[2] = i
  OBVIOUS
<1>5. \A j \in S : ~(j < i)
  BY <1>3, <1>4 DEF OpToRel
<1> QED BY <1>5

(* The order of sequences of numbers is a strict order, and total. *)
LEMMA PrecedesIsAnOrder ==
  /\ \A a \in Seq(Nat) : ~Precedes(a, a)
  /\ \A a, b \in Seq(Nat) : a # b => Precedes(a, b) \/ Precedes(b, a)
  /\ \A a, b, c \in Seq(Nat) : Precedes(a, b) /\ Precedes(b, c) => Precedes(a, c)
<1>1. ASSUME NEW a \in Seq(Nat) PROVE ~Precedes(a, a)
  BY DEF Precedes
<1>2. ASSUME NEW a \in Seq(Nat), NEW b \in Seq(Nat), a # b PROVE Precedes(a, b) \/ Precedes(b, a)
  <2>0. Len(a) = Len(b) => \E k \in 1..Len(a) : a[k] # b[k]
    <3>1. a = [k \in 1..Len(a) |-> a[k]] /\ b = [k \in 1..Len(b) |-> b[k]]
      OBVIOUS
    <3> QED BY <1>2, <3>1
  <2> DEFINE Differ(k) == k > Len(a) \/ k > Len(b) \/ a[k] # b[k]
             Same == {k \in Nat \ {0} : k <= Len(a) + 1 /\ k <= Len(b) + 1 /\ Differ(k)}
  <2>1. /\ Len(a) \in Nat /\ Len(b) \in Nat
        /\ \A j \in 1..Len(a) : a[j] \in Nat
        /\ \A j \in 1..Len(b) : b[j] \in Nat
    OBVIOUS
  <2>2. Same # {}
    <3>1. CASE Len(a) < Len(b)
      <4>1. Len(a) + 1 \in Same
        BY <2>1, <3>1
      <4> QED BY <4>1
    <3>2. CASE Len(b) < Len(a)
      <4>1. Len(b) + 1 \in Same
        BY <2>1, <3>2
      <4> QED BY <4>1
    <3>3. CASE Len(a) = Len(b)
      <4>1. PICK k \in 1..Len(a) : a[k] # b[k]
        BY <2>0, <3>3
      <4>2. k \in Same
        BY <2>1, <3>3, <4>1
      <4> QED BY <4>2
    <3> QED BY <2>1, <3>1, <3>2, <3>3
  <2>3. PICK k \in Same : \A j \in Same : k <= j
    <3>1. Same \in SUBSET Nat
      OBVIOUS
    <3> HIDE DEF Same
    <3> QED BY <2>2, <3>1, LeastNat
  <2>4. ASSUME NEW j \in 1..k - 1 PROVE j <= Len(a) /\ j <= Len(b) /\ a[j] = b[j]
    <3>1. k \in Nat /\ j \in Nat \ {0} /\ j < k /\ k <= Len(a) + 1 /\ k <= Len(b) + 1
      BY <2>3
    <3>2. j \notin Same
      BY <2>3, <3>1
    <3>3. j <= Len(a) + 1 /\ j <= Len(b) + 1
      BY <2>1, <3>1
    <3>4. ~Differ(j)
      BY <3>1, <3>2, <3>3
    <3> QED BY <2>1, <3>1, <3>4
  <2>5. k \in Nat \ {0} /\ k <= Len(a) + 1 /\ k <= Len(b) + 1 /\ Differ(k)
    BY <2>3
  <2>6. k <= Len(a) \/ k <= Len(b)
    <3> SUFFICES ASSUME k > Len(a), k > Len(b) PROVE FALSE
      BY <2>1, <2>5
    <3>1. Len(a) = k - 1 /\ Len(b) = k - 1
      BY <2>1, <2>5
    <3> QED BY <2>0, <2>4, <3>1
  <2>7. CASE k <= Len(b) /\ (k > Len(a) \/ a[k] < b[k])
    <3>1. k \in 1..Len(b)
      BY <2>1, <2>5, <2>7
    <3> QED BY <2>4, <2>5, <2>7, <3>1 DEF Precedes
  <2>8. CASE k <= Len(a) /\ (k > Len(b) \/ b[k] < a[k])
    <3>1. k \in 1..Len(a)
      BY <2>1, <2>5, <2>8
    <3> QED BY <2>4, <2>5, <2>8, <3>1 DEF Precedes
  <2>9. k <= Len(a) /\ k <= Len(b) => a[k] \in Nat /\ b[k] \in Nat /\ a[k] # b[k]
    BY <2>1, <2>5
  <2> HIDE DEF Differ
  <2> QED BY <2>1, <2>5, <2>6, <2>7, <2>8, <2>9
<1>3. ASSUME NEW a \in Seq(Nat), NEW b \in Seq(Nat), NEW c \in Seq(Nat), Precedes(a, b), Precedes(b, c)
      PROVE  Precedes(a, c)
  <2>1. PICK k \in 1..Len(b) : /\ k <= Len(a) + 1 /\ (k > Len(a) \/ a[k] < b[k])
                               /\ \A j \in 1..k - 1 : a[j] = b[j]
    BY <1>3 DEF Precedes
  <2>2. PICK l \in 1..Len(c) : /\ l <= Len(b) + 1 /\ (l > Len(b) \/ b[l] < c[l])
                               /\ \A j \in 1..l - 1 : b[j] = c[j]
    BY <1>3 DEF Precedes
  <2>3. /\ Len(a) \in Nat /\ Len(b) \in Nat /\ Len(c) \in Nat
        /\ \A j \in 1..Len(a) : a[j] \in Nat
        /\ \A j \in 1..Len(b) : b[j] \in Nat
        /\ \A j \in 1..Len(c) : c[j] \in Nat
    OBVIOUS
  <2>4. k \in Nat \ {0} /\ l \in Nat \ {0} /\ k <= Len(b) /\ l <= Len(c)
    OBVIOUS
  <2>5. CASE k < l
    <3>1. k \in 1..Len(c) /\ k \in 1..l - 1 /\ \A j \in 1..k - 1 : j \in 1..l - 1
      BY <2>3, <2>4, <2>5
    <3>2. b[k] = c[k] /\ \A j \in 1..k - 1 : a[j] = c[j]
      BY <2>1, <2>2, <3>1
    <3> QED BY <2>1, <3>1, <3>2 DEF Precedes
  <2>6. CASE k = l
    <3>1. \A j \in 1..l - 1 : a[j] = c[j]
      BY <2>1, <2>2, <2>6
    <3>2. l > Len(a) \/ a[l] < c[l]
      <4> SUFFICES ASSUME l <= Len(a) PROVE a[l] < c[l]
        BY <2>3, <2>4
      <4>1. a[l] < b[l] /\ b[l] < c[l]
        BY <2>1, <2>2, <2>3, <2>4, <2>6
      <4>2. a[l] \in Nat /\ b[l] \in Nat /\ c[l] \in Nat
        BY <2>3, <2>4, <2>6
      <4>3. \A x, y, z \in Nat : x < y /\ y < z => x < z
        OBVIOUS
      <4> QED BY <4>1, <4>2, <4>3, Zenon
    <3> QED BY <2>1, <2>6, <3>1, <3>2 DEF Precedes
  <2>7. CASE l < k
    <3>1. l \in 1..k - 1 /\ \A j \in 1..l - 1 : j \in 1..k - 1
      BY <2>3, <2>4, <2>7
    <3>2. a[l] = b[l] /\ \A j \in 1..l - 1 : a[j] = c[j]
      BY <2>1, <2>2, <3>1
    <3>3. k <= Len(a) + 1
      BY <2>1
    <3>4. l <= Len(a) /\ l <= Len(b)
      <4>1. \A m, n, u, v \in Nat : m < n /\ n <= u + 1 /\ n <= v => m <= u /\ m <= v
        OBVIOUS
      <4> QED BY <2>3, <2>4, <2>7, <3>3, <4>1, Zenon
    <3>5. ~(l > Len(b)) /\ ~(l > Len(a)) /\ l <= Len(a) + 1
      BY <2>3, <2>4, <3>4
    <3>6. a[l] < c[l]
      BY <2>2, <3>2, <3>5
    <3> QED BY <2>2, <3>2, <3>5, <3>6 DEF Precedes
  <2> QED BY <2>4, <2>5, <2>6, <2>7
<1> QED BY <1>1, <1>2, <1>3

-----------------------------------------------------------------------------
(* The groups that a command line may give. *)
Groups == Seq(Seq(Range(Names)))

(* A combination takes one layer of each group or none. *)
LEMMA CombosAreTyped ==
  ASSUME NEW groups \in Groups, NEW c \in Combos(groups)
  PROVE  /\ c \in Seq(Nat) /\ DOMAIN c = DOMAIN groups
         /\ \A k \in DOMAIN groups : c[k] \in 0..Len(groups[k])
<1>1. DOMAIN groups = 1..Len(groups) /\ Len(groups) \in Nat
  BY DEF Groups
<1>2. \A k \in DOMAIN groups : groups[k] \in Seq(Range(Names)) /\ Len(groups[k]) \in Nat
  BY DEF Groups
<1>3. DOMAIN c = DOMAIN groups /\ c = [k \in DOMAIN groups |-> c[k]]
  BY DEF Combos
<1>4. \A k \in DOMAIN groups : c[k] \in 0..Len(groups[k]) /\ c[k] \in Nat
  BY <1>2 DEF Combos
<1> QED BY <1>1, <1>3, <1>4

(* There are finitely many combinations. *)
LEMMA CombosAreFinite ==
  ASSUME NEW groups \in Groups
  PROVE  IsFiniteSet(Combos(groups))
<1> DEFINE D == DOMAIN groups
           V == {0..Len(groups[k]) : k \in D}
           U == UNION V
           graph == [c \in Combos(groups) |-> {<<k, c[k]>> : k \in D}]
<1>1. IsFiniteSet(D) /\ D = 1..Len(groups) /\ \A k \in D : Len(groups[k]) \in Nat
  BY FS_Interval DEF Groups
<1>2. IsFiniteSet(V)
  <2> DEFINE f == [k \in D |-> 0..Len(groups[k])]
  <2>1. f \in Surjection(D, V)
    BY DEF Surjection
  <2> HIDE DEF D, V, f
  <2> QED BY <1>1, <2>1, FS_Surjection
<1>3. \A T \in V : IsFiniteSet(T)
  <2> SUFFICES ASSUME NEW k \in D PROVE IsFiniteSet(0..Len(groups[k]))
    OBVIOUS
  <2> QED BY <1>1, FS_Interval
<1>4. IsFiniteSet(U)
  <2> HIDE DEF V
  <2> QED BY <1>2, <1>3, FS_UNION
<1>5. IsFiniteSet(SUBSET (D \X U))
  <2> HIDE DEF D, U
  <2>1. IsFiniteSet(D \X U)
    BY <1>1, <1>4, FS_Product
  <2> QED BY <2>1, FS_SUBSET
<1>6. graph \in Injection(Combos(groups), SUBSET (D \X U))
  <2>1. ASSUME NEW c \in Combos(groups) PROVE graph[c] \in SUBSET (D \X U)
    <3>1. \A k \in D : c[k] \in U
      BY CombosAreTyped
    <3> HIDE DEF U, D
    <3> QED BY <3>1
  <2>2. ASSUME NEW c \in Combos(groups), NEW d \in Combos(groups), graph[c] = graph[d] PROVE c = d
    <3>1. c = [k \in D |-> c[k]] /\ d = [k \in D |-> d[k]]
      BY DEF Combos
    <3>2. ASSUME NEW k \in D PROVE c[k] = d[k]
      <4>1. <<k, c[k]>> \in graph[d]
        BY <2>2
      <4> QED BY <4>1
    <3> HIDE DEF D, graph
    <3> QED BY <3>1, <3>2
  <2> HIDE DEF D, U
  <2> QED BY <2>1, <2>2 DEF Injection, IsInjective
<1> HIDE DEF graph, D, U
<1> QED BY <1>5, <1>6, FS_Injection

(* What a combination chooses are layers. *)
LEMMA ChosenIsSeq ==
  ASSUME NEW groups \in Groups, NEW c \in Combos(groups)
  PROVE  Chosen(groups, c) \in Seq(Range(Names))
<1> DEFINE T == Range(Names) \cup {"-"}
           s == [k \in DOMAIN groups |-> IF c[k] = 0 THEN "-" ELSE groups[k][c[k]]]
           S == {k \in DOMAIN groups : c[k] # 0}
<1>1. DOMAIN groups = 1..Len(groups) /\ Len(groups) \in Nat
  BY DEF Groups
<1>2. ASSUME NEW k \in S PROVE groups[k][c[k]] \in Range(Names)
  <2>1. groups[k] \in Seq(Range(Names)) /\ c[k] \in 0..Len(groups[k]) /\ c[k] # 0
    BY CombosAreTyped DEF Groups
  <2> QED BY <2>1
<1>3. s \in Seq(T)
  <2>1. \A k \in DOMAIN groups : s[k] \in T
    BY <1>2
  <2> HIDE DEF T
  <2> QED BY <1>1, <2>1
<1>4. S \in SUBSET DOMAIN s /\ \A k \in S : s[k] \in Range(Names)
  BY <1>2
<1>5. Chosen(groups, c) = Picked(s, S)
  BY DEF Chosen
<1> HIDE DEF s, S, T
<1>6. /\ Picked(s, S) \in Seq(T)
      /\ \A n \in DOMAIN Picked(s, S) : Picked(s, S)[n] \in Range(Names)
  BY <1>3, <1>4, PickedIsSeq
<1> QED BY <1>5, <1>6

(* Combinations of one label keep the order of the product, so that all of
   them are ordered. *)
LEMMA CombosAreOrdered ==
  ASSUME NEW groups \in Groups
  PROVE  LET C == Combos(groups)
         IN  Orders({p \in C \X C : SortsBefore(groups, p[1], p[2])}, C)
<1> DEFINE C == Combos(groups)
           R == {p \in C \X C : SortsBefore(groups, p[1], p[2])}
           L(c) == Ranks(Label(Chosen(groups, c)))
<1>1. ASSUME NEW c \in C PROVE L(c) \in Seq(Nat) /\ c \in Seq(Nat)
  <2>1. Label(Chosen(groups, c)) \in Seq(Range(Names))
    BY ChosenIsSeq, LabelIsSeq
  <2>2. \A l \in Range(Names) : Rank(l) \in Nat
    BY RankIs
  <2>3. L(c) \in Seq(Nat)
    BY <2>1, <2>2 DEF Ranks
  <2> QED BY <2>3, CombosAreTyped
<1>2. \A c, d \in C : <<c, d>> \in R <=> Precedes(L(c), L(d)) \/ (L(c) = L(d) /\ Precedes(c, d))
  BY DEF SortsBefore
<1> HIDE DEF R, L, C
<1>3. Orders(R, C)
  <2>1. \A x \in C : <<x, x>> \notin R
    BY <1>1, <1>2, PrecedesIsAnOrder
  <2>2. \A x, y \in C : x # y => <<x, y>> \in R \/ <<y, x>> \in R
    BY <1>1, <1>2, PrecedesIsAnOrder
  <2>3. \A x, y, z \in C : <<x, y>> \in R /\ <<y, z>> \in R => <<x, z>> \in R
    BY <1>1, <1>2, PrecedesIsAnOrder
  <2> QED BY <2>1, <2>2, <2>3 DEF Orders
<1> QED BY <1>3 DEF R, C

(* The combinations are listed, each as the layers that it takes. *)
LEMMA PermsAreSeqs ==
  ASSUME NEW groups \in Groups
  PROVE  /\ GenerateLayerPermutations(groups) \in Seq(Seq(Range(Names)))
         /\ \A c \in Combos(groups) : \E n \in DOMAIN GenerateLayerPermutations(groups) :
              GenerateLayerPermutations(groups)[n] = Chosen(groups, c)
<1> DEFINE C == Combos(groups)
           R == {p \in C \X C : SortsBefore(groups, p[1], p[2])}
           order == InOrder(C, R)
<1>1. Lists(order, C)
  <2>1. Orders(R, C) /\ IsFiniteSet(C)
    BY CombosAreOrdered, CombosAreFinite
  <2> HIDE DEF R, C
  <2> QED BY <2>1, InOrderLists
<1>2. GenerateLayerPermutations(groups) = [n \in DOMAIN order |-> Chosen(groups, order[n])]
  BY DEF GenerateLayerPermutations
<1> HIDE DEF order
<1>3. /\ Cardinality(C) \in Nat /\ DOMAIN order = 1..Cardinality(C)
      /\ \A n \in DOMAIN order : order[n] \in C
      /\ \A c \in C : \E n \in DOMAIN order : order[n] = c
  BY <1>1 DEF Lists
<1>4. \A n \in DOMAIN order : Chosen(groups, order[n]) \in Seq(Range(Names))
  BY <1>3, ChosenIsSeq
<1> HIDE DEF C
<1>5. \A c \in C : \E n \in DOMAIN order : GenerateLayerPermutations(groups)[n] = Chosen(groups, c)
  BY <1>2, <1>3
<1> QED BY <1>2, <1>3, <1>4, <1>5 DEF C

-----------------------------------------------------------------------------
(* Merging lists of layers gives a list of layers. *)
LEMMA MergedIsSeq ==
  ASSUME NEW base \in Seq(Range(Names)), NEW extra \in Seq(Range(Names))
  PROVE  mergeLayerNames(base, extra) \in Seq(Range(Names))
<1> DEFINE s == base \o extra
           S == {k \in DOMAIN s : \A j \in 1..k - 1 : s[j] # s[k]}
<1>1. s \in Seq(Range(Names)) /\ S \in SUBSET DOMAIN s
  OBVIOUS
<1>2. Picked(s, S) \in Seq(Range(Names))
  <2> HIDE DEF s, S
  <2> QED BY <1>1, PickedIsSeq
<1> QED BY <1>2 DEF mergeLayerNames, WithoutRepeats

(* A spec is a plan of the project's with a list of layers. *)
IsSpec(spec) == spec.plan \in DOMAIN Plans /\ spec.layers \in Seq(Range(Names))

(* What the project's files and the command line give, as the assumption has it. *)
LEMMA ProjectIsTyped ==
  ASSUME project \in Projects
  PROVE  /\ project.groups \in Groups /\ project.base \in Seq(Range(Names))
         /\ Len(Plans) \in Nat /\ DOMAIN Plans = 1..Len(Plans)
         /\ \A k \in DOMAIN Plans : Plans[k].layers \in Seq(Range(Names))
BY MatrixAssumption DEF Groups, Plans

(* The matrix is a list of specs. *)
LEMMA MatrixIs ==
  ASSUME project \in Projects
  PROVE  /\ Len(buildRunMatrix) \in Nat /\ DOMAIN buildRunMatrix = 1..Len(buildRunMatrix)
         /\ buildRunMatrix \in Seq(Range(buildRunMatrix))
         /\ \A k \in DOMAIN buildRunMatrix : IsSpec(buildRunMatrix[k])
<1> DEFINE perms == IF project.groups = <<>> THEN <<(<<>>)>>
                    ELSE GenerateLayerPermutations(project.groups)
           width == Len(perms)
           spec(k) == [plan |-> PlanAt(k, width), label |-> Label(perms[PermAt(k, width)]),
                       layers |-> mergeLayerNames(project.base, perms[PermAt(k, width)])]
           n == Len(Plans)
<1>1. /\ perms \in Seq(Seq(Range(Names))) /\ width \in Nat /\ n \in Nat
      /\ \A i \in 1..width : perms[i] \in Seq(Range(Names))
  <2>1. <<(<<>>)>> \in Seq(Seq(Range(Names)))
    OBVIOUS
  <2>2. perms \in Seq(Seq(Range(Names)))
    BY <2>1, ProjectIsTyped, PermsAreSeqs
  <2> HIDE DEF perms
  <2> QED BY <2>2, ProjectIsTyped
<1>2. buildRunMatrix = [k \in 1..n * width |-> spec(k)]
  BY DEF buildRunMatrix
<1> HIDE DEF perms, width, n
<1>3. n * width \in Nat
  BY <1>1
<1>4. ASSUME NEW k \in 1..n * width
      PROVE  PlanAt(k, width) \in 1..n /\ PermAt(k, width) \in 1..width
  <2>1. width > 0
    BY <1>1, <1>4
  <2> DEFINE q == (k - 1) \div width
             r == (k - 1) % width
  <2>2. k - 1 \in Nat /\ k - 1 < n * width
    BY <1>3
  <2>3. q \in Nat /\ r \in 0..width - 1 /\ k - 1 = width * q + r
    BY <1>1, <2>1, <2>2
  <2>4. q < n
    <3> SUFFICES ASSUME q >= n PROVE FALSE
      BY <1>1, <2>3
    <3> HIDE DEF q, r
    <3>1. PICK e \in Nat : q = n + e
      <4>1. q - n \in Nat /\ q = n + (q - n)
        BY <1>1, <2>3
      <4> QED BY <4>1
    <3>2. width * e \in Nat /\ width * n \in Nat /\ n * width = width * n
      BY <1>1, <3>1
    <3>3. width * q = width * n + width * e
      BY <1>1, <3>1
    <3> QED BY <1>1, <2>2, <2>3, <3>2, <3>3
  <2> QED BY <1>1, <2>3, <2>4 DEF PlanAt, PermAt
<1>5. ASSUME NEW k \in 1..n * width PROVE IsSpec(spec(k))
  <2>1. spec(k).plan \in 1..n
    BY <1>4
  <2>2. perms[PermAt(k, width)] \in Seq(Range(Names))
    BY <1>1, <1>4
  <2>3. spec(k).layers \in Seq(Range(Names))
    BY <2>2, ProjectIsTyped, MergedIsSeq
  <2> QED BY <2>1, <2>3, ProjectIsTyped DEF IsSpec, n
<1> HIDE DEF spec
<1>6. DOMAIN buildRunMatrix = 1..n * width /\ Len(buildRunMatrix) = n * width
  BY <1>2, <1>3
<1>7. buildRunMatrix \in [1..n * width -> Range(buildRunMatrix)]
  BY <1>2, <1>6 DEF Range
<1> QED BY <1>2, <1>3, <1>5, <1>6, <1>7

(* A position of the matrix is that of a plan and of a combination. *)
LEMMA PlaceOf ==
  \A n, width \in Nat : \A p \in 1..n, i \in 1..width :
    \E k \in 1..n * width : PlanAt(k, width) = p /\ PermAt(k, width) = i
<1> SUFFICES ASSUME NEW n \in Nat, NEW width \in Nat, NEW p \in 1..n, NEW i \in 1..width
             PROVE  \E k \in 1..n * width : PlanAt(k, width) = p /\ PermAt(k, width) = i
  OBVIOUS
<1> DEFINE q == p - 1
           r == i - 1
           m == q * width + r
<1>1. q \in Nat /\ r \in 0..width - 1 /\ width > 0 /\ q * width \in Nat /\ q + 1 <= n
  OBVIOUS
<1>2. m = width * q + r
  BY <1>1
<1>3. m \div width = q /\ m % width = r
  <2> HIDE DEF q, r
  <2> QED BY <1>1, <1>2
<1>4. q * width + width <= n * width
  <2>1. PICK e \in Nat : n = (q + 1) + e
    <3>1. n - (q + 1) \in Nat /\ n = (q + 1) + (n - (q + 1))
      BY <1>1
    <3> QED BY <3>1
  <2>2. e * width \in Nat
    OBVIOUS
  <2> HIDE DEF q
  <2>3. n * width = q * width + width + e * width
    BY <1>1, <2>1
  <2> QED BY <1>1, <2>2, <2>3
<1>5. m + 1 - 1 = m /\ m \in Nat
  BY <1>1
<1>6. m + 1 \in 1..n * width
  <2> HIDE DEF q, r
  <2>1. n * width \in Nat
    OBVIOUS
  <2> QED BY <1>1, <1>4, <2>1
<1> HIDE DEF m, q, r
<1>7. q + 1 = p /\ r + 1 = i
  BY DEF q, r
<1>8. PICK k \in 1..n * width : k = m + 1
  BY <1>6
<1>9. k - 1 = m
  BY <1>5, <1>8
<1> QED BY <1>3, <1>7, <1>9 DEF PlanAt, PermAt

(* Each plan is run with every choice of one layer of each group or none of it
   (graph/permute.go GenerateLayerPermutations, run_batch_cmd.go
   buildRunMatrix). *)
THEOREM MatrixIsComplete ==
  ASSUME project \in Projects, project.groups # <<>>,
         NEW p \in DOMAIN Plans, NEW c \in Combos(project.groups)
  PROVE  \E k \in DOMAIN buildRunMatrix :
           LET chosen == Chosen(project.groups, c)
           IN  buildRunMatrix[k] = [plan |-> p, label |-> Label(chosen),
                                    layers |-> mergeLayerNames(project.base, chosen)]
<1> DEFINE perms == GenerateLayerPermutations(project.groups)
           width == Len(perms)
           spec(k) == [plan |-> PlanAt(k, width), label |-> Label(perms[PermAt(k, width)]),
                       layers |-> mergeLayerNames(project.base, perms[PermAt(k, width)])]
           n == Len(Plans)
<1>1. perms \in Seq(Seq(Range(Names))) /\ n \in Nat /\ p \in 1..n
  BY ProjectIsTyped, PermsAreSeqs
<1>2. PICK i \in DOMAIN perms : perms[i] = Chosen(project.groups, c)
  BY ProjectIsTyped, PermsAreSeqs
<1>3. buildRunMatrix = [k \in 1..n * width |-> spec(k)]
  BY DEF buildRunMatrix
<1>4. width \in Nat /\ i \in 1..width
  <2> HIDE DEF perms
  <2> QED BY <1>1
<1> HIDE DEF perms, width, n
<1>5. \E k \in 1..n * width : PlanAt(k, width) = p /\ PermAt(k, width) = i
  BY <1>1, <1>4, PlaceOf
<1>6. PICK k \in 1..n * width : PlanAt(k, width) = p /\ PermAt(k, width) = i
  BY <1>5
<1>7. buildRunMatrix[k] = spec(k) /\ k \in DOMAIN buildRunMatrix
  BY <1>3, <1>6
<1> QED BY <1>2, <1>6, <1>7

-----------------------------------------------------------------------------
(* The matrix and what its specs send depend on the project alone. *)
LEMMA ProjectStays ==
  ASSUME project' = project
  PROVE  /\ buildRunMatrix' = buildRunMatrix
         /\ \A a, b : SendsSame(a, b)' <=> SendsSame(a, b)
<1>1. buildRunMatrix' = buildRunMatrix
  BY DEF buildRunMatrix, Plans
<1>2. \A names, node, input : EffectiveDefault(names, node, input)' = EffectiveDefault(names, node, input)
  BY DEF EffectiveDefault, Graph, Layers
<1>3. \A step, names : WithDefaults(step, names)' = WithDefaults(step, names)
  BY <1>2 DEF WithDefaults, Graph
<1>4. \A node, input, names : ResolveEmpty(node, input, names)' = ResolveEmpty(node, input, names)
  BY <1>2 DEF ResolveEmpty
<1>5. \A step, names : Taken(step, names)' = Taken(step, names)
  BY <1>3, <1>4 DEF Taken
<1>6. \A spec : EffectiveLayers(spec)' = EffectiveLayers(spec)
  BY DEF EffectiveLayers, Plans
<1>7. \A spec : StepsSend(spec)' = StepsSend(spec)
  BY <1>5, <1>6 DEF StepsSend, Plans
<1> QED BY <1>1, <1>7 DEF SendsSame, Plans

(* A sequence has finitely many elements. *)
LEMMA RangeIsFinite ==
  ASSUME NEW T, NEW s \in Seq(T)
  PROVE  IsFiniteSet(Range(s))
<1>1. s \in Surjection(DOMAIN s, Range(s)) /\ IsFiniteSet(DOMAIN s)
  BY FS_Interval DEF Surjection, Range
<1> QED BY <1>1, FS_Surjection

(* A run's layers are layers. *)
LEMMA EffectiveIsSeq ==
  ASSUME project \in Projects, NEW spec, IsSpec(spec)
  PROVE  EffectiveLayers(spec) \in Seq(Range(Names))
<1> DEFINE own == Plans[spec.plan].layers
           S == {k \in DOMAIN spec.layers : spec.layers[k] \notin Range(own)}
<1>1. own \in Seq(Range(Names)) /\ spec.layers \in Seq(Range(Names)) /\ S \in SUBSET DOMAIN spec.layers
  BY ProjectIsTyped DEF IsSpec
<1>2. EffectiveLayers(spec) = own \o Picked(spec.layers, S)
  BY DEF EffectiveLayers
<1> HIDE DEF own, S
<1>3. Picked(spec.layers, S) \in Seq(Range(Names))
  BY <1>1, PickedIsSeq
<1> QED BY <1>1, <1>2, <1>3

(* A spec's score is a number. *)
LEMMA ScoreIsNat ==
  ASSUME project \in Projects, NEW spec, IsSpec(spec)
  PROVE  dedupScore(spec) \in Nat
<1> DEFINE A == Range(spec.layers)
           B == Range(EffectiveLayers(spec))
           c == Cardinality(SymmetricDifference(A, B))
<1>1. IsFiniteSet(A) /\ IsFiniteSet(B) /\ Len(EffectiveLayers(spec)) \in Nat
  BY EffectiveIsSeq, RangeIsFinite DEF IsSpec
<1>2. dedupScore(spec) = 100 * c + Len(EffectiveLayers(spec))
  BY DEF dedupScore
<1>3. c \in Nat
  <2> HIDE DEF A, B
  <2>1. IsFiniteSet(A \ B) /\ IsFiniteSet(B \ A)
    BY <1>1, FS_Difference
  <2> QED BY <2>1, FS_Union, FS_CardinalityType DEF SymmetricDifference
<1> HIDE DEF c
<1> QED BY <1>1, <1>2, <1>3

-----------------------------------------------------------------------------
(* What fingerprintSpecs finds. *)
Fingerprinted ==
  /\ DOMAIN specs = 1..Len(specs) /\ Len(specs) \in Nat
  /\ \A k \in DOMAIN specs :
       /\ infos[k].score \in Nat
       /\ \A spec : spec = specs[k] /\ ~infos[k].err => infos[k].fingerprint = Fingerprint(spec)

(* A group has one canonical spec, which is one of it. *)
LEMMA CanonicalIs ==
  ASSUME Fingerprinted, NEW k \in DOMAIN specs
  PROVE  /\ Canonical(k) \in DOMAIN specs
         /\ Canonical(Canonical(k)) = Canonical(k)
         /\ Canonical(k) # k => /\ ~infos[k].err /\ ~infos[Canonical(k)].err
                                /\ infos[Canonical(k)].fingerprint = infos[k].fingerprint
                                /\ specs[Canonical(k)].plan = specs[k].plan
<1> DEFINE Low(G) == {j \in G : \A i \in G : infos[j].score <= infos[i].score}
<1>1. Group(k) \in SUBSET DOMAIN specs /\ k \in Group(k)
  BY DEF Group
<1>2. \A j \in DOMAIN specs : Canonical(j) = Min(Low(Group(j)))
  BY DEF Canonical
<1>3. Low(Group(k)) # {}
  <2> DEFINE scores == {infos[j].score : j \in Group(k)}
  <2>1. scores \in SUBSET Nat /\ scores # {}
    BY <1>1 DEF Fingerprinted
  <2> HIDE DEF scores
  <2>2. PICK m \in scores : \A n \in scores : m <= n
    BY <2>1, LeastNat
  <2>3. \E j \in Group(k) : infos[j].score = m
    BY DEF scores
  <2> QED BY <2>2, <2>3 DEF scores
<1>4. Low(Group(k)) \in SUBSET Nat
  BY <1>1 DEF Fingerprinted
<1>5. Canonical(k) \in Group(k)
  <2> HIDE DEF Low
  <2>1. \E x \in Low(Group(k)) : \A y \in Low(Group(k)) : x <= y
    BY <1>3, <1>4, LeastNat
  <2>2. Canonical(k) \in Low(Group(k))
    BY <1>2, <2>1 DEF Min
  <2> QED BY <2>2 DEF Low
<1>6. Group(Canonical(k)) = Group(k)
  BY <1>1, <1>5 DEF Group
<1>7. Canonical(Canonical(k)) = Canonical(k)
  <2> HIDE DEF Low
  <2> QED BY <1>1, <1>2, <1>5, <1>6
<1> QED BY <1>1, <1>5, <1>7 DEF Group

(* Of specs with one fingerprint, every step takes its values from the same
   place, less what the plan writes {}. *)
LEMMA SameFingerprint ==
  ASSUME NEW a, NEW b, a.plan = b.plan, Fingerprint(a) = Fingerprint(b)
  PROVE  SendsSame(a, b)
<1> DEFINE plan == Plans[a.plan]
           A == EffectiveLayers(a)
           B == EffectiveLayers(b)
<1>1. Instantiate(plan, A) = Instantiate(plan, B)
  BY DEF Fingerprint
<1>2. ASSUME NEW s \in DOMAIN plan.steps
      PROVE  WithDefaults(plan.steps[s], A) = WithDefaults(plan.steps[s], B)
  <2>1. /\ Instantiate(plan, A)[s] = WithDefaults(plan.steps[s], A)
        /\ Instantiate(plan, B)[s] = WithDefaults(plan.steps[s], B)
    BY DEF Instantiate
  <2> QED BY <1>1, <2>1
<1> SUFFICES ASSUME NEW s \in DOMAIN StepsSend(a), NEW i \in DOMAIN StepsSend(a)[s]
             PROVE  \/ SetBy(plan.steps[s].values, i) = None /\ i \in DOMAIN plan.steps[s].values
                    \/ i \in DOMAIN StepsSend(b)[s] /\ StepsSend(a)[s][i] = StepsSend(b)[s][i]
  BY DEF SendsSame
<1> DEFINE step == plan.steps[s]
           values == WithDefaults(step, A)
<1>3. /\ s \in DOMAIN plan.steps
      /\ StepsSend(a)[s] = Taken(step, A) /\ StepsSend(b)[s] = Taken(step, B)
  BY DEF StepsSend
<1>4. WithDefaults(step, B) = values
  BY <1>2, <1>3
<1> HIDE DEF values
<1>5. /\ i \in DOMAIN values
      /\ Taken(step, A)[i] = IF values[i] = None THEN ResolveEmpty(step.node, i, A) ELSE values[i]
      /\ DOMAIN Taken(step, B) = DOMAIN values
      /\ Taken(step, B)[i] = IF values[i] = None THEN ResolveEmpty(step.node, i, B) ELSE values[i]
  BY <1>3, <1>4 DEF Taken, values
<1>6. CASE values[i] # None
  BY <1>3, <1>5, <1>6
<1>7. CASE values[i] = None
  <2>1. i \in DOMAIN step.values
    <3> SUFFICES ASSUME i \notin DOMAIN step.values PROVE FALSE
      OBVIOUS
    <3>1. HasValue(EffectiveDefault(A, step.node, i)) /\ values[i] = EffectiveDefault(A, step.node, i)
      BY <1>5 DEF values, WithDefaults
    <3> QED BY <1>7, <3>1 DEF HasValue, None
  <2>2. values[i] = step.values[i]
    BY <1>5, <2>1 DEF values, WithDefaults
  <2> QED BY <1>7, <2>1, <2>2 DEF SetBy
<1> QED BY <1>6, <1>7

(* Each spec of the matrix is run or skipped, and what is skipped is answered
   for by a run of the same plan that sends the same. *)
Answered ==
  LET skippedSpecs == {skipped[n].spec : n \in DOMAIN skipped}
  IN  /\ DOMAIN specs = 1..Len(specs) /\ Len(specs) \in Nat
      /\ Range(specs) \cup skippedSpecs = Range(buildRunMatrix)
      /\ Len(specs) + Len(skipped) = Len(buildRunMatrix)
      /\ \A n \in DOMAIN skipped :
           /\ skipped[n].duplicateOf \in Range(specs)
           /\ skipped[n].duplicateOf.plan = skipped[n].spec.plan
           /\ \A a, b : a = skipped[n].spec /\ b = skipped[n].duplicateOf => SendsSame(a, b)

(* Until duplicates are looked for, the specs are the matrix; from then on, they
   and the skipped ones answer for it. *)
MatrixInv ==
  /\ project \in Projects
  /\ phase = "discovered" => skipped = <<>>
  /\ phase \in {"built", "fingerprinted"} => specs = buildRunMatrix /\ skipped = <<>>
  /\ phase = "fingerprinted" => Fingerprinted
  /\ Deduplicated => Answered

(* A matrix that is answered for is one that leaves nothing out. *)
LEMMA AnsweredIsLeftOut == MatrixInv => BatchesLeaveNothingOut
BY DEF MatrixInv, Answered, BatchesLeaveNothingOut, EverySpecIsAnswered, SkippedStepsAreTheSame

(* Each spec that can be read gets its fingerprint. *)
LEMMA FingerprintHolds == MatrixInv /\ fingerprintSpecs => MatrixInv'
<1> SUFFICES ASSUME MatrixInv, fingerprintSpecs PROVE MatrixInv'
  OBVIOUS
<1>1. /\ phase = "built" /\ phase' = "fingerprinted" /\ project' = project
      /\ specs' = specs /\ skipped' = skipped /\ skipped = <<>> /\ specs = buildRunMatrix
      /\ project \in Projects /\ buildRunMatrix' = buildRunMatrix
  BY ProjectStays DEF MatrixInv, fingerprintSpecs
<1>2. \A spec : Fingerprint(spec)' = Fingerprint(spec)
  BY <1>1 DEF Fingerprint, Instantiate, WithDefaults, EffectiveDefault, EffectiveLayers, Plans, Graph, Layers
<1>3. /\ DOMAIN specs = 1..Len(specs) /\ Len(specs) \in Nat
      /\ \A k \in DOMAIN specs : dedupScore(specs[k]) \in Nat
  BY <1>1, MatrixIs, ScoreIsNat
<1>4. Fingerprinted'
  <2>1. \A k \in DOMAIN specs :
           infos'[k] = IF Unreadable(specs[k]) THEN [err |-> TRUE, fingerprint |-> <<>>, score |-> 0]
                       ELSE [err |-> FALSE, fingerprint |-> Fingerprint(specs[k]),
                             score |-> dedupScore(specs[k])]
    BY DEF fingerprintSpecs
  <2>2. ASSUME NEW k \in DOMAIN specs
        PROVE  /\ infos'[k].score \in Nat
               /\ \A spec : spec = specs[k] /\ ~infos'[k].err => infos'[k].fingerprint = Fingerprint(spec)
    <3>1. CASE Unreadable(specs[k])
      <4>1. infos'[k] = [err |-> TRUE, fingerprint |-> <<>>, score |-> 0]
        BY <2>1, <3>1, Zenon
      <4> QED BY <4>1
    <3>2. CASE ~Unreadable(specs[k])
      <4>1. infos'[k] = [err |-> FALSE, fingerprint |-> Fingerprint(specs[k]),
                         score |-> dedupScore(specs[k])]
        BY <2>1, <3>2, Zenon
      <4> QED BY <1>3, <4>1
    <3> QED BY <3>1, <3>2
  <2> QED BY <1>1, <1>2, <1>3, <2>2 DEF Fingerprinted
<1> QED BY <1>1, <1>4 DEF MatrixInv, Deduplicated

(* The specs that are kept and those that are skipped are all of them. *)
LEMMA DeduplicateHolds == MatrixInv /\ deduplicateSpecs => MatrixInv'
<1> SUFFICES ASSUME MatrixInv, deduplicateSpecs PROVE MatrixInv'
  OBVIOUS
<1> DEFINE K == {k \in DOMAIN specs : Canonical(k) = k}
           D == {k \in DOMAIN specs : Canonical(k) # k}
           pairs == [k \in DOMAIN specs |-> [spec |-> specs[k], duplicateOf |-> specs[Canonical(k)]]]
<1>1. /\ phase = "fingerprinted" /\ phase' = "deduplicated" /\ project' = project
      /\ specs = buildRunMatrix /\ skipped = <<>> /\ Fingerprinted
      /\ project \in Projects /\ buildRunMatrix' = buildRunMatrix
      /\ \A a, b : SendsSame(a, b)' <=> SendsSame(a, b)
  BY ProjectStays DEF MatrixInv, deduplicateSpecs
<1>2. DOMAIN specs = 1..Len(specs) /\ Len(specs) \in Nat /\ specs \in Seq(Range(specs))
  BY <1>1, MatrixIs
<1>3. Answered'
  <2>1. CASE UNCHANGED <<specs, skipped>>
    BY <1>1, <1>2, <2>1 DEF Answered
  <2>2. CASE specs' = Picked(specs, K) /\ skipped' = Picked(pairs, D)
    <3>1. K \in SUBSET DOMAIN specs /\ D \in SUBSET DOMAIN specs /\ D = (DOMAIN specs) \ K
      OBVIOUS
    <3>2. pairs \in Seq(Range(pairs)) /\ DOMAIN pairs = DOMAIN specs
      <4>1. pairs \in [1..Len(specs) -> Range(pairs)]
        BY <1>2 DEF Range
      <4> QED BY <1>2, <4>1
    <3>3. ASSUME NEW k \in DOMAIN specs
          PROVE  pairs[k].spec = specs[k] /\ pairs[k].duplicateOf = specs[Canonical(k)]
      OBVIOUS
    <3>4. ASSUME NEW k \in D
          PROVE  Canonical(k) \in K /\ specs[Canonical(k)].plan = specs[k].plan
                 /\ SendsSame(specs[k], specs[Canonical(k)])
      <4>1. /\ Canonical(k) \in K /\ specs[Canonical(k)].plan = specs[k].plan
            /\ Fingerprint(specs[Canonical(k)]) = Fingerprint(specs[k])
        BY <1>1, CanonicalIs DEF Fingerprinted
      <4> QED BY <4>1, SameFingerprint
    <3> HIDE DEF K, D, pairs
    <3>5. /\ specs' \in Seq(Range(specs)) /\ Len(specs') = Cardinality(K)
          /\ DOMAIN specs' = 1..Cardinality(K) /\ IsFiniteSet(K) /\ Cardinality(K) \in Nat
          /\ \A n \in DOMAIN specs' : \E k \in K : specs'[n] = specs[k]
          /\ \A k \in K : \E n \in DOMAIN specs' : specs'[n] = specs[k]
      BY <1>2, <2>2, <3>1, PickedIsSeq
    <3>6. /\ Len(skipped') = Cardinality(D) /\ IsFiniteSet(D) /\ Cardinality(D) \in Nat
          /\ \A n \in DOMAIN skipped' : \E k \in D : skipped'[n] = pairs[k]
          /\ \A k \in D : \E n \in DOMAIN skipped' : skipped'[n] = pairs[k]
      <4>1. D \in SUBSET DOMAIN pairs
        BY <3>1, <3>2
      <4> QED BY <2>2, <3>2, <4>1, PickedIsSeq
    <3>7. Len(specs') + Len(skipped') = Len(specs)
      <4>1. IsFiniteSet(DOMAIN specs) /\ Cardinality(DOMAIN specs) = Len(specs)
        BY <1>2, FS_Interval
      <4>2. (DOMAIN specs) \cap K = K
        BY <3>1
      <4> DEFINE All == DOMAIN specs
      <4>3. IsFiniteSet(All) /\ All \cap K = K /\ D = All \ K
        BY <3>1, <4>1, <4>2
      <4> HIDE DEF All
      <4>4. Cardinality(All \ K) = Cardinality(All) - Cardinality(All \cap K)
        BY <4>3, FS_Difference
      <4>5. Cardinality(D) = Cardinality(All) - Cardinality(K)
        BY <4>3, <4>4
      <4> USE DEF All
      <4> QED BY <1>2, <3>5, <3>6, <4>1, <4>5
    <3>8. Range(specs') = {specs[k] : k \in K}
      BY <3>5 DEF Range
    <3>9. {skipped'[n].spec : n \in DOMAIN skipped'} = {specs[k] : k \in D}
      <4>1. ASSUME NEW n \in DOMAIN skipped' PROVE skipped'[n].spec \in {specs[k] : k \in D}
        <5> PICK k \in D : skipped'[n] = pairs[k]
          BY <3>6
        <5> QED BY <3>1, <3>3
      <4>2. ASSUME NEW k \in D PROVE \E n \in DOMAIN skipped' : skipped'[n].spec = specs[k]
        <5> PICK n \in DOMAIN skipped' : skipped'[n] = pairs[k]
          BY <3>6
        <5> QED BY <3>1, <3>3
      <4> QED BY <4>1, <4>2
    <3>10. {specs[k] : k \in K} \cup {specs[k] : k \in D} = Range(specs)
      BY <3>1 DEF Range
    <3>11. ASSUME NEW n \in DOMAIN skipped'
           PROVE  /\ skipped'[n].duplicateOf \in Range(specs')
                  /\ skipped'[n].duplicateOf.plan = skipped'[n].spec.plan
                  /\ \A a, b : /\ a = skipped'[n].spec
                              /\ b = skipped'[n].duplicateOf
                              => SendsSame(a, b)
      <4> PICK k \in D : skipped'[n] = pairs[k]
        BY <3>6
      <4> QED BY <3>1, <3>3, <3>4, <3>8
    <3> QED BY <1>1, <3>5, <3>7, <3>8, <3>9, <3>10, <3>11 DEF Answered
  <2> QED BY <2>1, <2>2 DEF deduplicateSpecs
<1> QED BY <1>1, <1>3 DEF MatrixInv, Deduplicated

(* An order of the runs leaves none out and makes none twice. *)
LEMMA ShuffleHolds == MatrixInv /\ Shuffle => MatrixInv'
<1> SUFFICES ASSUME MatrixInv, Shuffle PROVE MatrixInv'
  OBVIOUS
<1>1. /\ phase = "deduplicated" /\ phase' = "ready" /\ project' = project /\ skipped' = skipped
      /\ project \in Projects /\ Answered /\ buildRunMatrix' = buildRunMatrix
      /\ \A a, b : SendsSame(a, b)' <=> SendsSame(a, b)
  BY ProjectStays DEF MatrixInv, Shuffle, Deduplicated
<1>2. PICK order \in Bijection(DOMAIN specs, DOMAIN specs) : specs' = [k \in DOMAIN specs |-> specs[order[k]]]
  BY DEF Shuffle
<1>3. /\ order \in [DOMAIN specs -> DOMAIN specs]
      /\ \A k \in DOMAIN specs : \E j \in DOMAIN specs : order[j] = k
  BY DEF Bijection, Surjection
<1>4. DOMAIN specs' = DOMAIN specs /\ Range(specs') = Range(specs)
  BY <1>2, <1>3 DEF Range
<1>5. DOMAIN specs = 1..Len(specs) /\ Len(specs) \in Nat
  BY <1>1 DEF Answered
<1>6. Len(specs') = Len(specs)
  BY <1>4, <1>5
<1>7. Answered'
  BY <1>1, <1>4, <1>5, <1>6 DEF Answered
<1> QED BY <1>1, <1>7 DEF MatrixInv, Deduplicated

(* Every step keeps the matrix answered for. *)
LEMMA MatrixNext == MatrixInv /\ [Next]_vars => MatrixInv'
<1> SUFFICES ASSUME MatrixInv, [Next]_vars PROVE MatrixInv'
  OBVIOUS
<1>1. CASE BuildMatrix
  BY <1>1, ProjectStays DEF BuildMatrix, MatrixInv, Deduplicated
<1>2. CASE Launch
  BY <1>2 DEF Launch, MatrixInv, Deduplicated
<1>3. CASE UNCHANGED matrixVars
  <2>1. /\ project' = project /\ phase' = phase /\ specs' = specs /\ infos' = infos /\ skipped' = skipped
        /\ buildRunMatrix' = buildRunMatrix
        /\ \A a, b : SendsSame(a, b)' <=> SendsSame(a, b)
        /\ \A spec : Fingerprint(spec)' = Fingerprint(spec)
    <3>1. project' = project
      BY <1>3 DEF matrixVars
    <3>2. \A spec : Fingerprint(spec)' = Fingerprint(spec)
      BY <3>1 DEF Fingerprint, Instantiate, WithDefaults, EffectiveDefault, EffectiveLayers, Plans, Graph, Layers
    <3> QED BY <1>3, <3>1, <3>2, ProjectStays DEF matrixVars
  <2>2. Fingerprinted' <=> Fingerprinted
    BY <2>1 DEF Fingerprinted
  <2>3. Answered' <=> Answered
    BY <2>1 DEF Answered
  <2> QED BY <2>1, <2>2, <2>3 DEF MatrixInv, Deduplicated
<1>4. CASE Plan
  BY <1>1, <1>4, FingerprintHolds, DeduplicateHolds, ShuffleHolds DEF Plan
<1>5. CASE Interrupt \/ (\E i \in Run : RunStep(i)) \/ Tally \/ Exited \/ UNCHANGED vars
  <2>1. UNCHANGED matrixVars
    BY <1>5 DEF Interrupt, RunStep, Start, Cancelled, Begin, DelayOver, SetUp, SetUpFails, RunEnds, Return,
                Tally, Exited, vars, others
  <2> QED BY <1>3, <2>1
<1> QED BY <1>2, <1>4, <1>5 DEF Next

(* For any project, layers and groups, each spec of the matrix is run or
   skipped, and one that is skipped would have sent what the run sent that it
   is said to duplicate, less the values that the plan writes {}
   (run_batch_cmd.go deduplicateSpecs). *)
THEOREM NothingIsLeftOut == Spec => []BatchesLeaveNothingOut
<1>1. Init => MatrixInv
  BY DEF Init, InitMatrix, MatrixInv, Deduplicated
<1> QED BY <1>1, MatrixNext, AnsweredIsLeftOut, PTL DEF Spec
=============================================================================
