---------------------------- MODULE StepOrderProofs ----------------------------
(***************************************************************************)
(* The orders in which a run sends its steps.  Scheduler: for a plan of    *)
(* any length and any dependencies, TopologicalSort puts each step once    *)
(* and after all it depends on, keeps to the plan's order wherever that    *)
(* allows, and stops short of the whole plan only on a cycle.  FuzzRun:    *)
(* for any targets, cases and lengths of setup, a case runs on a setup     *)
(* that no other has touched, and the run's report is true.                *)
(***************************************************************************)
EXTENDS FuzzRun, Scheduler, Integers, FiniteSetTheorems, SequenceTheorems, WellFoundedInduction, TLAPS

-----------------------------------------------------------------------------
(* TopologicalSort (engine/scheduler.go). *)
Waiting(j) == Before(j) \ Placed

(* The counts are of the steps that are still waited for, and ready holds the
   steps that wait for none. *)
SortInv ==
  /\ IsPlan(steps)
  /\ sorted \in Seq(DOMAIN steps)
  /\ inDegree \in [DOMAIN steps -> Nat]
  /\ \A j \in DOMAIN steps : inDegree[j] = Cardinality(Waiting(j))
  /\ ready = {j \in DOMAIN steps \ Placed : inDegree[j] = 0}
  /\ PrerequisitesFirst
  /\ KeepsPlanOrder

(* A set of numbers has a least one. *)
LEMMA LeastExists ==
  ASSUME NEW S \in SUBSET Nat, S # {}
  PROVE  \E i \in S : \A j \in S : i <= j
<1>1. IsWellFoundedOn(OpToRel(<, Nat), Nat)
  BY NatLessThanWellFounded
<1>2. \E x \in S : \A y \in S : ~(<<y, x>> \in OpToRel(<, Nat))
  BY <1>1, WFMin
<1>3. PICK i \in S : \A j \in S : ~(<<j, i>> \in OpToRel(<, Nat))
  BY <1>2
<1>4. \A j \in S : <<j, i>> \in Nat \X Nat /\ <<j, i>>[1] = j /\ <<j, i>>[2] = i
  OBVIOUS
<1>5. \A j \in S : ~(j < i)
  BY <1>3, <1>4 DEF OpToRel
<1> QED
  BY <1>5

(* A plan has finitely many steps. *)
LEMMA PositionsAreFinite ==
  ASSUME IsPlan(steps)
  PROVE  /\ IsFiniteSet(DOMAIN steps) /\ DOMAIN steps \subseteq Nat
         /\ \A S \in SUBSET DOMAIN steps : IsFiniteSet(S) /\ Cardinality(S) \in Nat
                                           /\ (Cardinality(S) = 0 <=> S = {})
<1>1. PICK n \in Nat : DOMAIN steps = 1..n
  BY DEF IsPlan
<1>2. IsFiniteSet(1..n)
  BY FS_Interval
<1>3. \A S \in SUBSET (1..n) : IsFiniteSet(S)
  BY <1>2, FS_Subset
<1>4. \A S \in SUBSET (1..n) : Cardinality(S) \in Nat /\ (Cardinality(S) = 0 <=> S = {})
  BY <1>3, FS_CardinalityType, FS_EmptySet
<1> QED
  BY <1>1, <1>2, <1>3, <1>4

(* No step is before itself. *)
LEMMA BeforeIsOthers ==
  \A j \in DOMAIN steps : Before(j) \subseteq DOMAIN steps /\ j \notin Before(j)
  BY DEF Before

(* SortInv holds at the start. *)
LEMMA SortStarts == SortInit => SortInv
<1> SUFFICES ASSUME SortInit PROVE SortInv
  OBVIOUS
<1>1. IsPlan(steps) /\ inDegree = Degrees /\ ready = Free(Degrees) /\ sorted = <<>>
  BY DEF SortInit, SortBegins
<1>2. Placed = {}
  BY <1>1 DEF Placed
<1>3. sorted \in Seq(DOMAIN steps)
  BY <1>1
<1>4. \A j \in DOMAIN steps : inDegree[j] = Cardinality(Waiting(j))
  BY <1>1, <1>2 DEF Degrees, Waiting
<1>5. inDegree \in [DOMAIN steps -> Nat]
  BY <1>1, PositionsAreFinite, BeforeIsOthers DEF Degrees
<1>6. ready = {j \in DOMAIN steps \ Placed : inDegree[j] = 0}
  BY <1>1, <1>2 DEF Free
<1>7. PrerequisitesFirst /\ KeepsPlanOrder
  BY <1>1 DEF PrerequisitesFirst, KeepsPlanOrder
<1> QED
  BY <1>1, <1>3, <1>4, <1>5, <1>6, <1>7 DEF SortInv

(* First is the least of the ready steps. *)
LEMMA FirstIsLeast ==
  ASSUME SortInv, ready # {}
  PROVE  First \in ready /\ \A j \in ready : First <= j
<1>1. ready \in SUBSET Nat
  BY PositionsAreFinite DEF SortInv
<1>2. \E i \in ready : \A j \in ready : i <= j
  BY <1>1, LeastExists
<1> QED
  BY <1>2 DEF First

(* What a step of the sort adds to the order. *)
LEMMA SortPlaces ==
  ASSUME SortInv, TakeFirst
  PROVE  /\ sorted' \in Seq(DOMAIN steps)
         /\ Len(sorted') = Len(sorted) + 1
         /\ \A k \in DOMAIN sorted : sorted'[k] = sorted[k]
         /\ sorted'[Len(sorted) + 1] = First
         /\ DOMAIN sorted = 1..Len(sorted) /\ DOMAIN sorted' = 1..Len(sorted) + 1
         /\ Len(sorted) \in Nat
         /\ Placed' = Placed \cup {First}
         /\ \A k \in DOMAIN sorted : PlacedBefore(k)' = PlacedBefore(k)
         /\ \A k : k = Len(sorted) + 1 => PlacedBefore(k)' = Placed
         /\ Placed \subseteq DOMAIN steps /\ First \in DOMAIN steps \ Placed
<1>1. First \in ready
  BY FirstIsLeast DEF TakeFirst
<1>2. First \in DOMAIN steps \ Placed
  BY <1>1 DEF SortInv
<1>3. sorted \in Seq(DOMAIN steps) /\ sorted' = Append(sorted, First)
  BY DEF SortInv, TakeFirst
<1>4. /\ sorted' \in Seq(DOMAIN steps) /\ Len(sorted') = Len(sorted) + 1 /\ Len(sorted) \in Nat
      /\ \A k \in 1..Len(sorted) : sorted'[k] = sorted[k]
      /\ sorted'[Len(sorted) + 1] = First
      /\ DOMAIN sorted = 1..Len(sorted) /\ DOMAIN sorted' = 1..Len(sorted) + 1
  BY <1>2, <1>3
<1>5. Placed' = Placed \cup {First}
  <2>1. \A k \in 1..Len(sorted) + 1 : k \in 1..Len(sorted) \/ k = Len(sorted) + 1
    BY <1>4
  <2> QED
    BY <2>1, <1>4 DEF Placed
<1>6. \A k \in DOMAIN sorted : PlacedBefore(k)' = PlacedBefore(k)
  <2>1. \A k \in 1..Len(sorted) : \A l \in 1..k - 1 : sorted'[l] = sorted[l]
    BY <1>4
  <2> QED
    BY <2>1, <1>4 DEF PlacedBefore
<1>7. ASSUME NEW k, k = Len(sorted) + 1 PROVE PlacedBefore(k)' = Placed
  <2>1. 1..k - 1 = 1..Len(sorted)
    BY <1>4, <1>7
  <2>2. {sorted'[l] : l \in 1..k - 1} = {sorted[l] : l \in 1..Len(sorted)}
    BY <2>1, <1>4
  <2> QED
    BY <2>2, <1>4 DEF PlacedBefore, Placed
<1>8. Placed \subseteq DOMAIN steps
  BY <1>3, <1>4 DEF Placed
<1> QED
  BY <1>2, <1>4, <1>5, <1>6, <1>7, <1>8

(* The step that is placed comes after all it depends on. *)
LEMMA SortKeepsPrerequisites ==
  ASSUME SortInv, TakeFirst
  PROVE  PrerequisitesFirst'
<1> USE SortPlaces
<1>1. steps' = steps /\ \A j : Before(j)' = Before(j)
  BY DEF TakeFirst, Before
<1>2. Before(First) \subseteq Placed
  <2>1. First \in ready
    BY FirstIsLeast DEF TakeFirst
  <2>2. inDegree[First] = 0 /\ Cardinality(Waiting(First)) = 0
    BY <2>1 DEF SortInv
  <2>3. Waiting(First) \subseteq DOMAIN steps
    BY BeforeIsOthers DEF Waiting
  <2>4. Waiting(First) = {}
    BY <2>2, <2>3, PositionsAreFinite DEF SortInv
  <2> QED
    BY <2>4 DEF Waiting
<1>3. ASSUME NEW k \in DOMAIN sorted'
      PROVE  Before(sorted'[k]) \subseteq PlacedBefore(k)' /\ sorted'[k] \notin PlacedBefore(k)'
  <2>1. CASE k \in DOMAIN sorted
    BY <2>1 DEF SortInv, PrerequisitesFirst
  <2>2. CASE k = Len(sorted) + 1
    <3>1. PlacedBefore(k)' = Placed /\ sorted'[k] = First
      BY <2>2
    <3> QED
      BY <3>1, <1>2
  <2> QED
    BY <1>3, <2>1, <2>2
<1> QED
  BY <1>1, <1>3 DEF PrerequisitesFirst

(* The step that is placed keeps to the plan's order. *)
LEMMA SortKeepsOrder ==
  ASSUME SortInv, TakeFirst
  PROVE  KeepsPlanOrder'
<1> USE SortPlaces
<1>1. steps' = steps /\ \A j : Before(j)' = Before(j)
  BY DEF TakeFirst, Before
<1>2. ASSUME NEW j \in DOMAIN steps \ Placed, j < First
      PROVE  ~(Before(j) \subseteq Placed)
  <2>1. j \notin ready
    <3>1. \A i \in ready : First <= i
      BY FirstIsLeast DEF TakeFirst
    <3>2. First \in Nat /\ j \in Nat
      BY PositionsAreFinite DEF SortInv
    <3> QED
      BY <1>2, <3>1, <3>2
  <2>2. Cardinality(Waiting(j)) # 0
    BY <2>1 DEF SortInv
  <2>3. Waiting(j) # {}
    BY <2>2, FS_EmptySet
  <2> QED
    BY <2>3 DEF Waiting
<1>3. ASSUME NEW k \in DOMAIN sorted', NEW j \in DOMAIN steps \ PlacedBefore(k)', j < sorted'[k]
      PROVE  ~(Before(j) \subseteq PlacedBefore(k)')
  <2>1. CASE k \in DOMAIN sorted
    BY <1>3, <2>1 DEF SortInv, KeepsPlanOrder
  <2>2. CASE k = Len(sorted) + 1
    <3>1. PlacedBefore(k)' = Placed /\ sorted'[k] = First
      BY <2>2
    <3> QED
      BY <3>1, <1>2, <1>3
  <2> QED
    BY <1>3, <2>1, <2>2
<1> QED
  BY <1>1, <1>3 DEF KeepsPlanOrder

(* One step fewer is waited for where the step just placed is a prerequisite. *)
LEMMA SortKeepsCounts ==
  ASSUME SortInv, TakeFirst
  PROVE  /\ inDegree' \in [DOMAIN steps -> Nat]
         /\ \A j \in DOMAIN steps : inDegree'[j] = Cardinality(Waiting(j)')
         /\ \A j \in DOMAIN steps : First \in Before(j) => inDegree[j] > 0
<1> USE SortPlaces
<1>1. steps' = steps /\ \A j : Before(j)' = Before(j)
  BY DEF TakeFirst, Before
<1>2. ASSUME NEW j \in DOMAIN steps
      PROVE  /\ inDegree'[j] \in Nat /\ inDegree'[j] = Cardinality(Waiting(j)')
             /\ First \in Before(j) => inDegree[j] > 0
  <2>1. Waiting(j)' = Waiting(j) \ {First}
    BY <1>1 DEF Waiting
  <2>2. IsFiniteSet(Waiting(j)) /\ Cardinality(Waiting(j)) \in Nat
    BY PositionsAreFinite, BeforeIsOthers DEF SortInv, Waiting
  <2>3. Cardinality(Waiting(j)') =
          IF First \in Waiting(j) THEN Cardinality(Waiting(j)) - 1 ELSE Cardinality(Waiting(j))
    BY <2>1, <2>2, FS_RemoveElement
  <2>4. First \in Waiting(j) <=> First \in Before(j)
    BY DEF Waiting
  <2>5. First \in Waiting(j) => Cardinality(Waiting(j)) # 0
    BY <2>2, FS_EmptySet
  <2>6. inDegree'[j] = IF First \in Before(j) THEN inDegree[j] - 1 ELSE inDegree[j]
    BY DEF TakeFirst
  <2>7. inDegree[j] = Cardinality(Waiting(j))
    BY DEF SortInv
  <2> QED
    BY <2>2, <2>3, <2>4, <2>5, <2>6, <2>7
<1>3. inDegree' = [j \in DOMAIN steps |-> inDegree'[j]]
  BY DEF TakeFirst
<1> QED
  BY <1>2, <1>3

(* The steps that became free are ready. *)
LEMMA SortKeepsReady ==
  ASSUME SortInv, TakeFirst
  PROVE  ready' = {j \in DOMAIN steps \ Placed' : inDegree'[j] = 0}
<1> USE SortPlaces
<1>1. ASSUME NEW j \in DOMAIN steps
      PROVE  /\ inDegree'[j] = IF First \in Before(j) THEN inDegree[j] - 1 ELSE inDegree[j]
             /\ First \in Before(j) => inDegree[j] > 0
             /\ inDegree[j] \in Nat
  BY SortKeepsCounts DEF TakeFirst, SortInv
<1>2. ready = {j \in DOMAIN steps \ Placed : inDegree[j] = 0}
  BY DEF SortInv
<1>3. ASSUME NEW j \in DOMAIN steps, First \in Before(j) PROVE j \notin Placed'
  <2>1. j # First
    BY <1>3, BeforeIsOthers
  <2>2. j \notin Placed
    <3> SUFFICES ASSUME j \in Placed PROVE FALSE
      OBVIOUS
    <3>1. PICK k \in DOMAIN sorted : j = sorted[k]
      BY DEF Placed
    <3>2. Before(j) \subseteq PlacedBefore(k)
      BY <3>1 DEF SortInv, PrerequisitesFirst
    <3>3. PlacedBefore(k) \subseteq Placed
      BY <3>1 DEF PlacedBefore, Placed
    <3> QED
      BY <1>3, <3>2, <3>3
  <2> QED
    BY <2>1, <2>2
<1>4. ready' = (ready \ {First}) \cup {j \in DOMAIN steps : First \in Before(j) /\ inDegree[j] = 1}
  BY DEF TakeFirst, Freed
<1>5. ASSUME NEW j \in DOMAIN steps
      PROVE  j \in ready' <=> j \notin Placed' /\ inDegree'[j] = 0
  <2>1. CASE First \in Before(j)
    BY <2>1, <1>1, <1>2, <1>3, <1>4
  <2>2. CASE First \notin Before(j)
    BY <2>2, <1>1, <1>2, <1>4
  <2> QED
    BY <2>1, <2>2
<1>6. ready' \subseteq DOMAIN steps
  BY <1>2, <1>4
<1> QED
  BY <1>5, <1>6

(* SortInv holds after any step. *)
LEMMA SortInvIsKept == SortInv /\ [TakeFirst]_sortVars => SortInv'
<1> SUFFICES ASSUME SortInv, [TakeFirst]_sortVars PROVE SortInv'
  OBVIOUS
<1>1. CASE TakeFirst
  <2>1. steps' = steps
    BY <1>1 DEF TakeFirst
  <2>2. IsPlan(steps)' /\ sorted' \in Seq(DOMAIN steps')
    BY <1>1, <2>1, SortPlaces DEF SortInv, IsPlan
  <2>3. inDegree' \in [DOMAIN steps' -> Nat]
    BY <1>1, <2>1, SortKeepsCounts
  <2>4. \A j \in DOMAIN steps' : inDegree'[j] = Cardinality(Waiting(j)')
    BY <1>1, <2>1, SortKeepsCounts
  <2>5. ready' = {j \in DOMAIN steps' \ Placed' : inDegree'[j] = 0}
    BY <1>1, <2>1, SortKeepsReady
  <2>6. PrerequisitesFirst' /\ KeepsPlanOrder'
    BY <1>1, SortKeepsPrerequisites, SortKeepsOrder
  <2> QED
    BY <2>2, <2>3, <2>4, <2>5, <2>6 DEF SortInv
<1>2. CASE UNCHANGED sortVars
  <2>1. steps' = steps /\ inDegree' = inDegree /\ ready' = ready /\ sorted' = sorted
    BY <1>2 DEF sortVars
  <2>2. /\ IsPlan(steps)' = IsPlan(steps) /\ Placed' = Placed
        /\ \A j : Before(j)' = Before(j) /\ Waiting(j)' = Waiting(j) /\ PlacedBefore(j)' = PlacedBefore(j)
    BY <2>1 DEF IsPlan, Placed, Before, Waiting, PlacedBefore
  <2>3. PrerequisitesFirst' /\ KeepsPlanOrder'
    BY <2>1, <2>2 DEF SortInv, PrerequisitesFirst, KeepsPlanOrder
  <2> QED
    BY <2>1, <2>2, <2>3 DEF SortInv
<1> QED
  BY <1>1, <1>2

(* SortInv holds throughout. *)
LEMMA SortInvHolds == SortSpec => []SortInv
<1> QED
  BY SortStarts, SortInvIsKept, PTL DEF SortSpec

(* With nothing ready, every step that is left waits for one that is left. *)
LEMMA StuckIsACycle == SortInv => StuckOnlyOnACycle
<1> SUFFICES ASSUME SortInv, ready = {}, NEW j \in DOMAIN steps \ Placed
             PROVE  Before(j) \ Placed # {}
  BY DEF StuckOnlyOnACycle
<1>1. inDegree[j] # 0 /\ inDegree[j] = Cardinality(Waiting(j))
  BY DEF SortInv
<1> QED
  BY <1>1, FS_EmptySet DEF Waiting

(* In the order TopologicalSort builds, a step comes once and after every step
   it depends on, whatever the plan. *)
THEOREM OrderIsValid == SortSpec => []PrerequisitesFirst
<1>1. SortInv => PrerequisitesFirst
  BY DEF SortInv
<1> QED
  BY <1>1, SortInvHolds, PTL

(* No step goes ahead of one that the plan lists before it and that could have
   run then. *)
THEOREM OrderIsThePlans == SortSpec => []KeepsPlanOrder
<1>1. SortInv => KeepsPlanOrder
  BY DEF SortInv
<1> QED
  BY <1>1, SortInvHolds, PTL

(* The sort stops before the last step only if each step left waits for another
   one left: TopologicalSort's error is a cycle. *)
THEOREM ErrorIsACycle == SortSpec => []StuckOnlyOnACycle
<1> QED
  BY StuckIsACycle, SortInvHolds, PTL

-----------------------------------------------------------------------------
(* The fuzz cases of a run (engine/fuzz.go and Engine.Run). *)
GroupOf(t) ==
  [passed : BOOLEAN, live : [1..plan[t].setup -> 0..plan[t].cases], clean : BOOLEAN,
   building : {NoCase} \cup Cases, failures : Nat, stopped : BOOLEAN]
InfoOf(c) ==
  [setup : {"own", "fresh", "rebuilt", "reused", "failed"}, stale : BOOLEAN, failed : BOOLEAN,
   on : [1..plan[c[1]].setup -> 0..plan[c[1]].cases]]

(* The types. *)
FuzzTypes ==
  /\ plan \in Plans
  /\ queue \in Seq(Items) /\ idx \in Nat \ {0}
  /\ pc \in {"next", "verifying", "chosen", "sent", "done", "aborted"}
  /\ end \in BOOLEAN /\ verified \in BOOLEAN /\ ctxDone \in BOOLEAN
  /\ DOMAIN group = Targets /\ \A t \in Targets : group[t] \in GroupOf(t)
  /\ DOMAIN caseInfo = Cases /\ \A c \in Cases : caseInfo[c] \in InfoOf(c)
  /\ sends \in Seq([case : Cases, on : SUBSET Nat, answer : Answer])
  /\ copySent \subseteq Copies

(* The pieces of a case are side by side in the queue. *)
Blocks ==
  \A n \in DOMAIN queue : LET i == queue[n] IN
    i.kind # "own" =>
      \A j \in 1..plan[i.t].setup + 1 :
        n - i.k + j \in DOMAIN queue /\ queue[n - i.k + j] = CaseItem(i.t, i.c, j)

ToCome == {n \in DOMAIN queue : n >= idx}

(* No piece is twice in what is left of it. *)
LeftOnce == \A m, n \in ToCome : queue[m] = queue[n] => m = n

StillDue(t, c) == \E n \in ToCome : queue[n].t = t /\ queue[n].c = c

AtHand == idx <= Len(queue)
AtCase == AtHand /\ Here.kind # "own"

(* A step that was chosen still has to be sent; a copy that was sent is one of
   the setup being built; a case that was sent has a setup. *)
Ready ==
  /\ pc \in {"verifying", "chosen", "sent"} /\ AtHand => Due(Here)
  /\ pc \in {"chosen", "sent"} => AtHand
  /\ pc = "sent" /\ Here.kind = "copy" => G.building = Case /\ <<Case, Here.k>> \in copySent
  /\ pc = "sent" /\ Here.kind = "case" => ~caseInfo[Case].failed

(* Nothing went wrong yet for a case that is still to begin; if it goes again,
   it is next, and the setup that was used up is out of use. *)
Fresh ==
  \A n \in ToCome : LET i == queue[n] c == <<i.t, i.c>> IN
    i.kind # "own" /\ i.k = 1 =>
      ~caseInfo[c].failed /\ (caseInfo[c].stale => n = idx /\ ~group[i.t].clean)

(* Only the case at hand builds a setup, and up to here the copies are its own. *)
Builds ==
  /\ plan[Here.t].setup > 0
  /\ G.passed /\ ~G.clean /\ ~G.stopped /\ ~caseInfo[Case].failed
  /\ caseInfo[Case].setup = (IF caseInfo[Case].stale THEN "rebuilt" ELSE "fresh")
  /\ \A j \in 1..Here.k - 1 :
       caseInfo[Case].on[j] = Here.c /\ G.live[j] = Here.c /\ <<Case, j>> \in copySent
Building ==
  \A t \in Targets : group[t].building # NoCase =>
    AtCase /\ Here.t = t /\ group[t].building = Case /\ Builds

(* Past its first copy a case failed, or it builds, or it reuses. *)
Reuses ==
  /\ plan[Here.t].scope = "reuse" /\ G.clean /\ ~caseInfo[Case].stale
  /\ caseInfo[Case].setup = "reused"
  /\ \A j \in 1..Here.k - 1 : caseInfo[Case].on[j] = G.live[j] /\ <<Case, j>> \notin copySent
Prepared ==
  AtCase /\ Here.k > 1 /\ G.passed => caseInfo[Case].failed \/ G.building = Case \/ Reuses

(* A copy is sent once. *)
Left == {x \in Copies : \E n \in ToCome : queue[n] = CaseItem(x[1][1], x[1][2], x[2])}
SentIsPast ==
  \A x \in copySent \cap Left :
    pc \in {"sent", "aborted"} /\ AtHand /\ Here = CaseItem(x[1][1], x[1][2], x[2])

(* A setup in use is whole, its case is over, and no case sent on it harmed it. *)
Serves(t, d) ==
  /\ \A j \in 1..plan[t].setup : group[t].live[j] = d
  /\ {<<t, d>>} \X (1..plan[t].setup) \subseteq copySent
  /\ ~StillDue(t, d)
  /\ \A i \in DOMAIN sends : sends[i].case[1] = t /\ sends[i].on = {d} => Harmless(sends[i])
CleanServes ==
  pc # "aborted" =>
    \A t \in Targets : group[t].clean /\ plan[t].setup > 0 => \E d \in 1..plan[t].cases : Serves(t, d)

(* A setup that a case was sent on is that of a case that is over, so none is
   ever built twice under one name. *)
UsedIsOver ==
  pc # "aborted" =>
    \A i \in DOMAIN sends : LET t == sends[i].case[1] IN
      \A d \in 1..plan[t].cases : plan[t].setup > 0 /\ sends[i].on = {d} => ~StillDue(t, d)

SetupInv ==
  /\ FuzzTypes /\ Blocks /\ LeftOnce /\ Ready /\ Fresh /\ Building /\ Prepared
  /\ SentIsPast /\ CleanServes /\ UsedIsOver /\ SetupsAreUntouched

(* Every piece is in the queue, and a target's own step is ahead of its cases. *)
AllIn == \A i \in Items : \E n \in DOMAIN queue : queue[n] = i
OwnFirst ==
  \A m, n \in DOMAIN queue : queue[m].kind = "own" /\ queue[n].t = queue[m].t /\ n <= m => n = m

(* A label says "failed" exactly of a setup that failed. *)
Labels ==
  \A c \in Cases : LET i == caseInfo[c] IN
    /\ i.setup = "failed" <=> i.failed
    /\ plan[c[1]].setup = 0 => i.setup = "own"

(* A case that was reported is over, and what was reported of it is so. *)
OwnOnly(c) == caseInfo[c].on = [k \in 1..plan[c[1]].setup |-> c[2]]
Told(r) ==
  LET i == caseInfo[r.case] IN
  /\ ~StillDue(r.case[1], r.case[2])
  /\ r.setup = "reused" => ~OwnOnly(r.case) /\ r.answer # "stale"
  /\ r.setup \in {"fresh", "rebuilt"} => OwnOnly(r.case)
  /\ r.setup = "rebuilt" => i.stale
  /\ r.setup = "failed" => r.answer = "notSent"
Reported ==
  /\ reports \in Seq([case : Cases, answer : Answer, setup : {"own", "fresh", "rebuilt", "reused", "failed"}])
  /\ \A i, j \in DOMAIN reports : i # j => reports[i].case # reports[j].case
  /\ \A i \in DOMAIN reports : Told(reports[i])

(* A case that had to be sent and was passed is reported, or it goes again. *)
Answered(c) == \E i \in DOMAIN reports : reports[i].case = c
Wanted(i) == i.kind = "case" /\ group[i.t].passed /\ (RunsAfterPlan(i) \/ ~end)
NoneForgotten ==
  \A n \in DOMAIN queue : n < idx /\ Wanted(queue[n]) =>
    Answered(<<queue[n].t, queue[n].c>>) \/ StillDue(queue[n].t, queue[n].c)

(* The skipped copies are those of the targets that got through which were
   passed and not sent. *)
SkippedAre == {x \in Copies : group[x[1][1]].passed /\ x \notin Left /\ x \notin copySent}
Counts ==
  /\ skipped = Cardinality(SkippedAre)
  /\ \A x \in copySent : group[x[1][1]].passed

ReportInv ==
  /\ AllIn /\ OwnFirst /\ Labels /\ Reported /\ NoneForgotten /\ Counts
  /\ pc = "done" => ~AtHand

-----------------------------------------------------------------------------
(* What a plan comes to as steps to send. *)
(* What a plan is made of. *)
LEMMA PlanFacts ==
  ASSUME plan \in Plans
  PROVE  /\ Len(plan) \in Nat /\ Targets = 1..Len(plan)
         /\ \A t \in Targets :
              /\ plan[t].setup \in Nat /\ plan[t].cases \in Nat /\ plan[t].readOnly \in BOOLEAN
              /\ plan[t].scope \in {"reuse", "isolated", "shared"}
              /\ plan[t].setup > 0 => plan[t].scope # "shared"
<1>1. plan \in Seq(TargetSet)
  BY FuzzAssumption
<1>2. \A t \in DOMAIN plan : plan[t] \in TargetSet
  BY <1>1
<1>3. \A t \in DOMAIN plan : plan[t].scope = "shared" => plan[t].setup = 0
  BY FuzzAssumption
<1> QED BY <1>1, <1>2, <1>3 DEF TargetSet, Targets

(* A case is a number of a target. *)
LEMMA CasesAre ==
  \A c : c \in Cases <=> \E t \in Targets : \E n \in 1..plan[t].cases : c = <<t, n>>
<1>1. ASSUME NEW c, c \in Cases PROVE \E t \in Targets : \E n \in 1..plan[t].cases : c = <<t, n>>
  <2>1. PICK t \in Targets : c \in CasesOf(t)
    BY <1>1 DEF Cases
  <2> QED BY <2>1 DEF CasesOf
<1>2. ASSUME NEW t \in Targets, NEW n \in 1..plan[t].cases PROVE <<t, n>> \in Cases
  <2>1. <<t, n>> \in CasesOf(t)
    BY DEF CasesOf
  <2> QED BY <2>1 DEF Cases
<1> QED BY <1>1, <1>2

(* The piece k of a case is one of the copies or, at last, the case. *)
LEMMA PiecesAre ==
  ASSUME plan \in Plans, NEW t \in Targets, NEW c \in 1..plan[t].cases, NEW k \in 1..plan[t].setup + 1
  PROVE  LET i == CaseItem(t, c, k) IN
         /\ i \in Items /\ i.t = t /\ i.c = c /\ i.k = k
         /\ i.kind = (IF k <= plan[t].setup THEN "copy" ELSE "case")
<1>1. <<t, c>> \in Cases
  BY CasesAre
<1>2. <<t, c>>[1] = t /\ <<t, c>>[2] = c
  OBVIOUS
<1>3. CaseItem(t, c, k) \in {CaseItem(<<t, c>>[1], <<t, c>>[2], j) : j \in 1..plan[<<t, c>>[1]].setup + 1}
  BY <1>2
<1>4. CaseItem(t, c, k) \in Items
  BY <1>1, <1>3 DEF Items
<1> QED BY <1>4 DEF CaseItem, It

(* A piece is a target's own step, or it has a place in the row of a case. *)
LEMMA ItemsAre ==
  ASSUME plan \in Plans, NEW i \in Items
  PROVE  /\ i.t \in Targets
         /\ \/ i.kind = "own" /\ i = Own(i.t) /\ i.c = 0 /\ i.k = 0
            \/ /\ i.kind = (IF i.k <= plan[i.t].setup THEN "copy" ELSE "case")
               /\ i.c \in 1..plan[i.t].cases /\ i.k \in 1..plan[i.t].setup + 1
               /\ i = CaseItem(i.t, i.c, i.k)
<1>1. CASE \E t \in Targets : i = Own(t)
  BY <1>1 DEF Own, It
<1>2. CASE \E x \in Cases : i \in {CaseItem(x[1], x[2], k) : k \in 1..plan[x[1]].setup + 1}
  <2>1. PICK x \in Cases : i \in {CaseItem(x[1], x[2], k) : k \in 1..plan[x[1]].setup + 1}
    BY <1>2
  <2>2. PICK t \in Targets : \E c \in 1..plan[t].cases : x = <<t, c>>
    BY CasesAre
  <2> PICK c \in 1..plan[t].cases : x = <<t, c>>
    BY <2>2
  <2>3. x[1] = t /\ x[2] = c
    OBVIOUS
  <2>4. PICK k \in 1..plan[t].setup + 1 : i = CaseItem(t, c, k)
    BY <2>1, <2>3
  <2> QED BY <2>4, PiecesAre
<1> QED BY <1>1, <1>2 DEF Items

(* A target has a step of its own. *)
LEMMA OwnIsAnItem == \A t \in Targets : Own(t) \in Items /\ Own(t).t = t /\ Own(t).kind = "own"
  BY DEF Items, Own, It

-----------------------------------------------------------------------------
(* The queue of a run. *)
LEMMA CasesAreFinite ==
  ASSUME plan \in Plans PROVE IsFiniteSet(Cases)
<1>1. IsFiniteSet(Targets)
  BY PlanFacts, FS_Interval
<1> DEFINE f == [t \in Targets |-> CasesOf(t)]
<1>2. f \in Surjection(Targets, {CasesOf(t) : t \in Targets})
  BY DEF Surjection
<1>3. IsFiniteSet({CasesOf(t) : t \in Targets})
  BY <1>1, <1>2, FS_Surjection
<1>4. \A t \in Targets : IsFiniteSet(CasesOf(t))
  <2> SUFFICES ASSUME NEW t \in Targets PROVE IsFiniteSet(CasesOf(t))
    OBVIOUS
  <2>1. plan[t].cases \in Int /\ 1 \in Int
    BY PlanFacts
  <2>2. IsFiniteSet({t}) /\ IsFiniteSet(1..plan[t].cases)
    BY <2>1, FS_Interval, FS_Singleton
  <2> QED BY <2>2, FS_Product DEF CasesOf
<1> QED BY <1>3, <1>4, FS_UNION DEF Cases

(* There are finitely many pieces. *)
LEMMA ItemsAreFinite ==
  ASSUME plan \in Plans PROVE IsFiniteSet(Items)
<1> DEFINE Of(x) == {CaseItem(x[1], x[2], k) : k \in 1..plan[x[1]].setup + 1}
<1> DEFINE f == [x \in Cases |-> Of(x)]
<1>1. f \in Surjection(Cases, {Of(x) : x \in Cases})
  BY DEF Surjection
<1>2. IsFiniteSet({Of(x) : x \in Cases})
  BY <1>1, CasesAreFinite, FS_Surjection
<1>3. \A x \in Cases : IsFiniteSet(Of(x))
  <2> SUFFICES ASSUME NEW x \in Cases PROVE IsFiniteSet(Of(x))
    OBVIOUS
  <2>1. x[1] \in Targets
    BY CasesAre
  <2>2. plan[x[1]].setup + 1 \in Int /\ 1 \in Int
    BY <2>1, PlanFacts
  <2>3. IsFiniteSet(1..plan[x[1]].setup + 1)
    BY <2>2, FS_Interval
  <2> DEFINE g == [k \in 1..plan[x[1]].setup + 1 |-> CaseItem(x[1], x[2], k)]
  <2>4. g \in Surjection(1..plan[x[1]].setup + 1, Of(x))
    BY DEF Surjection
  <2> QED BY <2>3, <2>4, FS_Surjection
<1>4. IsFiniteSet(UNION {Of(x) : x \in Cases})
  BY <1>2, <1>3, FS_UNION
<1>5. IsFiniteSet(Targets)
  BY PlanFacts, FS_Interval
<1> DEFINE h == [t \in Targets |-> Own(t)]
<1>6. h \in Surjection(Targets, {Own(t) : t \in Targets})
  BY DEF Surjection
<1>7. IsFiniteSet({Own(t) : t \in Targets})
  BY <1>5, <1>6, FS_Surjection
<1> HIDE DEF f, h
<1> QED BY <1>4, <1>7, FS_Union DEF Items

(* One of two is ahead of the other, and so is whatever is ahead of that. *)
LEMMA ItemsAreOrdered ==
  ASSUME plan \in Plans
  PROVE  /\ \A i \in Items : ~Ahead(i, i)
         /\ \A i, j \in Items : i # j => Ahead(i, j) \/ Ahead(j, i)
         /\ \A i, j, l \in Items : Ahead(i, j) /\ Ahead(j, l) => Ahead(i, l)
<1>1. \A i \in Items : i.t \in Nat /\ i.c \in Nat /\ i.k \in Nat
  <2> SUFFICES ASSUME NEW i \in Items PROVE i.t \in Nat /\ i.c \in Nat /\ i.k \in Nat
    OBVIOUS
  <2>1. i.t \in Nat
    BY ItemsAre, PlanFacts
  <2> QED BY <2>1, ItemsAre
<1>2. \A i, j \in Items : i.t = j.t /\ i.c = j.c /\ i.k = j.k => i = j
  <2> SUFFICES ASSUME NEW i \in Items, NEW j \in Items, i.t = j.t, i.c = j.c, i.k = j.k PROVE i = j
    OBVIOUS
  <2> QED BY ItemsAre
<1>3. \A i \in Items : ~Sorted(i, i)
  BY <1>1 DEF Sorted
<1>4. \A i, j \in Items : i # j => Sorted(i, j) \/ Sorted(j, i)
  BY <1>1, <1>2 DEF Sorted
<1>5. \A i, j, l \in Items : Sorted(i, j) /\ Sorted(j, l) => Sorted(i, l)
  BY <1>1 DEF Sorted
<1> QED BY <1>3, <1>4, <1>5 DEF Ahead

(* Counting what is ahead numbers the pieces, in their order. *)
LEMMA PlacesDiffer ==
  ASSUME plan \in Plans
  PROVE  LET rank == [i \in Items |-> Cardinality(AheadOf(i))] IN
         /\ Cardinality(Items) \in Nat
         /\ rank \in Bijection(Items, 0..Cardinality(Items) - 1)
         /\ \A i, j \in Items : Ahead(i, j) => rank[i] < rank[j]
<1> DEFINE rank == [i \in Items |-> Cardinality(AheadOf(i))]
           N == Cardinality(Items)
<1>1. IsFiniteSet(Items) /\ N \in Nat
  BY ItemsAreFinite, FS_CardinalityType
<1>2. ASSUME NEW i \in Items PROVE IsFiniteSet(AheadOf(i)) /\ rank[i] \in 0..N - 1
  <2>1. AheadOf(i) \in SUBSET (Items \ {i})
    BY ItemsAreOrdered DEF AheadOf
  <2>2. IsFiniteSet(Items \ {i}) /\ Cardinality(Items \ {i}) = N - 1
    BY <1>1, FS_RemoveElement
  <2>3. IsFiniteSet(AheadOf(i)) /\ Cardinality(AheadOf(i)) <= N - 1
    BY <2>1, <2>2, FS_Subset
  <2>4. Cardinality(AheadOf(i)) \in Nat
    BY <2>3, FS_CardinalityType
  <2> HIDE DEF N
  <2> QED BY <1>1, <2>3, <2>4
<1>3. ASSUME NEW i \in Items, NEW j \in Items, Ahead(i, j) PROVE rank[i] < rank[j]
  <2>1. AheadOf(i) \in SUBSET AheadOf(j)
    BY <1>3, ItemsAreOrdered DEF AheadOf
  <2>2. i \in AheadOf(j) /\ i \notin AheadOf(i)
    BY <1>3, ItemsAreOrdered DEF AheadOf
  <2>3. IsFiniteSet(AheadOf(j)) /\ IsFiniteSet(AheadOf(i))
    BY <1>2
  <2>4. Cardinality(AheadOf(i)) <= Cardinality(AheadOf(j)) /\ Cardinality(AheadOf(j)) # Cardinality(AheadOf(i))
    BY <2>1, <2>2, <2>3, FS_Subset
  <2>5. Cardinality(AheadOf(i)) \in Nat /\ Cardinality(AheadOf(j)) \in Nat
    BY <2>3, FS_CardinalityType
  <2> QED BY <2>4, <2>5
<1>4. \A i, j \in Items : i # j => rank[i] # rank[j]
  <2> SUFFICES ASSUME NEW i \in Items, NEW j \in Items, i # j PROVE rank[i] # rank[j]
    OBVIOUS
  <2>1. rank[i] < rank[j] \/ rank[j] < rank[i]
    BY <1>3, ItemsAreOrdered
  <2>2. rank[i] \in Int /\ rank[j] \in Int
    BY <1>2
  <2> HIDE DEF rank
  <2> QED BY <2>1, <2>2
<1>5. rank \in Injection(Items, 0..N - 1)
  BY <1>2, <1>4 DEF Injection, IsInjective
<1>6. IsFiniteSet(0..N - 1) /\ Cardinality(0..N - 1) = N
  <2>1. 0 \in Int /\ N - 1 \in Int
    BY <1>1
  <2> HIDE DEF N
  <2>2. IsFiniteSet(0..N - 1) /\ Cardinality(0..N - 1) = (IF 0 > N - 1 THEN 0 ELSE N - 1 - 0 + 1)
    BY <2>1, FS_Interval
  <2> QED BY <1>1, <2>2
<1>7. rank \in Surjection(Items, 0..N - 1)
  <2> HIDE DEF rank
  <2> QED BY <1>5, <1>6, FS_Injection
<1> QED BY <1>1, <1>3, <1>5, <1>7 DEF Bijection

(* RunOrder has each piece at the place that its count gives it. *)
LEMMA RunOrderIs ==
  ASSUME plan \in Plans
  PROVE  /\ Cardinality(Items) \in Nat
         /\ RunOrder \in Seq(Items) /\ DOMAIN RunOrder = 1..Cardinality(Items)
         /\ \A n \in DOMAIN RunOrder :
              RunOrder[n] \in Items /\ Cardinality(AheadOf(RunOrder[n])) = n - 1
         /\ \A i \in Items : /\ Cardinality(AheadOf(i)) + 1 \in DOMAIN RunOrder
                            /\ RunOrder[Cardinality(AheadOf(i)) + 1] = i
<1> DEFINE rank == [i \in Items |-> Cardinality(AheadOf(i))]
           N == Cardinality(Items)
<1>1. N \in Nat /\ rank \in Bijection(Items, 0..N - 1)
  BY PlacesDiffer
<1>2. \A i \in Items : rank[i] = Cardinality(AheadOf(i))
  OBVIOUS
<1> HIDE DEF rank, N
<1>3. ASSUME NEW n \in 1..N
      PROVE  RunOrder[n] \in Items /\ Cardinality(AheadOf(RunOrder[n])) = n - 1
  <2>1. n - 1 \in 0..N - 1
    BY <1>1
  <2>2. PICK i \in Items : rank[i] = n - 1
    BY <1>1, <2>1 DEF Bijection, Surjection
  <2>3. Cardinality(AheadOf(i)) = n - 1
    BY <1>2, <2>2
  <2>4. RunOrder[n] = CHOOSE j \in Items : Cardinality(AheadOf(j)) = n - 1
    BY DEF RunOrder, N
  <2> QED BY <2>3, <2>4
<1>4. DOMAIN RunOrder = 1..N
  BY DEF RunOrder, N
<1>5. RunOrder \in Seq(Items)
  <2>1. RunOrder = [n \in 1..N |-> RunOrder[n]]
    BY <1>4 DEF RunOrder, N
  <2>2. RunOrder \in [1..N -> Items]
    BY <1>3, <2>1
  <2> QED BY <1>1, <2>2
<1>6. ASSUME NEW i \in Items PROVE rank[i] + 1 \in 1..N /\ RunOrder[rank[i] + 1] = i
  <2>1. rank[i] \in 0..N - 1
    BY <1>1 DEF Bijection, Injection
  <2>2. rank[i] + 1 \in 1..N /\ rank[i] + 1 - 1 = rank[i]
    BY <1>1, <2>1
  <2> PICK n \in 1..N : n = rank[i] + 1
    BY <2>2
  <2>6. RunOrder[n] \in Items /\ Cardinality(AheadOf(RunOrder[n])) = n - 1
    BY <1>3
  <2>7. n - 1 = rank[i]
    BY <2>1, <2>2, <1>1
  <2>3. RunOrder[n] \in Items /\ Cardinality(AheadOf(RunOrder[n])) = rank[i]
    BY <2>6, <2>7
  <2>4. rank[RunOrder[n]] = rank[i]
    BY <1>2, <2>3
  <2>5. RunOrder[n] = i
    BY <1>1, <2>3, <2>4 DEF Bijection, Injection, IsInjective
  <2> QED BY <2>2, <2>5
<1> QED BY <1>1, <1>2, <1>3, <1>4, <1>5, <1>6 DEF N

(* The pieces of a case follow one another. *)
LEMMA CasePlaces ==
  ASSUME plan \in Plans, NEW t \in Targets, NEW c \in 1..plan[t].cases, NEW j \in 1..plan[t].setup + 1
  PROVE  Cardinality(AheadOf(CaseItem(t, c, j))) = Cardinality(AheadOf(CaseItem(t, c, 1))) + j - 1
<1> DEFINE P(k) == CaseItem(t, c, k)
           Earlier == {P(k) : k \in 1..j - 1}
<1>1. plan[t].setup \in Nat /\ 1 \in 1..plan[t].setup + 1 /\ j \in Nat \ {0}
  BY PlanFacts
<1>2. \A k \in 1..plan[t].setup + 1 :
        P(k) \in Items /\ P(k).t = t /\ P(k).c = c /\ P(k).k = k
  BY PiecesAre
<1>3. \A k \in 1..plan[t].setup + 1 : RunsAfterPlan(P(k)) <=> plan[t].scope # "shared"
  <2> SUFFICES ASSUME NEW k \in 1..plan[t].setup + 1
               PROVE  RunsAfterPlan(P(k)) <=> plan[t].scope # "shared"
    OBVIOUS
  <2>1. P(k).kind = (IF k <= plan[t].setup THEN "copy" ELSE "case") /\ P(k).t = t
    BY PiecesAre
  <2>2. k <= plan[t].setup => plan[t].scope # "shared"
    BY PlanFacts, <1>1
  <2> HIDE DEF P
  <2> QED BY <2>1, <2>2 DEF RunsAfterPlan
<1>4. Earlier \subseteq Items
  BY <1>1, <1>2
<1>5. AheadOf(P(j)) = AheadOf(P(1)) \cup Earlier
  <2>1. ASSUME NEW i \in Items PROVE Ahead(i, P(j)) <=> Ahead(i, P(1)) \/ i \in Earlier
    <3>1. i.t \in Int /\ i.c \in Int /\ i.k \in Int /\ t \in Int /\ c \in Int
      BY ItemsAre, PlanFacts
    <3>2. CASE i.t = t /\ i.c = c
      <4>1. i = P(i.k) /\ i.k \in 1..plan[t].setup + 1
        BY <3>2, ItemsAre
      <4>2. RunsAfterPlan(i) <=> RunsAfterPlan(P(j))
        BY <4>1, <1>3
      <4>3. RunsAfterPlan(i) <=> RunsAfterPlan(P(1))
        BY <4>1, <1>3, <1>1
      <4>4. Sorted(i, P(j)) <=> i.k < j
        BY <3>1, <3>2, <1>2 DEF Sorted
      <4>5. ~Sorted(i, P(1))
        BY <3>1, <3>2, <1>1, <1>2, <4>1 DEF Sorted
      <4>6. i \in Earlier <=> i.k < j
        <5>1. i.k < j => i.k \in 1..j - 1
          BY <4>1, <1>1
        <5>2. ASSUME i \in Earlier PROVE i.k < j
          <6>1. PICK k \in 1..j - 1 : i = P(k)
            BY <5>2
          <6>2. i.k = k
            BY <6>1, <1>1, <1>2
          <6> QED BY <6>2, <1>1
        <5> QED BY <5>1, <5>2, <4>1
      <4> QED BY <4>2, <4>3, <4>4, <4>5, <4>6 DEF Ahead
    <3>3. CASE ~(i.t = t /\ i.c = c)
      <4>1. RunsAfterPlan(P(j)) <=> RunsAfterPlan(P(1))
        BY <1>1, <1>3
      <4>2. Sorted(i, P(j)) <=> Sorted(i, P(1))
        BY <3>1, <3>3, <1>1, <1>2 DEF Sorted
      <4>3. i \notin Earlier
        <5> SUFFICES ASSUME NEW k \in 1..j - 1 PROVE i # P(k)
          OBVIOUS
        <5> QED BY <3>3, <1>1, <1>2
      <4> QED BY <4>1, <4>2, <4>3 DEF Ahead
    <3> QED BY <3>2, <3>3
  <2> QED BY <2>1, <1>4 DEF AheadOf
<1>6. AheadOf(P(1)) \cap Earlier = {}
  <2> SUFFICES ASSUME NEW k \in 1..j - 1, Ahead(P(k), P(1)) PROVE FALSE
    BY DEF AheadOf
  <2>1. RunsAfterPlan(P(k)) <=> RunsAfterPlan(P(1))
    BY <1>1, <1>3
  <2>2. t \in Int /\ c \in Int
    BY PlanFacts
  <2>3. ~Sorted(P(k), P(1))
    BY <2>2, <1>1, <1>2 DEF Sorted
  <2> QED BY <2>1, <2>3 DEF Ahead
<1>7. IsFiniteSet(Earlier) /\ Cardinality(Earlier) = j - 1
  <2> DEFINE f == [k \in 1..j - 1 |-> P(k)]
  <2>1. f \in Surjection(1..j - 1, Earlier)
    BY DEF Surjection
  <2>2. \A k, l \in 1..j - 1 : k # l => P(k) # P(l)
    BY <1>1, <1>2
  <2>3. f \in Injection(1..j - 1, Earlier)
    BY <2>1, <2>2 DEF Surjection, Injection, IsInjective
  <2>4. 1 \in Int /\ j - 1 \in Int
    BY <1>1
  <2>5. IsFiniteSet(1..j - 1) /\ Cardinality(1..j - 1) = (IF 1 > j - 1 THEN 0 ELSE j - 1 - 1 + 1)
    BY <2>4, FS_Interval
  <2>6. Cardinality(1..j - 1) = j - 1
    BY <1>1, <2>5
  <2> HIDE DEF f, Earlier
  <2> QED BY <2>1, <2>3, <2>5, <2>6, FS_Surjection
<1>8. IsFiniteSet(AheadOf(P(1)))
  BY ItemsAreFinite, FS_Subset DEF AheadOf
<1>9. Cardinality(AheadOf(P(j))) = Cardinality(AheadOf(P(1))) + Cardinality(Earlier) - Cardinality({})
  <2> HIDE DEF P, Earlier
  <2> QED BY <1>5, <1>6, <1>7, <1>8, FS_Union
<1>10. Cardinality(AheadOf(P(1))) \in Nat /\ Cardinality({}) = 0
  BY <1>8, FS_CardinalityType, FS_EmptySet
<1> HIDE DEF Earlier
<1> QED BY <1>1, <1>7, <1>9, <1>10

-----------------------------------------------------------------------------
(* What is in the queue, and where. *)
(* The piece at hand and those behind it. *)
LEMMA QueueFacts ==
  ASSUME FuzzTypes
  PROVE  /\ Len(queue) \in Nat /\ DOMAIN queue = 1..Len(queue) /\ idx \in Nat \ {0}
         /\ \A n \in DOMAIN queue : queue[n] \in Items
         /\ AtHand <=> idx \in DOMAIN queue
         /\ ToCome = idx..Len(queue)
<1>1. queue \in Seq(Items) /\ idx \in Nat \ {0}
  BY DEF FuzzTypes
<1>2. Len(queue) \in Nat /\ DOMAIN queue = 1..Len(queue)
  BY <1>1, LenProperties
<1>3. \A n \in DOMAIN queue : queue[n] \in Items
  BY <1>1, ElementOfSeq, <1>2
<1> QED BY <1>1, <1>2, <1>3 DEF AtHand, ToCome

(* What a piece of a case is; one of a case with a setup runs after the plan.
   *)
LEMMA PieceFacts ==
  ASSUME FuzzTypes, NEW i \in Items, i.kind # "own"
  PROVE  /\ i.t \in Targets /\ i.c \in 1..plan[i.t].cases /\ i.k \in 1..plan[i.t].setup + 1
         /\ plan[i.t].setup \in Nat /\ plan[i.t].cases \in Nat
         /\ i = CaseItem(i.t, i.c, i.k) /\ <<i.t, i.c>> \in Cases
         /\ i.kind = "copy" <=> i.k <= plan[i.t].setup
         /\ i.kind = "case" <=> i.k = plan[i.t].setup + 1
         /\ plan[i.t].setup > 0 => RunsAfterPlan(i)
         /\ i.kind = "copy" => plan[i.t].setup > 0 /\ RunsAfterPlan(i)
<1>1. plan \in Plans
  BY DEF FuzzTypes
<1>2. /\ i.kind = (IF i.k <= plan[i.t].setup THEN "copy" ELSE "case")
      /\ i.c \in 1..plan[i.t].cases /\ i.k \in 1..plan[i.t].setup + 1
      /\ i = CaseItem(i.t, i.c, i.k) /\ i.t \in Targets
  BY <1>1, ItemsAre
<1>3. /\ plan[i.t].setup \in Nat /\ plan[i.t].cases \in Nat
      /\ plan[i.t].setup > 0 => plan[i.t].scope # "shared"
  BY <1>1, <1>2, PlanFacts
<1>4. <<i.t, i.c>> \in Cases
  BY <1>2, CasesAre
<1> QED BY <1>2, <1>3, <1>4 DEF RunsAfterPlan

(* The parts of CaseItem. *)
LEMMA Pieces ==
  ASSUME FuzzTypes, NEW t \in Targets, NEW c \in 1..plan[t].cases, NEW k \in 1..plan[t].setup + 1
  PROVE  LET i == CaseItem(t, c, k) IN
         /\ i \in Items /\ i.t = t /\ i.c = c /\ i.k = k /\ i.kind # "own"
         /\ i.kind = "copy" <=> k <= plan[t].setup
  BY PiecesAre DEF FuzzTypes

(* Whatever is left of the case at hand is in its row. *)
LEMMA SameCase ==
  ASSUME FuzzTypes, Blocks, LeftOnce, AtCase,
         NEW n \in ToCome, queue[n].t = Here.t, queue[n].c = Here.c
  PROVE  queue[n].kind # "own" /\ n - queue[n].k = idx - Here.k
<1> DEFINE i == queue[n]
           s == plan[Here.t].setup
<1>1. n \in DOMAIN queue /\ idx \in DOMAIN queue /\ n \in Int /\ idx \in Int /\ n >= idx
  BY QueueFacts DEF AtCase
<1>2. i \in Items /\ Here \in Items /\ Here.kind # "own"
  BY <1>1, QueueFacts DEF Here, AtCase
<1>3. Here.c \in 1..plan[Here.t].cases /\ Here.k \in 1..s + 1 /\ s \in Nat
  BY <1>2, PieceFacts
<1>4. i.kind # "own"
  <2>1. i.kind = "own" => i.c = 0
    BY <1>2, ItemsAre DEF FuzzTypes
  <2> QED BY <1>3, <2>1
<1>5. i.k \in 1..s + 1 /\ i = CaseItem(Here.t, Here.c, i.k) /\ Here = CaseItem(Here.t, Here.c, Here.k)
  BY <1>2, <1>4, PieceFacts
<1>6. \A j \in 1..s + 1 : n - i.k + j \in DOMAIN queue /\ queue[n - i.k + j] = CaseItem(Here.t, Here.c, j)
  BY <1>1, <1>4 DEF Blocks
<1>7. \A j \in 1..s + 1 : /\ idx - Here.k + j \in DOMAIN queue
                          /\ queue[idx - Here.k + j] = CaseItem(Here.t, Here.c, j)
  BY <1>1, <1>2 DEF Blocks, Here
<1> HIDE DEF i, s
<1>8. CASE n - i.k + Here.k >= idx
  <2>1. n - i.k + Here.k \in ToCome /\ queue[n - i.k + Here.k] = Here
    BY <1>3, <1>5, <1>6, <1>8 DEF ToCome
  <2>2. idx \in ToCome /\ queue[idx] = Here
    BY <1>1 DEF ToCome, Here
  <2>3. n - i.k + Here.k = idx
    BY <2>1, <2>2 DEF LeftOnce
  <2> QED BY <1>1, <1>3, <1>4, <1>5, <2>3 DEF i
<1>9. CASE n - i.k + Here.k < idx
  <2>1. idx - Here.k + i.k > n /\ idx - Here.k + i.k >= idx
    BY <1>1, <1>3, <1>5, <1>9
  <2>2. idx - Here.k + i.k \in ToCome /\ queue[idx - Here.k + i.k] = i
    BY <1>5, <1>7, <2>1 DEF ToCome
  <2>3. idx - Here.k + i.k = n
    BY <2>2 DEF LeftOnce, i
  <2> QED BY <1>1, <2>1, <2>3
<1>10. n - i.k + Here.k \in Int
  BY <1>1, <1>3, <1>5
<1> QED BY <1>1, <1>8, <1>9, <1>10

(* Behind a copy is the next piece of its case. *)
LEMMA NextPiece ==
  ASSUME FuzzTypes, Blocks, AtHand, Here.kind = "copy"
  PROVE  idx + 1 \in DOMAIN queue /\ queue[idx + 1] = CaseItem(Here.t, Here.c, Here.k + 1)
<1>1. idx \in DOMAIN queue /\ idx \in Int /\ Here \in Items /\ Here.kind # "own"
  BY QueueFacts DEF Here
<1>2. Here.k \in 1..plan[Here.t].setup + 1 /\ Here.k <= plan[Here.t].setup /\ plan[Here.t].setup \in Nat
  BY <1>1, PieceFacts
<1>3. Here.k + 1 \in 1..plan[Here.t].setup + 1
  BY <1>2
<1>4. idx - Here.k + (Here.k + 1) = idx + 1
  BY <1>1, <1>2
<1> QED BY <1>1, <1>3, <1>4 DEF Blocks, Here

(* What goes on with a case, goes on from a copy of it. *)
LEMMA GoesOn ==
  ASSUME FuzzTypes, Blocks, idx + 1 \in DOMAIN queue, queue[idx + 1].kind # "own", queue[idx + 1].k > 1
  PROVE  LET i == queue[idx + 1] IN
         AtHand /\ Here.t = i.t /\ Here.c = i.c /\ Here.k = i.k - 1 /\ Here.kind = "copy"
<1> PICK n \in DOMAIN queue : n = idx + 1
  OBVIOUS
<1> DEFINE i == queue[n]
<1>1. i \in Items /\ i.kind # "own" /\ i.k > 1 /\ n \in Int /\ idx \in Int
  BY QueueFacts
<1>2. i.t \in Targets /\ i.c \in 1..plan[i.t].cases /\ i.k \in 1..plan[i.t].setup + 1 /\ plan[i.t].setup \in Nat
  BY <1>1, PieceFacts
<1>3. i.k - 1 \in 1..plan[i.t].setup + 1 /\ i.k - 1 <= plan[i.t].setup
  BY <1>1, <1>2
<1>4. n - i.k + (i.k - 1) = idx
  BY <1>1, <1>2
<1>5. idx \in DOMAIN queue /\ queue[idx] = CaseItem(i.t, i.c, i.k - 1)
  <2>1. \A j \in 1..plan[i.t].setup + 1 :
          n - i.k + j \in DOMAIN queue /\ queue[n - i.k + j] = CaseItem(i.t, i.c, j)
    BY <1>1 DEF Blocks
  <2> HIDE DEF i
  <2>2. n - i.k + (i.k - 1) \in DOMAIN queue /\ queue[n - i.k + (i.k - 1)] = CaseItem(i.t, i.c, i.k - 1)
    BY <1>3, <2>1
  <2> QED BY <2>2, <1>4
<1> HIDE DEF i
<1>6. AtHand
  BY <1>5, QueueFacts
<1>7. Here = CaseItem(i.t, i.c, i.k - 1)
  BY <1>5 DEF Here
<1>8. Here.t = i.t /\ Here.c = i.c /\ Here.k = i.k - 1 /\ Here.kind = "copy"
  BY <1>2, <1>3, <1>7, Pieces
<1> QED BY <1>6, <1>8 DEF i

-----------------------------------------------------------------------------
(* The queue of a run that starts. *)
(* A run starts well. *)
LEMMA StartsTyped == Init => FuzzTypes
<1> SUFFICES ASSUME Init PROVE FuzzTypes
  OBVIOUS
<1> USE DEF Init
<1>1. plan \in Plans
  OBVIOUS
<1>2. queue \in Seq(Items)
  BY RunOrderIs
<1>3. \A t \in Targets : NoLive(t) \in [1..plan[t].setup -> 0..plan[t].cases]
  BY PlanFacts DEF NoLive
<1>4. ASSUME NEW t \in Targets PROVE group[t] \in GroupOf(t)
  <2> HIDE DEF Init
  <2>1. group[t] = [passed |-> FALSE, live |-> NoLive(t), clean |-> FALSE, building |-> NoCase,
                    failures |-> 0, stopped |-> FALSE]
    BY DEF Init
  <2> QED BY <1>3, <2>1 DEF GroupOf
<1>5. ASSUME NEW c \in Cases PROVE caseInfo[c] \in InfoOf(c)
  <2> HIDE DEF Init
  <2>1. caseInfo[c] = [setup |-> "own", stale |-> FALSE, failed |-> FALSE, on |-> NoLive(c[1])]
    BY DEF Init
  <2>2. c[1] \in Targets
    BY CasesAre
  <2> QED BY <1>3, <2>1, <2>2 DEF InfoOf
<1>6. DOMAIN group = Targets /\ DOMAIN caseInfo = Cases
  OBVIOUS
<1>7. sends \in Seq([case : Cases, on : SUBSET Nat, answer : Answer]) /\ copySent \subseteq Copies
  OBVIOUS
<1>8. /\ idx \in Nat \ {0} /\ pc \in {"next", "verifying", "chosen", "sent", "done", "aborted"}
      /\ end \in BOOLEAN /\ verified \in BOOLEAN /\ ctxDone \in BOOLEAN
  <2>1. idx = 1 /\ pc = "next" /\ end = FALSE /\ verified = FALSE /\ ctxDone = FALSE
    BY DEF Init
  <2> HIDE DEF Init
  <2>2. idx \in Nat \ {0}
    BY <2>1
  <2> QED BY <2>1, <2>2, Zenon
<1> HIDE DEF Init
<1> QED BY <1>1, <1>2, <1>4, <1>5, <1>6, <1>7, <1>8 DEF FuzzTypes

(* At the start the pieces of a case are side by side. *)
LEMMA StartsInRows == Init => Blocks
<1> SUFFICES ASSUME Init, NEW n \in DOMAIN queue, queue[n].kind # "own",
                    NEW j \in 1..plan[queue[n].t].setup + 1
             PROVE  LET i == queue[n] IN
                    n - i.k + j \in DOMAIN queue /\ queue[n - i.k + j] = CaseItem(i.t, i.c, j)
  BY DEF Blocks
<1> DEFINE i == queue[n]
           P(k) == CaseItem(i.t, i.c, k)
           Place(x) == Cardinality(AheadOf(x))
<1>1. FuzzTypes /\ queue = RunOrder /\ plan \in Plans
  BY StartsTyped DEF Init
<1>2. i \in Items /\ Place(i) = n - 1 /\ n \in Int
  BY <1>1, RunOrderIs, QueueFacts
<1>3. /\ i.t \in Targets /\ i.c \in 1..plan[i.t].cases /\ i.k \in 1..plan[i.t].setup + 1
      /\ i = P(i.k) /\ plan[i.t].setup \in Nat
  BY <1>1, <1>2, PieceFacts
<1> HIDE DEF i
<1>4. P(j) \in Items
  BY <1>1, <1>3, Pieces DEF i
<1>5. Place(P(j)) = Place(P(1)) + j - 1
  BY <1>1, <1>3, CasePlaces DEF i
<1>6. Place(P(i.k)) = Place(P(1)) + i.k - 1
  BY <1>1, <1>3, CasePlaces
<1>7. IsFiniteSet(AheadOf(P(1)))
  BY <1>1, ItemsAreFinite, FS_Subset DEF AheadOf
<1>8. Place(P(1)) \in Nat
  BY <1>7, FS_CardinalityType
<1>9. Place(P(i.k)) = n - 1
  BY <1>2, <1>3
<1>10. Place(P(j)) + 1 \in DOMAIN queue /\ queue[Place(P(j)) + 1] = P(j)
  BY <1>1, <1>4, RunOrderIs
<1> HIDE DEF P, Place
<1>11. j \in Int /\ i.k \in Int
  BY <1>3 DEF i
<1>12. Place(P(j)) + 1 = n - i.k + j
  BY <1>2, <1>5, <1>6, <1>8, <1>9, <1>11
<1> QED BY <1>10, <1>12 DEF i, P

(* At the start each piece is in the queue, once. *)
LEMMA StartsWithEach ==
  ASSUME Init
  PROVE  /\ LeftOnce
         /\ \A i \in Items : \E n \in DOMAIN queue : queue[n] = i
<1>1. FuzzTypes /\ queue = RunOrder /\ plan \in Plans /\ DOMAIN queue = 1..Len(queue) /\ Len(queue) \in Nat
  BY StartsTyped, QueueFacts DEF Init
<1>2. \A n \in DOMAIN queue : Cardinality(AheadOf(queue[n])) = n - 1
  BY <1>1, RunOrderIs
<1>3. LeftOnce
  <2> SUFFICES ASSUME NEW m \in DOMAIN queue, NEW n \in DOMAIN queue, queue[m] = queue[n] PROVE m = n
    BY DEF LeftOnce, ToCome
  <2>1. m - 1 = n - 1
    BY <1>2
  <2> QED BY <1>1, <2>1
<1> QED BY <1>1, <1>3, RunOrderIs

(* SetupInv holds at the start. *)
LEMMA SetupStarts == Init => SetupInv
<1> SUFFICES ASSUME Init PROVE SetupInv
  OBVIOUS
<1>1. FuzzTypes /\ Blocks /\ LeftOnce
  BY StartsTyped, StartsInRows, StartsWithEach
<1>2. /\ \A t \in Targets : group[t].building = NoCase /\ ~group[t].clean /\ ~group[t].passed
      /\ \A c \in Cases : ~caseInfo[c].failed /\ ~caseInfo[c].stale
      /\ pc = "next" /\ sends = <<>> /\ copySent = {}
  BY DEF Init
<1>3. Ready
  BY <1>2 DEF Ready
<1>4. Fresh
  <2> SUFFICES ASSUME NEW n \in ToCome, queue[n].kind # "own"
               PROVE  LET c == <<queue[n].t, queue[n].c>> IN ~caseInfo[c].failed /\ ~caseInfo[c].stale
    BY DEF Fresh
  <2>1. queue[n] \in Items
    BY <1>1, QueueFacts DEF ToCome
  <2>2. <<queue[n].t, queue[n].c>> \in Cases
    BY <1>1, <2>1, PieceFacts
  <2> QED BY <1>2, <2>2
<1>5. Building /\ CleanServes
  BY <1>2 DEF Building, CleanServes
<1>6. Prepared
  <2>1. AtCase => Here.t \in Targets
    BY <1>1, QueueFacts, PieceFacts DEF AtCase, Here
  <2> QED BY <1>2, <2>1 DEF Prepared, G
<1>7. SentIsPast /\ UsedIsOver /\ SetupsAreUntouched
  BY <1>2 DEF SentIsPast, UsedIsOver, SetupsAreUntouched
<1> QED BY <1>1, <1>3, <1>4, <1>5, <1>6, <1>7 DEF SetupInv

-----------------------------------------------------------------------------
(* What a step does to the queue: nothing, or the next piece is at hand. *)
LEMMA PlanStays ==
  ASSUME plan' = plan
  PROVE  /\ Targets' = Targets /\ Cases' = Cases /\ Items' = Items /\ Copies' = Copies
         /\ \A i : RunsAfterPlan(i)' <=> RunsAfterPlan(i)
<1>1. Targets' = Targets /\ Cases' = Cases
  BY DEF Targets, Cases, CasesOf
<1> QED BY <1>1 DEF Items, Copies, Own, CaseItem, It, RunsAfterPlan

(* While the queue and the place in it stay, so does what is said of them. *)
LEMMA StayKeeps ==
  ASSUME plan' = plan, queue' = queue, idx' = idx, Blocks, LeftOnce
  PROVE  /\ Blocks' /\ LeftOnce' /\ ToCome' = ToCome /\ Left' = Left
         /\ Here' = Here /\ Case' = Case /\ (AtHand <=> AtHand') /\ (AtCase <=> AtCase')
         /\ \A t, c : StillDue(t, c)' <=> StillDue(t, c)
<1>1. ToCome' = ToCome /\ Here' = Here /\ Case' = Case /\ (AtHand <=> AtHand') /\ (AtCase <=> AtCase')
  BY DEF ToCome, Here, Case, AtHand, AtCase
<1>2. Blocks'
  BY DEF Blocks, CaseItem, It
<1>3. LeftOnce' /\ \A t, c : StillDue(t, c)' <=> StillDue(t, c)
  BY <1>1 DEF LeftOnce, StillDue
<1>4. Left' = Left
  BY <1>1, PlanStays DEF Left, CaseItem, It
<1> QED BY <1>1, <1>2, <1>3, <1>4

(* Behind its last piece nothing of a case is left. *)
LEMMA AdvanceKeeps ==
  ASSUME plan' = plan, queue' = queue, idx' = idx + 1, FuzzTypes, AtHand, Blocks, LeftOnce
  PROVE  /\ Blocks' /\ LeftOnce' /\ ToCome' = ToCome \ {idx} /\ idx \in ToCome
         /\ \A t, c : StillDue(t, c)' => StillDue(t, c)
         /\ Here.kind = "case" => \A t, c : StillDue(t, c)' => ~(t = Here.t /\ c = Here.c)
         /\ AtHand' => idx + 1 \in DOMAIN queue /\ Here' = queue[idx + 1]
<1>1. ToCome' = ToCome \ {idx} /\ idx \in ToCome /\ (AtHand' => idx + 1 \in DOMAIN queue)
  <2>1. Len(queue) \in Nat /\ DOMAIN queue = 1..Len(queue) /\ idx \in Nat \ {0} /\ idx <= Len(queue)
    BY QueueFacts DEF AtHand
  <2>2. ToCome' = {n \in DOMAIN queue : n >= idx + 1} /\ (AtHand' => idx + 1 <= Len(queue))
    BY DEF ToCome, AtHand
  <2> QED BY <2>1, <2>2 DEF ToCome
<1>2. Blocks'
  BY DEF Blocks, CaseItem, It
<1>3. LeftOnce'
  BY <1>1 DEF LeftOnce
<1>4. ASSUME NEW t, NEW c, StillDue(t, c)' PROVE StillDue(t, c)
  BY <1>1, <1>4 DEF StillDue
<1>5. ASSUME Here.kind = "case", NEW t, NEW c, StillDue(t, c)', t = Here.t, c = Here.c PROVE FALSE
  <2> PICK n \in ToCome : n # idx /\ queue[n].t = Here.t /\ queue[n].c = Here.c
    BY <1>1, <1>5 DEF StillDue
  <2>1. AtCase
    BY <1>5 DEF AtCase
  <2>2. queue[n].kind # "own" /\ n - queue[n].k = idx - Here.k
    BY <2>1, SameCase
  <2>3. n \in DOMAIN queue /\ idx \in DOMAIN queue /\ n \in Int /\ idx \in Int /\ n >= idx
    BY QueueFacts
  <2>4. queue[n] \in Items /\ Here \in Items
    BY <2>3, QueueFacts DEF Here
  <2>5. queue[n].k \in 1..plan[Here.t].setup + 1 /\ plan[Here.t].setup \in Nat
    BY <2>2, <2>4, PieceFacts
  <2>6. Here.k = plan[Here.t].setup + 1
    BY <1>5, <2>4, PieceFacts
  <2> QED BY <2>2, <2>3, <2>5, <2>6
<1>6. Here' = queue[idx + 1]
  BY DEF Here
<1> QED BY <1>1, <1>2, <1>3, <1>4, <1>5, <1>6

(* A row put into a sequence, part by part. *)
LEMMA Inserted ==
  ASSUME NEW S, NEW p \in Seq(S), NEW q \in Seq(S), NEW r \in Seq(S), NEW e, e = (p \o q) \o r
  PROVE  /\ e \in Seq(S) /\ Len(e) = Len(p) + Len(q) + Len(r)
         /\ \A i \in 1..Len(p) : e[i] = p[i]
         /\ \A i \in 1..Len(q) : e[Len(p) + i] = q[i]
         /\ \A i \in 1..Len(r) : e[Len(p) + Len(q) + i] = r[i]
<1>1. Len(p) \in Nat /\ Len(q) \in Nat /\ Len(r) \in Nat
  BY LenProperties
<1> PICK b : b = p \o q
  OBVIOUS
<1>2. /\ b \in Seq(S) /\ Len(b) = Len(p) + Len(q)
      /\ \A i \in 1..Len(p) + Len(q) : b[i] = IF i <= Len(p) THEN p[i] ELSE q[i - Len(p)]
  BY ConcatProperties
<1>3. /\ e \in Seq(S) /\ Len(e) = Len(b) + Len(r)
      /\ \A i \in 1..Len(b) + Len(r) : e[i] = IF i <= Len(b) THEN b[i] ELSE r[i - Len(b)]
  BY <1>2, ConcatProperties
<1>4. \A i \in 1..Len(p) : e[i] = p[i]
  BY <1>1, <1>2, <1>3
<1>5. ASSUME NEW i \in 1..Len(q) PROVE e[Len(p) + i] = q[i]
  <2>1. Len(p) + i - Len(p) = i /\ Len(p) + i \in 1..Len(p) + Len(q) /\ ~(Len(p) + i <= Len(p))
    BY <1>1
  <2>2. b[Len(p) + i] = q[i]
    BY <1>2, <2>1
  <2>3. e[Len(p) + i] = b[Len(p) + i]
    BY <1>1, <1>2, <1>3, <2>1
  <2> QED BY <2>2, <2>3
<1>6. ASSUME NEW i \in 1..Len(r) PROVE e[Len(p) + Len(q) + i] = r[i]
  <2>1. /\ Len(b) + i - Len(b) = i /\ Len(b) + i \in 1..Len(b) + Len(r) /\ ~(Len(b) + i <= Len(b))
    BY <1>1, <1>2
  <2>2. e[Len(b) + i] = r[i]
    BY <1>3, <2>1
  <2> QED BY <1>2, <2>2
<1> QED BY <1>2, <1>3, <1>4, <1>5, <1>6

(* A case that goes again, its copies before it. *)
LEMMA AgainIs ==
  ASSUME FuzzTypes, AtHand, Here.kind = "case"
  PROVE  LET s == plan[Here.t].setup IN
         /\ s \in Nat /\ Again \in Seq(Items) /\ Len(Again) = Len(queue) + (s + 1)
         /\ DOMAIN Again = 1..Len(queue) + (s + 1)
         /\ \A n \in 1..idx : Again[n] = queue[n]
         /\ \A k \in 1..s + 1 : Again[idx + k] = CaseItem(Here.t, Here.c, k)
         /\ \A n \in idx + 1..Len(queue) : Again[n + (s + 1)] = queue[n]
<1> DEFINE s == plan[Here.t].setup
           first == SubSeq(queue, 1, idx)
           row == CaseItems(Here.t, Here.c)
           rest == SubSeq(queue, idx + 1, Len(queue))
<1>1. Len(queue) \in Nat /\ DOMAIN queue = 1..Len(queue) /\ idx \in 1..Len(queue) /\ queue \in Seq(Items)
  BY QueueFacts DEF AtHand, FuzzTypes
<1>2. Here \in Items /\ Here.t \in Targets /\ Here.c \in 1..plan[Here.t].cases /\ s \in Nat
  <2>1. Here \in Items
    BY <1>1, QueueFacts DEF Here
  <2> QED BY <2>1, PieceFacts
<1>3. first \in Seq(Items) /\ Len(first) = idx /\ \A n \in 1..idx : first[n] = queue[n]
  BY <1>1, SubSeqProperties
<1>4. row \in Seq(Items) /\ Len(row) = s + 1 /\ \A k \in 1..s + 1 : row[k] = CaseItem(Here.t, Here.c, k)
  <2>1. \A k \in 1..s + 1 : CaseItem(Here.t, Here.c, k) \in Items
    BY <1>2, Pieces
  <2> HIDE DEF s
  <2>2. row = [k \in 1..s + 1 |-> CaseItem(Here.t, Here.c, k)]
    BY DEF CaseItems, s
  <2> HIDE DEF row
  <2>3. row \in [1..s + 1 -> Items] /\ s + 1 \in Nat
    BY <1>2, <2>1, <2>2
  <2> QED BY <2>2, <2>3
<1>5. /\ rest \in Seq(Items) /\ Len(rest) = Len(queue) - idx
      /\ \A m \in 1..Len(queue) - idx : rest[m] = queue[idx + m]
  <2>1. /\ rest \in Seq(Items)
        /\ Len(rest) = (IF idx + 1 <= Len(queue) THEN Len(queue) - (idx + 1) + 1 ELSE 0)
        /\ \A m \in 1..Len(queue) - (idx + 1) + 1 : rest[m] = queue[idx + 1 + m - 1]
    BY <1>1, SubSeqProperties
  <2> HIDE DEF rest
  <2>2. Len(rest) = Len(queue) - idx
    <3>1. idx \in Int /\ Len(queue) \in Int /\ idx <= Len(queue)
      BY <1>1
    <3>2. CASE idx + 1 <= Len(queue)
      BY <2>1, <3>1, <3>2
    <3>3. CASE idx = Len(queue)
      BY <2>1, <3>1, <3>3
    <3> QED BY <3>1, <3>2, <3>3
  <2>3. ASSUME NEW m \in 1..Len(queue) - idx PROVE rest[m] = queue[idx + m]
    <3>1. m \in 1..Len(queue) - (idx + 1) + 1 /\ idx + 1 + m - 1 = idx + m
      BY <1>1
    <3> QED BY <2>1, <3>1
  <2> QED BY <2>1, <2>2, <2>3
<1> HIDE DEF s, first, row, rest
<1>6. Again = (first \o row) \o rest
  BY DEF Again, first, row, rest
<1>7. /\ Again \in Seq(Items) /\ Len(Again) = idx + (s + 1) + (Len(queue) - idx)
      /\ \A n \in 1..idx : Again[n] = first[n]
      /\ \A k \in 1..s + 1 : Again[idx + k] = row[k]
      /\ \A m \in 1..Len(queue) - idx : Again[idx + (s + 1) + m] = rest[m]
  <2>1. /\ Again \in Seq(Items) /\ Len(Again) = Len(first) + Len(row) + Len(rest)
        /\ \A i \in 1..Len(first) : Again[i] = first[i]
        /\ \A i \in 1..Len(row) : Again[Len(first) + i] = row[i]
        /\ \A i \in 1..Len(rest) : Again[Len(first) + Len(row) + i] = rest[i]
    <3>1. first \in Seq(Items) /\ row \in Seq(Items) /\ rest \in Seq(Items)
      BY <1>3, <1>4, <1>5
    <3> QED BY <3>1, <1>6, Inserted
  <2> QED BY <1>3, <1>4, <1>5, <1>6, <2>1
<1>8. idx + (s + 1) + (Len(queue) - idx) = Len(queue) + (s + 1)
  BY <1>1, <1>2
<1>9. ASSUME NEW n \in idx + 1..Len(queue) PROVE Again[n + (s + 1)] = queue[n]
  <2>1. n - idx \in 1..Len(queue) - idx /\ idx + (s + 1) + (n - idx) = n + (s + 1) /\ idx + (n - idx) = n
    BY <1>1, <1>2
  <2>2. Again[idx + (s + 1) + (n - idx)] = queue[idx + (n - idx)]
    BY <1>5, <1>7, <2>1
  <2> QED BY <2>1, <2>2
<1>10. DOMAIN Again = 1..Len(queue) + (s + 1) /\ Len(Again) = Len(queue) + (s + 1)
  BY <1>7, <1>8, LenProperties
<1> QED BY <1>2, <1>3, <1>4, <1>7, <1>9, <1>10 DEF s

-----------------------------------------------------------------------------
(* A case that goes again has all its pieces before it, and nothing else moves. *)
LEMMA AgainKeeps ==
  ASSUME plan' = plan, queue' = Again, idx' = idx + 1,
         FuzzTypes, AtHand, Here.kind = "case", Blocks, LeftOnce
  PROVE  LET w == plan[Here.t].setup + 1 IN
         /\ queue' \in Seq(Items) /\ Blocks' /\ LeftOnce'
         /\ \A t, c : StillDue(t, c)' => StillDue(t, c)
         /\ idx + 1 \in DOMAIN queue' /\ AtHand' /\ Here' = CaseItem(Here.t, Here.c, 1)
         /\ \A n \in DOMAIN queue : \E m \in DOMAIN queue' : queue'[m] = queue[n]
         /\ \A n \in DOMAIN queue' : n <= idx => n \in DOMAIN queue /\ queue'[n] = queue[n]
         /\ \A k \in 1..w : idx + k \in ToCome' /\ queue'[idx + k] = CaseItem(Here.t, Here.c, k)
         /\ \A n \in ToCome : n # idx => n + w \in ToCome' /\ queue'[n + w] = queue[n]
         /\ \A n \in ToCome' :
              \/ n - idx \in 1..w /\ queue'[n] = CaseItem(Here.t, Here.c, n - idx)
              \/ /\ n - w \in ToCome /\ n - w # idx /\ queue'[n] = queue[n - w]
                 /\ ~(queue'[n].t = Here.t /\ queue'[n].c = Here.c)
<1> DEFINE s == plan[Here.t].setup
           w == s + 1
           L == Len(queue)
<1>1. L \in Nat /\ DOMAIN queue = 1..L /\ idx \in 1..L /\ ToCome = idx..L /\ AtCase
  BY QueueFacts DEF AtHand, AtCase
<1>2. /\ s \in Nat /\ queue' \in Seq(Items) /\ Len(queue') = L + w
      /\ DOMAIN queue' = 1..L + w
      /\ \A n \in 1..idx : queue'[n] = queue[n]
      /\ \A k \in 1..w : queue'[idx + k] = CaseItem(Here.t, Here.c, k)
      /\ \A n \in idx + 1..L : queue'[n + w] = queue[n]
  BY AgainIs
<1>3. Here \in Items /\ Here.t \in Targets /\ Here.c \in 1..plan[Here.t].cases /\ Here.k = w
  <2>1. Here \in Items
    BY <1>1, QueueFacts DEF Here
  <2> QED BY <2>1, PieceFacts
<1>4. \A k \in 1..w : LET i == CaseItem(Here.t, Here.c, k) IN i.t = Here.t /\ i.c = Here.c /\ i.k = k
  BY <1>3, Pieces
<1> HIDE DEF s, L
<1>5. ToCome' = idx + 1..L + w
  BY <1>1, <1>2 DEF ToCome
(* No row goes over the case at hand. *)
<1>6. ASSUME NEW n \in DOMAIN queue, queue[n].kind # "own"
      PROVE  LET i == queue[n] IN
             \E b, wi \in Int :
               /\ i.k \in Int /\ b = n - i.k /\ wi = plan[i.t].setup + 1
               /\ b < n /\ n <= b + wi
               /\ \A j \in 1..wi : b + j \in 1..L /\ queue[b + j] = CaseItem(i.t, i.c, j)
               /\ b + wi <= idx \/ b >= idx
  <2> DEFINE i == queue[n]
  <2>1. i \in Items /\ i.kind # "own"
    BY <1>6, QueueFacts
  <2>2. /\ i.k \in 1..plan[i.t].setup + 1 /\ plan[i.t].setup \in Nat
        /\ i.t \in Targets /\ i.c \in 1..plan[i.t].cases
    BY <2>1, PieceFacts
  <2> PICK b \in Int : b = n - i.k
    BY <1>1, <2>2
  <2> PICK wi \in Int : wi = plan[i.t].setup + 1
    BY <2>2
  <2>3. \A j \in 1..wi : b + j \in 1..L /\ queue[b + j] = CaseItem(i.t, i.c, j)
    BY <1>1, <2>1 DEF Blocks
  <2>4. b < n /\ n <= b + wi
    BY <1>1, <2>2
  <2> HIDE DEF i
  <2>5. ASSUME b < idx, idx < b + wi PROVE FALSE
    <3> PICK j \in Int : j = idx - b
      BY <1>1
    <3>1. j \in 1..wi /\ b + j = idx
      BY <1>1, <2>5
    <3>2. j \in 1..plan[i.t].setup + 1 /\ j <= plan[i.t].setup
      <4>1. j < wi
        BY <1>1, <2>5
      <4> QED BY <2>2, <3>1, <4>1
    <3>3. queue[b + j] = CaseItem(i.t, i.c, j)
      BY <2>3, <3>1
    <3>4. Here = CaseItem(i.t, i.c, j)
      BY <3>1, <3>3 DEF Here
    <3>5. Here.kind = "copy"
      BY <2>2, <3>2, <3>4, Pieces
    <3> QED BY <3>5
  <2>6. b + wi <= idx \/ b >= idx
    BY <1>1, <2>5
  <2>7. i.k \in Int
    BY <2>2
  <2>8. /\ i.k \in Int /\ b = n - i.k /\ wi = plan[i.t].setup + 1
        /\ b < n /\ n <= b + wi
        /\ \A j \in 1..wi : b + j \in 1..L /\ queue[b + j] = CaseItem(i.t, i.c, j)
        /\ b + wi <= idx \/ b >= idx
    BY <2>3, <2>4, <2>6, <2>7, Zenon
  <2> QED BY <2>8, Zenon DEF i
<1>7. Blocks'
  <2> SUFFICES ASSUME NEW n \in 1..L + w, queue'[n].kind # "own", NEW j \in 1..plan[queue'[n].t].setup + 1
               PROVE  LET i == queue'[n] IN
                      n - i.k + j \in 1..L + w /\ queue'[n - i.k + j] = CaseItem(i.t, i.c, j)
    BY <1>2 DEF Blocks, CaseItem, It
  <2>0. n \in Int /\ idx \in Int /\ w \in Int /\ w > 0
    BY <1>1, <1>2
  <2>1. CASE n \in 1..idx
    <3> DEFINE i == queue[n]
    <3>1. queue'[n] = i /\ n \in DOMAIN queue /\ n <= idx
      BY <1>1, <1>2, <2>1
    <3> PICK b \in Int, wi \in Int :
           /\ i.k \in Int /\ b = n - i.k /\ wi = plan[i.t].setup + 1
           /\ b < n /\ n <= b + wi
           /\ \A k \in 1..wi : b + k \in 1..L /\ queue[b + k] = CaseItem(i.t, i.c, k)
           /\ b + wi <= idx \/ b >= idx
      BY <1>6, <3>1
    <3>2. j \in 1..wi /\ b + j \in 1..L /\ queue[b + j] = CaseItem(i.t, i.c, j)
      BY <3>1
    <3> HIDE DEF i
    <3>5. L \in Int /\ idx <= L /\ j \in Int /\ 1 <= j /\ j <= wi /\ 1 <= b + j
      BY <1>1, <3>2
    <3>6. b + wi <= idx
      BY <2>0, <3>1
    <3> HIDE DEF w
    <3>3. b + j \in 1..idx /\ b + j \in 1..L + w
      BY <2>0, <3>5, <3>6
    <3>4. queue'[b + j] = CaseItem(i.t, i.c, j)
      BY <1>2, <3>2, <3>3
    <3> QED BY <3>1, <3>3, <3>4
  <2>2. CASE n \in idx + 1..idx + w
    <3>1. n - idx \in 1..w /\ idx + (n - idx) = n
      BY <2>0, <2>2
    <3>2. queue'[idx + (n - idx)] = CaseItem(Here.t, Here.c, n - idx)
      BY <1>2, <3>1
    <3>3. queue'[n].t = Here.t /\ queue'[n].c = Here.c /\ queue'[n].k = n - idx
      BY <1>4, <3>1, <3>2
    <3>4. j \in 1..w
      BY <3>3 DEF s
    <3>5. n - (n - idx) + j = idx + j /\ idx + j \in 1..L + w
      BY <1>1, <2>0, <3>4
    <3> QED BY <1>2, <3>3, <3>4, <3>5
  <2>3. CASE n \in idx + 1 + w..L + w
    <3> PICK m \in idx + 1..L : m + w = n
      <4>1. n - w \in idx + 1..L /\ n - w + w = n
        BY <1>1, <2>0, <2>3
      <4> QED BY <4>1
    <3> DEFINE i == queue[m]
    <3>1. queue'[n] = i /\ m \in DOMAIN queue /\ m > idx /\ m \in Int
      <4>1. queue'[m + w] = i
        BY <1>2
      <4>2. m \in 1..L /\ m > idx /\ m \in Int
        BY <1>1
      <4> QED BY <1>1, <4>1, <4>2
    <3> PICK b \in Int, wi \in Int :
           /\ i.k \in Int /\ b = m - i.k /\ wi = plan[i.t].setup + 1
           /\ b < m /\ m <= b + wi
           /\ \A k \in 1..wi : b + k \in 1..L /\ queue[b + k] = CaseItem(i.t, i.c, k)
           /\ b + wi <= idx \/ b >= idx
      BY <1>6, <3>1
    <3>2. j \in 1..wi /\ b + j \in 1..L /\ queue[b + j] = CaseItem(i.t, i.c, j)
      BY <3>1
    <3> HIDE DEF i
    <3>6. L \in Int /\ j \in Int /\ 1 <= j /\ b + j <= L /\ 1 <= b + j
      BY <1>1, <3>2
    <3>7. b >= idx
      BY <2>0, <3>1
    <3> HIDE DEF w
    <3>3. b + j \in idx + 1..L /\ b + j + w \in 1..L + w
      BY <2>0, <3>6, <3>7
    <3>4. queue'[b + j + w] = CaseItem(i.t, i.c, j)
      BY <1>2, <3>2, <3>3
    <3>5. n - i.k + j = b + j + w
      BY <2>0, <3>1, <3>2
    <3> QED BY <3>1, <3>3, <3>4, <3>5
  <2> QED BY <1>1, <2>0, <2>1, <2>2, <2>3
<1>8. ASSUME NEW n \in ToCome'
      PROVE  \/ n - idx \in 1..w /\ queue'[n] = CaseItem(Here.t, Here.c, n - idx)
             \/ /\ n - w \in ToCome /\ n - w # idx /\ queue'[n] = queue[n - w]
                /\ ~(queue'[n].t = Here.t /\ queue'[n].c = Here.c)
  <2>1. CASE n \in idx + 1..idx + w
    <3>1. n - idx \in 1..w /\ idx + (n - idx) = n
      BY <1>1, <1>2, <2>1
    <3>2. queue'[idx + (n - idx)] = CaseItem(Here.t, Here.c, n - idx)
      BY <1>2, <3>1
    <3> QED BY <3>1, <3>2
  <2>2. CASE n \in idx + 1 + w..L + w
    <3> PICK m \in idx + 1..L : m + w = n
      <4>1. n - w \in idx + 1..L /\ n - w + w = n
        BY <1>1, <1>2, <2>2
      <4> QED BY <4>1
    <3>1. m = n - w /\ m \in ToCome /\ m # idx /\ m > idx /\ m \in DOMAIN queue
      BY <1>1, <1>2
    <3>2. queue'[n] = queue[m]
      BY <1>2
    <3>3. ASSUME queue[m].t = Here.t, queue[m].c = Here.c PROVE FALSE
      <4>1. queue[m].kind # "own" /\ m - queue[m].k = idx - Here.k
        BY <1>1, <3>1, <3>3, SameCase
      <4>2. queue[m] \in Items
        BY <3>1, QueueFacts
      <4>3. queue[m].k \in 1..w
        BY <4>1, <4>2, <3>3, PieceFacts DEF s
      <4> QED BY <1>1, <1>2, <1>3, <3>1, <4>1, <4>3
    <3> QED BY <3>1, <3>2, <3>3
  <2> QED BY <1>1, <1>2, <1>5, <2>1, <2>2
<1>9. LeftOnce'
  <2> SUFFICES ASSUME NEW m \in ToCome', NEW n \in ToCome', queue'[m] = queue'[n] PROVE m = n
    BY DEF LeftOnce
  <2>0. m \in Int /\ n \in Int
    BY <1>1, <1>2, <1>5
  <2>1. CASE m - idx \in 1..w /\ queue'[m] = CaseItem(Here.t, Here.c, m - idx)
    <3>1. queue'[m].t = Here.t /\ queue'[m].c = Here.c /\ queue'[m].k = m - idx
      BY <1>4, <2>1
    <3>2. n - idx \in 1..w /\ queue'[n] = CaseItem(Here.t, Here.c, n - idx)
      BY <1>8, <3>1
    <3>3. queue'[n].k = n - idx
      BY <1>4, <3>2
    <3> QED BY <1>1, <2>0, <3>1, <3>3
  <2>2. CASE /\ m - w \in ToCome /\ m - w # idx /\ queue'[m] = queue[m - w]
             /\ ~(queue'[m].t = Here.t /\ queue'[m].c = Here.c)
    <3>1. ~(n - idx \in 1..w /\ queue'[n] = CaseItem(Here.t, Here.c, n - idx))
      BY <1>4, <2>2
    <3>2. n - w \in ToCome /\ queue'[n] = queue[n - w]
      BY <1>8, <3>1
    <3>3. m - w = n - w
      BY <2>2, <3>2 DEF LeftOnce
    <3> QED BY <1>2, <2>0, <3>3
  <2> QED BY <1>8, <2>1, <2>2
<1>10. ASSUME NEW t, NEW c, StillDue(t, c)' PROVE StillDue(t, c)
  <2> PICK n \in ToCome' : queue'[n].t = t /\ queue'[n].c = c
    BY <1>10 DEF StillDue
  <2>1. CASE n - idx \in 1..w /\ queue'[n] = CaseItem(Here.t, Here.c, n - idx)
    <3>1. t = Here.t /\ c = Here.c /\ idx \in ToCome
      BY <1>1, <1>4, <2>1
    <3> QED BY <3>1 DEF StillDue, Here
  <2>2. CASE n - w \in ToCome /\ queue'[n] = queue[n - w]
    BY <2>2 DEF StillDue
  <2> QED BY <1>8, <2>1, <2>2
<1>11. idx + 1 \in DOMAIN queue' /\ AtHand' /\ Here' = CaseItem(Here.t, Here.c, 1)
  <2>1. 1 \in 1..w /\ idx + 1 \in 1..L + w /\ idx + 1 <= L + w
    BY <1>1, <1>2
  <2> QED BY <1>2, <2>1 DEF AtHand, Here
<1>12. ASSUME NEW n \in DOMAIN queue PROVE \E m \in DOMAIN queue' : queue'[m] = queue[n]
  <2>1. CASE n <= idx
    <3>1. n \in 1..idx /\ n \in 1..L + w
      BY <1>1, <1>2, <2>1
    <3> QED BY <1>2, <3>1
  <2>2. CASE n > idx
    <3>1. n \in idx + 1..L /\ n + w \in 1..L + w
      BY <1>1, <1>2, <2>2
    <3> QED BY <1>2, <3>1
  <2> QED BY <1>1, <2>1, <2>2
<1>13. ASSUME NEW n \in DOMAIN queue', n <= idx PROVE n \in DOMAIN queue /\ queue'[n] = queue[n]
  <2>1. n \in 1..idx /\ n \in 1..L
    BY <1>1, <1>2, <1>13
  <2> QED BY <1>1, <1>2, <2>1
<1>14. ASSUME NEW k \in 1..w PROVE idx + k \in ToCome' /\ queue'[idx + k] = CaseItem(Here.t, Here.c, k)
  <2>1. idx + k \in idx + 1..L + w
    BY <1>1, <1>2
  <2> QED BY <1>2, <1>5, <2>1
<1>15. ASSUME NEW n \in ToCome, n # idx PROVE n + w \in ToCome' /\ queue'[n + w] = queue[n]
  <2>1. n \in idx + 1..L /\ n + w \in idx + 1..L + w
    BY <1>1, <1>2, <1>15
  <2> QED BY <1>2, <1>5, <2>1
<1> QED BY <1>2, <1>7, <1>8, <1>9, <1>10, <1>11, <1>12, <1>13, <1>14, <1>15 DEF s

-----------------------------------------------------------------------------
(* The types. *)
(* The piece at hand is of a target and, but for the plan's own step, of a case. *)
LEMMA AtHandIs ==
  ASSUME FuzzTypes, AtHand
  PROVE  /\ Here \in Items /\ Here.t \in Targets /\ plan[Here.t].setup \in Nat /\ G \in GroupOf(Here.t)
         /\ AtCase <=> Here.kind # "own"
         /\ AtCase => /\ Case \in Cases /\ caseInfo[Case] \in InfoOf(Case)
                      /\ Case = <<Here.t, Here.c>> /\ Case[1] = Here.t /\ Case[2] = Here.c
                      /\ Here.c \in 1..plan[Here.t].cases /\ Here.k \in 1..plan[Here.t].setup + 1
         /\ Here.kind = "copy" =>
              /\ AtCase /\ Here.k \in 1..plan[Here.t].setup /\ <<Case, Here.k>> \in Copies
         /\ Here.kind = "case" => AtCase /\ Here.k = plan[Here.t].setup + 1
<1>1. Here \in Items
  BY QueueFacts DEF Here
<1>2. Here.t \in Targets /\ plan[Here.t].setup \in Nat /\ G \in GroupOf(Here.t)
  BY <1>1, ItemsAre, PlanFacts DEF FuzzTypes, G
<1>3. AtCase <=> Here.kind # "own"
  BY DEF AtCase
<1>4. ASSUME AtCase
      PROVE  /\ Case \in Cases /\ caseInfo[Case] \in InfoOf(Case)
             /\ Case = <<Here.t, Here.c>> /\ Case[1] = Here.t /\ Case[2] = Here.c
             /\ Here.c \in 1..plan[Here.t].cases /\ Here.k \in 1..plan[Here.t].setup + 1
             /\ Here.kind = "copy" => Here.k \in 1..plan[Here.t].setup
             /\ Here.kind = "case" => Here.k = plan[Here.t].setup + 1
  <2>1. /\ Case \in Cases
        /\ Here.c \in 1..plan[Here.t].cases /\ Here.k \in 1..plan[Here.t].setup + 1
        /\ Here.kind = "copy" => Here.k <= plan[Here.t].setup
        /\ Here.kind = "case" => Here.k = plan[Here.t].setup + 1
    BY <1>1, <1>3, <1>4, PieceFacts DEF Case
  <2>2. Case = <<Here.t, Here.c>> /\ Case[1] = Here.t /\ Case[2] = Here.c
    BY DEF Case
  <2>3. caseInfo[Case] \in InfoOf(Case)
    BY <2>1 DEF FuzzTypes
  <2>4. Here.kind = "copy" => Here.k \in 1..plan[Here.t].setup
    BY <1>2, <2>1
  <2> QED BY <2>1, <2>2, <2>3, <2>4
<1>5. ASSUME Here.kind = "copy" PROVE <<Case, Here.k>> \in Copies
  <2>1. <<Case, Here.k>> \in {Case} \X (1..plan[Case[1]].setup)
    BY <1>3, <1>4, <1>5
  <2> QED BY <1>3, <1>4, <1>5, <2>1 DEF Copies
<1> QED BY <1>1, <1>2, <1>3, <1>4, <1>5

(* The parts of a step. *)
LEMMA StepsAre ==
  ASSUME [Next]_vars
  PROVE  /\ plan' = plan
         /\ queue' = queue \/ (CaseAnswered /\ queue' = Again /\ Here.kind = "case")
         /\ idx' = idx \/ idx' = idx + 1
         /\ pc' = pc \/ pc' \in {"next", "verifying", "chosen", "sent", "done", "aborted"}
<1> USE DEF history
<1>1. plan' = plan
  BY DEF Next, Progress, Interrupt, PassOver, AbortBetween, Choose, QueueEnds, Verify, SkipStopped,
         SkipFailed, Reuse, SendCopy, CopyAnswered, SendOwn, OwnAnswered, ReportUnsent, SendCase,
         CaseAnswered, Returned, vars
<1>2. CASE CaseAnswered
  <2>1. queue' = queue \/ (queue' = Again /\ Here.kind = "case")
    BY <1>2 DEF CaseAnswered, Rebuild, CaseJudged
  <2>2. idx' = idx \/ idx' = idx + 1
    BY <1>2 DEF CaseAnswered, AbortSent, NextItem
  <2>3. pc' \in {"next", "aborted"}
    BY <1>2 DEF CaseAnswered, AbortSent, NextItem
  <2> QED BY <1>1, <1>2, <2>1, <2>2, <2>3
<1>3. CASE CopyAnswered \/ OwnAnswered
  BY <1>1, <1>3 DEF CopyAnswered, OwnAnswered, CopyPassed, CopyFailed, AbortSent, NextItem
<1>4. CASE Interrupt \/ PassOver \/ AbortBetween \/ Choose \/ QueueEnds \/ Verify \/ SendOwn
           \/ ReportUnsent \/ SendCase \/ Returned \/ UNCHANGED vars
  BY <1>1, <1>4
     DEF Interrupt, PassOver, AbortBetween, Choose, QueueEnds, Verify, SendOwn, ReportUnsent, SendCase,
         Returned, NextItem, vars
<1>5. CASE SkipStopped \/ SkipFailed \/ Reuse \/ SendCopy
  BY <1>1, <1>5 DEF SkipStopped, SkipFailed, Reuse, SendCopy, NextItem
<1> QED BY <1>2, <1>3, <1>4, <1>5 DEF Next, Progress

(* Each change of a group leaves it one. *)
LEMMA GroupParts ==
  ASSUME FuzzTypes, NEW t \in Targets, NEW g \in GroupOf(t)
  PROVE  /\ \A b \in BOOLEAN : [g EXCEPT !.passed = b] \in GroupOf(t) /\ [g EXCEPT !.clean = b] \in GroupOf(t)
         /\ \A c \in Cases : [g EXCEPT !.live = NoLive(t), !.clean = FALSE, !.building = c] \in GroupOf(t)
         /\ \A k, d : d \in 0..plan[t].cases => [g EXCEPT !.live[k] = d] \in GroupOf(t)
         /\ \A b \in BOOLEAN :
              [g EXCEPT !.failures = 0, !.building = NoCase, !.clean = b] \in GroupOf(t)
         /\ CountFailure(g) \in GroupOf(t)
<1>1. NoLive(t) \in [1..plan[t].setup -> 0..plan[t].cases]
  BY PlanFacts DEF FuzzTypes, NoLive
<1> DEFINE F == [1..plan[t].setup -> 0..plan[t].cases]
<1>2. \A k, d : d \in 0..plan[t].cases => \A f \in F : [f EXCEPT ![k] = d] \in F
  OBVIOUS
<1>3. GroupOf(t) = [passed : BOOLEAN, live : F, clean : BOOLEAN, building : {NoCase} \cup Cases,
                    failures : Nat, stopped : BOOLEAN]
  BY DEF GroupOf
<1> HIDE DEF F
<1>9. ASSUME NEW h \in GroupOf(t)
      PROVE  /\ \A b \in BOOLEAN : [h EXCEPT !.clean = b] \in GroupOf(t) /\ [h EXCEPT !.stopped = b] \in GroupOf(t)
             /\ \A l \in F : [h EXCEPT !.live = l] \in GroupOf(t)
             /\ \A c \in {NoCase} \cup Cases : [h EXCEPT !.building = c] \in GroupOf(t)
             /\ \A n \in Nat : [h EXCEPT !.failures = n] \in GroupOf(t)
             /\ h.failures \in Nat /\ h.stopped \in BOOLEAN
  BY <1>3
<1>4. \A b \in BOOLEAN : [g EXCEPT !.passed = b] \in GroupOf(t) /\ [g EXCEPT !.clean = b] \in GroupOf(t)
  BY <1>3
<1>5. ASSUME NEW c \in Cases
      PROVE  [g EXCEPT !.live = NoLive(t), !.clean = FALSE, !.building = c] \in GroupOf(t)
  <2> PICK h \in GroupOf(t) : h = [g EXCEPT !.live = NoLive(t)]
    BY <1>1, <1>9 DEF F
  <2> PICK i \in GroupOf(t) : i = [h EXCEPT !.clean = FALSE]
    BY <1>9
  <2>1. [i EXCEPT !.building = c] \in GroupOf(t)
    BY <1>9
  <2> QED BY <2>1
<1>6. \A k, d : d \in 0..plan[t].cases => [g EXCEPT !.live[k] = d] \in GroupOf(t)
  BY <1>2, <1>3
<1>7. ASSUME NEW b \in BOOLEAN
      PROVE  [g EXCEPT !.failures = 0, !.building = NoCase, !.clean = b] \in GroupOf(t)
  <2> PICK h \in GroupOf(t) : h = [g EXCEPT !.failures = 0]
    BY <1>9
  <2> PICK i \in GroupOf(t) : i = [h EXCEPT !.building = NoCase]
    BY <1>9
  <2>1. [i EXCEPT !.clean = b] \in GroupOf(t)
    BY <1>9
  <2> QED BY <2>1
<1>8. CountFailure(g) \in GroupOf(t)
  <2> PICK st \in BOOLEAN : st = (g.stopped \/ g.failures + 1 >= MaxSetupFailures)
    OBVIOUS
  <2> PICK h \in GroupOf(t) : h = [g EXCEPT !.clean = FALSE]
    BY <1>9
  <2> PICK i \in GroupOf(t) : i = [h EXCEPT !.building = NoCase]
    BY <1>9
  <2> PICK n \in Nat : n = g.failures + 1
    BY <1>9
  <2> PICK j \in GroupOf(t) : j = [i EXCEPT !.failures = n]
    BY <1>9
  <2>1. [j EXCEPT !.stopped = st] \in GroupOf(t)
    BY <1>9
  <2>2. CountFailure(g) = [j EXCEPT !.stopped = st]
    BY DEF CountFailure
  <2> QED BY <2>1, <2>2
<1> QED BY <1>4, <1>5, <1>6, <1>7, <1>8

(* FuzzTypes holds after any step. *)
LEMMA TypesKept ==
  ASSUME FuzzTypes, Ready, [Next]_vars
  PROVE  FuzzTypes'
<1> USE DEF history
<1>1. plan' = plan /\ Targets' = Targets /\ Cases' = Cases /\ Items' = Items /\ Copies' = Copies
  BY StepsAre, PlanStays
<1>2. queue' \in Seq(Items) /\ idx' \in Nat \ {0}
  <2>1. CaseAnswered => AtHand
    BY DEF CaseAnswered, Ready
  <2>2. queue' \in Seq(Items)
    BY <2>1, StepsAre, AgainIs DEF FuzzTypes
  <2> QED BY <2>2, StepsAre DEF FuzzTypes
<1>3. pc' \in {"next", "verifying", "chosen", "sent", "done", "aborted"}
  BY StepsAre DEF FuzzTypes
<1>4. end' \in BOOLEAN /\ verified' \in BOOLEAN /\ ctxDone' \in BOOLEAN
  BY DEF FuzzTypes, Next, Progress, Interrupt, PassOver, AbortBetween, Choose, QueueEnds, Verify, SkipStopped,
         SkipFailed, Reuse, SendCopy, CopyAnswered, SendOwn, OwnAnswered, ReportUnsent, SendCase,
         CaseAnswered, Returned, vars
<1>5. \A c \in Cases : InfoOf(c)' = InfoOf(c)
  BY <1>1 DEF InfoOf
<1>6. \A t \in Targets : GroupOf(t)' = GroupOf(t)
  BY <1>1 DEF GroupOf
<1>7. pc \in {"chosen", "sent"} => AtHand
  BY DEF Ready
<1>8. \A t \in Targets : group[t] \in GroupOf(t) /\ NoLive(t) \in [1..plan[t].setup -> 0..plan[t].cases]
  BY PlanFacts DEF FuzzTypes, NoLive
<1>9. DOMAIN group' = Targets /\ \A t \in Targets : group'[t] \in GroupOf(t)
  <2>0. DOMAIN group = Targets /\ DOMAIN caseInfo = Cases
    BY DEF FuzzTypes
  <2>1. CASE group' = group
    BY <1>8, <2>0, <2>1
  <2>2. CASE SendCopy /\ group' # group
    <3>1. AtHand /\ Here.kind = "copy"
      BY <1>7, <2>2 DEF SendCopy, Copying
    <3>2. group' = [group EXCEPT ![Here.t].live = NoLive(Here.t),
                                    ![Here.t].clean = FALSE, ![Here.t].building = Case]
      BY <2>2 DEF SendCopy
    <3>3. Here.t \in Targets /\ Case \in Cases
      BY <3>1, AtHandIs
    <3>4. [group[Here.t] EXCEPT !.live = NoLive(Here.t), !.clean = FALSE, !.building = Case] \in GroupOf(Here.t)
      BY <1>8, <3>3, GroupParts
    <3> QED BY <1>8, <2>0, <3>2, <3>3, <3>4
  <2>3. CASE CopyAnswered /\ CopyPassed
    <3>1. AtHand /\ Here.kind = "copy"
      BY <1>7, <2>3 DEF CopyAnswered
    <3>2. group' = [group EXCEPT ![Here.t].live[Here.k] = Here.c]
      BY <2>3 DEF CopyPassed
    <3>3. Here.t \in Targets /\ Here.c \in 0..plan[Here.t].cases
      BY <3>1, AtHandIs
    <3>4. [group[Here.t] EXCEPT !.live[Here.k] = Here.c] \in GroupOf(Here.t)
      BY <1>8, <3>3, GroupParts
    <3> QED BY <1>8, <2>0, <3>2, <3>3, <3>4
  <2>4. CASE CopyAnswered /\ CopyFailed
    <3>1. AtHand /\ Here.kind = "copy"
      BY <1>7, <2>4 DEF CopyAnswered
    <3>2. group' = [group EXCEPT ![Here.t] = CountFailure(@)]
      BY <2>4 DEF CopyFailed
    <3>3. Here.t \in Targets
      BY <3>1, AtHandIs
    <3>4. CountFailure(group[Here.t]) \in GroupOf(Here.t)
      BY <1>8, <3>3, GroupParts
    <3> QED BY <1>8, <2>0, <3>2, <3>3, <3>4
  <2>5. CASE OwnAnswered /\ group' # group
    <3>1. AtHand
      BY <1>7, <2>5 DEF OwnAnswered
    <3>2. PICK through \in BOOLEAN : group' = [group EXCEPT ![Here.t].passed = through]
      BY <2>5 DEF OwnAnswered, AbortSent
    <3>3. Here.t \in Targets
      BY <3>1, AtHandIs
    <3>4. [group[Here.t] EXCEPT !.passed = through] \in GroupOf(Here.t)
      BY <1>8, <3>3, GroupParts
    <3> QED BY <1>8, <2>0, <3>2, <3>3, <3>4
  <2>6. CASE CaseAnswered /\ group' # group
    <3>1. AtHand
      BY <1>7, <2>6 DEF CaseAnswered
    <3>2. Here.t \in Targets
      BY <3>1, AtHandIs
    <3>3. PICK a \in Answer : Rebuild \/ CaseJudged(a)
      BY <2>6 DEF CaseAnswered, AbortSent
    <3>4. CASE Rebuild
      <4>1. [group[Here.t] EXCEPT !.clean = FALSE] \in GroupOf(Here.t)
        BY <1>8, <3>2, GroupParts
      <4>2. group' = [group EXCEPT ![Here.t].clean = FALSE]
        BY <3>4 DEF Rebuild
      <4> QED BY <1>8, <2>0, <3>2, <4>1, <4>2
    <3>5. CASE CaseJudged(a)
      <4>1. plan[Here.t].readOnly \in BOOLEAN
        BY <3>2, PlanFacts DEF FuzzTypes
      <4>2. LeavesClean(a) \in BOOLEAN
        BY DEF LeavesClean
      <4>3. [group[Here.t] EXCEPT !.failures = 0, !.building = NoCase, !.clean = LeavesClean(a)] \in GroupOf(Here.t)
        BY <1>8, <3>2, <4>2, GroupParts
      <4>4. group' = [group EXCEPT ![Here.t].failures = 0, ![Here.t].building = NoCase,
                                   ![Here.t].clean = LeavesClean(a)]
        BY <3>5 DEF CaseJudged
      <4> QED BY <1>8, <2>0, <3>2, <4>3, <4>4
    <3> QED BY <3>3, <3>4, <3>5
  <2> QED BY <2>1, <2>2, <2>3, <2>4, <2>5, <2>6
          DEF Next, Progress, Interrupt, PassOver, AbortBetween, Choose, QueueEnds, Verify, SkipStopped,
              SkipFailed, Reuse, CopyAnswered, AbortSent, SendOwn, ReportUnsent, SendCase, Returned, vars
<1>10. DOMAIN caseInfo' = Cases /\ \A c \in Cases : caseInfo'[c] \in InfoOf(c)
  <2>0. DOMAIN caseInfo = Cases /\ \A c \in Cases : caseInfo[c] \in InfoOf(c)
    BY DEF FuzzTypes
  <2>1. CASE caseInfo' = caseInfo
    BY <2>0, <2>1
  <2>2. CASE \E setup \in {"fresh", "rebuilt", "failed"} : \E failed \in BOOLEAN : Give(Case, setup, failed)
    BY <2>0, <2>2 DEF Give, InfoOf
  <2>3. CASE Reuse
    <3>1. AtHand /\ Here.kind = "copy"
      BY <1>7, <2>3 DEF Reuse, Copying
    <3>2. G.live \in [1..plan[Here.t].setup -> 0..plan[Here.t].cases] /\ Case \in Cases
          /\ Here.k \in 1..plan[Here.t].setup /\ Case[1] = Here.t
      BY <3>1, AtHandIs DEF GroupOf
    <3>3. G.live[Here.k] \in 0..plan[Here.t].cases
      BY <3>2
    <3>4. caseInfo' = [caseInfo EXCEPT ![Case].setup = "reused", ![Case].on[Here.k] = G.live[Here.k]]
      BY <2>3 DEF Reuse
    <3> HIDE DEF G
    <3> QED BY <2>0, <3>2, <3>3, <3>4 DEF InfoOf
  <2>4. CASE CopyAnswered /\ CopyPassed
    <3>1. AtHand /\ Here.kind = "copy"
      BY <1>7, <2>4 DEF CopyAnswered
    <3>2. caseInfo' = [caseInfo EXCEPT ![Case].on[Here.k] = Here.c]
      BY <2>4 DEF CopyPassed
    <3>3. Here.c \in 0..plan[Here.t].cases /\ Case[1] = Here.t /\ Case \in Cases
      BY <3>1, AtHandIs
    <3> QED BY <2>0, <3>2, <3>3 DEF InfoOf
  <2>5. CASE CaseAnswered /\ caseInfo' # caseInfo
    <3>1. caseInfo' = [caseInfo EXCEPT ![Case].stale = TRUE]
      BY <2>5 DEF CaseAnswered, AbortSent, Rebuild, CaseJudged
    <3> QED BY <2>0, <3>1 DEF InfoOf
  <2>6. SkipStopped => Give(Case, "failed", TRUE)
    BY DEF SkipStopped
  <2>7. SendCopy => caseInfo' = caseInfo \/ \E setup \in {"fresh", "rebuilt"} : Give(Case, setup, FALSE)
    BY DEF SendCopy
  <2>8. CopyAnswered => caseInfo' = caseInfo \/ CopyPassed \/ Give(Case, "failed", TRUE)
    BY DEF CopyAnswered, CopyFailed, AbortSent
  <2>9. OwnAnswered => caseInfo' = caseInfo
    BY DEF OwnAnswered, AbortSent
  <2> QED BY <2>1, <2>2, <2>3, <2>4, <2>5, <2>6, <2>7, <2>8, <2>9
          DEF Next, Progress, Interrupt, PassOver, AbortBetween, Choose, QueueEnds, Verify,
              SkipFailed, SendOwn, ReportUnsent, SendCase, Returned, vars
<1>11. sends' \in Seq([case : Cases, on : SUBSET Nat, answer : Answer])
  <2>1. CASE CaseAnswered
    <3>1. PICK a \in Answer : sends' = Append(sends, Ran(a))
      BY <2>1 DEF CaseAnswered
    <3>2. AtHand /\ AtCase
      BY <1>7, <2>1, AtHandIs DEF CaseAnswered
    <3>3. /\ Case \in Cases /\ Case[1] = Here.t
          /\ caseInfo[Case].on \in [1..plan[Here.t].setup -> 0..plan[Here.t].cases]
          /\ plan[Here.t].cases \in Nat
      BY <3>2, AtHandIs, PlanFacts DEF InfoOf, FuzzTypes
    <3>4. {caseInfo[Case].on[k] : k \in 1..plan[Here.t].setup} \in SUBSET Nat
      <4> DEFINE on == caseInfo[Case].on
      <4>1. on \in [1..plan[Here.t].setup -> Nat]
        <5>1. 0..plan[Here.t].cases \subseteq Nat
          BY <3>3
        <5> HIDE DEF on
        <5> QED BY <3>3, <5>1 DEF on
      <4> HIDE DEF on
      <4>2. {on[k] : k \in 1..plan[Here.t].setup} \in SUBSET Nat
        BY <4>1
      <4> QED BY <4>2 DEF on
    <3>5. Ran(a) \in [case : Cases, on : SUBSET Nat, answer : Answer]
      BY <3>3, <3>4 DEF Ran
    <3> QED BY <3>1, <3>5, AppendProperties DEF FuzzTypes
  <2>2. CASE ~CaseAnswered
    <3>1. sends' = sends
      BY <2>2 DEF Next, Progress, Interrupt, PassOver, AbortBetween, Choose, QueueEnds, Verify, SkipStopped,
              SkipFailed, Reuse, SendCopy, CopyAnswered, SendOwn, OwnAnswered, ReportUnsent, SendCase,
              Returned, vars
    <3> QED BY <3>1 DEF FuzzTypes
  <2> QED BY <2>1, <2>2
<1>12. copySent' \subseteq Copies
  <2>1. CASE SendCopy
    <3>1. AtHand /\ Here.kind = "copy"
      BY <1>7, <2>1 DEF SendCopy, Copying
    <3>2. <<Case, Here.k>> \in Copies
      BY <3>1, AtHandIs
    <3> QED BY <2>1, <3>2 DEF SendCopy, FuzzTypes
  <2>2. CASE ~SendCopy
    <3>1. copySent' = copySent
      BY <2>2 DEF Next, Progress, Interrupt, PassOver, AbortBetween, Choose, QueueEnds, Verify, SkipStopped,
              SkipFailed, Reuse, CopyAnswered, SendOwn, OwnAnswered, ReportUnsent, SendCase,
              CaseAnswered, Returned, vars
    <3> QED BY <3>1 DEF FuzzTypes
  <2> QED BY <2>1, <2>2
<1> QED BY <1>1, <1>2, <1>3, <1>4, <1>5, <1>6, <1>9, <1>10, <1>11, <1>12 DEF FuzzTypes

-----------------------------------------------------------------------------
(* What the steps have in common. *)
LEMMA StepKinds ==
  ASSUME Ready, [Next]_vars
  PROVE  \/ queue' = queue /\ idx' = idx
         \/ /\ AtHand /\ queue' = queue /\ idx' = idx + 1
            /\ pc' = "next" /\ pc \in {"next", "chosen", "sent"}
         \/ /\ AtHand /\ Here.kind = "case" /\ queue' = Again /\ idx' = idx + 1
            /\ pc' = "next" /\ pc = "sent"
<1> USE DEF history
<1>1. pc \in {"chosen", "sent"} => AtHand
  BY DEF Ready
<1>2. CASE CaseAnswered
  BY <1>1, <1>2 DEF CaseAnswered, AbortSent, Rebuild, CaseJudged, NextItem
<1>3. CASE CopyAnswered
  BY <1>1, <1>3 DEF CopyAnswered, CopyPassed, CopyFailed, AbortSent, NextItem
<1>4. CASE OwnAnswered
  BY <1>1, <1>4 DEF OwnAnswered, AbortSent, NextItem
<1>5. CASE PassOver \/ SkipStopped \/ SkipFailed \/ Reuse \/ ReportUnsent
  BY <1>1, <1>5 DEF PassOver, SkipStopped, SkipFailed, Reuse, ReportUnsent, NextItem, Copying, AtHand
<1>6. CASE Interrupt \/ AbortBetween \/ Choose \/ QueueEnds \/ Verify \/ SendOwn \/ SendCopy
           \/ SendCase \/ Returned \/ UNCHANGED vars
  BY <1>6 DEF Interrupt, AbortBetween, Choose, QueueEnds, Verify, SendOwn, SendCopy, SendCase, Returned, vars
<1> QED BY <1>2, <1>3, <1>4, <1>5, <1>6 DEF Next, Progress

(* Rows stay whole, no piece comes twice, and no case comes back. *)
LEMMA QueueKept ==
  ASSUME SetupInv, [Next]_vars
  PROVE  Blocks' /\ LeftOnce' /\ \A t, c : StillDue(t, c)' => StillDue(t, c)
<1>1. plan' = plan /\ FuzzTypes /\ Blocks /\ LeftOnce /\ Ready
  BY StepsAre DEF SetupInv
<1>2. CASE queue' = queue /\ idx' = idx
  BY <1>1, <1>2, StayKeeps
<1>3. CASE AtHand /\ queue' = queue /\ idx' = idx + 1
  BY <1>1, <1>3, AdvanceKeeps
<1>4. CASE AtHand /\ Here.kind = "case" /\ queue' = Again /\ idx' = idx + 1
  BY <1>1, <1>4, AgainKeeps
<1> QED BY <1>1, <1>2, <1>3, <1>4, StepKinds

(* What a case that is sent runs on. *)
LEMMA CaseRuns ==
  ASSUME SetupInv, pc = "sent", Here.kind = "case", plan[Here.t].setup > 0
  PROVE  \E d \in 1..plan[Here.t].cases :
           /\ {caseInfo[Case].on[k] : k \in 1..plan[Here.t].setup} = {d}
           /\ \A k \in 1..plan[Here.t].setup : caseInfo[Case].on[k] = d /\ G.live[k] = d
           /\ {<<Here.t, d>>} \X (1..plan[Here.t].setup) \subseteq copySent
           /\ \A i \in DOMAIN sends :
                sends[i].case[1] = Here.t /\ sends[i].on = {d} => Harmless(sends[i])
           /\ \/ d = Here.c /\ G.building = Case /\ Builds
              \/ d # Here.c /\ ~StillDue(Here.t, d) /\ Reuses
<1> DEFINE s == plan[Here.t].setup
<1>1. AtHand /\ AtCase /\ FuzzTypes /\ ~caseInfo[Case].failed /\ Due(Here)
  BY AtHandIs DEF SetupInv, Ready
<1>2. /\ s \in Nat /\ s > 0 /\ Here.k = s + 1 /\ Here.t \in Targets /\ Case = <<Here.t, Here.c>>
      /\ Here.c \in 1..plan[Here.t].cases
  BY <1>1, AtHandIs
<1>3. G.passed
  <2>1. RunsAfterPlan(Here)
    BY <1>1, <1>2, AtHandIs, PieceFacts
  <2> QED BY <1>1, <2>1 DEF Due, G
<1>4. StillDue(Here.t, Here.c)
  BY <1>1, QueueFacts DEF StillDue, Here, ToCome
<1>5. \A j \in 1..Here.k - 1 : j \in 1..s
  BY <1>2
<1>6. 1..s = 1..Here.k - 1 /\ 1 \in 1..s
  BY <1>2
<1> HIDE DEF s
<1>7. ASSUME NEW d, \A k \in 1..s : caseInfo[Case].on[k] = d
      PROVE  {caseInfo[Case].on[k] : k \in 1..s} = {d}
  BY <1>6, <1>7
<1>8. CASE G.building = Case
  <2>1. G.building # NoCase
    BY <1>2, <1>8 DEF NoCase
  <2>2. Builds
    BY <1>2, <2>1 DEF SetupInv, Building, G
  <2>3. \A k \in 1..s : caseInfo[Case].on[k] = Here.c /\ G.live[k] = Here.c /\ <<Case, k>> \in copySent
    BY <1>6, <2>2 DEF Builds
  <2>4. {<<Here.t, Here.c>>} \X (1..s) \subseteq copySent
    BY <1>2, <2>3
  <2>5. \A i \in DOMAIN sends : sends[i].case[1] = Here.t => sends[i].on # {Here.c}
    BY <1>2, <1>4 DEF SetupInv, UsedIsOver, s
  <2>6. {caseInfo[Case].on[k] : k \in 1..s} = {Here.c}
    BY <1>7, <2>3
  <2> QED BY <1>2, <1>8, <2>2, <2>3, <2>4, <2>5, <2>6 DEF s
<1>9. CASE Reuses
  <2>1. G.clean
    BY <1>9 DEF Reuses
  <2>2. PICK d \in 1..plan[Here.t].cases : Serves(Here.t, d)
    BY <1>2, <2>1 DEF SetupInv, CleanServes, G, s
  <2>3. \A k \in 1..s : caseInfo[Case].on[k] = d /\ G.live[k] = d
    BY <1>6, <1>9, <2>2 DEF Reuses, Serves, G, s
  <2>4. {<<Here.t, d>>} \X (1..s) \subseteq copySent /\ ~StillDue(Here.t, d)
    BY <2>2 DEF Serves, s
  <2>5. \A i \in DOMAIN sends : sends[i].case[1] = Here.t /\ sends[i].on = {d} => Harmless(sends[i])
    BY <2>2 DEF Serves
  <2>6. {caseInfo[Case].on[k] : k \in 1..s} = {d}
    BY <1>7, <2>3
  <2> QED BY <1>4, <1>9, <2>3, <2>4, <2>5, <2>6 DEF s
<1>10. G.building = Case \/ Reuses
  <2>1. Here.k > 1
    BY <1>2
  <2> QED BY <1>1, <1>3, <2>1 DEF SetupInv, Prepared
<1> QED BY <1>8, <1>9, <1>10

-----------------------------------------------------------------------------
(* A step that only moves the run's control. *)
LEMMA QuietKept ==
  ASSUME SetupInv, UNCHANGED <<plan, queue, idx, group, caseInfo, sends, copySent>>,
         pc = "sent" => pc' \in {"sent", "aborted"}, pc = "aborted" => pc' = "aborted"
  PROVE  Fresh' /\ Building' /\ Prepared' /\ SentIsPast' /\ CleanServes' /\ UsedIsOver' /\ SetupsAreUntouched'
<1>1. /\ ToCome' = ToCome /\ Left' = Left /\ Here' = Here /\ Case' = Case
      /\ (AtHand <=> AtHand') /\ (AtCase <=> AtCase') /\ \A t, c : StillDue(t, c)' <=> StillDue(t, c)
      /\ Targets' = Targets
  BY StayKeeps, PlanStays DEF SetupInv
<1>2. G' = G
  BY <1>1 DEF G
<1>3. Fresh'
  BY <1>1 DEF SetupInv, Fresh
<1>4. Building'
  BY <1>1, <1>2 DEF SetupInv, Building, Builds
<1>5. Prepared'
  BY <1>1, <1>2 DEF SetupInv, Prepared, Reuses
<1>6. SentIsPast'
  BY <1>1 DEF SetupInv, SentIsPast, CaseItem, It
<1>7. CleanServes'
  BY <1>1 DEF SetupInv, CleanServes, Serves, Harmless
<1>8. UsedIsOver'
  BY <1>1 DEF SetupInv, UsedIsOver
<1>9. SetupsAreUntouched'
  BY DEF SetupInv, SetupsAreUntouched, Harmless
<1> QED BY <1>3, <1>4, <1>5, <1>6, <1>7, <1>8, <1>9

(* A step that goes on to the next piece. *)
LEMMA MoveKept ==
  ASSUME SetupInv, AtHand, UNCHANGED <<plan, queue, copySent>>, idx' = idx + 1,
         \A c \in Cases : (AtCase /\ c = Case) \/ caseInfo'[c] = caseInfo[c]
  PROVE  Fresh' /\ SentIsPast'
<1>1. FuzzTypes /\ Blocks /\ LeftOnce
  BY DEF SetupInv
<1>2. /\ ToCome' = ToCome \ {idx} /\ idx \in ToCome
      /\ \A t, c : StillDue(t, c)' => StillDue(t, c)
      /\ Targets' = Targets /\ Copies' = Copies
  BY <1>1, AdvanceKeeps, PlanStays
<1>3. Fresh'
  <2> SUFFICES ASSUME NEW n \in ToCome, n # idx, queue[n].kind # "own", queue[n].k = 1
               PROVE  LET c == <<queue[n].t, queue[n].c>> IN ~caseInfo'[c].failed /\ ~caseInfo'[c].stale
    BY <1>2 DEF Fresh
  <2> DEFINE c == <<queue[n].t, queue[n].c>>
  <2>1. ~caseInfo[c].failed /\ ~caseInfo[c].stale
    BY DEF SetupInv, Fresh
  <2>2. n \in DOMAIN queue /\ n \in Int /\ idx \in Int /\ n >= idx /\ queue[n] \in Items
    BY <1>1, QueueFacts DEF ToCome
  <2>3. c \in Cases
    BY <1>1, <2>2, PieceFacts
  <2>4. ~(AtCase /\ c = Case)
    <3> SUFFICES ASSUME AtCase, c = Case PROVE FALSE
      OBVIOUS
    <3>1. queue[n].t = Here.t /\ queue[n].c = Here.c
      BY DEF Case
    <3>2. n - 1 = idx - Here.k
      BY <1>1, <3>1, SameCase
    <3>3. Here.k \in 1..plan[Here.t].setup + 1 /\ plan[Here.t].setup \in Nat
      BY <1>1, AtHandIs
    <3> QED BY <2>2, <3>2, <3>3
  <2> QED BY <2>1, <2>3, <2>4
<1>4. SentIsPast'
  <2> SUFFICES ASSUME NEW x \in copySent, x \in Left' PROVE FALSE
    BY DEF SentIsPast
  <2>1. PICK n \in ToCome : n # idx /\ queue[n] = CaseItem(x[1][1], x[1][2], x[2])
    BY <1>2 DEF Left, CaseItem, It
  <2>2. x \in Left
    BY <1>2, <2>1 DEF Left
  <2>3. queue[idx] = CaseItem(x[1][1], x[1][2], x[2])
    BY <2>2 DEF SetupInv, SentIsPast, Here
  <2> QED BY <1>1, <1>2, <2>1, <2>3 DEF LeftOnce
<1> QED BY <1>3, <1>4

(* A step that sends no case. *)
LEMMA SendsKept ==
  ASSUME SetupInv, UNCHANGED <<plan, sends>>, copySent \subseteq copySent', pc # "aborted",
         \A t, c : StillDue(t, c)' => StillDue(t, c)
  PROVE  UsedIsOver' /\ SetupsAreUntouched'
<1>1. UsedIsOver'
  BY DEF SetupInv, UsedIsOver
<1>2. SetupsAreUntouched'
  <2> SUFFICES ASSUME NEW i \in DOMAIN sends, plan[sends[i].case[1]].setup > 0
               PROVE  LET t == sends[i].case[1] IN
                      /\ \E d \in 1..plan[t].cases :
                           sends[i].on = {d} /\ {<<t, d>>} \X (1..plan[t].setup) \subseteq copySent'
                      /\ \A j \in 1..i - 1 :
                           sends[j].case[1] = t /\ sends[j].on = sends[i].on => Harmless(sends[j])
    BY DEF SetupsAreUntouched, Harmless
  <2> DEFINE t == sends[i].case[1]
  <2>1. /\ \E d \in 1..plan[t].cases :
             sends[i].on = {d} /\ {<<t, d>>} \X (1..plan[t].setup) \subseteq copySent
        /\ \A j \in 1..i - 1 :
             sends[j].case[1] = t /\ sends[j].on = sends[i].on => Harmless(sends[j])
    BY DEF SetupInv, SetupsAreUntouched
  <2> HIDE DEF t
  <2> QED BY <2>1 DEF t
<1> QED BY <1>1, <1>2

(* Whatever serves goes on serving. *)
LEMMA ServesOn ==
  ASSUME UNCHANGED <<plan, sends>>, copySent \subseteq copySent',
         \A t, c : StillDue(t, c)' => StillDue(t, c), CleanServes, pc # "aborted",
         \A t \in Targets : group'[t].clean => group[t].clean /\ group'[t].live = group[t].live
  PROVE  CleanServes'
<1>1. Targets' = Targets
  BY PlanStays
<1>2. ASSUME NEW t \in Targets, group'[t].clean, plan[t].setup > 0
      PROVE  \E d \in 1..plan[t].cases : Serves(t, d)'
  <2>1. group[t].clean /\ group'[t].live = group[t].live
    BY <1>2
  <2>2. PICK d \in 1..plan[t].cases : Serves(t, d)
    BY <1>2, <2>1 DEF CleanServes
  <2>3. Serves(t, d)'
    BY <2>1, <2>2 DEF Serves, Harmless
  <2> QED BY <2>3
<1> QED BY <1>1, <1>2 DEF CleanServes

-----------------------------------------------------------------------------
(* The steps that send no copy. *)
(* Nothing is being built but what the case at hand runs on. *)
LEMMA NoneBuilt ==
  ASSUME SetupInv, ~(AtCase /\ G.building = Case /\ Builds)
  PROVE  \A t \in Targets : group[t].building = NoCase
  BY DEF SetupInv, Building, G

(* A step that is passed over. *)
LEMMA PassOverKept ==
  ASSUME SetupInv, PassOver
  PROVE  Building' /\ Prepared' /\ CleanServes'
<1>1. /\ AtHand /\ FuzzTypes /\ Blocks /\ LeftOnce /\ ~Due(Here) /\ CleanServes
      /\ UNCHANGED <<plan, queue, group, caseInfo, sends, copySent>> /\ idx' = idx + 1 /\ pc # "aborted"
  BY DEF SetupInv, PassOver, AtHand, history
<1>2. Targets' = Targets /\ (AtHand' => idx + 1 \in DOMAIN queue /\ Here' = queue[idx + 1])
      /\ \A t, c : StillDue(t, c)' => StillDue(t, c)
  BY <1>1, AdvanceKeeps, PlanStays
<1>3. AtCase /\ plan[Here.t].setup > 0 => ~G.passed
  <2>1. ASSUME AtCase, plan[Here.t].setup > 0 PROVE RunsAfterPlan(Here)
    BY <1>1, <2>1, AtHandIs, PieceFacts
  <2> QED BY <1>1, <2>1 DEF Due, G
<1>4. Building'
  <2>1. ~(AtCase /\ G.building = Case /\ Builds)
    BY <1>3 DEF Builds
  <2> QED BY <1>1, <1>2, <2>1, NoneBuilt DEF Building
<1>5. Prepared'
  <2> SUFFICES ASSUME AtCase', Here'.k > 1, group[Here'.t].passed PROVE FALSE
    BY <1>1 DEF Prepared, G
  <2>1. idx + 1 \in DOMAIN queue /\ Here' = queue[idx + 1] /\ Here'.kind # "own"
    BY <1>2 DEF AtCase
  <2>2. Here.t = Here'.t /\ Here.kind = "copy"
    BY <1>1, <2>1, GoesOn
  <2>3. AtCase /\ plan[Here.t].setup > 0
    BY <1>1, <2>2, AtHandIs
  <2> QED BY <1>3, <2>2, <2>3 DEF G
<1>6. CleanServes'
  BY <1>1, <1>2, ServesOn
<1> QED BY <1>4, <1>5, <1>6

(* A copy that is not sent, since its case's setup failed or is another's. *)
LEMMA SkipKept ==
  ASSUME SetupInv, SkipStopped \/ SkipFailed
  PROVE  /\ \A c \in Cases : (AtCase /\ c = Case) \/ caseInfo'[c] = caseInfo[c]
         /\ Building' /\ Prepared' /\ CleanServes'
<1>1. /\ AtHand /\ Here.kind = "copy" /\ FuzzTypes /\ Blocks /\ LeftOnce /\ CleanServes
      /\ UNCHANGED <<plan, queue, group, sends, copySent>> /\ idx' = idx + 1 /\ pc # "aborted"
      /\ AtCase /\ Case \in Cases
  <2>1. AtHand /\ Here.kind = "copy" /\ FuzzTypes
    BY DEF SetupInv, Ready, SkipStopped, SkipFailed, Copying
  <2> QED BY <2>1, AtHandIs DEF SetupInv, SkipStopped, SkipFailed, Copying, NextItem, history
<1>2. Targets' = Targets /\ (AtHand' => idx + 1 \in DOMAIN queue /\ Here' = queue[idx + 1])
      /\ \A t, c : StillDue(t, c)' => StillDue(t, c)
  BY <1>1, AdvanceKeeps, PlanStays
<1>3. /\ \A c \in Cases \ {Case} : caseInfo'[c] = caseInfo[c]
      /\ caseInfo'[Case].failed
  <2>1. DOMAIN caseInfo = Cases
    BY <1>1 DEF FuzzTypes
  <2>2. caseInfo[Case] \in InfoOf(Case)
    BY <1>1 DEF FuzzTypes
  <2>3. ASSUME Give(Case, "failed", TRUE)
        PROVE  (\A c \in Cases \ {Case} : caseInfo'[c] = caseInfo[c]) /\ caseInfo'[Case].failed
    BY <1>1, <2>1, <2>2, <2>3 DEF Give, InfoOf
  <2>4. CASE SkipStopped
    BY <2>3, <2>4 DEF SkipStopped
  <2>5. CASE SkipFailed
    BY <2>5 DEF SkipFailed
  <2> QED BY <2>4, <2>5
<1>4. Building'
  <2>1. ~Builds
    BY DEF SkipStopped, SkipFailed, Builds
  <2> QED BY <1>1, <1>2, <2>1, NoneBuilt DEF Building
<1>5. Prepared'
  <2> SUFFICES ASSUME AtCase', Here'.k > 1 PROVE caseInfo'[Case'].failed
    BY DEF Prepared
  <2>1. idx + 1 \in DOMAIN queue /\ Here' = queue[idx + 1] /\ Here'.kind # "own"
    BY <1>2 DEF AtCase
  <2>2. Here.t = Here'.t /\ Here.c = Here'.c
    BY <1>1, <2>1, GoesOn
  <2>3. Case' = Case
    BY <2>2 DEF Case
  <2> QED BY <1>3, <2>3
<1>6. CleanServes'
  BY <1>1, <1>2, ServesOn
<1> QED BY <1>1, <1>3, <1>4, <1>5, <1>6

(* A copy that another stands in for. *)
LEMMA ReuseKept ==
  ASSUME SetupInv, Reuse
  PROVE  /\ \A c \in Cases : (AtCase /\ c = Case) \/ caseInfo'[c] = caseInfo[c]
         /\ Building' /\ Prepared' /\ CleanServes'
<1>1. /\ AtHand /\ Here.kind = "copy" /\ FuzzTypes /\ Blocks /\ LeftOnce /\ CleanServes /\ SentIsPast
      /\ UNCHANGED <<plan, queue, group, sends, copySent>> /\ idx' = idx + 1 /\ pc = "chosen"
      /\ AtCase /\ Case \in Cases /\ Due(Here)
  <2>1. AtHand /\ Here.kind = "copy" /\ FuzzTypes
    BY DEF SetupInv, Ready, Reuse, Copying
  <2> QED BY <2>1, AtHandIs DEF SetupInv, Ready, Reuse, Copying, NextItem, history
<1>2. Targets' = Targets /\ (AtHand' => idx + 1 \in DOMAIN queue /\ Here' = queue[idx + 1])
      /\ \A t, c : StillDue(t, c)' => StillDue(t, c)
  BY <1>1, AdvanceKeeps, PlanStays
<1>3. /\ DOMAIN caseInfo = Cases /\ caseInfo[Case] \in InfoOf(Case) /\ Case[1] = Here.t
      /\ Here.k \in 1..plan[Here.t].setup /\ plan[Here.t].setup \in Nat /\ Here \in Items
      /\ Here.t \in Targets /\ Here.c \in 1..plan[Here.t].cases
  BY <1>1, AtHandIs DEF FuzzTypes
<1>4. /\ plan[Here.t].scope = "reuse" /\ G.clean /\ G.building # Case /\ ~caseInfo[Case].failed
      /\ caseInfo' = [caseInfo EXCEPT ![Case].setup = "reused", ![Case].on[Here.k] = G.live[Here.k]]
  BY DEF Reuse, Reusable
<1>5. /\ \A c \in Cases \ {Case} : caseInfo'[c] = caseInfo[c]
      /\ caseInfo'[Case].setup = "reused" /\ caseInfo'[Case].stale = caseInfo[Case].stale
      /\ caseInfo'[Case].on = [caseInfo[Case].on EXCEPT ![Here.k] = G.live[Here.k]]
      /\ DOMAIN caseInfo[Case].on = 1..plan[Here.t].setup
  BY <1>1, <1>3, <1>4 DEF InfoOf
<1>6. G.passed
  BY <1>1, <1>3, PieceFacts DEF Due, G
<1>7. <<Case, Here.k>> \notin copySent
  <2>1. <<Case, Here.k>> \in Copies /\ Here = CaseItem(Here.t, Here.c, Here.k)
    BY <1>1, AtHandIs, PieceFacts
  <2>2. idx \in ToCome /\ Case[1] = Here.t /\ Case[2] = Here.c
    BY <1>1, AdvanceKeeps DEF Case
  <2>3. queue[idx] = CaseItem(Case[1], Case[2], Here.k)
    BY <2>1, <2>2 DEF Here
  <2>4. <<Case, Here.k>> \in Left
    BY <2>1, <2>2, <2>3 DEF Left
  <2> QED BY <1>1, <2>4 DEF SentIsPast
<1>8. /\ ~caseInfo[Case].stale
      /\ \A j \in 1..Here.k - 1 : caseInfo[Case].on[j] = G.live[j] /\ <<Case, j>> \notin copySent
  <2>1. CASE Here.k = 1
    <3>1. idx \in ToCome
      BY <1>1, AdvanceKeeps
    <3>2. ~caseInfo[Case].stale
      BY <1>1, <1>4, <2>1, <3>1 DEF SetupInv, Fresh, Here, Case, G
    <3> QED BY <2>1, <3>2
  <2>2. CASE Here.k > 1
    BY <1>1, <1>4, <1>6, <2>2 DEF SetupInv, Prepared, Reuses
  <2> QED BY <1>3, <2>1, <2>2
<1>9. Building'
  BY <1>1, <1>2, <1>4, NoneBuilt DEF Building
<1>10. Prepared'
  <2> SUFFICES ASSUME AtCase', Here'.k > 1 PROVE Reuses'
    BY DEF Prepared
  <2>1. idx + 1 \in DOMAIN queue /\ Here' = queue[idx + 1] /\ Here'.kind # "own"
    BY <1>2 DEF AtCase
  <2>2. Here.t = Here'.t /\ Here.c = Here'.c /\ Here.k = Here'.k - 1
    BY <1>1, <2>1, GoesOn
  <2>3. Case' = Case /\ G' = G
    BY <1>1, <2>2 DEF Case, G
  <2>4. ASSUME NEW j \in 1..Here'.k - 1
        PROVE  caseInfo'[Case].on[j] = G.live[j] /\ <<Case, j>> \notin copySent
    <3>1. j \in 1..plan[Here.t].setup /\ (j = Here.k \/ j \in 1..Here.k - 1)
      BY <1>3, <2>2
    <3>2. CASE j = Here.k
      BY <1>5, <1>7, <3>1, <3>2
    <3>3. CASE j # Here.k /\ j \in 1..Here.k - 1
      BY <1>5, <1>8, <3>1, <3>3
    <3> QED BY <1>3, <3>1, <3>2, <3>3
  <2> QED BY <1>1, <1>4, <1>5, <1>8, <2>2, <2>3, <2>4 DEF Reuses
<1>11. CleanServes'
  BY <1>1, <1>2, ServesOn
<1> QED BY <1>1, <1>5, <1>9, <1>10, <1>11

-----------------------------------------------------------------------------
(* The steps that send a copy, and those of the plan itself. *)
LEMMA SendCopyKept ==
  ASSUME SetupInv, SendCopy
  PROVE  /\ Fresh' /\ Building' /\ Prepared' /\ SentIsPast' /\ CleanServes' /\ UsedIsOver'
         /\ SetupsAreUntouched'
<1>1. /\ AtHand /\ Here.kind = "copy" /\ FuzzTypes /\ Blocks /\ LeftOnce /\ CleanServes /\ Due(Here)
      /\ UNCHANGED <<plan, queue, idx, sends>> /\ pc = "chosen" /\ pc' = "sent" /\ AtCase
      /\ Case \in Cases /\ ~caseInfo[Case].failed /\ ~G.stopped
      /\ copySent' = copySent \cup {<<Case, Here.k>>}
  <2>1. AtHand /\ Here.kind = "copy" /\ FuzzTypes
    BY DEF SetupInv, Ready, SendCopy, Copying
  <2> QED BY <2>1, AtHandIs DEF SetupInv, Ready, SendCopy, Copying
<1>2. /\ ToCome' = ToCome /\ Left' = Left /\ Here' = Here /\ Case' = Case
      /\ AtHand' /\ AtCase' /\ (\A t, c : StillDue(t, c)' <=> StillDue(t, c))
      /\ Targets' = Targets /\ Cases' = Cases /\ G' = group'[Here.t]
  BY <1>1, StayKeeps, PlanStays DEF G
<1>3. /\ DOMAIN caseInfo = Cases /\ caseInfo[Case] \in InfoOf(Case) /\ Case = <<Here.t, Here.c>>
      /\ DOMAIN group = Targets /\ G \in GroupOf(Here.t)
      /\ Here.k \in 1..plan[Here.t].setup /\ plan[Here.t].setup \in Nat /\ Here \in Items
      /\ Here.t \in Targets /\ Here.c \in 1..plan[Here.t].cases
  BY <1>1, AtHandIs DEF FuzzTypes
<1>4. G.passed
  BY <1>1, <1>3, PieceFacts DEF Due, G
<1>5. ASSUME G.building = Case PROVE Fresh' /\ Building' /\ Prepared' /\ CleanServes'
  <2>1. group' = group /\ caseInfo' = caseInfo
    BY <1>5 DEF SendCopy
  <2>2. Builds
    <3>1. Case # NoCase
      BY <1>3 DEF NoCase
    <3> QED BY <1>3, <1>5, <3>1 DEF SetupInv, Building, G
  <2>3. Fresh'
    BY <1>1, <1>2, <2>1 DEF SetupInv, Fresh
  <2>6. CleanServes'
    BY <1>1, <1>2, <2>1, ServesOn
  <2>4. Building'
    BY <1>1, <1>2, <2>1, <2>2 DEF SetupInv, Building, Builds, G
  <2>5. Prepared'
    BY <1>2, <1>5, <2>1 DEF Prepared, G
  <2> QED BY <2>3, <2>4, <2>5, <2>6
<1>6. ASSUME G.building # Case PROVE Fresh' /\ Building' /\ Prepared' /\ CleanServes'
  <2>1. /\ group' = [group EXCEPT ![Here.t].live = NoLive(Here.t), ![Here.t].clean = FALSE,
                                  ![Here.t].building = Case]
        /\ Give(Case, IF caseInfo[Case].stale THEN "rebuilt" ELSE "fresh", FALSE)
    BY <1>6 DEF SendCopy, G
  <2>2. /\ G'.clean = FALSE /\ G'.building = Case /\ G'.passed = G.passed /\ G'.stopped = G.stopped
        /\ \A t \in Targets \ {Here.t} : group'[t] = group[t]
    BY <1>2, <1>3, <2>1 DEF GroupOf, G
  <2>3. /\ \A c \in Cases \ {Case} : caseInfo'[c] = caseInfo[c]
        /\ caseInfo'[Case].stale = caseInfo[Case].stale /\ caseInfo'[Case].failed = FALSE
        /\ caseInfo'[Case].setup = (IF caseInfo[Case].stale THEN "rebuilt" ELSE "fresh")
    BY <1>1, <1>3, <2>1 DEF InfoOf, Give
  <2>4. Here.k = 1
    <3> SUFFICES ASSUME Here.k > 1 PROVE FALSE
      BY <1>3
    <3>1. Reuses
      BY <1>1, <1>4, <1>6 DEF SetupInv, Prepared
    <3>2. PICK d \in 1..plan[Here.t].cases : Serves(Here.t, d)
      <4>1. plan[Here.t].setup > 0
        BY <1>3
      <4> QED BY <1>1, <1>3, <3>1, <4>1 DEF Reuses, CleanServes, G
    <3>3. G.live[Here.k] = d /\ d # 0
      BY <1>3, <3>2 DEF Serves, G
    <3>4. Reusable
      BY <1>6, <3>1, <3>3 DEF Reusable, Reuses
    <3> QED BY <3>4 DEF SendCopy
  <2>5. Fresh'
    <3> SUFFICES ASSUME NEW n \in ToCome, queue[n].kind # "own", queue[n].k = 1
                 PROVE  LET i == queue[n] c == <<i.t, i.c>> IN
                        ~caseInfo'[c].failed /\ (caseInfo'[c].stale => n = idx /\ ~group'[i.t].clean)
      BY <1>1, <1>2 DEF Fresh
    <3> DEFINE i == queue[n]
               c == <<i.t, i.c>>
    <3>1. i \in Items
      BY <1>1, QueueFacts DEF ToCome
    <3>2. c \in Cases /\ i.t \in Targets
      BY <1>1, <3>1, PieceFacts
    <3>3. ~caseInfo[c].failed /\ (caseInfo[c].stale => n = idx /\ ~group[i.t].clean)
      BY DEF SetupInv, Fresh
    <3> HIDE DEF c, i
    <3>4. ~caseInfo'[c].failed /\ caseInfo'[c].stale = caseInfo[c].stale
      BY <2>3, <3>2, <3>3
    <3>5. ~group[i.t].clean => ~group'[i.t].clean
      BY <1>2, <2>2, <3>2
    <3> QED BY <3>3, <3>4, <3>5 DEF c, i
  <2>6. Building'
    <3>1. ASSUME NEW t \in Targets, group'[t].building # NoCase PROVE t = Here.t
      BY <1>6, <2>2, <3>1, NoneBuilt
    <3>2. Builds'
      BY <1>1, <1>2, <1>3, <1>4, <2>2, <2>3, <2>4 DEF Builds
    <3> QED BY <1>2, <2>2, <3>1, <3>2 DEF Building
  <2>7. Prepared'
    BY <1>2, <2>2 DEF Prepared
  <2>8. CleanServes'
    <3>1. \A t \in Targets : group'[t].clean => group[t].clean /\ group'[t].live = group[t].live
      BY <1>2, <2>2
    <3> QED BY <1>1, <1>2, <3>1, ServesOn
  <2> QED BY <2>5, <2>6, <2>7, <2>8
<1>7. UsedIsOver' /\ SetupsAreUntouched'
  BY <1>1, <1>2, SendsKept
<1>8. SentIsPast'
  <2> SUFFICES ASSUME NEW x \in copySent', x \in Left PROVE Here = CaseItem(x[1][1], x[1][2], x[2])
    BY <1>1, <1>2 DEF SentIsPast, CaseItem, It
  <2>1. x = <<Case, Here.k>>
    BY <1>1 DEF SetupInv, SentIsPast
  <2>2. x[1][1] = Here.t /\ x[1][2] = Here.c /\ x[2] = Here.k
    BY <1>3, <2>1
  <2>3. Here = CaseItem(Here.t, Here.c, Here.k)
    BY <1>1, <1>3, PieceFacts
  <2> QED BY <2>2, <2>3
<1> QED BY <1>5, <1>6, <1>7, <1>8

(* A copy that came off. *)
LEMMA CopyPassedKept ==
  ASSUME SetupInv, CopyAnswered, CopyPassed
  PROVE  /\ \A c \in Cases : (AtCase /\ c = Case) \/ caseInfo'[c] = caseInfo[c]
         /\ Building' /\ Prepared' /\ CleanServes'
<1>1. /\ AtHand /\ Here.kind = "copy" /\ FuzzTypes /\ Blocks /\ LeftOnce /\ CleanServes
      /\ UNCHANGED <<plan, queue, sends, copySent>> /\ idx' = idx + 1 /\ pc = "sent"
      /\ AtCase /\ Case \in Cases /\ G.building = Case /\ <<Case, Here.k>> \in copySent
  <2>1. AtHand /\ Here.kind = "copy" /\ FuzzTypes
    BY DEF SetupInv, Ready, CopyAnswered
  <2> QED BY <2>1, AtHandIs DEF SetupInv, Ready, CopyAnswered, CopyPassed, NextItem
<1>2. Targets' = Targets /\ (AtHand' => idx + 1 \in DOMAIN queue /\ Here' = queue[idx + 1])
      /\ \A t, c : StillDue(t, c)' => StillDue(t, c)
  BY <1>1, AdvanceKeeps, PlanStays
<1>3. /\ DOMAIN caseInfo = Cases /\ caseInfo[Case] \in InfoOf(Case) /\ Case = <<Here.t, Here.c>>
      /\ Case[1] = Here.t /\ DOMAIN group = Targets /\ G \in GroupOf(Here.t)
      /\ Here.k \in 1..plan[Here.t].setup /\ plan[Here.t].setup \in Nat
      /\ Here.t \in Targets /\ Here.c \in 1..plan[Here.t].cases
  BY <1>1, AtHandIs DEF FuzzTypes
<1>4. Builds
  <2>1. Case # NoCase
    BY <1>3 DEF NoCase
  <2> QED BY <1>1, <1>3, <2>1 DEF SetupInv, Building, G
<1>5. /\ \A t \in Targets \ {Here.t} : group'[t] = group[t]
      /\ LET g == group'[Here.t] IN
         /\ g.building = Case /\ g.passed = G.passed /\ g.clean = G.clean /\ g.stopped = G.stopped
         /\ g.live = [G.live EXCEPT ![Here.k] = Here.c]
  <2>1. group' = [group EXCEPT ![Here.t].live[Here.k] = Here.c]
    BY DEF CopyPassed
  <2> QED BY <1>1, <1>3, <2>1 DEF GroupOf, G
<1>6. /\ \A c \in Cases \ {Case} : caseInfo'[c] = caseInfo[c]
      /\ LET i == caseInfo'[Case] IN
         /\ i.setup = caseInfo[Case].setup /\ i.stale = caseInfo[Case].stale
         /\ i.failed = caseInfo[Case].failed /\ i.on = [caseInfo[Case].on EXCEPT ![Here.k] = Here.c]
  BY <1>1, <1>3 DEF CopyPassed, InfoOf
<1>7. DOMAIN G.live = 1..plan[Here.t].setup /\ DOMAIN caseInfo[Case].on = 1..plan[Here.t].setup
  BY <1>3 DEF GroupOf, InfoOf
<1>8. /\ AtCase' /\ Here'.t = Here.t /\ Here'.c = Here.c /\ Here'.k = Here.k + 1
      /\ Case' = Case /\ G' = group'[Here.t]
  <2>1. idx + 1 \in DOMAIN queue /\ queue[idx + 1] = CaseItem(Here.t, Here.c, Here.k + 1)
    BY <1>1, NextPiece
  <2>2. Here.k + 1 \in 1..plan[Here.t].setup + 1
    BY <1>3
  <2>3. LET i == queue[idx + 1] IN i.t = Here.t /\ i.c = Here.c /\ i.k = Here.k + 1 /\ i.kind # "own"
    BY <1>1, <1>3, <2>1, <2>2, Pieces
  <2>4. Here' = queue[idx + 1] /\ AtHand'
    BY <1>1, <2>1, QueueFacts DEF Here, AtHand
  <2> QED BY <2>3, <2>4 DEF AtCase, Case, G
<1>9. Building'
  <2>1. ASSUME NEW j \in 1..Here'.k - 1
        PROVE  caseInfo'[Case].on[j] = Here.c /\ G'.live[j] = Here.c /\ <<Case, j>> \in copySent
    <3>1. j \in 1..plan[Here.t].setup /\ (j = Here.k \/ j \in 1..Here.k - 1)
      BY <1>3, <1>8
    <3>2. CASE j = Here.k
      BY <1>1, <1>5, <1>6, <1>7, <1>8, <3>1, <3>2
    <3>3. CASE j # Here.k /\ j \in 1..Here.k - 1
      <4>1. caseInfo[Case].on[j] = Here.c /\ G.live[j] = Here.c /\ <<Case, j>> \in copySent
        BY <1>4, <3>3 DEF Builds
      <4> QED BY <1>5, <1>6, <1>7, <1>8, <3>1, <3>3, <4>1
    <3> QED BY <3>1, <3>2, <3>3
  <2>2. Builds'
    BY <1>1, <1>4, <1>5, <1>6, <1>8, <2>1 DEF Builds
  <2>3. ASSUME NEW t \in Targets, group'[t].building # NoCase PROVE t = Here.t
    <3>1. t # Here.t => group[t].building # NoCase
      BY <1>5, <2>3
    <3> QED BY <3>1 DEF SetupInv, Building
  <2> QED BY <1>2, <1>5, <1>8, <2>2, <2>3 DEF Building
<1>10. Prepared'
  BY <1>5, <1>8 DEF Prepared
<1>11. CleanServes'
  <2>1. \A t \in Targets : group'[t].clean => group[t].clean /\ group'[t].live = group[t].live
    BY <1>4, <1>5 DEF Builds
  <2> QED BY <1>1, <1>2, <2>1, ServesOn
<1> QED BY <1>1, <1>6, <1>9, <1>10, <1>11

(* A copy that failed. *)
LEMMA CopyFailedKept ==
  ASSUME SetupInv, CopyAnswered, CopyFailed
  PROVE  /\ \A c \in Cases : (AtCase /\ c = Case) \/ caseInfo'[c] = caseInfo[c]
         /\ Building' /\ Prepared' /\ CleanServes'
<1>1. /\ AtHand /\ Here.kind = "copy" /\ FuzzTypes /\ Blocks /\ LeftOnce /\ CleanServes
      /\ UNCHANGED <<plan, queue, sends, copySent>> /\ idx' = idx + 1 /\ pc = "sent"
      /\ AtCase /\ Case \in Cases
  <2>1. AtHand /\ Here.kind = "copy" /\ FuzzTypes
    BY DEF SetupInv, Ready, CopyAnswered
  <2> QED BY <2>1, AtHandIs DEF SetupInv, Ready, CopyAnswered, CopyFailed, NextItem
<1>2. Targets' = Targets /\ (AtHand' => idx + 1 \in DOMAIN queue /\ Here' = queue[idx + 1])
      /\ \A t, c : StillDue(t, c)' => StillDue(t, c)
  BY <1>1, AdvanceKeeps, PlanStays
<1>3. /\ DOMAIN caseInfo = Cases /\ caseInfo[Case] \in InfoOf(Case) /\ Case = <<Here.t, Here.c>>
      /\ DOMAIN group = Targets /\ G \in GroupOf(Here.t) /\ Here.t \in Targets
  BY <1>1, AtHandIs DEF FuzzTypes
<1>4. /\ \A t \in Targets \ {Here.t} : group'[t] = group[t]
      /\ group'[Here.t].building = NoCase /\ ~group'[Here.t].clean
  <2>1. group' = [group EXCEPT ![Here.t] = CountFailure(@)]
    BY DEF CopyFailed
  <2>2. group'[Here.t] = CountFailure(G) /\ \A t \in Targets \ {Here.t} : group'[t] = group[t]
    BY <1>3, <2>1 DEF G
  <2>3. CountFailure(G).building = NoCase /\ ~CountFailure(G).clean
    BY <1>3 DEF CountFailure, GroupOf
  <2> QED BY <2>2, <2>3
<1>5. (\A c \in Cases \ {Case} : caseInfo'[c] = caseInfo[c]) /\ caseInfo'[Case].failed
  BY <1>1, <1>3 DEF CopyFailed, Give, InfoOf
<1>6. Building'
  <2>1. \A t \in Targets : group'[t].building = NoCase
    BY <1>4 DEF SetupInv, Building
  <2> QED BY <1>2, <2>1 DEF Building
<1>7. Prepared'
  <2> SUFFICES ASSUME AtCase', Here'.k > 1 PROVE caseInfo'[Case'].failed
    BY DEF Prepared
  <2>1. idx + 1 \in DOMAIN queue /\ Here' = queue[idx + 1] /\ Here'.kind # "own"
    BY <1>2 DEF AtCase
  <2>2. Here.t = Here'.t /\ Here.c = Here'.c
    BY <1>1, <2>1, GoesOn
  <2>3. Case' = Case
    BY <2>2 DEF Case
  <2> QED BY <1>5, <2>3
<1>8. CleanServes'
  <2>1. \A t \in Targets : group'[t].clean => group[t].clean /\ group'[t].live = group[t].live
    BY <1>4
  <2> QED BY <1>1, <1>2, <2>1, ServesOn
<1> QED BY <1>1, <1>5, <1>6, <1>7, <1>8

(* A copy has just been sent, or a step that is no copy: what is next is none
   of a case that goes on. *)
LEMMA StartsAnew ==
  ASSUME FuzzTypes, Blocks, AtHand, Here.kind # "copy", plan' = plan, queue' = queue, idx' = idx + 1
  PROVE  Prepared'
<1> SUFFICES ASSUME AtCase', Here'.k > 1 PROVE FALSE
  BY DEF Prepared
<1>1. idx + 1 \in DOMAIN queue /\ Here' = queue[idx + 1] /\ Here'.kind # "own"
  <2>1. idx + 1 <= Len(queue) /\ idx \in Nat /\ DOMAIN queue = 1..Len(queue) /\ Len(queue) \in Nat
    BY QueueFacts DEF AtCase, AtHand
  <2> QED BY <2>1 DEF AtCase, Here
<1> QED BY <1>1, GoesOn

(* A target's own step is answered. *)
LEMMA OwnKept ==
  ASSUME SetupInv, OwnAnswered, NextItem
  PROVE  caseInfo' = caseInfo /\ Building' /\ Prepared' /\ CleanServes'
<1>1. /\ AtHand /\ Here.kind = "own" /\ FuzzTypes /\ Blocks /\ LeftOnce /\ CleanServes
      /\ UNCHANGED <<plan, queue, caseInfo, sends, copySent>> /\ idx' = idx + 1 /\ pc = "sent"
      /\ \E through \in BOOLEAN : group' = [group EXCEPT ![Here.t].passed = through]
  BY DEF SetupInv, Ready, OwnAnswered, NextItem, AbortSent, history
<1>2. Targets' = Targets /\ \A t, c : StillDue(t, c)' => StillDue(t, c)
  BY <1>1, AdvanceKeeps, PlanStays
<1>3. \A t \in Targets : /\ group'[t].building = group[t].building /\ group'[t].clean = group[t].clean
                        /\ group'[t].live = group[t].live
  <2>1. DOMAIN group = Targets /\ \A t \in Targets : group[t] \in GroupOf(t)
    BY <1>1 DEF FuzzTypes
  <2> QED BY <1>1, <2>1 DEF GroupOf
<1>4. Building'
  <2>1. ~AtCase
    BY <1>1 DEF AtCase
  <2> QED BY <1>2, <1>3, <2>1, NoneBuilt DEF Building
<1>5. Prepared'
  BY <1>1, StartsAnew
<1>6. CleanServes'
  BY <1>1, <1>2, <1>3, ServesOn
<1> QED BY <1>1, <1>4, <1>5, <1>6

(* A case is reported that was not sent. *)
LEMMA ReportUnsentKept ==
  ASSUME SetupInv, ReportUnsent
  PROVE  caseInfo' = caseInfo /\ Building' /\ Prepared' /\ CleanServes'
<1>1. /\ AtHand /\ Here.kind = "case" /\ FuzzTypes /\ Blocks /\ LeftOnce /\ CleanServes
      /\ UNCHANGED <<plan, queue, group, caseInfo, sends, copySent>> /\ idx' = idx + 1 /\ pc = "chosen"
      /\ caseInfo[Case].failed
  BY DEF SetupInv, Ready, ReportUnsent, NextItem, history
<1>2. Targets' = Targets /\ \A t, c : StillDue(t, c)' => StillDue(t, c)
  BY <1>1, AdvanceKeeps, PlanStays
<1>3. Building'
  <2>1. ~Builds
    BY <1>1 DEF Builds
  <2> QED BY <1>1, <1>2, <2>1, NoneBuilt DEF Building
<1>4. Prepared'
  BY <1>1, StartsAnew
<1>5. CleanServes'
  BY <1>1, <1>2, ServesOn
<1> QED BY <1>1, <1>3, <1>4, <1>5

-----------------------------------------------------------------------------
(* A case is answered. *)
LEMMA CopiesAre ==
  ASSUME FuzzTypes, NEW x \in Copies
  PROVE  /\ x[1] \in Cases /\ x[1][1] \in Targets /\ x[2] \in 1..plan[x[1][1]].setup
         /\ x = <<x[1], x[2]>> /\ x[1] = <<x[1][1], x[1][2]>>
         /\ LET i == CaseItem(x[1][1], x[1][2], x[2]) IN
            i \in Items /\ i.kind = "copy" /\ i.t = x[1][1] /\ i.c = x[1][2] /\ i.k = x[2]
<1>1. PICK c \in Cases : x \in {c} \X (1..plan[c[1]].setup)
  BY DEF Copies
<1>2. PICK t \in Targets : \E n \in 1..plan[t].cases : c = <<t, n>>
  BY CasesAre
<1> PICK n \in 1..plan[t].cases : c = <<t, n>>
  BY <1>2
<1>3. c[1] = t /\ c[2] = n
  OBVIOUS
<1>4. x = <<c, x[2]>> /\ x[1] = c /\ x[2] \in 1..plan[t].setup
  BY <1>1, <1>3
<1>5. plan[t].setup \in Nat
  BY PlanFacts DEF FuzzTypes
<1>6. x[2] \in 1..plan[t].setup + 1
  BY <1>4, <1>5
<1>7. LET i == CaseItem(t, n, x[2]) IN
      i \in Items /\ i.kind = "copy" /\ i.t = t /\ i.c = n /\ i.k = x[2]
  BY <1>4, <1>6, PiecesAre DEF FuzzTypes
<1> QED BY <1>3, <1>4, <1>7

(* A case that is judged leaves its setup in use only if it is harmless; one
   that is rebuilt takes it out of use. *)
LEMMA CaseAnsweredKept ==
  ASSUME SetupInv, CaseAnswered
  PROVE  /\ Fresh' /\ Building' /\ Prepared' /\ SentIsPast' /\ CleanServes' /\ UsedIsOver'
         /\ SetupsAreUntouched'
<1>1. /\ AtHand /\ Here.kind = "case" /\ FuzzTypes /\ Blocks /\ LeftOnce /\ CleanServes /\ UsedIsOver
      /\ UNCHANGED <<plan, copySent>> /\ pc = "sent" /\ AtCase /\ ~caseInfo[Case].failed
  <2>1. AtHand /\ Here.kind = "case" /\ FuzzTypes
    BY DEF SetupInv, Ready, CaseAnswered
  <2> QED BY <2>1, AtHandIs DEF SetupInv, Ready, CaseAnswered
<1>2. /\ DOMAIN caseInfo = Cases /\ Case \in Cases /\ caseInfo[Case] \in InfoOf(Case)
      /\ Case = <<Here.t, Here.c>> /\ Case[1] = Here.t /\ DOMAIN group = Targets /\ G \in GroupOf(Here.t)
      /\ Here.k = plan[Here.t].setup + 1 /\ plan[Here.t].setup \in Nat /\ Here \in Items
      /\ Here.t \in Targets /\ Here.c \in 1..plan[Here.t].cases
      /\ \A t \in Targets : group[t] \in GroupOf(t)
  BY <1>1, AtHandIs DEF FuzzTypes
<1>3. PICK a \in Answer :
        /\ sends' = Append(sends, Ran(a))
        /\ \/ pc' = "aborted" /\ UNCHANGED <<queue, idx, group, caseInfo>>
           \/ NextItem /\ IF Rebuilds(a) THEN Rebuild ELSE CaseJudged(a)
  BY DEF CaseAnswered, AbortSent
<1> DEFINE r == Ran(a)
           s == plan[Here.t].setup
           L == Len(sends)
<1>4. /\ L \in Nat /\ DOMAIN sends = 1..L /\ DOMAIN sends' = 1..L + 1
      /\ \A i \in 1..L : sends'[i] = sends[i]
      /\ sends'[L + 1] = r
  BY <1>1, <1>3, AppendProperties, LenProperties DEF FuzzTypes
<1>5. r.case = Case /\ r.case[1] = Here.t /\ r.on = {caseInfo[Case].on[k] : k \in 1..s} /\ r.answer = a
  BY <1>2 DEF Ran
<1>6. Targets' = Targets /\ Cases' = Cases /\ Copies' = Copies
  BY <1>1, PlanStays
<1>7. \A x : Harmless(x)' <=> Harmless(x)
  BY <1>1 DEF Harmless
<1>8. ASSUME s > 0
      PROVE  \E d \in 1..plan[Here.t].cases :
               /\ r.on = {d} /\ \A k \in 1..s : G.live[k] = d
               /\ {<<Here.t, d>>} \X (1..s) \subseteq copySent
               /\ \A i \in 1..L : sends[i].case[1] = Here.t /\ sends[i].on = {d} => Harmless(sends[i])
               /\ \/ d = Here.c /\ G.building = Case /\ Builds
                  \/ d # Here.c /\ ~StillDue(Here.t, d) /\ Reuses
  BY <1>1, <1>4, <1>5, <1>8, CaseRuns
<1> HIDE DEF r, L, s
<1>9. SetupsAreUntouched'
  <2> SUFFICES ASSUME NEW i \in 1..L + 1, plan[sends'[i].case[1]].setup > 0
               PROVE  LET t == sends'[i].case[1] IN
                      /\ \E d \in 1..plan[t].cases :
                           sends'[i].on = {d} /\ {<<t, d>>} \X (1..plan[t].setup) \subseteq copySent
                      /\ \A j \in 1..i - 1 :
                           sends'[j].case[1] = t /\ sends'[j].on = sends'[i].on => Harmless(sends'[j])
    BY <1>1, <1>4, <1>7 DEF SetupsAreUntouched, Harmless
  <2>1. CASE i \in 1..L
    <3> DEFINE t == sends[i].case[1]
    <3>1. sends'[i] = sends[i] /\ \A j \in 1..i - 1 : sends'[j] = sends[j]
      BY <1>4, <2>1
    <3>2. /\ \E d \in 1..plan[t].cases :
               sends[i].on = {d} /\ {<<t, d>>} \X (1..plan[t].setup) \subseteq copySent
          /\ \A j \in 1..i - 1 :
               sends[j].case[1] = t /\ sends[j].on = sends[i].on => Harmless(sends[j])
      BY <1>4, <2>1, <3>1 DEF SetupInv, SetupsAreUntouched
    <3> QED BY <3>1, <3>2
  <2>2. CASE i = L + 1
    <3>1. sends'[i] = r /\ i - 1 = L /\ s > 0
      BY <1>4, <1>5, <2>2 DEF s
    <3> QED BY <1>4, <1>5, <1>8, <3>1 DEF s
  <2> QED BY <1>4, <2>1, <2>2
<1>10. CASE pc' = "aborted" /\ UNCHANGED <<queue, idx, group, caseInfo>>
  <2>1. /\ ToCome' = ToCome /\ Left' = Left /\ Here' = Here /\ Case' = Case /\ G' = G
        /\ (AtHand <=> AtHand') /\ (AtCase <=> AtCase')
    BY <1>1, <1>10, StayKeeps DEF G
  <2>2. Fresh' /\ Building' /\ Prepared'
    BY <1>6, <1>10, <1>1, <2>1 DEF SetupInv, Fresh, Building, Builds, Prepared, Reuses
  <2>3. SentIsPast'
    BY <1>1, <1>10, <2>1 DEF SetupInv, SentIsPast, CaseItem, It
  <2>4. CleanServes' /\ UsedIsOver'
    BY <1>10 DEF CleanServes, UsedIsOver
  <2> QED BY <1>9, <2>2, <2>3, <2>4
(* The rest of the run goes on from its answer. *)
<1>11. ASSUME \A t, c : StillDue(t, c)' => StillDue(t, c),
              G.building = Case /\ Builds => \A t, c : StillDue(t, c)' => ~(t = Here.t /\ c = Here.c)
       PROVE  UsedIsOver'
  <2> SUFFICES ASSUME NEW i \in 1..L + 1, NEW t, t = sends'[i].case[1], NEW d \in 1..plan[t].cases,
                      plan[t].setup > 0, sends'[i].on = {d}
               PROVE  ~StillDue(t, d)'
    BY <1>1, <1>4 DEF UsedIsOver
  <2>1. CASE i \in 1..L
    <3>1. sends[i].case[1] = t /\ sends[i].on = {d} /\ i \in DOMAIN sends
      BY <1>4, <2>1
    <3>2. ~StillDue(t, d)
      BY <1>1, <3>1 DEF UsedIsOver
    <3> QED BY <1>11, <3>2
  <2>2. CASE i = L + 1
    <3>1. sends'[i] = r /\ t = Here.t /\ s > 0
      BY <1>4, <1>5, <2>2 DEF s
    <3>2. r.on = {d}
      BY <3>1
    <3>3. (d = Here.c /\ G.building = Case /\ Builds) \/ ~StillDue(t, d)
      BY <1>8, <3>1, <3>2
    <3> QED BY <1>11, <3>1, <3>3
  <2> QED BY <1>4, <2>1, <2>2
<1>12. ASSUME \A t, c : StillDue(t, c)' => StillDue(t, c),
              NEW t \in Targets, t # Here.t, group'[t] = group[t], group[t].clean, plan[t].setup > 0
       PROVE  \E d \in 1..plan[t].cases : Serves(t, d)'
  <2>1. PICK d \in 1..plan[t].cases : Serves(t, d)
    BY <1>1, <1>12 DEF CleanServes
  <2>2. \A i \in 1..L + 1 : sends'[i].case[1] = t /\ sends'[i].on = {d} => Harmless(sends'[i])
    <3> SUFFICES ASSUME NEW i \in 1..L + 1, sends'[i].case[1] = t, sends'[i].on = {d}
                 PROVE  Harmless(sends'[i])
      OBVIOUS
    <3>1. i \in 1..L
      BY <1>4, <1>5, <1>12
    <3> QED BY <1>4, <2>1, <3>1 DEF Serves
  <2>3. Serves(t, d)'
    BY <1>1, <1>4, <1>7, <1>12, <2>1, <2>2 DEF Serves, Harmless
  <2> QED BY <2>3
<1>13. CASE NextItem /\ ~Rebuilds(a) /\ CaseJudged(a)
  <2>1. /\ UNCHANGED <<queue, caseInfo>> /\ idx' = idx + 1
        /\ group' = [group EXCEPT ![Here.t].failures = 0, ![Here.t].building = NoCase,
                                  ![Here.t].clean = LeavesClean(a)]
    BY <1>13 DEF CaseJudged, NextItem
  <2>2. /\ \A t \in Targets \ {Here.t} : group'[t] = group[t]
        /\ LET g == group'[Here.t] IN g.building = NoCase /\ g.live = G.live /\ g.clean = LeavesClean(a)
    BY <1>2, <2>1 DEF GroupOf, G
  <2>3. /\ \A t, c : StillDue(t, c)' => StillDue(t, c)
        /\ \A t, c : StillDue(t, c)' => ~(t = Here.t /\ c = Here.c)
    BY <1>1, <2>1, AdvanceKeeps
  <2>4. Fresh' /\ SentIsPast'
    BY <1>1, <2>1, MoveKept
  <2>5. Prepared'
    BY <1>1, <2>1, StartsAnew
  <2>6. Building'
    <3>1. \A t \in Targets : group'[t].building = NoCase
      BY <2>2 DEF SetupInv, Building
    <3> QED BY <1>6, <3>1 DEF Building
  <2>7. CleanServes'
    <3>1. ASSUME NEW t \in Targets, t = Here.t, group'[t].clean, s > 0
          PROVE  \E d \in 1..plan[t].cases : Serves(t, d)'
      <4>1. PICK d \in 1..plan[t].cases :
               /\ r.on = {d} /\ \A k \in 1..s : G.live[k] = d
               /\ {<<t, d>>} \X (1..s) \subseteq copySent
               /\ \A i \in 1..L : sends[i].case[1] = t /\ sends[i].on = {d} => Harmless(sends[i])
               /\ d = Here.c \/ ~StillDue(t, d)
        BY <1>8, <3>1
      <4>2. Harmless(r)
        BY <1>5, <2>2, <3>1 DEF LeavesClean, Harmless, Refused
      <4>3. \A i \in 1..L + 1 : sends'[i].case[1] = t /\ sends'[i].on = {d} => Harmless(sends'[i])
        BY <1>4, <4>1, <4>2
      <4>4. ~StillDue(t, d)'
        BY <2>3, <3>1, <4>1
      <4>5. \A k \in 1..plan[t].setup : group'[t].live[k] = d
        BY <2>2, <3>1, <4>1 DEF s
      <4>6. Serves(t, d)'
        BY <1>1, <1>4, <1>7, <3>1, <4>1, <4>3, <4>4, <4>5 DEF Serves, Harmless, s
      <4> QED BY <4>6
    <3>2. ASSUME NEW t \in Targets, group'[t].clean, plan[t].setup > 0
          PROVE  \E d \in 1..plan[t].cases : Serves(t, d)'
      <4>1. CASE t = Here.t
        BY <3>1, <3>2, <4>1 DEF s
      <4>2. CASE t # Here.t
        BY <1>12, <2>2, <2>3, <3>2, <4>2
      <4> QED BY <4>1, <4>2
    <3> QED BY <1>1, <1>6, <3>2 DEF CleanServes
  <2>8. UsedIsOver'
    BY <1>11, <2>3
  <2> QED BY <1>9, <2>4, <2>5, <2>6, <2>7, <2>8
<1>14. CASE NextItem /\ Rebuilds(a) /\ Rebuild
  <2>1. /\ queue' = Again /\ idx' = idx + 1 /\ pc' = "next"
        /\ group' = [group EXCEPT ![Here.t].clean = FALSE]
        /\ caseInfo' = [caseInfo EXCEPT ![Case].stale = TRUE]
        /\ caseInfo[Case].setup = "reused" /\ s > 0
    BY <1>14 DEF NextItem, Rebuild, Rebuilds, s
  <2>2. /\ \A t \in Targets \ {Here.t} : group'[t] = group[t]
        /\ ~group'[Here.t].clean /\ group'[Here.t].building = G.building
    BY <1>2, <2>1 DEF GroupOf, G
  <2>3. /\ \A c \in Cases \ {Case} : caseInfo'[c] = caseInfo[c]
        /\ ~caseInfo'[Case].failed
    BY <1>1, <1>2, <2>1 DEF InfoOf
  <2> PICK w \in Nat : w = plan[Here.t].setup + 1
    BY <1>2
  <2>4. /\ \A t, c : StillDue(t, c)' => StillDue(t, c)
        /\ Here' = CaseItem(Here.t, Here.c, 1)
        /\ \A n \in ToCome' :
             \/ n - idx \in 1..w /\ queue'[n] = CaseItem(Here.t, Here.c, n - idx)
             \/ /\ n - w \in ToCome /\ n - w # idx /\ queue'[n] = queue[n - w]
                /\ ~(queue'[n].t = Here.t /\ queue'[n].c = Here.c)
    BY <1>1, <2>1, AgainKeeps
  <2>5. \A k \in 1..w : LET i == CaseItem(Here.t, Here.c, k) IN i.t = Here.t /\ i.c = Here.c /\ i.k = k
    BY <1>1, <1>2, Pieces
  <2>6. ~Builds /\ Reuses
    <3>1. ~Builds
      BY <2>1 DEF Builds
    <3> QED BY <1>8, <2>1, <3>1
  <2>7. Fresh'
    <3> SUFFICES ASSUME NEW n \in ToCome', queue'[n].kind # "own", queue'[n].k = 1
                 PROVE  LET i == queue'[n] c == <<i.t, i.c>> IN
                        ~caseInfo'[c].failed /\ (caseInfo'[c].stale => n = idx + 1 /\ ~group'[i.t].clean)
      BY <2>1 DEF Fresh
    <3>1. CASE n - idx \in 1..w /\ queue'[n] = CaseItem(Here.t, Here.c, n - idx)
      <4>1. queue'[n].t = Here.t /\ queue'[n].c = Here.c /\ n - idx = 1
        BY <2>5, <3>1
      <4>2. n \in Int /\ idx \in Int
        <5>1. queue' \in Seq(Items) /\ idx \in Int
          BY <1>1, <2>1, AgainIs DEF FuzzTypes
        <5> QED BY <5>1, LenProperties DEF ToCome
      <4>3. n = idx + 1
        BY <4>1, <4>2
      <4> QED BY <1>2, <2>2, <2>3, <4>1, <4>3
    <3>2. CASE /\ n - w \in ToCome /\ n - w # idx /\ queue'[n] = queue[n - w]
               /\ ~(queue'[n].t = Here.t /\ queue'[n].c = Here.c)
      <4> DEFINE i == queue'[n]
                 c == <<i.t, i.c>>
      <4>1. ~caseInfo[c].failed /\ ~caseInfo[c].stale
        BY <3>2 DEF SetupInv, Fresh
      <4>2. i \in Items /\ i.kind # "own"
        BY <1>1, <3>2, QueueFacts DEF ToCome
      <4>3. c \in Cases /\ c # Case
        BY <1>1, <1>2, <3>2, <4>2, PieceFacts
      <4> QED BY <2>3, <4>1, <4>3
    <3> QED BY <2>4, <3>1, <3>2
  <2>8. Building'
    <3>1. \A t \in Targets : group'[t].building = NoCase
      BY <1>2, <2>2, <2>6, NoneBuilt DEF G
    <3> QED BY <1>6, <3>1 DEF Building
  <2>9. Prepared'
    <3>1. Here'.k = 1
      BY <1>2, <2>4, <2>5
    <3> QED BY <3>1 DEF Prepared
  <2>10. SentIsPast'
    <3> SUFFICES ASSUME NEW x \in copySent, x \in Left' PROVE FALSE
      BY <1>1 DEF SentIsPast
    <3>1. PICK n \in ToCome' : queue'[n] = CaseItem(x[1][1], x[1][2], x[2])
      BY <1>1 DEF Left, CaseItem, It
    <3>2. /\ x \in Copies /\ x = <<x[1], x[2]>> /\ x[1] = <<x[1][1], x[1][2]>>
          /\ x[2] \in 1..plan[x[1][1]].setup
          /\ LET i == queue'[n] IN i.kind = "copy" /\ i.t = x[1][1] /\ i.c = x[1][2] /\ i.k = x[2]
      BY <1>1, <3>1, CopiesAre DEF FuzzTypes
    <3>3. CASE n - idx \in 1..w /\ queue'[n] = CaseItem(Here.t, Here.c, n - idx)
      <4>1. x = <<Case, x[2]>> /\ x[2] \in 1..plan[Here.t].setup
        BY <1>2, <2>5, <3>2, <3>3
      <4>2. x[2] \in 1..Here.k - 1
        BY <1>2, <4>1
      <4> QED BY <2>6, <4>1, <4>2 DEF Reuses
    <3>4. CASE n - w \in ToCome /\ queue'[n] = queue[n - w]
      <4>1. x \in Left
        BY <3>1, <3>2, <3>4 DEF Left
      <4>2. Here = CaseItem(x[1][1], x[1][2], x[2])
        BY <4>1 DEF SetupInv, SentIsPast
      <4> QED BY <1>1, <3>1, <3>2, <4>2
    <3> QED BY <2>4, <3>3, <3>4
  <2>11. CleanServes'
    <3>1. ASSUME NEW t \in Targets, group'[t].clean, plan[t].setup > 0
          PROVE  \E d \in 1..plan[t].cases : Serves(t, d)'
      <4>1. t # Here.t /\ group'[t] = group[t]
        BY <2>2, <3>1
      <4> QED BY <1>12, <2>4, <3>1, <4>1
    <3> QED BY <1>1, <1>6, <3>1 DEF CleanServes
  <2>12. UsedIsOver'
    BY <1>11, <2>4, <2>6
  <2> QED BY <1>9, <2>7, <2>8, <2>9, <2>10, <2>11, <2>12
<1> QED BY <1>3, <1>10, <1>13, <1>14

-----------------------------------------------------------------------------
(* The setups. *)
LEMMA ReadyKept ==
  ASSUME SetupInv, [Next]_vars
  PROVE  Ready'
<1> USE DEF history
<1>1. FuzzTypes /\ Ready /\ plan' = plan
  BY StepsAre DEF SetupInv
<1>2. CASE pc' \in {"next", "done", "aborted"}
  BY <1>2 DEF Ready
<1>3. CASE UNCHANGED <<queue, idx, group, caseInfo, copySent, end>> /\ pc' = pc
  <2>1. Here' = Here /\ Case' = Case /\ G' = G /\ (AtHand <=> AtHand') /\ (Due(Here)' <=> Due(Here))
    BY <1>1, <1>3 DEF Here, Case, G, AtHand, Due, RunsAfterPlan
  <2> QED BY <1>1, <1>3, <2>1 DEF Ready
<1>4. CASE Choose \/ QueueEnds \/ Verify
  <2>1. Here' = Here /\ (AtHand <=> AtHand') /\ (Due(Here)' <=> Due(Here))
        /\ UNCHANGED <<queue, idx, group, caseInfo, copySent, end>>
    BY <1>1, <1>4 DEF Choose, QueueEnds, Verify, Here, AtHand, Due, RunsAfterPlan
  <2>2. idx \in Nat /\ Len(queue) \in Nat
    BY <1>1, QueueFacts
  <2> QED BY <1>1, <1>4, <2>1, <2>2 DEF Choose, QueueEnds, Verify, Ready, AtHand
<1>5. CASE SendOwn \/ SendCase
  <2>1. Here' = Here /\ Case' = Case /\ (AtHand <=> AtHand') /\ (Due(Here)' <=> Due(Here))
        /\ UNCHANGED <<queue, idx, group, caseInfo, copySent, end>>
    BY <1>1, <1>5 DEF SendOwn, SendCase, Here, Case, AtHand, Due, RunsAfterPlan
  <2> QED BY <1>1, <1>5, <2>1 DEF SendOwn, SendCase, Ready
<1>6. CASE SendCopy
  <2>1. AtHand /\ Here.kind = "copy" /\ Due(Here)
    BY <1>1, <1>6 DEF SendCopy, Copying, Ready
  <2>2. Here.t \in Targets /\ G \in GroupOf(Here.t) /\ DOMAIN group = Targets
    BY <1>1, <2>1, AtHandIs DEF FuzzTypes
  <2>3. Here' = Here /\ Case' = Case /\ AtHand' /\ G' = group'[Here.t]
        /\ end' = end /\ pc' = "sent" /\ <<Case, Here.k>> \in copySent'
    BY <1>1, <1>6, <2>1 DEF SendCopy, Here, Case, AtHand, G
  <2>4. group'[Here.t].passed = G.passed /\ group'[Here.t].building = Case
    <3>1. CASE G.building = Case
      BY <1>6, <3>1 DEF SendCopy, G
    <3>2. CASE G.building # Case
      <4>1. PICK t : t = Here.t
        OBVIOUS
      <4>2. PICK c : c = Case
        OBVIOUS
      <4>3. PICK l : l = NoLive(t)
        OBVIOUS
      <4>4. group' = [group EXCEPT ![t].live = l, ![t].clean = FALSE, ![t].building = c]
        BY <1>6, <3>2, <4>1, <4>2, <4>3 DEF SendCopy
      <4>5. t \in DOMAIN group /\ group[t] \in GroupOf(t) /\ G = group[t]
        BY <2>2, <4>1 DEF G
      <4>6. group'[t].passed = group[t].passed /\ group'[t].building = c
        BY <4>4, <4>5 DEF GroupOf
      <4> QED BY <4>1, <4>2, <4>5, <4>6
    <3> QED BY <3>1, <3>2
  <2>5. Due(Here)'
    BY <1>1, <2>1, <2>3, <2>4 DEF Due, RunsAfterPlan, G
  <2> QED BY <2>1, <2>3, <2>4, <2>5 DEF Ready
<1>7. CASE SkipStopped \/ SkipFailed \/ Reuse \/ CopyAnswered \/ OwnAnswered \/ ReportUnsent \/ CaseAnswered
  <2>1. pc' \in {"next", "aborted"}
    BY <1>7 DEF SkipStopped, SkipFailed, Reuse, CopyAnswered, OwnAnswered, ReportUnsent, CaseAnswered,
                CopyPassed, CopyFailed, AbortSent, NextItem
  <2> QED BY <1>2, <2>1
<1>8. CASE PassOver \/ AbortBetween
  BY <1>2, <1>8 DEF PassOver, AbortBetween
<1>9. CASE Interrupt \/ Returned \/ UNCHANGED vars
  BY <1>3, <1>9 DEF Interrupt, Returned, vars
<1> QED BY <1>4, <1>5, <1>6, <1>7, <1>8, <1>9 DEF Next, Progress

(* SetupInv holds after any step. *)
LEMMA SetupKept ==
  ASSUME SetupInv, [Next]_vars
  PROVE  SetupInv'
<1> USE DEF history
<1> DEFINE Kept == /\ Fresh' /\ Building' /\ Prepared' /\ SentIsPast' /\ CleanServes' /\ UsedIsOver'
                   /\ SetupsAreUntouched'
<1>1. FuzzTypes'
  BY TypesKept DEF SetupInv
<1>2. Blocks' /\ LeftOnce' /\ \A t, c : StillDue(t, c)' => StillDue(t, c)
  BY QueueKept
<1>3. Ready'
  BY ReadyKept
<1>4. plan' = plan /\ (pc \in {"chosen", "sent"} => AtHand)
  BY StepsAre DEF SetupInv, Ready
<1>5. ASSUME AtHand, UNCHANGED <<queue, sends, copySent>>, idx' = idx + 1, pc # "aborted",
             \A c \in Cases : (AtCase /\ c = Case) \/ caseInfo'[c] = caseInfo[c],
             Building' /\ Prepared' /\ CleanServes'
      PROVE  Kept
  <2>1. Fresh' /\ SentIsPast'
    BY <1>4, <1>5, MoveKept
  <2>2. UsedIsOver' /\ SetupsAreUntouched'
    BY <1>2, <1>4, <1>5, SendsKept
  <2> QED BY <1>5, <2>1, <2>2
<1>6. ASSUME \/ Interrupt \/ AbortBetween \/ Choose \/ QueueEnds \/ Verify \/ SendOwn \/ SendCase
             \/ Returned \/ UNCHANGED vars
      PROVE  Kept
  <2>1. /\ UNCHANGED <<plan, queue, idx, group, caseInfo, sends, copySent>>
        /\ pc = "sent" => pc' \in {"sent", "aborted"}
        /\ pc = "aborted" => pc' = "aborted"
    BY <1>6 DEF Interrupt, AbortBetween, Choose, QueueEnds, Verify, SendOwn, SendCase, Returned, vars
  <2> QED BY <2>1, QuietKept
<1>7. ASSUME PassOver
      PROVE  Kept
  <2>1. AtHand /\ UNCHANGED <<queue, caseInfo, sends, copySent>> /\ idx' = idx + 1 /\ pc # "aborted"
    BY <1>7 DEF PassOver, AtHand
  <2> QED BY <1>5, <1>7, <2>1, PassOverKept
<1>8. ASSUME SkipStopped \/ SkipFailed
      PROVE  Kept
  <2>1. AtHand /\ UNCHANGED <<queue, sends, copySent>> /\ idx' = idx + 1 /\ pc # "aborted"
    BY <1>4, <1>8 DEF SkipStopped, SkipFailed, Copying, NextItem
  <2> QED BY <1>5, <1>8, <2>1, SkipKept
<1>9. ASSUME Reuse
      PROVE  Kept
  <2>1. AtHand /\ UNCHANGED <<queue, sends, copySent>> /\ idx' = idx + 1 /\ pc # "aborted"
    BY <1>4, <1>9 DEF Reuse, Copying, NextItem
  <2> QED BY <1>5, <1>9, <2>1, ReuseKept
<1>10. ASSUME SendCopy
       PROVE  Kept
  BY <1>10, SendCopyKept
<1>11. ASSUME CopyAnswered
       PROVE  Kept
  <2>1. AtHand /\ UNCHANGED <<queue, sends, copySent>> /\ pc = "sent"
    BY <1>4, <1>11 DEF CopyAnswered
  <2>2. CASE CopyPassed
    BY <1>5, <1>11, <2>1, <2>2, CopyPassedKept DEF CopyPassed, NextItem
  <2>3. CASE CopyFailed
    BY <1>5, <1>11, <2>1, <2>3, CopyFailedKept DEF CopyFailed, NextItem
  <2>4. CASE AbortSent("none")
    BY <1>4, <2>1, <2>4, QuietKept DEF AbortSent
  <2>5. CopyPassed \/ CopyFailed \/ AbortSent("none")
    BY <1>11 DEF CopyAnswered
  <2> QED BY <2>2, <2>3, <2>4, <2>5
<1>12. ASSUME OwnAnswered
       PROVE  Kept
  <2>1. AtHand /\ UNCHANGED <<queue, sends, copySent>> /\ pc = "sent"
    BY <1>4, <1>12 DEF OwnAnswered
  <2>2. CASE NextItem
    BY <1>5, <1>12, <2>1, <2>2, OwnKept DEF NextItem
  <2>3. CASE AbortSent("none")
    BY <1>4, <2>1, <2>3, QuietKept DEF AbortSent
  <2> QED BY <1>12, <2>2, <2>3 DEF OwnAnswered
<1>13. ASSUME ReportUnsent
       PROVE  Kept
  <2>1. AtHand /\ UNCHANGED <<queue, sends, copySent>> /\ idx' = idx + 1 /\ pc # "aborted"
    BY <1>4, <1>13 DEF ReportUnsent, NextItem
  <2> QED BY <1>5, <1>13, <2>1, ReportUnsentKept
<1>14. ASSUME CaseAnswered
       PROVE  Kept
  BY <1>14, CaseAnsweredKept
<1>15. Kept
  BY <1>6, <1>7, <1>8, <1>9, <1>10, <1>11, <1>12, <1>13, <1>14 DEF Next, Progress
<1> QED BY <1>1, <1>2, <1>3, <1>15 DEF SetupInv

(* Every case that is sent runs on one whole setup, its own or that of an
   earlier case of its target, which nothing that was sent on it since can have
   changed (engine/fuzz.go beforeSetupCopy, rebuild, caseJudged). *)
THEOREM SetupsStayUntouched == Spec => []SetupsAreUntouched
<1>1. SetupInv => SetupsAreUntouched
  BY DEF SetupInv
<1>2. SetupInv /\ [Next]_vars => SetupInv'
  BY SetupKept
<1> QED BY <1>1, <1>2, SetupStarts, PTL DEF Spec

-----------------------------------------------------------------------------
(* The copies that are still to come. *)
AtCopy == <<Case, Here.k>>
Row == {Case} \X (1..plan[Here.t].setup)

(* The copy at hand is still to come. *)
LEMMA AtCopyIs ==
  ASSUME FuzzTypes, AtHand, Here.kind = "copy"
  PROVE  /\ AtCopy \in Left /\ Here = CaseItem(Here.t, Here.c, Here.k)
         /\ AtCopy[1] = Case /\ AtCopy[1][1] = Here.t /\ AtCopy[1][2] = Here.c /\ AtCopy[2] = Here.k
         /\ RunsAfterPlan(Here)
<1>1. Here \in Items /\ Here.kind # "own" /\ AtCopy \in Copies /\ Case = <<Here.t, Here.c>>
  BY AtHandIs DEF AtCopy
<1>2. Here = CaseItem(Here.t, Here.c, Here.k) /\ RunsAfterPlan(Here)
  BY <1>1, PieceFacts
<1>3. AtCopy[1] = Case /\ AtCopy[1][1] = Here.t /\ AtCopy[1][2] = Here.c /\ AtCopy[2] = Here.k
  BY <1>1 DEF AtCopy
<1>4. idx \in ToCome /\ queue[idx] = Here
  BY QueueFacts DEF ToCome, Here
<1> QED BY <1>1, <1>2, <1>3, <1>4 DEF Left

(* The copies left after a move to the next piece. *)
LEMMA LeftAdvances ==
  ASSUME plan' = plan, queue' = queue, idx' = idx + 1, FuzzTypes, AtHand, Blocks, LeftOnce
  PROVE  Left' = IF Here.kind = "copy" THEN Left \ {AtCopy} ELSE Left
<1>1. ToCome' = ToCome \ {idx} /\ idx \in ToCome /\ Copies' = Copies
  BY AdvanceKeeps, PlanStays
<1>2. \A x : CaseItem(x[1][1], x[1][2], x[2])' = CaseItem(x[1][1], x[1][2], x[2])
  BY DEF CaseItem, It
<1>3. Left' = {x \in Copies : \E n \in ToCome \ {idx} : queue[n] = CaseItem(x[1][1], x[1][2], x[2])}
  BY <1>1, <1>2 DEF Left
<1>4. CASE Here.kind = "copy"
  <2>1. \A x \in Copies : CaseItem(x[1][1], x[1][2], x[2]) = Here => x = AtCopy
    <3> SUFFICES ASSUME NEW x \in Copies, CaseItem(x[1][1], x[1][2], x[2]) = Here PROVE x = AtCopy
      OBVIOUS
    <3> QED BY CopiesAre DEF AtCopy, Case
  <2>2. AtCopy \in Left /\ Here = CaseItem(AtCopy[1][1], AtCopy[1][2], AtCopy[2])
    BY <1>4, AtCopyIs
  <2>3. \A n \in ToCome : queue[n] = Here => n = idx
    BY <1>1 DEF LeftOnce, Here
  <2>4. AtCopy \notin Left'
    BY <1>3, <2>2, <2>3
  <2>5. ASSUME NEW x \in Left, x # AtCopy PROVE x \in Left'
    <3> PICK n \in ToCome : queue[n] = CaseItem(x[1][1], x[1][2], x[2])
      BY DEF Left
    <3>1. x \in Copies /\ n # idx
      BY <2>1, <2>5 DEF Left, Here
    <3> QED BY <1>3, <3>1
  <2> QED BY <1>3, <1>4, <2>4, <2>5 DEF Left
<1>5. CASE Here.kind # "copy"
  <2>1. \A x \in Copies : CaseItem(x[1][1], x[1][2], x[2]) # Here
    BY <1>5, CopiesAre
  <2> QED BY <1>3, <1>5, <2>1 DEF Left, Here
<1> QED BY <1>4, <1>5

(* The copies left after a case is sent again. *)
LEMMA LeftAgain ==
  ASSUME plan' = plan, queue' = Again, idx' = idx + 1,
         FuzzTypes, AtHand, Here.kind = "case", Blocks, LeftOnce
  PROVE  Row \subseteq Copies /\ Left' = Left \cup Row /\ Left \cap Row = {}
<1>1. /\ Here \in Items /\ AtCase /\ Case \in Cases /\ Case = <<Here.t, Here.c>> /\ Case[1] = Here.t /\ Case[2] = Here.c
      /\ Here.t \in Targets /\ Here.c \in 1..plan[Here.t].cases
      /\ plan[Here.t].setup \in Nat /\ Here.k = plan[Here.t].setup + 1
  BY AtHandIs
<1>2. Row \subseteq Copies
  BY <1>1 DEF Row, Copies
<1> PICK w \in Nat : w = plan[Here.t].setup + 1
  BY <1>1
<1>3. /\ \A k \in 1..w : idx + k \in ToCome' /\ queue'[idx + k] = CaseItem(Here.t, Here.c, k)
      /\ \A n \in ToCome : n # idx => n + w \in ToCome' /\ queue'[n + w] = queue[n]
      /\ \A n \in ToCome' :
           \/ n - idx \in 1..w /\ queue'[n] = CaseItem(Here.t, Here.c, n - idx)
           \/ n - w \in ToCome /\ n - w # idx /\ queue'[n] = queue[n - w]
  BY AgainKeeps
<1>4. \A k \in 1..w : LET i == CaseItem(Here.t, Here.c, k) IN i.t = Here.t /\ i.c = Here.c /\ i.k = k
  BY <1>1, Pieces
<1>5. Copies' = Copies /\ \A x : CaseItem(x[1][1], x[1][2], x[2])' = CaseItem(x[1][1], x[1][2], x[2])
  BY PlanStays DEF CaseItem, It
<1>6. Left' = {x \in Copies : \E n \in ToCome' : queue'[n] = CaseItem(x[1][1], x[1][2], x[2])}
  BY <1>5 DEF Left
<1>7. ASSUME NEW x \in Left' PROVE x \in Left \cup Row
  <2> PICK n \in ToCome' : queue'[n] = CaseItem(x[1][1], x[1][2], x[2])
    BY <1>6
  <2>1. x \in Copies
    BY <1>6
  <2>2. CASE n - idx \in 1..w /\ queue'[n] = CaseItem(Here.t, Here.c, n - idx)
    <3>1. /\ x = <<x[1], x[2]>> /\ x[1] = <<x[1][1], x[1][2]>> /\ x[2] \in 1..plan[x[1][1]].setup
          /\ x[1][1] = Here.t /\ x[1][2] = Here.c
      <4>1. queue'[n].t = Here.t /\ queue'[n].c = Here.c
        BY <1>4, <2>2
      <4>2. queue'[n].t = x[1][1] /\ queue'[n].c = x[1][2]
        BY <2>1, CopiesAre
      <4>3. x = <<x[1], x[2]>> /\ x[1] = <<x[1][1], x[1][2]>> /\ x[2] \in 1..plan[x[1][1]].setup
        BY <2>1, CopiesAre
      <4> QED BY <4>1, <4>2, <4>3
    <3> QED BY <1>1, <3>1 DEF Row
  <2>3. CASE n - w \in ToCome /\ queue'[n] = queue[n - w]
    BY <2>1, <2>3 DEF Left
  <2> QED BY <1>3, <2>2, <2>3
<1>8. ASSUME NEW x \in Row PROVE x \in Left'
  <2>1. x \in Copies /\ x[1][1] = Here.t /\ x[1][2] = Here.c /\ x[2] \in 1..w
    BY <1>1, <1>2 DEF Row
  <2> QED BY <1>3, <1>6, <2>1
<1>9. ASSUME NEW x \in Left PROVE x \in Left' /\ x \notin Row
  <2> PICK n \in ToCome : queue[n] = CaseItem(x[1][1], x[1][2], x[2])
    BY DEF Left
  <2>1. x \in Copies
    BY DEF Left
  <2>2. LET i == queue[n] IN i.kind = "copy" /\ i.t = x[1][1] /\ i.c = x[1][2] /\ i.k = x[2]
    BY <2>1, CopiesAre
  <2>3. n # idx
    BY <2>2 DEF Here
  <2>4. x \in Left'
    BY <1>3, <1>6, <2>1, <2>3
  <2>5. ASSUME x \in Row PROVE FALSE
    <3>1. queue[n].t = Here.t /\ queue[n].c = Here.c /\ queue[n].k \in 1..plan[Here.t].setup
      BY <1>1, <2>2, <2>5 DEF Row
    <3>2. n - queue[n].k = idx - Here.k
      BY <1>1, <3>1, SameCase
    <3>3. n \in Int /\ idx \in Int /\ n >= idx
      BY QueueFacts DEF ToCome
    <3> PICK k \in Int : k = queue[n].k
      BY <3>1
    <3> PICK z \in Int : z = Here.k
      BY <1>1
    <3>4. k < z
      BY <1>1, <3>1
    <3> QED BY <3>2, <3>3, <3>4
  <2> QED BY <2>4, <2>5
<1> QED BY <1>2, <1>7, <1>8, <1>9

(* Until its own step is sent, all that a target's cases come to is still to come. *)
LEMMA OwnIsBefore ==
  ASSUME FuzzTypes, AllIn, OwnFirst, SentIsPast, AtHand, Here.kind = "own"
  PROVE  /\ \A n \in DOMAIN queue : queue[n].t = Here.t => n >= idx
         /\ \A x \in Copies : x[1][1] = Here.t => x \in Left /\ x \notin copySent
<1>1. idx \in DOMAIN queue /\ DOMAIN queue \subseteq Int
  BY QueueFacts
<1>2. ASSUME NEW n \in DOMAIN queue, queue[n].t = Here.t PROVE n >= idx
  <2>1. n <= idx => n = idx
    BY <1>1, <1>2 DEF OwnFirst, Here
  <2>2. n \in Int /\ idx \in Int
    BY <1>1
  <2> QED BY <2>1, <2>2
<1>3. ASSUME NEW x \in Copies, x[1][1] = Here.t PROVE x \in Left /\ x \notin copySent
  <2> DEFINE i == CaseItem(x[1][1], x[1][2], x[2])
  <2>1. i \in Items /\ i.kind = "copy" /\ i.t = Here.t
    BY <1>3, CopiesAre
  <2> PICK n \in DOMAIN queue : queue[n] = i
    BY <2>1 DEF AllIn
  <2>2. n \in ToCome
    BY <1>2, <2>1 DEF ToCome
  <2>3. x \in Left
    BY <2>2 DEF Left
  <2>4. Here # i
    BY <2>1
  <2> QED BY <2>3, <2>4 DEF SentIsPast
<1> QED BY <1>2, <1>3

-----------------------------------------------------------------------------
(* What is known of a target and of a case. *)
(* Only a target's own step changes whether it got through. *)
LEMMA PassedIs ==
  ASSUME SetupInv, [Next]_vars
  PROVE  \/ end' = end /\ \A t \in Targets : group'[t].passed = group[t].passed
         \/ /\ OwnAnswered /\ AtHand /\ Here.kind = "own" /\ idx' = idx + 1
            /\ UNCHANGED <<queue, caseInfo, skipped, reports, copySent>>
            /\ pc' = "next" /\ ~end
            /\ \A t \in Targets : t = Here.t \/ group'[t].passed = group[t].passed
<1> USE DEF history
<1>1. /\ FuzzTypes /\ (pc \in {"chosen", "sent"} => AtHand)
      /\ DOMAIN group = Targets /\ \A t \in Targets : group[t] \in GroupOf(t)
  BY DEF SetupInv, Ready, FuzzTypes
<1>2. CASE group' = group /\ end' = end
  BY <1>2
<1>3. CASE Interrupt \/ PassOver \/ AbortBetween \/ Choose \/ QueueEnds \/ Verify \/ SkipStopped \/ SkipFailed
           \/ Reuse \/ SendOwn \/ ReportUnsent \/ SendCase \/ Returned \/ UNCHANGED vars
  BY <1>2, <1>3 DEF Interrupt, PassOver, AbortBetween, Choose, QueueEnds, Verify, SkipStopped, SkipFailed,
     Reuse, SendOwn, ReportUnsent, SendCase, Returned, vars
<1> PICK t : t = Here.t
  OBVIOUS
<1>4. AtHand => t \in Targets
  BY <1>1, AtHandIs
<1>5. CASE SendCopy
  <2>1. end' = end /\ AtHand
    BY <1>1, <1>5 DEF SendCopy, Copying
  <2>2. CASE G.building = Case
    BY <1>5, <2>1, <2>2 DEF SendCopy
  <2>3. CASE G.building # Case
    <3> PICK c, l : c = Case /\ l = NoLive(t)
      OBVIOUS
    <3>1. group' = [group EXCEPT ![t].live = l, ![t].clean = FALSE, ![t].building = c]
      BY <1>5, <2>3 DEF SendCopy
    <3> QED BY <1>1, <1>4, <2>1, <3>1 DEF GroupOf
  <2> QED BY <2>2, <2>3
<1>6. CASE CopyAnswered
  <2>1. end' = end /\ AtHand
    BY <1>1, <1>6 DEF CopyAnswered
  <2>2. CASE CopyPassed
    <3> PICK k, c : k = Here.k /\ c = Here.c
      OBVIOUS
    <3>1. group' = [group EXCEPT ![t].live[k] = c]
      BY <2>2 DEF CopyPassed
    <3> QED BY <1>1, <1>4, <2>1, <3>1 DEF GroupOf
  <2>3. CASE CopyFailed
    <3>1. group' = [group EXCEPT ![t] = CountFailure(group[t])]
      BY <2>3 DEF CopyFailed
    <3>2. CountFailure(group[t]).passed = group[t].passed
      BY <1>1, <1>4, <2>1 DEF CountFailure, GroupOf
    <3> QED BY <1>1, <1>4, <2>1, <3>1, <3>2
  <2>4. CASE AbortSent("none")
    BY <1>2, <2>1, <2>4 DEF AbortSent
  <2> QED BY <1>6, <2>2, <2>3, <2>4 DEF CopyAnswered
<1>7. CASE OwnAnswered
  <2>1. AtHand /\ Here.kind = "own" /\ UNCHANGED <<queue, skipped, reports, copySent>> /\ pc = "sent"
    BY <1>1, <1>7 DEF OwnAnswered
  <2>2. CASE AbortSent("none") /\ end' = end
    BY <1>2, <2>2 DEF AbortSent
  <2>3. CASE NextItem /\ ~(AbortSent("none") /\ end' = end)
    <3>1. PICK through \in BOOLEAN : group' = [group EXCEPT ![t].passed = through]
      BY <1>7, <2>3 DEF OwnAnswered
    <3>2. caseInfo' = caseInfo /\ idx' = idx + 1 /\ pc' = "next"
      BY <1>7, <2>3 DEF OwnAnswered, NextItem
    <3>3. ~RunsAfterPlan(Here)
      BY <2>1 DEF RunsAfterPlan
    <3>4. ~end
      BY <2>1, <3>3 DEF SetupInv, Ready, Due
    <3>5. \A u \in Targets : u = t \/ group'[u].passed = group[u].passed
      BY <1>1, <1>4, <2>1, <3>1
    <3> QED BY <1>7, <2>1, <3>2, <3>4, <3>5
  <2> QED BY <1>7, <2>2, <2>3 DEF OwnAnswered
<1>8. CASE CaseAnswered
  <2>1. end' = end /\ AtHand
    BY <1>1, <1>8 DEF CaseAnswered
  <2>2. PICK a \in Answer :
          \/ group' = group
          \/ group' = [group EXCEPT ![t].clean = FALSE]
          \/ group' = [group EXCEPT ![t].failures = 0, ![t].building = NoCase, ![t].clean = LeavesClean(a)]
    BY <1>8 DEF CaseAnswered, AbortSent, Rebuild, CaseJudged
  <2> PICK b : b = LeavesClean(a)
    OBVIOUS
  <2>3. \/ group' = group
        \/ group' = [group EXCEPT ![t].clean = FALSE]
        \/ group' = [group EXCEPT ![t].failures = 0, ![t].building = NoCase, ![t].clean = b]
    BY <2>2
  <2> QED BY <1>1, <1>4, <2>1, <2>3 DEF GroupOf
<1> QED BY <1>3, <1>5, <1>6, <1>7, <1>8 DEF Next, Progress

(* A case's label changes only while the case is at hand, and a label says that
   the setup failed exactly when it did. *)
LEMMA LabelsKept ==
  ASSUME SetupInv, Labels, [Next]_vars
  PROVE  /\ \A c \in Cases : (AtCase /\ c = Case) \/ caseInfo'[c] = caseInfo[c]
         /\ Labels'
<1> USE DEF history
<1>1. /\ FuzzTypes /\ (pc \in {"chosen", "sent"} => AtHand) /\ plan' = plan
      /\ DOMAIN caseInfo = Cases /\ \A c \in Cases : caseInfo[c] \in InfoOf(c)
  BY StepsAre DEF SetupInv, Ready, FuzzTypes
<1>2. Cases' = Cases
  BY <1>1, PlanStays
<1> PICK d : d = Case
  OBVIOUS
<1>3. AtCase => d \in Cases /\ d = Case /\ d[1] = Here.t
  BY <1>1, AtHandIs DEF AtCase
<1>4. ASSUME AtCase, NEW i, \A c \in Cases \ {d} : caseInfo'[c] = caseInfo[c], caseInfo'[d] = i,
             i.setup = "failed" <=> i.failed, plan[Here.t].setup = 0 => i.setup = "own"
      PROVE  /\ \A c \in Cases : (AtCase /\ c = Case) \/ caseInfo'[c] = caseInfo[c]
             /\ Labels'
  <2>1. \A c \in Cases : (AtCase /\ c = Case) \/ caseInfo'[c] = caseInfo[c]
    BY <1>4
  <2>2. \A c \in Cases : LET j == caseInfo'[c] IN
          /\ j.setup = "failed" <=> j.failed
          /\ plan[c[1]].setup = 0 => j.setup = "own"
    BY <1>3, <1>4 DEF Labels
  <2> QED BY <1>1, <1>2, <2>1, <2>2 DEF Labels
<1>5. CASE caseInfo' = caseInfo
  <2>1. Labels'
    BY <1>1, <1>2, <1>5 DEF Labels
  <2> QED BY <1>5, <2>1
<1>6. CASE Interrupt \/ PassOver \/ AbortBetween \/ Choose \/ QueueEnds \/ Verify \/ SkipFailed
           \/ SendOwn \/ OwnAnswered \/ ReportUnsent \/ SendCase \/ Returned \/ UNCHANGED vars
  BY <1>5, <1>6 DEF Interrupt, PassOver, AbortBetween, Choose, QueueEnds, Verify, SkipFailed,
     SendOwn, OwnAnswered, AbortSent, ReportUnsent, SendCase, Returned, vars
<1>7. Here.kind = "copy" /\ AtHand => AtCase /\ plan[Here.t].setup # 0
  <2>1. AtHand => Here \in Items
    BY <1>1, AtHandIs
  <2> SUFFICES ASSUME Here.kind = "copy", AtHand PROVE AtCase /\ plan[Here.t].setup # 0
    OBVIOUS
  <2>2. plan[Here.t].setup > 0 /\ plan[Here.t].setup \in Nat
    BY <1>1, <2>1, PieceFacts
  <2> QED BY <1>1, <2>2, AtHandIs
<1>8. ASSUME Here.kind = "copy", AtHand, NEW setup, NEW failed \in BOOLEAN, Give(Case, setup, failed),
             setup = "failed" <=> failed
      PROVE  /\ \A c \in Cases : (AtCase /\ c = Case) \/ caseInfo'[c] = caseInfo[c]
             /\ Labels'
  <2>1. caseInfo' = [caseInfo EXCEPT ![d].setup = setup, ![d].failed = failed]
    BY <1>8 DEF Give
  <2>2. AtCase /\ plan[Here.t].setup # 0
    BY <1>7, <1>8
  <2>3. \A c \in Cases \ {d} : caseInfo'[c] = caseInfo[c]
    BY <1>1, <2>1
  <2>4. caseInfo'[d].setup = setup /\ caseInfo'[d].failed = failed
    BY <1>1, <1>3, <2>1, <2>2 DEF InfoOf
  <2> QED BY <1>4, <1>8, <2>2, <2>3, <2>4
<1>9. CASE SkipStopped
  BY <1>1, <1>8, <1>9 DEF SkipStopped, Copying
<1>10. CASE Reuse
  <2>1. Here.kind = "copy" /\ AtHand /\ ~caseInfo[d].failed
    BY <1>1, <1>10 DEF Reuse, Copying
  <2> PICK k, v : k = Here.k /\ v = G.live[k]
    OBVIOUS
  <2>2. caseInfo' = [caseInfo EXCEPT ![d].setup = "reused", ![d].on[k] = v]
    BY <1>10 DEF Reuse
  <2>3. AtCase /\ plan[Here.t].setup # 0
    BY <1>7, <2>1
  <2>4. \A c \in Cases \ {d} : caseInfo'[c] = caseInfo[c]
    BY <1>1, <2>2
  <2>5. caseInfo'[d].setup = "reused" /\ ~caseInfo'[d].failed
    BY <1>1, <1>3, <2>1, <2>2, <2>3 DEF InfoOf
  <2> QED BY <1>4, <2>3, <2>4, <2>5
<1>11. CASE SendCopy
  <2>1. Here.kind = "copy" /\ AtHand
    BY <1>1, <1>11 DEF SendCopy, Copying
  <2>2. CASE G.building = Case
    BY <1>5, <1>11, <2>2 DEF SendCopy
  <2>3. CASE G.building # Case
    <3> PICK l : l = IF caseInfo[Case].stale THEN "rebuilt" ELSE "fresh"
      OBVIOUS
    <3>1. Give(Case, l, FALSE) /\ l # "failed"
      BY <1>11, <2>3 DEF SendCopy
    <3> QED BY <1>8, <2>1, <3>1
  <2> QED BY <2>2, <2>3
<1>12. CASE CopyAnswered
  <2>1. Here.kind = "copy" /\ AtHand
    BY <1>1, <1>12 DEF CopyAnswered
  <2>2. CASE CopyPassed
    <3> PICK k, v : k = Here.k /\ v = Here.c
      OBVIOUS
    <3>1. caseInfo' = [caseInfo EXCEPT ![d].on[k] = v]
      BY <2>2 DEF CopyPassed
    <3>2. AtCase /\ plan[Here.t].setup # 0
      BY <1>7, <2>1
    <3>3. \A c \in Cases \ {d} : caseInfo'[c] = caseInfo[c]
      BY <1>1, <3>1
    <3>4. caseInfo'[d].setup = caseInfo[d].setup /\ caseInfo'[d].failed = caseInfo[d].failed
      BY <1>1, <1>3, <3>1, <3>2 DEF InfoOf
    <3>5. caseInfo[d].setup = "failed" <=> caseInfo[d].failed
      BY <1>3, <3>2 DEF Labels
    <3> QED BY <1>4, <3>2, <3>3, <3>4, <3>5
  <2>3. CASE CopyFailed
    BY <1>8, <2>1, <2>3 DEF CopyFailed
  <2>4. CASE AbortSent("none")
    BY <1>5, <2>4 DEF AbortSent
  <2> QED BY <1>12, <2>2, <2>3, <2>4 DEF CopyAnswered
<1>13. CASE CaseAnswered
  <2>1. Here.kind = "case" /\ AtHand
    BY <1>1, <1>13 DEF CaseAnswered
  <2>2. AtCase
    BY <1>1, <2>1, AtHandIs
  <2>3. caseInfo' = caseInfo \/ caseInfo' = [caseInfo EXCEPT ![d].stale = TRUE]
    BY <1>13 DEF CaseAnswered, AbortSent, Rebuild, CaseJudged
  <2>4. CASE caseInfo' = [caseInfo EXCEPT ![d].stale = TRUE]
    <3>1. \A c \in Cases \ {d} : caseInfo'[c] = caseInfo[c]
      BY <1>1, <2>4
    <3>2. caseInfo'[d].setup = caseInfo[d].setup /\ caseInfo'[d].failed = caseInfo[d].failed
      BY <1>1, <1>3, <2>2, <2>4 DEF InfoOf
    <3>3. /\ caseInfo[d].setup = "failed" <=> caseInfo[d].failed
          /\ plan[Here.t].setup = 0 => caseInfo[d].setup = "own"
      BY <1>3, <2>2 DEF Labels
    <3> QED BY <1>4, <2>2, <3>1, <3>2, <3>3
  <2> QED BY <1>5, <2>3, <2>4
<1> QED BY <1>6, <1>9, <1>10, <1>11, <1>12, <1>13 DEF Next, Progress

-----------------------------------------------------------------------------
(* The copies that a run skips. *)
(* A target's own step stays ahead of its cases. *)
LEMMA PlacesKept ==
  ASSUME SetupInv, AllIn, OwnFirst, [Next]_vars
  PROVE  AllIn' /\ OwnFirst'
<1>1. plan' = plan /\ FuzzTypes /\ Blocks /\ LeftOnce /\ Ready /\ Items' = Items
  BY StepsAre, PlanStays DEF SetupInv
<1>2. CASE queue' = queue
  BY <1>1, <1>2 DEF AllIn, OwnFirst
<1>3. CASE AtHand /\ Here.kind = "case" /\ queue' = Again /\ idx' = idx + 1
  <2> PICK w \in Nat : w = plan[Here.t].setup + 1
    BY <1>1, <1>3, AtHandIs
  <2>1. /\ queue' \in Seq(Items)
        /\ \A n \in DOMAIN queue : \E m \in DOMAIN queue' : queue'[m] = queue[n]
        /\ \A n \in DOMAIN queue' : n <= idx => n \in DOMAIN queue /\ queue'[n] = queue[n]
        /\ \A n \in ToCome' :
             \/ n - idx \in 1..w /\ queue'[n] = CaseItem(Here.t, Here.c, n - idx)
             \/ n - w \in ToCome /\ n - w # idx /\ queue'[n] = queue[n - w]
    BY <1>1, <1>3, AgainKeeps
  <2>2. AllIn'
    BY <1>1, <2>1 DEF AllIn
  <2>3. /\ idx \in DOMAIN queue /\ DOMAIN queue \subseteq Int /\ DOMAIN queue' \subseteq Int
        /\ ToCome = {n \in DOMAIN queue : n >= idx}
        /\ \A n \in DOMAIN queue' : n > idx => n \in ToCome'
    <3>1. DOMAIN queue' = 1..Len(queue') /\ Len(queue') \in Nat
      BY <2>1, LenProperties
    <3>2. ToCome' = {n \in DOMAIN queue' : n >= idx + 1}
      BY <1>3 DEF ToCome
    <3>3. idx \in DOMAIN queue /\ idx \in Int /\ DOMAIN queue \subseteq Int
      BY <1>1, <1>3, QueueFacts
    <3> QED BY <3>1, <3>2, <3>3 DEF ToCome
  <2>4. \A k \in 1..w : CaseItem(Here.t, Here.c, k).kind # "own" /\ CaseItem(Here.t, Here.c, k).t = Here.t
    <3>1. Here.t \in Targets /\ Here.c \in 1..plan[Here.t].cases
      BY <1>1, <1>3, AtHandIs
    <3> QED BY <1>1, <3>1, Pieces
  <2>5. ASSUME NEW m \in DOMAIN queue', NEW n \in DOMAIN queue', queue'[m].kind = "own",
               queue'[n].t = queue'[m].t, n <= m
        PROVE  n = m
    <3>0. m \in Int /\ n \in Int /\ idx \in Int
      BY <2>3
    <3>1. CASE m <= idx
      <4>1. n <= idx
        BY <2>5, <3>0, <3>1
      <4> QED BY <2>1, <2>5, <3>1, <4>1 DEF OwnFirst
    <3>2. CASE m > idx
      <4>1. /\ m - w \in ToCome /\ m - w # idx /\ queue'[m] = queue[m - w]
        BY <2>1, <2>3, <2>4, <2>5, <3>2
      <4> PICK l \in DOMAIN queue : l = m - w /\ l >= idx /\ l # idx /\ queue[l] = queue'[m]
        BY <2>3, <4>1
      <4>2. \A o \in DOMAIN queue : queue[o].t = queue[l].t /\ o <= l => o = l
        BY <2>5 DEF OwnFirst
      <4>3. l \in Int
        BY <2>3
      <4>4. Here.t # queue[l].t
        <5>1. idx <= l
          BY <3>0, <4>3
        <5> QED BY <2>3, <4>2, <5>1 DEF Here
      <4>5. CASE n <= idx
        <5>1. n \in DOMAIN queue /\ queue[n].t = queue[l].t /\ n <= l
          BY <2>1, <2>5, <3>0, <4>3, <4>5
        <5>2. n = l
          BY <4>2, <5>1
        <5> QED BY <3>0, <4>3, <4>5, <5>2
      <4>6. CASE n > idx
        <5>1. n - w \in ToCome /\ queue'[n] = queue[n - w]
          BY <2>1, <2>3, <2>4, <2>5, <4>4, <4>6
        <5>2. n - w \in DOMAIN queue /\ n - w <= l
          BY <2>3, <2>5, <3>0, <5>1
        <5>3. n - w = l
          BY <2>5, <4>2, <5>1, <5>2
        <5> QED BY <3>0, <5>3
      <4> QED BY <3>0, <4>5, <4>6
    <3> QED BY <3>0, <3>1, <3>2
  <2> QED BY <2>2, <2>5 DEF OwnFirst
<1> QED BY <1>1, <1>2, <1>3, StepKinds

(* There are finitely many copies. *)
LEMMA CopiesAreFinite ==
  ASSUME FuzzTypes PROVE IsFiniteSet(Copies)
<1> DEFINE f == [c \in Cases |-> {c} \X (1..plan[c[1]].setup)]
<1>1. plan \in Plans
  BY DEF FuzzTypes
<1>2. \A t \in Targets : plan[t].setup \in Nat
  BY <1>1, PlanFacts
<1>3. ASSUME NEW c \in Cases PROVE IsFiniteSet({c} \X (1..plan[c[1]].setup))
  <2> PICK t \in Targets : \E n \in 1..plan[t].cases : c = <<t, n>>
    BY CasesAre
  <2>1. IsFiniteSet(1..plan[c[1]].setup)
    <3>1. c[1] = t /\ plan[t].setup \in Int /\ 1 \in Int
      BY <1>2
    <3> QED BY <3>1, FS_Interval
  <2>2. IsFiniteSet({c})
    BY FS_Singleton
  <2> QED BY <2>1, <2>2, FS_Product
<1>4. IsFiniteSet({{c} \X (1..plan[c[1]].setup) : c \in Cases})
  <2>1. f \in Surjection(Cases, {{c} \X (1..plan[c[1]].setup) : c \in Cases})
    BY DEF Surjection
  <2> QED BY <1>1, <2>1, CasesAreFinite, FS_Surjection
<1>5. \A S \in {{c} \X (1..plan[c[1]].setup) : c \in Cases} : IsFiniteSet(S)
  BY <1>3
<1> QED BY <1>4, <1>5, FS_UNION DEF Copies

(* The copies counted as skipped are those a run passed over so far. *)
LEMMA CountsKept ==
  ASSUME SetupInv, AllIn, OwnFirst, Counts, [Next]_vars
  PROVE  Counts'
<1> USE DEF history
<1>1. /\ FuzzTypes /\ Blocks /\ LeftOnce /\ SentIsPast /\ plan' = plan /\ (pc \in {"chosen", "sent"} => AtHand)
      /\ Copies' = Copies /\ Targets' = Targets /\ copySent \subseteq Copies
      /\ \A t \in Targets : plan[t].setup \in Nat
  BY StepsAre, PlanStays, PlanFacts DEF SetupInv, Ready, FuzzTypes
<1>2. \A x \in Copies : x[1][1] \in Targets
  BY <1>1, CopiesAre
<1>3. IsFiniteSet(SkippedAre) /\ skipped = Cardinality(SkippedAre) /\ Cardinality(SkippedAre) \in Nat
  <2>1. IsFiniteSet(SkippedAre)
    BY <1>1, CopiesAreFinite, FS_Subset DEF SkippedAre
  <2> QED BY <2>1, FS_CardinalityType DEF Counts
<1>4. SkippedAre' = {x \in Copies : group'[x[1][1]].passed /\ x \notin Left' /\ x \notin copySent'}
  BY <1>1 DEF SkippedAre
<1> DEFINE Passed == \A t \in Targets : group'[t].passed = group[t].passed
           CountsOf(S) == skipped' = Cardinality(S)
<1>5. ASSUME Passed, copySent' = copySent PROVE \A x \in copySent' : group'[x[1][1]].passed
  BY <1>1, <1>2, <1>5 DEF Counts
<1>6. ASSUME Passed, Left' = Left, UNCHANGED <<copySent, skipped>> PROVE Counts'
  <2>1. SkippedAre' = SkippedAre
    BY <1>2, <1>4, <1>6 DEF SkippedAre
  <2> QED BY <1>3, <1>5, <1>6, <2>1 DEF Counts
<1>7. ASSUME AtHand, Here.kind = "copy"
      PROVE  /\ AtCopy \in Left /\ AtCopy \in Copies /\ AtCopy[1][1] = Here.t
             /\ Due(Here) <=> G.passed
             /\ copySent \cap {AtCopy} # {} => pc \in {"sent", "aborted"}
  <2>1. AtCopy \in Left /\ AtCopy[1][1] = Here.t /\ RunsAfterPlan(Here)
    BY <1>1, <1>7, AtCopyIs
  <2>2. AtCopy \in copySent => pc \in {"sent", "aborted"}
    BY <1>1, <2>1 DEF SentIsPast
  <2> QED BY <2>1, <2>2 DEF Due, G, Left
<1>8. ASSUME Passed, AtHand, Here.kind = "copy", queue' = queue, idx' = idx + 1, UNCHANGED <<copySent, skipped>>,
             ~G.passed \/ AtCopy \in copySent
      PROVE  Counts'
  <2>1. Left' = Left \ {AtCopy}
    BY <1>1, <1>8, LeftAdvances
  <2>2. ~group[AtCopy[1][1]].passed \/ AtCopy \in copySent
    BY <1>7, <1>8 DEF G
  <2>3. SkippedAre' = SkippedAre
    BY <1>2, <1>4, <1>8, <2>1, <2>2 DEF SkippedAre
  <2> QED BY <1>3, <1>5, <1>8, <2>3 DEF Counts
<1>9. ASSUME Passed, AtHand, Here.kind = "copy", queue' = queue, idx' = idx + 1, copySent' = copySent,
             skipped' = skipped + 1, pc = "chosen"
      PROVE  Counts'
  <2>1. Left' = Left \ {AtCopy}
    BY <1>1, <1>9, LeftAdvances
  <2>2. Due(Here)
    BY <1>9 DEF SetupInv, Ready
  <2>3. group[AtCopy[1][1]].passed /\ AtCopy \notin copySent /\ AtCopy \in Left /\ AtCopy \in Copies
    BY <1>7, <1>9, <2>2 DEF G
  <2>4. SkippedAre' = SkippedAre \cup {AtCopy} /\ AtCopy \notin SkippedAre
    BY <1>2, <1>4, <1>9, <2>1, <2>3 DEF SkippedAre
  <2>5. Cardinality(SkippedAre \cup {AtCopy}) = Cardinality(SkippedAre) + 1
    BY <1>3, <2>4, FS_AddElement
  <2> QED BY <1>3, <1>5, <1>9, <2>4, <2>5 DEF Counts
<1>10. ASSUME Passed, AtHand, Here.kind # "copy", queue' = queue, idx' = idx + 1, UNCHANGED <<copySent, skipped>>
       PROVE  Counts'
  <2>1. Left' = Left
    BY <1>1, <1>10, LeftAdvances
  <2> QED BY <1>6, <1>10, <2>1
<1>11. ASSUME Passed, UNCHANGED <<queue, idx, copySent, skipped>> PROVE Counts'
  <2>1. Left' = Left
    BY <1>1, <1>11, StayKeeps
  <2> QED BY <1>6, <1>11, <2>1
<1>12. CASE ~Passed
  <2>1. /\ AtHand /\ Here.kind = "own" /\ idx' = idx + 1 /\ UNCHANGED <<queue, skipped, copySent>>
        /\ \A t \in Targets : t = Here.t \/ group'[t].passed = group[t].passed
    BY <1>12, PassedIs
  <2>2. \A x \in Copies : x[1][1] = Here.t => x \in Left /\ x \notin copySent
    BY <1>1, <2>1, OwnIsBefore
  <2>3. Left' = Left
    BY <1>1, <2>1, LeftAdvances
  <2>4. SkippedAre' = SkippedAre
    BY <1>2, <1>4, <2>1, <2>2, <2>3 DEF SkippedAre
  <2>5. \A x \in copySent' : group'[x[1][1]].passed
    BY <1>1, <1>2, <2>1, <2>2 DEF Counts
  <2> QED BY <1>3, <2>1, <2>4, <2>5 DEF Counts
<1>13. CASE Passed
  <2>1. CASE Interrupt \/ AbortBetween \/ Choose \/ QueueEnds \/ Verify \/ SendOwn \/ SendCase \/ Returned
             \/ UNCHANGED vars
    BY <1>11, <1>13, <2>1 DEF Interrupt, AbortBetween, Choose, QueueEnds, Verify, SendOwn, SendCase, Returned, vars
  <2>2. CASE PassOver
    <3>1. /\ AtHand /\ ~Due(Here) /\ queue' = queue /\ idx' = idx + 1 /\ UNCHANGED <<copySent, skipped>>
      BY <2>2 DEF PassOver, AtHand
    <3> QED BY <1>7, <1>8, <1>10, <1>13, <3>1
  <2>3. CASE SkipStopped \/ SkipFailed \/ Reuse
    <3>1. /\ AtHand /\ Here.kind = "copy" /\ queue' = queue /\ idx' = idx + 1 /\ copySent' = copySent
          /\ skipped' = skipped + 1 /\ pc = "chosen"
      BY <1>1, <2>3 DEF SkipStopped, SkipFailed, Reuse, Copying, NextItem
    <3> QED BY <1>9, <1>13, <3>1
  <2>4. CASE SendCopy
    <3>1. /\ AtHand /\ Here.kind = "copy" /\ queue' = queue /\ idx' = idx /\ copySent' = copySent \cup {AtCopy}
          /\ skipped' = skipped /\ pc = "chosen"
      BY <1>1, <2>4 DEF SendCopy, Copying, AtCopy
    <3>2. Left' = Left
      BY <1>1, <3>1, StayKeeps
    <3>3. Due(Here)
      BY <3>1 DEF SetupInv, Ready
    <3>4. group[AtCopy[1][1]].passed /\ AtCopy \in Left
      BY <1>7, <3>1, <3>3 DEF G
    <3>5. SkippedAre' = SkippedAre
      BY <1>2, <1>4, <1>13, <3>1, <3>2, <3>4 DEF SkippedAre
    <3>6. \A x \in copySent' : group'[x[1][1]].passed
      BY <1>1, <1>2, <1>7, <1>13, <3>1, <3>4 DEF Counts
    <3> QED BY <1>3, <3>1, <3>5, <3>6 DEF Counts
  <2>5. CASE CopyAnswered
    <3>1. AtHand /\ Here.kind = "copy" /\ UNCHANGED <<queue, copySent, skipped>> /\ AtCopy \in copySent
      BY <1>1, <2>5 DEF CopyAnswered, SetupInv, Ready, AtCopy
    <3>2. idx' = idx \/ idx' = idx + 1
      BY StepsAre
    <3> QED BY <1>8, <1>11, <1>13, <3>1, <3>2
  <2>6. CASE OwnAnswered
    <3>1. AtHand /\ Here.kind = "own" /\ UNCHANGED <<queue, copySent, skipped>>
      BY <1>1, <2>6 DEF OwnAnswered
    <3>2. idx' = idx \/ idx' = idx + 1
      BY StepsAre
    <3> QED BY <1>10, <1>11, <1>13, <3>1, <3>2
  <2>7. CASE ReportUnsent
    BY <1>1, <1>10, <1>13, <2>7 DEF ReportUnsent, NextItem
  <2>8. CASE CaseAnswered
    <3>1. AtHand /\ Here.kind = "case" /\ UNCHANGED copySent /\ pc = "sent"
      BY <1>1, <2>8 DEF CaseAnswered
    <3>2. PICK a \in Answer :
            \/ AbortSent(a) /\ UNCHANGED <<queue, skipped>>
            \/ NextItem /\ IF Rebuilds(a) THEN Rebuild ELSE CaseJudged(a)
      BY <2>8 DEF CaseAnswered
    <3>3. CASE AbortSent(a) /\ UNCHANGED <<queue, skipped>>
      BY <1>11, <1>13, <3>1, <3>3 DEF AbortSent
    <3>4. CASE NextItem /\ ~Rebuilds(a) /\ CaseJudged(a)
      BY <1>10, <1>13, <3>1, <3>4 DEF NextItem, CaseJudged
    <3>5. CASE NextItem /\ Rebuilds(a) /\ Rebuild
      <4> PICK s \in Nat : s = plan[Here.t].setup
        BY <1>1, <3>1, AtHandIs
      <4>1. /\ queue' = Again /\ idx' = idx + 1 /\ skipped' = skipped - s /\ s > 0
            /\ caseInfo[Case].setup = "reused"
        BY <3>5 DEF NextItem, Rebuild, Rebuilds
      <4>2. Row \subseteq Copies /\ Left' = Left \cup Row /\ Left \cap Row = {}
        BY <1>1, <3>1, <4>1, LeftAgain
      <4>3. /\ Case = <<Here.t, Here.c>> /\ Here.k = s + 1 /\ Here \in Items /\ Here.t \in Targets
        BY <1>1, <3>1, AtHandIs
      <4>4. G.passed
        <5>1. RunsAfterPlan(Here)
          BY <1>1, <3>1, <4>1, <4>3, PieceFacts
        <5> QED BY <3>1, <5>1 DEF SetupInv, Ready, Due, G
      <4>5. Reuses
        <5>1. ~Builds
          BY <4>1 DEF Builds
        <5> QED BY <3>1, <4>1, <5>1, CaseRuns
      <4>6. \A x \in Row : x \notin copySent
        <5>1. \A k \in 1..s : k \in 1..Here.k - 1
          BY <4>3
        <5> QED BY <4>5, <5>1 DEF Reuses, Row
      <4>7. \A x \in Row : x[1][1] = Here.t
        BY <4>3 DEF Row
      <4>8. Row \subseteq SkippedAre
        BY <4>2, <4>4, <4>6, <4>7 DEF SkippedAre, G
      <4>9. SkippedAre' = SkippedAre \ Row
        BY <1>2, <1>4, <1>13, <3>1, <4>2 DEF SkippedAre
      <4>10. IsFiniteSet(Row) /\ Cardinality(Row) = s
        <5>1. IsFiniteSet(1..s) /\ Cardinality(1..s) = s
          <6>1. s \in Int /\ 1 \in Int /\ ~(1 > s) /\ s - 1 + 1 = s
            BY <4>1
          <6>2. IsFiniteSet(1..s) /\ Cardinality(1..s) = IF 1 > s THEN 0 ELSE s - 1 + 1
            BY <6>1, FS_Interval
          <6> QED BY <6>1, <6>2
        <5>2. IsFiniteSet({Case}) /\ Cardinality({Case}) = 1
          BY FS_Singleton
        <5>3. IsFiniteSet(Row) /\ Cardinality(Row) = Cardinality({Case}) * Cardinality(1..s)
          BY <5>1, <5>2, FS_Product DEF Row
        <5> QED BY <5>1, <5>2, <5>3
      <4>11. Cardinality(SkippedAre \ Row) = Cardinality(SkippedAre) - Cardinality(SkippedAre \cap Row)
        BY <1>3, <4>10, FS_Difference
      <4>12. SkippedAre \cap Row = Row
        BY <4>8
      <4>13. skipped' = Cardinality(SkippedAre')
        BY <1>3, <4>1, <4>9, <4>10, <4>11, <4>12
      <4>14. \A x \in copySent' : group'[x[1][1]].passed
        BY <1>5, <1>13, <3>1
      <4> QED BY <4>13, <4>14 DEF Counts
    <3> QED BY <3>2, <3>3, <3>4, <3>5
  <2> QED BY <2>1, <2>2, <2>3, <2>4, <2>5, <2>6, <2>7, <2>8 DEF Next, Progress
<1> QED BY <1>12, <1>13

-----------------------------------------------------------------------------
(* What a run says of a case. *)
LEMMA ReportStarts == Init => ReportInv
<1> SUFFICES ASSUME Init PROVE ReportInv
  OBVIOUS
<1>1. FuzzTypes /\ LeftOnce /\ AllIn
  BY StartsTyped, StartsWithEach DEF AllIn
<1>2. /\ plan \in Plans /\ queue = RunOrder /\ idx = 1 /\ pc = "next" /\ skipped = 0 /\ reports = <<>> /\ copySent = {}
      /\ \A t \in Targets : ~group[t].passed
      /\ \A c \in Cases : caseInfo[c].setup = "own" /\ ~caseInfo[c].failed
  BY DEF Init
<1>3. OwnFirst
  <2> SUFFICES ASSUME NEW m \in DOMAIN queue, NEW n \in DOMAIN queue, queue[m].kind = "own",
                      queue[n].t = queue[m].t, n <= m, n # m
               PROVE  FALSE
    BY DEF OwnFirst
  <2> DEFINE i == queue[m]
             j == queue[n]
             Place == [x \in Items |-> Cardinality(AheadOf(x))]
  <2>1. i \in Items /\ j \in Items /\ m \in Int /\ n \in Int /\ m >= 1 /\ n >= 1
    BY <1>1, QueueFacts
  <2>2. i = Own(i.t) /\ i.c = 0
    BY <1>2, <2>1, ItemsAre
  <2>3. j.kind # "own"
    <3> SUFFICES ASSUME j.kind = "own" PROVE FALSE
      OBVIOUS
    <3>1. j = Own(j.t)
      BY <1>2, <2>1, ItemsAre
    <3>2. i = j
      BY <2>2, <3>1
    <3>3. m \in ToCome /\ n \in ToCome
      BY <1>2, <2>1 DEF ToCome
    <3> QED BY <1>1, <3>2, <3>3 DEF LeftOnce
  <2>4. j.c \in 1..plan[j.t].cases /\ plan[j.t].cases \in Nat /\ i.t \in Nat
    <3>1. i.t \in Targets /\ Targets = 1..Len(plan) /\ Len(plan) \in Nat
      BY <1>2, <2>1, ItemsAre, PlanFacts
    <3>2. j.c \in 1..plan[j.t].cases /\ plan[j.t].cases \in Nat
      BY <1>1, <2>1, <2>3, PieceFacts
    <3>3. i.t \in Nat
      BY <3>1
    <3> QED BY <3>2, <3>3
  <2>5. Ahead(i, j)
    <3>1. ~RunsAfterPlan(i)
      BY DEF RunsAfterPlan
    <3>2. Sorted(i, j)
      BY <2>2, <2>4 DEF Sorted
    <3> QED BY <3>1, <3>2 DEF Ahead
  <2>6. Place[i] < Place[j]
    BY <1>2, <2>1, <2>5, PlacesDiffer
  <2>7. Place[i] = m - 1 /\ Place[j] = n - 1
    BY <1>2, <2>1, RunOrderIs
  <2> HIDE DEF i, j, Place
  <2> QED BY <2>1, <2>6, <2>7
<1>4. Labels
  BY <1>2 DEF Labels
<1>5. Reported
  BY <1>2 DEF Reported
<1>6. NoneForgotten
  <2>1. \A n \in DOMAIN queue : n >= 1 /\ n \in Int
    BY <1>1, QueueFacts
  <2> QED BY <1>2, <2>1 DEF NoneForgotten
<1>7. Counts
  <2>1. \A x \in Copies : x[1][1] \in Targets
    BY <1>1, CopiesAre
  <2>2. SkippedAre = {}
    BY <1>2, <2>1 DEF SkippedAre
  <2> QED BY <1>2, <2>2, FS_EmptySet DEF Counts
<1> QED BY <1>1, <1>2, <1>3, <1>4, <1>5, <1>6, <1>7 DEF ReportInv

(* What is said of a case whose answer is in. *)
LEMMA CaseIsTold ==
  ASSUME SetupInv, Labels, AtHand, Here.kind = "case", UNCHANGED <<plan, queue, caseInfo>>, idx' = idx + 1,
         NEW a \in Answer, pc = "chosen" => caseInfo[Case].failed /\ a = "notSent",
         pc \in {"chosen", "sent"}, ~Rebuilds(a),
         NEW r, r = [case |-> Case, answer |-> a, setup |-> caseInfo[Case].setup]
  PROVE  Told(r)'
<1>1. /\ FuzzTypes /\ Blocks /\ LeftOnce
      /\ Case \in Cases /\ Case = <<Here.t, Here.c>> /\ Case[1] = Here.t /\ Case[2] = Here.c
      /\ caseInfo[Case] \in InfoOf(Case)
      /\ Here.k = plan[Here.t].setup + 1 /\ plan[Here.t].setup \in Nat
  <2>1. FuzzTypes /\ Blocks /\ LeftOnce
    BY DEF SetupInv
  <2> QED BY <2>1, AtHandIs
<1>2. r.case = Case /\ r.answer = a /\ r.setup = caseInfo[Case].setup
  OBVIOUS
<1>3. \A t, c : StillDue(t, c)' => ~(t = Here.t /\ c = Here.c)
  BY <1>1, AdvanceKeeps
<1>4. /\ caseInfo[Case].setup = "failed" <=> caseInfo[Case].failed
      /\ plan[Here.t].setup = 0 => caseInfo[Case].setup = "own"
  BY <1>1 DEF Labels
<1>5. pc = "sent" => ~caseInfo[Case].failed
  BY DEF SetupInv, Ready
<1>6. r.setup = "failed" => a = "notSent"
  BY <1>2, <1>4, <1>5
<1>7. ASSUME r.setup \in {"reused", "fresh", "rebuilt"}
      PROVE  /\ pc = "sent" /\ plan[Here.t].setup > 0
             /\ \E d \in 1..plan[Here.t].cases :
                  /\ \A k \in 1..plan[Here.t].setup : caseInfo[Case].on[k] = d
                  /\ \/ d = Here.c /\ Builds
                     \/ d # Here.c /\ Reuses
  <2>1. pc = "sent" /\ plan[Here.t].setup > 0
    BY <1>1, <1>2, <1>4, <1>7
  <2> QED BY <2>1, CaseRuns
<1> PICK s \in Nat : s = plan[Here.t].setup
  BY <1>1
<1> PICK on : on = caseInfo[Case].on
  OBVIOUS
<1>8. on \in [1..s -> 0..plan[Here.t].cases]
  BY <1>1 DEF InfoOf
<1>9. r.setup = "reused" => ~OwnOnly(Case) /\ a # "stale"
  <2> SUFFICES ASSUME r.setup = "reused" PROVE ~OwnOnly(Case) /\ a # "stale"
    OBVIOUS
  <2>1. PICK d \in 1..plan[Here.t].cases :
           (\A k \in 1..s : on[k] = d) /\ ((d = Here.c /\ Builds) \/ (d # Here.c /\ Reuses))
    BY <1>7
  <2>2. ~Builds
    BY <1>2 DEF Builds
  <2>3. d # Here.c /\ Reuses /\ s > 0
    BY <1>7, <2>1, <2>2
  <2>4. a # "stale"
    BY <1>2, <2>3 DEF Reuses, Rebuilds
  <2>5. on # [k \in 1..s |-> Here.c]
    <3>1. 1 \in 1..s /\ on[1] = d
      BY <2>1, <2>3
    <3> QED BY <2>3, <3>1
  <2> QED BY <1>1, <2>4, <2>5 DEF OwnOnly
<1>10. r.setup \in {"fresh", "rebuilt"} => OwnOnly(Case) /\ (r.setup = "rebuilt" => caseInfo[Case].stale)
  <2> SUFFICES ASSUME r.setup \in {"fresh", "rebuilt"}
               PROVE  OwnOnly(Case) /\ (r.setup = "rebuilt" => caseInfo[Case].stale)
    OBVIOUS
  <2>1. PICK d \in 1..plan[Here.t].cases :
           (\A k \in 1..s : on[k] = d) /\ ((d = Here.c /\ Builds) \/ (d # Here.c /\ Reuses))
    BY <1>7
  <2>2. ~Reuses
    BY <1>2 DEF Reuses
  <2>3. d = Here.c /\ Builds
    BY <2>1, <2>2
  <2>4. on = [k \in 1..s |-> Here.c]
    BY <1>8, <2>1, <2>3
  <2>5. r.setup = "rebuilt" => caseInfo[Case].stale
    BY <1>2, <2>3 DEF Builds
  <2> QED BY <1>1, <2>4, <2>5 DEF OwnOnly
<1> PICK c : c = Case
  OBVIOUS
<1>11. r.case = c /\ ~StillDue(c[1], c[2])'
  BY <1>1, <1>2, <1>3
<1>12. LET i == caseInfo'[c] IN
       /\ r.setup = "reused" => i.on # [k \in 1..plan'[c[1]].setup |-> c[2]] /\ r.answer # "stale"
       /\ r.setup \in {"fresh", "rebuilt"} => i.on = [k \in 1..plan'[c[1]].setup |-> c[2]]
       /\ r.setup = "rebuilt" => i.stale
       /\ r.setup = "failed" => r.answer = "notSent"
  BY <1>2, <1>6, <1>9, <1>10 DEF OwnOnly
<1> QED BY <1>11, <1>12 DEF Told, OwnOnly

Verdict(a) ==
  /\ AtHand /\ Here.kind = "case" /\ UNCHANGED <<plan, queue, caseInfo>> /\ idx' = idx + 1
  /\ pc \in {"chosen", "sent"} /\ (pc = "chosen" => caseInfo[Case].failed /\ a = "notSent")
  /\ ~Rebuilds(a) /\ reports' = Report(a)

(* A case is reported when it is judged, or when its setup failed. *)
LEMMA VerdictsAre ==
  ASSUME SetupInv, [Next]_vars
  PROVE  reports' = reports \/ \E a \in Answer : Verdict(a)
<1> USE DEF history
<1>1. pc \in {"chosen", "sent"} => AtHand
  BY DEF SetupInv, Ready
<1>2. CASE ReportUnsent
  <2>1. "notSent" \in Answer /\ ~Rebuilds("notSent")
    BY DEF Answer, Rebuilds
  <2>2. Verdict("notSent")
    BY <1>1, <1>2, <2>1 DEF ReportUnsent, NextItem, Verdict
  <2> QED BY <2>1, <2>2
<1>3. CASE CaseAnswered
  BY <1>1, <1>3 DEF CaseAnswered, NextItem, Rebuild, CaseJudged, Verdict
<1>4. CASE Interrupt \/ PassOver \/ AbortBetween \/ Choose \/ QueueEnds \/ Verify \/ SkipStopped \/ SkipFailed
           \/ Reuse \/ SendCopy \/ CopyAnswered \/ SendOwn \/ OwnAnswered \/ SendCase \/ Returned \/ UNCHANGED vars
  BY <1>4 DEF Interrupt, PassOver, AbortBetween, Choose, QueueEnds, Verify, SkipStopped, SkipFailed,
     Reuse, SendCopy, CopyAnswered, SendOwn, OwnAnswered, SendCase, Returned, vars
<1> QED BY <1>2, <1>3, <1>4 DEF Next, Progress

(* What was reported stays true, and what is reported is true. *)
LEMMA ReportedKept ==
  ASSUME SetupInv, Labels, Reported, [Next]_vars
  PROVE  Reported'
<1> DEFINE Reports == [case : Cases, answer : Answer, setup : {"own", "fresh", "rebuilt", "reused", "failed"}]
           L == Len(reports)
<1>1. /\ FuzzTypes /\ plan' = plan /\ Cases' = Cases /\ Answer' = Answer
      /\ L \in Nat /\ DOMAIN reports = 1..L /\ reports \in Seq(Reports)
      /\ \A i \in 1..L : reports[i] \in Reports
      /\ \A t, c : StillDue(t, c)' => StillDue(t, c)
  <2>1. FuzzTypes /\ plan' = plan /\ \A t, c : StillDue(t, c)' => StillDue(t, c)
    BY StepsAre, QueueKept DEF SetupInv
  <2>2. Cases' = Cases /\ Answer' = Answer
    BY <2>1, PlanStays DEF Answer
  <2>3. reports \in Seq(Reports)
    BY DEF Reported
  <2> HIDE DEF Reports
  <2>4. L \in Nat /\ DOMAIN reports = 1..L /\ \A i \in 1..L : reports[i] \in Reports
    BY <2>3, LenProperties
  <2> QED BY <2>1, <2>2, <2>3, <2>4
<1>2. \A c \in Cases : (AtCase /\ c = Case) \/ caseInfo'[c] = caseInfo[c]
  BY LabelsKept
<1>3. ASSUME AtCase PROVE StillDue(Case[1], Case[2]) /\ Case[1] = Here.t /\ Case[2] = Here.c
  <2>1. Case[1] = Here.t /\ Case[2] = Here.c
    BY DEF Case
  <2>2. idx \in ToCome
    BY <1>1, <1>3, QueueFacts DEF AtCase, ToCome
  <2> QED BY <2>1, <2>2 DEF StillDue, Here
<1>4. ASSUME NEW i \in 1..L PROVE reports[i].case # Case \/ ~AtCase
  BY <1>1, <1>3 DEF Reported, Told
<1>5. ASSUME NEW i \in 1..L, NEW r, r = reports[i] PROVE Told(r)'
  <2>1. caseInfo'[r.case] = caseInfo[r.case]
    BY <1>1, <1>2, <1>4, <1>5
  <2>2. Told(r)
    BY <1>1, <1>5 DEF Reported
  <2> QED BY <1>1, <2>1, <2>2 DEF Told, OwnOnly
<1>6. CASE reports' = reports
  <2>1. \A i \in 1..L : Told(reports[i])'
    <3> SUFFICES ASSUME NEW i \in 1..L PROVE Told(reports[i])'
      OBVIOUS
    <3> PICK r : r = reports[i]
      OBVIOUS
    <3>1. Told(r)' /\ reports'[i] = r
      BY <1>5, <1>6
    <3> QED BY <3>1 DEF Told, OwnOnly
  <2> QED BY <1>1, <1>6, <2>1 DEF Reported
<1>7. ASSUME NEW a \in Answer, Verdict(a) PROVE Reported'
  <2> DEFINE r == [case |-> Case, answer |-> a, setup |-> caseInfo[Case].setup]
  <2>1. AtCase /\ Case \in Cases /\ caseInfo[Case] \in InfoOf(Case)
    BY <1>1, <1>7, AtHandIs DEF Verdict
  <2>2. r \in Reports /\ r.case = Case
    BY <2>1 DEF InfoOf
  <2>3. \A q : q = r => Told(q)'
    BY <1>7, CaseIsTold DEF SetupInv, Verdict
  <2>4. reports' = Append(reports, r)
    BY <1>7 DEF Verdict, Report
  <2> HIDE DEF r, Reports
  <2>5. /\ reports' \in Seq(Reports) /\ DOMAIN reports' = 1..L + 1
        /\ \A i \in 1..L : reports'[i] = reports[i]
        /\ reports'[L + 1] = r
    BY <1>1, <2>2, <2>4, AppendProperties, LenProperties
  <2>6. \A i, j \in 1..L + 1 : i # j => reports'[i].case # reports'[j].case
    <3>1. \A i, j \in 1..L : i # j => reports[i].case # reports[j].case
      BY <1>1 DEF Reported
    <3>2. \A i \in 1..L : reports[i].case # r.case
      BY <1>4, <2>1, <2>2
    <3>3. \A i \in 1..L + 1 : i \in 1..L \/ i = L + 1
      BY <1>1
    <3> QED BY <2>5, <3>1, <3>2, <3>3
  <2>7. ASSUME NEW i \in 1..L + 1 PROVE \E q : q = reports'[i] /\ Told(q)'
    <3>1. CASE i \in 1..L
      BY <1>5, <2>5, <3>1
    <3>2. CASE i = L + 1
      BY <2>3, <2>5, <3>2
    <3> QED BY <1>1, <3>1, <3>2
  <2>8. \A i \in 1..L + 1 : Told(reports[i])'
    <3> SUFFICES ASSUME NEW i \in 1..L + 1 PROVE Told(reports[i])'
      OBVIOUS
    <3> PICK q : q = reports'[i] /\ Told(q)'
      BY <2>7
    <3> QED BY DEF Told, OwnOnly
  <2>9. reports' \in Seq([case : Cases', answer : Answer', setup : {"own", "fresh", "rebuilt", "reused", "failed"}])
    BY <1>1, <2>5 DEF Reports
  <2> QED BY <1>1, <2>5, <2>6, <2>8, <2>9 DEF Reported
<1> QED BY <1>6, <1>7, VerdictsAre

-----------------------------------------------------------------------------
(* No case is forgotten. *)
(* No piece that was passed comes to be wanted later. *)
LEMMA WantedIsOver ==
  ASSUME SetupInv, AllIn, OwnFirst, [Next]_vars, NEW n \in DOMAIN queue, n < idx \/ (n = idx /\ Here.kind = "case"),
         NEW i, i = queue[n], Wanted(i)'
  PROVE  Wanted(i)
<1>1. /\ FuzzTypes /\ SentIsPast /\ plan' = plan /\ n \in Int /\ idx \in Int /\ i \in Items /\ i.t \in Targets
  <2>1. FuzzTypes /\ SentIsPast /\ plan' = plan
    BY StepsAre DEF SetupInv
  <2>2. n \in Int /\ idx \in Int /\ i \in Items
    BY <2>1, QueueFacts
  <2> QED BY <2>1, <2>2, ItemsAre DEF FuzzTypes
<1>2. i.kind = "case" /\ group'[i.t].passed /\ (RunsAfterPlan(i) \/ ~end')
  BY <1>1, PlanStays DEF Wanted
<1>3. CASE end' = end /\ \A t \in Targets : group'[t].passed = group[t].passed
  BY <1>1, <1>2, <1>3 DEF Wanted
<1>4. CASE /\ AtHand /\ Here.kind = "own" /\ ~end
           /\ \A t \in Targets : t = Here.t \/ group'[t].passed = group[t].passed
  <2>1. i.t # Here.t
    BY <1>1, <1>4, OwnIsBefore
  <2> QED BY <1>1, <1>2, <1>4, <2>1 DEF Wanted
<1> QED BY <1>3, <1>4, PassedIs

(* A case that goes out of sight is not wanted, or it is answered. *)
LEMMA CaseIsSeenTo ==
  ASSUME SetupInv, [Next]_vars, AtHand, Here.kind = "case", idx' = idx + 1, Wanted(Here)
  PROVE  \/ \E a \in Answer : reports' = Report(a)
         \/ \A c : c = Case => StillDue(c[1], c[2])'
<1> USE DEF history
<1>1. /\ FuzzTypes /\ Blocks /\ LeftOnce /\ plan' = plan /\ idx \in Int
  BY StepsAre, QueueFacts DEF SetupInv
<1>2. Due(Here)
  BY DEF Wanted, Due
<1>3. CASE CaseAnswered
  <2>1. PICK a \in Answer :
          \/ idx' = idx
          \/ NextItem /\ queue' = Again
          \/ reports' = Report(a)
    BY <1>3 DEF CaseAnswered, AbortSent, Rebuild, CaseJudged
  <2>2. CASE queue' = Again
    <3>1. /\ Here.t \in Targets /\ plan[Here.t].setup \in Nat /\ Here.c \in 1..plan[Here.t].cases
          /\ Case[1] = Here.t /\ Case[2] = Here.c
      BY <1>1, AtHandIs
    <3> PICK w \in Nat : w = plan[Here.t].setup + 1
      BY <3>1
    <3>2. \A k \in 1..w : idx + k \in ToCome' /\ queue'[idx + k] = CaseItem(Here.t, Here.c, k)
      BY <1>1, <2>2, AgainKeeps
    <3>3. 1 \in 1..w /\ w \in 1..w
      BY <3>1
    <3>4. CaseItem(Here.t, Here.c, 1).t = Here.t /\ CaseItem(Here.t, Here.c, 1).c = Here.c
      BY <1>1, <3>1, <3>3, Pieces
    <3> PICK n : n = idx + 1
      OBVIOUS
    <3>5. n \in ToCome' /\ queue'[n].t = Here.t /\ queue'[n].c = Here.c
      BY <3>2, <3>3, <3>4
    <3> QED BY <3>1, <3>5 DEF StillDue
  <2> QED BY <1>1, <2>1, <2>2
<1>4. CASE ReportUnsent
  BY <1>4 DEF ReportUnsent, Answer
<1>5. CASE PassOver
  BY <1>2, <1>5 DEF PassOver
<1>6. CASE Interrupt \/ AbortBetween \/ Choose \/ QueueEnds \/ Verify \/ SkipStopped \/ SkipFailed
           \/ Reuse \/ SendCopy \/ CopyAnswered \/ SendOwn \/ OwnAnswered \/ SendCase \/ Returned \/ UNCHANGED vars
  <2>1. idx' = idx
    BY <1>6 DEF Interrupt, AbortBetween, Choose, QueueEnds, Verify, SkipStopped, SkipFailed, Copying,
       Reuse, SendCopy, CopyAnswered, SendOwn, OwnAnswered, SendCase, Returned, vars
  <2> QED BY <1>1, <2>1
<1> QED BY <1>3, <1>4, <1>5, <1>6 DEF Next, Progress

(* A case that was passed and is wanted is answered or goes again. *)
LEMMA NoneForgottenKept ==
  ASSUME SetupInv, AllIn, OwnFirst, Reported, NoneForgotten, [Next]_vars
  PROVE  NoneForgotten'
<1> DEFINE Reports == [case : Cases, answer : Answer, setup : {"own", "fresh", "rebuilt", "reused", "failed"}]
           L == Len(reports)
<1>1. FuzzTypes /\ Blocks /\ LeftOnce /\ plan' = plan /\ reports \in Seq(Reports)
  BY StepsAre DEF SetupInv, Reported
<1>2. /\ Len(queue) \in Nat /\ DOMAIN queue = 1..Len(queue) /\ idx \in Nat \ {0}
      /\ \A n \in DOMAIN queue : queue[n] \in Items
      /\ (AtHand <=> idx \in DOMAIN queue)
  BY <1>1, QueueFacts
<1> HIDE DEF Reports
<1>3. ASSUME NEW a \in Answer, reports' = Report(a), AtCase
      PROVE  \A c : Answered(c) \/ c = Case => Answered(c)'
  <2>1. L \in Nat /\ DOMAIN reports = 1..L
    BY <1>1, LenProperties
  <2> PICK r : r = [case |-> Case, answer |-> a, setup |-> caseInfo[Case].setup]
    OBVIOUS
  <2>2. reports' = Append(reports, r) /\ r.case = Case /\ r \in Reports
    <3>1. Case \in Cases /\ caseInfo[Case] \in InfoOf(Case)
      BY <1>1, <1>3, AtHandIs DEF AtCase
    <3> QED BY <1>3, <3>1 DEF Report, Reports, InfoOf
  <2>3. /\ DOMAIN reports' = 1..L + 1
        /\ \A i \in 1..L : reports'[i] = reports[i]
        /\ reports'[L + 1] = r
    BY <1>1, <2>1, <2>2, AppendProperties, LenProperties
  <2>4. L + 1 \in DOMAIN reports' /\ \A i \in 1..L : i \in DOMAIN reports'
    BY <2>1, <2>3
  <2> QED BY <2>1, <2>2, <2>3, <2>4 DEF Answered
<1>4. \A c : Answered(c) => Answered(c)'
  <2>1. CASE reports' = reports
    BY <2>1 DEF Answered
  <2>2. CASE \E a \in Answer : Verdict(a)
    <3>1. AtCase
      BY <1>1, <2>2, AtHandIs DEF Verdict
    <3> QED BY <1>3, <2>2, <3>1 DEF Verdict
  <2> QED BY <2>1, <2>2, VerdictsAre
(* Whatever case goes out of sight has its last piece at hand. *)
<1>5. ASSUME AtHand, queue' = queue, idx' = idx + 1, Here.kind # "case", NEW t \in Targets, NEW c \in 1..plan[t].cases,
             StillDue(t, c)
      PROVE  StillDue(t, c)'
  <2> PICK m \in ToCome : queue[m].t = t /\ queue[m].c = c
    BY <1>5 DEF StillDue
  <2>1. ToCome' = ToCome \ {idx} /\ ToCome = idx..Len(queue)
    BY <1>1, <1>5, AdvanceKeeps, QueueFacts
  <2>2. CASE m # idx
    <3>1. m \in ToCome' /\ queue'[m].t = t /\ queue'[m].c = c
      BY <1>5, <2>1, <2>2
    <3> QED BY <3>1 DEF StillDue
  <2>3. CASE m = idx
    <3>1. Here.t = t /\ Here.c = c /\ Here \in Items
      BY <1>1, <1>5, <2>3, AtHandIs DEF Here
    <3>2. c # 0
      <4>1. plan[t].cases \in Nat
        BY <1>1, PlanFacts DEF FuzzTypes
      <4> QED BY <4>1
    <3>3. Here.kind = "copy"
      BY <1>1, <1>5, <3>1, <3>2, ItemsAre DEF FuzzTypes
    <3>4. /\ Here.k + 1 \in 1..plan[t].setup + 1
          /\ idx + 1 \in DOMAIN queue /\ queue[idx + 1] = CaseItem(t, c, Here.k + 1)
      <4>1. Here.k \in 1..plan[t].setup /\ plan[t].setup \in Nat
        BY <1>1, <1>5, <3>1, <3>3, AtHandIs
      <4> QED BY <1>1, <1>5, <3>1, <3>3, <4>1, NextPiece
    <3>5. queue[idx + 1].t = t /\ queue[idx + 1].c = c
      BY <1>1, <3>4, Pieces
    <3> PICK n : n = idx + 1
      OBVIOUS
    <3>6. n \in ToCome' /\ queue'[n].t = t /\ queue'[n].c = c
      BY <1>2, <1>5, <2>1, <3>4, <3>5
    <3> QED BY <3>6 DEF StillDue
  <2> QED BY <2>2, <2>3
<1>6. ASSUME NEW n \in DOMAIN queue, n < idx', NEW i, i = queue[n], Wanted(i)'
      PROVE  Answered(<<i.t, i.c>>)' \/ StillDue(i.t, i.c)'
  <2>1. i \in Items /\ i.kind = "case"
    BY <1>2, <1>6 DEF Wanted
  <2>2. /\ i.t \in Targets /\ i.c \in 1..plan[i.t].cases /\ i = CaseItem(i.t, i.c, plan[i.t].setup + 1)
    BY <1>1, <2>1, PieceFacts
  <2>3. n < idx \/ (n = idx /\ idx' = idx + 1 /\ AtHand /\ i = Here)
    <3>1. idx' = idx \/ idx' = idx + 1
      BY StepsAre
    <3>2. n \in Int /\ idx \in Int
      BY <1>2
    <3> QED BY <1>2, <1>6, <3>1, <3>2 DEF Here
  <2>4. Wanted(i)
    BY <1>6, <2>1, <2>3, WantedIsOver DEF Here
  <2>5. Answered(<<i.t, i.c>>) \/ StillDue(i.t, i.c)
    <3>1. CASE n < idx
      BY <1>6, <2>4, <3>1 DEF NoneForgotten
    <3>2. CASE n = idx /\ i = Here /\ AtHand
      <4>1. idx \in ToCome
        BY <1>2, <3>2 DEF ToCome
      <4> QED BY <3>2, <4>1 DEF StillDue, Here
    <3> QED BY <2>3, <3>1, <3>2
  <2>6. CASE Answered(<<i.t, i.c>>)
    BY <1>4, <2>6
  <2>7. CASE StillDue(i.t, i.c) /\ queue' = queue /\ idx' = idx
    BY <1>1, <2>7, StayKeeps
  <2>8. CASE StillDue(i.t, i.c) /\ AtHand /\ queue' = queue /\ idx' = idx + 1
    <3>1. CASE Here.kind # "case"
      BY <1>5, <2>2, <2>8, <3>1
    <3>2. CASE Here.kind = "case" /\ Here.t = i.t /\ Here.c = i.c
      <4>1. Here \in Items
        BY <1>1, <2>8, AtHandIs
      <4>2. Here = CaseItem(Here.t, Here.c, plan[Here.t].setup + 1) /\ AtCase
        BY <1>1, <2>8, <3>2, <4>1, PieceFacts, AtHandIs
      <4>3. Here = i
        BY <2>2, <3>2, <4>2
      <4>4. \/ \E a \in Answer : reports' = Report(a)
            \/ \A c : c = Case => StillDue(c[1], c[2])'
        BY <2>4, <2>8, <3>2, <4>3, CaseIsSeenTo
      <4>5. CASE \E a \in Answer : reports' = Report(a)
        <5>1. <<i.t, i.c>> = Case
          BY <3>2 DEF Case
        <5> QED BY <1>3, <4>2, <4>5, <5>1
      <4>6. CASE \A c : c = Case => StillDue(c[1], c[2])'
        <5> PICK c : c = Case
          OBVIOUS
        <5>1. c[1] = i.t /\ c[2] = i.c
          BY <3>2 DEF Case
        <5> QED BY <4>6, <5>1
      <4> QED BY <4>4, <4>5, <4>6
    <3>3. CASE Here.kind = "case" /\ ~(Here.t = i.t /\ Here.c = i.c)
      <4> PICK m \in ToCome : queue[m].t = i.t /\ queue[m].c = i.c
        BY <2>8 DEF StillDue
      <4>1. m # idx
        BY <3>3 DEF Here
      <4>2. m \in ToCome' /\ queue'[m].t = i.t /\ queue'[m].c = i.c
        BY <1>1, <2>8, <4>1, AdvanceKeeps
      <4> QED BY <4>2 DEF StillDue
    <3> QED BY <3>1, <3>2, <3>3
  <2>9. CASE StillDue(i.t, i.c) /\ AtHand /\ Here.kind = "case" /\ queue' = Again /\ idx' = idx + 1
    <3> PICK w \in Nat : w = plan[Here.t].setup + 1
      BY <1>1, <2>9, AtHandIs
    <3>1. /\ \A k \in 1..w : idx + k \in ToCome' /\ queue'[idx + k] = CaseItem(Here.t, Here.c, k)
          /\ \A l \in ToCome : l # idx => l + w \in ToCome' /\ queue'[l + w] = queue[l]
      BY <1>1, <2>9, AgainKeeps
    <3> PICK m \in ToCome : queue[m].t = i.t /\ queue[m].c = i.c
      BY <2>9 DEF StillDue
    <3>2. CASE m # idx
      <4> PICK l : l = m + w
        OBVIOUS
      <4>1. l \in ToCome' /\ queue'[l].t = i.t /\ queue'[l].c = i.c
        BY <3>1, <3>2
      <4> QED BY <4>1 DEF StillDue
    <3>3. CASE m = idx
      <4>1. /\ Here.t \in Targets /\ plan[Here.t].setup \in Nat /\ Here.c \in 1..plan[Here.t].cases
            /\ Here.t = i.t /\ Here.c = i.c
        BY <1>1, <2>9, <3>3, AtHandIs DEF Here
      <4>2. 1 \in 1..w
        BY <4>1
      <4>3. CaseItem(Here.t, Here.c, 1).t = Here.t /\ CaseItem(Here.t, Here.c, 1).c = Here.c
        BY <1>1, <4>1, <4>2, Pieces
      <4> PICK l : l = idx + 1
        OBVIOUS
      <4>4. l \in ToCome' /\ queue'[l].t = i.t /\ queue'[l].c = i.c
        BY <3>1, <4>1, <4>2, <4>3
      <4> QED BY <4>4 DEF StillDue
    <3> QED BY <3>2, <3>3
  <2>10. Ready
    BY DEF SetupInv
  <2> QED BY <2>5, <2>6, <2>7, <2>8, <2>9, <2>10, StepKinds
<1>7. ASSUME NEW n \in DOMAIN queue', n < idx' PROVE n \in DOMAIN queue /\ queue'[n] = queue[n]
  <2>1. CASE queue' = queue
    BY <1>7, <2>1
  <2>2. CASE AtHand /\ Here.kind = "case" /\ queue' = Again /\ idx' = idx + 1
    <3>1. \A m \in DOMAIN queue' : m <= idx => m \in DOMAIN queue /\ queue'[m] = queue[m]
      BY <1>1, <2>2, AgainKeeps
    <3>2. n \in Int
      <4>1. queue' \in Seq(Items)
        BY <1>1, <2>2, AgainIs
      <4> QED BY <1>7, <4>1, LenProperties
    <3>3. n <= idx
      BY <1>2, <1>7, <2>2, <3>2
    <3> QED BY <1>7, <3>1, <3>3
  <2>3. Ready
    BY DEF SetupInv
  <2> QED BY <2>1, <2>2, <2>3, StepKinds
<1>8. SUFFICES ASSUME NEW n \in DOMAIN queue', n < idx', NEW i, i = queue'[n], Wanted(i)'
               PROVE  Answered(<<i.t, i.c>>)' \/ StillDue(i.t, i.c)'
  BY DEF NoneForgotten, Wanted
<1> QED BY <1>6, <1>7, <1>8

(* A run is done when its queue is. *)
LEMMA EndKept ==
  ASSUME SetupInv, pc = "done" => ~AtHand, [Next]_vars
  PROVE  pc' = "done" => ~AtHand'
<1> USE DEF history
<1>1. idx \in Nat /\ Len(queue) \in Nat
  BY QueueFacts DEF SetupInv
<1>2. CASE Interrupt \/ Returned \/ UNCHANGED vars
  BY <1>2 DEF Interrupt, Returned, vars, AtHand
<1>3. CASE QueueEnds \/ Verify
  BY <1>1, <1>3 DEF QueueEnds, Verify, AtHand
<1>4. CASE PassOver \/ AbortBetween \/ Choose \/ SkipStopped \/ SkipFailed
           \/ Reuse \/ SendCopy \/ CopyAnswered \/ SendOwn \/ OwnAnswered \/ ReportUnsent \/ SendCase \/ CaseAnswered
  BY <1>4 DEF PassOver, AbortBetween, Choose, SkipStopped, SkipFailed, Copying, NextItem, AbortSent,
     Reuse, SendCopy, CopyAnswered, CopyPassed, CopyFailed, SendOwn, OwnAnswered, ReportUnsent, SendCase, CaseAnswered
<1> QED BY <1>2, <1>3, <1>4 DEF Next, Progress

(* What the invariants say of a report. *)
LEMMA ReportHolds ==
  ASSUME SetupInv, ReportInv
  PROVE  ReportIsTrue
<1>1. FuzzTypes /\ copySent \subseteq Copies
  BY DEF SetupInv, FuzzTypes
<1>2. /\ \A i, j \in DOMAIN reports : i # j => reports[i].case # reports[j].case
      /\ \A i \in DOMAIN reports : Told(reports[i])
  BY DEF ReportInv, Reported
<1>3. \A i \in DOMAIN reports :
        LET r == reports[i]
            own == caseInfo[r.case].on = [k \in 1..plan[r.case[1]].setup |-> r.case[2]]
        IN  /\ r.setup = "reused" => ~own /\ r.answer # "stale"
            /\ r.setup \in {"fresh", "rebuilt"} => own
            /\ (r.setup = "rebuilt" => caseInfo[r.case].stale)
            /\ r.setup = "failed" => r.answer = "notSent"
  BY <1>2 DEF Told, OwnOnly
<1>4. ASSUME pc = "done"
      PROVE  /\ Expected \subseteq {reports[i].case : i \in DOMAIN reports}
             /\ skipped + Cardinality(copySent) = Cardinality({x \in Copies : group[x[1][1]].passed})
  <2>1. ToCome = {} /\ \A n \in DOMAIN queue : n < idx
    <3>1. ~(idx <= Len(queue))
      BY <1>4 DEF ReportInv, AtHand
    <3> QED BY <1>1, <3>1, QueueFacts
  <2>2. \A t, c : ~StillDue(t, c)
    BY <2>1 DEF StillDue
  <2>3. Expected \subseteq {reports[i].case : i \in DOMAIN reports}
    <3> SUFFICES ASSUME NEW n \in DOMAIN queue, NEW i, i = queue[n], Wanted(i)
                 PROVE  \E j \in DOMAIN reports : reports[j].case = <<i.t, i.c>>
      BY DEF Expected, Wanted
    <3> QED BY <2>1, <2>2 DEF ReportInv, NoneForgotten, Answered
  <2> DEFINE All == {x \in Copies : group[x[1][1]].passed}
  <2>4. SkippedAre = All \ copySent /\ copySent \subseteq All
    BY <1>1, <2>1 DEF SkippedAre, Left, ReportInv, Counts
  <2>5. IsFiniteSet(All)
    BY <1>1, CopiesAreFinite, FS_Subset
  <2> HIDE DEF All
  <2>6. All \cap copySent = copySent
    BY <2>4
  <2>7. Cardinality(SkippedAre) = Cardinality(All) - Cardinality(copySent)
    BY <2>4, <2>5, <2>6, FS_Difference
  <2>8. Cardinality(All) \in Nat /\ Cardinality(copySent) \in Nat
    BY <2>4, <2>5, FS_Subset, FS_CardinalityType
  <2>9. skipped = Cardinality(SkippedAre)
    BY DEF ReportInv, Counts
  <2>10. skipped + Cardinality(copySent) = Cardinality(All)
    BY <2>7, <2>8, <2>9
  <2> QED BY <2>3, <2>10 DEF All
<1> QED BY <1>2, <1>3, <1>4 DEF ReportIsTrue

(* ReportInv holds after any step. *)
LEMMA ReportKept ==
  ASSUME SetupInv, ReportInv, [Next]_vars
  PROVE  ReportInv'
<1>1. /\ AllIn /\ OwnFirst /\ Labels /\ Reported /\ NoneForgotten /\ Counts
      /\ pc = "done" => ~AtHand
  BY DEF ReportInv
<1>2. AllIn' /\ OwnFirst'
  BY <1>1, PlacesKept
<1>3. Labels'
  BY <1>1, LabelsKept
<1>4. Reported'
  BY <1>1, ReportedKept
<1>5. NoneForgotten'
  BY <1>1, NoneForgottenKept
<1>6. Counts'
  BY <1>1, CountsKept
<1>7. pc' = "done" => ~AtHand'
  BY <1>1, EndKept
<1> QED BY <1>2, <1>3, <1>4, <1>5, <1>6, <1>7 DEF ReportInv

(* Whatever is interrupted, fails or is sent again, no case is reported twice
   and a label says what the case ran on; and a run that is done has reported
   every case it had to and counted the copies it did not send (engine.go Run,
   fuzz.go rebuild). *)
THEOREM ReportsAreTrue == Spec => []ReportIsTrue
<1>1. Init => SetupInv /\ ReportInv
  BY SetupStarts, ReportStarts
<1>2. SetupInv /\ ReportInv /\ [Next]_vars => (SetupInv /\ ReportInv)'
  BY SetupKept, ReportKept
<1> QED BY <1>1, <1>2, ReportHolds, PTL DEF Spec
=============================================================================
