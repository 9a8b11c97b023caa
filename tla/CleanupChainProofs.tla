-------------------------- MODULE CleanupChainProofs --------------------------
(***************************************************************************)
(* What runCleanup promises for any plan, graph and answers: each cleanup  *)
(* is settled once, the last created first, under an ID of its own, and a  *)
(* chain goes on until something stops it.                                 *)
(***************************************************************************)
EXTENDS CleanupChain, Integers, FiniteSetTheorems, SequenceTheorems, WellFoundedInduction, TLAPS

IdSet == Node \X Nat
For == IdSet \cup {None}
Done == {"ok", "strict"}
ResultSet == [id : IdSet, node : Node, step : Nat, cleanupFor : For, answer : Answer \cup {"cycle"}]
SkipSet == [node : Node, cleanupFor : For, reason : {"released", "when"}]
EntrySet == [node : Node, for : Node \cup {None}, step : Nat, cleanupFor : For]

AtHand == pc \in {"reach", "sending"}

Types ==
  /\ case \in Cases
  /\ pc \in {"next", "reach", "sending", "done"}
  /\ due \subseteq DOMAIN case.cleanup /\ owed \subseteq Kept
  /\ before \in Seq(Node)
  /\ results \in Seq(ResultSet) /\ skips \in Seq(SkipSet)
  /\ AtHand => entry \in EntrySet
  /\ pc = "done" => due = {} /\ owed = {}

(* The IDs of the results rs are theirs alone. *)
OwnIds(rs) ==
  \A i \in DOMAIN rs : /\ rs[i].id \notin PlanStepIds
                       /\ \A j \in DOMAIN rs : rs[i].id = rs[j].id => i = j

(* The result i of rs was reached from the one before it. *)
Linked(rs, i) ==
  /\ i > 1 /\ rs[i - 1].id = rs[i].cleanupFor
  /\ rs[i - 1].answer \in Done /\ rs[i].node = case.pairing[rs[i - 1].node]
Links(rs) == \A i \in DOMAIN rs : rs[i].cleanupFor \in PlanStepIds \cup {None} \/ Linked(rs, i)

(* The last resource created comes first, after the plan's own cleanups. *)
Falling(rs) == \A i, j \in DOMAIN rs : i < j => rs[i].step = 0 \/ rs[i].step >= rs[j].step

(* What is at hand is one of the plan's own cleanups, the pairing of a step, or
   the next in the chain of the last result. *)
OfPlan == before = <<>> /\ entry.step = 0 /\ entry.for = None /\ entry.cleanupFor = None
OfStep ==
  /\ before = <<>> /\ due = {} /\ entry.step \in Kept \ owed
  /\ entry = RegisteredEntry(entry.step)
OfChain ==
  /\ before # <<>> /\ results # <<>>
  /\ LET r == results[Len(results)]
     IN  /\ r.id = entry.cleanupFor /\ r.answer \in Done /\ r.step = entry.step
         /\ entry.node = case.pairing[r.node]

EntryInv ==
  /\ AtHand => OfPlan \/ OfStep \/ OfChain
  /\ pc = "sending" => ~Released

(* What is left is older than what is at hand and what was done. *)
OrderInv ==
  /\ \A i \in DOMAIN results : results[i].step # 0 =>
       /\ due = {} /\ \A s \in owed : s < results[i].step
       /\ AtHand => entry.step # 0 /\ entry.step <= results[i].step
  /\ AtHand /\ entry.step # 0 => due = {} /\ \A s \in owed : s < entry.step

(* The cleanup of step s has not been settled, or by one result or skip. *)
NotYet(s) == s \in owed \/ (AtHand /\ before = <<>> /\ entry.step = s)
ByNone(s) == ResultsOf(IdOf(s)) = {} /\ SkipsOf(IdOf(s)) = {}
ByOne(s) ==
  \/ SkipsOf(IdOf(s)) = {} /\ \E i \in DOMAIN results : ResultsOf(IdOf(s)) = {i}
  \/ ResultsOf(IdOf(s)) = {} /\ \E i \in DOMAIN skips : SkipsOf(IdOf(s)) = {i}

SettledInv ==
  \A s \in case.registered :
    /\ IF s \in Kept /\ ~NotYet(s) THEN ByOne(s) ELSE ByNone(s)
    /\ <<s, Pairing(s)>> \in case.released => ResultsOf(IdOf(s)) = {}

(* Why no chain stops at result i, or that it is at hand. *)
GoesFurther(i) ==
  LET then == case.pairing[results[i].node]
  IN  results[i].answer \in Done /\ then # None =>
        \/ ResultsOf(results[i].id) # {}
        \/ \E k \in SkipsOf(results[i].id) : skips[k].reason = "when"
        \/ Listings(then) # {} /\ Matching(then) = {}
        \/ AtHand /\ before # <<>> /\ entry.cleanupFor = results[i].id

ChainInv ==
  /\ Types /\ OwnIds(results) /\ Links(results) /\ Falling(results)
  /\ EntryInv /\ OrderInv /\ SettledInv
  /\ \A i \in DOMAIN results : GoesFurther(i)

-----------------------------------------------------------------------------
(* The data of a case. *)
LEMMA CaseFacts ==
  ASSUME case \in Cases
  PROVE  /\ case.pairing \in [Node -> Node \cup {None}]
         /\ case.steps \in Seq(Node) /\ Len(case.steps) \in Nat
         /\ DOMAIN case.steps = 1..Len(case.steps)
         /\ \A s \in DOMAIN case.steps : case.steps[s] \in Node
         /\ \A s \in case.registered :
              s \in DOMAIN case.steps /\ s \in Nat \ {0} /\ Pairing(s) \in Node
         /\ case.cleanup \in Seq([node : Node, runOn : RunOn])
         /\ DOMAIN case.cleanup = 1..Len(case.cleanup) /\ Len(case.cleanup) \in Nat
         /\ \A i \in DOMAIN case.cleanup : case.cleanup[i].node \in Node
         /\ case.checks \subseteq IdSet /\ IsFiniteSet(case.checks)
<1>1. case \in CaseSet
  BY CleanupAssumption
<1>2. /\ case.pairing \in [Node -> Node \cup {None}] /\ case.steps \in Seq(Node)
      /\ case.cleanup \in Seq([node : Node, runOn : RunOn])
  BY <1>1 DEF CaseSet
<1>3. /\ DOMAIN case.steps = 1..Len(case.steps) /\ Len(case.steps) \in Nat
      /\ \A s \in DOMAIN case.steps : case.steps[s] \in Node
  BY <1>2
<1>4. /\ DOMAIN case.cleanup = 1..Len(case.cleanup) /\ Len(case.cleanup) \in Nat
      /\ \A i \in DOMAIN case.cleanup : case.cleanup[i].node \in Node
  <2>1. \A i \in 1..Len(case.cleanup) : case.cleanup[i] \in [node : Node, runOn : RunOn]
    BY <1>2, ElementOfSeq
  <2>2. \A i \in 1..Len(case.cleanup) : case.cleanup[i].node \in Node
    BY <2>1
  <2> QED BY <1>2, <2>2, LenProperties
<1>5. ASSUME NEW s \in case.registered
      PROVE  s \in DOMAIN case.steps /\ s \in Nat \ {0} /\ Pairing(s) \in Node
  <2>1. s \in DOMAIN case.steps /\ case.pairing[case.steps[s]] # None
    BY <1>5, CleanupAssumption
  <2> QED BY <1>2, <1>3, <2>1 DEF Pairing
<1>6. case.checks \subseteq IdSet /\ IsFiniteSet(case.checks)
  BY <1>1, CleanupAssumption DEF CaseSet, IdSet
<1> QED BY <1>2, <1>3, <1>4, <1>5, <1>6

(* A nonempty set of numbers has a least one. *)
LEMMA LeastExists ==
  ASSUME NEW S \in SUBSET Nat, S # {}
  PROVE  \E i \in S : \A j \in S : i <= j
<1>1. IsWellFoundedOn(OpToRel(<, Nat), Nat)
  BY NatLessThanWellFounded
<1>2. \E x \in S : \A y \in S : ~(<<y, x>> \in OpToRel(<, Nat))
  BY <1>1, WFMin
<1>3. PICK i \in S : \A j \in S : ~(<<j, i>> \in OpToRel(<, Nat))
  BY <1>2
<1>4. \A j \in S : <<j, i>> \in Nat \X Nat /\ <<j, i>>[1] = j /\ <<j, i>>[2] = i
  OBVIOUS
<1>5. \A j \in S : ~(j < i)
  BY <1>3, <1>4 DEF OpToRel
<1> QED BY <1>5

(* And one with a bound a greatest. *)
LEMMA GreatestExists ==
  ASSUME NEW n \in Nat, NEW S \in SUBSET (1..n), S # {}
  PROVE  \E i \in S : \A j \in S : j <= i
<1> DEFINE B == {k \in Nat : \A j \in S : j <= k}
<1>1. n \in B
  OBVIOUS
<1>2. PICK b \in B : \A k \in B : b <= k
  BY <1>1, LeastExists
<1>3. b \in S
  <2> SUFFICES ASSUME b \notin S PROVE FALSE
    OBVIOUS
  <2>1. \A j \in S : j <= b - 1 /\ j \in Nat \ {0}
    BY <1>2
  <2>2. b - 1 \in B
    <3>1. PICK j \in S : TRUE
      OBVIOUS
    <3>2. b - 1 \in Nat
      BY <1>2, <2>1, <3>1
    <3> QED BY <2>1, <3>2
  <2> QED BY <1>2, <2>2
<1> QED BY <1>2, <1>3

(* Two steps have two IDs. *)
LEMMA IdsDiffer ==
  ASSUME case \in Cases
  PROVE  /\ \A s \in DOMAIN case.steps : IdOf(s) \in IdSet
         /\ \A s, t \in DOMAIN case.steps : IdOf(s) = IdOf(t) => s = t
<1> DEFINE Same(s) == {u \in 1..s : case.steps[u] = case.steps[s]}
<1>1. ASSUME NEW s \in DOMAIN case.steps
      PROVE  IsFiniteSet(Same(s)) /\ Cardinality(Same(s)) \in Nat
  <2>0. s \in Nat
    BY CaseFacts
  <2>1. IsFiniteSet(1..s)
    BY <2>0, FS_Interval
  <2> QED BY <2>1, FS_Subset, FS_CardinalityType
<1>2. \A s \in DOMAIN case.steps : IdOf(s) \in IdSet
  BY <1>1, CaseFacts DEF IdOf, IdSet
<1>3. ASSUME NEW s \in DOMAIN case.steps, NEW t \in DOMAIN case.steps, s < t PROVE IdOf(s) # IdOf(t)
  <2> SUFFICES ASSUME IdOf(s) = IdOf(t) PROVE FALSE
    OBVIOUS
  <2>1. case.steps[s] = case.steps[t] /\ Cardinality(Same(s)) = Cardinality(Same(t))
    BY DEF IdOf
  <2>2. s \in Nat /\ t \in Nat /\ t >= 1
    BY CaseFacts
  <2>3. Same(s) \subseteq Same(t) /\ t \in Same(t) /\ t \notin Same(s)
    BY <1>3, <2>1, <2>2
  <2> QED BY <1>1, <2>1, <2>3, FS_Subset
<1>4. \A s \in DOMAIN case.steps : s \in Nat
  BY CaseFacts
<1> QED BY <1>2, <1>3, <1>4

(* There are finitely many IDs of steps and of results. *)
LEMMA IdsAreFinite ==
  ASSUME case \in Cases, results \in Seq(ResultSet)
  PROVE  IsFiniteSet(PlanStepIds) /\ IsFiniteSet(Ids)
<1>1. IsFiniteSet(PlanStepIds)
  <2> DEFINE f == [s \in DOMAIN case.steps |-> IdOf(s)]
             Own == {IdOf(s) : s \in DOMAIN case.steps}
  <2>1. f \in Surjection(DOMAIN case.steps, Own)
    BY DEF Surjection
  <2>2. DOMAIN case.steps = 1..Len(case.steps) /\ Len(case.steps) \in Int /\ 1 \in Int
    BY CaseFacts
  <2>3. IsFiniteSet(DOMAIN case.steps)
    BY <2>2, FS_Interval
  <2>4. IsFiniteSet(Own)
    BY <2>1, <2>3, FS_Surjection
  <2>5. PlanStepIds = Own \cup case.checks /\ IsFiniteSet(case.checks)
    BY CaseFacts DEF PlanStepIds
  <2> HIDE DEF Own
  <2> QED BY <2>4, <2>5, FS_Union
<1>2. IsFiniteSet(Ids)
  <2> DEFINE f == [i \in DOMAIN results |-> results[i].id]
  <2>1. f \in Surjection(DOMAIN results, Ids)
    BY DEF Surjection, Ids
  <2>2. DOMAIN results = 1..Len(results) /\ Len(results) \in Nat
    OBVIOUS
  <2>3. IsFiniteSet(DOMAIN results)
    BY <2>2, FS_Interval
  <2> QED BY <2>1, <2>3, FS_Surjection
<1> QED BY <1>1, <1>2

(* An ID that is free is one, and is not used: of one more number than there
   are used IDs, some gives a free one. *)
LEMMA FreeIsFree ==
  ASSUME NEW n \in Node, NEW used, IsFiniteSet(used)
  PROVE  Free(n, used) \in IdSet /\ Free(n, used) \notin used
<1> DEFINE c == Cardinality(used)
           N == 1..c + 1
           P(id) == id \notin used /\ \A k \in 1..id[2] - 1 : <<n, k>> \in used
           W == {k \in N : <<n, k>> \notin used}
<1>1. c \in Nat
  BY FS_CardinalityType
<1>2. W # {}
  <2> SUFFICES ASSUME \A k \in N : <<n, k>> \in used PROVE FALSE
    OBVIOUS
  <2> DEFINE f == [k \in N |-> <<n, k>>]
  <2>1. f \in Injection(N, used)
    BY DEF Injection, IsInjective
  <2>2. Cardinality(N) <= c
    BY <2>1, FS_Injection
  <2>3. Cardinality(N) = c + 1
    <3> HIDE DEF c
    <3>1. 1 \in Int /\ c + 1 \in Int /\ ~(1 > c + 1)
      BY <1>1
    <3> QED BY <1>1, <3>1, FS_Interval
  <2> QED BY <1>1, <2>2, <2>3
<1>3. W \in SUBSET Nat
  BY <1>1
<1>4. PICK k \in W : \A j \in W : k <= j
  <2> HIDE DEF W
  <2> QED BY <1>2, <1>3, LeastExists
<1>5. <<n, k>> \in {<<n, j>> : j \in N} /\ P(<<n, k>>)
  BY <1>1, <1>4
<1>6. Free(n, used) \in {<<n, j>> : j \in N} /\ P(Free(n, used))
  <2>1. Free(n, used) = CHOOSE id \in {<<n, j>> : j \in N} : P(id)
    BY DEF Free
  <2> HIDE DEF N, P
  <2> QED BY <1>5, <2>1
<1> QED BY <1>1, <1>6 DEF IdSet

(* The next ID is new. *)
LEMMA NextIdIsNew ==
  ASSUME case \in Cases, results \in Seq(ResultSet), NEW n \in Node, NEW also, IsFiniteSet(also)
  PROVE  NextId(n, also) \in IdSet /\ NextId(n, also) \notin PlanStepIds \cup Ids \cup also
<1>1. IsFiniteSet(PlanStepIds \cup Ids \cup also)
  BY IdsAreFinite, FS_Union
<1> QED BY <1>1, FreeIsFree DEF NextId, Used, Ids

-----------------------------------------------------------------------------
(* What a result added to the end leaves as it was. *)
LEMMA Added ==
  ASSUME NEW rs \in Seq(ResultSet), NEW r \in ResultSet
  PROVE  /\ Append(rs, r) \in Seq(ResultSet) /\ Len(rs) \in Nat
         /\ DOMAIN rs = 1..Len(rs) /\ DOMAIN Append(rs, r) = 1..Len(rs) + 1
         /\ Len(Append(rs, r)) = Len(rs) + 1
         /\ \A i \in DOMAIN rs : Append(rs, r)[i] = rs[i]
         /\ Append(rs, r)[Len(rs) + 1] = r
  OBVIOUS

LEMMA AddedIsOwn ==
  ASSUME NEW rs \in Seq(ResultSet), NEW r \in ResultSet, OwnIds(rs),
         r.id \notin PlanStepIds, \A i \in DOMAIN rs : rs[i].id # r.id
  PROVE  OwnIds(Append(rs, r))
<1> DEFINE n == Len(rs) + 1
           q == Append(rs, r)
<1>1. /\ DOMAIN q = DOMAIN rs \cup {n} /\ n \notin DOMAIN rs
      /\ \A i \in DOMAIN rs : q[i] = rs[i]
      /\ q[n] = r
  BY Added
<1> HIDE DEF q, n
<1>2. OwnIds(q)
  BY <1>1 DEF OwnIds
<1> QED BY <1>2 DEF q

LEMMA AddedIsLinked ==
  ASSUME NEW rs \in Seq(ResultSet), NEW r \in ResultSet, Links(rs),
         \/ r.cleanupFor \in PlanStepIds \cup {None}
         \/ /\ rs # <<>> /\ rs[Len(rs)].id = r.cleanupFor /\ rs[Len(rs)].answer \in Done
            /\ r.node = case.pairing[rs[Len(rs)].node]
  PROVE  Links(Append(rs, r))
<1> DEFINE n == Len(rs) + 1
           q == Append(rs, r)
<1>1. /\ DOMAIN q = 1..n /\ DOMAIN rs = 1..n - 1 /\ n \in Nat /\ n >= 1
      /\ \A i \in 1..n - 1 : q[i] = rs[i]
      /\ q[n] = r
  BY Added
<1>2. ASSUME NEW i \in 1..n - 1 PROVE q[i].cleanupFor \in PlanStepIds \cup {None} \/ Linked(q, i)
  <2>1. rs[i].cleanupFor \in PlanStepIds \cup {None} \/ Linked(rs, i)
    BY <1>1 DEF Links
  <2>2. CASE rs[i].cleanupFor \in PlanStepIds \cup {None}
    BY <1>1, <2>2
  <2>3. CASE Linked(rs, i)
    <3>1. i > 1 /\ i - 1 \in 1..n - 1
      BY <1>1, <2>3 DEF Linked
    <3>2. q[i - 1] = rs[i - 1] /\ q[i] = rs[i]
      BY <1>1, <3>1
    <3> HIDE DEF q, n
    <3> QED BY <2>3, <3>1, <3>2 DEF Linked
  <2> QED BY <2>1, <2>2, <2>3
<1>3. r.cleanupFor \in PlanStepIds \cup {None} \/ Linked(q, n)
  <2>1. CASE rs # <<>> /\ rs[Len(rs)].id = r.cleanupFor /\ rs[Len(rs)].answer \in Done
             /\ r.node = case.pairing[rs[Len(rs)].node]
    <3>1. n > 1 /\ n - 1 = Len(rs) /\ n - 1 \in 1..n - 1
      BY <2>1
    <3>2. q[n - 1] = rs[Len(rs)] /\ q[n] = r
      BY <1>1, <3>1
    <3> HIDE DEF q, n
    <3> QED BY <2>1, <3>1, <3>2 DEF Linked
  <2> QED BY <2>1
<1> HIDE DEF q
<1>4. Links(q)
  BY <1>1, <1>2, <1>3 DEF Links
<1> QED BY <1>4 DEF q

LEMMA AddedFalls ==
  ASSUME NEW rs \in Seq(ResultSet), NEW r \in ResultSet, Falling(rs),
         \A i \in DOMAIN rs : rs[i].step = 0 \/ rs[i].step >= r.step
  PROVE  Falling(Append(rs, r))
<1> DEFINE n == Len(rs) + 1
           q == Append(rs, r)
<1>1. /\ DOMAIN q = 1..n /\ DOMAIN rs = 1..n - 1 /\ n \in Nat /\ n >= 1
      /\ \A i \in 1..n - 1 : q[i] = rs[i]
      /\ q[n] = r
  BY Added
<1> HIDE DEF q, n
<1>2. \A i, j \in 1..n : i < j => i \in 1..n - 1
  BY <1>1
<1>3. \A j \in 1..n : j = n \/ j \in 1..n - 1
  BY <1>1
<1>4. Falling(q)
  BY <1>1, <1>2, <1>3 DEF Falling
<1> QED BY <1>4 DEF q

(* The case says what these are. *)
LEMMA SameCase ==
  ASSUME case' = case
  PROVE  /\ PlanStepIds' = PlanStepIds /\ Kept' = Kept
         /\ \A s : IdOf(s)' = IdOf(s) /\ Pairing(s)' = Pairing(s)
                    /\ RegisteredEntry(s)' = RegisteredEntry(s)
         /\ \A n : Listings(n)' = Listings(n) /\ Matching(n)' = Matching(n)
<1>1. \A s : IdOf(s)' = IdOf(s) /\ Pairing(s)' = Pairing(s)
  BY DEF IdOf, Pairing
<1>2. \A n : Listings(n)' = Listings(n) /\ Matching(n)' = Matching(n)
  BY DEF Listings, Matching
<1>3. Paired' = Paired
  BY DEF Paired, HoldsPairings
<1>4. Kept' = Kept
  BY <1>1, <1>2, <1>3 DEF Kept, Allowed
<1>5. PlanStepIds' = PlanStepIds
  BY <1>1 DEF PlanStepIds
<1>6. \A s : RegisteredEntry(s)' = RegisteredEntry(s)
  BY <1>1 DEF RegisteredEntry, Entry
<1> QED BY <1>1, <1>2, <1>4, <1>5, <1>6

(* Results that stay keep their IDs, their links and their order. *)
LEMMA RecordsStay ==
  ASSUME OwnIds(results), Links(results), Falling(results), case' = case, results' = results
  PROVE  OwnIds(results)' /\ Links(results)' /\ Falling(results)'
  BY SameCase DEF OwnIds, Links, Linked, Falling

(* Nothing has been done when the cleanup starts. *)
LEMMA ChainStarts == Init => ChainInv
<1> SUFFICES ASSUME Init PROVE ChainInv
  OBVIOUS
<1>1. /\ case \in Cases /\ pc = "next" /\ due = Planned /\ owed = Kept /\ before = <<>>
      /\ results = <<>> /\ skips = <<>>
  BY DEF Init
<1>2. Types
  BY <1>1 DEF Types, AtHand, Planned
<1>3. OwnIds(results) /\ Links(results) /\ Falling(results)
  BY <1>1 DEF OwnIds, Links, Falling
<1>4. EntryInv /\ OrderInv
  BY <1>1 DEF EntryInv, OrderInv, AtHand
<1>5. ASSUME NEW s \in case.registered
      PROVE  ByNone(s) /\ (s \in Kept => NotYet(s)) /\ ResultsOf(IdOf(s)) = {}
  BY <1>1 DEF ByNone, NotYet, ResultsOf, SkipsOf
<1>6. SettledInv
  BY <1>5 DEF SettledInv
<1>7. \A i \in DOMAIN results : GoesFurther(i)
  BY <1>1
<1> QED BY <1>2, <1>3, <1>4, <1>6, <1>7 DEF ChainInv

(* While nothing is recorded, an entry that is taken up or sent, and one that
   is not taken up, leave what was settled as it was. *)
LEMMA NothingRecorded ==
  ASSUME ChainInv, UNCHANGED <<case, results, skips>>,
         \A s \in case.registered : NotYet(s)' = NotYet(s),
         AtHand => AtHand' /\ UNCHANGED <<entry, before>>
  PROVE  /\ OwnIds(results)' /\ Links(results)' /\ Falling(results)'
         /\ SettledInv' /\ (\A i \in DOMAIN results : GoesFurther(i))'
<1>1. OwnIds(results)' /\ Links(results)' /\ Falling(results)'
  BY RecordsStay DEF ChainInv
<1>2. \A x : ResultsOf(x)' = ResultsOf(x) /\ SkipsOf(x)' = SkipsOf(x)
  BY DEF ResultsOf, SkipsOf
<1>3. SettledInv'
  BY <1>2, SameCase DEF ChainInv, SettledInv, ByOne, ByNone
<1>4. ASSUME NEW i \in DOMAIN results PROVE GoesFurther(i)'
  BY <1>2, SameCase DEF ChainInv, GoesFurther
<1> QED BY <1>1, <1>3, <1>4

(* No step takes up, settles or leaves an entry. *)
LEMMA QuietSteps ==
  ASSUME ChainInv, BudgetEnds \/ Finish \/ Send \/ UNCHANGED vars
  PROVE  ChainInv'
<1>1. UNCHANGED <<case, due, owed, entry, before, results, skips>>
  BY DEF BudgetEnds, Finish, Send, vars
<1>2. /\ pc' = pc \/ (pc = "next" /\ pc' = "done" /\ due = {} /\ owed = {})
         \/ (pc = "reach" /\ pc' = "sending" /\ ~Released)
  BY DEF BudgetEnds, Finish, Send, vars
<1>3. AtHand' = AtHand
  BY <1>2 DEF AtHand
<1>4. Types'
  BY <1>1, <1>2, <1>3, SameCase DEF ChainInv, Types
<1>5. OfPlan' = OfPlan /\ OfStep' = OfStep /\ OfChain' = OfChain /\ Released' = Released
  BY <1>1, SameCase DEF OfPlan, OfStep, OfChain, Released, IsPairing
<1>6. EntryInv'
  BY <1>2, <1>3, <1>5 DEF ChainInv, EntryInv
<1>7. OrderInv'
  BY <1>1, <1>3 DEF ChainInv, OrderInv
<1>8. \A s : NotYet(s)' = NotYet(s)
  BY <1>1, <1>3 DEF NotYet
<1>9. /\ OwnIds(results)' /\ Links(results)' /\ Falling(results)'
      /\ SettledInv' /\ (\A i \in DOMAIN results : GoesFurther(i))'
  BY <1>1, <1>3, <1>8, NothingRecorded
<1> QED BY <1>4, <1>6, <1>7, <1>9 DEF ChainInv

(* The next of the plan's own cleanups comes before any step's. *)
LEMMA PlannedIsTakenUp ==
  ASSUME ChainInv, NextPlanned
  PROVE  ChainInv'
<1> DEFINE i == First(due)
           e == PlannedEntry(i)
<1>1. /\ pc = "next" /\ due # {} /\ due' = due \ {i} /\ entry' = e /\ before' = <<>> /\ pc' = "reach"
      /\ UNCHANGED <<case, owed, results, skips>>
  BY DEF NextPlanned, Starts
<1>2. Types /\ OrderInv
  BY DEF ChainInv
<1>3. i \in DOMAIN case.cleanup
  <2>1. due \in SUBSET Nat /\ due \subseteq DOMAIN case.cleanup
    BY <1>2, CaseFacts DEF Types
  <2>2. \E x \in due : \A y \in due : x <= y
    BY <1>1, <2>1, LeastExists
  <2>3. i \in due
    BY <2>2 DEF First
  <2> QED BY <2>1, <2>3
<1>4. /\ e.step = 0 /\ e.for = None /\ e.cleanupFor = None
      /\ e \in EntrySet
  <2>1. case.cleanup[i].node \in Node
    BY <1>2, <1>3, CaseFacts DEF Types
  <2> HIDE DEF i
  <2> QED BY <2>1 DEF PlannedEntry, Entry, EntrySet, For
<1> HIDE DEF e, i
<1>5. AtHand' /\ ~AtHand /\ pc' # "done" /\ pc' # "sending"
  BY <1>1 DEF AtHand
<1>6. Types'
  BY <1>1, <1>2, <1>4, <1>5, SameCase, EmptySeq DEF Types
<1>7. EntryInv'
  BY <1>1, <1>4, <1>5 DEF EntryInv, OfPlan
<1>8. OrderInv'
  BY <1>1, <1>2, <1>4, <1>5 DEF OrderInv
<1>9. \A s \in case.registered : NotYet(s)' = NotYet(s)
  <2>1. \A s \in case.registered : s # 0
    BY <1>2, CaseFacts DEF Types
  <2> QED BY <1>1, <1>4, <1>5, <2>1 DEF NotYet
<1>10. /\ OwnIds(results)' /\ Links(results)' /\ Falling(results)'
       /\ SettledInv' /\ (\A k \in DOMAIN results : GoesFurther(k))'
  BY <1>1, <1>5, <1>9, NothingRecorded
<1> QED BY <1>6, <1>7, <1>8, <1>10 DEF ChainInv

(* The pairing taken up is that of the last step left on the stack. *)
LEMMA RegisteredIsTakenUp ==
  ASSUME ChainInv, NextRegistered
  PROVE  ChainInv'
<1>0. PICK t : t = Top(owed)
  OBVIOUS
<1> DEFINE e == RegisteredEntry(t)
<1>1. /\ pc = "next" /\ due = {} /\ owed # {} /\ owed' = owed \ {t} /\ entry' = e /\ before' = <<>>
      /\ pc' = "reach" /\ UNCHANGED <<case, due, results, skips>>
  BY <1>0 DEF NextRegistered, Starts
<1>2. Types /\ OrderInv
  BY DEF ChainInv
<1>3. /\ t \in owed /\ t \in Kept /\ t \in case.registered /\ t \in Nat \ {0}
      /\ \A s \in owed : s \in Nat /\ s <= t
      /\ t \in DOMAIN case.steps /\ case.steps[t] \in Node /\ Pairing(t) \in Node
  <2>1. owed \subseteq Kept /\ Kept \subseteq case.registered /\ case \in Cases
    BY <1>2 DEF Types, Kept
  <2>2. owed \in SUBSET (1..Len(case.steps)) /\ Len(case.steps) \in Nat
    BY <2>1, CaseFacts
  <2>3. \E x \in owed : \A y \in owed : y <= x
    BY <1>1, <2>2, GreatestExists
  <2>4. t \in owed /\ \A y \in owed : y <= t
    BY <1>0, <2>3 DEF Top
  <2> QED BY <2>1, <2>2, <2>4, CaseFacts
<1>4. e \in EntrySet /\ e.step = t
  <2>1. IdOf(t) \in IdSet
    BY <1>2, <1>3, IdsDiffer DEF Types
  <2> QED BY <1>3, <2>1 DEF RegisteredEntry, Entry, EntrySet, For
<1>5. AtHand' /\ ~AtHand /\ pc' # "done" /\ pc' # "sending"
  BY <1>1 DEF AtHand
<1>6. RegisteredEntry(t)' = e /\ Kept' = Kept
  BY <1>1, SameCase
<1>7. Types'
  <2> HIDE DEF e
  <2> QED BY <1>1, <1>2, <1>4, <1>5, SameCase, EmptySeq DEF Types
<1>8. EntryInv'
  <2>1. entry'.step = t /\ entry' = RegisteredEntry(t)'
    BY <1>1, <1>4, <1>6
  <2>2. t \in Kept' \ owed'
    BY <1>1, <1>3, <1>6
  <2> HIDE DEF e
  <2>3. before' = <<>> /\ due' = {}
    BY <1>1
  <2>4. OfStep'
    BY <2>1, <2>2, <2>3 DEF OfStep
  <2> QED BY <1>5, <2>4 DEF EntryInv
<1> HIDE DEF e
<1>9. OrderInv'
  <2>1. ASSUME NEW k \in DOMAIN results, results[k].step # 0
        PROVE  (\A s \in owed' : s < results[k].step) /\ e.step # 0 /\ e.step <= results[k].step
    <3>1. \A s \in owed : s < results[k].step
      BY <1>2, <2>1 DEF OrderInv
    <3>2. results[k].step \in Nat
      <4>1. results[k] \in ResultSet
        BY <1>2, <2>1 DEF Types
      <4> QED BY <4>1 DEF ResultSet
    <3> QED BY <1>1, <1>3, <1>4, <3>1, <3>2
  <2>2. \A s \in owed' : s < e.step
    BY <1>1, <1>3, <1>4
  <2> QED BY <1>1, <1>5, <2>1, <2>2 DEF OrderInv
<1>10. \A s \in case.registered : NotYet(s)' = NotYet(s)
  BY <1>1, <1>3, <1>4, <1>5 DEF NotYet
<1>11. /\ OwnIds(results)' /\ Links(results)' /\ Falling(results)'
       /\ SettledInv' /\ (\A k \in DOMAIN results : GoesFurther(k))'
  BY <1>1, <1>5, <1>10, NothingRecorded
<1> QED BY <1>7, <1>8, <1>9, <1>11 DEF ChainInv

(* What the entry at hand is linked to: nothing, the step it releases, or the
   last result, which is no step of the plan. *)
LEMMA EntryIsFor ==
  ASSUME ChainInv, AtHand
  PROVE  /\ entry.cleanupFor \in PlanStepIds => OfStep
         /\ OfStep => /\ entry.step \in case.registered \ owed /\ before = <<>> /\ entry.step # 0
                      /\ entry.cleanupFor = IdOf(entry.step) /\ entry.cleanupFor \in PlanStepIds
                      /\ entry.for # None /\ case.pairing[entry.for] = entry.node
                      /\ entry.node = Pairing(entry.step) /\ entry.step \in Kept
         /\ ~OfStep => /\ before = <<>> => entry.step = 0
                       /\ \A i \in DOMAIN results : entry.cleanupFor = results[i].id => before # <<>>
<1>1. Types /\ OwnIds(results) /\ (OfPlan \/ OfStep \/ OfChain)
  BY DEF ChainInv, EntryInv
<1>2. ASSUME OfStep
      PROVE  /\ entry.step \in case.registered \ owed /\ before = <<>> /\ entry.step # 0
             /\ entry.cleanupFor = IdOf(entry.step) /\ entry.cleanupFor \in PlanStepIds
             /\ entry.for # None /\ case.pairing[entry.for] = entry.node
             /\ entry.node = Pairing(entry.step) /\ entry.step \in Kept
  <2>1. PICK s : s = entry.step
    OBVIOUS
  <2>2. s \in Kept \ owed /\ entry = RegisteredEntry(s) /\ before = <<>>
    BY <1>2, <2>1 DEF OfStep
  <2>3. s \in case.registered /\ s \in DOMAIN case.steps /\ s # 0 /\ case.steps[s] \in Node
    BY <1>1, <2>2, CaseFacts DEF Types, Kept
  <2>4. /\ entry.cleanupFor = IdOf(s) /\ entry.for = case.steps[s] /\ entry.node = Pairing(s)
    BY <2>2 DEF RegisteredEntry, Entry
  <2>5. None \notin Node
    BY CleanupAssumption
  <2> QED BY <2>1, <2>2, <2>3, <2>4, <2>5 DEF Pairing, PlanStepIds
<1>3. None \notin PlanStepIds
  BY <1>1, IdsDiffer, CaseFacts, CleanupAssumption DEF Types, PlanStepIds, IdSet
<1>4. \A i \in DOMAIN results : results[i].id \in IdSet
  <2>1. \A i \in DOMAIN results : results[i] \in ResultSet
    BY <1>1 DEF Types
  <2> QED BY <2>1 DEF ResultSet
<1>5. CASE OfPlan /\ ~OfStep
  BY <1>3, <1>4, <1>5, CleanupAssumption DEF OfPlan, IdSet
<1>6. CASE OfChain
  <2>1. Len(results) \in DOMAIN results
    BY <1>1, <1>6 DEF Types, OfChain
  <2>2. entry.cleanupFor = results[Len(results)].id /\ before # <<>>
    BY <1>6 DEF OfChain
  <2> QED BY <1>1, <1>2, <2>1, <2>2 DEF OwnIds
<1> QED BY <1>1, <1>2, <1>5, <1>6

(* A skip settles the entry that it names, and stops a chain only for its
   condition. *)
LEMMA SkipSettles ==
  ASSUME ChainInv, SkipReleased \/ SkipWhen
  PROVE  ChainInv'
<1>1. PICK reason \in {"released", "when"} : Skip(reason) /\ (reason = "released" => Released)
  BY DEF SkipReleased, SkipWhen
<1> DEFINE sk == [node |-> entry.node, cleanupFor |-> entry.cleanupFor, reason |-> reason]
           n == Len(skips) + 1
<1>2. /\ pc = "reach" /\ pc' = "next" /\ skips' = Append(skips, sk)
      /\ UNCHANGED <<case, due, owed, entry, before, results>>
  BY <1>1 DEF Skip
<1>3. Types /\ AtHand /\ ~AtHand' /\ pc' # "sending" /\ pc' # "done"
  BY <1>2 DEF ChainInv, AtHand
<1>4. sk \in SkipSet /\ skips \in Seq(SkipSet) /\ entry \in EntrySet
  BY <1>3 DEF Types, EntrySet, SkipSet
<1>5. /\ skips' \in Seq(SkipSet) /\ DOMAIN skips' = DOMAIN skips \cup {n} /\ n \notin DOMAIN skips
      /\ \A k \in DOMAIN skips : skips'[k] = skips[k]
      /\ skips'[n] = sk
  <2> HIDE DEF sk
  <2> QED BY <1>2, <1>4
<1>6. sk.cleanupFor = entry.cleanupFor /\ sk.reason = reason
  OBVIOUS
<1> HIDE DEF sk, n
<1>7. \A x : /\ ResultsOf(x)' = ResultsOf(x)
             /\ SkipsOf(x)' = IF x = entry.cleanupFor THEN SkipsOf(x) \cup {n} ELSE SkipsOf(x)
  BY <1>2, <1>5, <1>6 DEF ResultsOf, SkipsOf
<1>8. Types'
  BY <1>2, <1>3, <1>5, SameCase DEF Types
<1>9. OwnIds(results)' /\ Links(results)' /\ Falling(results)'
  BY <1>2, RecordsStay DEF ChainInv
<1>10. EntryInv' /\ OrderInv'
  BY <1>2, <1>3 DEF ChainInv, EntryInv, OrderInv
<1>11. SettledInv'
  <2> SUFFICES ASSUME NEW s \in case.registered
               PROVE  /\ IF s \in Kept /\ ~(s \in owed) THEN ByOne(s)' ELSE ByNone(s)'
                      /\ <<s, Pairing(s)>> \in case.released => ResultsOf(IdOf(s))' = {}
    BY <1>2, <1>3, SameCase DEF SettledInv, NotYet
  <2>1. /\ IF s \in Kept /\ ~NotYet(s) THEN ByOne(s) ELSE ByNone(s)
        /\ <<s, Pairing(s)>> \in case.released => ResultsOf(IdOf(s)) = {}
    BY DEF ChainInv, SettledInv
  <2>2. s \in DOMAIN case.steps /\ IdOf(s) \in PlanStepIds /\ s # 0 /\ IdOf(s)' = IdOf(s)
    BY <1>2, <1>3, CaseFacts, SameCase DEF Types, PlanStepIds
  <2>3. CASE OfStep /\ entry.step = s
    <3>1. NotYet(s) /\ s \notin owed /\ s \in Kept /\ IdOf(s) = entry.cleanupFor
      BY <1>3, <2>3, EntryIsFor DEF NotYet
    <3>2. ResultsOf(IdOf(s))' = {} /\ SkipsOf(IdOf(s))' = {n} /\ n \in DOMAIN skips'
      BY <1>5, <1>7, <2>1, <2>2, <3>1 DEF ByNone
    <3> QED BY <3>1, <3>2, <2>2 DEF ByOne
  <2>4. CASE ~(OfStep /\ entry.step = s)
    <3>1. ~(AtHand /\ before = <<>> /\ entry.step = s)
      BY <1>3, <2>2, <2>4, EntryIsFor
    <3>2. IdOf(s) # entry.cleanupFor
      <4> SUFFICES ASSUME IdOf(s) = entry.cleanupFor PROVE FALSE
        OBVIOUS
      <4>1. OfStep /\ IdOf(entry.step) = IdOf(s) /\ entry.step \in case.registered
        BY <1>3, <2>2, EntryIsFor
      <4>2. entry.step \in DOMAIN case.steps
        BY <1>3, <4>1, CaseFacts DEF Types
      <4> QED BY <1>3, <2>2, <2>4, <4>1, <4>2, IdsDiffer DEF Types
    <3>3. ResultsOf(IdOf(s))' = ResultsOf(IdOf(s)) /\ SkipsOf(IdOf(s))' = SkipsOf(IdOf(s))
      BY <1>7, <2>2, <3>2
    <3>4. NotYet(s) <=> s \in owed
      BY <3>1 DEF NotYet
    <3>5. ByNone(s)' = ByNone(s) /\ (ByOne(s) => ByOne(s)')
      BY <1>2, <1>5, <2>2, <3>3 DEF ByNone, ByOne
    <3> QED BY <2>1, <3>3, <3>4, <3>5
  <2> QED BY <2>3, <2>4
<1>12. ASSUME NEW i \in DOMAIN results PROVE GoesFurther(i)'
  <2>1. GoesFurther(i)
    BY DEF ChainInv
  <2>2. PICK id, then : id = results[i].id /\ then = case.pairing[results[i].node]
    OBVIOUS
  <2>3. ASSUME before # <<>>, entry.cleanupFor = id
        PROVE  \E k \in SkipsOf(id)' : skips'[k].reason = "when"
    <3>1. reason = "when"
      BY <1>1, <2>3 DEF Released
    <3> QED BY <1>5, <1>6, <1>7, <2>3, <3>1
  <2>4. \A k \in SkipsOf(id) : k \in SkipsOf(id)' /\ skips'[k] = skips[k]
    BY <1>5, <1>7 DEF SkipsOf
  <2>5. id = results'[i].id /\ then = case'.pairing[results'[i].node] /\ results'[i] = results[i]
    BY <1>2, <2>2
  <2>6. Listings(then)' = Listings(then) /\ Matching(then)' = Matching(then)
    BY <1>2, SameCase
  <2>7. results[i].answer \in Done /\ then # None =>
          \/ ResultsOf(id) # {}
          \/ \E k \in SkipsOf(id) : skips[k].reason = "when"
          \/ Listings(then) # {} /\ Matching(then) = {}
          \/ before # <<>> /\ entry.cleanupFor = id
    BY <2>1, <2>2 DEF GoesFurther
  <2>8. results[i].answer \in Done /\ then # None =>
          \/ ResultsOf(id)' # {}
          \/ \E k \in SkipsOf(id)' : skips'[k].reason = "when"
          \/ Listings(then)' # {} /\ Matching(then)' = {}
    BY <1>7, <2>3, <2>4, <2>6, <2>7
  <2> QED BY <2>5, <2>8 DEF GoesFurther
<1>13. (\A i \in DOMAIN results : GoesFurther(i))'
  BY <1>2, <1>12
<1> QED BY <1>8, <1>9, <1>10, <1>11, <1>13 DEF ChainInv

(* What an answer leaves: the results before it, its own at n, and perhaps the
   step that would have come back to a node. *)
Answers(n, own) ==
  /\ n \in DOMAIN results' /\ results'[n] = own /\ n \notin DOMAIN results
  /\ \A i \in DOMAIN results : i \in DOMAIN results' /\ results'[i] = results[i]
  /\ \A i \in DOMAIN results' :
       \/ i \in DOMAIN results \cup {n}
       \/ results'[i].step = own.step /\ results'[i].cleanupFor = own.id
          /\ results'[i].answer = "cycle"

(* An answer settles the step whose pairing it was, and no other. *)
LEMMA AnswerSettles ==
  ASSUME ChainInv, pc = "sending", UNCHANGED <<case, owed, skips>>,
         \A s \in case.registered : NotYet(s)' = (s \in owed),
         NEW n, NEW own \in ResultSet, Answers(n, own), own.id \notin PlanStepIds,
         own.cleanupFor = entry.cleanupFor
  PROVE  SettledInv'
<1>1. Types /\ AtHand /\ ~Released
  BY DEF ChainInv, EntryInv, AtHand
<1>2. \A x \in PlanStepIds :
        /\ SkipsOf(x)' = SkipsOf(x)
        /\ ResultsOf(x)' = IF x = entry.cleanupFor THEN ResultsOf(x) \cup {n} ELSE ResultsOf(x)
  BY DEF ResultsOf, SkipsOf, Answers
<1> SUFFICES ASSUME NEW s \in case.registered
             PROVE  /\ IF s \in Kept /\ ~(s \in owed) THEN ByOne(s)' ELSE ByNone(s)'
                    /\ <<s, Pairing(s)>> \in case.released => ResultsOf(IdOf(s))' = {}
  BY SameCase DEF SettledInv
<1>3. /\ IF s \in Kept /\ ~NotYet(s) THEN ByOne(s) ELSE ByNone(s)
      /\ <<s, Pairing(s)>> \in case.released => ResultsOf(IdOf(s)) = {}
  BY DEF ChainInv, SettledInv
<1>4. s \in DOMAIN case.steps /\ IdOf(s) \in PlanStepIds /\ s # 0 /\ IdOf(s)' = IdOf(s)
  BY <1>1, CaseFacts, SameCase DEF Types, PlanStepIds
<1>5. CASE OfStep /\ entry.step = s
  <2>1. /\ NotYet(s) /\ s \notin owed /\ s \in Kept /\ IdOf(s) = entry.cleanupFor
        /\ IsPairing /\ before = <<>> /\ entry.node = Pairing(s)
    BY <1>1, <1>5, EntryIsFor DEF NotYet, IsPairing
  <2>2. <<s, Pairing(s)>> \notin case.released
    BY <1>1, <1>5, <2>1 DEF Released
  <2>3. SkipsOf(IdOf(s))' = {} /\ ResultsOf(IdOf(s))' = {n} /\ n \in DOMAIN results'
    BY <1>2, <1>3, <1>4, <2>1 DEF ByNone, Answers
  <2> QED BY <1>4, <2>1, <2>2, <2>3 DEF ByOne
<1>6. CASE ~(OfStep /\ entry.step = s)
  <2>1. ~(AtHand /\ before = <<>> /\ entry.step = s)
    BY <1>1, <1>4, <1>6, EntryIsFor
  <2>2. IdOf(s) # entry.cleanupFor
    <3> SUFFICES ASSUME IdOf(s) = entry.cleanupFor PROVE FALSE
      OBVIOUS
    <3>1. OfStep /\ IdOf(entry.step) = IdOf(s) /\ entry.step \in case.registered
      BY <1>1, <1>4, EntryIsFor
    <3>2. entry.step \in DOMAIN case.steps
      BY <1>1, <3>1, CaseFacts DEF Types
    <3> QED BY <1>1, <1>4, <1>6, <3>1, <3>2, IdsDiffer DEF Types
  <2>3. ResultsOf(IdOf(s))' = ResultsOf(IdOf(s)) /\ SkipsOf(IdOf(s))' = SkipsOf(IdOf(s))
    BY <1>2, <1>4, <2>2
  <2>4. NotYet(s) <=> s \in owed
    BY <2>1 DEF NotYet
  <2>5. ByNone(s)' = ByNone(s) /\ (ByOne(s) => ByOne(s)')
    BY <1>4, <2>3 DEF ByNone, ByOne, Answers
  <2> QED BY <1>3, <2>3, <2>4, <2>5
<1> QED BY <1>5, <1>6

(* An answer takes the chain on from the result that it follows. *)
LEMMA AnswerTakesOn ==
  ASSUME ChainInv, pc = "sending", UNCHANGED <<case, skips>>,
         NEW n, NEW own \in ResultSet, Answers(n, own), own.cleanupFor = entry.cleanupFor,
         NEW i \in DOMAIN results
  PROVE  GoesFurther(i)'
<1>1. GoesFurther(i)
  BY DEF ChainInv
<1>2. PICK id, then : id = results[i].id /\ then = case.pairing[results[i].node]
  OBVIOUS
<1>3. id = results'[i].id /\ then = case'.pairing[results'[i].node] /\ results'[i] = results[i]
  BY <1>2 DEF Answers
<1>4. /\ Listings(then)' = Listings(then) /\ Matching(then)' = Matching(then)
      /\ SkipsOf(id)' = SkipsOf(id) /\ skips' = skips
  BY SameCase DEF SkipsOf
<1>5. /\ ResultsOf(id) # {} => ResultsOf(id)' # {}
      /\ id = entry.cleanupFor => ResultsOf(id)' # {}
  BY DEF ResultsOf, Answers
<1>6. results[i].answer \in Done /\ then # None =>
        \/ ResultsOf(id) # {}
        \/ \E k \in SkipsOf(id) : skips[k].reason = "when"
        \/ Listings(then) # {} /\ Matching(then) = {}
        \/ entry.cleanupFor = id
  BY <1>1, <1>2 DEF GoesFurther
<1> QED BY <1>3, <1>4, <1>5, <1>6 DEF GoesFurther

(* Nothing but the chain of a step comes between it and the next older one. *)
LEMMA AnswerIsInOrder ==
  ASSUME ChainInv, pc = "sending", UNCHANGED <<case, due, owed>>,
         NEW n, NEW own \in ResultSet, Answers(n, own), own.step = entry.step,
         AtHand' => entry'.step = entry.step
  PROVE  OrderInv'
<1>1. Types /\ OrderInv /\ AtHand
  BY DEF ChainInv, AtHand
<1>2. ASSUME NEW i \in DOMAIN results', results'[i].step # 0
      PROVE  /\ due = {} /\ \A s \in owed : s < results'[i].step
             /\ entry.step # 0 /\ entry.step <= results'[i].step
  <2>1. CASE i \in DOMAIN results
    BY <1>1, <1>2, <2>1 DEF OrderInv, Answers
  <2>2. CASE i \notin DOMAIN results
    <3>1. results'[i].step = entry.step /\ entry.step \in Nat
      BY <1>1, <2>2 DEF Answers, Types, EntrySet
    <3> QED BY <1>1, <1>2, <3>1 DEF OrderInv
  <2> QED BY <2>1, <2>2
<1>3. entry.step # 0 => due = {} /\ \A s \in owed : s < entry.step
  BY <1>1 DEF OrderInv
<1> QED BY <1>2, <1>3 DEF OrderInv

(* An answer is recorded under a new ID, and ends the chain or takes it on. *)
LEMMA AnswerIsRecorded ==
  ASSUME ChainInv, Answered
  PROVE  ChainInv'
<1>1. PICK a \in Answer :
        \/ Ends(a, Result(NextId(entry.node, {}), entry, a))
        \/ Cycles(a, Result(NextId(entry.node, {}), entry, a))
        \/ GoesOn(a, Result(NextId(entry.node, {}), entry, a))
  BY DEF Answered, Answer
<1>2. PICK own : own = Result(NextId(entry.node, {}), entry, a)
  OBVIOUS
<1>3. pc = "sending" /\ UNCHANGED <<case, due, owed, skips>> /\ AtHand
  BY DEF Answered, AtHand
<1>4. /\ Types /\ OwnIds(results) /\ Links(results) /\ Falling(results) /\ EntryInv /\ OrderInv
      /\ case \in Cases /\ results \in Seq(ResultSet) /\ entry \in EntrySet
  BY <1>3 DEF ChainInv, Types
<1>5. /\ own.id \in IdSet /\ own.id \notin PlanStepIds /\ \A i \in DOMAIN results : results[i].id # own.id
      /\ own.step = entry.step /\ own.cleanupFor = entry.cleanupFor /\ own.answer = a
      /\ own.node = entry.node /\ own \in ResultSet
  <2>1. entry.node \in Node /\ IsFiniteSet({}) /\ entry.step \in Nat /\ entry.cleanupFor \in For
    BY <1>4, FS_EmptySet DEF EntrySet
  <2>2. NextId(entry.node, {}) \in IdSet /\ NextId(entry.node, {}) \notin PlanStepIds \cup Ids
    BY <1>4, <2>1, NextIdIsNew
  <2>3. own.id = NextId(entry.node, {})
    BY <1>2 DEF Result
  <2> QED BY <1>2, <2>1, <2>2, <2>3 DEF Result, ResultSet, Ids
<1> DEFINE q == Append(results, own)
<1>n. PICK n : n = Len(results) + 1
  OBVIOUS
<1>6. /\ q \in Seq(ResultSet) /\ DOMAIN q = DOMAIN results \cup {n} /\ n \notin DOMAIN results
      /\ \A i \in DOMAIN results : q[i] = results[i]
      /\ q[n] = own /\ q # <<>> /\ Len(q) = n
  BY <1>4, <1>5, <1>n, Added
<1>7. OwnIds(q)
  BY <1>4, <1>5, AddedIsOwn
<1>8. Falling(q)
  <2>1. \A i \in DOMAIN results : results[i].step = 0 \/ results[i].step >= own.step
    <3> SUFFICES ASSUME NEW i \in DOMAIN results, results[i].step # 0
                 PROVE  results[i].step >= own.step
      OBVIOUS
    <3>1. results[i] \in ResultSet /\ entry.step <= results[i].step
      BY <1>3, <1>4 DEF OrderInv
    <3>2. results[i].step \in Nat /\ entry.step \in Nat
      BY <1>4, <3>1 DEF ResultSet, EntrySet
    <3> QED BY <1>5, <3>1, <3>2
  <2> QED BY <1>4, <1>5, <2>1, AddedFalls
<1>9. Links(q)
  <2>1. \/ own.cleanupFor \in PlanStepIds \cup {None}
        \/ /\ results # <<>> /\ results[Len(results)].id = own.cleanupFor
           /\ results[Len(results)].answer \in Done
           /\ own.node = case.pairing[results[Len(results)].node]
    BY <1>3, <1>4, <1>5, EntryIsFor DEF EntryInv, OfPlan, OfChain, ChainInv
  <2> QED BY <1>4, <1>5, <2>1, AddedIsLinked
<1>10. PICK then : then = Then /\ then \in Node \cup {None}
  <2>1. case.pairing \in [Node -> Node \cup {None}] /\ entry.node \in Node
    BY <1>4, CaseFacts DEF EntrySet
  <2> QED BY <2>1 DEF Then
<1>11. a \in Done /\ then # None /\ Allowed(then) <=> Follows(a)
  BY <1>10 DEF Follows, Succeeded, Done
<1> HIDE DEF q
<1>12. ASSUME results' = q
       PROVE  /\ Answers(n, own) /\ results' \in Seq(ResultSet)
              /\ OwnIds(results)' /\ Links(results)' /\ Falling(results)'
  BY <1>3, <1>6, <1>7, <1>8, <1>9, <1>12, SameCase DEF Answers, OwnIds, Links, Linked, Falling
<1>13. ASSUME Answers(n, own) PROVE \A i \in DOMAIN results : GoesFurther(i)'
  BY <1>3, <1>5, <1>13, AnswerTakesOn
<1>14. CASE Ends(a, own)
  <2>1. results' = q /\ pc' = "next" /\ UNCHANGED <<entry, before>> /\ ~Follows(a)
    BY <1>14 DEF Ends, q
  <2>2. ~AtHand' /\ pc' # "sending" /\ pc' # "done"
    BY <2>1 DEF AtHand
  <2>3. /\ Answers(n, own) /\ results' \in Seq(ResultSet)
        /\ OwnIds(results)' /\ Links(results)' /\ Falling(results)'
    BY <1>12, <2>1
  <2>4. Types' /\ EntryInv'
    BY <1>3, <1>4, <2>1, <2>2, <2>3, SameCase DEF Types, EntryInv
  <2>5. OrderInv'
    BY <1>3, <1>5, <2>2, <2>3, AnswerIsInOrder
  <2>6. SettledInv'
    <3>1. \A s \in case.registered : NotYet(s)' = (s \in owed)
      BY <1>3, <2>2 DEF NotYet
    <3> QED BY <1>3, <1>5, <2>3, <3>1, AnswerSettles
  <2>7. GoesFurther(n)'
    <3>1. results'[n].answer = a /\ case'.pairing[results'[n].node] = then
      BY <1>3, <1>5, <1>6, <1>10, <2>1 DEF Then
    <3>2. a \in Done /\ then # None => Listings(then) # {} /\ Matching(then) = {}
      BY <1>11, <2>1 DEF Allowed
    <3>3. Listings(then)' = Listings(then) /\ Matching(then)' = Matching(then)
      BY <1>3, SameCase
    <3> QED BY <3>1, <3>2, <3>3 DEF GoesFurther
  <2>8. (\A i \in DOMAIN results : GoesFurther(i))'
    BY <1>6, <1>13, <2>1, <2>3, <2>7
  <2> QED BY <2>3, <2>4, <2>5, <2>6, <2>8 DEF ChainInv
<1>15. CASE GoesOn(a, own)
  <2>1. /\ results' = q /\ pc' = "reach" /\ Follows(a)
        /\ entry' = Entry(then, entry.node, entry.step, own.id) /\ before' = <<entry.node>> \o before
    BY <1>10, <1>15 DEF GoesOn, Chained, Passed, q
  <2>2. /\ AtHand' /\ pc' # "sending" /\ pc' # "done" /\ then \in Node
        /\ entry'.node = then /\ entry'.step = entry.step /\ entry'.cleanupFor = own.id
        /\ entry' \in EntrySet
    BY <1>4, <1>5, <1>10, <1>11, <2>1 DEF AtHand, Entry, EntrySet, For
  <2>3. /\ Answers(n, own) /\ results' \in Seq(ResultSet)
        /\ OwnIds(results)' /\ Links(results)' /\ Falling(results)'
    BY <1>12, <2>1
  <2>4. before' \in Seq(Node) /\ before' # <<>>
    <3>1. before \in Seq(Node) /\ entry.node \in Node
      BY <1>4 DEF Types, EntrySet
    <3> QED BY <2>1, <3>1
  <2>5. Types'
    BY <1>3, <1>4, <2>1, <2>2, <2>3, <2>4, SameCase DEF Types
  <2>6. EntryInv'
    <3>1. results'[Len(results')] = own /\ results' # <<>>
      BY <1>6, <2>1
    <3>2. own.answer \in Done /\ then = case'.pairing[own.node]
      BY <1>3, <1>5, <1>10, <1>11, <2>1 DEF Then
    <3>3. OfChain'
      BY <1>5, <2>2, <2>4, <3>1, <3>2 DEF OfChain
    <3> QED BY <2>2, <3>3 DEF EntryInv
  <2>7. OrderInv'
    BY <1>3, <1>5, <2>2, <2>3, AnswerIsInOrder
  <2>8. SettledInv'
    <3>1. \A s \in case.registered : NotYet(s)' = (s \in owed)
      BY <1>3, <2>4 DEF NotYet
    <3> QED BY <1>3, <1>5, <2>3, <3>1, AnswerSettles
  <2>9. GoesFurther(n)'
    BY <1>6, <2>1, <2>2, <2>4 DEF GoesFurther
  <2>10. (\A i \in DOMAIN results : GoesFurther(i))'
    BY <1>6, <1>13, <2>1, <2>3, <2>9
  <2> QED BY <2>3, <2>5, <2>6, <2>7, <2>8, <2>10 DEF ChainInv
<1>16. CASE Cycles(a, own)
  <2>1. PICK cyc : cyc = Result(NextId(Then, {own.id}), Chained(own), "cycle")
    OBVIOUS
  <2>2. /\ results' = results \o <<own, cyc>> /\ pc' = "next" /\ UNCHANGED <<entry, before>> /\ Follows(a)
    BY <1>16, <2>1 DEF Cycles
  <2>3. then \in Node
    BY <1>10, <1>11, <2>2
  <2>4. /\ cyc.id \in IdSet /\ cyc.id \notin PlanStepIds /\ cyc.id # own.id
        /\ \A i \in DOMAIN results : results[i].id # cyc.id
        /\ cyc.step = entry.step /\ cyc.cleanupFor = own.id /\ cyc.answer = "cycle"
        /\ cyc.node = then /\ cyc \in ResultSet
    <3>1. cyc = Result(NextId(then, {own.id}), Entry(then, entry.node, entry.step, own.id), "cycle")
      BY <1>10, <2>1 DEF Chained
    <3>2. IsFiniteSet({own.id})
      BY FS_Singleton
    <3>3. NextId(then, {own.id}) \in IdSet /\ NextId(then, {own.id}) \notin PlanStepIds \cup Ids \cup {own.id}
      BY <1>4, <2>3, <3>2, NextIdIsNew
    <3>4. entry.step \in Nat
      BY <1>4 DEF EntrySet
    <3> HIDE DEF q
    <3>5. /\ cyc.id = NextId(then, {own.id}) /\ cyc.step = entry.step /\ cyc.cleanupFor = own.id
          /\ cyc.answer = "cycle" /\ cyc.node = then
          /\ cyc = [id |-> cyc.id, node |-> cyc.node, step |-> cyc.step,
                    cleanupFor |-> cyc.cleanupFor, answer |-> cyc.answer]
      BY <3>1 DEF Result, Entry
    <3> QED BY <1>5, <2>3, <3>3, <3>4, <3>5 DEF ResultSet, Ids, For
  <2> DEFINE q2 == Append(q, cyc)
  <2>n. PICK n2 : n2 = Len(q) + 1
    OBVIOUS
  <2>5. results' = q2
    BY <1>4, <1>5, <2>2, <2>4 DEF q
  <2>6. /\ q2 \in Seq(ResultSet) /\ DOMAIN q2 = DOMAIN q \cup {n2} /\ n2 \notin DOMAIN q
        /\ \A i \in DOMAIN q : q2[i] = q[i]
        /\ q2[n2] = cyc
    BY <1>6, <2>4, <2>n, Added
  <2> HIDE DEF q2
  <2>7. OwnIds(q2)
    <3>1. \A i \in DOMAIN q : q[i].id # cyc.id
      BY <1>6, <2>4
    <3> QED BY <1>6, <1>7, <2>4, <3>1, AddedIsOwn DEF q2
  <2>8. Falling(q2)
    <3>1. \A i \in DOMAIN q : q[i].step = 0 \/ q[i].step >= cyc.step
      <4>1. n \in DOMAIN q /\ \A i \in DOMAIN q : i = n \/ i < n
        <5>1. \A i \in DOMAIN results : i < n
          BY <1>4, <1>n
        <5> QED BY <1>6, <5>1
      <4>2. \A i \in DOMAIN q : i < n => q[i].step = 0 \/ q[i].step >= own.step
        BY <1>6, <1>8, <4>1 DEF Falling
      <4>3. own.step \in Nat /\ own.step = cyc.step
        BY <1>5, <2>4 DEF ResultSet
      <4> QED BY <1>6, <4>1, <4>2, <4>3
    <3> QED BY <1>6, <1>8, <2>4, <3>1, AddedFalls DEF q2
  <2>9. Links(q2)
    <3>1. q # <<>> /\ q[Len(q)] = own /\ own.id = cyc.cleanupFor
      BY <1>6, <2>4
    <3>2. own.answer \in Done /\ cyc.node = case.pairing[own.node]
      BY <1>5, <1>10, <1>11, <2>2, <2>4 DEF Then
    <3> QED BY <1>6, <1>9, <2>4, <3>1, <3>2, AddedIsLinked DEF q2
  <2>10. OwnIds(results)' /\ Links(results)' /\ Falling(results)'
    BY <1>3, <2>5, <2>7, <2>8, <2>9, SameCase DEF OwnIds, Links, Linked, Falling
  <2>11. /\ DOMAIN results' = DOMAIN results \cup {n, n2} /\ n \in DOMAIN results' /\ n2 \in DOMAIN results'
         /\ \A i \in DOMAIN results : results'[i] = results[i]
         /\ results'[n] = own /\ results'[n2] = cyc
    BY <1>6, <2>5, <2>6
  <2>12. Answers(n, own)
    BY <1>5, <1>6, <2>4, <2>11 DEF Answers
  <2>13. ~AtHand' /\ pc' # "sending" /\ pc' # "done"
    BY <2>2 DEF AtHand
  <2>14. Types' /\ EntryInv'
    BY <1>3, <1>4, <2>2, <2>5, <2>6, <2>13, SameCase DEF Types, EntryInv
  <2>15. OrderInv'
    BY <1>3, <1>5, <2>12, <2>13, AnswerIsInOrder
  <2>16. SettledInv'
    <3>1. \A s \in case.registered : NotYet(s)' = (s \in owed)
      BY <1>3, <2>13 DEF NotYet
    <3> QED BY <1>3, <1>5, <2>12, <3>1, AnswerSettles
  <2>17. GoesFurther(n)'
    <3>1. n2 \in ResultsOf(own.id)'
      BY <2>4, <2>11 DEF ResultsOf
    <3> QED BY <2>11, <3>1 DEF GoesFurther
  <2>18. GoesFurther(n2)'
    BY <2>4, <2>11 DEF GoesFurther, Done
  <2>19. (\A i \in DOMAIN results : GoesFurther(i))'
    BY <1>13, <2>11, <2>12, <2>17, <2>18
  <2> QED BY <2>10, <2>14, <2>15, <2>16, <2>19 DEF ChainInv
<1> QED BY <1>1, <1>2, <1>14, <1>15, <1>16

-----------------------------------------------------------------------------
(* Every step of the cleanup keeps the account of what was settled, what is at
   hand and what is left. *)
THEOREM ChainIsKept == Spec => []ChainInv
<1>1. ChainInv /\ [Next]_vars => ChainInv'
  <2> SUFFICES ASSUME ChainInv, [Next]_vars PROVE ChainInv'
    OBVIOUS
  <2>1. CASE BudgetEnds \/ Finish \/ Send \/ Returned \/ UNCHANGED vars
    BY <2>1, QuietSteps DEF Returned
  <2>2. CASE NextPlanned
    BY <2>2, PlannedIsTakenUp
  <2>3. CASE NextRegistered
    BY <2>3, RegisteredIsTakenUp
  <2>4. CASE SkipReleased \/ SkipWhen
    BY <2>4, SkipSettles
  <2>5. CASE Answered
    BY <2>5, AnswerIsRecorded
  <2> QED BY <2>1, <2>2, <2>3, <2>4, <2>5 DEF Next
<1> QED BY <1>1, ChainStarts, PTL DEF Spec

(* Whatever the answers and whenever the budget ends, each registered cleanup
   that the plan's runOn lets through is settled by exactly one request or
   skip, what a main step released is sent nothing, no ID is used twice, and
   the last resource created is the first released (engine/cleanup.go). *)
THEOREM EntriesAreSettledOnce == Spec => []EveryEntryIsSettledOnce
<1>1. ChainInv => EveryEntryIsSettledOnce
  <2> SUFFICES ASSUME ChainInv PROVE EveryEntryIsSettledOnce
    OBVIOUS
  <2>1. IdsAreOwn
    BY DEF ChainInv, OwnIds, IdsAreOwn
  <2>2. \A i, j \in DOMAIN results : i < j => results[i].step = 0 \/ results[i].step >= results[j].step
    BY DEF ChainInv, Falling
  <2>3. ASSUME Over, NEW s \in case.registered
        PROVE  /\ Cardinality(ResultsOf(IdOf(s))) + Cardinality(SkipsOf(IdOf(s)))
                    = (IF Listings(Pairing(s)) = {} \/ Matching(Pairing(s)) # {} THEN 1 ELSE 0)
               /\ <<s, Pairing(s)>> \in case.released => ResultsOf(IdOf(s)) = {}
    <3>1. Types /\ ~NotYet(s)
      BY <2>3 DEF ChainInv, Types, NotYet, AtHand, Over
    <3>2. /\ IF s \in Kept THEN ByOne(s) ELSE ByNone(s)
          /\ <<s, Pairing(s)>> \in case.released => ResultsOf(IdOf(s)) = {}
      BY <3>1 DEF ChainInv, SettledInv
    <3>3. Pairing(s) \in Paired
      <4>1. s \in DOMAIN case.steps /\ Pairing(s) \in Node /\ Pairing(s) # None
        BY <3>1, CaseFacts, CleanupAssumption DEF Types
      <4>2. \A M \in SUBSET Node : HoldsPairings(M) => Pairing(s) \in M
        BY <4>1 DEF HoldsPairings, Pairing
      <4> QED BY <4>1, <4>2 DEF Paired
    <3>4. s \in Kept <=> Listings(Pairing(s)) = {} \/ Matching(Pairing(s)) # {}
      BY <3>3 DEF Kept, Allowed
    <3>5. /\ ByNone(s) => Cardinality(ResultsOf(IdOf(s))) = 0 /\ Cardinality(SkipsOf(IdOf(s))) = 0
          /\ ByOne(s) => Cardinality(ResultsOf(IdOf(s))) + Cardinality(SkipsOf(IdOf(s))) = 1
      <4>1. Cardinality({}) = 0 /\ \A i : Cardinality({i}) = 1
        BY FS_EmptySet, FS_Singleton
      <4>2. ByNone(s) => Cardinality(ResultsOf(IdOf(s))) = 0 /\ Cardinality(SkipsOf(IdOf(s))) = 0
        BY <4>1, Zenon DEF ByNone
      <4>3. ByOne(s) => \/ Cardinality(SkipsOf(IdOf(s))) = 0 /\ Cardinality(ResultsOf(IdOf(s))) = 1
                        \/ Cardinality(ResultsOf(IdOf(s))) = 0 /\ Cardinality(SkipsOf(IdOf(s))) = 1
        BY <4>1, Zenon DEF ByOne
      <4> QED BY <4>2, <4>3
    <3> QED BY <3>2, <3>4, <3>5
  <2> QED BY <2>1, <2>2, <2>3 DEF EveryEntryIsSettledOnce
<1> QED BY <1>1, ChainIsKept, PTL

(* Each call of a release that takes several follows the one before it at once,
   and a chain stops only at a call that failed, a condition, the plan's runOn
   or the graph's end (cleanup.go runCleanupChain). *)
THEOREM ChainsGoOn == Spec => []ChainsAreWhole
<1>1. ChainInv => ChainsAreWhole
  <2> SUFFICES ASSUME ChainInv PROVE ChainsAreWhole
    OBVIOUS
  <2>1. ASSUME NEW i \in DOMAIN results, Chain(i) PROVE Linked(results, i)
    <3>1. PICK j \in DOMAIN results : results[i].cleanupFor = results[j].id
      BY <2>1 DEF Chain, Ids
    <3>2. results[j].id \in IdSet /\ results[j].id \notin PlanStepIds
      <4>1. results[j] \in ResultSet
        BY DEF ChainInv, Types
      <4> QED BY <4>1 DEF ChainInv, OwnIds, ResultSet
    <3>3. results[i].cleanupFor \notin PlanStepIds \cup {None}
      BY <3>1, <3>2, CleanupAssumption DEF IdSet
    <3> QED BY <3>3 DEF ChainInv, Links
  <2>2. ASSUME Over, NEW i \in DOMAIN results
        PROVE  LET then == case.pairing[results[i].node]
               IN  results[i].answer \in {"ok", "strict"} /\ then # None =>
                     \/ ResultsOf(results[i].id) # {}
                     \/ \E k \in SkipsOf(results[i].id) : skips[k].reason = "when"
                     \/ Listings(then) # {} /\ Matching(then) = {}
    BY <2>2 DEF ChainInv, GoesFurther, AtHand, Over, Done
  <2> QED BY <2>1, <2>2 DEF ChainsAreWhole, Linked, Done
<1> QED BY <1>1, ChainIsKept, PTL
=============================================================================
