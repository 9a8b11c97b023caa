--------------------------- MODULE StepInputsProofs ---------------------------
(***************************************************************************)
(* For any files and flags, any steps with any selections of any arrays,   *)
(* and any numbers drawn: each pick is one that its selection may make,    *)
(* selections that are alike pick one element, what is sent is what the    *)
(* records and the overrides say, and a request's headers and its target   *)
(* are those of the most specific of their sources.                        *)
(***************************************************************************)
EXTENDS StepInputs, FiniteSetTheorems, WellFoundedInduction, TLAPS

(* A set of numbers has a least one. *)
LEMMA LeastOf ==
  ASSUME NEW S \in SUBSET Nat, S # {}
  PROVE  \E i \in S : \A j \in S : i <= j
<1>1. IsWellFoundedOn(OpToRel(<, Nat), Nat)
  BY NatLessThanWellFounded
<1>2. PICK i \in S : \A j \in S : ~(<<j, i>> \in OpToRel(<, Nat))
  BY <1>1, WFMin
<1>3. \A j \in S : <<j, i>> \in Nat \X Nat /\ <<j, i>>[1] = j /\ <<j, i>>[2] = i
  OBVIOUS
<1>4. \A j \in S : ~(j < i)
  BY <1>2, <1>3 DEF OpToRel
<1> QED
  BY <1>4

LEMMA MinIsOf ==
  ASSUME NEW S \in SUBSET Nat, S # {}
  PROVE  Min(S) \in S
BY LeastOf DEF Min

(* Positions of an array: some of 1..n, so finitely many, with a greatest. *)
LEMMA PositionsAreFinite ==
  ASSUME NEW n \in Nat, NEW S \in SUBSET (1..n)
  PROVE  IsFiniteSet(S) /\ Cardinality(S) \in Nat /\ (Cardinality(S) = 0 <=> S = {})
<1>1. IsFiniteSet(S)
  <2>1. IsFiniteSet(1..n)
    BY FS_Interval
  <2> QED
    BY <2>1, FS_Subset
<1> QED
  BY <1>1, FS_CardinalityType, FS_EmptySet

LEMMA MaxIsOf ==
  ASSUME NEW n \in Nat, NEW S \in SUBSET (1..n), S # {}
  PROVE  Max(S) \in S
<1> DEFINE Above == {m \in Nat : \A i \in S : i <= m}
<1>1. n \in Above
  OBVIOUS
<1>2. PICK m \in Above : \A k \in Above : m <= k
  BY <1>1, LeastOf
<1>3. m \in S
  <2>1. SUFFICES ASSUME m \notin S PROVE FALSE
    OBVIOUS
  <2>2. m # 0
    <3>1. PICK j \in S : TRUE
      OBVIOUS
    <3>2. j \in 1..n
      BY <3>1
    <3>3. j <= m /\ m \in Nat
      BY <1>2
    <3> QED
      BY <3>2, <3>3
  <2>3. m - 1 \in Above
    BY <1>2, <2>1, <2>2
  <2> QED
    BY <1>2, <2>3
<1> QED
  BY <1>2, <1>3 DEF Max

(* Each rank up to the number of elements is that of an element. *)
LEMMA NthIsOf ==
  ASSUME NEW n \in Nat, NEW S \in SUBSET (1..n), NEW r \in 1..Cardinality(S)
  PROVE  Nth(S, r) \in S
<1> DEFINE Under(k) == {y \in S : y < k}
           Enough == {k \in Nat : Cardinality(Under(k)) >= r}
<1>0. \A y \in S : y \in Nat /\ 1 <= y /\ y <= n
  OBVIOUS
<1>1. \A k : IsFiniteSet(Under(k)) /\ Cardinality(Under(k)) \in Nat
  BY PositionsAreFinite
<1>2. Under(n + 1) = S
  <2>1. \A y \in S : y < n + 1
    BY <1>0
  <2> QED
    BY <2>1
<1>3. n + 1 \in Enough
  <2>1. Cardinality(Under(n + 1)) >= r
    BY <1>2, PositionsAreFinite
  <2> QED
    BY <2>1
<1>4. PICK k \in Enough : \A j \in Enough : k <= j
  <2> HIDE DEF Enough
  <2>1. Enough \in SUBSET Nat
    BY DEF Enough
  <2> QED
    BY <1>3, <2>1, LeastOf
<1>5. Cardinality(Under(0)) = 0
  <2>1. \A y \in S : ~(y < 0)
    BY <1>0
  <2>2. Under(0) = {}
    BY <2>1
  <2> QED
    BY <2>2, FS_EmptySet
<1>6. k \in Nat \ {0}
  BY <1>4, <1>5
<1>7. k - 1 \in Nat /\ k - 1 \notin Enough
  BY <1>4, <1>6
<1>8. Cardinality(Under(k - 1)) < r
  <2>1. ~(Cardinality(Under(k - 1)) >= r)
    BY <1>7
  <2>2. Cardinality(Under(k - 1)) \in Nat /\ r \in Nat
    BY <1>1, PositionsAreFinite
  <2> HIDE DEF Under
  <2> QED
    BY <2>1, <2>2
<1>9. Under(k) = Under(k - 1) \/ Under(k) = Under(k - 1) \cup {k - 1}
  <2>1. \A y \in S : y < k <=> y < k - 1 \/ y = k - 1
    BY <1>0, <1>6
  <2> QED
    BY <2>1
<1>10. k - 1 \in S /\ Cardinality(Under(k - 1)) = r - 1
  <2> HIDE DEF Under
  <2>1. Cardinality(Under(k)) >= r
    BY <1>4
  <2>2. Under(k) # Under(k - 1)
    BY <1>1, <1>8, <2>1
  <2>3. Under(k) = Under(k - 1) \cup {k - 1}
    BY <1>9, <2>2
  <2>4. k - 1 \in S
    BY <2>2, <2>3 DEF Under
  <2>5. k - 1 \notin Under(k - 1)
    BY <1>7 DEF Under
  <2>6. Cardinality(Under(k)) = Cardinality(Under(k - 1)) + 1
    BY <1>1, <2>3, <2>5, FS_AddElement
  <2> QED
    BY <1>1, <1>8, <2>1, <2>4, <2>6
<1> QED
  BY <1>10 DEF Nth

-----------------------------------------------------------------------------
(* The array and the selection of an assumption on the runs. *)
Comparable(arr, sel) ==
  /\ DOMAIN arr = 1..Len(arr) /\ Len(arr) \in Nat
  /\ sel.index \in Nat
  /\ Compares(sel) => \A i \in DOMAIN arr : arr[i][sel.by] \in Int

(* Among elements that can be compared there is a best: if not, there is a
   first position up to which there is none. *)
LEMMA SomeAreBest ==
  ASSUME NEW arr, NEW sel, Comparable(arr, sel), Compares(sel), Candidates(arr, sel) # {}
  PROVE  Best(arr, sel) # {}
<1> DEFINE value(i) == arr[i][sel.by]
           upTo(m) == {i \in Candidates(arr, sel) : i <= m}
           beats(i, j) == IF sel.strategy = "min" THEN value(i) <= value(j)
                                                  ELSE value(i) >= value(j)
           best(m) == {i \in upTo(m) : \A j \in upTo(m) : beats(i, j)}
           lacking == {m \in Nat : upTo(m) # {} /\ best(m) = {}}
<1>1. Candidates(arr, sel) \subseteq 1..Len(arr) /\ Len(arr) \in Nat
  BY DEF Candidates, Comparable
<1>2. \A i \in Candidates(arr, sel) : value(i) \in Int
  BY <1>1 DEF Comparable
<1>3. \A i, j, k \in Candidates(arr, sel) :
        /\ beats(i, j) \/ beats(j, i)
        /\ beats(i, j) /\ beats(j, k) => beats(i, k)
        /\ beats(i, i)
  <2> HIDE DEF value
  <2> QED
    BY <1>2
<1> HIDE DEF beats
<1>4. lacking = {}
  <2>1. SUFFICES ASSUME lacking # {} PROVE FALSE
    OBVIOUS
  <2>2. PICK m \in lacking : \A k \in lacking : m <= k
    <3>1. lacking \in SUBSET Nat
      OBVIOUS
    <3> HIDE DEF lacking
    <3> QED
      BY <2>1, <3>1, LeastOf
  <2>3. m \in Nat /\ upTo(m) # {} /\ best(m) = {}
    BY <2>2
  <2>4. m # 0
    BY <1>1, <2>3
  <2>5. m - 1 \in Nat /\ m - 1 \notin lacking
    BY <2>2, <2>3, <2>4
  <2>6. upTo(m) = upTo(m - 1) \/ (m \in Candidates(arr, sel) /\ upTo(m) = upTo(m - 1) \cup {m})
    <3>1. \A i \in Candidates(arr, sel) : i \in Int
      BY <1>1
    <3>2. m \in Int
      BY <2>3
    <3>3. \A i \in Candidates(arr, sel) : i <= m <=> i <= m - 1 \/ i = m
      <4> HIDE DEF upTo, best
      <4> QED
        BY <3>1, <3>2
    <3> QED
      BY <3>3
  <2>7. CASE upTo(m - 1) = {}
    <3>1. m \in Candidates(arr, sel) /\ upTo(m) = {m}
      BY <2>3, <2>6, <2>7
    <3> QED
      BY <1>3, <2>3, <3>1
  <2>8. CASE upTo(m - 1) # {}
    <3>1. best(m - 1) # {}
      BY <2>5, <2>8
    <3>2. PICK i \in upTo(m - 1) : \A j \in upTo(m - 1) : beats(i, j)
      BY <3>1
    <3>3. upTo(m - 1) \subseteq upTo(m)
      BY <2>6
    <3>4. CASE upTo(m) = upTo(m - 1)
      BY <2>3, <3>2, <3>4
    <3>5. CASE m \in Candidates(arr, sel) /\ upTo(m) = upTo(m - 1) \cup {m}
      <4>1. CASE beats(i, m)
        <5>1. \A j \in upTo(m) : beats(i, j)
          BY <3>2, <3>5, <4>1
        <5>2. i \in best(m)
          BY <3>3, <3>2, <5>1
        <5> QED
          BY <2>3, <5>2
      <4>2. CASE ~beats(i, m)
        <5>1. beats(m, i) /\ beats(m, m) /\ m \in upTo(m)
          BY <1>3, <3>5, <3>2, <4>2
        <5>2. \A j \in upTo(m - 1) : beats(m, j)
          BY <1>3, <3>2, <3>5, <5>1
        <5>3. m \in best(m)
          BY <3>5, <5>1, <5>2
        <5> QED
          BY <2>3, <5>3
      <4> QED
        BY <4>1, <4>2
    <3> QED
      BY <2>6, <3>4, <3>5
  <2> QED
    BY <2>7, <2>8
<1>5. upTo(Len(arr)) = Candidates(arr, sel)
  BY <1>1
<1>6. best(Len(arr)) # {}
  BY <1>1, <1>4, <1>5
<1> QED
  BY <1>5, <1>6 DEF Best, beats

(* The pick of an array is none, or one that the selection may make. *)
MayPick(arr, sel, at) ==
  at \in Candidates(arr, sel) /\ (Compares(sel) => at \in Best(arr, sel))

LEMMA SelectionsPickTheirs ==
  ASSUME NEW arr, NEW sel, Comparable(arr, sel), NEW draw \in Nat,
         applySelection(arr, sel, draw) # 0
  PROVE  MayPick(arr, sel, applySelection(arr, sel, draw))
<1> DEFINE among == Candidates(arr, sel)
           n == Len(arr)
           pick == applySelection(arr, sel, draw)
<1>1. n \in Nat /\ among \in SUBSET (1..n) /\ sel.index \in Nat
  BY DEF Candidates, Comparable
<1>2. among # {}
  BY DEF applySelection
<1>3. Cardinality(among) \in Nat \ {0}
  BY <1>1, <1>2, PositionsAreFinite
<1>4. Best(arr, sel) \in SUBSET Nat /\ Best(arr, sel) \subseteq among
  BY <1>1 DEF Best
<1>5. CASE Compares(sel)
  <2>1. pick = Min(Best(arr, sel))
    BY <1>2, <1>5 DEF applySelection, Compares
  <2>2. Best(arr, sel) # {}
    BY <1>2, <1>5, SomeAreBest
  <2>3. pick \in Best(arr, sel)
    BY <1>4, <2>1, <2>2, MinIsOf
  <2> QED
    BY <1>4, <2>3 DEF MayPick
<1>6. CASE ~Compares(sel)
  <2>1. CASE sel.strategy = "last"
    <3>1. pick = Max(among)
      BY <1>2, <2>1 DEF applySelection
    <3> QED
      BY <1>1, <1>2, <1>6, <3>1, MaxIsOf DEF MayPick
  <2>2. CASE sel.strategy = "index"
    <3>1. sel.index < Cardinality(among) /\ pick = Nth(among, sel.index + 1)
      BY <1>2, <2>2 DEF applySelection
    <3>2. sel.index + 1 \in 1..Cardinality(among)
      BY <1>1, <1>3, <3>1
    <3> QED
      BY <1>1, <1>6, <3>1, <3>2, NthIsOf DEF MayPick
  <2>3. CASE sel.strategy = "random"
    <3>1. pick = Nth(among, (draw % Cardinality(among)) + 1)
      BY <1>2, <2>3 DEF applySelection
    <3>2. (draw % Cardinality(among)) + 1 \in 1..Cardinality(among)
      BY <1>3
    <3> QED
      BY <1>1, <1>6, <3>1, <3>2, NthIsOf DEF MayPick
  <2>4. CASE sel.strategy \notin {"last", "index", "random"}
    <3>1. pick = Min(among)
      BY <1>2, <1>6, <2>4 DEF applySelection
    <3>2. among \in SUBSET Nat
      BY <1>1
    <3> QED
      BY <1>2, <1>6, <3>1, <3>2, MinIsOf DEF MayPick
  <2> QED
    BY <2>1, <2>2, <2>3, <2>4
<1> QED
  BY <1>5, <1>6
-----------------------------------------------------------------------------
(* The key of a decision's pick. *)
Key(d) == dedupKey(d.from, d.sel, d.user)

(* A decision's pick is its own. *)
Own(s, d) ==
  LET arr == s.outputs[d.from]
  IN  /\ MayPick(arr, d.sel, d.at)
      /\ d.sel.onTie = "fail" /\ Compares(d.sel) => Best(arr, d.sel) = {d.at}

IsARun(s, numbers) == \E run \in Runs : s = run.step /\ numbers = run.draws

(* The cache holds what was decided, and nothing else. *)
CacheInv ==
  /\ IsARun(step, draws)
  /\ drawn \in Nat
  /\ decisions \in Seq(Range(decisions))
  /\ \A k \in DOMAIN decisions :
       /\ Own(step, decisions[k])
       /\ Key(decisions[k]) \in DOMAIN dedupCache
       /\ dedupCache[Key(decisions[k])] = decisions[k].at
  /\ \A key \in DOMAIN dedupCache : \E k \in DOMAIN decisions : key = Key(decisions[k])

LEMMA AlikeHaveOneKey ==
  ASSUME NEW d, NEW e
  PROVE  Alike(d, e) <=> Key(d) = Key(e)
BY DEF Alike, Key, dedupKey, Compares

LEMMA SelectionsOfRuns ==
  ASSUME IsARun(step, draws), NEW from, NEW sel, <<from, sel>> \in SelectionsOf(step),
         HasArray(from)
  PROVE  Comparable(step.outputs[from], sel)
<1>1. PICK run \in Runs : step = run.step
  BY DEF IsARun
<1>2. <<from, sel>>[1] = from /\ <<from, sel>>[2] = sel
  OBVIOUS
<1> QED
  BY <1>1, <1>2, RunsAssumption DEF HasArray, HasOutput, Comparable

LEMMA DrawsAreNumbers ==
  ASSUME IsARun(step, draws), drawn \in Nat
  PROVE  NextDraw \in Nat
<1>1. draws \in Seq(Nat) /\ draws # <<>>
  BY RunsAssumption DEF IsARun
<1>2. Len(draws) \in Nat \ {0}
  BY <1>1
<1>3. (drawn % Len(draws)) + 1 \in 1..Len(draws)
  BY <1>2
<1> QED
  BY <1>1, <1>3 DEF NextDraw

(* What is picked from a cache was picked by a selection that is alike. *)
LEMMA PickedIsOwn ==
  ASSUME CacheInv, NEW from, NEW sel, NEW user,
         <<from, sel>> \in SelectionsOf(step), ~SelectionFails(from, sel, user)
  PROVE  MayPick(step.outputs[from], sel, Picked(from, sel, user))
<1> DEFINE key == dedupKey(from, sel, user)
           arr == step.outputs[from]
<1>1. HasArray(from) /\ Picked(from, sel, user) # 0
  BY DEF SelectionFails
<1>2. Comparable(arr, sel)
  BY <1>1, SelectionsOfRuns DEF CacheInv
<1>3. CASE key \in DOMAIN dedupCache
  <2>1. PICK k \in DOMAIN decisions : key = Key(decisions[k])
    BY <1>3 DEF CacheInv
  <2>2. Own(step, decisions[k]) /\ Picked(from, sel, user) = decisions[k].at
    BY <1>3, <2>1 DEF CacheInv, Picked
  <2>3. /\ decisions[k].from = from /\ decisions[k].sel.strategy = sel.strategy
        /\ decisions[k].sel.filter = sel.filter
        /\ Compares(sel) => decisions[k].sel.by = sel.by
    BY <2>1 DEF Key, dedupKey, Compares
  <2>4. Candidates(arr, decisions[k].sel) = Candidates(arr, sel)
    BY <2>3 DEF Candidates
  <2>5. Compares(sel) => Best(arr, decisions[k].sel) = Best(arr, sel)
    BY <2>3, <2>4 DEF Best
  <2> QED
    BY <2>2, <2>3, <2>4, <2>5 DEF Own, MayPick, Compares
<1>4. CASE key \notin DOMAIN dedupCache
  <2>1. Picked(from, sel, user) = applySelection(arr, sel, NextDraw)
    BY <1>4 DEF Picked
  <2>2. NextDraw \in Nat
    BY DrawsAreNumbers DEF CacheInv
  <2> QED
    BY <1>1, <1>2, <2>1, <2>2, SelectionsPickTheirs
<1> QED
  BY <1>3, <1>4

(* One of the best is the only one, if there is to be no tie. *)
LEMMA NoTieIsOne ==
  ASSUME NEW from, NEW sel, Comparable(step.outputs[from], sel), ~Ties(from, sel),
         sel.onTie = "fail", Compares(sel), NEW at \in Best(step.outputs[from], sel)
  PROVE  Best(step.outputs[from], sel) = {at}
<1> DEFINE best == Best(step.outputs[from], sel)
           n == Len(step.outputs[from])
<1>1. n \in Nat /\ best \in SUBSET (1..n)
  BY DEF Comparable, Best, Candidates
<1>2. ~(Cardinality(best) > 1) /\ at \in best
  BY DEF Ties
<1>3. best = {at}
  <2> HIDE DEF best, n
  <2>1. IsFiniteSet(best) /\ Cardinality(best) \in Nat /\ Cardinality(best) # 0
    BY <1>1, <1>2, PositionsAreFinite
  <2>2. Cardinality(best) = 1
    BY <1>2, <2>1
  <2>3. PICK x : best = {x}
    BY <2>1, <2>2, FS_Singleton
  <2> QED
    BY <1>2, <2>3
<1> QED
  BY <1>3

-----------------------------------------------------------------------------
(* What was decided stays decided. *)
DecisionsGrow ==
  \A k \in DOMAIN decisions : k \in DOMAIN decisions' /\ decisions'[k] = decisions[k]

(* A named selection that was resolved was decided. *)
NamedDecided ==
  \A s \in DOMAIN named : named[s] # 0 =>
    \E k \in DOMAIN decisions :
      /\ decisions[k].from = step.selections[s].from
      /\ decisions[k].sel = step.selections[s] /\ decisions[k].at = named[s]

SelectionInv == CacheInv /\ NamedDecided

LEMMA AppendGrows ==
  ASSUME CacheInv, NEW d, decisions' = Append(decisions, d)
  PROVE  DecisionsGrow /\ Len(decisions') \in DOMAIN decisions' /\ decisions'[Len(decisions')] = d
<1>1. decisions \in Seq(Range(decisions) \cup {d})
  BY DEF CacheInv
<1> QED
  BY <1>1 DEF DecisionsGrow

LEMMA NamedStay ==
  ASSUME NamedDecided, DecisionsGrow, UNCHANGED <<step, named>>
  PROVE  NamedDecided'
<1> SUFFICES ASSUME NEW s \in DOMAIN named, named[s] # 0
             PROVE  \E k \in DOMAIN decisions' :
                      /\ decisions'[k].from = step.selections[s].from
                      /\ decisions'[k].sel = step.selections[s] /\ decisions'[k].at = named[s]
  BY DEF NamedDecided
<1> QED
  BY DEF NamedDecided, DecisionsGrow

LEMMA NamedIsAdded ==
  ASSUME NamedDecided, DecisionsGrow, UNCHANGED step, NEW n, NEW pick,
         named' = Put(named, n, pick),
         pick # 0 => \E k \in DOMAIN decisions' :
                       /\ decisions'[k].from = step.selections[n].from
                       /\ decisions'[k].sel = step.selections[n] /\ decisions'[k].at = pick
  PROVE  NamedDecided'
<1> SUFFICES ASSUME NEW s \in DOMAIN named', named'[s] # 0
             PROVE  \E k \in DOMAIN decisions' :
                      /\ decisions'[k].from = step.selections[s].from
                      /\ decisions'[k].sel = step.selections[s] /\ decisions'[k].at = named'[s]
  BY DEF NamedDecided
<1>1. CASE s = n
  BY <1>1 DEF Put
<1>2. CASE s # n
  BY <1>2 DEF Put, NamedDecided, DecisionsGrow
<1> QED
  BY <1>1, <1>2

LEMMA StartsUndecided == Init => SelectionInv
BY DEF Init, SelectionInv, CacheInv, NamedDecided, IsARun, Range

LEMMA NothingSelected ==
  ASSUME CacheInv, UNCHANGED <<step, draws, dedupCache, decisions>>, drawn' \in Nat
  PROVE  CacheInv'
<1>1. IsARun(step, draws)' /\ drawn' \in Nat /\ (decisions \in Seq(Range(decisions)))'
  BY DEF CacheInv, IsARun, Range
<1>2. \A k \in DOMAIN decisions' :
        /\ Own(step, decisions'[k])
        /\ Key(decisions'[k]) \in DOMAIN dedupCache'
        /\ dedupCache'[Key(decisions'[k])] = decisions'[k].at
  BY DEF CacheInv
<1>3. \A key \in DOMAIN dedupCache' : \E k \in DOMAIN decisions' : key = Key(decisions'[k])
  BY DEF CacheInv
<1>4. step' = step
  OBVIOUS
<1>5. (\A k \in DOMAIN decisions :
         /\ Own(step, decisions[k])
         /\ Key(decisions[k]) \in DOMAIN dedupCache
         /\ dedupCache[Key(decisions[k])] = decisions[k].at)'
  <2>1. \A k \in DOMAIN decisions' : Own(step', decisions'[k])
    BY <1>2, <1>4
  <2>2. (\A k \in DOMAIN decisions : Own(step, decisions[k]))'
    BY <2>1 DEF Own, MayPick, Compares, Candidates, Best
  <2>3. (\A k \in DOMAIN decisions :
           /\ Key(decisions[k]) \in DOMAIN dedupCache
           /\ dedupCache[Key(decisions[k])] = decisions[k].at)'
    BY <1>2 DEF Key, dedupKey, Compares
  <2> QED
    BY <2>2, <2>3
<1>6. (\A key \in DOMAIN dedupCache : \E k \in DOMAIN decisions : key = Key(decisions[k]))'
  BY <1>3 DEF Key, dedupKey, Compares
<1> QED
  BY <1>1, <1>5, <1>6 DEF CacheInv

(* A decision keeps what the cache says, or adds to it. *)
LEMMA DecisionKeeps ==
  ASSUME CacheInv, NEW d, Own(step, d), decisions' = Append(decisions, d),
         Key(d) \in DOMAIN dedupCache => dedupCache[Key(d)] = d.at,
         DOMAIN dedupCache' = DOMAIN dedupCache \cup {Key(d)},
         \A x \in DOMAIN dedupCache \ {Key(d)} : dedupCache'[x] = dedupCache[x],
         dedupCache'[Key(d)] = d.at,
         drawn' \in Nat, UNCHANGED <<step, draws>>
  PROVE  CacheInv'
<1> DEFINE n == Len(decisions)
<1>1. /\ decisions \in Seq(Range(decisions) \cup {d})
      /\ n \in Nat /\ DOMAIN decisions = 1..n
  BY DEF CacheInv
<1>3. /\ DOMAIN decisions' = 1..(n + 1) /\ Len(decisions') = n + 1
      /\ \A k \in DOMAIN decisions : decisions'[k] = decisions[k]
      /\ decisions'[n + 1] = d
  BY <1>1
<1>8. decisions' \in Seq(Range(decisions'))
  <2>1. \A k \in 1..(n + 1) : decisions'[k] \in Range(decisions')
    BY <1>3 DEF Range
  <2>2. decisions' \in Seq(Range(decisions) \cup {d})
    <3>1. \A S : decisions \in Seq(S) /\ d \in S => Append(decisions, d) \in Seq(S)
      OBVIOUS
    <3> QED
      BY <1>1, <3>1
  <2>3. decisions' = [k \in 1..(n + 1) |-> decisions'[k]]
    <3>1. \A S : \A t \in Seq(S) : t = [k \in 1..Len(t) |-> t[k]]
      OBVIOUS
    <3> QED
      BY <1>3, <2>2, <3>1
  <2>4. [k \in 1..(n + 1) |-> decisions'[k]] \in [1..(n + 1) -> Range(decisions')]
    BY <2>1
  <2> QED
    BY <1>1, <2>3, <2>4
<1>9. \A k \in DOMAIN decisions' :
        /\ Own(step, decisions'[k])
        /\ Key(decisions'[k]) \in DOMAIN dedupCache'
        /\ dedupCache'[Key(decisions'[k])] = decisions'[k].at
  <2> SUFFICES ASSUME NEW k \in DOMAIN decisions'
               PROVE  /\ Own(step, decisions'[k])
                      /\ Key(decisions'[k]) \in DOMAIN dedupCache'
                      /\ dedupCache'[Key(decisions'[k])] = decisions'[k].at
    OBVIOUS
  <2>1. CASE k \in DOMAIN decisions
    <3>1. /\ Own(step, decisions[k]) /\ Key(decisions[k]) \in DOMAIN dedupCache
          /\ dedupCache[Key(decisions[k])] = decisions[k].at
      BY <2>1 DEF CacheInv
    <3>2. dedupCache'[Key(decisions[k])] = dedupCache[Key(decisions[k])]
      BY <3>1
    <3> QED
      BY <1>3, <2>1, <3>1, <3>2
  <2>2. CASE k = n + 1
    BY <1>3, <2>2
  <2> QED
    BY <1>1, <1>3, <2>1, <2>2
<1>10. \A x \in DOMAIN dedupCache' : \E k \in DOMAIN decisions' : x = Key(decisions'[k])
  <2> SUFFICES ASSUME NEW x \in DOMAIN dedupCache'
               PROVE  \E k \in DOMAIN decisions' : x = Key(decisions'[k])
    OBVIOUS
  <2>1. CASE x \in DOMAIN dedupCache
    <3>1. PICK k \in DOMAIN decisions : x = Key(decisions[k])
      BY <2>1 DEF CacheInv
    <3>2. k \in DOMAIN decisions' /\ decisions'[k] = decisions[k]
      BY <1>1, <1>3
    <3> QED
      BY <3>1, <3>2
  <2>2. CASE x = Key(d)
    <3>1. n + 1 \in DOMAIN decisions'
      BY <1>1, <1>3
    <3> QED
      BY <1>3, <2>2, <3>1
  <2> QED
    BY <2>1, <2>2
<1>12. IsARun(step, draws)'
  BY DEF CacheInv, IsARun
<1>13. (\A k \in DOMAIN decisions :
          /\ Own(step, decisions[k])
          /\ Key(decisions[k]) \in DOMAIN dedupCache
          /\ dedupCache[Key(decisions[k])] = decisions[k].at)'
  <2>1. \A k \in DOMAIN decisions' : Own(step', decisions'[k])
    BY <1>9
  <2>2. (\A k \in DOMAIN decisions : Own(step, decisions[k]))'
    BY <2>1 DEF Own, MayPick, Compares, Candidates, Best
  <2>3. (\A k \in DOMAIN decisions :
           /\ Key(decisions[k]) \in DOMAIN dedupCache
           /\ dedupCache[Key(decisions[k])] = decisions[k].at)'
    BY <1>9 DEF Key, dedupKey, Compares
  <2> QED
    BY <2>2, <2>3
<1>14. (\A x \in DOMAIN dedupCache : \E k \in DOMAIN decisions : x = Key(decisions[k]))'
  BY <1>10 DEF Key, dedupKey, Compares
<1>15. (decisions \in Seq(Range(decisions)))'
  BY <1>8 DEF Range
<1> QED
  BY <1>12, <1>13, <1>14, <1>15 DEF CacheInv

LEMMA SelectKeeps ==
  ASSUME CacheInv, NEW from, NEW sel, NEW user,
         <<from, sel>> \in SelectionsOf(step), ~SelectionFails(from, sel, user),
         Select(from, sel, user), UNCHANGED <<step, draws>>
  PROVE  CacheInv'
<1> DEFINE pick == Picked(from, sel, user)
           d == [user |-> user, from |-> from, sel |-> sel, at |-> pick]
<1>1. Key(d) = dedupKey(from, sel, user) /\ d.at = pick
  BY DEF Key
<1>2. decisions' = Append(decisions, d)
  BY DEF Select, Decide
<1>3. Key(d) \in DOMAIN dedupCache => dedupCache[Key(d)] = d.at
  BY <1>1 DEF Picked
<1>4. dedupCache' = Put(dedupCache, Key(d), d.at)
  BY <1>1 DEF Select
<1>5. Own(step, d)
  <2>1. MayPick(step.outputs[from], sel, pick)
    BY PickedIsOwn
  <2>2. HasArray(from) /\ ~Ties(from, sel)
    BY DEF SelectionFails
  <2>3. Comparable(step.outputs[from], sel)
    BY <2>2, SelectionsOfRuns DEF CacheInv
  <2>4. sel.onTie = "fail" /\ Compares(sel) => Best(step.outputs[from], sel) = {pick}
    BY <2>1, <2>2, <2>3, NoTieIsOne DEF MayPick
  <2> HIDE DEF pick
  <2> QED
    BY <2>1, <2>4 DEF Own
<1> HIDE DEF d
<1>6. /\ DOMAIN dedupCache' = DOMAIN dedupCache \cup {Key(d)}
      /\ \A x \in DOMAIN dedupCache \ {Key(d)} : dedupCache'[x] = dedupCache[x]
      /\ dedupCache'[Key(d)] = d.at
  BY <1>4 DEF Put
<1>7. drawn' \in Nat
  BY DEF CacheInv, Select
<1> QED
  BY <1>2, <1>3, <1>5, <1>6, <1>7, DecisionKeeps

-----------------------------------------------------------------------------
LEMMA FailKeeps ==
  ASSUME CacheInv, NEW name, Fail(name)
  PROVE  CacheInv'
BY NothingSelected DEF Fail, CacheInv

LEMMA SelectNamedKeeps == SelectionInv /\ SelectNamed => SelectionInv' /\ DecisionsGrow
<1> SUFFICES ASSUME SelectionInv, SelectNamed PROVE SelectionInv' /\ DecisionsGrow
  OBVIOUS
<1>0. CacheInv /\ NamedDecided
  BY DEF SelectionInv
<1>1. PICK n \in NextSelections :
        LET sel == step.selections[n]
        IN  \/ /\ ~SelectionFails(sel.from, sel, n)
               /\ Select(sel.from, sel, n) /\ UNCHANGED <<step, draws>>
               /\ named' = Put(named, n, Picked(sel.from, sel, n))
            \/ UNCHANGED <<step, draws, drawn, dedupCache, decisions>> /\ named' = Put(named, n, 0)
            \/ Fail(n)
  BY DEF SelectNamed
<1> DEFINE sel == step.selections[n]
<1>2. n \in DOMAIN step.selections
  BY DEF NextSelections
<1>3. <<sel.from, sel>> \in SelectionsOf(step)
  BY <1>2 DEF SelectionsOf, Range
<1>4. CASE /\ ~SelectionFails(sel.from, sel, n)
           /\ Select(sel.from, sel, n) /\ UNCHANGED <<step, draws>>
           /\ named' = Put(named, n, Picked(sel.from, sel, n))
  <2> DEFINE d == [user |-> n, from |-> sel.from, sel |-> sel, at |-> Picked(sel.from, sel, n)]
  <2>1. CacheInv'
    <3> HIDE DEF sel
    <3> QED
      BY <1>0, <1>3, <1>4, SelectKeeps
  <2>2. decisions' = Append(decisions, d)
    BY <1>4 DEF Select, Decide
  <2>3. DecisionsGrow /\ Len(decisions') \in DOMAIN decisions' /\ decisions'[Len(decisions')] = d
    <3> HIDE DEF d
    <3> QED
      BY <1>0, <2>2, AppendGrows
  <2>4. d.from = sel.from /\ d.sel = sel /\ d.at = Picked(sel.from, sel, n)
    OBVIOUS
  <2>5. NamedDecided'
    <3> HIDE DEF d
    <3> QED
      BY <1>0, <1>4, <2>3, <2>4, NamedIsAdded
  <2> QED
    BY <2>1, <2>3, <2>5 DEF SelectionInv
<1>5. CASE UNCHANGED <<step, draws, drawn, dedupCache, decisions>> /\ named' = Put(named, n, 0)
  <2>1. CacheInv' /\ DecisionsGrow
    BY <1>0, <1>5, NothingSelected DEF CacheInv, DecisionsGrow
  <2> QED
    BY <1>0, <1>5, <2>1, NamedIsAdded DEF SelectionInv
<1>6. CASE Fail(n)
  <2>1. DecisionsGrow /\ UNCHANGED <<step, named>>
    BY <1>6 DEF Fail, DecisionsGrow
  <2> QED
    BY <1>0, <1>6, <2>1, FailKeeps, NamedStay DEF SelectionInv
<1> QED
  BY <1>1, <1>4, <1>5, <1>6

LEMMA ResolveSelectKeeps == SelectionInv /\ ResolveSelect => SelectionInv' /\ DecisionsGrow
<1> SUFFICES ASSUME SelectionInv, ResolveSelect PROVE SelectionInv' /\ DecisionsGrow
  OBVIOUS
<1> DEFINE v == Value(Name)
<1>0. CacheInv /\ NamedDecided /\ UNCHANGED <<step, named>>
  BY DEF SelectionInv, ResolveSelect, LeaveOut, Take, Fail
<1>1. v.kind = "select"
  BY DEF ResolveSelect, Resolving
<1>2. \/ /\ ~SelectionFails(v.from, v.select, Name)
         /\ Select(v.from, v.select, Name) /\ UNCHANGED <<step, draws>>
      \/ UNCHANGED <<step, draws, drawn, dedupCache, decisions>>
  BY DEF ResolveSelect, LeaveOut, Take, NoPick, Fail
<1>3. Name \in DOMAIN step.values /\ v = step.values[Name]
  BY <1>1 DEF Value
<1>4. <<v.from, v.select>> \in SelectionsOf(step)
  <2>1. v \in Range(step.values)
    BY <1>3 DEF Range
  <2> HIDE DEF v
  <2> QED
    BY <1>1, <2>1 DEF SelectionsOf
<1>5. CASE /\ ~SelectionFails(v.from, v.select, Name)
           /\ Select(v.from, v.select, Name) /\ UNCHANGED <<step, draws>>
  <2>1. \A from, sel, name :
          /\ <<from, sel>> \in SelectionsOf(step) /\ ~SelectionFails(from, sel, name)
          /\ Select(from, sel, name) /\ UNCHANGED <<step, draws>>
          => CacheInv' /\ DecisionsGrow
    BY <1>0, SelectKeeps, AppendGrows DEF Select, Decide
  <2>2. CacheInv' /\ DecisionsGrow
    <3> HIDE DEF v
    <3> QED
      BY <1>4, <1>5, <2>1
  <2> QED
    BY <1>0, <2>2, NamedStay DEF SelectionInv
<1>6. CASE UNCHANGED <<step, draws, drawn, dedupCache, decisions>>
  <2>1. CacheInv' /\ DecisionsGrow
    BY <1>0, <1>6, NothingSelected DEF CacheInv, DecisionsGrow
  <2> QED
    BY <1>0, <2>1, NamedStay DEF SelectionInv
<1> QED
  BY <1>2, <1>5, <1>6

(* What an input takes from a named selection was decided. *)
LEMMA ResolveFromSelectionKeeps ==
  SelectionInv /\ ResolveFromSelection => SelectionInv' /\ DecisionsGrow
<1> SUFFICES ASSUME SelectionInv, ResolveFromSelection PROVE SelectionInv' /\ DecisionsGrow
  OBVIOUS
<1> DEFINE v == Value(Name)
           sel == step.selections[v.selection]
           d == [user |-> Name, from |-> sel.from, sel |-> sel, at |-> named[v.selection]]
<1>0. CacheInv /\ NamedDecided /\ UNCHANGED <<step, named>>
  BY DEF SelectionInv, ResolveFromSelection, LeaveOut, Take, Fail
<1>1. \/ UNCHANGED <<step, draws, drawn, dedupCache, decisions>>
      \/ /\ v.selection \in DOMAIN named /\ named[v.selection] # 0
         /\ decisions' = Append(decisions, d) /\ UNCHANGED <<step, draws, drawn, dedupCache>>
  BY DEF ResolveFromSelection, LeaveOut, Take, NoPick, Fail, Decide
<1>2. CASE UNCHANGED <<step, draws, drawn, dedupCache, decisions>>
  <2>1. CacheInv' /\ DecisionsGrow
    BY <1>0, <1>2, NothingSelected DEF CacheInv, DecisionsGrow
  <2> QED
    BY <1>0, <2>1, NamedStay DEF SelectionInv
<1>3. CASE /\ v.selection \in DOMAIN named /\ named[v.selection] # 0
           /\ decisions' = Append(decisions, d) /\ UNCHANGED <<step, draws, drawn, dedupCache>>
  <2>1. PICK k \in DOMAIN decisions :
          /\ decisions[k].from = sel.from /\ decisions[k].sel = sel
          /\ decisions[k].at = named[v.selection]
    BY <1>0, <1>3 DEF NamedDecided
  <2>2. d.from = sel.from /\ d.sel = sel /\ d.at = named[v.selection]
    OBVIOUS
  <2> HIDE DEF d, sel, v
  <2>3. /\ Own(step, decisions[k]) /\ Key(decisions[k]) \in DOMAIN dedupCache
        /\ dedupCache[Key(decisions[k])] = decisions[k].at
    BY <1>0 DEF CacheInv
  <2>4. Own(step, d)
    BY <2>1, <2>2, <2>3 DEF Own
  <2>5. Key(d) = Key(decisions[k])
    BY <2>1, <2>2 DEF Key, dedupKey
  <2>6. Key(d) \in DOMAIN dedupCache /\ dedupCache[Key(d)] = d.at
    BY <2>1, <2>2, <2>3, <2>5
  <2>7. CacheInv'
    <3>1. drawn' \in Nat
      BY <1>0, <1>3 DEF CacheInv
    <3>2. DOMAIN dedupCache' = DOMAIN dedupCache \cup {Key(d)} /\ dedupCache' = dedupCache
      BY <1>3, <2>6
    <3> QED
      BY <1>0, <1>3, <2>4, <2>6, <3>1, <3>2, DecisionKeeps
  <2>8. DecisionsGrow
    BY <1>0, <1>3, AppendGrows
  <2> QED
    BY <1>0, <2>7, <2>8, NamedStay DEF SelectionInv
<1> QED
  BY <1>1, <1>2, <1>3

(* No other step of a resolution selects. *)
LEMMA OthersSelectNothing ==
  ASSUME SelectionInv,
         \/ BeginInputs \/ ResolveEmpty \/ ResolveFromResolved \/ ResolveFromInput
         \/ ResolveFrom \/ ResolveRaw \/ ResolveDefault \/ ResolveUnset \/ OverrideInput \/ Send \/ Unrendered
         \/ UNCHANGED stepVars \/ BeginStep
  PROVE  SelectionInv' /\ DecisionsGrow
<1>1. UNCHANGED <<step, draws, dedupCache, decisions, named>> /\ drawn' \in {drawn, drawn + 1}
  <2>1. CASE BeginInputs \/ UNCHANGED stepVars \/ BeginStep \/ OverrideInput
    BY <2>1 DEF BeginInputs, stepVars, BeginStep, OverrideInput
  <2>2. CASE \/ ResolveEmpty \/ ResolveFromResolved \/ ResolveFromInput \/ ResolveFrom
             \/ ResolveRaw \/ ResolveUnset
    BY <2>2 DEF ResolveEmpty, ResolveFromResolved, ResolveFromInput, ResolveFrom, ResolveRaw,
                ResolveUnset, Fail, LeaveOut, Take, NoPick
  <2>3. CASE ResolveDefault
    BY <2>3 DEF ResolveDefault, Fail, Take, NoPick
  <2>4. CASE Send \/ Unrendered
    BY <2>4 DEF Send, Unrendered, Finish
  <2> QED
    BY <2>1, <2>2, <2>3, <2>4
<1>2. CacheInv /\ NamedDecided
  BY DEF SelectionInv
<1>3. CacheInv' /\ DecisionsGrow
  BY <1>1, <1>2, NothingSelected DEF CacheInv, DecisionsGrow
<1> QED
  BY <1>1, <1>2, <1>3, NamedStay DEF SelectionInv

LEMMA ReplayStartsUndecided == SelectionInv /\ Replay => SelectionInv'
BY DEF SelectionInv, CacheInv, NamedDecided, Replay, IsARun, Range

LEMMA StepsKeepSelectionInv == SelectionInv /\ [Next]_vars => SelectionInv'
<1> SUFFICES ASSUME SelectionInv, [Next]_vars PROVE SelectionInv'
  OBVIOUS
<1>1. CASE SelectNamed
  BY <1>1, SelectNamedKeeps
<1>2. CASE ResolveSelect \/ ResolveFromSelection
  BY <1>2, ResolveSelectKeeps, ResolveFromSelectionKeeps
<1>3. CASE Replay
  BY <1>3, ReplayStartsUndecided
<1>4. CASE (BuildRoutes /\ UNCHANGED stepVars) \/ Done \/ UNCHANGED vars
  <2>1. UNCHANGED stepVars
    BY <1>4 DEF Done, vars
  <2> QED
    BY <2>1, OthersSelectNothing
<1>5. CASE \/ BeginInputs \/ ResolveEmpty \/ ResolveFromResolved \/ ResolveFromInput
           \/ ResolveFrom \/ ResolveRaw \/ ResolveDefault \/ ResolveUnset \/ OverrideInput \/ Send \/ Unrendered \/ BeginStep
  BY <1>5, OthersSelectNothing
<1> QED
  BY <1>1, <1>2, <1>3, <1>4, <1>5 DEF Next, ResolveStep

(* Each pick of a step's selections is one that the selection may make, and the
   selections that are alike pick one element, in every run of every step and in
   its replay (resolve.go resolveSelectValue, dedupCache). *)
THEOREM PicksAreTheSelections == Spec => []PicksAreTheirs
<1>1. SelectionInv => PicksAreTheirs
  <2> SUFFICES ASSUME SelectionInv, NEW k \in DOMAIN decisions
               PROVE  LET d == decisions[k]
                          arr == step.outputs[d.from]
                      IN  /\ d.at \in Candidates(arr, d.sel)
                          /\ Compares(d.sel) => d.at \in Best(arr, d.sel)
                          /\ d.sel.onTie = "fail" /\ Compares(d.sel) => Best(arr, d.sel) = {d.at}
                          /\ \A j \in DOMAIN decisions : Alike(d, decisions[j]) => decisions[j].at = d.at
    BY DEF PicksAreTheirs
  <2>1. Own(step, decisions[k])
    BY DEF SelectionInv, CacheInv
  <2>2. \A j \in DOMAIN decisions :
          Alike(decisions[k], decisions[j]) => decisions[j].at = decisions[k].at
    BY AlikeHaveOneKey DEF SelectionInv, CacheInv
  <2> QED
    BY <2>1, <2>2 DEF Own, MayPick
<1> QED
  BY <1>1, StartsUndecided, StepsKeepSelectionInv, PTL DEF Spec

-----------------------------------------------------------------------------
(* The values of overrides.  What the two loops of ResolveValueOverride come to,
   turn by turn: of the turns that set an input, the last. *)
Turns(upTo, node, n) ==
  {k \in 1..upTo : Applies(k, node) /\ n \in DOMAIN Turn(k).values}
MergedBy(upTo, node) ==
  [n \in {n \in UNION {DOMAIN Turn(k).values : k \in 1..upTo} : Turns(upTo, node, n) # {}}
     |-> Turn(Max(Turns(upTo, node, n))).values[n]]

LEMMA MaxIs ==
  ASSUME NEW S \in SUBSET Nat, NEW x \in S, \A y \in S : y <= x
  PROVE  Max(S) = x
<1>1. \A y \in S : x >= y
  OBVIOUS
<1>2. \A z \in S : (\A y \in S : z >= y) => z = x
  OBVIOUS
<1> QED
  BY <1>1, <1>2 DEF Max

LEMMA MaxIsGreatest ==
  ASSUME NEW n \in Nat, NEW S \in SUBSET (1..n), S # {}
  PROVE  Max(S) \in S /\ \A y \in S : y <= Max(S)
<1> DEFINE Under == {m \in 0..n : \E x \in S : m = n - x}
<1>1. Under \in SUBSET Nat /\ Under # {}
  <2>1. PICK x \in S : TRUE
    OBVIOUS
  <2>2. n - x \in 0..n
    BY <2>1
  <2>3. n - x \in Under
    BY <2>1, <2>2
  <2>4. Under \in SUBSET Nat
    BY DEF Under
  <2> QED
    BY <2>3, <2>4
<1>2. PICK m \in Under : \A k \in Under : m <= k
  <2> HIDE DEF Under
  <2> QED
    BY <1>1, LeastOf
<1>3. PICK x \in S : m = n - x
  BY <1>2
<1>4. \A y \in S : y <= x
  <2> TAKE y \in S
  <2>1. y \in 1..n /\ x \in 1..n
    BY <1>3
  <2>2. n - y \in Under
    BY <2>1
  <2>3. m <= n - y
    BY <1>2, <2>2
  <2> QED
    BY <1>3, <2>1, <2>3
<1>5. Max(S) = x
  <2>1. S \in SUBSET Nat
    OBVIOUS
  <2> QED
    BY <1>3, <1>4, <2>1, MaxIs
<1> QED
  BY <1>3, <1>4, <1>5

LEMMA MergedStep ==
  ASSUME NEW node, NEW k \in Nat \ {0}
  PROVE  MergedBy(k, node) = IF Applies(k, node) THEN mergeValues(MergedBy(k - 1, node), Turn(k).values)
                             ELSE MergedBy(k - 1, node)
<1>1. k - 1 \in Nat /\ 1..k = 1..(k - 1) \cup {k} /\ k \notin 1..(k - 1)
  OBVIOUS
<1>2. ASSUME NEW n
      PROVE  Turns(k, node, n) = Turns(k - 1, node, n) \cup
               (IF Applies(k, node) /\ n \in DOMAIN Turn(k).values THEN {k} ELSE {})
  BY <1>1 DEF Turns
<1>3. ASSUME NEW n, Applies(k, node), n \in DOMAIN Turn(k).values
      PROVE  Max(Turns(k, node, n)) = k
  <2>1. Turns(k, node, n) \in SUBSET Nat /\ k \in Turns(k, node, n)
    BY <1>3 DEF Turns
  <2>2. \A y \in Turns(k, node, n) : y <= k
    BY DEF Turns
  <2> QED
    BY <2>1, <2>2, MaxIs
<1>4. DOMAIN MergedBy(k, node) = {n \in UNION {DOMAIN Turn(j).values : j \in 1..k} : Turns(k, node, n) # {}}
  BY DEF MergedBy
<1>5. \A j \in Nat : \A n : n \in DOMAIN MergedBy(j, node) <=> Turns(j, node, n) # {}
  BY DEF MergedBy, Turns
<1>6. \A j \in Nat : \A n \in DOMAIN MergedBy(j, node) :
        MergedBy(j, node)[n] = Turn(Max(Turns(j, node, n))).values[n]
  BY DEF MergedBy
<1>7. CASE Applies(k, node)
  <2> DEFINE m == mergeValues(MergedBy(k - 1, node), Turn(k).values)
  <2>1. DOMAIN m = DOMAIN MergedBy(k - 1, node) \cup DOMAIN Turn(k).values
    BY DEF mergeValues
  <2>2. DOMAIN MergedBy(k, node) = DOMAIN m
    <3>1. \A x : x \in DOMAIN MergedBy(k, node)
                <=> x \in DOMAIN MergedBy(k - 1, node) \/ x \in DOMAIN Turn(k).values
      <4> TAKE x
      <4>1. x \in DOMAIN MergedBy(k, node) <=> Turns(k, node, x) # {}
        BY <1>5
      <4>2. x \in DOMAIN MergedBy(k - 1, node) <=> Turns(k - 1, node, x) # {}
        BY <1>1, <1>5
      <4>3. Turns(k, node, x) # {} <=> Turns(k - 1, node, x) # {} \/ x \in DOMAIN Turn(k).values
        BY <1>2, <1>7
      <4> QED
        BY <4>1, <4>2, <4>3
    <3> QED
      BY <2>1, <3>1
  <2>3. ASSUME NEW n \in DOMAIN m PROVE MergedBy(k, node)[n] = m[n]
    <3>1. CASE n \in DOMAIN Turn(k).values
      BY <1>3, <1>6, <1>7, <2>2, <2>3, <3>1 DEF mergeValues
    <3>2. CASE n \notin DOMAIN Turn(k).values
      <4>1. Turns(k, node, n) = Turns(k - 1, node, n) /\ n \in DOMAIN MergedBy(k - 1, node)
        BY <1>2, <2>1, <2>3, <3>2
      <4> QED
        BY <1>1, <1>6, <2>1, <2>2, <2>3, <3>2, <4>1 DEF mergeValues
    <3> QED
      BY <3>1, <3>2
  <2>4. MergedBy(k, node) = [n \in DOMAIN MergedBy(k, node) |-> MergedBy(k, node)[n]]
    BY DEF MergedBy
  <2>5. m = [n \in DOMAIN m |-> m[n]]
    BY DEF mergeValues
  <2>6. MergedBy(k, node) = m
    <3> HIDE DEF m
    <3> QED
      BY <2>2, <2>3, <2>4, <2>5
  <2> QED
    BY <1>7, <2>6
<1>8. CASE ~Applies(k, node)
  <2>1. \A n : Turns(k, node, n) = Turns(k - 1, node, n)
    BY <1>2, <1>8
  <2>2. DOMAIN MergedBy(k, node) = DOMAIN MergedBy(k - 1, node)
    BY <1>1, <1>5, <2>1
  <2>3. \A n \in DOMAIN MergedBy(k, node) : MergedBy(k, node)[n] = MergedBy(k - 1, node)[n]
    BY <1>1, <1>6, <2>1, <2>2
  <2>4. \A j \in Nat : MergedBy(j, node) = [n \in DOMAIN MergedBy(j, node) |-> MergedBy(j, node)[n]]
    BY DEF MergedBy
  <2> QED
    BY <1>1, <1>8, <2>2, <2>3, <2>4
<1> QED
  BY <1>7, <1>8

LEMMA MergedIsLast ==
  ASSUME NEW node, Len(valueOverrides) \in Nat
  PROVE  ResolveValueOverride(node) = MergedBy(2 * Len(valueOverrides), node)
<1> DEFINE n == 2 * Len(valueOverrides)
           loops(f) == [k \in 0..n |-> IF k = 0 THEN <<>>
                                      ELSE IF Applies(k, node) THEN mergeValues(f[k - 1], Turn(k).values)
                                      ELSE f[k - 1]]
           merged == CHOOSE f : f = loops(f)
           closed == [k \in 0..n |-> MergedBy(k, node)]
<1>0. n \in Nat
  OBVIOUS
<1>1. MergedBy(0, node) = <<>>
  BY DEF MergedBy, Turns
<1>2. closed = loops(closed)
  <2>1. ASSUME NEW k \in 0..n PROVE closed[k] = loops(closed)[k]
    <3>1. CASE k = 0
      BY <1>1, <3>1
    <3>2. CASE k # 0
      <4>1. k \in Nat \ {0} /\ k - 1 \in 0..n
        BY <1>0, <3>2
      <4> QED
        BY <3>2, <4>1, MergedStep
    <3> QED
      BY <3>1, <3>2
  <2> QED
    BY <2>1
<1>3. merged = loops(merged)
  <2> HIDE DEF closed, loops
  <2> QED
    BY <1>2
<1>4. ASSUME NEW k \in 0..n PROVE merged[k] = IF k = 0 THEN <<>>
               ELSE IF Applies(k, node) THEN mergeValues(merged[k - 1], Turn(k).values) ELSE merged[k - 1]
  <2> HIDE DEF merged
  <2> QED
    BY <1>3
<1>5. ASSUME NEW k \in 0..n PROVE merged[k] = MergedBy(k, node)
  <2> HIDE DEF merged, n, loops, closed
  <2> DEFINE bad == {j \in 0..n : merged[j] # MergedBy(j, node)}
  <2>1. SUFFICES ASSUME bad # {} PROVE FALSE
    BY <1>5
  <2>2. bad \in SUBSET Nat
    BY <1>0
  <2>3. PICK j \in bad : \A i \in bad : j <= i
    <3> HIDE DEF bad
    <3> QED
      BY <2>1, <2>2, LeastOf
  <2>4. j \in 0..n /\ merged[j] # MergedBy(j, node)
    BY <2>3
  <2>5. j # 0
    BY <1>1, <1>4, <2>4
  <2>6. j \in Nat \ {0} /\ j - 1 \in 0..n /\ ~(j <= j - 1)
    BY <1>0, <2>4, <2>5
  <2>7. merged[j - 1] = MergedBy(j - 1, node)
    BY <2>3, <2>6
  <2> QED
    BY <1>4, <2>4, <2>5, <2>6, <2>7, MergedStep
<1>6. ResolveValueOverride(node) = merged[n]
  BY DEF ResolveValueOverride
<1> HIDE DEF merged
<1> QED
  BY <1>0, <1>5, <1>6

(* The router's values are those of the first m overrides that have any, in
   order: the i-th is that of the at[i]-th override. *)
Carries(m, at) ==
  LET n == Len(valueOverrides)
  IN  /\ n \in Nat /\ valueOverrides \in Seq(Range(valueOverrides))
      /\ at \in [1..n -> 1..m]
      /\ \A i, j \in 1..n : i < j => at[i] < at[j]
      /\ \A i \in 1..n : /\ valueOverrides[i].pattern = Registered[at[i]].match
                        /\ valueOverrides[i].values = Registered[at[i]].values
      /\ \A r \in 1..m : Registered[r].values # <<>> => \E i \in 1..n : at[i] = r
Holds(m) == \E at : Carries(m, at)

Listed == Registered \in Seq(Range(Registered)) /\ Len(Registered) \in Nat

(* What a node's values are, is what the overrides say. *)
LEMMA ValuesAreTheOverrides ==
  ASSUME Listed, Holds(Len(Registered)), NEW node, NEW n
  PROVE  /\ n \in DOMAIN ResolveValueOverride(node) <=> OverrideValue(node, n) # {}
         /\ n \in DOMAIN ResolveValueOverride(node)
              => OverrideValue(node, n) = {ResolveValueOverride(node)[n]}
<1> DEFINE N == Len(valueOverrides)
           T == Turns(2 * N, node, n)
           sets(i) == n \in DOMAIN Registered[i].values
           own == {i \in DOMAIN Registered :
                     sets(i) /\ ~isGlob(Registered[i].match) /\ Registered[i].match = node}
           globs == {i \in DOMAIN Registered : sets(i) /\ MatchesGlob(Registered[i].match, node)}
<1>1. PICK at : Carries(Len(Registered), at)
  BY DEF Holds
<1>2. N \in Nat /\ Len(Registered) \in Nat /\ DOMAIN Registered = 1..Len(Registered)
  BY <1>1 DEF Carries, Listed
<1>3. ResolveValueOverride(node) = MergedBy(2 * N, node)
  BY <1>2, MergedIsLast
<1>4. n \in DOMAIN ResolveValueOverride(node) <=> T # {}
  BY <1>3 DEF MergedBy, Turns
<1>5. n \in DOMAIN ResolveValueOverride(node) => ResolveValueOverride(node)[n] = Turn(Max(T)).values[n]
  BY <1>3 DEF MergedBy
<1>6. OverrideValue(node, n) = IF own # {} THEN {Registered[Max(own)].values[n]}
                               ELSE IF globs # {} THEN {Registered[Max(globs)].values[n]} ELSE {}
  BY DEF OverrideValue
<1>7. ASSUME NEW i \in 1..N
      PROVE  /\ at[i] \in DOMAIN Registered
             /\ Turn(i) = valueOverrides[i] /\ Turn(i + N) = valueOverrides[i]
             /\ i \in 1..2 * N /\ i + N \in 1..2 * N /\ ~(i + N <= N) /\ i <= N
             /\ valueOverrides[i].pattern = Registered[at[i]].match
             /\ valueOverrides[i].values = Registered[at[i]].values
  BY <1>1, <1>2 DEF Carries, Turn
<1>8. ASSUME NEW i \in 1..N
      PROVE  /\ i \in T <=> at[i] \in globs
             /\ i + N \in T <=> at[i] \in own
  BY <1>2, <1>7 DEF Turns, Applies
<1>9. \A k \in 1..2 * N : k \in 1..N \/ \E i \in 1..N : k = i + N
  <2> TAKE k \in 1..2 * N
  <2>1. CASE k <= N
    BY <1>2, <2>1
  <2>2. CASE ~(k <= N)
    <3>1. k - N \in 1..N /\ k = (k - N) + N
      BY <1>2, <2>2
    <3> QED
      BY <3>1
  <2> QED
    BY <2>1, <2>2
<1>10. ASSUME NEW r \in DOMAIN Registered, sets(r) PROVE \E i \in 1..N : at[i] = r
  <2>1. Registered[r].values # <<>>
    BY <1>10
  <2> QED
    BY <1>1, <1>2, <2>1 DEF Carries
<1>11. \A i, j \in 1..N : i <= j => at[i] <= at[j]
  BY <1>1, <1>2 DEF Carries
<1>12. T \in SUBSET (1..2 * N) /\ own \in SUBSET (1..Len(Registered)) /\ globs \in SUBSET (1..Len(Registered))
  BY <1>2 DEF Turns
<1>13. T # {} => Max(T) \in T /\ \A k \in T : k <= Max(T)
  <2>1. 2 * N \in Nat
    BY <1>2
  <2> HIDE DEF T, N
  <2> QED
    BY <1>12, <2>1, MaxIsGreatest
<1>14. CASE own # {}
  <2>1. PICK r \in own : TRUE
    BY <1>14
  <2>2. PICK j \in 1..N : at[j] = r
    BY <1>10, <2>1
  <2>3. T # {} /\ j + N \in T
    BY <1>8, <2>1, <2>2
  <2>4. Max(T) \in T /\ \A k \in T : k <= Max(T)
    BY <2>3, <1>13
  <2>5. PICK i \in 1..N : Max(T) = i + N
    BY <1>2, <1>9, <1>12, <2>3, <2>4
  <2>6. at[i] \in own
    BY <1>8, <2>4, <2>5
  <2>7. \A x \in own : x <= at[i]
    <3> TAKE x \in own
    <3>1. PICK y \in 1..N : at[y] = x
      BY <1>10
    <3>2. y + N \in T
      BY <1>8, <3>1
    <3>3. y <= i
      BY <1>2, <2>4, <2>5, <3>2
    <3> QED
      BY <1>11, <3>1, <3>3
  <2>8. Max(own) = at[i]
    <3>1. own \in SUBSET Nat
      BY <1>2, <1>12
    <3> HIDE DEF own
    <3> QED
      BY <2>6, <2>7, <3>1, MaxIs
  <2>9. Turn(Max(T)).values = Registered[at[i]].values
    BY <1>7, <2>5
  <2> QED
    BY <1>4, <1>5, <1>6, <1>14, <2>3, <2>8, <2>9
<1>15. CASE own = {} /\ globs # {}
  <2>1. PICK r \in globs : TRUE
    BY <1>15
  <2>2. PICK j \in 1..N : at[j] = r
    BY <1>10, <2>1
  <2>3. T # {} /\ j \in T
    BY <1>8, <2>1, <2>2
  <2>4. Max(T) \in T /\ \A k \in T : k <= Max(T)
    BY <2>3, <1>13
  <2>5. Max(T) \in 1..N
    <3>1. Max(T) \in 1..2 * N
      BY <1>12, <2>4
    <3>2. \A i \in 1..N : Max(T) # i + N
      BY <1>8, <1>15, <2>4
    <3> QED
      BY <1>9, <3>1, <3>2
  <2> DEFINE i == Max(T)
  <2>6. at[i] \in globs
    BY <1>8, <2>4, <2>5
  <2>7. \A x \in globs : x <= at[i]
    <3> TAKE x \in globs
    <3>1. PICK y \in 1..N : at[y] = x
      BY <1>10
    <3>2. y \in T
      BY <1>8, <3>1
    <3>3. y <= i
      BY <2>4, <3>2
    <3> QED
      BY <1>11, <2>5, <3>1, <3>3
  <2>8. Max(globs) = at[i]
    <3>1. globs \in SUBSET Nat
      BY <1>2, <1>12
    <3> HIDE DEF globs, i
    <3> QED
      BY <2>6, <2>7, <3>1, MaxIs
  <2>9. Turn(i).values = Registered[at[i]].values
    BY <1>7, <2>5
  <2> QED
    BY <1>4, <1>5, <1>6, <1>15, <2>3, <2>8, <2>9
<1>16. CASE own = {} /\ globs = {}
  <2>1. T = {}
    BY <1>8, <1>9, <1>12, <1>16
  <2> QED
    BY <1>4, <1>6, <1>16, <2>1
<1> QED
  BY <1>14, <1>15, <1>16

(* Of the overrides, the first m are registered, and the rest wait. *)
RegisteredTo(m) ==
  /\ m \in 0..Len(Registered)
  /\ queue \in Seq(Range(Registered)) /\ Len(queue) = Len(Registered) - m
  /\ \A i \in 1..Len(queue) : queue[i] = Registered[m + i]
  /\ Holds(m)

RouteInv ==
  /\ \E run \in Runs : setup = run.setup
  /\ phase \in {"load", "route"} => valueOverrides = <<>>
  /\ phase \in {"route", "register", "flags", "ready"} => Listed
  /\ phase = "register" => \E m : RegisteredTo(m)
  /\ phase \in {"flags", "ready"} => Holds(Len(Registered))

LEMMA RoutesStart == Init => RouteInv
BY DEF Init, RoutesInit, RouteInv

LEMMA RoutesReplayed == RouteInv /\ Replay => RouteInv'
BY DEF RouteInv, Replay

LEMMA HoldsStays ==
  ASSUME UNCHANGED <<setup, env, valueOverrides>>
  PROVE  /\ Registered' = Registered /\ Listed' = Listed /\ Range(Registered)' = Range(Registered)
         /\ \A m : Holds(m)' <=> Holds(m)
         /\ Holds(Len(Registered))' <=> Holds(Len(Registered))
<1>1. Registered' = Registered /\ Range(Registered)' = Range(Registered)
      /\ Range(valueOverrides)' = Range(valueOverrides)
  BY DEF Registered, Range
<1>2. \A m, at : Carries(m, at)' <=> Carries(m, at)
  BY <1>1 DEF Carries
<1>3. \A m : Holds(m)' <=> Holds(m)
  BY <1>2 DEF Holds
<1>4. Listed' = Listed
  BY <1>1 DEF Listed
<1>5. Holds(Len(Registered))' <=> Holds(Len(Registered))
  BY <1>1, <1>2 DEF Holds
<1> QED
  BY <1>1, <1>3, <1>4, <1>5

LEMMA RoutesStay ==
  ASSUME RouteInv, UNCHANGED routeVars
  PROVE  RouteInv'
<1>1. UNCHANGED <<setup, phase, env, queue, valueOverrides>>
  BY DEF routeVars
<1>2. \A m : RegisteredTo(m)' <=> RegisteredTo(m)
  BY <1>1, HoldsStays DEF RegisteredTo
<1> QED
  BY <1>1, <1>2, HoldsStays DEF RouteInv

LEMMA RangesAreTheirs ==
  ASSUME NEW S, NEW t \in Seq(S)
  PROVE  t \in Seq(Range(t)) /\ Len(t) \in Nat
<1>1. t = [k \in 1..Len(t) |-> t[k]] /\ Len(t) \in Nat /\ DOMAIN t = 1..Len(t)
  OBVIOUS
<1>2. \A k \in 1..Len(t) : t[k] \in Range(t)
  BY <1>1 DEF Range
<1>3. [k \in 1..Len(t) |-> t[k]] \in [1..Len(t) -> Range(t)]
  BY <1>2
<1> QED
  BY <1>1, <1>3

(* What an include adds to what was read before it. *)
Included(mef, inc) ==
  [shared |-> mergePartials(mef.shared, inc.shared),
   environments |->
     [n \in DOMAIN mef.environments \cup DOMAIN inc.environments |->
        IF n \notin DOMAIN inc.environments THEN mef.environments[n]
        ELSE IF n \notin DOMAIN mef.environments THEN inc.environments[n]
        ELSE mergePartials(mef.environments[n], inc.environments[n])]]

(* What is read of some of the includes. *)
ReadOf(f, file, s) ==
  IF s = {} THEN [shared |-> file.shared, environments |-> file.environments]
  ELSE Included(f[s \ {Max(s)}], file.include[Max(s)])
ReadTo(f, file, n) == f = [s \in SUBSET (1..n) |-> ReadOf(f, file, s)]

LEMMA ReadsAre ==
  ASSUME NEW file, NEW n \in Nat, DOMAIN file.include = 1..n
  PROVE  parseAndMergeIncludes(file) = (CHOOSE f : ReadTo(f, file, n))[1..n]
BY DEF parseAndMergeIncludes, FoldLeft, MapThenFoldSet, ReadTo, ReadOf, Included

LEMMA ReadsCanBe ==
  ASSUME NEW file
  PROVE  \A n \in Nat : \E f : ReadTo(f, file, n)
<1> DEFINE Unread == {n \in Nat : ~ \E f : ReadTo(f, file, n)}
<1>1. SUFFICES ASSUME Unread # {} PROVE FALSE
  OBVIOUS
<1>2. PICK n \in Unread : \A j \in Unread : n <= j
  <2>1. Unread \in SUBSET Nat
    OBVIOUS
  <2> HIDE DEF Unread
  <2> QED BY <1>1, <2>1, LeastOf
<1>3. n \in Nat /\ \A f : ~ReadTo(f, file, n)
  BY <1>2
<1>4. CASE n = 0
  <2> DEFINE f == [s \in SUBSET (1..0) |-> [shared |-> file.shared, environments |-> file.environments]]
  <2>1. \A s \in SUBSET (1..0) : ReadOf(f, file, s) = [shared |-> file.shared, environments |-> file.environments]
    BY DEF ReadOf
  <2>2. f = [s \in SUBSET (1..0) |-> [shared |-> file.shared, environments |-> file.environments]]
    OBVIOUS
  <2> HIDE DEF f
  <2>3. f = [s \in SUBSET (1..0) |-> ReadOf(f, file, s)]
    BY <2>1, <2>2
  <2> QED BY <1>3, <1>4, <2>3 DEF ReadTo
<1>5. CASE n # 0
  <2>1. n - 1 \in Nat /\ ~(n <= n - 1)
    BY <1>3, <1>5
  <2>2. PICK g : ReadTo(g, file, n - 1)
    BY <1>2, <2>1
  <2> DEFINE f == [s \in SUBSET (1..n) |-> ReadOf(g, file, s)]
  <2>3. ASSUME NEW s \in SUBSET (1..(n - 1)) PROVE f[s] = g[s]
    <3>1. s \in SUBSET (1..n)
      BY <2>1
    <3>2. f[s] = ReadOf(g, file, s)
      BY <3>1
    <3>3. g[s] = ReadOf(g, file, s)
      <4> DEFINE h == [t \in SUBSET (1..(n - 1)) |-> ReadOf(g, file, t)]
      <4>1. g = h
        BY <2>2 DEF ReadTo
      <4>2. h[s] = ReadOf(g, file, s)
        OBVIOUS
      <4> HIDE DEF h
      <4> QED BY <4>1, <4>2
    <3> HIDE DEF f
    <3> QED BY <3>2, <3>3
  <2>4. ASSUME NEW s \in SUBSET (1..n) PROVE ReadOf(f, file, s) = ReadOf(g, file, s)
    <3>1. CASE s = {}
      BY <3>1 DEF ReadOf
    <3>2. CASE s # {}
      <4>1. PICK t : t = s \ {Max(s)}
        OBVIOUS
      <4>2. t \in SUBSET (1..(n - 1))
        <5>1. Max(s) \in s /\ \A y \in s : y <= Max(s)
          BY <1>3, <3>2, MaxIsGreatest
        <5>2. \A y \in s : y \in 1..n
          OBVIOUS
        <5>3. ASSUME NEW y \in t PROVE y \in 1..(n - 1)
          <6>1. y \in s /\ y # Max(s)
            BY <4>1
          <6>2. y \in 1..n /\ Max(s) \in 1..n /\ y <= Max(s)
            BY <5>1, <5>2, <6>1
          <6> QED BY <1>3, <6>1, <6>2
        <5> QED BY <5>3
      <4>3. f[t] = g[t]
        BY <2>3, <4>2
      <4> HIDE DEF f
      <4> QED BY <3>2, <4>1, <4>3 DEF ReadOf
    <3> QED BY <3>1, <3>2
  <2>5. f = [s \in SUBSET (1..n) |-> ReadOf(g, file, s)]
    OBVIOUS
  <2> HIDE DEF f
  <2>6. f = [s \in SUBSET (1..n) |-> ReadOf(f, file, s)]
    BY <2>4, <2>5
  <2> QED BY <1>3, <2>6 DEF ReadTo
<1> QED BY <1>4, <1>5

-----------------------------------------------------------------------------
(* What a file says: its overrides are a list of S. *)
IsListed(p, S) == p.overrides \in Seq(S)
AreListed(mef, S) ==
  /\ IsListed(mef.shared, S) /\ IsFiniteSet(DOMAIN mef.environments)
  /\ \A n \in DOMAIN mef.environments : IsListed(mef.environments[n], S)

LEMMA MergedIsListed ==
  ASSUME NEW S, NEW under, IsListed(under, S), NEW over, IsListed(over, S)
  PROVE  IsListed(mergePartials(under, over), S)
<1>1. under.overrides \o over.overrides \in Seq(S)
  BY DEF IsListed
<1>2. mergePartials(under, over).overrides = under.overrides \o over.overrides
  BY DEF mergePartials
<1> QED BY <1>1, <1>2 DEF IsListed

LEMMA IncludedIsListed ==
  ASSUME NEW S, NEW mef, AreListed(mef, S), NEW inc, AreListed(inc, S)
  PROVE  AreListed(Included(mef, inc), S)
<1>1. PICK it : it = Included(mef, inc)
  OBVIOUS
<1>2. it.shared = mergePartials(mef.shared, inc.shared)
  BY <1>1 DEF Included
<1>3. /\ DOMAIN it.environments = DOMAIN mef.environments \cup DOMAIN inc.environments
      /\ \A n \in DOMAIN it.environments :
           it.environments[n] =
             (IF n \notin DOMAIN inc.environments THEN mef.environments[n]
              ELSE IF n \notin DOMAIN mef.environments THEN inc.environments[n]
              ELSE mergePartials(mef.environments[n], inc.environments[n]))
  BY <1>1 DEF Included
<1>4. IsFiniteSet(DOMAIN it.environments)
  <2>1. IsFiniteSet(DOMAIN mef.environments) /\ IsFiniteSet(DOMAIN inc.environments)
    BY DEF AreListed
  <2>2. IsFiniteSet(DOMAIN mef.environments \cup DOMAIN inc.environments)
    BY <2>1, FS_Union
  <2> QED BY <1>3, <2>2
<1>5. IsListed(it.shared, S)
  BY <1>2, MergedIsListed DEF AreListed
<1>6. ASSUME NEW n \in DOMAIN it.environments PROVE IsListed(it.environments[n], S)
  <2>1. CASE n \notin DOMAIN inc.environments
    BY <1>3, <2>1 DEF AreListed
  <2>2. CASE n \in DOMAIN inc.environments /\ n \notin DOMAIN mef.environments
    BY <1>3, <2>2 DEF AreListed
  <2>3. CASE n \in DOMAIN inc.environments /\ n \in DOMAIN mef.environments
    <3>1. IsListed(mergePartials(mef.environments[n], inc.environments[n]), S)
      BY <2>3, MergedIsListed DEF AreListed
    <3> QED BY <1>3, <2>3, <3>1
  <2> QED BY <2>1, <2>2, <2>3
<1> QED BY <1>1, <1>4, <1>5, <1>6 DEF AreListed

LEMMA IncludesAreListed ==
  ASSUME NEW S, NEW file, AreListed(file, S), NEW n \in Nat, DOMAIN file.include = 1..n,
         \A k \in 1..n : AreListed(file.include[k], S)
  PROVE  AreListed(parseAndMergeIncludes(file), S)
<1>1. PICK f : f = CHOOSE g : ReadTo(g, file, n)
  OBVIOUS
<1>2. ReadTo(f, file, n)
  BY <1>1, ReadsCanBe
<1>3. ASSUME NEW s \in SUBSET (1..n) PROVE f[s] = ReadOf(f, file, s)
  <2> DEFINE h == [t \in SUBSET (1..n) |-> ReadOf(f, file, t)]
  <2>1. f = h
    BY <1>2 DEF ReadTo
  <2>2. h[s] = ReadOf(f, file, s)
    OBVIOUS
  <2> HIDE DEF h
  <2> QED BY <2>1, <2>2
<1> DEFINE Unread == {k \in Nat : k <= n /\ ~AreListed(f[1..k], S)}
<1>4. Unread = {}
  <2>1. SUFFICES ASSUME Unread # {} PROVE FALSE
    OBVIOUS
  <2>2. PICK k \in Unread : \A j \in Unread : k <= j
    <3>1. Unread \in SUBSET Nat
      OBVIOUS
    <3> HIDE DEF Unread
    <3> QED BY <2>1, <3>1, LeastOf
  <2>3. k \in Nat /\ k <= n /\ ~AreListed(f[1..k], S)
    BY <2>2
  <2>4. 1..k \in SUBSET (1..n)
    BY <2>3
  <2>5. CASE k = 0
    <3>1. 1..k = {}
      BY <2>5
    <3>2. f[1..k] = [shared |-> file.shared, environments |-> file.environments]
      BY <1>3, <2>4, <3>1 DEF ReadOf
    <3>3. AreListed([shared |-> file.shared, environments |-> file.environments], S)
      BY DEF AreListed
    <3> QED BY <2>3, <3>2, <3>3
  <2>6. CASE k # 0
    <3>1. k - 1 \in Nat /\ k - 1 <= n /\ ~(k <= k - 1) /\ k \in 1..k /\ k \in 1..n
      BY <2>3, <2>6
    <3>2. AreListed(f[1..(k - 1)], S)
      <4>1. k - 1 \notin Unread
        BY <2>2, <3>1
      <4> QED BY <3>1, <4>1
    <3>3. Max(1..k) = k
      <4>1. 1..k \in SUBSET Nat /\ k \in 1..k /\ \A y \in 1..k : y <= k
        BY <3>1
      <4> QED BY <4>1, MaxIs
    <3>4. 1..k # {} /\ (1..k) \ {k} = 1..(k - 1)
      <4>1. \A y \in 1..k : y # k => y \in 1..(k - 1)
        BY <3>1
      <4>2. \A y \in 1..(k - 1) : y \in 1..k /\ y # k
        BY <3>1
      <4> QED BY <3>1, <4>1, <4>2
    <3>5. f[1..k] = Included(f[1..(k - 1)], file.include[k])
      BY <1>3, <2>4, <3>3, <3>4 DEF ReadOf
    <3>6. AreListed(Included(f[1..(k - 1)], file.include[k]), S)
      BY <3>1, <3>2, IncludedIsListed
    <3> QED BY <2>3, <3>5, <3>6
  <2> QED BY <2>5, <2>6
<1>5. AreListed(f[1..n], S)
  BY <1>4
<1> QED BY <1>1, <1>5, ReadsAre

-----------------------------------------------------------------------------
(* What resolveInheritance says of a name, the names in visited behind it. *)
ResolvedFrom(f, envs, name, visited) ==
  IF name \in visited \/ name \notin DOMAIN envs THEN {}
  ELSE IF envs[name].extends = None THEN {envs[name]}
  ELSE {mergePartials(parent, envs[name]) :
          parent \in f[visited \cup {name}][envs[name].extends]}

NamesOf(envs, environment) == {environment} \cup {envs[n].extends : n \in DOMAIN envs}

(* The visited names that leave m names of the file at most. *)
Leaving(envs, m) == {v \in SUBSET DOMAIN envs : Cardinality(DOMAIN envs \ v) <= m}

ResolvedOn(f, envs, environment, V) ==
  f = [v \in V |-> [name \in NamesOf(envs, environment) |-> ResolvedFrom(f, envs, name, v)]]

LEMMA ResolvedIs ==
  ASSUME NEW envs, NEW environment
  PROVE  resolveInheritance(envs, environment) =
           (CHOOSE f : ResolvedOn(f, envs, environment, SUBSET DOMAIN envs))[{}][environment]
BY DEF resolveInheritance, NamesOf, ResolvedFrom, ResolvedOn

LEMMA ResolvedOnIs ==
  ASSUME NEW envs, NEW environment, NEW V, NEW f, ResolvedOn(f, envs, environment, V),
         NEW name \in NamesOf(envs, environment), NEW v \in V
  PROVE  f[v][name] = ResolvedFrom(f, envs, name, v)
<1> DEFINE h == [w \in V |-> [n \in NamesOf(envs, environment) |-> ResolvedFrom(f, envs, n, w)]]
<1>1. f = h
  BY DEF ResolvedOn
<1>2. h[v][name] = ResolvedFrom(f, envs, name, v)
  OBVIOUS
<1> HIDE DEF h
<1> QED BY <1>1, <1>2

(* A name behind which another is. *)
LEMMA OneIsVisited ==
  ASSUME NEW D, IsFiniteSet(D), NEW v \in SUBSET D, NEW name \in D, name \notin v
  PROVE  /\ v \cup {name} \in SUBSET D
         /\ Cardinality(D \ v) \in Nat
         /\ Cardinality(D \ (v \cup {name})) = Cardinality(D \ v) - 1
<1>1. IsFiniteSet(D \ v)
  BY FS_Subset
<1>2. Cardinality((D \ v) \ {name}) = Cardinality(D \ v) - 1
  BY <1>1, FS_RemoveElement
<1>3. (D \ v) \ {name} = D \ (v \cup {name})
  OBVIOUS
<1> QED BY <1>1, <1>2, <1>3, FS_CardinalityType

LEMMA ResolvesCanBe ==
  ASSUME NEW envs, NEW environment, IsFiniteSet(DOMAIN envs)
  PROVE  \A m \in Nat : \E f : ResolvedOn(f, envs, environment, Leaving(envs, m))
<1> DEFINE D == DOMAIN envs
           N == NamesOf(envs, environment)
           Unread == {m \in Nat : ~ \E f : ResolvedOn(f, envs, environment, Leaving(envs, m))}
<1>1. SUFFICES ASSUME Unread # {} PROVE FALSE
  OBVIOUS
<1>2. PICK m \in Unread : \A j \in Unread : m <= j
  <2>1. Unread \in SUBSET Nat
    OBVIOUS
  <2> HIDE DEF Unread
  <2> QED BY <1>1, <2>1, LeastOf
<1>3. m \in Nat /\ \A f : ~ResolvedOn(f, envs, environment, Leaving(envs, m))
  BY <1>2
<1>4. ASSUME NEW v \in Leaving(envs, m), NEW name \in N, name \notin v, name \in D
      PROVE  m # 0 /\ v \cup {name} \in Leaving(envs, m - 1) /\ envs[name].extends \in N
  <2>1. v \in SUBSET D /\ Cardinality(D \ v) <= m
    BY DEF Leaving
  <2>2. PICK c : c = Cardinality(D \ v)
    OBVIOUS
  <2>3. /\ v \cup {name} \in SUBSET D /\ c \in Nat
        /\ Cardinality(D \ (v \cup {name})) = c - 1
    BY <1>4, <2>1, <2>2, OneIsVisited
  <2>4. c # 0
    <3>1. IsFiniteSet(D \ (v \cup {name}))
      BY FS_Subset
    <3>2. Cardinality(D \ (v \cup {name})) \in Nat
      BY <3>1, FS_CardinalityType
    <3> QED BY <2>3, <3>2
  <2>5. m # 0 /\ c - 1 <= m - 1
    BY <1>3, <2>1, <2>2, <2>3, <2>4
  <2>6. envs[name].extends \in N
    BY <1>4 DEF NamesOf
  <2> QED BY <2>3, <2>5, <2>6 DEF Leaving
<1>5. PICK g : m # 0 => ResolvedOn(g, envs, environment, Leaving(envs, m - 1))
  <2>1. m # 0 => m - 1 \in Nat /\ ~(m <= m - 1)
    BY <1>3
  <2> QED BY <1>2, <2>1
<1> DEFINE f == [v \in Leaving(envs, m) |-> [name \in N |-> ResolvedFrom(g, envs, name, v)]]
<1>6. ASSUME m # 0, NEW v \in Leaving(envs, m - 1), NEW name \in N
      PROVE  f[v][name] = g[v][name]
  <2>1. v \in Leaving(envs, m)
    <3>1. v \in SUBSET D /\ Cardinality(D \ v) <= m - 1
      BY DEF Leaving
    <3>2. IsFiniteSet(D \ v)
      BY FS_Subset
    <3>3. Cardinality(D \ v) \in Nat
      BY <3>2, FS_CardinalityType
    <3>4. Cardinality(D \ v) <= m
      BY <1>3, <3>1, <3>3
    <3> QED BY <3>1, <3>4 DEF Leaving
  <2>2. f[v][name] = ResolvedFrom(g, envs, name, v)
    BY <2>1
  <2>3. g[v][name] = ResolvedFrom(g, envs, name, v)
    BY <1>5, <1>6, ResolvedOnIs
  <2> HIDE DEF f
  <2> QED BY <2>2, <2>3
<1>7. ASSUME NEW v \in Leaving(envs, m), NEW name \in N
      PROVE  ResolvedFrom(f, envs, name, v) = ResolvedFrom(g, envs, name, v)
  <2>1. CASE name \in v \/ name \notin D
    BY <2>1 DEF ResolvedFrom
  <2>2. CASE ~(name \in v \/ name \notin D)
    <3>1. m # 0 /\ v \cup {name} \in Leaving(envs, m - 1) /\ envs[name].extends \in N
      BY <1>4, <2>2
    <3>2. f[v \cup {name}][envs[name].extends] = g[v \cup {name}][envs[name].extends]
      BY <1>6, <3>1
    <3> HIDE DEF f
    <3> QED BY <2>2, <3>2 DEF ResolvedFrom
  <2> QED BY <2>1, <2>2
<1>8. f = [v \in Leaving(envs, m) |-> [name \in N |-> ResolvedFrom(f, envs, name, v)]]
  <2>1. f = [v \in Leaving(envs, m) |-> [name \in N |-> ResolvedFrom(g, envs, name, v)]]
    OBVIOUS
  <2> HIDE DEF f, N
  <2>2. ASSUME NEW v \in Leaving(envs, m)
        PROVE  [name \in N |-> ResolvedFrom(g, envs, name, v)] = [name \in N |-> ResolvedFrom(f, envs, name, v)]
    BY <1>7
  <2> QED BY <2>1, <2>2
<1> QED
  <2> HIDE DEF f
  <2> QED BY <1>3, <1>8 DEF ResolvedOn

(* What is inherited is a list as well. *)
LEMMA InheritedIsListed ==
  ASSUME NEW S, NEW envs, NEW environment, IsFiniteSet(DOMAIN envs),
         \A n \in DOMAIN envs : IsListed(envs[n], S),
         NEW p \in resolveInheritance(envs, environment)
  PROVE  IsListed(p, S)
<1> DEFINE D == DOMAIN envs
           N == NamesOf(envs, environment)
<1>1. PICK c \in Nat : c = Cardinality(D)
  BY FS_CardinalityType
<1>2. Leaving(envs, c) = SUBSET D
  <2>1. ASSUME NEW v \in SUBSET D PROVE Cardinality(D \ v) <= c
    <3>1. D \ v \subseteq D
      OBVIOUS
    <3> QED BY <1>1, <3>1, FS_Subset
  <2> QED BY <2>1 DEF Leaving
<1>3. PICK f : f = CHOOSE g : ResolvedOn(g, envs, environment, SUBSET D)
  OBVIOUS
<1>4. ResolvedOn(f, envs, environment, SUBSET D)
  <2>1. \E h : ResolvedOn(h, envs, environment, SUBSET D)
    <3>1. \E h : ResolvedOn(h, envs, environment, Leaving(envs, c))
      BY <1>1, ResolvesCanBe
    <3> QED BY <1>2, <3>1
  <2> QED BY <1>3, <2>1
<1> DEFINE Unread == {m \in Nat : \E v \in SUBSET D : \E name \in N :
                    Cardinality(D \ v) = m /\ \E q \in f[v][name] : ~IsListed(q, S)}
<1>5. Unread = {}
  <2>1. SUFFICES ASSUME Unread # {} PROVE FALSE
    OBVIOUS
  <2>2. PICK m \in Unread : \A j \in Unread : m <= j
    <3>1. Unread \in SUBSET Nat
      OBVIOUS
    <3> HIDE DEF Unread
    <3> QED BY <2>1, <3>1, LeastOf
  <2>3. m \in Nat /\ \E v \in SUBSET D : \E name \in N :
          Cardinality(D \ v) = m /\ \E q \in f[v][name] : ~IsListed(q, S)
    BY <2>2
  <2>4. PICK v \in SUBSET D, name \in N :
          Cardinality(D \ v) = m /\ \E q \in f[v][name] : ~IsListed(q, S)
    BY <2>3
  <2>5. PICK q \in f[v][name] : ~IsListed(q, S)
    BY <2>4
  <2>6. q \in ResolvedFrom(f, envs, name, v)
    BY <1>4, <2>5, ResolvedOnIs
  <2>7. name \notin v /\ name \in D /\ envs[name].extends # None
    <3>1. name \notin v /\ name \in D
      BY <2>6 DEF ResolvedFrom
    <3>2. envs[name].extends = None => q = envs[name]
      BY <2>6, <3>1 DEF ResolvedFrom
    <3> QED BY <2>5, <3>1, <3>2
  <2>8. PICK parent \in f[v \cup {name}][envs[name].extends] : q = mergePartials(parent, envs[name])
    BY <2>6, <2>7 DEF ResolvedFrom
  <2>9. /\ v \cup {name} \in SUBSET D /\ Cardinality(D \ (v \cup {name})) = m - 1
        /\ envs[name].extends \in N
    <3>1. /\ v \cup {name} \in SUBSET D
          /\ Cardinality(D \ (v \cup {name})) = Cardinality(D \ v) - 1
      BY <2>7, OneIsVisited
    <3>2. envs[name].extends \in N
      BY <2>7 DEF NamesOf
    <3> QED BY <2>4, <3>1, <3>2
  <2>10. m - 1 \in Nat
    <3>1. IsFiniteSet(D \ (v \cup {name}))
      BY FS_Subset
    <3> QED BY <2>9, <3>1, FS_CardinalityType
  <2>11. m - 1 \notin Unread
    <3>1. ~(m <= m - 1)
      BY <2>3
    <3> HIDE DEF Unread
    <3> QED BY <2>2, <3>1
  <2>12. IsListed(parent, S)
    BY <2>9, <2>10, <2>11
  <2> QED BY <2>5, <2>7, <2>8, <2>12, MergedIsListed
<1>6. p \in f[{}][environment]
  BY <1>3, ResolvedIs
<1>7. environment \in N /\ {} \in SUBSET D /\ Cardinality(D \ {}) \in Nat
  <2>1. D \ {} = D
    OBVIOUS
  <2> QED BY <1>1, <2>1 DEF NamesOf
<1> HIDE DEF D, N
<1> QED BY <1>5, <1>6, <1>7

LEMMA LoadedIsListed ==
  ASSUME NEW file, NEW S, NEW n \in Nat, DOMAIN file.include = 1..n,
         AreListed(file, S), \A k \in 1..n : AreListed(file.include[k], S),
         \A o \in S : "headers" \in DOMAIN o,
         NEW name, NEW bound, NEW p \in LoadNamedEnvironmentWithVars(file, name, bound)
  PROVE  /\ p.overrides \in Seq(Range(p.overrides))
         /\ \A i \in DOMAIN p.overrides : \E o \in S : DOMAIN p.overrides[i].headers = DOMAIN o.headers
<1>1. ASSUME NEW q, IsListed(q, S)
      PROVE  /\ DOMAIN q.overrides = 1..Len(q.overrides) /\ Len(q.overrides) \in Nat
             /\ \A i \in DOMAIN q.overrides : q.overrides[i] \in S
  BY <1>1 DEF IsListed
<1>2. ASSUME NEW list, NEW m \in Nat, list = [i \in 1..m |-> list[i]]
      PROVE  list \in Seq(Range(list))
  <2>1. \A i \in 1..m : list[i] \in Range(list)
    BY <1>2 DEF Range
  <2>2. list \in [1..m -> Range(list)]
    BY <1>2, <2>1
  <2> QED BY <2>2
<1>3. CASE ~file.multi
  <2>1. p = file.shared
    BY <1>3 DEF LoadNamedEnvironmentWithVars, loadLegacyEnv
  <2>2. IsListed(p, S)
    BY <2>1 DEF AreListed
  <2>3. p.overrides \in Seq(S)
    BY <2>2 DEF IsListed
  <2>4. p.overrides = [i \in 1..Len(p.overrides) |-> p.overrides[i]] /\ Len(p.overrides) \in Nat
    BY <2>3
  <2> QED BY <1>1, <1>2, <2>2, <2>4
<1>4. CASE file.multi
  <2>1. PICK mef : mef = parseAndMergeIncludes(file)
    OBVIOUS
  <2>2. AreListed(mef, S)
    BY <2>1, IncludesAreListed
  <2>3. p \in loadMultiEnv(file, name, bound)
    BY <1>4 DEF LoadNamedEnvironmentWithVars
  <2>4. PICK q \in resolveInheritance(mef.environments, name) :
          p = substituteVars([mergePartials(mef.shared, q) EXCEPT !.vars = bound @@ @])
    BY <2>1, <2>3 DEF loadMultiEnv
  <2>5. IsListed(q, S)
    BY <2>2, InheritedIsListed DEF AreListed
  <2>6. PICK t : t = mergePartials(mef.shared, q)
    OBVIOUS
  <2>7. IsListed(t, S)
    BY <2>2, <2>5, <2>6, MergedIsListed DEF AreListed
  <2>8. PICK u : u = [t EXCEPT !.vars = bound @@ @]
    OBVIOUS
  <2>9. u.overrides = t.overrides /\ DOMAIN u = DOMAIN t /\ "overrides" \in DOMAIN t
    BY <2>6, <2>8 DEF mergePartials
  <2>10. p = substituteVars(u)
    BY <2>4, <2>6, <2>8
  <2>11. PICK list : list = [i \in DOMAIN u.overrides |-> SubstitutedIn(u.overrides[i], u.vars)]
    OBVIOUS
  <2>12. p.overrides = list
    <3>1. PICK v : v = SubstitutedIn(u, u.vars)
      OBVIOUS
    <3>2. "overrides" \in DOMAIN v /\ v.overrides = u.overrides
      BY <2>9, <3>1 DEF SubstitutedIn
    <3>3. p = [v EXCEPT !.overrides = [i \in DOMAIN @ |-> SubstitutedIn(@[i], u.vars)]]
      BY <2>10, <3>1 DEF substituteVars
    <3> QED BY <2>11, <3>2, <3>3
  <2>13. PICK m \in Nat : DOMAIN u.overrides = 1..m /\ \A i \in 1..m : u.overrides[i] \in S
    BY <1>1, <2>7, <2>9
  <2>14. ASSUME NEW i \in 1..m PROVE \E o \in S : DOMAIN list[i].headers = DOMAIN o.headers
    <3>1. PICK o \in S : o = u.overrides[i]
      BY <2>13
    <3>2. "headers" \in DOMAIN o
      OBVIOUS
    <3>3. list[i] = SubstitutedIn(o, u.vars)
      BY <2>11, <2>13, <3>1
    <3>4. list[i].headers = SubstitutedAll(o.headers, u.vars)
      BY <3>2, <3>3 DEF SubstitutedIn
    <3>5. DOMAIN SubstitutedAll(o.headers, u.vars) = DOMAIN o.headers
      BY DEF SubstitutedAll
    <3> QED BY <3>4, <3>5
  <2>15. list = [i \in 1..m |-> list[i]] /\ DOMAIN list = 1..m
    BY <2>11, <2>13
  <2> QED BY <1>2, <2>12, <2>14, <2>15
<1> QED BY <1>3, <1>4

(* The overrides that a file and what it includes list. *)
OverridesOf(file) == UNION {Range(p.overrides) : p \in PartialsOf(file)}

SetNamesOf(overrides, file) ==
  \A i \in DOMAIN overrides : \E o \in OverridesOf(file) : DOMAIN overrides[i].headers = DOMAIN o.headers

LEMMA FilesAreListed ==
  ASSUME NEW run \in Runs, NEW name, NEW bound,
         NEW p \in LoadNamedEnvironmentWithVars(run.setup.file, name, bound)
  PROVE  /\ p.overrides \in Seq(Range(p.overrides))
         /\ SetNamesOf(p.overrides, run.setup.file)
<1>1. PICK file : file = run.setup.file
  OBVIOUS
<1>2. /\ file.include \in Seq(Range(file.include))
      /\ \A mef \in PartsOf(file) : IsFiniteSet(DOMAIN mef.environments)
      /\ \A q \in PartialsOf(file) :
           /\ q.overrides \in Seq(Range(q.overrides))
           /\ \A i \in DOMAIN q.overrides : "headers" \in DOMAIN q.overrides[i]
  BY <1>1, ListsAssumption
<1>3. PICK S : S = OverridesOf(file)
  OBVIOUS
<1>4. ASSUME NEW q \in PartialsOf(file) PROVE IsListed(q, S)
  <2>1. PICK list : list = q.overrides
    OBVIOUS
  <2>2. list \in Seq(Range(list))
    BY <1>2, <2>1
  <2>3. \A i \in DOMAIN list : list[i] \in S
    BY <1>3, <2>1 DEF OverridesOf, Range
  <2>4. list \in Seq(S)
    BY <2>2, <2>3
  <2> QED BY <2>1, <2>4 DEF IsListed
<1>5. ASSUME NEW mef \in PartsOf(file) PROVE AreListed(mef, S)
  <2>1. mef.shared \in PartialsOf(file) /\ \A n \in DOMAIN mef.environments : mef.environments[n] \in PartialsOf(file)
    BY DEF PartialsOf, Range
  <2> QED BY <1>2, <1>4, <2>1 DEF AreListed
<1>6. PICK n \in Nat : DOMAIN file.include = 1..n
  BY <1>2
<1>7. \A k \in 1..n : AreListed(file.include[k], S)
  BY <1>5, <1>6 DEF PartsOf, Range
<1>8. \A o \in S : "headers" \in DOMAIN o
  BY <1>2, <1>3 DEF OverridesOf, Range
<1>9. AreListed(file, S)
  BY <1>5 DEF PartsOf
<1>10. /\ p.overrides \in Seq(Range(p.overrides))
       /\ \A i \in DOMAIN p.overrides : \E o \in S : DOMAIN p.overrides[i].headers = DOMAIN o.headers
  BY <1>1, <1>6, <1>7, <1>8, <1>9, LoadedIsListed
<1> QED BY <1>1, <1>3, <1>10 DEF SetNamesOf

LEMMA RoutesLoad == RouteInv /\ LoadEnvironment => RouteInv'
<1> SUFFICES ASSUME RouteInv, LoadEnvironment PROVE RouteInv'
  OBVIOUS
<1>1. phase = "load" /\ valueOverrides' = <<>> /\ UNCHANGED setup
  BY DEF RouteInv, LoadEnvironment
<1>2. PICK run \in Runs : setup = run.setup
  BY DEF RouteInv
<1>3. CASE phase' = "refused"
  BY <1>1, <1>2, <1>3 DEF RouteInv
<1>4. CASE phase' = "route" /\ env' \in LoadNamedEnvironmentWithVars(setup.file, selectEnvName(setup), setup.vars)
  <2>1. /\ env'.overrides \in Seq(Range(env'.overrides))
        /\ setup.auto.overrides \in Seq(Range(setup.auto.overrides))
        /\ setup.overlay.overrides \in Seq(Range(setup.overlay.overrides))
    BY <1>2, <1>4, ListsAssumption, FilesAreListed
  <2> DEFINE S == Range(env'.overrides) \cup Range(setup.auto.overrides) \cup Range(setup.overlay.overrides)
  <2>2. Registered' \in Seq(S)
    <3>1. env'.overrides \in Seq(S) /\ setup.auto.overrides \in Seq(S) /\ setup.overlay.overrides \in Seq(S)
      BY <2>1
    <3>2. \A a, b, c \in Seq(S) : a \o b \o c \in Seq(S)
      <4> HIDE DEF S
      <4> QED
        OBVIOUS
    <3> HIDE DEF S
    <3> QED
      BY <1>1, <3>1, <3>2 DEF Registered
  <2>3. Registered' \in Seq(Range(Registered')) /\ Len(Registered') \in Nat
    <3> HIDE DEF S
    <3> QED
      BY <2>2, RangesAreTheirs
  <2>4. Listed'
    BY <2>3 DEF Listed, Range
  <2> QED
    BY <1>1, <1>2, <1>4, <2>4 DEF RouteInv
<1> QED
  BY <1>3, <1>4 DEF LoadEnvironment

LEMMA RoutesConfigure == RouteInv /\ Configure => RouteInv'
<1> SUFFICES ASSUME RouteInv, Configure PROVE RouteInv'
  OBVIOUS
<1>1. /\ Listed /\ valueOverrides = <<>> /\ queue' = Registered /\ phase' = "register"
      /\ UNCHANGED <<setup, env, valueOverrides>>
  BY DEF RouteInv, Configure, Registered
<1>2. Registered' = Registered /\ Listed'
  BY <1>1 DEF Listed, Registered, Range
<1> DEFINE at == [i \in 1..0 |-> 0]
<1>3. Carries(0, at)'
  BY <1>1 DEF Carries, Range
<1>4. RegisteredTo(0)'
  BY <1>1, <1>2, <1>3 DEF RegisteredTo, Holds, Listed
<1> QED
  BY <1>1, <1>2, <1>4 DEF RouteInv

LEMMA RoutesRegister == RouteInv /\ RegisterOverride => RouteInv'
<1> SUFFICES ASSUME RouteInv, RegisterOverride PROVE RouteInv'
  OBVIOUS
<1>1. phase = "register" /\ Listed /\ UNCHANGED <<setup, env>> /\ \E run \in Runs : setup = run.setup
  BY DEF RouteInv, RegisterOverride
<1>2. PICK m : RegisteredTo(m)
  BY <1>1 DEF RouteInv
<1>3. Registered' = Registered /\ Listed' = Listed /\ Range(Registered)' = Range(Registered)
  BY <1>1 DEF Registered, Listed, Range
<1>4. /\ m \in 0..Len(Registered) /\ Len(Registered) \in Nat
      /\ queue \in Seq(Range(Registered)) /\ Len(queue) = Len(Registered) - m
      /\ \A i \in 1..Len(queue) : queue[i] = Registered[m + i]
      /\ Holds(m)
  BY <1>1, <1>2 DEF RegisteredTo, Listed
<1>5. CASE queue = <<>>
  <2>1. phase' = "flags" /\ UNCHANGED valueOverrides
    BY <1>5 DEF RegisterOverride
  <2>2. m = Len(Registered)
    BY <1>4, <1>5
  <2>3. Holds(Len(Registered))'
    BY <1>1, <1>4, <2>1, <2>2, HoldsStays
  <2> QED
    BY <1>1, <1>3, <2>1, <2>3 DEF RouteInv
<1>6. CASE queue # <<>>
  <2> DEFINE ov == Registered[m + 1]
             e == [pattern |-> ov.match, values |-> ov.values]
             n == Len(valueOverrides)
             k == m + 1
  <2>1. /\ phase' = "register" /\ queue' = Tail(queue)
        /\ valueOverrides' = IF Head(queue).values = <<>> THEN valueOverrides
                             ELSE Append(valueOverrides, [pattern |-> Head(queue).match,
                                                          values |-> Head(queue).values])
    BY <1>1, <1>6 DEF RegisterOverride
  <2>2. Len(queue) >= 1 /\ Head(queue) = ov /\ k \in 1..Len(Registered)
    <3>1. Len(queue) >= 1 /\ Head(queue) = queue[1]
      BY <1>4, <1>6
    <3> QED
      BY <1>4, <3>1
  <2>3. /\ queue' \in Seq(Range(Registered)) /\ Len(queue') = Len(Registered) - k
        /\ \A i \in 1..Len(queue') : queue'[i] = Registered[k + i]
    <3>1. queue' \in Seq(Range(Registered)) /\ Len(queue') = Len(queue) - 1
          /\ \A i \in 1..Len(queue') : queue'[i] = queue[i + 1]
      BY <1>4, <1>6, <2>1
    <3>2. Len(queue') = Len(Registered) - k
      BY <1>4, <3>1
    <3>3. ASSUME NEW i \in 1..Len(queue') PROVE queue'[i] = Registered[k + i]
      <4>1. queue'[i] = queue[i + 1]
        BY <3>1
      <4>2. Len(queue) \in Nat /\ Len(queue') = Len(queue) - 1
        BY <1>4, <3>1
      <4>3. i + 1 \in 1..Len(queue)
        <5> HIDE DEF ov, e, n
        <5> QED
          BY <4>2
      <4>4. queue[i + 1] = Registered[m + (i + 1)]
        BY <1>4, <4>3
      <4>5. m \in Nat
        BY <1>4
      <4>6. m + (i + 1) = k + i
        BY <4>2, <4>5
      <4> QED
        BY <4>1, <4>4, <4>6
    <3> QED
      BY <3>1, <3>2, <3>3
  <2>4. PICK at : Carries(m, at)
    BY <1>4 DEF Holds
  <2>5. /\ n \in Nat /\ valueOverrides \in Seq(Range(valueOverrides)) /\ at \in [1..n -> 1..m]
        /\ \A i, j \in 1..n : i < j => at[i] < at[j]
        /\ \A i \in 1..n : /\ valueOverrides[i].pattern = Registered[at[i]].match
                          /\ valueOverrides[i].values = Registered[at[i]].values
        /\ \A r \in 1..m : Registered[r].values # <<>> => \E i \in 1..n : at[i] = r
    BY <2>4 DEF Carries
  <2>6. Holds(k)'
    <3>1. CASE ov.values = <<>>
      <4>1. UNCHANGED valueOverrides /\ Range(valueOverrides)' = Range(valueOverrides)
        BY <2>1, <2>2, <3>1 DEF Range
      <4>2. at \in [1..n -> 1..k]
        BY <1>4, <2>5
      <4>3. \A r \in 1..k : Registered[r].values # <<>> => \E i \in 1..n : at[i] = r
        <5>1. \A r \in 1..k : r \in 1..m \/ r = k
          BY <1>4
        <5> QED
          BY <2>5, <3>1, <5>1
      <4>4. Carries(k, at)
        BY <2>5, <4>2, <4>3 DEF Carries
      <4>5. Holds(k)
        BY <4>4 DEF Holds
      <4> QED
        BY <1>1, <4>1, <4>5, HoldsStays
    <3>2. CASE ov.values # <<>>
      <4> DEFINE to == [i \in 1..(n + 1) |-> IF i <= n THEN at[i] ELSE k]
      <4>1. valueOverrides' = Append(valueOverrides, e)
        BY <2>1, <2>2, <3>2
      <4>2. /\ Len(valueOverrides') = n + 1 /\ valueOverrides' \in Seq(Range(valueOverrides) \cup {e})
            /\ \A i \in 1..n : valueOverrides'[i] = valueOverrides[i]
            /\ valueOverrides'[n + 1] = e
        <5> HIDE DEF e
        <5>1. valueOverrides \in Seq(Range(valueOverrides) \cup {e})
          BY <2>5
        <5> QED
          BY <2>5, <4>1, <5>1
      <4>3. valueOverrides' \in Seq(Range(valueOverrides'))
        BY <4>2, RangesAreTheirs
      <4>4. to \in [1..(n + 1) -> 1..k]
        BY <1>4, <2>5
      <4>5. \A i, j \in 1..(n + 1) : i < j => to[i] < to[j]
        <5> TAKE i, j \in 1..(n + 1)
        <5> HAVE i < j
        <5>1. i \in 1..n /\ (j \in 1..n \/ j = n + 1)
          <6>1. n \in Nat
            BY <2>5
          <6> HIDE DEF n, to
          <6> QED
            BY <6>1
        <5>2. to[i] = at[i] /\ at[i] \in 1..m
          BY <2>5, <5>1
        <5>3. CASE j \in 1..n
          <6>1. to[j] = at[j] /\ at[i] < at[j]
            BY <2>5, <5>1, <5>3
          <6> HIDE DEF to
          <6> QED
            BY <5>2, <6>1
        <5>4. CASE j = n + 1
          <6>1. to[j] = k
            BY <2>5, <5>4
          <6>2. at[i] < k
            BY <1>4, <5>2
          <6> HIDE DEF to
          <6> QED
            BY <5>2, <6>1, <6>2
        <5> HIDE DEF to
        <5> QED
          BY <5>1, <5>3, <5>4
      <4>6. \A i \in 1..(n + 1) : /\ valueOverrides'[i].pattern = Registered[to[i]].match
                                 /\ valueOverrides'[i].values = Registered[to[i]].values
        <5> TAKE i \in 1..(n + 1)
        <5>1. CASE i \in 1..n
          BY <2>5, <4>2, <5>1
        <5>2. CASE i = n + 1
          <6>1. to[i] = k /\ valueOverrides'[i] = e
            BY <2>5, <4>2, <5>2
          <6> QED
            BY <6>1
        <5> QED
          BY <2>5, <5>1, <5>2
      <4>7. \A r \in 1..k : Registered[r].values # <<>> => \E i \in 1..(n + 1) : to[i] = r
        <5> TAKE r \in 1..k
        <5> HAVE Registered[r].values # <<>>
        <5>1. CASE r \in 1..m
          <6>1. PICK i \in 1..n : at[i] = r
            BY <2>5, <5>1
          <6> QED
            BY <2>5, <6>1
        <5>2. CASE r = k
          <6>1. n + 1 \in 1..(n + 1) /\ to[n + 1] = k
            BY <2>5
          <6> QED
            BY <5>2, <6>1
        <5> QED
          BY <1>4, <5>1, <5>2
      <4>8. PICK l, t : l = n + 1 /\ t = to
        OBVIOUS
      <4> HIDE DEF to, e
      <4>9. Carries(m + 1, t)'
        <5>1. (valueOverrides \in Seq(Range(valueOverrides)))'
          BY <4>3 DEF Range
        <5>2. l \in Nat /\ Len(valueOverrides') = l
          BY <2>5, <4>2, <4>8
        <5>3. t \in [1..l -> 1..(m + 1)] /\ \A i, j \in 1..l : i < j => t[i] < t[j]
          BY <4>4, <4>5, <4>8
        <5>4. \A i \in 1..l : /\ valueOverrides'[i].pattern = Registered[t[i]].match
                            /\ valueOverrides'[i].values = Registered[t[i]].values
          BY <4>6, <4>8
        <5>5. \A r \in 1..(m + 1) : Registered[r].values # <<>> => \E i \in 1..l : t[i] = r
          BY <4>7, <4>8
        <5> HIDE DEF n, k, ov
        <5> QED
          BY <1>3, <5>1, <5>2, <5>3, <5>4, <5>5 DEF Carries
      <4> QED
        BY <4>9 DEF Holds
    <3> QED
      BY <3>1, <3>2
  <2>7. RegisteredTo(k)'
    <3>1. k \in 0..Len(Registered)'
      BY <1>3, <1>4, <2>2
    <3> HIDE DEF k
    <3> QED
      BY <1>3, <2>3, <2>6, <3>1 DEF RegisteredTo
  <2> QED
    BY <1>1, <1>3, <2>1, <2>7 DEF RouteInv
<1> QED
  BY <1>5, <1>6

LEMMA RoutesFlags == RouteInv /\ RegisterFlag => RouteInv'
<1> SUFFICES ASSUME RouteInv, RegisterFlag PROVE RouteInv'
  OBVIOUS
<1>1. phase = "flags" /\ phase' \in {"flags", "ready"} /\ UNCHANGED <<setup, env, valueOverrides>>
  BY DEF RegisterFlag
<1>2. Listed /\ Holds(Len(Registered)) /\ \E run \in Runs : setup = run.setup
  BY <1>1 DEF RouteInv
<1>3. Listed' /\ Holds(Len(Registered))'
  BY <1>1, <1>2, HoldsStays
<1> QED
  BY <1>1, <1>2, <1>3 DEF RouteInv

LEMMA StepsKeepRouteInv == RouteInv /\ [Next]_vars => RouteInv'
<1> SUFFICES ASSUME RouteInv, [Next]_vars PROVE RouteInv'
  OBVIOUS
<1>1. CASE BuildRoutes
  BY <1>1, RoutesLoad, RoutesConfigure, RoutesRegister, RoutesFlags DEF BuildRoutes
<1>2. CASE Replay
  BY <1>2, RoutesReplayed
<1>3. CASE (ResolveStep /\ UNCHANGED routeVars) \/ BeginStep \/ Done \/ UNCHANGED vars
  <2>1. UNCHANGED routeVars
    BY <1>3 DEF BeginStep, Done, vars
  <2> QED
    BY <2>1, RoutesStay
<1> QED
  BY <1>1, <1>2, <1>3 DEF Next
-----------------------------------------------------------------------------
(* The records of a step's inputs. *)
Reached == stage \in {"inputs", "sent", "unrendered"}

MayBeLeftOut(n) == Optional(n) \/ Value(n).kind = "empty" \/ FedByNull(n)

(* The inputs that were resolved have the first records, in order, and each
   other record is of an input that only an override sets. *)
RecordsInOrder ==
  /\ pos \in 1..(Len(step.inputs) + 1) /\ pos - 1 <= Len(resolutions)
  /\ pos <= Len(step.inputs) => Len(resolutions) = pos - 1
  /\ \A k \in 1..(pos - 1) : resolutions[k].input = step.inputs[k]
  /\ \A k \in pos..Len(resolutions) : resolutions[k].input \notin Range(step.inputs)
  /\ \A j, k \in 1..Len(resolutions) : resolutions[j].input = resolutions[k].input => j = k

(* A record says what its input is, and only an override sets one to null. *)
RecordsAreTrue ==
  /\ \A k \in 1..Len(resolutions) :
       resolutions[k].value
         = IF resolutions[k].input \in DOMAIN inputs THEN inputs[resolutions[k].input] ELSE Nil
  /\ \A n \in DOMAIN inputs : \E k \in 1..Len(resolutions) : resolutions[k].input = n
  /\ pos <= Len(step.inputs) => \A n \in DOMAIN inputs : inputs[n] # Nil

(* The input of an override's record is what the override says. *)
OverridesAreTrue ==
  \A k \in 1..Len(resolutions) : resolutions[k].source = "override_value" =>
    LET n == resolutions[k].input
    IN  /\ pos > Len(step.inputs)
        /\ n \in Overridden /\ n \in DOMAIN inputs /\ inputs[n] = OverlayValues[n]

LeftOutRightly ==
  \A k \in 1..(pos - 1) : step.inputs[k] \notin DOMAIN inputs => MayBeLeftOut(step.inputs[k])

Accounted == RecordsInOrder /\ RecordsAreTrue /\ OverridesAreTrue /\ LeftOutRightly

(* What is resolved to nothing is read by no required input. *)
NoneReadsNothing == \A s \in DOMAIN named : named[s] = 0 => ~requiredInputReads(s)

AccountInv ==
  /\ resolutions \in Seq(Range(resolutions))
  /\ NoneReadsNothing
  /\ stage = "selections" \/ Reached => phase = "ready"
  /\ stage \in {"routes", "selections"} => pos = 1 /\ inputs = <<>> /\ resolutions = <<>>
  /\ Reached => Accounted
  /\ Sent => pos > Len(step.inputs) /\ Overlaid = Overridden

LEMMA InputsAreListed ==
  ASSUME IsARun(step, draws)
  PROVE  /\ Len(step.inputs) \in Nat /\ DOMAIN step.inputs = 1..Len(step.inputs)
         /\ \A j, k \in 1..Len(step.inputs) : step.inputs[j] = step.inputs[k] => j = k
<1>1. step.inputs \in Seq(Range(step.inputs)) /\ IsInjective(step.inputs)
  BY ListsAssumption DEF IsARun
<1>2. Len(step.inputs) \in Nat /\ DOMAIN step.inputs = 1..Len(step.inputs)
  BY <1>1
<1> QED
  BY <1>1, <1>2 DEF IsInjective

LEMMA RecordIsAdded ==
  ASSUME resolutions \in Seq(Range(resolutions)), NEW r, resolutions' = Append(resolutions, r)
  PROVE  /\ (resolutions \in Seq(Range(resolutions)))'
         /\ Len(resolutions) \in Nat /\ Len(resolutions') = Len(resolutions) + 1
         /\ \A k \in 1..Len(resolutions) : resolutions'[k] = resolutions[k]
         /\ resolutions'[Len(resolutions')] = r
<1>1. resolutions \in Seq(Range(resolutions) \cup {r})
  OBVIOUS
<1>2. resolutions' \in Seq(Range(resolutions) \cup {r})
  BY <1>1
<1>3. resolutions' \in Seq(Range(resolutions'))
  BY <1>2, RangesAreTheirs
<1>4. (resolutions \in Seq(Range(resolutions)))'
  BY <1>3 DEF Range
<1> QED
  BY <1>1, <1>4

LEMMA OverridesStay ==
  ASSUME UNCHANGED <<step, valueOverrides>>
  PROVE  OverlayValues' = OverlayValues /\ Overridden' = Overridden
<1>1. OverlayValues' = OverlayValues
  BY DEF OverlayValues, ResolveValueOverride, Applies, Turn, mergeValues, MatchesGlob, isGlob
<1> QED
  BY <1>1 DEF Overridden

LEMMA LeftOutStays ==
  ASSUME DecisionsGrow, UNCHANGED step, NEW n, MayBeLeftOut(n)
  PROVE  MayBeLeftOut(n)'
<1>1. Value(n)' = Value(n) /\ Optional(n)' = Optional(n)
  BY DEF Value, Optional
<1>2. FedByNull(n) => FedByNull(n)'
  BY <1>1 DEF FedByNull, DecisionsGrow
<1> QED
  BY <1>1, <1>2 DEF MayBeLeftOut
(* An input that is resolved has one record more. *)
LEMMA TakeAccounts ==
  ASSUME SelectionInv, AccountInv, DecisionsGrow, UNCHANGED routeVars,
         NEW name, NEW source, NEW value, stage = "inputs", pos <= Len(step.inputs),
         name = Name, source # "override_value", Take(source, value),
         value = Nil => MayBeLeftOut(name)'
  PROVE  AccountInv'
<1> DEFINE r == Record(name, source, value)
<1>1. /\ pos' = pos + 1 /\ resolutions' = Append(resolutions, r)
      /\ inputs' = IF value = Nil THEN inputs ELSE Put(inputs, name, value)
      /\ UNCHANGED <<step, stage, named, valueOverrides, phase>>
  BY DEF Take, routeVars
<1>2. Reached /\ RecordsInOrder /\ RecordsAreTrue /\ OverridesAreTrue /\ LeftOutRightly
  BY DEF AccountInv, Reached, Accounted
<1>3. /\ Len(step.inputs) \in Nat /\ DOMAIN step.inputs = 1..Len(step.inputs)
      /\ \A j, k \in 1..Len(step.inputs) : step.inputs[j] = step.inputs[k] => j = k
  BY InputsAreListed DEF SelectionInv, CacheInv
<1>4. pos \in 1..Len(step.inputs) /\ Len(resolutions) = pos - 1
  BY <1>2, <1>3 DEF RecordsInOrder
<1>5. /\ (resolutions \in Seq(Range(resolutions)))' /\ Len(resolutions') = pos
      /\ \A k \in 1..(pos - 1) : resolutions'[k] = resolutions[k]
      /\ resolutions'[pos] = r
  <2> HIDE DEF r
  <2>1. /\ (resolutions \in Seq(Range(resolutions)))'
        /\ Len(resolutions') = Len(resolutions) + 1
        /\ \A k \in 1..Len(resolutions) : resolutions'[k] = resolutions[k]
        /\ resolutions'[Len(resolutions')] = r
    BY <1>1, RecordIsAdded DEF AccountInv
  <2> QED
    BY <1>3, <1>4, <2>1
<1>6. r.input = name /\ r.source = source /\ r.value = value
  BY DEF Record
<1> HIDE DEF r
<1>7. /\ \A k \in 1..(pos - 1) : /\ resolutions[k].input = step.inputs[k]
                                /\ step.inputs[k] # name
      /\ name = step.inputs[pos] /\ name \notin DOMAIN inputs
  <2>1. name = step.inputs[pos]
    BY DEF Name
  <2>2. \A k \in 1..(pos - 1) : resolutions[k].input = step.inputs[k]
    BY <1>2 DEF RecordsInOrder
  <2>3. \A k \in 1..(pos - 1) : step.inputs[k] # name
    BY <1>3, <1>4, <2>1
  <2>4. name \notin DOMAIN inputs
    BY <1>2, <1>4, <2>2, <2>3 DEF RecordsAreTrue
  <2> QED
    BY <2>1, <2>2, <2>3, <2>4
<1>8. /\ DOMAIN inputs' = IF value = Nil THEN DOMAIN inputs ELSE DOMAIN inputs \cup {name}
      /\ \A n \in DOMAIN inputs : inputs'[n] = inputs[n]
      /\ value # Nil => inputs'[name] = value
  BY <1>1, <1>7 DEF Put
<1>9. \A k \in 1..pos : k \in 1..(pos - 1) \/ k = pos
  BY <1>3, <1>4
<1>10. \A k \in 1..pos : resolutions'[k].input = step.inputs[k]
  BY <1>5, <1>6, <1>7, <1>9
<1>11. RecordsInOrder'
  <2>1. (pos \in 1..(Len(step.inputs) + 1) /\ pos - 1 <= Len(resolutions))'
        /\ (pos <= Len(step.inputs) => Len(resolutions) = pos - 1)'
    BY <1>1, <1>3, <1>4, <1>5
  <2>2. (\A k \in 1..(pos - 1) : resolutions[k].input = step.inputs[k])'
    BY <1>1, <1>3, <1>4, <1>10
  <2>3. (\A k \in pos..Len(resolutions) : resolutions[k].input \notin Range(step.inputs))'
    BY <1>1, <1>3, <1>4, <1>5
  <2>4. (\A j, k \in 1..Len(resolutions) : resolutions[j].input = resolutions[k].input => j = k)'
    <3>1. ASSUME NEW j \in 1..pos, NEW k \in 1..pos, resolutions'[j].input = resolutions'[k].input
          PROVE  j = k
      <4>1. step.inputs[j] = step.inputs[k]
        BY <1>10, <3>1
      <4> QED
        BY <1>3, <1>4, <4>1
    <3> QED
      BY <1>5, <3>1
  <2> QED
    BY <2>1, <2>2, <2>3, <2>4 DEF RecordsInOrder
<1>12. RecordsAreTrue'
  <2>1. ASSUME NEW k \in 1..pos
        PROVE  resolutions'[k].value
                 = IF resolutions'[k].input \in DOMAIN inputs' THEN inputs'[resolutions'[k].input] ELSE Nil
    <3>1. CASE k = pos
      BY <1>5, <1>6, <1>7, <1>8, <3>1
    <3>2. CASE k \in 1..(pos - 1)
      <4>1. /\ resolutions'[k] = resolutions[k] /\ resolutions[k].input # name
            /\ resolutions[k].value = IF resolutions[k].input \in DOMAIN inputs
                                      THEN inputs[resolutions[k].input] ELSE Nil
        BY <1>2, <1>4, <1>5, <1>7, <3>2 DEF RecordsAreTrue
      <4> QED
        BY <1>8, <4>1
    <3> QED
      BY <1>9, <3>1, <3>2
  <2>2. ASSUME NEW n \in DOMAIN inputs' PROVE \E k \in 1..pos : resolutions'[k].input = n
    <3>1. CASE n = name
      BY <1>3, <1>4, <1>5, <1>6, <3>1
    <3>2. CASE n # name
      <4>1. n \in DOMAIN inputs
        BY <1>8, <2>2, <3>2
      <4>2. PICK k \in 1..(pos - 1) : resolutions[k].input = n
        BY <1>2, <1>4, <4>1 DEF RecordsAreTrue
      <4> QED
        BY <1>3, <1>4, <1>5, <4>2
    <3> QED
      BY <3>1, <3>2
  <2>3. \A n \in DOMAIN inputs' : inputs'[n] # Nil
    BY <1>2, <1>8 DEF RecordsAreTrue
  <2> QED
    BY <1>5, <2>1, <2>2, <2>3 DEF RecordsAreTrue
<1>13. OverridesAreTrue'
  <2>1. \A k \in 1..(pos - 1) : resolutions[k].source # "override_value"
    BY <1>2, <1>3, <1>4 DEF OverridesAreTrue
  <2>2. \A k \in 1..pos : resolutions'[k].source # "override_value"
    BY <1>5, <1>6, <1>9, <2>1
  <2> QED
    BY <1>5, <2>2 DEF OverridesAreTrue
<1>14. LeftOutRightly'
  <2>1. ASSUME NEW k \in 1..pos, step.inputs[k] \notin DOMAIN inputs' PROVE MayBeLeftOut(step.inputs[k])'
    <3>1. CASE k = pos
      <4>1. value = Nil
        BY <1>7, <1>8, <2>1, <3>1
      <4> QED
        BY <1>1, <1>7, <3>1, <4>1
    <3>2. CASE k \in 1..(pos - 1)
      <4>1. PICK n : n = step.inputs[k]
        OBVIOUS
      <4>2. MayBeLeftOut(n)
        BY <1>2, <1>8, <2>1, <3>2, <4>1 DEF LeftOutRightly
      <4>3. MayBeLeftOut(n)'
        BY <1>1, <4>2, LeftOutStays
      <4> QED
        BY <1>1, <4>1, <4>3
    <3> QED
      BY <1>9, <3>1, <3>2
  <2>2. pos' - 1 = pos
    BY <1>1, <1>3, <1>4
  <2> QED
    BY <1>1, <2>1, <2>2 DEF LeftOutRightly
<1>15. NoneReadsNothing'
  BY <1>1 DEF AccountInv, NoneReadsNothing, requiredInputReads, Value
<1> QED
  BY <1>1, <1>5, <1>11, <1>12, <1>13, <1>14, <1>15 DEF AccountInv, Accounted, Reached, Sent
LEMMA FailAccounts ==
  ASSUME AccountInv, NEW name, Fail(name)
  PROVE  AccountInv'
<1>1. /\ stage' = "failed" /\ UNCHANGED <<step, named>>
      /\ resolutions' = Append(resolutions, Record(name, "error", Nil))
  BY DEF Fail
<1>2. (resolutions \in Seq(Range(resolutions)))'
  BY <1>1, RecordIsAdded DEF AccountInv
<1>3. NoneReadsNothing'
  BY <1>1 DEF AccountInv, NoneReadsNothing, requiredInputReads, Value
<1> QED
  BY <1>1, <1>2, <1>3 DEF AccountInv, Reached, Sent

LEMMA SelectNamedAccounts ==
  SelectionInv /\ AccountInv /\ UNCHANGED routeVars /\ SelectNamed => AccountInv'
<1> SUFFICES ASSUME SelectionInv, AccountInv, UNCHANGED routeVars, SelectNamed PROVE AccountInv'
  OBVIOUS
<1>1. PICK n \in NextSelections :
        LET sel == step.selections[n]
        IN  \/ /\ \/ named' = Put(named, n, Picked(sel.from, sel, n))
                     /\ Picked(sel.from, sel, n) # 0
                  \/ named' = Put(named, n, 0) /\ ~requiredInputReads(n)
               /\ UNCHANGED <<step, stage, pos, inputs, resolutions>>
            \/ Fail(n)
  BY DEF SelectNamed, SelectionFails
<1>2. CASE Fail(n)
  BY <1>2, FailAccounts
<1>3. CASE /\ UNCHANGED <<step, stage, pos, inputs, resolutions>>
           /\ \E pick : named' = Put(named, n, pick) /\ (pick # 0 \/ ~requiredInputReads(n))
  <2>1. stage = "selections" /\ UNCHANGED phase
    BY DEF SelectNamed, routeVars
  <2>2. NoneReadsNothing'
    BY <1>3 DEF AccountInv, NoneReadsNothing, requiredInputReads, Value, Put
  <2>3. (resolutions \in Seq(Range(resolutions)))'
    BY <1>3 DEF AccountInv, Range
  <2> QED
    BY <1>3, <2>1, <2>2, <2>3 DEF AccountInv, Reached, Sent
<1> QED
  BY <1>1, <1>2, <1>3

(* What may be left out is, and an input that is given a null is fed by it. *)
LEMMA ResolveAccounts ==
  ASSUME SelectionInv, AccountInv, UNCHANGED routeVars,
         \/ ResolveEmpty \/ ResolveFromResolved \/ ResolveFromInput \/ ResolveFrom
         \/ ResolveRaw \/ ResolveUnset
  PROVE  AccountInv'
<1>1. DecisionsGrow
  BY OthersSelectNothing
<1>2. PICK name : name = Name
  OBVIOUS
<1>3. stage = "inputs" /\ pos <= Len(step.inputs)
  BY DEF ResolveEmpty, ResolveFromResolved, ResolveFromInput, ResolveFrom, ResolveRaw, ResolveUnset,
         Resolving
<1>4. \A source, value :
        /\ source # "override_value" /\ Take(source, value)
        /\ value = Nil => MayBeLeftOut(name)
        => AccountInv'
  <2> SUFFICES ASSUME NEW source, NEW value, source # "override_value", Take(source, value),
                      value = Nil => MayBeLeftOut(name)
               PROVE  AccountInv'
    OBVIOUS
  <2>1. UNCHANGED step
    BY DEF Take
  <2>2. value = Nil => MayBeLeftOut(name)'
    BY <1>1, <2>1, LeftOutStays
  <2> QED
    BY <1>1, <1>2, <1>3, <2>2, TakeAccounts
<1>5. CASE Fail(Name)
  BY <1>5, FailAccounts
<1>6. CASE ResolveEmpty
  <2>1. Value(name).kind = "empty"
    BY <1>2, <1>6 DEF ResolveEmpty, Resolving
  <2>2. MayBeLeftOut(name)
    BY <2>1 DEF MayBeLeftOut
  <2>3. Fail(Name) \/ \E source, value : source # "override_value" /\ Take(source, value)
    BY <1>6 DEF ResolveEmpty, LeaveOut
  <2> QED
    BY <1>4, <1>5, <2>2, <2>3
<1>7. CASE ResolveFromResolved
  <2>1. Fail(Name) \/ \E n \in DOMAIN inputs : Take("from_resolved", inputs[n])
    BY <1>7 DEF ResolveFromResolved
  <2>2. \A n \in DOMAIN inputs : inputs[n] # Nil
    BY <1>3 DEF AccountInv, Reached, Accounted, RecordsAreTrue
  <2> QED
    BY <1>4, <1>5, <2>1, <2>2
<1>8. CASE ResolveFrom
  <2> DEFINE v == Value(name)
  <2>1. v.kind = "from"
    BY <1>2, <1>8 DEF ResolveFrom, Resolving
  <2>2. \/ Fail(Name) \/ Take("plan_from", step.outputs[v.from])
        \/ Optional(name) /\ Take("optional_skip", Nil)
    BY <1>2, <1>8 DEF ResolveFrom, LeaveOut
  <2>3. step.outputs[v.from] = Nil => MayBeLeftOut(name)
    BY <2>1 DEF MayBeLeftOut, FedByNull
  <2>4. Optional(name) => MayBeLeftOut(name)
    BY DEF MayBeLeftOut
  <2> HIDE DEF v
  <2> QED
    BY <1>4, <1>5, <2>2, <2>3, <2>4
<1>9. CASE ResolveUnset
  <2>1. Fail(Name) \/ (Optional(name) /\ Take("optional_skip", Nil))
    BY <1>2, <1>9 DEF ResolveUnset, LeaveOut
  <2>2. Optional(name) => MayBeLeftOut(name)
    BY DEF MayBeLeftOut
  <2> QED
    BY <1>4, <1>5, <2>1, <2>2
<1>10. CASE ResolveFromInput
  <2> DEFINE v == Value(name)
  <2>1. v.kind = "fromInput"
    BY <1>2, <1>10 DEF ResolveFromInput, Resolving
  <2>2. Fail(Name) \/ Take("from_input", step.earlier[v.ref])
    BY <1>2, <1>10 DEF ResolveFromInput
  <2>3. step.earlier[v.ref] = Nil => MayBeLeftOut(name)
    BY <2>1 DEF MayBeLeftOut, FedByNull
  <2> HIDE DEF v
  <2> QED
    BY <1>4, <1>5, <2>2, <2>3
<1>11. CASE ResolveRaw
  <2> DEFINE v == Value(name)
  <2>1. v.kind = "raw" /\ Take("raw_value", v.value)
    BY <1>2, <1>11 DEF ResolveRaw, Resolving
  <2>2. v \in Range(step.values)
    BY <2>1 DEF Value, Range
  <2>3. PICK run \in Runs : step = run.step
    BY DEF SelectionInv, CacheInv, IsARun
  <2> HIDE DEF v
  <2>4. v.value # Nil
    BY <2>1, <2>2, <2>3, ListsAssumption
  <2> QED
    BY <1>4, <2>1, <2>4
<1> QED
  BY <1>6, <1>7, <1>8, <1>9, <1>10, <1>11

(* What an input takes of a pick was decided for it. *)
LEMMA DecidedFeeds ==
  ASSUME CacheInv, UNCHANGED step, NEW name, NEW d, decisions' = Append(decisions, d),
         d.user = name,
         LET v == Value(name)
             got(field) == step.outputs[d.from][d.at][field]
         IN  \/ v.kind = "select" /\ got(v.select.field) = Nil
             \/ v.kind = "fromSelection" /\ got(v.field) = Nil
  PROVE  MayBeLeftOut(name)'
<1>1. Value(name)' = Value(name)
  BY DEF Value
<1>2. PICK k \in DOMAIN decisions' : decisions'[k] = d
  BY AppendGrows
<1>3. FedByNull(name)'
  BY <1>1, <1>2 DEF FedByNull
<1> QED
  BY <1>3 DEF MayBeLeftOut

LEMMA ResolveFromSelectionAccounts ==
  SelectionInv /\ AccountInv /\ UNCHANGED routeVars /\ ResolveFromSelection => AccountInv'
<1> SUFFICES ASSUME SelectionInv, AccountInv, UNCHANGED routeVars, ResolveFromSelection
             PROVE  AccountInv'
  OBVIOUS
<1>1. DecisionsGrow
  BY ResolveFromSelectionKeeps
<1>2. PICK name : name = Name
  OBVIOUS
<1> DEFINE v == Value(name)
           sel == step.selections[v.selection]
           d == [user |-> name, from |-> sel.from, sel |-> sel, at |-> named[v.selection]]
<1>3. stage = "inputs" /\ pos <= Len(step.inputs) /\ v.kind = "fromSelection"
  BY <1>2 DEF ResolveFromSelection, Resolving
<1>4. \/ Fail(Name)
      \/ /\ v.selection \in DOMAIN named /\ named[v.selection] = 0
         /\ Take("optional_skip", Nil)
      \/ /\ Take("named_selection", step.outputs[sel.from][named[v.selection]][v.field])
         /\ decisions' = Append(decisions, d)
  BY <1>2 DEF ResolveFromSelection, LeaveOut, Decide
<1>5. CASE Fail(Name)
  BY <1>5, FailAccounts
<1>6. CASE /\ v.selection \in DOMAIN named /\ named[v.selection] = 0
           /\ Take("optional_skip", Nil)
  <2>1. ~requiredInputReads(v.selection)
    BY <1>6 DEF AccountInv, NoneReadsNothing
  <2>2. name \in Range(step.inputs)
    <3>1. DOMAIN step.inputs = 1..Len(step.inputs) /\ Len(step.inputs) \in Nat
      BY InputsAreListed DEF SelectionInv, CacheInv
    <3>2. pos \in DOMAIN step.inputs
      BY <1>3, <3>1 DEF AccountInv, Reached, Accounted, RecordsInOrder
    <3> QED
      BY <1>2, <3>2 DEF Name, Range
  <2>3. Optional(name)
    BY <1>3, <2>1, <2>2 DEF requiredInputReads, Optional
  <2>4. MayBeLeftOut(name)'
    BY <1>1, <1>6, <2>3, LeftOutStays DEF MayBeLeftOut, Take
  <2> QED
    BY <1>1, <1>2, <1>3, <1>6, <2>4, TakeAccounts
<1>7. CASE /\ Take("named_selection", step.outputs[sel.from][named[v.selection]][v.field])
           /\ decisions' = Append(decisions, d)
  <2>1. PICK value : value = step.outputs[sel.from][named[v.selection]][v.field] /\ Take("named_selection", value)
    BY <1>7
  <2>2. d.user = name /\ d.from = sel.from /\ d.at = named[v.selection]
    OBVIOUS
  <2>3. UNCHANGED step
    BY <1>7 DEF Take
  <2>4. value = Nil => MayBeLeftOut(name)'
    <3> HIDE DEF d, sel
    <3> QED
      BY <1>3, <1>7, <2>1, <2>2, <2>3, DecidedFeeds DEF SelectionInv
  <2>5. stage = "inputs" /\ pos <= Len(step.inputs) /\ name = Name
    BY <1>2, <1>3
  <2>6. PICK source : source = "named_selection" /\ source # "override_value" /\ Take(source, value)
    BY <2>1
  <2> HIDE DEF d, sel, v
  <2> QED
    BY <1>1, <2>4, <2>5, <2>6, TakeAccounts
<1> HIDE DEF d, sel, v
<1> QED
  BY <1>4, <1>5, <1>6, <1>7

LEMMA ResolveSelectAccounts ==
  SelectionInv /\ AccountInv /\ UNCHANGED routeVars /\ ResolveSelect => AccountInv'
<1> SUFFICES ASSUME SelectionInv, AccountInv, UNCHANGED routeVars, ResolveSelect PROVE AccountInv'
  OBVIOUS
<1>1. DecisionsGrow
  BY ResolveSelectKeeps
<1>2. PICK name : name = Name
  OBVIOUS
<1> DEFINE v == Value(name)
           at == Picked(v.from, v.select, name)
           d == [user |-> name, from |-> v.from, sel |-> v.select, at |-> at]
<1>3. stage = "inputs" /\ pos <= Len(step.inputs) /\ v.kind = "select"
  BY <1>2 DEF ResolveSelect, Resolving
<1>4. \/ Fail(Name)
      \/ Optional(name) /\ Take("optional_skip", Nil)
      \/ /\ Take("select_edge", step.outputs[v.from][at][v.select.field])
         /\ decisions' = Append(decisions, d)
  BY <1>2 DEF ResolveSelect, LeaveOut, Select, Decide
<1>5. CASE Fail(Name)
  BY <1>5, FailAccounts
<1>6. CASE Optional(name) /\ Take("optional_skip", Nil)
  <2>1. MayBeLeftOut(name)'
    BY <1>1, <1>6, LeftOutStays DEF MayBeLeftOut, Take
  <2> QED
    BY <1>1, <1>2, <1>3, <1>6, <2>1, TakeAccounts
<1>7. CASE /\ Take("select_edge", step.outputs[v.from][at][v.select.field])
           /\ decisions' = Append(decisions, d)
  <2>1. PICK value : value = step.outputs[v.from][at][v.select.field] /\ Take("select_edge", value)
    BY <1>7
  <2>2. d.user = name /\ d.from = v.from /\ d.at = at
    OBVIOUS
  <2>3. UNCHANGED step
    BY <1>7 DEF Take
  <2>4. value = Nil => MayBeLeftOut(name)'
    <3> HIDE DEF d, at
    <3> QED
      BY <1>3, <1>7, <2>1, <2>2, <2>3, DecidedFeeds DEF SelectionInv
  <2> HIDE DEF d, at, v
  <2> QED
    BY <1>1, <1>2, <1>3, <2>1, <2>4, TakeAccounts
<1> HIDE DEF d, at, v
<1> QED
  BY <1>4, <1>5, <1>6, <1>7

(* A shuffle of a pool has the values of the pool. *)
LEMMA ShuffledIsOfThePool ==
  ASSUME CacheInv, NEW v, v \in Range(step.values), v.kind = "default", v.pool # <<>>
  PROVE  /\ DOMAIN v.pool \in SUBSET Nat /\ DOMAIN Shuffled(v.pool, NextDraw) = DOMAIN v.pool
         /\ \A k \in DOMAIN v.pool : Shuffled(v.pool, NextDraw)[k] \in Range(v.pool)
<1> DEFINE n == Len(v.pool)
           orders == Orders[n]
           order == orders[(NextDraw % Len(orders)) + 1]
<1>1. n \in Nat /\ DOMAIN v.pool = 1..n /\ orders \in Seq([1..n -> 1..n]) \ {<<>>}
  BY ListsAssumption DEF CacheInv, IsARun
<1>2. NextDraw \in Nat
  BY DrawsAreNumbers DEF CacheInv
<1>3. order \in [1..n -> 1..n]
  <2>1. \A S : \A t \in Seq(S) \ {<<>>} : \A draw \in Nat : t[(draw % Len(t)) + 1] \in S
    <3> TAKE S
    <3> TAKE t \in Seq(S) \ {<<>>}
    <3> TAKE draw \in Nat
    <3>1. Len(t) \in Nat \ {0}
      OBVIOUS
    <3>2. (draw % Len(t)) + 1 \in 1..Len(t)
      BY <3>1
    <3> QED
      BY <3>2
  <2> HIDE DEF orders, n
  <2> QED
    BY <1>1, <1>2, <2>1
<1>4. Shuffled(v.pool, NextDraw) = [k \in DOMAIN v.pool |-> v.pool[order[k]]]
  BY DEF Shuffled
<1>5. ASSUME NEW k \in DOMAIN v.pool PROVE Shuffled(v.pool, NextDraw)[k] \in Range(v.pool)
  <2>1. order[k] \in DOMAIN v.pool
    <3> HIDE DEF order, n
    <3> QED
      BY <1>1, <1>3
  <2>2. Shuffled(v.pool, NextDraw)[k] = v.pool[order[k]]
    <3> HIDE DEF order
    <3> QED
      BY <1>4
  <2> HIDE DEF order
  <2> QED
    BY <2>1, <2>2 DEF Range
<1>6. DOMAIN Shuffled(v.pool, NextDraw) = DOMAIN v.pool
  <2> HIDE DEF order
  <2> QED
    BY <1>4
<1>7. DOMAIN v.pool \in SUBSET Nat
  <2> HIDE DEF n
  <2> QED
    BY <1>1
<1> QED
  BY <1>5, <1>6, <1>7

LEMMA ResolveDefaultAccounts ==
  SelectionInv /\ AccountInv /\ UNCHANGED routeVars /\ ResolveDefault => AccountInv'
<1> SUFFICES ASSUME SelectionInv, AccountInv, UNCHANGED routeVars, ResolveDefault PROVE AccountInv'
  OBVIOUS
<1>1. DecisionsGrow
  BY OthersSelectNothing
<1>2. PICK name : name = Name
  OBVIOUS
<1> DEFINE v == Value(name)
           shuffles == v.pool # <<>> /\ ~v.sequential
           pool == IF shuffles THEN Shuffled(v.pool, NextDraw) ELSE v.pool
           fits == {k \in DOMAIN pool : pool[k] # Bad /\ Passes(v.constraint, pool[k])}
<1>3. stage = "inputs" /\ pos <= Len(step.inputs) /\ v.kind = "default"
  BY <1>2 DEF ResolveDefault, Resolving
<1>4. \/ Fail(Name)
      \/ v.default # Nil /\ Take("plan_default", v.default)
      \/ fits # {} /\ Take("fallback_pool", pool[Min(fits)])
  BY <1>2 DEF ResolveDefault
<1>5. CASE Fail(Name)
  BY <1>5, FailAccounts
<1>6. CASE v.default # Nil /\ Take("plan_default", v.default)
  <2>1. PICK value : value = v.default /\ Take("plan_default", value)
    BY <1>6
  <2> HIDE DEF v
  <2> QED
    BY <1>1, <1>2, <1>3, <1>6, <2>1, TakeAccounts
<1>7. CASE fits # {} /\ Take("fallback_pool", pool[Min(fits)])
  <2>1. PICK value : value = pool[Min(fits)] /\ Take("fallback_pool", value)
    BY <1>7
  <2>2. v \in Range(step.values)
    BY <1>3 DEF Value, Range
  <2>3. v.pool # <<>>
    <3>1. SUFFICES ASSUME v.pool = <<>> PROVE fits = {}
      BY <1>7
    <3>2. pool = <<>>
      BY <3>1
    <3> HIDE DEF pool
    <3> QED
      BY <3>2
  <2>4. /\ DOMAIN v.pool \in SUBSET Nat /\ DOMAIN pool = DOMAIN v.pool
        /\ \A k \in DOMAIN v.pool : pool[k] \in Range(v.pool)
    <3>1. /\ DOMAIN v.pool \in SUBSET Nat /\ DOMAIN Shuffled(v.pool, NextDraw) = DOMAIN v.pool
          /\ \A k \in DOMAIN v.pool : Shuffled(v.pool, NextDraw)[k] \in Range(v.pool)
      <4> HIDE DEF v
      <4> QED
        BY <1>3, <2>2, <2>3, ShuffledIsOfThePool DEF SelectionInv
    <3>2. \A k \in DOMAIN v.pool : v.pool[k] \in Range(v.pool)
      BY DEF Range
    <3> HIDE DEF v
    <3> QED
      BY <3>1, <3>2
  <2>5. Min(fits) \in fits
    <3>1. fits \in SUBSET Nat
      BY <2>4
    <3> HIDE DEF fits
    <3> QED
      BY <1>7, <3>1, MinIsOf
  <2>6. value \in Range(v.pool)
    BY <2>1, <2>4, <2>5
  <2>7. value = Nil => MayBeLeftOut(name)
    BY <1>3, <2>6 DEF MayBeLeftOut, FedByNull
  <2>8. value = Nil => MayBeLeftOut(name)'
    BY <1>1, <1>7, <2>7, LeftOutStays DEF Take
  <2> HIDE DEF fits, pool, v
  <2> QED
    BY <1>1, <1>2, <1>3, <2>1, <2>8, TakeAccounts
<1> HIDE DEF fits, pool, v
<1> QED
  BY <1>4, <1>5, <1>6, <1>7
(* Of an input that an override sets one record says so: the first that it has,
   or one more. *)
LEMMA RecordIsOverridden ==
  ASSUME SelectionInv, AccountInv, Resolved, NEW n, NEW value,
         resolutions' = recordOverrideValue(resolutions, n, value)
  PROVE  /\ (resolutions \in Seq(Range(resolutions)))'
         /\ Len(resolutions) \in Nat /\ Len(resolutions') \in Nat
         /\ Len(resolutions) <= Len(resolutions')
         /\ \E i \in 1..Len(resolutions') :
              /\ resolutions'[i] = Record(n, "override_value", value)
              /\ \A k \in 1..Len(resolutions') \ {i} :
                   /\ k \in 1..Len(resolutions) /\ resolutions'[k] = resolutions[k]
                   /\ resolutions[k].input # n
              /\ IF i \in 1..Len(resolutions) THEN resolutions[i].input = n
                 ELSE i >= pos /\ n \notin Range(step.inputs)
<1> DEFINE m == Len(resolutions)
           r == Record(n, "override_value", value)
           old == {k \in DOMAIN resolutions : resolutions[k].input = n}
<1>1. /\ Len(step.inputs) \in Nat /\ DOMAIN step.inputs = 1..Len(step.inputs)
      /\ m \in Nat /\ DOMAIN resolutions = 1..m /\ resolutions \in Seq(Range(resolutions))
  BY InputsAreListed DEF SelectionInv, CacheInv, AccountInv
<1>2. RecordsInOrder /\ pos = Len(step.inputs) + 1
  <2>1. RecordsInOrder /\ pos > Len(step.inputs)
    BY DEF Resolved, AccountInv, Reached, Accounted
  <2>2. pos \in 1..(Len(step.inputs) + 1)
    BY <2>1 DEF RecordsInOrder
  <2>3. Len(step.inputs) \in Nat
    BY <1>1
  <2>4. pos = Len(step.inputs) + 1
    BY <2>1, <2>2, <2>3
  <2> QED
    BY <2>1, <2>4
<1>3. resolutions' = IF old = {} THEN Append(resolutions, r) ELSE [resolutions EXCEPT ![Min(old)] = r]
  BY DEF recordOverrideValue
<1> HIDE DEF r
<1>4. CASE old = {}
  <2>1. resolutions' = Append(resolutions, r)
    BY <1>3, <1>4
  <2>2. /\ (resolutions \in Seq(Range(resolutions)))' /\ Len(resolutions') = m + 1
        /\ \A k \in 1..m : resolutions'[k] = resolutions[k]
        /\ resolutions'[m + 1] = r
    <3>1. /\ (resolutions \in Seq(Range(resolutions)))' /\ Len(resolutions') = m + 1
          /\ \A k \in 1..m : resolutions'[k] = resolutions[k]
          /\ resolutions'[Len(resolutions')] = r
      BY <1>1, <2>1, RecordIsAdded
    <3> QED
      BY <3>1
  <2>3. \A k \in 1..m : resolutions[k].input # n
    BY <1>1, <1>4
  <2>4. n \notin Range(step.inputs)
    <3>1. \A k \in 1..Len(step.inputs) : k \in 1..m /\ resolutions[k].input = step.inputs[k]
      BY <1>1, <1>2 DEF RecordsInOrder
    <3> QED
      BY <1>1, <2>3, <3>1 DEF Range
  <2>5. m + 1 >= pos /\ m + 1 \notin 1..m
    BY <1>1, <1>2 DEF RecordsInOrder
  <2>6. \A k \in 1..(m + 1) : k \in 1..m \/ k = m + 1
    BY <1>1
  <2>7. PICK i : i = m + 1
    OBVIOUS
  <2>8. /\ i \in 1..Len(resolutions') /\ i \notin 1..m /\ i >= pos
        /\ resolutions'[i] = r
        /\ \A k \in 1..Len(resolutions') \ {i} : k \in 1..m
    BY <1>1, <2>2, <2>5, <2>6, <2>7
  <2> HIDE DEF m, old
  <2> QED
    BY <1>1, <2>2, <2>3, <2>4, <2>8 DEF m, r
<1>5. CASE old # {}
  <2>1. PICK i : i = Min(old)
    OBVIOUS
  <2>2. i \in 1..m /\ resolutions[i].input = n
    <3>1. i \in old
      <4>1. old \in SUBSET Nat
        BY <1>1
      <4> HIDE DEF old
      <4> QED
        BY <1>5, <2>1, <4>1, MinIsOf
    <3> QED
      BY <1>1, <3>1
  <2>3. resolutions' = [resolutions EXCEPT ![i] = r]
    <3> HIDE DEF old
    <3> QED
      BY <1>3, <1>5, <2>1
  <2>4. /\ Len(resolutions') = m /\ resolutions'[i] = r
        /\ \A k \in 1..m \ {i} : resolutions'[k] = resolutions[k]
        /\ resolutions' \in Seq(Range(resolutions) \cup {r})
    <3>1. resolutions \in Seq(Range(resolutions) \cup {r})
      BY <1>1
    <3> QED
      BY <1>1, <2>2, <2>3, <3>1
  <2>5. (resolutions \in Seq(Range(resolutions)))'
    <3>1. resolutions' \in Seq(Range(resolutions'))
      BY <2>4, RangesAreTheirs
    <3> QED
      BY <3>1 DEF Range
  <2>6. \A k \in 1..m \ {i} : resolutions[k].input # n
    BY <1>2, <2>2 DEF RecordsInOrder
  <2> HIDE DEF m, old
  <2> QED
    BY <1>1, <2>2, <2>4, <2>5, <2>6 DEF m, r
<1> QED
  BY <1>4, <1>5

LEMMA OverrideInputAccounts ==
  SelectionInv /\ AccountInv /\ UNCHANGED routeVars /\ OverrideInput => AccountInv'
<1> SUFFICES ASSUME SelectionInv, AccountInv, UNCHANGED routeVars, OverrideInput
             PROVE  AccountInv'
  OBVIOUS
<1>1. PICK n \in Overridden :
        /\ inputs' = Put(inputs, n, OverlayValues[n])
        /\ resolutions' = recordOverrideValue(resolutions, n, OverlayValues[n])
  BY DEF OverrideInput
<1>2. PICK value : value = OverlayValues[n]
  OBVIOUS
<1>3. /\ Resolved /\ stage = "inputs" /\ pos > Len(step.inputs)
      /\ UNCHANGED <<step, stage, named, decisions, pos, valueOverrides, phase>>
  BY DEF OverrideInput, Resolved, routeVars
<1>4. RecordsInOrder /\ RecordsAreTrue /\ OverridesAreTrue /\ LeftOutRightly
  BY <1>3 DEF AccountInv, Reached, Accounted
<1>5. OverlayValues' = OverlayValues /\ Overridden' = Overridden
  BY <1>3, OverridesStay
<1> DEFINE m == Len(resolutions)
           l == Len(resolutions')
<1>6. (resolutions \in Seq(Range(resolutions)))' /\ m \in Nat /\ l \in Nat /\ m <= l
  BY <1>1, <1>2, <1>3, RecordIsOverridden
<1>7. PICK i \in 1..l :
        /\ resolutions'[i] = Record(n, "override_value", value)
        /\ \A k \in 1..l \ {i} : /\ k \in 1..m /\ resolutions'[k] = resolutions[k]
                                 /\ resolutions[k].input # n
        /\ IF i \in 1..m THEN resolutions[i].input = n ELSE i >= pos /\ n \notin Range(step.inputs)
  BY <1>1, <1>2, <1>3, RecordIsOverridden
<1>8. /\ resolutions'[i].input = n /\ resolutions'[i].value = value
      /\ resolutions'[i].source = "override_value"
  BY <1>7 DEF Record
<1>9. DOMAIN inputs' = DOMAIN inputs \cup {n} /\ inputs'[n] = value
      /\ \A x \in DOMAIN inputs \ {n} : inputs'[x] = inputs[x]
  BY <1>1, <1>2 DEF Put
<1>10. \A k \in 1..m : k \in 1..l /\ resolutions'[k].input = resolutions[k].input
  BY <1>6, <1>7, <1>8
<1> HIDE DEF l, m
<1>11. RecordsInOrder'
  <2>1. Len(step.inputs) \in Nat
    BY InputsAreListed DEF SelectionInv, CacheInv
  <2>2. /\ pos \in 1..(Len(step.inputs) + 1) /\ pos - 1 <= m /\ pos \in Nat
        /\ \A k \in 1..(pos - 1) : resolutions[k].input = step.inputs[k]
        /\ \A k \in pos..m : resolutions[k].input \notin Range(step.inputs)
        /\ \A j, k \in 1..m : resolutions[j].input = resolutions[k].input => j = k
    <3>1. pos \in 1..(Len(step.inputs) + 1) /\ pos - 1 <= m
      BY <1>4 DEF RecordsInOrder, m
    <3>2. pos \in Nat
      BY <2>1, <3>1
    <3>3. /\ \A k \in 1..(pos - 1) : resolutions[k].input = step.inputs[k]
          /\ \A k \in pos..m : resolutions[k].input \notin Range(step.inputs)
          /\ \A j, k \in 1..m : resolutions[j].input = resolutions[k].input => j = k
      BY <1>4 DEF RecordsInOrder, m
    <3> QED
      BY <3>1, <3>2, <3>3
  <2>3. pos - 1 <= l /\ ~(pos <= Len(step.inputs))
    BY <1>3, <1>6, <2>1, <2>2
  <2>4. \A k \in 1..(pos - 1) : resolutions'[k].input = step.inputs[k]
    <3>1. \A k \in 1..(pos - 1) : k \in 1..m
      BY <1>6, <2>2
    <3> QED
      BY <1>10, <2>2, <3>1
  <2>5. ASSUME NEW k \in pos..l PROVE resolutions'[k].input \notin Range(step.inputs)
    <3>1. CASE k \in 1..m
      <4>1. k \in pos..m
        BY <1>6, <2>2, <3>1
      <4> QED
        BY <1>10, <2>2, <3>1, <4>1
    <3>2. CASE k \notin 1..m
      <4>1. k \in 1..l
        BY <1>6, <2>2
      <4>2. k = i
        BY <1>7, <3>2, <4>1
      <4> QED
        BY <1>7, <1>8, <3>2, <4>2
    <3> QED
      BY <3>1, <3>2
  <2>6. ASSUME NEW j \in 1..l, NEW k \in 1..l, resolutions'[j].input = resolutions'[k].input
        PROVE  j = k
    BY <1>7, <1>8, <2>2, <2>6
  <2> QED
    BY <1>3, <2>2, <2>3, <2>4, <2>5, <2>6 DEF RecordsInOrder, l
<1>12. RecordsAreTrue'
  <2>1. ASSUME NEW k \in 1..l
        PROVE  resolutions'[k].value
                 = IF resolutions'[k].input \in DOMAIN inputs' THEN inputs'[resolutions'[k].input] ELSE Nil
    <3>1. CASE k = i
      BY <1>8, <1>9, <3>1
    <3>2. CASE k # i
      <4>1. /\ resolutions'[k] = resolutions[k] /\ resolutions[k].input # n
            /\ resolutions[k].value = IF resolutions[k].input \in DOMAIN inputs
                                      THEN inputs[resolutions[k].input] ELSE Nil
        BY <1>4, <1>7, <3>2 DEF RecordsAreTrue, m
      <4> QED
        BY <1>9, <4>1
    <3> QED
      BY <3>1, <3>2
  <2>2. ASSUME NEW x \in DOMAIN inputs' PROVE \E k \in 1..l : resolutions'[k].input = x
    <3>1. CASE x = n
      BY <1>8, <3>1
    <3>2. CASE x # n
      <4>1. PICK k \in 1..m : resolutions[k].input = x
        BY <1>4, <1>9, <3>2 DEF RecordsAreTrue, m
      <4> QED
        BY <1>10, <4>1
    <3> QED
      BY <3>1, <3>2
  <2>3. ~(pos <= Len(step.inputs))
    BY <1>3, <1>4, InputsAreListed DEF RecordsInOrder, SelectionInv, CacheInv
  <2> QED
    BY <1>3, <2>1, <2>2, <2>3 DEF RecordsAreTrue, l
<1>13. OverridesAreTrue'
  <2>1. ASSUME NEW k \in 1..l, resolutions'[k].source = "override_value"
        PROVE  LET x == resolutions'[k].input
               IN  x \in Overridden /\ x \in DOMAIN inputs' /\ inputs'[x] = OverlayValues[x]
    <3>1. CASE k = i
      BY <1>2, <1>8, <1>9, <3>1
    <3>2. CASE k # i
      BY <1>4, <1>7, <1>9, <2>1, <3>2 DEF OverridesAreTrue, m
    <3> QED
      BY <3>1, <3>2
  <2> QED
    BY <1>3, <1>5, <2>1 DEF OverridesAreTrue, l
<1>14. LeftOutRightly'
  <2>1. DecisionsGrow
    BY <1>3 DEF DecisionsGrow
  <2>2. ASSUME NEW k \in 1..(pos - 1), step.inputs[k] \notin DOMAIN inputs'
        PROVE  MayBeLeftOut(step.inputs[k])'
    <3>1. PICK x : x = step.inputs[k]
      OBVIOUS
    <3>2. MayBeLeftOut(x)
      BY <1>4, <1>9, <2>2, <3>1 DEF LeftOutRightly
    <3>3. MayBeLeftOut(x)'
      BY <1>3, <2>1, <3>2, LeftOutStays
    <3> QED
      BY <1>3, <3>1, <3>3
  <2> QED
    BY <1>3, <2>2 DEF LeftOutRightly
<1>15. NoneReadsNothing'
  BY <1>3 DEF AccountInv, NoneReadsNothing, requiredInputReads, Value
<1> QED
  BY <1>3, <1>6, <1>11, <1>12, <1>13, <1>14, <1>15 DEF AccountInv, Accounted, Reached, Sent
LEMMA AccountsStay ==
  ASSUME UNCHANGED <<step, named, decisions, pos, inputs, resolutions, valueOverrides>>
  PROVE  /\ Accounted => Accounted'
         /\ (resolutions \in Seq(Range(resolutions)))' <=> resolutions \in Seq(Range(resolutions))
         /\ NoneReadsNothing' <=> NoneReadsNothing
         /\ Overridden' = Overridden /\ Overlaid' = Overlaid
<1>1. OverlayValues' = OverlayValues /\ Overridden' = Overridden
  BY OverridesStay
<1>2. Overlaid' = Overlaid
  BY <1>1 DEF Overlaid, Recorded
<1>3. RecordsInOrder' <=> RecordsInOrder
  BY DEF RecordsInOrder, Range
<1>4. RecordsAreTrue' <=> RecordsAreTrue
  BY DEF RecordsAreTrue
<1>5. OverridesAreTrue' <=> OverridesAreTrue
  BY <1>1 DEF OverridesAreTrue
<1>6. LeftOutRightly => LeftOutRightly'
  <2> SUFFICES ASSUME LeftOutRightly, NEW k \in 1..(pos - 1), step.inputs[k] \notin DOMAIN inputs
               PROVE  MayBeLeftOut(step.inputs[k])'
    BY DEF LeftOutRightly
  <2>1. PICK x : x = step.inputs[k]
    OBVIOUS
  <2>2. MayBeLeftOut(x)
    BY <2>1 DEF LeftOutRightly
  <2>3. MayBeLeftOut(x)'
    BY <2>2, LeftOutStays DEF DecisionsGrow
  <2> QED
    BY <2>1, <2>3
<1>7. (resolutions \in Seq(Range(resolutions)))' <=> resolutions \in Seq(Range(resolutions))
  BY DEF Range
<1>8. NoneReadsNothing' <=> NoneReadsNothing
  BY DEF NoneReadsNothing, requiredInputReads, Value
<1> QED
  BY <1>1, <1>2, <1>3, <1>4, <1>5, <1>6, <1>7, <1>8 DEF Accounted

LEMMA BeginInputsAccounts ==
  SelectionInv /\ AccountInv /\ UNCHANGED routeVars /\ BeginInputs => AccountInv'
<1> SUFFICES ASSUME SelectionInv, AccountInv, UNCHANGED routeVars, BeginInputs PROVE AccountInv'
  OBVIOUS
<1>1. /\ stage = "selections" /\ stage' = "inputs" /\ phase' = "ready"
      /\ pos = 1 /\ inputs = <<>> /\ resolutions = <<>>
      /\ UNCHANGED <<step, named, decisions, pos, inputs, resolutions, valueOverrides>>
  BY DEF BeginInputs, AccountInv, routeVars
<1>2. Len(step.inputs) \in Nat /\ Len(resolutions) = 0
  BY <1>1, InputsAreListed DEF SelectionInv, CacheInv
<1>3. Accounted
  <2>1. RecordsInOrder
    BY <1>1, <1>2 DEF RecordsInOrder
  <2>2. RecordsAreTrue
    BY <1>1, <1>2 DEF RecordsAreTrue
  <2>3. OverridesAreTrue
    BY <1>1, <1>2 DEF OverridesAreTrue
  <2>4. LeftOutRightly
    BY <1>1 DEF LeftOutRightly
  <2> QED
    BY <2>1, <2>2, <2>3, <2>4 DEF Accounted
<1> QED
  BY <1>1, <1>3, AccountsStay DEF AccountInv, Reached, Sent

LEMMA FinishAccounts ==
  ASSUME AccountInv, UNCHANGED routeVars, NEW to \in {"sent", "unrendered"}, NEW request,
         Finish(to, request)
  PROVE  AccountInv'
<1>1. /\ stage = "inputs" /\ pos > Len(step.inputs) /\ Overlaid = Overridden
      /\ stage' \in {"sent", "unrendered"}
      /\ UNCHANGED <<step, named, decisions, pos, inputs, resolutions, valueOverrides, phase>>
  BY DEF Finish, Resolved, routeVars
<1> QED
  BY <1>1, AccountsStay DEF AccountInv, Reached, Sent

(* While the routes are built the step has not begun. *)
LEMMA RoutesAccount ==
  ASSUME AccountInv, \/ BuildRoutes /\ UNCHANGED stepVars
                     \/ BeginStep \/ Replay \/ UNCHANGED vars
  PROVE  AccountInv'
<1>1. CASE BuildRoutes /\ UNCHANGED stepVars
  <2>1. phase # "ready" /\ UNCHANGED <<step, stage, named, pos, inputs, resolutions>>
    BY <1>1 DEF BuildRoutes, LoadEnvironment, Configure, RegisterOverride, RegisterFlag, stepVars
  <2>2. ~(stage = "selections" \/ Reached) /\ ~Sent
    BY <2>1 DEF AccountInv, Reached, Sent
  <2>3. (resolutions \in Seq(Range(resolutions)))' /\ NoneReadsNothing'
    BY <2>1 DEF AccountInv, NoneReadsNothing, requiredInputReads, Value, Range
  <2> QED
    BY <2>1, <2>2, <2>3 DEF AccountInv, Reached, Sent
<1>2. CASE BeginStep
  <2>1. /\ stage = "routes" /\ stage' \in {"selections", "failed"}
        /\ stage' = "selections" => phase = "ready"
        /\ UNCHANGED <<phase, step, named, pos, inputs, resolutions>>
    BY <1>2 DEF BeginStep, routeVars
  <2>2. (resolutions \in Seq(Range(resolutions)))' /\ NoneReadsNothing'
    BY <2>1 DEF AccountInv, NoneReadsNothing, requiredInputReads, Value, Range
  <2> QED
    BY <2>1, <2>2 DEF AccountInv, Reached, Sent
<1>3. CASE Replay
  <2>1. /\ stage' = "routes" /\ named' = <<>>
        /\ pos' = 1 /\ inputs' = <<>> /\ resolutions' = <<>>
    BY <1>3 DEF Replay
  <2>2. (resolutions \in Seq(Range(resolutions)))' /\ NoneReadsNothing'
    BY <2>1 DEF NoneReadsNothing, Range
  <2> QED
    BY <2>1, <2>2 DEF AccountInv, Reached, Sent
<1>4. CASE UNCHANGED vars
  <2>1. UNCHANGED <<step, stage, phase, named, decisions, pos, inputs, resolutions, valueOverrides>>
    BY <1>4 DEF vars, stepVars, routeVars
  <2> QED
    BY <2>1, AccountsStay DEF AccountInv, Reached, Sent
<1> QED
  BY <1>1, <1>2, <1>3, <1>4

LEMMA StepsKeepAccountInv == SelectionInv /\ AccountInv /\ [Next]_vars => AccountInv'
<1> SUFFICES ASSUME SelectionInv, AccountInv, [Next]_vars PROVE AccountInv'
  OBVIOUS
<1>1. CASE ResolveStep /\ UNCHANGED routeVars
  <2>1. CASE SelectNamed
    BY <1>1, <2>1, SelectNamedAccounts
  <2>2. CASE BeginInputs
    BY <1>1, <2>2, BeginInputsAccounts
  <2>3. CASE \/ ResolveEmpty \/ ResolveFromResolved \/ ResolveFromInput \/ ResolveFrom
             \/ ResolveRaw \/ ResolveUnset
    BY <1>1, <2>3, ResolveAccounts
  <2>4. CASE ResolveFromSelection \/ ResolveSelect \/ ResolveDefault
    BY <1>1, <2>4, ResolveFromSelectionAccounts, ResolveSelectAccounts, ResolveDefaultAccounts
  <2>5. CASE OverrideInput
    BY <1>1, <2>5, OverrideInputAccounts
  <2>6. CASE Send \/ Unrendered
    <3>1. \E to \in {"sent", "unrendered"} : \E request : Finish(to, request)
      BY <2>6 DEF Send, Unrendered
    <3> QED
      BY <1>1, <3>1, FinishAccounts
  <2> QED
    BY <1>1, <2>1, <2>2, <2>3, <2>4, <2>5, <2>6 DEF ResolveStep
<1>2. CASE (BuildRoutes /\ UNCHANGED stepVars) \/ BeginStep \/ Replay \/ Done \/ UNCHANGED vars
  BY <1>2, RoutesAccount DEF Done
<1> QED
  BY <1>1, <1>2 DEF Next

LEMMA StartsAccounted == Init => AccountInv
BY DEF Init, AccountInv, NoneReadsNothing, Reached, Sent, Range

(* What is sent is what one record says, for any files, flags, overrides and
   steps: an override's value reaches every input that it names but the one that
   a fuzz case is about, and no required input goes missing but by {} or a null
   (resolve.go, routing.go ResolveValueOverride, override_resolution.go). *)
THEOREM InputsAreAccountedFor == Spec => []EveryInputIsAccountedFor
<1>1. RouteInv /\ SelectionInv /\ AccountInv => EveryInputIsAccountedFor
  <2> SUFFICES ASSUME RouteInv, SelectionInv, AccountInv, Sent,
                      NEW n \in Range(step.inputs) \cup DOMAIN inputs
               PROVE  /\ Cardinality(Recorded(n)) = 1
                      /\ \A k \in Recorded(n) :
                           /\ resolutions[k].value = IF n \in DOMAIN inputs THEN inputs[n] ELSE Nil
                           /\ n # step.fuzzed /\ OverrideValue(step.node, n) # {}
                                <=> resolutions[k].source = "override_value"
                           /\ resolutions[k].source = "override_value"
                                => inputs[n] \in OverrideValue(step.node, n)
                      /\ n \notin DOMAIN inputs
                           => Optional(n) \/ Value(n).kind = "empty" \/ FedByNull(n)
    BY DEF EveryInputIsAccountedFor
  <2>1. /\ RecordsInOrder /\ RecordsAreTrue /\ OverridesAreTrue /\ LeftOutRightly
        /\ pos > Len(step.inputs) /\ Overlaid = Overridden
    BY DEF AccountInv, Accounted, Reached, Sent
  <2>2. Len(step.inputs) \in Nat /\ DOMAIN step.inputs = 1..Len(step.inputs)
    BY InputsAreListed DEF SelectionInv, CacheInv
  <2>3. Len(resolutions) \in Nat /\ DOMAIN resolutions = 1..Len(resolutions)
    BY DEF AccountInv
  <2>4. pos = Len(step.inputs) + 1
    BY <2>1, <2>2 DEF RecordsInOrder
  <2>5. n \in Range(step.inputs) => \E k \in 1..(pos - 1) : step.inputs[k] = n
    BY <2>2, <2>4 DEF Range
  <2>6. PICK i \in 1..Len(resolutions) : resolutions[i].input = n
    <3>1. CASE n \in DOMAIN inputs
      BY <2>1, <3>1 DEF RecordsAreTrue
    <3>2. CASE n \in Range(step.inputs)
      <4>1. PICK k \in 1..(pos - 1) : step.inputs[k] = n
        BY <2>5, <3>2
      <4>2. k \in 1..Len(resolutions) /\ resolutions[k].input = n
        BY <2>1, <2>2, <2>3, <2>4, <4>1 DEF RecordsInOrder
      <4> QED
        BY <4>2
    <3> QED
      BY <3>1, <3>2
  <2>7. Recorded(n) = {i}
    BY <2>1, <2>3, <2>6 DEF Recorded, RecordsInOrder
  <2>8. Listed /\ Holds(Len(Registered))
    <3>1. phase = "ready"
      BY DEF AccountInv, Reached, Sent
    <3> QED
      BY <3>1 DEF RouteInv
  <2>9. /\ n \in DOMAIN OverlayValues <=> OverrideValue(step.node, n) # {}
        /\ n \in DOMAIN OverlayValues => OverrideValue(step.node, n) = {OverlayValues[n]}
    BY <2>8, ValuesAreTheOverrides DEF OverlayValues
  <2>10. resolutions[i].source = "override_value"
           => n \in Overridden /\ n \in DOMAIN inputs /\ inputs[n] = OverlayValues[n]
    BY <2>1, <2>6 DEF OverridesAreTrue
  <2>11. n \in Overridden => resolutions[i].source = "override_value"
    BY <2>1, <2>7 DEF Overlaid
  <2>12. Cardinality(Recorded(n)) = 1
    BY <2>7, FS_Singleton
  <2>13. ASSUME NEW k \in Recorded(n)
         PROVE  /\ resolutions[k].value = IF n \in DOMAIN inputs THEN inputs[n] ELSE Nil
                /\ n # step.fuzzed /\ OverrideValue(step.node, n) # {}
                     <=> resolutions[k].source = "override_value"
                /\ resolutions[k].source = "override_value"
                     => inputs[n] \in OverrideValue(step.node, n)
    <3>1. k = i
      BY <2>7
    <3>2. resolutions[i].value = IF n \in DOMAIN inputs THEN inputs[n] ELSE Nil
      BY <2>1, <2>6 DEF RecordsAreTrue
    <3>3. n # step.fuzzed /\ OverrideValue(step.node, n) # {}
            <=> resolutions[i].source = "override_value"
      BY <2>9, <2>10, <2>11 DEF Overridden
    <3>4. resolutions[i].source = "override_value" => inputs[n] \in OverrideValue(step.node, n)
      BY <2>9, <2>10 DEF Overridden
    <3> QED
      BY <3>1, <3>2, <3>3, <3>4
  <2>14. n \notin DOMAIN inputs => MayBeLeftOut(n)
    BY <2>1, <2>5 DEF LeftOutRightly
  <2> QED
    BY <2>12, <2>13, <2>14 DEF MayBeLeftOut
<1>2. Init => RouteInv /\ SelectionInv /\ AccountInv
  BY RoutesStart, StartsUndecided, StartsAccounted
<1>3. RouteInv /\ SelectionInv /\ AccountInv /\ [Next]_vars
        => RouteInv' /\ SelectionInv' /\ AccountInv'
  BY StepsKeepRouteInv, StepsKeepSelectionInv, StepsKeepAccountInv
<1> QED
  BY <1>1, <1>2, <1>3, PTL DEF Spec
-----------------------------------------------------------------------------
(* The headers of a request, read as layers: the first of two sets that holds
   anything. *)
First(s, t) == IF s # {} THEN s ELSE t

LEMMA HeaderIsThere ==
  ASSUME NEW f, NEW c
  PROVE  Header(f, c) # {} <=> Named(f, c) # {}
BY DEF Header, Named

(* What is set over other headers replaces those of its names. *)
LEMMA HeadersAreSet ==
  ASSUME NEW headers, NEW more
  PROVE  /\ \A c : Header(withHeaders(headers, more), c) = First(Header(more, c), Header(headers, c))
         /\ Single(headers) /\ Single(more) => Single(withHeaders(headers, more))
<1> DEFINE kept == {h \in DOMAIN headers : \A m \in DOMAIN more : Canonical[h] # Canonical[m]}
<1>1. PICK set : set = withHeaders(headers, more)
  OBVIOUS
<1>2. set = [h \in DOMAIN more \cup kept |-> IF h \in DOMAIN more THEN more[h] ELSE headers[h]]
  BY <1>1 DEF withHeaders
<1>3. DOMAIN set = DOMAIN more \cup kept /\ \A h \in DOMAIN more : set[h] = more[h]
  BY <1>2
<1>4. \A h \in kept : h \notin DOMAIN more /\ set[h] = headers[h]
  BY <1>2
<1>5. ASSUME NEW c PROVE Header(set, c) = First(Header(more, c), Header(headers, c))
  <2>1. CASE Named(more, c) # {}
    <3>1. Named(set, c) = Named(more, c)
      BY <1>3, <2>1 DEF Named
    <3>2. Header(set, c) = Header(more, c)
      BY <1>3, <3>1 DEF Header, Named
    <3> QED BY <2>1, <3>2, HeaderIsThere DEF First
  <2>2. CASE Named(more, c) = {}
    <3>1. Named(set, c) = Named(headers, c) /\ Named(headers, c) \subseteq kept
      BY <1>3, <2>2 DEF Named
    <3>2. Header(set, c) = Header(headers, c)
      BY <1>4, <3>1 DEF Header
    <3> QED BY <2>2, <3>2, HeaderIsThere DEF First
  <2> QED BY <2>1, <2>2
<1>6. ASSUME Single(headers), Single(more) PROVE Single(set)
  BY <1>3, <1>6 DEF Single
<1> QED BY <1>1, <1>5, <1>6

LEMMA HeadersAreDeleted ==
  ASSUME NEW headers, NEW name
  PROVE  /\ \A c : Header(deleteHeader(headers, name), c) =
                     IF c = Canonical[name] THEN {} ELSE Header(headers, c)
         /\ Single(headers) => Single(deleteHeader(headers, name))
<1> DEFINE kept == {h \in DOMAIN headers : Canonical[h] # Canonical[name]}
<1>1. PICK left : left = deleteHeader(headers, name)
  OBVIOUS
<1>2. DOMAIN left = kept /\ \A h \in kept : left[h] = headers[h]
  BY <1>1 DEF deleteHeader
<1>3. ASSUME NEW c, c = Canonical[name] PROVE Header(left, c) = {}
  BY <1>2, <1>3 DEF Header, Named
<1>4. ASSUME NEW c, c # Canonical[name] PROVE Header(left, c) = Header(headers, c)
  <2>1. Named(left, c) = Named(headers, c) /\ Named(left, c) \subseteq kept
    BY <1>2, <1>4 DEF Named
  <2> QED BY <1>2, <2>1 DEF Header
<1>5. Single(headers) => Single(left)
  BY <1>2 DEF Single
<1> QED BY <1>1, <1>3, <1>4, <1>5

(* One of the names that are one but for their case is the environment's. *)
LEMMA WinnersAre ==
  ASSUME NEW headers, NEW winner \in Winners(headers)
  PROVE  /\ Single(winner)
         /\ \A c : Header(winner, c) \subseteq Header(headers, c)
         /\ \A c : Header(headers, c) # {} => Header(winner, c) # {}
<1>1. PICK S \in SUBSET DOMAIN headers :
        /\ \A h \in DOMAIN headers : \E w \in S : {x \in S : Canonical[x] = Canonical[h]} = {w}
        /\ winner = [h \in S |-> headers[h]]
  BY DEF Winners
<1>2. Single(winner)
  <2> SUFFICES ASSUME NEW h \in S, NEW k \in S, Canonical[h] = Canonical[k] PROVE h = k
    BY <1>1 DEF Single
  <2>1. PICK w \in S : {x \in S : Canonical[x] = Canonical[h]} = {w}
    BY <1>1
  <2> QED BY <2>1
<1>3. ASSUME NEW c PROVE Header(winner, c) \subseteq Header(headers, c)
  BY <1>1 DEF Header, Named
<1>4. ASSUME NEW c, Header(headers, c) # {} PROVE Header(winner, c) # {}
  <2>1. PICK h \in DOMAIN headers : Canonical[h] = c
    BY <1>4 DEF Header, Named
  <2>2. PICK w \in S : {x \in S : Canonical[x] = Canonical[h]} = {w}
    BY <1>1
  <2>3. w \in Named(winner, c)
    BY <1>1, <2>1, <2>2 DEF Named
  <2> QED BY <2>3, HeaderIsThere
<1> QED BY <1>2, <1>3, <1>4

RouteOf(url, headers, protected, overlay) ==
  [url |-> url, headers |-> headers, protected |-> protected, overlay |-> overlay]

LEMMA ProtectedIs ==
  ASSUME NEW u, NEW f, NEW p, NEW o, NEW more
  PROVE  addProtected(RouteOf(u, f, p, o), more)
           = RouteOf(u, withHeaders(f, more), withHeaders(p, more), o)
<1>1. PICK r : r = RouteOf(u, f, p, o)
  OBVIOUS
<1>2. PICK x : x = withHeaders(f, more)
  OBVIOUS
<1>3. PICK y : y = withHeaders(p, more)
  OBVIOUS
<1>4. r.headers = f /\ r.protected = p
  BY <1>1 DEF RouteOf
<1>5. addProtected(r, more) = [r EXCEPT !.headers = x, !.protected = y]
  BY <1>2, <1>3, <1>4 DEF addProtected
<1>6. [r EXCEPT !.headers = x, !.protected = y] = [[r EXCEPT !.headers = x] EXCEPT !.protected = y]
  BY <1>1 DEF RouteOf
<1>7. [r EXCEPT !.headers = x] = RouteOf(u, x, p, o)
  BY <1>1 DEF RouteOf
<1>8. [RouteOf(u, x, p, o) EXCEPT !.protected = y] = RouteOf(u, x, y, o)
  BY DEF RouteOf
<1> QED BY <1>1, <1>2, <1>3, <1>5, <1>6, <1>7, <1>8

LEMMA OverlaidIs ==
  ASSUME NEW u, NEW f, NEW p, NEW o, NEW more
  PROVE  AddOverlayHeaders(RouteOf(u, f, p, o), more)
           = RouteOf(u, withHeaders(f, more), withHeaders(p, more), withHeaders(o, more))
<1>1. [RouteOf(u, f, p, o) EXCEPT !.overlay = withHeaders(@, more)] = RouteOf(u, f, p, withHeaders(o, more))
  BY DEF RouteOf
<1> QED BY <1>1, ProtectedIs DEF AddOverlayHeaders

LEMMA NoHeaders == Single(<<>>) /\ \A c : Header(<<>>, c) = {}
BY DEF Single, Header, Named

LEMMA CredentialIs ==
  ASSUME NEW a
  PROVE  /\ Single(credentialHeader(a))
         /\ \A c : Header(credentialHeader(a), c) # {} =>
              \/ a.type = "bearer" /\ c = Canonical["Authorization"]
              \/ a.type = "apikey" /\ c = Canonical[a.header]
<1>1. CASE a.type = "apikey"
  <2>1. PICK f : f = [h \in {a.header} |-> a.key]
    OBVIOUS
  <2>2. credentialHeader(a) = f
    BY <1>1, <2>1 DEF credentialHeader
  <2>3. DOMAIN f = {a.header}
    BY <2>1
  <2> QED BY <1>1, <2>2, <2>3 DEF Single, Header, Named
<1>2. CASE a.type = "bearer"
  <2>1. PICK f : f = [h \in {"Authorization"} |-> a.key]
    OBVIOUS
  <2>2. credentialHeader(a) = f
    BY <1>2, <2>1 DEF credentialHeader
  <2>3. DOMAIN f = {"Authorization"}
    BY <2>1
  <2> QED BY <1>2, <2>2, <2>3 DEF Single, Header, Named
<1>3. CASE a.type # "apikey" /\ a.type # "bearer"
  <2>1. credentialHeader(a) = <<>>
    BY <1>3 DEF credentialHeader
  <2> QED BY <2>1, NoHeaders
<1> QED BY <1>1, <1>2, <1>3

(* The default route. *)
LEMMA DefaultRouteIs ==
  ASSUME NEW headers, NEW a, NEW s, Single(headers), Single(s.planHeaders),
         Single(s.auto.headers), Single(s.overlay.headers)
  PROVE  \E f, p, o :
           /\ BuildAPIConfig(headers, a, s) = RouteOf(env.url, f, p, o)
           /\ Single(f) /\ Single(p) /\ Single(o)
           /\ \A c : /\ Header(o, c) = First(Header(s.overlay.headers, c), Header(s.auto.headers, c))
                    /\ Header(p, c) = First(Header(o, c), Header(credentialHeader(a), c))
                    /\ Header(f, c) = First(Header(p, c), First(Header(s.planHeaders, c), Header(headers, c)))
<1>1. PICK cr : cr = credentialHeader(a)
  OBVIOUS
<1>2. PICK f0 : f0 = withHeaders(headers, s.planHeaders)
  OBVIOUS
<1>3. PICK f1 : f1 = withHeaders(f0, cr)
  OBVIOUS
<1>4. PICK f2 : f2 = withHeaders(f1, s.auto.headers)
  OBVIOUS
<1>5. PICK f3 : f3 = withHeaders(f2, s.overlay.headers)
  OBVIOUS
<1>6. PICK p1 : p1 = withHeaders(<<>>, cr)
  OBVIOUS
<1>7. PICK p2 : p2 = withHeaders(p1, s.auto.headers)
  OBVIOUS
<1>8. PICK p3 : p3 = withHeaders(p2, s.overlay.headers)
  OBVIOUS
<1>9. PICK o1 : o1 = withHeaders(<<>>, s.auto.headers)
  OBVIOUS
<1>10. PICK o2 : o2 = withHeaders(o1, s.overlay.headers)
  OBVIOUS
<1>11. BuildAPIConfig(headers, a, s) = RouteOf(env.url, f3, p3, o2)
  <2>1. [url |-> env.url, headers |-> withHeaders(headers, s.planHeaders), protected |-> <<>>, overlay |-> <<>>]
          = RouteOf(env.url, f0, <<>>, <<>>)
    BY <1>2 DEF RouteOf
  <2>2. addProtected(RouteOf(env.url, f0, <<>>, <<>>), credentialHeader(a)) = RouteOf(env.url, f1, p1, <<>>)
    BY <1>1, <1>3, <1>6, ProtectedIs
  <2>3. AddOverlayHeaders(RouteOf(env.url, f1, p1, <<>>), s.auto.headers) = RouteOf(env.url, f2, p2, o1)
    BY <1>4, <1>7, <1>9, OverlaidIs
  <2>4. AddOverlayHeaders(RouteOf(env.url, f2, p2, o1), s.overlay.headers) = RouteOf(env.url, f3, p3, o2)
    BY <1>5, <1>8, <1>10, OverlaidIs
  <2> QED BY <2>1, <2>2, <2>3, <2>4 DEF BuildAPIConfig
<1>12. Single(cr)
  BY <1>1, CredentialIs
<1>13. Single(f0) /\ Single(p1) /\ Single(o1)
  BY <1>2, <1>6, <1>9, <1>12, HeadersAreSet, NoHeaders
<1>14. Single(f1) /\ Single(p2) /\ Single(o2)
  BY <1>3, <1>7, <1>10, <1>12, <1>13, HeadersAreSet
<1>15. Single(f2) /\ Single(p3)
  BY <1>4, <1>8, <1>14, HeadersAreSet
<1>16. Single(f3)
  BY <1>5, <1>15, HeadersAreSet
<1>17. ASSUME NEW c
       PROVE  /\ Header(o2, c) = First(Header(s.overlay.headers, c), Header(s.auto.headers, c))
              /\ Header(p3, c) = First(Header(o2, c), Header(cr, c))
              /\ Header(f3, c) = First(Header(p3, c), First(Header(s.planHeaders, c), Header(headers, c)))
  <2>1. Header(o1, c) = First(Header(s.auto.headers, c), {}) /\ Header(p1, c) = First(Header(cr, c), {})
    BY <1>6, <1>9, HeadersAreSet, NoHeaders
  <2>2. /\ Header(o2, c) = First(Header(s.overlay.headers, c), Header(o1, c))
        /\ Header(p2, c) = First(Header(s.auto.headers, c), Header(p1, c))
        /\ Header(p3, c) = First(Header(s.overlay.headers, c), Header(p2, c))
    BY <1>7, <1>8, <1>10, HeadersAreSet
  <2>3. /\ Header(f0, c) = First(Header(s.planHeaders, c), Header(headers, c))
        /\ Header(f1, c) = First(Header(cr, c), Header(f0, c))
    BY <1>2, <1>3, HeadersAreSet
  <2>4. /\ Header(f2, c) = First(Header(s.auto.headers, c), Header(f1, c))
        /\ Header(f3, c) = First(Header(s.overlay.headers, c), Header(f2, c))
    BY <1>4, <1>5, HeadersAreSet
  <2> QED BY <2>1, <2>2, <2>3, <2>4 DEF First
<1> QED BY <1>1, <1>11, <1>14, <1>15, <1>16, <1>17

-----------------------------------------------------------------------------
LEMMA MostSpecificIs ==
  ASSUME NEW sources, DOMAIN sources = 1..7, NEW c
  PROVE  MostSpecific(sources, c) =
           First(Header(sources[1], c), First(Header(sources[2], c), First(Header(sources[3], c),
             First(Header(sources[4], c), First(Header(sources[5], c), First(Header(sources[6], c),
               Header(sources[7], c)))))))
<1> DEFINE says(k) == Named(sources[k], c) # {}
           at == {k \in 1..7 : says(k)}
<1>1. MostSpecific(sources, c) = IF at = {} THEN {} ELSE Header(sources[Min(at)], c)
  BY DEF MostSpecific
<1>2. ASSUME NEW k \in 1..7, says(k), \A j \in 1..7 : j < k => ~says(j)
      PROVE  MostSpecific(sources, c) = Header(sources[k], c)
  <2>1. k \in at /\ \A j \in at : k <= j
    BY <1>2
  <2>2. Min(at) = k
    <3>1. \A x \in at : (\A y \in at : x <= y) => x = k
      <4> SUFFICES ASSUME NEW x \in at, x <= k PROVE x = k
        BY <2>1
      <4> QED BY <2>1
    <3> HIDE DEF at
    <3> QED BY <2>1, <3>1 DEF Min
  <2> QED BY <1>1, <2>1, <2>2
<1>3. \A k \in 1..7 : says(k) <=> Header(sources[k], c) # {}
  BY HeaderIsThere
<1>4. (\A k \in 1..7 : ~says(k)) => MostSpecific(sources, c) = {}
  BY <1>1
<1> DEFINE h(k) == Header(sources[k], c)
<1> HIDE DEF says, at
<1>5. ASSUME NEW k \in 1..7, h(k) # {}, \A j \in 1..7 : j < k => h(j) = {}
      PROVE  MostSpecific(sources, c) = h(k)
  BY <1>2, <1>3, <1>5
<1>6. (\A k \in 1..7 : h(k) = {}) => MostSpecific(sources, c) = {}
  BY <1>3, <1>4
<1>7. \A k \in 1..7 : k = 1 \/ k = 2 \/ k = 3 \/ k = 4 \/ k = 5 \/ k = 6 \/ k = 7
  OBVIOUS
<1> HIDE DEF h
<1> SUFFICES MostSpecific(sources, c) =
               First(h(1), First(h(2), First(h(3), First(h(4), First(h(5), First(h(6), h(7)))))))
  BY DEF h
<1>8. CASE \A k \in 1..7 : h(k) = {}
  <2>1. h(1) = {} /\ h(2) = {} /\ h(3) = {} /\ h(4) = {} /\ h(5) = {} /\ h(6) = {} /\ h(7) = {}
    BY <1>8
  <2> QED BY <1>6, <1>8, <2>1 DEF First
<1>9. CASE h(1) # {}
  BY <1>5, <1>9 DEF First
<1>10. CASE h(1) = {} /\ h(2) # {}
  BY <1>5, <1>7, <1>10 DEF First
<1>11. CASE h(1) = {} /\ h(2) = {} /\ h(3) # {}
  BY <1>5, <1>7, <1>11 DEF First
<1>12. CASE h(1) = {} /\ h(2) = {} /\ h(3) = {} /\ h(4) # {}
  BY <1>5, <1>7, <1>12 DEF First
<1>13. CASE h(1) = {} /\ h(2) = {} /\ h(3) = {} /\ h(4) = {} /\ h(5) # {}
  BY <1>5, <1>7, <1>13 DEF First
<1>14. CASE h(1) = {} /\ h(2) = {} /\ h(3) = {} /\ h(4) = {} /\ h(5) = {} /\ h(6) # {}
  BY <1>5, <1>7, <1>14 DEF First
<1>15. CASE /\ h(1) = {} /\ h(2) = {} /\ h(3) = {} /\ h(4) = {} /\ h(5) = {} /\ h(6) = {}
            /\ h(7) # {}
  BY <1>5, <1>7, <1>15 DEF First
<1> QED BY <1>7, <1>8, <1>9, <1>10, <1>11, <1>12, <1>13, <1>14, <1>15

(* The names that carry the run's own credential. *)
Credentials ==
  {Canonical["Authorization"]} \cup (IF auth.type = "apikey" THEN {Canonical[auth.header]} ELSE {})
Inherited(headers, ov) ==
  IF ov.auth.type = "unset" THEN headers
  ELSE [h \in {h \in DOMAIN headers : Canonical[h] \notin Credentials} |-> headers[h]]

LEMMA InheritedIs ==
  ASSUME NEW headers, NEW ov, NEW c
  PROVE  Header(Inherited(headers, ov), c) =
           IF ov.auth.type # "unset" /\ c \in Credentials THEN {} ELSE Header(headers, c)
<1>1. PICK cs : cs = Credentials
  OBVIOUS
<1>2. PICK kept : kept = {h \in DOMAIN headers : Canonical[h] \notin cs}
  OBVIOUS
<1>3. PICK left : left = [h \in kept |-> headers[h]]
  OBVIOUS
<1>4. DOMAIN left = kept /\ \A h \in kept : left[h] = headers[h]
  BY <1>3
<1>5. c \in cs => Header(left, c) = {}
  BY <1>2, <1>4 DEF Header, Named
<1>6. ASSUME c \notin cs PROVE Header(left, c) = Header(headers, c)
  <2>1. Named(left, c) = Named(headers, c) /\ Named(left, c) \subseteq kept
    BY <1>2, <1>4, <1>6 DEF Named
  <2> QED BY <1>4, <2>1 DEF Header
<1> QED BY <1>1, <1>2, <1>3, <1>5, <1>6 DEF Inherited

LEMMA SourcesAre ==
  ASSUME NEW ov, NEW template, NEW c
  PROVE  MostSpecific(HeaderSources(ov, template), c) =
           First(Header(setup.overlay.headers, c), First(Header(setup.auto.headers, c),
             First(Header(credentialHeader(OverAuth(auth, ov.auth)), c), First(Header(ov.headers, c),
               First(Header(template, c), First(Header(Inherited(setup.planHeaders, ov), c),
                 Header(Inherited(env.headers, ov), c)))))))
<1>1. PICK q : q = HeaderSources(ov, template)
  OBVIOUS
<1>2. q = <<setup.overlay.headers, setup.auto.headers, credentialHeader(OverAuth(auth, ov.auth)),
            ov.headers, template, Inherited(setup.planHeaders, ov), Inherited(env.headers, ov)>>
  BY <1>1 DEF HeaderSources, Inherited, Credentials
<1>3. /\ DOMAIN q = 1..7 /\ q[1] = setup.overlay.headers /\ q[2] = setup.auto.headers
      /\ q[3] = credentialHeader(OverAuth(auth, ov.auth)) /\ q[4] = ov.headers /\ q[5] = template
      /\ q[6] = Inherited(setup.planHeaders, ov) /\ q[7] = Inherited(env.headers, ov)
  BY <1>2
<1> QED BY <1>1, <1>3, MostSpecificIs

-----------------------------------------------------------------------------
(* A route whose requests carry what an override, the run and their template
   say. *)
CarriesWhatIsSaid(route, ov) ==
  \A template \in Templates :
    LET headers == withHeaders(withHeaders(route.headers, template), route.protected)
    IN  /\ Single(headers)
        /\ \A c \in Range(Canonical) :
             LET said == MostSpecific(HeaderSources(ov, template), c)
             IN  Header(headers, c) \subseteq said /\ (said # {} => Header(headers, c) # {})

ConfiguredBy(headers) == headers \in Winners(env.headers) /\ base = BuildAPIConfig(headers, auth, setup)
SinglesAreSet ==
  /\ Single(setup.planHeaders) /\ Single(setup.auto.headers) /\ Single(setup.overlay.headers)
  /\ \A template \in Templates : Single(template)

LEMMA DefaultCarries ==
  ASSUME SinglesAreSet, NEW winners, ConfiguredBy(winners)
  PROVE  CarriesWhatIsSaid(base, NoOverride) /\ base.url = env.url
<1>1. Single(winners)
  BY WinnersAre DEF ConfiguredBy
<1>2. PICK f, p, o :
        /\ base = RouteOf(env.url, f, p, o)
        /\ Single(f) /\ Single(p) /\ Single(o)
        /\ \A c : /\ Header(o, c) = First(Header(setup.overlay.headers, c), Header(setup.auto.headers, c))
                 /\ Header(p, c) = First(Header(o, c), Header(credentialHeader(auth), c))
                 /\ Header(f, c) = First(Header(p, c), First(Header(setup.planHeaders, c), Header(winners, c)))
  BY <1>1, DefaultRouteIs DEF ConfiguredBy, SinglesAreSet
<1>3. base.url = env.url /\ base.headers = f /\ base.protected = p
  BY <1>2 DEF RouteOf
<1>4. /\ NoOverride.auth.type = "unset" /\ NoOverride.headers = <<>>
      /\ OverAuth(auth, NoOverride.auth) = auth
  BY DEF NoOverride, NoAuth, OverAuth
<1>5. ASSUME NEW template \in Templates
      PROVE  /\ Single(withHeaders(withHeaders(f, template), p))
             /\ \A c : LET said == MostSpecific(HeaderSources(NoOverride, template), c)
                            has == Header(withHeaders(withHeaders(f, template), p), c)
                        IN  has \subseteq said /\ (said # {} => has # {})
  <2>1. Single(withHeaders(f, template))
    BY <1>2, HeadersAreSet DEF SinglesAreSet
  <2>2. Single(withHeaders(withHeaders(f, template), p))
    BY <1>2, <2>1, HeadersAreSet
  <2>3. ASSUME NEW c
        PROVE  LET said == MostSpecific(HeaderSources(NoOverride, template), c)
                   has == Header(withHeaders(withHeaders(f, template), p), c)
               IN  has \subseteq said /\ (said # {} => has # {})
    <3>1. Header(withHeaders(withHeaders(f, template), p), c) =
            First(Header(p, c), First(Header(template, c), Header(f, c)))
      BY HeadersAreSet
    <3>2. /\ Header(Inherited(setup.planHeaders, NoOverride), c) = Header(setup.planHeaders, c)
          /\ Header(Inherited(env.headers, NoOverride), c) = Header(env.headers, c)
      BY <1>4, InheritedIs
    <3>3. MostSpecific(HeaderSources(NoOverride, template), c) =
            First(Header(setup.overlay.headers, c), First(Header(setup.auto.headers, c),
              First(Header(credentialHeader(auth), c), First({}, First(Header(template, c),
                First(Header(setup.planHeaders, c), Header(env.headers, c)))))))
      BY <1>4, <3>2, SourcesAre, NoHeaders
    <3>4. /\ Header(winners, c) \subseteq Header(env.headers, c)
          /\ Header(env.headers, c) # {} => Header(winners, c) # {}
      BY WinnersAre DEF ConfiguredBy
    <3>5. /\ Header(o, c) = First(Header(setup.overlay.headers, c), Header(setup.auto.headers, c))
          /\ Header(p, c) = First(Header(o, c), Header(credentialHeader(auth), c))
          /\ Header(f, c) = First(Header(p, c), First(Header(setup.planHeaders, c), Header(winners, c)))
      BY <1>2
    <3> QED BY <3>1, <3>3, <3>4, <3>5 DEF First
  <2> QED BY <2>2, <2>3
<1> QED BY <1>3, <1>5 DEF CarriesWhatIsSaid

LEMMA OverrideCarries ==
  ASSUME SinglesAreSet, NEW winners, ConfiguredBy(winners), NEW ov, Single(ov.headers)
  PROVE  CarriesWhatIsSaid(overrideRoute(ov), ov) /\ overrideRoute(ov).url = Over(env.url, ov.url)
<1>1. Single(winners)
  BY WinnersAre DEF ConfiguredBy
<1>2. PICK f, p, o :
        /\ base = RouteOf(env.url, f, p, o)
        /\ Single(f) /\ Single(p) /\ Single(o)
        /\ \A c : /\ Header(o, c) = First(Header(setup.overlay.headers, c), Header(setup.auto.headers, c))
                 /\ Header(p, c) = First(Header(o, c), Header(credentialHeader(auth), c))
                 /\ Header(f, c) = First(Header(p, c), First(Header(setup.planHeaders, c), Header(winners, c)))
  BY <1>1, DefaultRouteIs DEF ConfiguredBy, SinglesAreSet
<1>3. base.headers = f /\ base.overlay = o
  BY <1>2 DEF RouteOf
<1>4. PICK mine : mine = credentialHeader(OverAuth(auth, ov.auth))
  OBVIOUS
<1>5. PICK bearerless : bearerless = deleteHeader(f, "Authorization")
  OBVIOUS
<1>6. PICK bare : bare = IF auth.type = "apikey" THEN deleteHeader(bearerless, auth.header) ELSE bearerless
  OBVIOUS
<1>7. PICK from : from = IF ov.auth.type = "unset" THEN f ELSE bare
  OBVIOUS
<1>8. PICK f1 : f1 = withHeaders(withHeaders(from, ov.headers), mine)
  OBVIOUS
<1>9. PICK p1 : p1 = withHeaders(withHeaders(<<>>, ov.headers), mine)
  OBVIOUS
<1>10. PICK f2 : f2 = withHeaders(f1, o)
  OBVIOUS
<1>11. PICK p2 : p2 = withHeaders(p1, o)
  OBVIOUS
<1>12. overrideRoute(ov) = RouteOf(Over(env.url, ov.url), f2, p2, withHeaders(<<>>, o))
  <2>1. PICK url : url = Over(env.url, ov.url)
    OBVIOUS
  <2>2. PICK plain : plain = RouteOf(url, from, <<>>, <<>>)
    OBVIOUS
  <2>3. overrideRoute(ov) =
          AddOverlayHeaders(addProtected(addProtected(plain, ov.headers), mine), o)
    BY <1>3, <1>4, <1>5, <1>6, <1>7, <2>1, <2>2 DEF overrideRoute, RouteOf
  <2>4. addProtected(addProtected(plain, ov.headers), mine) = RouteOf(url, f1, p1, <<>>)
    BY <1>8, <1>9, <2>2, ProtectedIs
  <2>5. AddOverlayHeaders(RouteOf(url, f1, p1, <<>>), o) = RouteOf(url, f2, p2, withHeaders(<<>>, o))
    BY <1>10, <1>11, OverlaidIs
  <2> QED BY <2>1, <2>3, <2>4, <2>5
<1>13. /\ overrideRoute(ov).url = Over(env.url, ov.url)
       /\ overrideRoute(ov).headers = f2 /\ overrideRoute(ov).protected = p2
  BY <1>12 DEF RouteOf
<1>14. Single(mine) /\ Single(from)
  <2>1. Single(bare)
    BY <1>2, <1>5, <1>6, HeadersAreDeleted
  <2> QED BY <1>2, <1>4, <1>7, <2>1, CredentialIs
<1>15. Single(f2) /\ Single(p2)
  <2>1. Single(withHeaders(from, ov.headers)) /\ Single(withHeaders(<<>>, ov.headers))
    BY <1>14, HeadersAreSet, NoHeaders
  <2>2. Single(f1) /\ Single(p1)
    BY <1>8, <1>9, <1>14, <2>1, HeadersAreSet
  <2> QED BY <1>2, <1>10, <1>11, <2>2, HeadersAreSet
<1>16. ASSUME NEW template \in Templates
       PROVE  /\ Single(withHeaders(withHeaders(f2, template), p2))
              /\ \A c : LET said == MostSpecific(HeaderSources(ov, template), c)
                             has == Header(withHeaders(withHeaders(f2, template), p2), c)
                         IN  has \subseteq said /\ (said # {} => has # {})
  <2>1. Single(withHeaders(f2, template))
    BY <1>15, HeadersAreSet DEF SinglesAreSet
  <2>2. Single(withHeaders(withHeaders(f2, template), p2))
    BY <1>15, <2>1, HeadersAreSet
  <2>3. ASSUME NEW c
        PROVE  LET said == MostSpecific(HeaderSources(ov, template), c)
                   has == Header(withHeaders(withHeaders(f2, template), p2), c)
               IN  has \subseteq said /\ (said # {} => has # {})
    <3>1. Header(withHeaders(withHeaders(f2, template), p2), c) =
            First(Header(p2, c), First(Header(template, c), Header(f2, c)))
      BY HeadersAreSet
    <3>2. Header(p2, c) = First(Header(o, c), First(Header(mine, c), First(Header(ov.headers, c), {})))
      BY <1>9, <1>11, HeadersAreSet, NoHeaders
    <3>3. Header(f2, c) = First(Header(o, c), First(Header(mine, c), First(Header(ov.headers, c), Header(from, c))))
      BY <1>8, <1>10, HeadersAreSet
    <3>4. MostSpecific(HeaderSources(ov, template), c) =
            First(Header(setup.overlay.headers, c), First(Header(setup.auto.headers, c),
              First(Header(mine, c), First(Header(ov.headers, c), First(Header(template, c),
                First(Header(Inherited(setup.planHeaders, ov), c), Header(Inherited(env.headers, ov), c)))))))
      BY <1>4, SourcesAre
    <3>5. /\ Header(winners, c) \subseteq Header(env.headers, c)
          /\ Header(env.headers, c) # {} => Header(winners, c) # {}
      BY WinnersAre DEF ConfiguredBy
    <3>6. /\ Header(o, c) = First(Header(setup.overlay.headers, c), Header(setup.auto.headers, c))
          /\ Header(p, c) = First(Header(o, c), Header(credentialHeader(auth), c))
          /\ Header(f, c) = First(Header(p, c), First(Header(setup.planHeaders, c), Header(winners, c)))
      BY <1>2
    <3>7. CASE ov.auth.type = "unset"
      <4>1. mine = credentialHeader(auth) /\ from = f
        BY <1>4, <1>7, <3>7 DEF OverAuth
      <4>2. /\ Header(Inherited(setup.planHeaders, ov), c) = Header(setup.planHeaders, c)
            /\ Header(Inherited(env.headers, ov), c) = Header(env.headers, c)
        BY <3>7, InheritedIs
      <4> QED BY <3>1, <3>2, <3>3, <3>4, <3>5, <3>6, <4>1, <4>2 DEF First
    <3>8. CASE ov.auth.type # "unset" /\ c \in Credentials
      <4>1. Header(from, c) = {}
        BY <1>5, <1>6, <1>7, <3>8, HeadersAreDeleted DEF Credentials
      <4>2. /\ Header(Inherited(setup.planHeaders, ov), c) = {}
            /\ Header(Inherited(env.headers, ov), c) = {}
        BY <3>8, InheritedIs
      <4> QED BY <3>1, <3>2, <3>3, <3>4, <3>6, <4>1, <4>2 DEF First
    <3>9. CASE ov.auth.type # "unset" /\ c \notin Credentials
      <4>1. Header(from, c) = Header(f, c)
        BY <1>5, <1>6, <1>7, <3>9, HeadersAreDeleted DEF Credentials
      <4>2. /\ Header(Inherited(setup.planHeaders, ov), c) = Header(setup.planHeaders, c)
            /\ Header(Inherited(env.headers, ov), c) = Header(env.headers, c)
        BY <3>9, InheritedIs
      <4>3. Header(credentialHeader(auth), c) = {}
        BY <3>9, CredentialIs DEF Credentials
      <4> QED BY <3>1, <3>2, <3>3, <3>4, <3>5, <3>6, <4>1, <4>2, <4>3 DEF First
    <3> QED BY <3>7, <3>8, <3>9
  <2> QED BY <2>2, <2>3
<1> QED BY <1>13, <1>16 DEF CarriesWhatIsSaid

-----------------------------------------------------------------------------
(* The entries of some patterns, and the last of them. *)
EntriesFor(entries, patterns) == {i \in DOMAIN entries : entries[i].pattern \in patterns}
LastFor(entries, patterns, else) ==
  IF EntriesFor(entries, patterns) = {} THEN else ELSE entries[Max(EntriesFor(entries, patterns))]

LEMMA LastIsAppended ==
  ASSUME NEW S, NEW entries \in Seq(S), NEW entry, NEW patterns
  PROVE  LET longer == Append(entries, entry)
         IN  /\ \A else : LastFor(longer, patterns, else) =
                            IF entry.pattern \in patterns THEN entry ELSE LastFor(entries, patterns, else)
             /\ EntriesFor(longer, patterns) # {} <=>
                  entry.pattern \in patterns \/ EntriesFor(entries, patterns) # {}
<1>1. PICK longer : longer = Append(entries, entry)
  OBVIOUS
<1>2. PICK n \in Nat : n = Len(entries) /\ DOMAIN entries = 1..n
  OBVIOUS
<1>3. entries \in Seq(S \cup {entry})
  OBVIOUS
<1>4. /\ DOMAIN longer = 1..(n + 1) /\ longer[n + 1] = entry
      /\ \A i \in 1..n : longer[i] = entries[i]
  BY <1>1, <1>2, <1>3
<1>5. PICK old : old = EntriesFor(entries, patterns)
  OBVIOUS
<1>6. PICK new : new = EntriesFor(longer, patterns)
  OBVIOUS
<1>7. old \in SUBSET (1..n)
  BY <1>2, <1>5 DEF EntriesFor
<1>8. CASE entry.pattern \in patterns
  <2>1. n + 1 \in new /\ new \in SUBSET (1..(n + 1))
    BY <1>4, <1>6, <1>8 DEF EntriesFor
  <2>2. Max(new) = n + 1
    <3>1. new \in SUBSET Nat /\ \A k \in new : k <= n + 1
      BY <2>1
    <3> QED BY <2>1, <3>1, MaxIs
  <2> QED BY <1>1, <1>4, <1>6, <1>8, <2>1, <2>2 DEF LastFor
<1>9. CASE entry.pattern \notin patterns
  <2>1. new = old
    BY <1>2, <1>4, <1>5, <1>6, <1>9 DEF EntriesFor
  <2>2. old # {} => Max(old) \in 1..n
    BY <1>7, MaxIsGreatest
  <2> QED BY <1>1, <1>4, <1>5, <1>6, <1>9, <2>1, <2>2 DEF LastFor
<1> QED BY <1>8, <1>9

LEMMA OneIsLast ==
  ASSUME NEW entries, NEW patterns, EntriesFor(entries, patterns) # {}
  PROVE  \A x, y : LastFor(entries, patterns, x) = LastFor(entries, patterns, y)
BY DEF LastFor

GlobsOf(node) == {q \in DOMAIN Globs : node \in Globs[q]}

LEMMA ResolveIs ==
  ASSUME NEW entries, NEW node
  PROVE  Resolve(entries, node) = LastFor(entries, {node}, LastFor(entries, GlobsOf(node), Default))
<1>1. {i \in DOMAIN entries : entries[i].pattern = node} = EntriesFor(entries, {node})
  BY DEF EntriesFor
<1>2. {i \in DOMAIN entries : MatchesGlob(entries[i].pattern, node)} = EntriesFor(entries, GlobsOf(node))
  BY DEF EntriesFor, MatchesGlob, isGlob, GlobsOf
<1> QED BY <1>1, <1>2 DEF Resolve, LastFor

LEMMA InheritedRouteIs ==
  ASSUME NEW entries, NEW pattern
  PROVE  inheritedRoute(entries, pattern) =
           IF pattern \in DOMAIN Globs THEN LastFor(entries, {pattern}, Default) ELSE Resolve(entries, pattern)
<1>1. {i \in DOMAIN entries : entries[i].pattern = pattern} = EntriesFor(entries, {pattern})
  BY DEF EntriesFor
<1> QED BY <1>1 DEF inheritedRoute, LastFor, isGlob

-----------------------------------------------------------------------------
(* An entry of an override, with the flags that took it elsewhere. *)
EntrySays(entry, ov, flags) ==
  /\ entry.route = RouteOf(entry.route.url, entry.route.headers, entry.route.protected, entry.route.overlay)
  /\ CarriesWhatIsSaid(entry.route, ov)
  /\ entry.route.url = IF flags # {} THEN setup.flags[Max(flags)].url ELSE Over(env.url, ov.url)
  /\ entry.rewrite = IF \E k \in flags : setup.flags[k].url \in GRPC THEN None ELSE ov.rewrite

(* What an entry says stays as it is while the run is configured. *)
LEMMA SayingStays ==
  ASSUME UNCHANGED <<setup, env, auth>>
  PROVE  \A entry, ov, flags : EntrySays(entry, ov, flags)' <=> EntrySays(entry, ov, flags)
<1>1. \A ov, template : HeaderSources(ov, template)' = HeaderSources(ov, template)
  BY DEF HeaderSources
<1>2. \A route, ov : CarriesWhatIsSaid(route, ov)' <=> CarriesWhatIsSaid(route, ov)
  BY <1>1 DEF CarriesWhatIsSaid
<1> QED BY <1>2 DEF EntrySays

LEMMA OverrideIsARoute ==
  ASSUME NEW ov
  PROVE  \E u, f, p, o : overrideRoute(ov) = RouteOf(u, f, p, o)
<1>1. PICK mine : mine = credentialHeader(OverAuth(auth, ov.auth))
  OBVIOUS
<1>2. PICK u, f : overrideRoute(ov) =
        AddOverlayHeaders(addProtected(addProtected(RouteOf(u, f, <<>>, <<>>), ov.headers), mine), base.overlay)
  BY <1>1 DEF overrideRoute, RouteOf
<1> QED BY <1>2, ProtectedIs, OverlaidIs

LEMMA FlagIsAdded ==
  ASSUME NEW m \in Nat, NEW flags \in SUBSET (1..m), NEW ov, NEW from, EntrySays(from, ov, flags), NEW pattern
  PROVE  LET flag == setup.flags[m + 1]
         IN  EntrySays(Entry(pattern, [from.route EXCEPT !.url = flag.url],
                             IF flag.url \in GRPC THEN None ELSE from.rewrite), ov, flags \cup {m + 1})
<1>1. PICK flag : flag = setup.flags[m + 1]
  OBVIOUS
<1>2. PICK f, p, o, u : from.route = RouteOf(u, f, p, o)
  BY DEF EntrySays
<1>3. PICK route : route = [from.route EXCEPT !.url = flag.url]
  OBVIOUS
<1>4. route = RouteOf(flag.url, f, p, o)
  BY <1>2, <1>3 DEF RouteOf
<1>5. /\ route.url = flag.url /\ route.headers = f /\ route.protected = p /\ route.overlay = o
      /\ from.route.headers = f /\ from.route.protected = p
  BY <1>2, <1>4 DEF RouteOf
<1>6. CarriesWhatIsSaid(route, ov)
  BY <1>5 DEF EntrySays, CarriesWhatIsSaid
<1>7. Max(flags \cup {m + 1}) = m + 1
  <2>1. flags \cup {m + 1} \in SUBSET Nat /\ \A k \in flags \cup {m + 1} : k <= m + 1
    OBVIOUS
  <2> QED BY <2>1, MaxIs
<1>8. PICK rewrite : rewrite = IF flag.url \in GRPC THEN None ELSE from.rewrite
  OBVIOUS
<1>9. rewrite = IF \E k \in flags \cup {m + 1} : setup.flags[k].url \in GRPC THEN None ELSE ov.rewrite
  BY <1>1, <1>8 DEF EntrySays
<1>10. PICK entry : entry = Entry(pattern, route, rewrite)
  OBVIOUS
<1>11. entry.route = route /\ entry.rewrite = rewrite
  BY <1>10 DEF Entry
<1>12. EntrySays(entry, ov, flags \cup {m + 1})
  BY <1>1, <1>4, <1>5, <1>6, <1>7, <1>9, <1>11 DEF EntrySays
<1> QED BY <1>1, <1>3, <1>8, <1>10, <1>12

-----------------------------------------------------------------------------
(* The overrides up to the n-th are registered, with the last of each set of
   patterns before the others. *)
RoutingFor(n, patterns) == {i \in 1..n : Registered[i].match \in patterns /\ IsRoute(Registered[i])}
RoutedFor(n, patterns) ==
  LET at == RoutingFor(n, patterns)
  IN  /\ EntriesFor(routes, patterns) # {} <=> at # {}
      /\ at # {} => \A else : EntrySays(LastFor(routes, patterns, else), Registered[Max(at)], {})
RoutedTo(n) == n \in 0..Len(Registered) /\ \A patterns : RoutedFor(n, patterns)

FlagsLeft(m) ==
  /\ m \in 0..Len(setup.flags)
  /\ queue \in Seq(Range(setup.flags)) /\ Len(queue) = Len(setup.flags) - m
  /\ \A i \in 1..Len(queue) : queue[i] = setup.flags[m + i]

(* What NamedFlags, GlobFlags, OverrideOf and FlagsOf are after the first m
   flags. *)
NamedTo(m, node) == {k \in 1..m : setup.flags[k].pattern = node}
GlobTo(m, node) ==
  {k \in 1..m : MatchesGlob(setup.flags[k].pattern, node) /\ \A n \in NamedTo(m, node) : k < n}
ByGlobTo(m, node) == Routing(node) = {} /\ GlobTo(m, node) # {}
LastGlobTo(m, node) == setup.flags[Max(GlobTo(m, node))].pattern
OverrideTo(m, node) ==
  IF Routing(node) # {} THEN LastOrNone(Routing(node))
  ELSE IF ByGlobTo(m, node) THEN LastOrNone(Routing(LastGlobTo(m, node)))
  ELSE LastOrNone(RoutingGlobs(node))
FlagsTo(m, node) ==
  NamedTo(m, node) \cup
  {k \in GlobTo(m, node) : ByGlobTo(m, node) /\ setup.flags[k].pattern = LastGlobTo(m, node)}

FlaggedTo(m) ==
  /\ m \in 0..Len(setup.flags)
  /\ \A node \in Nodes :
       /\ EntriesFor(routes, {node}) # {} <=> Routing(node) # {} \/ NamedTo(m, node) # {}
       /\ EntrySays(Resolve(routes, node), OverrideTo(m, node), FlagsTo(m, node))
  /\ \A pattern \in DOMAIN Globs :
       EntrySays(LastFor(routes, {pattern}, Default), LastOrNone(Routing(pattern)), NamedTo(m, pattern))

HeadersAreSingle == SinglesAreSet /\ \A i \in DOMAIN Registered : Single(Registered[i].headers)

RouterInv ==
  /\ phase \in {"load", "route"} => routes = <<>>
  /\ phase \in {"route", "register", "flags", "ready"} => HeadersAreSingle
  /\ phase \in {"register", "flags", "ready"} =>
       routes \in Seq(Range(routes)) /\ \E winners : ConfiguredBy(winners)
  /\ phase = "register" => RoutedTo(Len(Registered) - Len(queue))
  /\ phase = "flags" => \E m : FlagsLeft(m) /\ FlaggedTo(m)
  /\ phase = "ready" => FlaggedTo(Len(setup.flags))

LEMMA OverridesAreRegistered ==
  ASSUME NEW n \in Nat, n + 1 \in 1..Len(Registered), Listed, HeadersAreSingle,
         NEW winners, ConfiguredBy(winners), RoutedTo(n), routes \in Seq(Range(routes)),
         UNCHANGED <<setup, env, auth, base>>,
         routes' = LET ov == Registered[n + 1]
                   IN  IF IsRoute(ov) THEN Append(routes, Entry(ov.match, overrideRoute(ov), ov.rewrite))
                       ELSE routes
  PROVE  RoutedTo(n + 1)' /\ (routes \in Seq(Range(routes)))'
<1>1. PICK ov : ov = Registered[n + 1]
  OBVIOUS
<1>2. Single(ov.headers)
  BY <1>1 DEF HeadersAreSingle, Listed
<1>3. PICK entry : entry = Entry(ov.match, overrideRoute(ov), ov.rewrite)
  OBVIOUS
<1>4. entry.pattern = ov.match /\ entry.route = overrideRoute(ov) /\ entry.rewrite = ov.rewrite
  BY <1>3 DEF Entry
<1>5. EntrySays(entry, ov, {})
  <2>1. CarriesWhatIsSaid(overrideRoute(ov), ov) /\ overrideRoute(ov).url = Over(env.url, ov.url)
    BY <1>2, OverrideCarries DEF HeadersAreSingle
  <2>2. PICK u, f, p, o : overrideRoute(ov) = RouteOf(u, f, p, o)
    BY OverrideIsARoute
  <2>3. overrideRoute(ov) = RouteOf(overrideRoute(ov).url, overrideRoute(ov).headers,
                                    overrideRoute(ov).protected, overrideRoute(ov).overlay)
    BY <2>2 DEF RouteOf
  <2> QED BY <1>4, <2>1, <2>3 DEF EntrySays
<1>6. Registered' = Registered
  BY DEF Registered
<1>7. \A e, o, flags : EntrySays(e, o, flags)' <=> EntrySays(e, o, flags)
  BY SayingStays
<1>8. ASSUME NEW patterns PROVE RoutedFor(n + 1, patterns)'
  <2>1. PICK old : old = RoutingFor(n, patterns)
    OBVIOUS
  <2>2. PICK new : new = RoutingFor(n + 1, patterns)
    OBVIOUS
  <2>3. RoutingFor(n + 1, patterns)' = new
    BY <1>6, <2>2 DEF RoutingFor, IsRoute
  <2>4. /\ EntriesFor(routes, patterns) # {} <=> old # {}
        /\ old # {} => \A else : EntrySays(LastFor(routes, patterns, else), Registered[Max(old)], {})
    BY <2>1 DEF RoutedTo, RoutedFor
  <2> SUFFICES /\ EntriesFor(routes', patterns) # {} <=> new # {}
               /\ new # {} => \A else : EntrySays(LastFor(routes', patterns, else), Registered[Max(new)], {})
    BY <1>6, <1>7, <2>3 DEF RoutedFor
  <2>5. CASE ~IsRoute(ov)
    <3>1. new = old
      BY <1>1, <2>1, <2>2, <2>5 DEF RoutingFor
    <3> QED BY <1>1, <2>3, <2>4, <2>5, <3>1
  <2>6. CASE IsRoute(ov) /\ ov.match \notin patterns
    <3>1. new = old
      BY <1>1, <2>1, <2>2, <2>6 DEF RoutingFor
    <3>2. routes' = Append(routes, entry)
      BY <1>1, <1>3, <2>6
    <3>3. \A else : LastFor(routes', patterns, else) = LastFor(routes, patterns, else)
      BY <1>4, <2>6, <3>2, LastIsAppended
    <3>4. EntriesFor(routes', patterns) # {} <=> EntriesFor(routes, patterns) # {}
      BY <1>4, <2>6, <3>2, LastIsAppended
    <3> QED BY <2>3, <2>4, <3>1, <3>3, <3>4
  <2>7. CASE IsRoute(ov) /\ ov.match \in patterns
    <3>1. n + 1 \in new /\ \A k \in new : k <= n + 1
      BY <1>1, <2>2, <2>7 DEF RoutingFor
    <3>2. Max(new) = n + 1
      <4>1. new \in SUBSET Nat
        BY <2>2 DEF RoutingFor
      <4> QED BY <3>1, <4>1, MaxIs
    <3>3. routes' = Append(routes, entry)
      BY <1>1, <1>3, <2>7
    <3>4. \A else : LastFor(routes', patterns, else) = entry
      BY <1>4, <2>7, <3>3, LastIsAppended
    <3>5. EntriesFor(routes', patterns) # {}
      BY <1>4, <2>7, <3>3, LastIsAppended
    <3> QED BY <1>1, <1>5, <2>3, <3>1, <3>2, <3>4, <3>5
  <2> QED BY <2>5, <2>6, <2>7
<1>9. RoutedTo(n + 1)'
  BY <1>6, <1>8 DEF RoutedTo, Listed
<1>10. (routes \in Seq(Range(routes)))'
  <2>1. \/ routes' = routes
        \/ routes' = Append(routes, entry)
    BY <1>1, <1>3
  <2>2. routes' \in Seq(Range(routes) \cup {entry})
    BY <2>1
  <2> QED BY <2>2, RangesAreTheirs
<1> QED BY <1>9, <1>10

(* What the flags say of a node, with one more of them. *)
LEMMA NamedAreMore ==
  ASSUME NEW m \in Nat, NEW pattern
  PROVE  /\ setup.flags[m + 1].pattern = pattern => NamedTo(m + 1, pattern) = NamedTo(m, pattern) \cup {m + 1}
         /\ setup.flags[m + 1].pattern # pattern => NamedTo(m + 1, pattern) = NamedTo(m, pattern)
<1>1. 1..(m + 1) = 1..m \cup {m + 1}
  OBVIOUS
<1> QED BY <1>1 DEF NamedTo

LEMMA FlagsAreMore ==
  ASSUME NEW m \in Nat, NEW node, ~isGlob(node), NEW q, q = setup.flags[m + 1].pattern
  PROVE  /\ NamedTo(m + 1, node) = NamedTo(m, node) \cup (IF q = node THEN {m + 1} ELSE {})
         /\ q \in GlobsOf(node) /\ NamedTo(m, node) = {} => GlobTo(m + 1, node) = GlobTo(m, node) \cup {m + 1}
         /\ ~(q \in GlobsOf(node) /\ NamedTo(m, node) = {}) => GlobTo(m + 1, node) = GlobTo(m, node)
         /\ GlobTo(m, node) \in SUBSET (1..m) /\ NamedTo(m, node) \in SUBSET (1..m)
<1>1. NamedTo(m + 1, node) = NamedTo(m, node) \cup (IF q = node THEN {m + 1} ELSE {})
  BY NamedAreMore
<1>2. MatchesGlob(q, node) <=> q \in GlobsOf(node)
  BY DEF MatchesGlob, isGlob, GlobsOf
<1>3. q \in GlobsOf(node) => q # node
  BY DEF isGlob, GlobsOf
<1>4. PICK names : names = NamedTo(m, node)
  OBVIOUS
<1>5. PICK later : later = NamedTo(m + 1, node)
  OBVIOUS
<1>6. names \in SUBSET (1..m)
  BY <1>4 DEF NamedTo
<1>7. later = names \cup (IF q = node THEN {m + 1} ELSE {})
  BY <1>1, <1>4, <1>5
<1>8. GlobTo(m, node) = {k \in 1..m : MatchesGlob(setup.flags[k].pattern, node) /\ \A n \in names : k < n}
  BY <1>4 DEF GlobTo
<1>9. GlobTo(m + 1, node) = {k \in 1..(m + 1) : MatchesGlob(setup.flags[k].pattern, node) /\ \A n \in later : k < n}
  BY <1>5 DEF GlobTo
<1>10. CASE q \in GlobsOf(node) /\ names = {}
  <2>1. later = {}
    BY <1>3, <1>7, <1>10
  <2> QED BY <1>1, <1>2, <1>4, <1>6, <1>8, <1>9, <1>10, <2>1
<1>11. CASE q \in GlobsOf(node) /\ names # {}
  <2>1. later = names
    BY <1>3, <1>7, <1>11
  <2>2. PICK n \in names : TRUE
    BY <1>11
  <2>3. ~(m + 1 < n)
    BY <1>6, <2>2
  <2> QED BY <1>1, <1>4, <1>6, <1>8, <1>9, <1>11, <2>1, <2>3
<1>12. CASE q \notin GlobsOf(node)
  <2>1. ~MatchesGlob(setup.flags[m + 1].pattern, node)
    BY <1>2, <1>12
  <2>2. \A k \in 1..m : (\A n \in later : k < n) <=> (\A n \in names : k < n)
    BY <1>7
  <2> QED BY <1>1, <1>4, <1>6, <1>8, <1>9, <1>12, <2>1, <2>2
<1> QED BY <1>4, <1>10, <1>11, <1>12

LEMMA NodesStay ==
  ASSUME NEW m, UNCHANGED <<setup, env, auth, base>>
  PROVE  /\ Default' = Default
         /\ \A node : /\ Routing(node)' = Routing(node)
                      /\ NamedTo(m, node)' = NamedTo(m, node)
                      /\ OverrideTo(m, node)' = OverrideTo(m, node)
                      /\ FlagsTo(m, node)' = FlagsTo(m, node)
                      /\ LastOrNone(Routing(node))' = LastOrNone(Routing(node))
<1>1. Registered' = Registered
  BY DEF Registered
<1>2. \A node : /\ Routing(node)' = Routing(node) /\ RoutingGlobs(node)' = RoutingGlobs(node)
               /\ LastOrNone(Routing(node))' = LastOrNone(Routing(node))
               /\ LastOrNone(RoutingGlobs(node))' = LastOrNone(RoutingGlobs(node))
  BY <1>1 DEF Routing, RoutingGlobs, LastOrNone
<1>3. \A node : NamedTo(m, node)' = NamedTo(m, node) /\ GlobTo(m, node)' = GlobTo(m, node)
  BY DEF NamedTo, GlobTo
<1>4. \A node : ByGlobTo(m, node)' = ByGlobTo(m, node) /\ LastGlobTo(m, node)' = LastGlobTo(m, node)
  BY <1>2, <1>3 DEF ByGlobTo, LastGlobTo
<1>5. \A node : OverrideTo(m, node)' = OverrideTo(m, node) /\ FlagsTo(m, node)' = FlagsTo(m, node)
  BY <1>2, <1>3, <1>4 DEF OverrideTo, FlagsTo
<1> QED BY <1>2, <1>3, <1>5 DEF Default

LEMMA FlagsAreRegistered ==
  ASSUME NEW m \in Nat, setup.flags \in Seq(Range(setup.flags)), m + 1 \in 1..Len(setup.flags),
         FlaggedTo(m), routes \in Seq(Range(routes)), UNCHANGED <<setup, env, auth, base>>,
         routes' = LET flag == setup.flags[m + 1]
                       from == inheritedRoute(routes, flag.pattern)
                   IN  Append(routes, Entry(flag.pattern, [from.route EXCEPT !.url = flag.url],
                                            IF flag.url \in GRPC THEN None ELSE from.rewrite))
  PROVE  FlaggedTo(m + 1)' /\ (routes \in Seq(Range(routes)))'
<1>1. PICK flag : flag = setup.flags[m + 1]
  OBVIOUS
<1>2. PICK q : q = flag.pattern
  OBVIOUS
<1>3. PICK from : from = inheritedRoute(routes, q)
  OBVIOUS
<1>4. PICK entry : entry = Entry(q, [from.route EXCEPT !.url = flag.url],
                                 IF flag.url \in GRPC THEN None ELSE from.rewrite)
  OBVIOUS
<1>5. routes' = Append(routes, entry) /\ entry.pattern = q
  BY <1>1, <1>2, <1>3, <1>4 DEF Entry
<1>6. ASSUME NEW flags \in SUBSET (1..m), NEW ov, EntrySays(from, ov, flags)
      PROVE  EntrySays(entry, ov, flags \cup {m + 1})
  BY <1>1, <1>4, <1>6, FlagIsAdded
<1>7. \A e, o, flags : EntrySays(e, o, flags)' <=> EntrySays(e, o, flags)
  BY SayingStays
<1>8. /\ Default' = Default
      /\ \A node : /\ Routing(node)' = Routing(node)
                   /\ NamedTo(m + 1, node)' = NamedTo(m + 1, node)
                   /\ OverrideTo(m + 1, node)' = OverrideTo(m + 1, node)
                   /\ FlagsTo(m + 1, node)' = FlagsTo(m + 1, node)
                   /\ LastOrNone(Routing(node))' = LastOrNone(Routing(node))
  BY NodesStay
<1>9. /\ \A patterns, else : LastFor(routes', patterns, else) =
                               IF q \in patterns THEN entry ELSE LastFor(routes, patterns, else)
      /\ \A patterns : EntriesFor(routes', patterns) # {} <=> q \in patterns \/ EntriesFor(routes, patterns) # {}
  <2>1. PICK S : S = Range(routes)
    OBVIOUS
  <2>2. ASSUME NEW patterns
        PROVE  /\ \A else : LastFor(routes', patterns, else) =
                              IF q \in patterns THEN entry ELSE LastFor(routes, patterns, else)
               /\ EntriesFor(routes', patterns) # {} <=> q \in patterns \/ EntriesFor(routes, patterns) # {}
    BY <1>5, <2>1, LastIsAppended
  <2> QED BY <2>2
<1>10. ASSUME NEW pattern \in DOMAIN Globs
       PROVE  EntrySays(LastFor(routes', {pattern}, Default), LastOrNone(Routing(pattern)), NamedTo(m + 1, pattern))
  <2>1. EntrySays(LastFor(routes, {pattern}, Default), LastOrNone(Routing(pattern)), NamedTo(m, pattern))
    BY DEF FlaggedTo
  <2>2. NamedTo(m, pattern) \in SUBSET (1..m)
    BY DEF NamedTo
  <2>3. CASE q = pattern
    <3>1. from = LastFor(routes, {pattern}, Default)
      BY <1>3, <2>3, InheritedRouteIs
    <3>2. NamedTo(m + 1, pattern) = NamedTo(m, pattern) \cup {m + 1}
      BY <1>1, <1>2, <2>3, NamedAreMore
    <3>3. EntrySays(entry, LastOrNone(Routing(pattern)), NamedTo(m, pattern) \cup {m + 1})
      BY <1>6, <2>1, <2>2, <3>1
    <3> QED BY <1>9, <2>3, <3>2, <3>3
  <2>4. CASE q # pattern
    <3>1. NamedTo(m + 1, pattern) = NamedTo(m, pattern)
      BY <1>1, <1>2, <2>4, NamedAreMore
    <3> QED BY <1>9, <2>1, <2>4, <3>1
  <2> QED BY <2>3, <2>4
<1>11. ASSUME NEW node \in Nodes
       PROVE  /\ EntriesFor(routes', {node}) # {} <=> Routing(node) # {} \/ NamedTo(m + 1, node) # {}
              /\ EntrySays(Resolve(routes', node), OverrideTo(m + 1, node), FlagsTo(m + 1, node))
  <2>1. ~isGlob(node)
    BY HeadersAssumption
  <2>2. /\ NamedTo(m + 1, node) = NamedTo(m, node) \cup (IF q = node THEN {m + 1} ELSE {})
        /\ q \in GlobsOf(node) /\ NamedTo(m, node) = {} => GlobTo(m + 1, node) = GlobTo(m, node) \cup {m + 1}
        /\ ~(q \in GlobsOf(node) /\ NamedTo(m, node) = {}) => GlobTo(m + 1, node) = GlobTo(m, node)
        /\ GlobTo(m, node) \in SUBSET (1..m) /\ NamedTo(m, node) \in SUBSET (1..m)
    BY <1>1, <1>2, <2>1, FlagsAreMore
  <2>3. /\ EntriesFor(routes, {node}) # {} <=> Routing(node) # {} \/ NamedTo(m, node) # {}
        /\ EntrySays(Resolve(routes, node), OverrideTo(m, node), FlagsTo(m, node))
    BY DEF FlaggedTo
  <2>4. EntriesFor(routes', {node}) # {} <=> Routing(node) # {} \/ NamedTo(m + 1, node) # {}
    BY <1>9, <2>2, <2>3
  <2>5. FlagsTo(m, node) \in SUBSET (1..m)
    BY <2>2 DEF FlagsTo
  <2>6. CASE q = node
    <3>1. q \notin GlobsOf(node)
      BY <2>1, <2>6 DEF GlobsOf, isGlob
    <3>2. from = Resolve(routes, node)
      BY <1>3, <2>1, <2>6, InheritedRouteIs DEF isGlob
    <3>3. Resolve(routes', node) = entry
      BY <1>9, <2>6, ResolveIs
    <3>4. OverrideTo(m + 1, node) = OverrideTo(m, node) /\ FlagsTo(m + 1, node) = FlagsTo(m, node) \cup {m + 1}
      BY <2>2, <2>6, <3>1 DEF OverrideTo, FlagsTo, ByGlobTo, LastGlobTo
    <3> QED BY <1>6, <2>3, <2>4, <2>5, <3>2, <3>3, <3>4
  <2>7. CASE q # node /\ (q \notin GlobsOf(node) \/ EntriesFor(routes, {node}) # {})
    <3>1. Resolve(routes', node) = Resolve(routes, node)
      <4>1. PICK x : x = LastFor(routes', GlobsOf(node), Default)
        OBVIOUS
      <4>2. PICK y : y = LastFor(routes, GlobsOf(node), Default)
        OBVIOUS
      <4>3. Resolve(routes', node) = LastFor(routes', {node}, x) /\ Resolve(routes, node) = LastFor(routes, {node}, y)
        BY <4>1, <4>2, ResolveIs
      <4>4. LastFor(routes', {node}, x) = LastFor(routes, {node}, x)
        BY <1>9, <2>7
      <4>5. CASE q \notin GlobsOf(node)
        <5>1. x = y
          BY <1>9, <4>1, <4>2, <4>5
        <5> QED BY <4>3, <4>4, <5>1
      <4>6. CASE EntriesFor(routes, {node}) # {}
        BY <4>3, <4>4, <4>6, OneIsLast
      <4> QED BY <2>7, <4>5, <4>6
    <3>2. NamedTo(m + 1, node) = NamedTo(m, node)
      BY <2>2, <2>7
    <3>3. CASE GlobTo(m + 1, node) = GlobTo(m, node)
      <4>1. OverrideTo(m + 1, node) = OverrideTo(m, node) /\ FlagsTo(m + 1, node) = FlagsTo(m, node)
        BY <3>2, <3>3 DEF OverrideTo, FlagsTo, ByGlobTo, LastGlobTo
      <4> QED BY <2>3, <2>4, <3>1, <4>1
    <3>4. CASE Routing(node) # {}
      <4>1. OverrideTo(m + 1, node) = OverrideTo(m, node) /\ FlagsTo(m + 1, node) = FlagsTo(m, node)
        BY <3>2, <3>4 DEF OverrideTo, FlagsTo, ByGlobTo
      <4> QED BY <2>3, <2>4, <3>1, <4>1
    <3> QED BY <2>2, <2>3, <2>7, <3>3, <3>4
  <2>8. CASE q # node /\ q \in GlobsOf(node) /\ EntriesFor(routes, {node}) = {}
    <3>1. Routing(node) = {} /\ NamedTo(m, node) = {} /\ NamedTo(m + 1, node) = {}
      BY <2>2, <2>3, <2>8
    <3>2. q \in DOMAIN Globs
      BY <2>8 DEF GlobsOf
    <3>3. Resolve(routes', node) = entry
      <4>1. LastFor(routes', GlobsOf(node), Default) = entry
        BY <1>9, <2>8
      <4>2. LastFor(routes', {node}, entry) = LastFor(routes, {node}, entry)
        BY <1>9, <2>8
      <4> QED BY <2>8, <4>1, <4>2, ResolveIs DEF LastFor
    <3>4. from = LastFor(routes, {q}, Default)
      BY <1>3, <3>2, InheritedRouteIs
    <3>5. EntrySays(entry, LastOrNone(Routing(q)), NamedTo(m, q) \cup {m + 1})
      <4>1. EntrySays(from, LastOrNone(Routing(q)), NamedTo(m, q))
        BY <3>2, <3>4 DEF FlaggedTo
      <4>2. NamedTo(m, q) \in SUBSET (1..m)
        BY DEF NamedTo
      <4> QED BY <1>6, <4>1, <4>2
    <3>6. GlobTo(m + 1, node) = GlobTo(m, node) \cup {m + 1}
      BY <2>2, <2>8, <3>1
    <3>7. Max(GlobTo(m + 1, node)) = m + 1
      <4>1. PICK globs : globs = GlobTo(m + 1, node)
        OBVIOUS
      <4>2. globs \in SUBSET Nat /\ m + 1 \in globs /\ \A k \in globs : k <= m + 1
        BY <2>2, <3>6, <4>1
      <4> QED BY <4>1, <4>2, MaxIs
    <3>8. LastGlobTo(m + 1, node) = q /\ ByGlobTo(m + 1, node)
      BY <1>1, <1>2, <3>1, <3>6, <3>7 DEF LastGlobTo, ByGlobTo
    <3>9. OverrideTo(m + 1, node) = LastOrNone(Routing(q))
      BY <3>1, <3>8 DEF OverrideTo
    <3>10. FlagsTo(m + 1, node) = NamedTo(m, q) \cup {m + 1}
      <4>1. GlobTo(m + 1, node) = {k \in 1..(m + 1) : setup.flags[k].pattern \in GlobsOf(node)}
        BY <3>1 DEF GlobTo, MatchesGlob, isGlob, GlobsOf
      <4>2. FlagsTo(m + 1, node) = {k \in 1..(m + 1) : setup.flags[k].pattern = q}
        BY <2>8, <3>1, <3>8, <4>1 DEF FlagsTo
      <4> QED BY <1>1, <1>2, <4>2 DEF NamedTo
    <3> QED BY <2>4, <3>3, <3>5, <3>9, <3>10
  <2> QED BY <2>6, <2>7, <2>8
<1>12. FlaggedTo(m + 1)'
  <2>1. (m + 1 \in 0..Len(setup.flags))'
    OBVIOUS
  <2>2. ASSUME NEW node \in Nodes
        PROVE  /\ EntriesFor(routes, {node})' # {} <=> Routing(node)' # {} \/ NamedTo(m + 1, node)' # {}
               /\ EntrySays(Resolve(routes, node), OverrideTo(m + 1, node), FlagsTo(m + 1, node))'
    <3>1. Resolve(routes, node)' = Resolve(routes', node)
      BY <1>8 DEF Resolve
    <3> QED BY <1>7, <1>8, <1>11, <3>1
  <2>3. ASSUME NEW pattern \in DOMAIN Globs
        PROVE  EntrySays(LastFor(routes, {pattern}, Default), LastOrNone(Routing(pattern)), NamedTo(m + 1, pattern))'
    <3>1. LastFor(routes, {pattern}, Default)' = LastFor(routes', {pattern}, Default)
      BY <1>8 DEF LastFor
    <3> QED BY <1>7, <1>8, <1>10, <3>1
  <2> QED BY <2>1, <2>2, <2>3 DEF FlaggedTo
<1>13. (routes \in Seq(Range(routes)))'
  <2>1. routes' \in Seq(Range(routes) \cup {entry})
    BY <1>5
  <2> QED BY <2>1, RangesAreTheirs
<1> QED BY <1>12, <1>13

(* Flags come after overrides: without a flag, a node has its override's. *)
LEMMA FlagsBegin ==
  ASSUME Listed, HeadersAreSingle, NEW winners, ConfiguredBy(winners), setup.flags \in Seq(Range(setup.flags)),
         RoutedTo(Len(Registered))
  PROVE  FlaggedTo(0)
<1>1. PICK n \in Nat : n = Len(Registered) /\ DOMAIN Registered = 1..n
  BY DEF Listed
<1>2. EntrySays(Default, NoOverride, {})
  <2>1. CarriesWhatIsSaid(base, NoOverride) /\ base.url = env.url
    BY DefaultCarries DEF HeadersAreSingle
  <2>2. PICK f, p, o : base = RouteOf(env.url, f, p, o)
    <3>1. Single(winners)
      BY WinnersAre DEF ConfiguredBy
    <3> QED BY <3>1, DefaultRouteIs DEF ConfiguredBy, HeadersAreSingle, SinglesAreSet
  <2>3. base = RouteOf(base.url, base.headers, base.protected, base.overlay)
    BY <2>2 DEF RouteOf
  <2>4. Default.route = base /\ Default.rewrite = None
    BY DEF Default, Entry
  <2>5. NoOverride.rewrite = None /\ Over(env.url, NoOverride.url) = env.url
    BY DEF NoOverride, Over
  <2> QED BY <2>1, <2>3, <2>4, <2>5 DEF EntrySays
<1>3. /\ \A pattern : Routing(pattern) = RoutingFor(n, {pattern})
      /\ \A node : RoutingGlobs(node) = RoutingFor(n, GlobsOf(node))
  BY <1>1 DEF Routing, RoutingGlobs, RoutingFor, GlobsOf, MatchesGlob, isGlob
<1>4. /\ \A pattern : NamedTo(0, pattern) = {} /\ FlagsTo(0, pattern) = {}
      /\ \A node : OverrideTo(0, node) = IF Routing(node) # {} THEN LastOrNone(Routing(node))
                                        ELSE LastOrNone(RoutingGlobs(node))
  <2>1. 1..0 = {}
    OBVIOUS
  <2> QED BY <2>1 DEF NamedTo, FlagsTo, GlobTo, ByGlobTo, OverrideTo
<1>5. ASSUME NEW patterns
      PROVE  /\ EntriesFor(routes, patterns) # {} <=> RoutingFor(n, patterns) # {}
             /\ EntrySays(LastFor(routes, patterns, Default), LastOrNone(RoutingFor(n, patterns)), {})
  <2>1. RoutedFor(n, patterns)
    BY <1>1 DEF RoutedTo
  <2>2. CASE RoutingFor(n, patterns) = {}
    <3>1. LastFor(routes, patterns, Default) = Default /\ LastOrNone(RoutingFor(n, patterns)) = NoOverride
      BY <2>1, <2>2 DEF LastFor, LastOrNone, RoutedFor
    <3> QED BY <1>2, <2>1, <3>1 DEF RoutedFor
  <2>3. CASE RoutingFor(n, patterns) # {}
    BY <2>1, <2>3 DEF LastOrNone, RoutedFor
  <2> QED BY <2>2, <2>3
<1>6. ASSUME NEW node \in Nodes
      PROVE  /\ EntriesFor(routes, {node}) # {} <=> Routing(node) # {} \/ NamedTo(0, node) # {}
             /\ EntrySays(Resolve(routes, node), OverrideTo(0, node), FlagsTo(0, node))
  <2>1. EntriesFor(routes, {node}) # {} <=> Routing(node) # {}
    BY <1>3, <1>5
  <2>2. Resolve(routes, node) = LastFor(routes, {node}, LastFor(routes, GlobsOf(node), Default))
    BY ResolveIs
  <2>3. CASE Routing(node) # {}
    <3>1. Resolve(routes, node) = LastFor(routes, {node}, Default)
      BY <2>1, <2>2, <2>3 DEF LastFor
    <3> QED BY <1>3, <1>4, <1>5, <2>1, <2>3, <3>1
  <2>4. CASE Routing(node) = {}
    <3>1. Resolve(routes, node) = LastFor(routes, GlobsOf(node), Default)
      BY <2>1, <2>2, <2>4 DEF LastFor
    <3> QED BY <1>3, <1>4, <1>5, <2>1, <2>4, <3>1
  <2> QED BY <2>3, <2>4
<1>7. ASSUME NEW pattern
      PROVE  EntrySays(LastFor(routes, {pattern}, Default), LastOrNone(Routing(pattern)), NamedTo(0, pattern))
  BY <1>3, <1>4, <1>5
<1>8. 0 \in 0..Len(setup.flags)
  OBVIOUS
<1> QED BY <1>6, <1>7, <1>8 DEF FlaggedTo

LEMMA FlaggedIsCarried ==
  ASSUME setup.flags \in Seq(Range(setup.flags)), FlaggedTo(Len(setup.flags))
  PROVE  phase = "ready" => RequestsCarryTheMostSpecific
<1>1. PICK m \in Nat : m = Len(setup.flags) /\ DOMAIN setup.flags = 1..m
  OBVIOUS
<1>2. ASSUME NEW node
      PROVE  OverrideTo(m, node) = OverrideOf(node) /\ FlagsTo(m, node) = FlagsOf(node)
  <2>1. NamedTo(m, node) = NamedFlags(node)
    BY <1>1 DEF NamedTo, NamedFlags
  <2>2. GlobTo(m, node) = GlobFlags(node)
    BY <1>1, <2>1 DEF GlobTo, GlobFlags
  <2>3. LastGlobTo(m, node) = FlagGlob(node) /\ (ByGlobTo(m, node) <=> ByFlagGlob(node))
    BY <2>2 DEF LastGlobTo, FlagGlob, ByGlobTo, ByFlagGlob
  <2> QED BY <2>1, <2>2, <2>3 DEF OverrideTo, OverrideOf, FlagsTo, FlagsOf
<1>3. ASSUME NEW node \in Nodes, NEW template \in Templates
      PROVE  LET request == RequestOf(node, template)
                 ov == OverrideOf(node)
                 flags == FlagsOf(node)
             IN  /\ \A c \in Range(Canonical) :
                      LET said == MostSpecific(HeaderSources(ov, template), c)
                      IN  /\ Header(request.headers, c) \subseteq said
                          /\ said # {} => Header(request.headers, c) # {}
                 /\ Single(request.headers)
                 /\ request.url = IF flags # {} THEN setup.flags[Max(flags)].url ELSE Over(env.url, ov.url)
                 /\ request.rewrite = IF \E k \in flags : setup.flags[k].url \in GRPC THEN None ELSE ov.rewrite
  <2>1. PICK entry : entry = Resolve(routes, node)
    OBVIOUS
  <2>2. EntrySays(entry, OverrideOf(node), FlagsOf(node))
    BY <1>1, <1>2, <2>1 DEF FlaggedTo
  <2>3. PICK headers : headers = withHeaders(withHeaders(entry.route.headers, template), entry.route.protected)
    OBVIOUS
  <2>4. PICK request : request = RequestOf(node, template)
    OBVIOUS
  <2>5. request.url = entry.route.url /\ request.rewrite = entry.rewrite /\ request.headers = headers
    BY <2>1, <2>3, <2>4 DEF RequestOf
  <2> QED BY <2>2, <2>3, <2>4, <2>5 DEF EntrySays, CarriesWhatIsSaid
<1> QED BY <1>3 DEF RequestsCarryTheMostSpecific

LEMMA HeadersLoad ==
  ASSUME RouteInv, phase = "load", phase' = "route", LoadEnvironment
  PROVE  HeadersAreSingle'
<1>1. PICK run \in Runs : setup = run.setup /\ setup' = setup
  BY DEF RouteInv, LoadEnvironment
<1>2. env' \in LoadNamedEnvironmentWithVars(setup.file, selectEnvName(setup), setup.vars)
  BY DEF LoadEnvironment
<1>3. SinglesAreSet'
  BY <1>1, HeadersAssumption DEF SinglesAreSet
<1>4. PICK a, b, d : a = env'.overrides /\ b = setup.auto.overrides /\ d = setup.overlay.overrides
  OBVIOUS
<1>5. a \in Seq(Range(a)) /\ b \in Seq(Range(b)) /\ d \in Seq(Range(d))
  BY <1>1, <1>2, <1>4, ListsAssumption, FilesAreListed
<1>6. \A i \in DOMAIN a : Single(a[i].headers)
  <2>1. \A f, g : DOMAIN f = DOMAIN g /\ Single(g) => Single(f)
    BY DEF Single
  <2>2. ASSUME NEW o \in OverridesOf(setup.file) PROVE Single(o.headers)
    <3>1. PICK p \in PartialsOf(setup.file) : o \in Range(p.overrides)
      BY DEF OverridesOf
    <3>2. PICK list : list = p.overrides
      OBVIOUS
    <3>3. PICK i \in DOMAIN list : o = list[i]
      BY <3>1, <3>2 DEF Range
    <3> QED BY <1>1, <3>2, <3>3, HeadersAssumption
  <2>3. \A i \in DOMAIN a : \E o \in OverridesOf(setup.file) : DOMAIN a[i].headers = DOMAIN o.headers
    <3>1. PICK name, bound : env' \in LoadNamedEnvironmentWithVars(run.setup.file, name, bound)
      BY <1>1, <1>2
    <3>2. PICK p \in LoadNamedEnvironmentWithVars(run.setup.file, name, bound) : p = env'
      BY <3>1
    <3>3. SetNamesOf(p.overrides, run.setup.file)
      BY FilesAreListed
    <3> QED BY <1>1, <1>4, <3>2, <3>3 DEF SetNamesOf
  <2> QED BY <2>1, <2>2, <2>3
<1>7. (\A i \in DOMAIN b : Single(b[i].headers)) /\ (\A i \in DOMAIN d : Single(d[i].headers))
  BY <1>1, <1>4, HeadersAssumption
<1>8. PICK S : S = {o \in Range(a) \cup Range(b) \cup Range(d) : Single(o.headers)}
  OBVIOUS
<1>9. ASSUME NEW list, list \in Seq(Range(list)), \A i \in DOMAIN list : list[i] \in S PROVE list \in Seq(S)
  BY <1>9
<1>10. a \in Seq(S) /\ b \in Seq(S) /\ d \in Seq(S)
  <2>1. \A i \in DOMAIN a : a[i] \in S
    BY <1>6, <1>8 DEF Range
  <2>2. \A i \in DOMAIN b : b[i] \in S
    BY <1>7, <1>8 DEF Range
  <2>3. \A i \in DOMAIN d : d[i] \in S
    BY <1>7, <1>8 DEF Range
  <2> QED BY <1>5, <1>9, <2>1, <2>2, <2>3
<1>11. Registered' \in Seq(S)
  <2>1. Registered' = a \o b \o d
    BY <1>1, <1>4 DEF Registered
  <2> QED BY <1>10, <2>1
<1>12. \A i \in DOMAIN Registered' : Single(Registered'[i].headers)
  <2>1. \A i \in DOMAIN Registered' : Registered'[i] \in S
    BY <1>11
  <2> QED BY <1>8, <2>1
<1> QED BY <1>3, <1>12 DEF HeadersAreSingle

LEMMA HeadersStay ==
  ASSUME HeadersAreSingle, UNCHANGED <<setup, env>>
  PROVE  HeadersAreSingle'
<1>1. Registered' = Registered
  BY DEF Registered
<1> QED BY <1>1 DEF HeadersAreSingle, SinglesAreSet

LEMMA ConfigurationStays ==
  ASSUME NEW winners, ConfiguredBy(winners), UNCHANGED <<setup, env, auth, base>>
  PROVE  ConfiguredBy(winners)'
BY DEF ConfiguredBy, BuildAPIConfig

LEMMA RouterStays ==
  ASSUME RouterInv, UNCHANGED routeVars
  PROVE  RouterInv'
<1>1. UNCHANGED <<setup, phase, env, auth, base, queue, routes>>
  BY DEF routeVars
<1>2. Registered' = Registered /\ Default' = Default
  BY <1>1 DEF Registered, Default
<1>3. \A e, o, flags : EntrySays(e, o, flags)' <=> EntrySays(e, o, flags)
  BY <1>1, SayingStays
<1>4. \A n, patterns : RoutingFor(n, patterns)' = RoutingFor(n, patterns)
  BY <1>2 DEF RoutingFor, IsRoute
<1>5. \A n, patterns : RoutedFor(n, patterns)' <=> RoutedFor(n, patterns)
  BY <1>1, <1>2, <1>3, <1>4 DEF RoutedFor
<1>6. \A n : RoutedTo(n)' <=> RoutedTo(n)
  BY <1>2, <1>5 DEF RoutedTo
<1>7. ASSUME NEW m PROVE FlaggedTo(m)' <=> FlaggedTo(m)
  <2>1. \A node : /\ Routing(node)' = Routing(node)
                 /\ NamedTo(m, node)' = NamedTo(m, node)
                 /\ OverrideTo(m, node)' = OverrideTo(m, node)
                 /\ FlagsTo(m, node)' = FlagsTo(m, node)
                 /\ LastOrNone(Routing(node))' = LastOrNone(Routing(node))
    BY <1>1, NodesStay
  <2>2. \A node : Resolve(routes, node)' = Resolve(routes, node)
    BY <1>1, <1>2 DEF Resolve
  <2>3. \A pattern : LastFor(routes, {pattern}, Default)' = LastFor(routes, {pattern}, Default)
    BY <1>1, <1>2 DEF LastFor
  <2> QED BY <1>1, <1>3, <2>1, <2>2, <2>3 DEF FlaggedTo
<1>8. \A m : FlagsLeft(m)' <=> FlagsLeft(m)
  BY <1>1 DEF FlagsLeft
<1>9. \A winners : ConfiguredBy(winners) => ConfiguredBy(winners)'
  BY <1>1, ConfigurationStays
<1>10. HeadersAreSingle => HeadersAreSingle'
  BY <1>1, HeadersStay
<1> QED BY <1>1, <1>2, <1>6, <1>7, <1>8, <1>9, <1>10 DEF RouterInv

LEMMA RouterConfigures ==
  ASSUME RouteInv, RouterInv, Configure
  PROVE  RouterInv'
<1>1. /\ phase = "route" /\ phase' = "register" /\ routes' = <<>> /\ routes = <<>>
      /\ UNCHANGED <<setup, env, routes>> /\ HeadersAreSingle /\ Listed
  BY DEF Configure, RouterInv, RouteInv
<1>2. PICK winners \in Winners(env.headers) : base' = BuildAPIConfig(winners, auth', setup)
  BY DEF Configure
<1>3. ConfiguredBy(winners)'
  BY <1>1, <1>2 DEF ConfiguredBy, BuildAPIConfig
<1>4. Registered' = Registered /\ queue' = Registered
  BY <1>1 DEF Registered, Configure
<1>5. HeadersAreSingle'
  BY <1>1, HeadersStay
<1>6. RoutedTo(0)'
  <2>1. \A patterns : RoutingFor(0, patterns)' = {}
    <3>1. 1..0 = {}
      OBVIOUS
    <3> QED BY <3>1 DEF RoutingFor
  <2>2. \A patterns : EntriesFor(routes', patterns) = {}
    BY <1>1 DEF EntriesFor
  <2>3. \A patterns : RoutedFor(0, patterns)'
    BY <2>1, <2>2 DEF RoutedFor
  <2>4. (0 \in 0..Len(Registered))'
    BY <1>1, <1>4 DEF Listed
  <2> QED BY <2>3, <2>4 DEF RoutedTo
<1>7. (RoutedTo(Len(Registered) - Len(queue)))'
  <2>1. Len(Registered') - Len(queue') = 0
    BY <1>1, <1>4 DEF Listed
  <2> QED BY <1>6, <2>1
<1>8. (routes \in Seq(Range(routes)))'
  BY <1>1
<1> QED BY <1>1, <1>3, <1>5, <1>7, <1>8 DEF RouterInv

LEMMA FlagsAreListed ==
  ASSUME RouteInv
  PROVE  setup.flags \in Seq(Range(setup.flags)) /\ Len(setup.flags) \in Nat
<1>1. setup.flags \in Seq(Range(setup.flags))
  BY HeadersAssumption DEF RouteInv
<1> QED BY <1>1

LEMMA RouterRegisters ==
  ASSUME RouteInv, RouterInv, RegisterOverride
  PROVE  RouterInv'
<1>1. phase = "register" /\ UNCHANGED <<setup, env, auth, base>> /\ Listed /\ HeadersAreSingle
  BY DEF RegisterOverride, RouterInv, RouteInv
<1>2. PICK n : RegisteredTo(n)
  BY <1>1 DEF RouteInv
<1>3. /\ n \in 0..Len(Registered) /\ Len(Registered) \in Nat
      /\ queue \in Seq(Range(Registered)) /\ Len(queue) = Len(Registered) - n
      /\ \A i \in 1..Len(queue) : queue[i] = Registered[n + i]
  BY <1>1, <1>2 DEF RegisteredTo, Listed
<1>4. Len(Registered) - Len(queue) = n
  BY <1>3
<1>5. RoutedTo(n) /\ routes \in Seq(Range(routes))
  BY <1>1, <1>4 DEF RouterInv
<1>6. PICK winners : ConfiguredBy(winners)
  BY <1>1 DEF RouterInv
<1>7. ConfiguredBy(winners)' /\ HeadersAreSingle' /\ Registered' = Registered
  BY <1>1, <1>6, ConfigurationStays, HeadersStay DEF Registered
<1>8. setup.flags \in Seq(Range(setup.flags)) /\ Len(setup.flags) \in Nat
  BY FlagsAreListed
<1>9. CASE queue = <<>>
  <2>1. phase' = "flags" /\ queue' = setup.flags /\ routes' = routes
    BY <1>9 DEF RegisterOverride
  <2>2. n = Len(Registered)
    BY <1>3, <1>9
  <2>3. FlaggedTo(0)
    BY <1>1, <1>5, <1>6, <1>8, <2>2, FlagsBegin
  <2>4. FlaggedTo(0)'
    <3>1. \A e, o, flags : EntrySays(e, o, flags)' <=> EntrySays(e, o, flags)
      BY <1>1, SayingStays
    <3>2. /\ Default' = Default
          /\ \A node : /\ Routing(node)' = Routing(node)
                       /\ NamedTo(0, node)' = NamedTo(0, node)
                       /\ OverrideTo(0, node)' = OverrideTo(0, node)
                       /\ FlagsTo(0, node)' = FlagsTo(0, node)
                       /\ LastOrNone(Routing(node))' = LastOrNone(Routing(node))
      BY <1>1, NodesStay
    <3>3. \A node : Resolve(routes, node)' = Resolve(routes, node)
      BY <2>1, <3>2 DEF Resolve
    <3>4. \A pattern : LastFor(routes, {pattern}, Default)' = LastFor(routes, {pattern}, Default)
      BY <2>1, <3>2 DEF LastFor
    <3> QED BY <1>1, <2>1, <2>3, <3>1, <3>2, <3>3, <3>4 DEF FlaggedTo
  <2>5. FlagsLeft(0)'
    <3>1. (queue \in Seq(Range(setup.flags)))' /\ (Len(queue) = Len(setup.flags) - 0)'
      BY <1>1, <1>8, <2>1
    <3>2. (0 \in 0..Len(setup.flags))'
      BY <1>1, <1>8
    <3>3. (\A i \in 1..Len(queue) : queue[i] = setup.flags[0 + i])'
      BY <1>1, <1>8, <2>1
    <3> QED BY <3>1, <3>2, <3>3 DEF FlagsLeft
  <2>6. (routes \in Seq(Range(routes)))'
    BY <1>5, <2>1
  <2> QED BY <1>7, <2>1, <2>4, <2>5, <2>6 DEF RouterInv
<1>10. CASE queue # <<>>
  <2>1. PICK ov : ov = Registered[n + 1]
    OBVIOUS
  <2>2. Len(queue) \in Nat \ {0} /\ Head(queue) = queue[1]
    BY <1>3, <1>10
  <2>3. Head(queue) = ov /\ n + 1 \in 1..Len(Registered) /\ n \in Nat
    BY <1>3, <2>1, <2>2
  <2>4. /\ phase' = "register" /\ queue' = Tail(queue)
        /\ routes' = IF IsRoute(ov) THEN Append(routes, Entry(ov.match, overrideRoute(ov), ov.rewrite)) ELSE routes
    BY <1>1, <1>10, <2>3 DEF RegisterOverride
  <2>5. RoutedTo(n + 1)' /\ (routes \in Seq(Range(routes)))'
    BY <1>1, <1>5, <1>6, <2>1, <2>3, <2>4, OverridesAreRegistered
  <2>6. Len(queue') = Len(queue) - 1
    BY <1>3, <1>10, <2>4
  <2>7. Len(Registered') - Len(queue') = n + 1
    BY <1>3, <1>7, <2>6
  <2> QED BY <1>7, <2>4, <2>5, <2>7 DEF RouterInv
<1> QED BY <1>9, <1>10

LEMMA RouterFlags ==
  ASSUME RouteInv, RouterInv, RegisterFlag
  PROVE  RouterInv'
<1>1. phase = "flags" /\ UNCHANGED <<setup, env, auth, base>> /\ HeadersAreSingle /\ routes \in Seq(Range(routes))
  BY DEF RegisterFlag, RouterInv
<1>2. PICK m : FlagsLeft(m) /\ FlaggedTo(m)
  BY <1>1 DEF RouterInv
<1>3. PICK winners : ConfiguredBy(winners)
  BY <1>1 DEF RouterInv
<1>4. ConfiguredBy(winners)' /\ HeadersAreSingle'
  BY <1>1, <1>3, ConfigurationStays, HeadersStay
<1>5. setup.flags \in Seq(Range(setup.flags)) /\ Len(setup.flags) \in Nat
  BY FlagsAreListed
<1>6. /\ m \in 0..Len(setup.flags)
      /\ queue \in Seq(Range(setup.flags)) /\ Len(queue) = Len(setup.flags) - m
      /\ \A i \in 1..Len(queue) : queue[i] = setup.flags[m + i]
  BY <1>2 DEF FlagsLeft
<1>7. CASE queue = <<>>
  <2>1. phase' = "ready" /\ routes' = routes
    BY <1>7 DEF RegisterFlag
  <2>2. m = Len(setup.flags)
    BY <1>5, <1>6, <1>7
  <2>3. FlaggedTo(m)'
    <3>1. \A e, o, flags : EntrySays(e, o, flags)' <=> EntrySays(e, o, flags)
      BY <1>1, SayingStays
    <3>2. /\ Default' = Default
          /\ \A node : /\ Routing(node)' = Routing(node)
                       /\ NamedTo(m, node)' = NamedTo(m, node)
                       /\ OverrideTo(m, node)' = OverrideTo(m, node)
                       /\ FlagsTo(m, node)' = FlagsTo(m, node)
                       /\ LastOrNone(Routing(node))' = LastOrNone(Routing(node))
      BY <1>1, NodesStay
    <3>3. \A node : Resolve(routes, node)' = Resolve(routes, node)
      BY <2>1, <3>2 DEF Resolve
    <3>4. \A pattern : LastFor(routes, {pattern}, Default)' = LastFor(routes, {pattern}, Default)
      BY <2>1, <3>2 DEF LastFor
    <3> QED BY <1>1, <1>2, <2>1, <3>1, <3>2, <3>3, <3>4 DEF FlaggedTo
  <2>4. FlaggedTo(Len(setup.flags))'
    BY <1>1, <2>2, <2>3
  <2>5. (routes \in Seq(Range(routes)))'
    BY <1>1, <2>1
  <2> QED BY <1>4, <2>1, <2>4, <2>5 DEF RouterInv
<1>8. CASE queue # <<>>
  <2>1. PICK flag : flag = setup.flags[m + 1]
    OBVIOUS
  <2>2. PICK from : from = inheritedRoute(routes, flag.pattern)
    OBVIOUS
  <2>3. Len(queue) \in Nat \ {0} /\ Head(queue) = queue[1]
    BY <1>6, <1>8
  <2>4. Head(queue) = flag /\ m + 1 \in 1..Len(setup.flags) /\ m \in Nat
    BY <1>5, <1>6, <2>1, <2>3
  <2>5. /\ phase' = "flags" /\ queue' = Tail(queue)
        /\ routes' = Append(routes, Entry(flag.pattern, [from.route EXCEPT !.url = flag.url],
                                          IF flag.url \in GRPC THEN None ELSE from.rewrite))
    BY <1>1, <1>8, <2>2, <2>4 DEF RegisterFlag
  <2>6. FlaggedTo(m + 1)' /\ (routes \in Seq(Range(routes)))'
    BY <1>1, <1>2, <1>5, <2>1, <2>2, <2>4, <2>5, FlagsAreRegistered
  <2>7. FlagsLeft(m + 1)'
    <3>1. /\ queue' \in Seq(Range(setup.flags)) /\ Len(queue') = Len(queue) - 1
          /\ \A i \in 1..Len(queue') : queue'[i] = queue[i + 1]
      BY <1>6, <1>8, <2>5
    <3>2. \A i \in 1..Len(queue') : queue'[i] = setup.flags[(m + 1) + i]
      <4> TAKE i \in 1..Len(queue')
      <4>1. i + 1 \in 1..Len(queue)
        BY <2>3, <3>1
      <4>2. queue[i + 1] = setup.flags[m + (i + 1)]
        BY <1>6, <4>1
      <4>3. m + (i + 1) = (m + 1) + i
        BY <2>3, <2>4, <3>1
      <4> QED BY <3>1, <4>2, <4>3
    <3>3. Len(queue') = Len(setup.flags) - (m + 1) /\ m + 1 \in 0..Len(setup.flags)
      BY <1>5, <1>6, <2>4, <3>1
    <3> QED BY <1>1, <3>1, <3>2, <3>3 DEF FlagsLeft
  <2> QED BY <1>4, <2>5, <2>6, <2>7 DEF RouterInv
<1> QED BY <1>7, <1>8

LEMMA RouterLoads ==
  ASSUME RouteInv, RouterInv, LoadEnvironment
  PROVE  RouterInv'
<1>1. phase = "load" /\ phase' \in {"route", "refused"} /\ routes' = <<>>
  BY DEF LoadEnvironment, RouterInv
<1>2. phase' = "route" => HeadersAreSingle'
  BY <1>1, HeadersLoad
<1> QED BY <1>1, <1>2 DEF RouterInv

LEMMA StepsKeepRouterInv == RouteInv /\ RouterInv /\ [Next]_vars => RouterInv'
<1> SUFFICES ASSUME RouteInv, RouterInv, [Next]_vars PROVE RouterInv'
  OBVIOUS
<1>1. CASE BuildRoutes
  BY <1>1, RouterLoads, RouterConfigures, RouterRegisters, RouterFlags DEF BuildRoutes
<1>2. CASE Replay
  <2>1. phase' = "load" /\ routes' = <<>>
    BY <1>2 DEF Replay
  <2> QED BY <2>1 DEF RouterInv
<1>3. CASE (ResolveStep /\ UNCHANGED routeVars) \/ BeginStep \/ Done \/ UNCHANGED vars
  <2>1. UNCHANGED routeVars
    BY <1>3 DEF BeginStep, Done, vars
  <2> QED BY <2>1, RouterStays
<1> QED BY <1>1, <1>2, <1>3 DEF Next

(* Once the routes are built, a request carries each header once, as the most
   specific of its sources sets it, and goes where the last flag, else the
   override, else the environment says (environment.go overrideRoute, headers.go,
   routing.go AddURLOverride). *)
THEOREM RequestsCarryWhatWasSet == Spec => []RequestsCarryTheMostSpecific
<1>1. RouteInv /\ RouterInv => RequestsCarryTheMostSpecific
  <2> SUFFICES ASSUME RouteInv, RouterInv, phase = "ready" PROVE RequestsCarryTheMostSpecific
    BY DEF RequestsCarryTheMostSpecific
  <2>1. FlaggedTo(Len(setup.flags))
    BY DEF RouterInv
  <2> QED BY <2>1, FlagsAreListed, FlaggedIsCarried
<1>2. Init => RouteInv /\ RouterInv
  <2>1. Init => RouterInv
    BY DEF Init, RoutesInit, RouterInv
  <2> QED BY <2>1, RoutesStart
<1>3. RouteInv /\ RouterInv /\ [Next]_vars => RouteInv' /\ RouterInv'
  BY StepsKeepRouteInv, StepsKeepRouterInv
<1> QED BY <1>1, <1>2, <1>3, PTL DEF Spec
=============================================================================
