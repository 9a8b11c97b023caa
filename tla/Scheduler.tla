------------------------------- MODULE Scheduler -------------------------------
(***************************************************************************)
(* TopologicalSort (engine/scheduler.go): Kahn's algorithm over the steps  *)
(* of an instantiated plan, which takes the ready step that comes first in *)
(* the plan.  A step is named by its index; steps[i].deps are the IDs of   *)
(* dependsOn, which may name a step twice, the step itself, or no step.    *)
(* plan.Validate has refused duplicate step IDs before.                    *)
(***************************************************************************)
EXTENDS Naturals, Sequences, FiniteSets

VARIABLES
  steps,      \* the plan's steps, records with an id and the deps at least
  inDegree,   \* for each step, how many of the steps before it are not sorted
  ready,      \* the steps that wait for nothing
  sorted      \* the order so far

sortVars == <<steps, inDegree, ready, sorted>>

IsPlan(s) ==
  /\ \E n \in Nat : DOMAIN s = 1..n
  /\ \A i, j \in DOMAIN s : s[i].id = s[j].id => i = j

(* The edges into i, each counted once: the steps i must come after. *)
Before(i) ==
  {j \in DOMAIN steps :
     j # i /\ \E k \in DOMAIN steps[i].deps : steps[i].deps[k] = steps[j].id}

Degrees == [i \in DOMAIN steps |-> Cardinality(Before(i))]
Free(degree) == {i \in DOMAIN steps : degree[i] = 0}

SortBegins ==
  /\ inDegree = Degrees
  /\ ready = Free(Degrees)
  /\ sorted = <<>>

SortInit == IsPlan(steps) /\ SortBegins

(* Mutants of First and Freed: the step that got ready last in the plan goes
   first; a step is ready while it still waits for one. *)
LastOfReady == CHOOSE i \in ready : \A j \in ready : i >= j
FreedTooSoon(i) == {j \in DOMAIN steps : i \in Before(j) /\ inDegree[j] <= 2}

First == CHOOSE i \in ready : \A j \in ready : i <= j

(* The dependents of i that wait for nothing once i is sorted. *)
Freed(i) == {j \in DOMAIN steps : i \in Before(j) /\ inDegree[j] = 1}

TakeFirst ==
  /\ ready # {}
  /\ sorted' = Append(sorted, First)
  /\ inDegree' = [j \in DOMAIN steps |->
                    IF First \in Before(j) THEN inDegree[j] - 1 ELSE inDegree[j]]
  /\ ready' = (ready \ {First}) \cup Freed(First)
  /\ UNCHANGED steps

SortSpec == SortInit /\ [][TakeFirst]_sortVars

Placed == {sorted[k] : k \in DOMAIN sorted}
PlacedBefore(k) == {sorted[l] : l \in 1..k - 1}

-----------------------------------------------------------------------------
(* Every step comes after all the steps it depends on, and comes once
   (scheduler.go TopologicalSort, "a valid execution order"). *)
PrerequisitesFirst ==
  \A k \in DOMAIN sorted :
    Before(sorted[k]) \subseteq PlacedBefore(k) /\ sorted[k] \notin PlacedBefore(k)

(* The plan's order is kept wherever the dependencies allow: a step placed ahead
   of one that the plan lists before it was placed while that one still waited
   (scheduler.go:13, "keeping to the plan's order"). *)
KeepsPlanOrder ==
  \A k \in DOMAIN sorted :
    \A j \in DOMAIN steps \ PlacedBefore(k) :
      j < sorted[k] => ~(Before(j) \subseteq PlacedBefore(k))

(* Sorting stops short only when every step that is left waits for another one
   that is left, which is a cycle (scheduler.go:76). *)
StuckOnlyOnACycle ==
  ready = {} => \A j \in DOMAIN steps \ Placed : Before(j) \ Placed # {}
=============================================================================
