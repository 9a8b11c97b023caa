----------------------------- MODULE CleanupChain -----------------------------
(***************************************************************************)
(* Engine.runCleanup (engine/engine.go) with the stack and the chains of   *)
(* engine/cleanup.go: what PlanRun does in one step for each registered    *)
(* cleanup, down to the single cleanup request and what follows it.        *)
(*                                                                         *)
(* A cleanup node may declare a cleanup of its own, which runs right after *)
(* it.  One request with its retries is in StepRetry.                      *)
(***************************************************************************)
EXTENDS Naturals, Sequences, FiniteSets, Functions

CONSTANTS
  Node,     \* the nodes of the graph
  None,     \* no node, no step
  Cases     \* what runCleanup may find

RunOn == {"always", "success", "failure"}
Outcome == {"passed", "failed", "error", "aborted"}
(* pairing[n]: the cleanup of node n.  conditional: the nodes whose pairing has
   a when.  steps: the main steps' nodes.  registered: the steps whose pairing
   is on the stack.  released: <<s, n>> when a later main step did for the
   resource of step s what a cleanup on node n would.  checks: the IDs of the
   verification steps, verify_get and the like.  cleanup: the plan's
   execution.cleanup. *)
CaseSet ==
  [pairing : [Node -> Node \cup {None}], conditional : SUBSET Node, steps : Seq(Node),
   registered : SUBSET Nat, released : SUBSET (Nat \X Node), checks : SUBSET (Node \X Nat),
   cleanup : Seq([node : Node, runOn : RunOn]), outcome : Outcome]

ASSUME CleanupAssumption ==
  /\ None \notin Node /\ None \notin Node \X Nat    \* nor is None an ID
  /\ Cases \subseteq CaseSet
  /\ \A c \in Cases : \A s \in c.registered :
       s \in DOMAIN c.steps /\ c.pairing[c.steps[s]] # None
  /\ \A c \in Cases : IsFiniteSet(c.checks)

VARIABLES
  case,
  pc,        \* "next", "reach", "sending", "done"
  due,       \* the places of the plan's own cleanup steps still to run
  owed,      \* the steps whose pairing is still on the stack
  entry,     \* the entry at hand
  before,    \* the nodes of the cleanup steps before it in its chain
  expired,   \* the budget of an interrupted run's cleanup is over
  results,
  skips

vars == <<case, pc, due, owed, entry, before, expired, results, skips>>

-----------------------------------------------------------------------------
(* Step IDs are unique, and a step is named for its node.  A node may be named
   as a verification step is. *)
IdOf(s) == <<case.steps[s], Cardinality({t \in 1..s : case.steps[t] = case.steps[s]})>>
PlanStepIds == {IdOf(s) : s \in DOMAIN case.steps} \cup case.checks

RunOnMatches(runOn, o) ==
  \/ runOn = "always"
  \/ runOn = "success" /\ o = "passed"
  \/ runOn = "failure" /\ o # "passed"

(* pairedCleanupNodes: the pairings of the plan's steps, and their chains. *)
HoldsPairings(M) ==
  /\ \A s \in DOMAIN case.steps : case.pairing[case.steps[s]] \in M \cup {None}
  /\ \A n \in M : case.pairing[n] \in M \cup {None}
Paired == {n \in Node : \A M \in SUBSET Node : HoldsPairings(M) => n \in M}

Listings(n) == {i \in DOMAIN case.cleanup : case.cleanup[i].node = n}
Matching(n) == {i \in Listings(n) : RunOnMatches(case.cleanup[i].runOn, case.outcome)}

(* Mutant of Allowed: a listing counts whatever its runOn. *)
AllowedAlways(n) == TRUE

(* A listed pairing runs when any of its listings matches the outcome. *)
Allowed(n) == n \in Paired /\ Listings(n) # {} => Matching(n) # {}

Entry(node, for, step, cleanupFor) ==
  [node |-> node, for |-> for, step |-> step, cleanupFor |-> cleanupFor]

PlannedEntry(i) == Entry(case.cleanup[i].node, None, 0, None)
Planned ==
  {i \in DOMAIN case.cleanup : /\ case.cleanup[i].node \notin Paired
                               /\ RunOnMatches(case.cleanup[i].runOn, case.outcome)}

Pairing(s) == case.pairing[case.steps[s]]
RegisteredEntry(s) == Entry(Pairing(s), case.steps[s], s, IdOf(s))
Kept == {s \in case.registered : Allowed(Pairing(s))}

(* Mutant of Top: first created, first released. *)
TopOldest(stack) == CHOOSE s \in stack : \A t \in stack : s <= t

Top(stack) == CHOOSE s \in stack : \A t \in stack : t <= s
First(places) == CHOOSE i \in places : \A j \in places : i <= j

NoEntry == Entry(None, None, 0, None)

Init ==
  /\ case \in Cases
  /\ pc = "next"
  /\ due = Planned
  /\ owed = Kept
  /\ entry = NoEntry
  /\ before = <<>>
  /\ expired = FALSE
  /\ results = <<>>
  /\ skips = <<>>

(* abortedCleanupBudget.  Cleanup after any other outcome has no deadline, and
   no interrupt reaches it. *)
BudgetEnds ==
  /\ case.outcome = "aborted" /\ pc # "done" /\ ~expired
  /\ expired' = TRUE
  /\ UNCHANGED <<case, pc, due, owed, entry, before, results, skips>>

Starts(e) ==
  /\ entry' = e
  /\ before' = <<>>
  /\ pc' = "reach"
  /\ UNCHANGED <<case, expired, results, skips>>

NextPlanned ==
  /\ pc = "next" /\ due # {}
  /\ due' = due \ {First(due)}
  /\ Starts(PlannedEntry(First(due)))
  /\ UNCHANGED owed

NextRegistered ==
  /\ pc = "next" /\ due = {} /\ owed # {}
  /\ owed' = owed \ {Top(owed)}
  /\ Starts(RegisteredEntry(Top(owed)))
  /\ UNCHANGED due

IsPairing == entry.for # None /\ case.pairing[entry.for] = entry.node

(* Mutant of Released: a main step releases a chained cleanup as well. *)
ReleasedInChain == IsPairing /\ <<entry.step, entry.node>> \in case.released

Released ==
  IsPairing /\ before = <<>> /\ <<entry.step, entry.node>> \in case.released

Skip(reason) ==
  /\ pc = "reach"
  /\ skips' = Append(skips, [node |-> entry.node, cleanupFor |-> entry.cleanupFor, reason |-> reason])
  /\ pc' = "next"
  /\ UNCHANGED <<case, due, owed, entry, before, expired, results>>

SkipReleased ==
  /\ Released
  /\ Skip("released")

(* The condition is false of what the step before this one brought back. *)
SkipWhen ==
  /\ IsPairing /\ ~Released /\ entry.for \in case.conditional
  /\ Skip("when")

(* No condition, or one that holds or can't be evaluated. *)
Send ==
  /\ pc = "reach" /\ ~Released
  /\ pc' = "sending"
  /\ UNCHANGED <<case, due, owed, entry, before, expired, results, skips>>

(* A response that released the resource ("strict" when it also violates the
   OpenAPI spec in strict mode), one that refused, or none. *)
Answer == {"ok", "strict", "refused", "error"}

(* Mutant of Succeeded: a strict violation ends the chain. *)
SucceededStrict(a) == a = "ok"

Succeeded(a) == a \in {"ok", "strict"}

Used == PlanStepIds \cup {results[i].id : i \in DOMAIN results}

Free(n, used) ==
  CHOOSE id \in {<<n, k>> : k \in 1..Cardinality(used) + 1} :
    id \notin used /\ \A k \in 1..id[2] - 1 : <<n, k>> \in used

(* Mutant of NextId: only the plan's own steps are looked at. *)
NextIdOfPlan(n, also) == Free(n, PlanStepIds)
(* cleanupRun.nextID. *)
NextId(n, also) == Free(n, Used \cup also)

Result(id, e, a) ==
  [id |-> id, node |-> e.node, step |-> e.step, cleanupFor |-> e.cleanupFor, answer |-> a]

(* The nodes that the chain has been on. *)
Passed(n) == <<n>> \o before

Then == case.pairing[entry.node]
Follows(a) == Then # None /\ Succeeded(a) /\ Allowed(Then)
Chained(own) == Entry(Then, entry.node, entry.step, own.id)

(* The chain ends here. *)
Ends(a, own) ==
  /\ ~Follows(a)
  /\ results' = Append(results, own)
  /\ pc' = "next"
  /\ UNCHANGED <<entry, before>>

(* The chain came back to a node it passed: the step is recorded, not sent. *)
Cycles(a, own) ==
  /\ Follows(a) /\ Then \in Range(Passed(entry.node))
  /\ results' = results \o <<own, Result(NextId(Then, {own.id}), Chained(own), "cycle")>>
  /\ pc' = "next"
  /\ UNCHANGED <<entry, before>>

GoesOn(a, own) ==
  /\ Follows(a) /\ Then \notin Range(Passed(entry.node))
  /\ results' = Append(results, own)
  /\ entry' = Chained(own)
  /\ before' = Passed(entry.node)
  /\ pc' = "reach"

Answered ==
  /\ pc = "sending"
  /\ \E a \in IF expired THEN {"error"} ELSE Answer :
       LET own == Result(NextId(entry.node, {}), entry, a)
       IN  Ends(a, own) \/ Cycles(a, own) \/ GoesOn(a, own)
  /\ UNCHANGED <<case, due, owed, expired, skips>>

Finish ==
  /\ pc = "next" /\ due = {} /\ owed = {}
  /\ pc' = "done"
  /\ UNCHANGED <<case, due, owed, entry, before, expired, results, skips>>

Returned == pc = "done" /\ UNCHANGED vars

Next ==
  \/ BudgetEnds \/ NextPlanned \/ NextRegistered \/ SkipReleased \/ SkipWhen \/ Send \/ Answered
  \/ Finish \/ Returned

Spec == Init /\ [][Next]_vars

-----------------------------------------------------------------------------
Ids == {results[i].id : i \in DOMAIN results}
Over == pc = "done"
Chain(i) == results[i].cleanupFor \in Ids
SkipsOf(id) == {i \in DOMAIN skips : skips[i].cleanupFor = id}
ResultsOf(id) == {i \in DOMAIN results : results[i].cleanupFor = id}

(* No two steps of a run share an ID, so a link names one step
   (cleanup.go nextID). *)
IdsAreOwn ==
  \A i \in DOMAIN results :
    /\ results[i].id \notin PlanStepIds
    /\ \A j \in DOMAIN results : results[i].id = results[j].id => i = j

(* Every registered cleanup that the plan's runOn lets through is answered for
   exactly once, as a request or as a skip, whatever became of the others; one
   that a main step released, or that runOn keeps back, sends nothing; and the
   last resource created is the first released, with its whole chain, after the
   plan's own cleanup steps (cleanup.go runCleanupStack, engine.go runCleanup). *)
EveryEntryIsSettledOnce ==
  /\ IdsAreOwn
  /\ Over =>
       \A s \in case.registered :
         LET n == Pairing(s)
             answers == Cardinality(ResultsOf(IdOf(s))) + Cardinality(SkipsOf(IdOf(s)))
         IN  /\ answers = (IF Listings(n) = {} \/ Matching(n) # {} THEN 1 ELSE 0)
             /\ <<s, n>> \in case.released => ResultsOf(IdOf(s)) = {}
  /\ \A i, j \in DOMAIN results :
       i < j => results[i].step = 0 \/ results[i].step >= results[j].step

(* A release that takes several calls goes on, each call right after the one
   before it, until one fails, a condition or the plan's runOn stops it, or the
   graph has no more; a main step never stops it (cleanup.go
   runCleanupChain). *)
ChainsAreWhole ==
  /\ \A i \in DOMAIN results : Chain(i) =>
       /\ i > 1 /\ results[i - 1].id = results[i].cleanupFor
       /\ results[i - 1].answer \in {"ok", "strict"}
       /\ results[i].node = case.pairing[results[i - 1].node]
  /\ Over =>
       \A i \in DOMAIN results :
         LET then == case.pairing[results[i].node]
         IN  results[i].answer \in {"ok", "strict"} /\ then # None =>
               \/ ResultsOf(results[i].id) # {}
               \/ \E k \in SkipsOf(results[i].id) : skips[k].reason = "when"
               \/ Listings(then) # {} /\ Matching(then) = {}
=============================================================================
