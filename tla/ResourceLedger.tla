---------------------------- MODULE ResourceLedger ----------------------------
(***************************************************************************)
(* What a run promises about the resources its steps create, without a     *)
(* word on steps, outcomes or interrupts: a resource is owed from the      *)
(* moment it is registered; the run closes once, and then settles every    *)
(* resource it owes exactly once, the last one first, or keeps them all.   *)
(* The abstract specification of engine/engine.go Run and runCleanup.      *)
(***************************************************************************)
EXTENDS Naturals, Sequences

CONSTANT Resource

VARIABLES
  phase,  \* "open", "closing", "closed", "kept"
  owed,   \* the registered resources, in order
  paid    \* the settled ones, in order

ledgerVars == <<phase, owed, paid>>

Init ==
  /\ phase = "open"
  /\ owed = <<>>
  /\ paid = <<>>

Register(r) ==
  /\ phase = "open"
  /\ owed' = Append(owed, r)
  /\ UNCHANGED <<phase, paid>>

Close ==
  /\ phase = "open"
  /\ phase' = "closing"
  /\ UNCHANGED <<owed, paid>>

Keep ==
  /\ phase = "open"
  /\ phase' = "kept"
  /\ UNCHANGED <<owed, paid>>

Settle ==
  /\ phase = "closing" /\ owed # <<>>
  /\ owed' = SubSeq(owed, 1, Len(owed) - 1)
  /\ paid' = Append(paid, owed[Len(owed)])
  /\ UNCHANGED phase

Finish ==
  /\ phase = "closing" /\ owed = <<>>
  /\ phase' = "closed"
  /\ UNCHANGED <<owed, paid>>

Next == (\E r \in Resource : Register(r)) \/ Close \/ Keep \/ Settle \/ Finish

(* Once the run is closing, all that it owes is settled. *)
Spec == Init /\ [][Next]_ledgerVars /\ WF_ledgerVars(Settle \/ Finish)
=============================================================================
