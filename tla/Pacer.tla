-------------------------------- MODULE Pacer --------------------------------
(***************************************************************************)
(* engine/pacer.go.  Engines of a parallel batch share one Pacer, so that  *)
(* their requests together start at most once per Interval.  A caller      *)
(* reserves the next free slot under the mutex, releases the mutex, and    *)
(* then sleeps until its slot or until its context is done.                *)
(*                                                                         *)
(* Time is a natural number that only Tick advances.  A request is one     *)
(* call of Engine.send; what follows the wait is not modelled here.        *)
(***************************************************************************)
EXTENDS Naturals, FiniteSets

CONSTANTS
  Request,    \* the requests sent through the pacer, retries and cleanup too
  Interval,   \* Pacer.interval; NewPacer returns nil for a non-positive one
  Horizon     \* bound: the clock stops here, unless a request awaits its slot

ASSUME PacerAssumption == Interval \in Nat \ {0} /\ Horizon \in Nat

VARIABLES
  now,        \* time.Now()
  next,       \* Pacer.next: the earliest start of the next request
  phase,      \* where each request is in Wait
  slot,       \* the start each request reserved
  askedAt,    \* history: when it reserved the slot
  sentAt      \* history: when Wait returned nil

vars == <<now, next, phase, slot, askedAt, sentAt>>

Phase == {"idle", "reserved", "armed", "sent", "cancelled"}

Reserved == {r \in Request : phase[r] # "idle"}
Sent     == {r \in Request : phase[r] = "sent"}

TypeOK ==
  /\ now \in Nat
  /\ next \in Nat
  /\ phase \in [Request -> Phase]
  /\ slot \in [Request -> Nat]
  /\ askedAt \in [Request -> Nat]
  /\ sentAt \in [Request -> Nat]

Init ==
  /\ now = 0
  /\ next = 0
  /\ phase = [r \in Request |-> "idle"]
  /\ slot = [r \in Request |-> 0]
  /\ askedAt = [r \in Request |-> 0]
  /\ sentAt = [r \in Request |-> 0]

Tick ==
  /\ now < Horizon \/ \E r \in Request : phase[r] = "armed" /\ slot[r] > now
  /\ now' = now + 1
  /\ UNCHANGED <<next, phase, slot, askedAt, sentAt>>

(* Mutants of Start and NextAfter: the reservation of the request before is
   ignored; the interval counts twice after a wait. *)
StartIgnoresNext == now
NextSkipsASlot(start) == IF start > now THEN start + 2 * Interval ELSE start + Interval

Start == IF next > now THEN next ELSE now
NextAfter(start) == start + Interval

(* The critical section: the slot is the later of now and p.next, and p.next
   moves one interval past it. *)
Reserve(r) ==
  /\ phase[r] = "idle"
  /\ slot' = [slot EXCEPT ![r] = Start]
  /\ next' = NextAfter(Start)
  /\ phase' = [phase EXCEPT ![r] = "reserved"]
  /\ askedAt' = [askedAt EXCEPT ![r] = now]
  /\ UNCHANGED <<now, sentAt>>

(* Mutant of Due: a slot already past is missed. *)
DueOnlyThen(r) == slot[r] = now

Due(r) == slot[r] <= now

(* The second reading of the clock, after the unlock: a slot that has come
   starts the request at once, whatever its context says. *)
StartAtOnce(r) ==
  /\ phase[r] = "reserved"
  /\ Due(r)
  /\ phase' = [phase EXCEPT ![r] = "sent"]
  /\ sentAt' = [sentAt EXCEPT ![r] = now]
  /\ UNCHANGED <<now, next, slot, askedAt>>

Arm(r) ==
  /\ phase[r] = "reserved"
  /\ ~Due(r)
  /\ phase' = [phase EXCEPT ![r] = "armed"]
  /\ UNCHANGED <<now, next, slot, askedAt, sentAt>>

(* The timer fires at the slot or, on a busy machine, some time after it. *)
Fire(r) ==
  /\ phase[r] = "armed"
  /\ Due(r)
  /\ phase' = [phase EXCEPT ![r] = "sent"]
  /\ sentAt' = [sentAt EXCEPT ![r] = now]
  /\ UNCHANGED <<now, next, slot, askedAt>>

(* The caller's context is done first: the slot stays taken. *)
Cancel(r) ==
  /\ phase[r] = "armed"
  /\ phase' = [phase EXCEPT ![r] = "cancelled"]
  /\ UNCHANGED <<now, next, slot, askedAt, sentAt>>

Next ==
  \/ Tick
  \/ \E r \in Request :
       Reserve(r) \/ StartAtOnce(r) \/ Arm(r) \/ Fire(r) \/ Cancel(r)

Spec == Init /\ [][Next]_vars

(* Time passes, and the scheduler runs a goroutine that can take a step. *)
Fairness ==
  /\ WF_vars(Tick)
  /\ \A r \in Request : WF_vars(StartAtOnce(r) \/ Arm(r)) /\ WF_vars(Fire(r))

-----------------------------------------------------------------------------
(* The slots of any two requests are at least an interval apart, also those
   of requests whose wait was cancelled (pacer.go:13, "spaces the starts of
   requests at least an interval apart"). *)
SlotsSpaced ==
  \A r, q \in Reserved :
    r # q => slot[r] >= slot[q] + Interval \/ slot[q] >= slot[r] + Interval

(* The pacer holds a request back only behind another one: a slot is the
   moment it was asked for, or exactly one interval after another slot. *)
NoIdleGap ==
  \A r \in Reserved :
    slot[r] = askedAt[r] \/ \E q \in Reserved : slot[r] = slot[q] + Interval

(* Every wait ends: the request starts or its context is done. *)
WaitEnds ==
  \A r \in Request : phase[r] = "reserved" ~> phase[r] \in {"sent", "cancelled"}
=============================================================================
