----------------------------- MODULE StepContext -----------------------------
(***************************************************************************)
(* What a step's repetition and the retries of its requests share: the     *)
(* limit on the wait a server may ask for, and the context that an         *)
(* interrupt cancels.                                                      *)
(***************************************************************************)
EXTENDS Naturals, Sequences

CONSTANTS
  Cap,      \* maxRetryAfter
  Asks      \* the waits a response asks for, 0 for none

ASSUME WaitAssumption ==
  /\ Cap \in Nat \ {0}
  /\ Asks \subseteq Nat /\ 0 \in Asks

VARIABLE ctxDone
=============================================================================
