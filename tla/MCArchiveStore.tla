---------------------------- MODULE MCArchiveStore ----------------------------
(* A run that may take two attempts, an old run and three requests, each of any
   kind.  The names of saved runs are "!" with the one or the other run-ID, either
   of which a user may type; a name of another shape is treated the same. *)
EXTENDS ArchiveStore, TLC

CONSTANTS q1, q2, q3

MCRequest == {q1, q2, q3}
Symmetric == Permutations(MCRequest)
=============================================================================
