------------------------------ MODULE MCPacedRuns ------------------------------
(* Two runs share a provider and a pacer: one sends two requests, the other
   one. *)
EXTENDS PacedRuns, TLC

CONSTANTS r1, r2, r3, a, b

MCRequest == {r1, r2, r3}
MCRun == {a, b}
MCRunOf == (r1 :> <<a, 1>>) @@ (r2 :> <<a, 2>>) @@ (r3 :> <<b, 1>>)
=============================================================================
