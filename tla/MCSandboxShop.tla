----------------------------- MODULE MCSandboxShop -----------------------------
EXTENDS SandboxShop

CONSTANTS c1, c2, tee, cap

MCClient == {c1, c2}
MCSku == {tee, cap}
MCPrice == (tee :> 1) @@ (cap :> 1)
MCStock == (tee :> 1) @@ (cap :> 0)
MCRegion == [taxIncluded |-> FALSE, tax |-> <<1, 4>>, tiers |-> [standard |-> 1]]
MCCoupons ==
  [FREESHIP |-> [percentOff |-> 0, freeShipping |-> TRUE, here |-> TRUE],
   EU_ONLY  |-> [percentOff |-> 10, freeShipping |-> FALSE, here |-> FALSE]]
Callers == Permutations(MCClient)
=============================================================================
