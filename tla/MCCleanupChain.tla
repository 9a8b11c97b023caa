--------------------------- MODULE MCCleanupChain ---------------------------
EXTENDS CleanupChain, TLC

CONSTANTS create, refund, confirm, notify

MCNode == {create, refund, confirm, notify}

(* A create whose release takes two calls, in a graph that is sound or, as the
   engine's own test builds it, cyclic. *)
Pairings ==
  LET release == (create :> refund) @@ (refund :> confirm) @@ (notify :> None)
  IN  {release @@ (confirm :> last) : last \in {None, refund}}

Lists ==
  {<<[node |-> notify, runOn |-> "always"], [node |-> n, runOn |-> "success"]>> :
     n \in {refund, confirm}} \cup
  {<<>>, <<[node |-> refund, runOn |-> "failure"], [node |-> refund, runOn |-> "success"]>>}

(* The steps that went through, and what the last of them released. *)
Runs ==
  {<<<<create, create>>, {}>>, <<<<create, confirm>>, {<<1, confirm>>}>>} \cup
  {<<<<create, create, refund>>, r>> : r \in {{}, {<<1, refund>>}}}

(* A verification step may have taken the ID of the plan's own cleanup step. *)
MCCases ==
  {[pairing |-> p, conditional |-> w, steps |-> r[1],
    registered |-> {s \in DOMAIN r[1] : p[r[1][s]] # None}, released |-> r[2],
    checks |-> c, cleanup |-> l, outcome |-> o] :
     p \in Pairings, w \in {{}, {create, refund}}, r \in Runs, l \in Lists,
     o \in {"passed", "aborted"}, c \in {{}, {<<notify, 1>>}}}
=============================================================================
