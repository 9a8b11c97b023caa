------------------------------- MODULE MCPlanRun -------------------------------
EXTENDS PlanRun, TLC

(* A plan that asks for nothing special. *)
Plain ==
  [steps |-> N, creates |-> {1, 2}, releases |-> [s \in Step |-> 0], conditional |-> {},
   listed |-> [s \in Step |-> {}], extra |-> <<>>, negative |-> {},
   known |-> [s \in Step |-> "none"], stopAfter |-> 0,
   checks |-> 0, goOn |-> FALSE, strict |-> FALSE]

(* Two steps with every state of the known issues, expected failures,
   verification steps and the two engine options, with one plan-level cleanup
   step for each runOn. *)
OutcomePlans ==
  {[Plain EXCEPT !.steps = 2, !.creates = {1},
                 !.known = k @@ [s \in Step |-> "none"],
                 !.negative = n, !.checks = c, !.goOn = g, !.strict = o,
                 !.extra = <<"success", "failure", "always">>] :
     k \in [1..2 -> {"none", "active", "expired"}], n \in {{}, {1}, {2}},
     c \in {0, 2}, g \in BOOLEAN, o \in BOOLEAN}

(* Every way a pairing is listed or conditional, and every resource the third
   step may release, with or without being expected to fail. *)
CleanupPlans ==
  {[Plain EXCEPT !.releases[3] = r, !.conditional = c, !.listed[2] = l,
                 !.negative = n, !.creates = {1, 2} \cup more] :
     r \in 0..2, c \in {{}, {1}}, l \in {{}, {"success"}, {"failure"}, {"success", "failure"}},
     n \in {{}, {3}, {2}}, more \in {{}, {3}}}

(* A checkpoint on each step. *)
CheckpointPlans ==
  {[Plain EXCEPT !.stopAfter = s, !.checks = 1, !.goOn = g, !.releases[2] = r,
                 !.negative = n, !.known[2] = k] :
     s \in Step, g \in BOOLEAN, r \in {0, 1}, n \in {{}, {2}}, k \in {"none", "active"}}

MCPlans == OutcomePlans \cup CleanupPlans \cup CheckpointPlans
=============================================================================
