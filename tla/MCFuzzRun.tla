------------------------------ MODULE MCFuzzRun ------------------------------
(* Plans of a run with one target whose cases share a setup, of one or two
   steps; of targets of every other scope; and of two targets. *)
EXTENDS FuzzRun

Reuse1(cases) == [scope |-> "reuse", readOnly |-> FALSE, setup |-> 1, cases |-> cases]
Reuse2(cases) == [scope |-> "reuse", readOnly |-> FALSE, setup |-> 2, cases |-> cases]
Isolated(readOnly) == [scope |-> "isolated", readOnly |-> readOnly, setup |-> 1, cases |-> 2]
Shared == [scope |-> "shared", readOnly |-> TRUE, setup |-> 0, cases |-> 2]
Bare == [scope |-> "reuse", readOnly |-> FALSE, setup |-> 0, cases |-> 2]

MCPlans ==
  {<<Reuse1(4)>>, <<Reuse2(3)>>, <<Isolated(FALSE)>>, <<Isolated(TRUE)>>, <<Bare>>,
   <<Shared, Reuse1(2)>>, <<Reuse1(2), Reuse1(1)>>}
=============================================================================
