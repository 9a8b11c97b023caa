---------------------------- MODULE MCRepeatedStep ----------------------------
EXTENDS RepeatedStep

CONSTANTS c1, c2

MCCursor == {c1, c2}

Polls ==
  {[until |-> TRUE, paging |-> FALSE, start |-> NoCursor, max |-> m, interval |-> 1, timeout |-> t] :
     m \in {1, 3}, t \in {0, 3}}

(* A listing read to its end or to a condition, from its start or from a
   cursor. *)
Listings ==
  {[until |-> u, paging |-> TRUE, start |-> s, max |-> m, interval |-> i, timeout |-> t] :
     u \in BOOLEAN, s \in {NoCursor, c1}, i \in {0, 1}, t \in {0, 3}, m \in {2, 4}}

MCBlocks == Polls \cup Listings

RetryBlocks ==
  {[max |-> m, on |-> o, failOn |-> f] :
     m \in {0, 1, 2}, o \in {{}, {"timeout", "503"}, {"transient", "server"}},
     f \in {{}, {"503"}, {"transient"}, {"client"}}}

Plain(own, b) == [role |-> "plain", own |-> own, block |-> b, expects |-> {}]

(* A plain step with each block or none, a negative one that expects a conflict
   or a rate limit, with and without a block that turns retries off, and a
   cleanup step. *)
AllSteps ==
  {Plain(TRUE, b) : b \in RetryBlocks}
  \cup {Plain(FALSE, NoBlock)}
  \cup {[role |-> "negative", own |-> o, block |-> [CleanupBlock EXCEPT !.max = m], expects |-> x] :
          o \in BOOLEAN, m \in {0, 2}, x \in {{"s404"}, {"s429", "body429"}}}
  \cup {[role |-> "cleanup", own |-> FALSE, block |-> NoBlock, expects |-> {}]}

(* The steps that are repeated: without a retry block, which retries a rate
   limit, and with one that retries a server failure once. *)
OwnBlock == Plain(TRUE, [max |-> 1, on |-> {"503"}, failOn |-> {}])

MCSteps == AllSteps \cup {OwnBlock}

(* A listing of two pages with up to three retries of each request, and polls
   and longer listings with a retry of each. *)
MCCases ==
  {[step |-> s, block |-> CHOOSE b \in MCBlocks : TRUE, repeated |-> FALSE] : s \in AllSteps}
  \cup {[step |-> Plain(FALSE, NoBlock), block |-> b, repeated |-> TRUE] :
           b \in {b \in MCBlocks : /\ b.max = 2 /\ b.interval = 1 /\ b.timeout = 3
                                    /\ b.start = NoCursor /\ ~b.until}}
  \cup {[step |-> OwnBlock, block |-> b, repeated |-> TRUE] :
           b \in {b \in MCBlocks :
                    b.max = 4 => b.interval = 0 /\ b.timeout = 3 /\ b.until /\ b.start = c1}}
=============================================================================
