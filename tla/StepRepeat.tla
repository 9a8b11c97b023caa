------------------------------ MODULE StepRepeat ------------------------------
(***************************************************************************)
(* A step with a repeat block (engine/repeat.go executeStepRepeated): it   *)
(* polls until a condition holds, or pages through a listing by the        *)
(* cursors that the responses give.  One request, with its retries, is one *)
(* pair of actions here; StepRetry has it in full.                         *)
(*                                                                         *)
(* Time is counted in units.  A request takes up to Slowest units, and a   *)
(* wait exactly as long as it was set for.                                 *)
(***************************************************************************)
EXTENDS StepContext, FiniteSets

CONSTANTS
  Blocks,     \* the repeat blocks considered
  Cursor,     \* the cursors a listing gives
  NoCursor,   \* a missing, null or empty one
  Slowest     \* bound: the longest a request takes

(* until: whether there is a condition.  paging: whether there is a next map.
   start: the cursor the plan gave, to resume a listing.  timeout: 0 for none. *)
BlockSet ==
  [until : BOOLEAN, paging : BOOLEAN, start : Cursor \cup {NoCursor},
   max : Nat \ {0}, interval : Nat, timeout : Nat]

ASSUME RepeatAssumption ==
  /\ NoCursor \notin Cursor
  /\ Slowest \in Nat
  /\ Blocks \subseteq BlockSet
  /\ \A b \in Blocks : b.until \/ b.paging

VARIABLES
  block,
  pc,       \* "send", "sending", "judge", "wait", "done"
  now,      \* the time since the step started
  cursor,   \* the cursor that the next request sends
  seen,     \* sent: the cursors of the requests, and of the next one
  last,     \* the last response
  wake,     \* when the wait is over
  stop,     \* RepeatStop, "" while the step repeats
  failure,  \* the step's Validation gets a repeat result
  cut,      \* the result's Error is the context's
  pages,    \* history: the cursors the requests sent, in order
  held,     \* history: the requests whose response met the condition
  startAt,  \* history: when the last request started
  gathered  \* the responses whose outputs are collected

stopVars == <<stop, failure, cut>>
historyVars == <<pages, held, startAt>>
vars == <<block, pc, now, cursor, seen, last, wake, ctxDone, stopVars, historyVars, gathered>>

(* A response: whether the step can go on from it, what the condition says of
   it, the cursor it gives and the wait it asks for. *)
Response ==
  [ok : BOOLEAN, until : {"met", "unmet", "unreadable"}, cursor : Cursor \cup {NoCursor},
   ask : Asks]

NoResponse == [ok |-> FALSE, until |-> "unmet", cursor |-> NoCursor, ask |-> 0]

-----------------------------------------------------------------------------
Sent == Len(pages)

Init ==
  /\ block \in Blocks
  /\ pc = "send"
  /\ now = 0
  /\ cursor = block.start
  /\ seen = {}
  /\ last = NoResponse
  /\ wake = 0
  /\ ctxDone = FALSE
  /\ stop = ""
  /\ failure = FALSE
  /\ cut = FALSE
  /\ pages = <<>>
  /\ held = {}
  /\ startAt = 0
  /\ gathered = <<>>

Interrupt ==
  /\ pc # "done" /\ ~ctxDone
  /\ ctxDone' = TRUE
  /\ UNCHANGED <<block, pc, now, cursor, seen, last, wake, stopVars, historyVars, gathered>>

Send ==
  /\ pc = "send"
  /\ pages' = Append(pages, cursor)
  /\ startAt' = now
  /\ pc' = "sending"
  /\ UNCHANGED <<block, now, cursor, seen, last, wake, ctxDone, stopVars, held, gathered>>

(* The responses a block can tell apart. *)
Responses ==
  {r \in Response :
    /\ ~block.until => r.until = "unmet"
    /\ ~block.paging => r.cursor = NoCursor
    /\ ~r.ok => r = NoResponse}

(* The first request's own cursor counts as sent, if the plan gave one. *)
Remember == IF block.paging /\ Sent = 1 /\ cursor # NoCursor THEN seen \cup {cursor} ELSE seen

(* Mutant of Gather: the response that the step stops on is left out. *)
GatherButLast(r) ==
  IF r.ok /\ r.until # "met" /\ ~(block.paging /\ r.cursor = NoCursor)
  THEN Append(gathered, Sent) ELSE gathered

(* collectOutputs. *)
Gather(r) == IF r.ok THEN Append(gathered, Sent) ELSE gathered

Answered ==
  /\ pc = "sending"
  /\ \E r \in Responses, d \in 0..Slowest :
       /\ last' = r
       /\ now' = now + d
       /\ gathered' = Gather(r)
       /\ held' = IF r.ok /\ r.until = "met" THEN held \cup {Sent} ELSE held
  /\ seen' = Remember
  /\ pc' = "judge"
  /\ UNCHANGED <<block, cursor, wake, ctxDone, stopVars, pages, startAt>>

Exhausted == block.paging /\ last.cursor = NoCursor

(* Mutant of Looped: only the cursor just sent is compared. *)
LoopedOnce == block.paging /\ last.cursor = cursor

Looped == block.paging /\ last.cursor \in seen

AtMax == Sent >= block.max

(* A response's Retry-After lengthens the interval, up to a limit. *)
Wait ==
  LET ask == IF last.ask > Cap THEN Cap ELSE last.ask
  IN  IF ask > block.interval THEN ask ELSE block.interval

TooLate(wait) == block.timeout > 0 /\ now + wait > block.timeout

(* Mutant of Reason: the limit comes before the condition. *)
ReasonMaxFirst ==
  IF ~last.ok \/ last.until = "unreadable" THEN "error"
  ELSE IF AtMax THEN "max"
  ELSE IF last.until = "met" THEN "until"
  ELSE IF Exhausted THEN "exhausted"
  ELSE IF Looped THEN "loop"
  ELSE IF TooLate(Wait) THEN "timeout" ELSE ""

(* Why the step stops after this response, if it does. *)
Reason ==
  IF ~last.ok \/ last.until = "unreadable" THEN "error"
  ELSE IF last.until = "met" THEN "until"
  ELSE IF Exhausted THEN "exhausted"
  ELSE IF Looped THEN "loop"
  ELSE IF AtMax THEN "max"
  ELSE IF TooLate(Wait) THEN "timeout" ELSE ""

Stop ==
  /\ pc = "judge" /\ Reason # ""
  /\ stop' = Reason
  /\ failure' = (Reason \in {"loop", "max", "timeout"} \/ (last.ok /\ last.until = "unreadable"))
  /\ pc' = "done"
  /\ UNCHANGED <<block, now, cursor, seen, last, wake, ctxDone, cut, historyVars, gathered>>

(* Mutant of StartWait: the wait is set, and never begun. *)
StartWaitForgotten ==
  /\ pc = "judge" /\ Reason = ""
  /\ wake' = now + Wait
  /\ UNCHANGED <<block, pc, now, cursor, seen, last, ctxDone, stopVars, historyVars, gathered>>

StartWait ==
  /\ pc = "judge" /\ Reason = ""
  /\ wake' = now + Wait
  /\ pc' = "wait"
  /\ UNCHANGED <<block, now, cursor, seen, last, ctxDone, stopVars, historyVars, gathered>>

CancelWait ==
  /\ pc = "wait" /\ ctxDone
  /\ cut' = TRUE
  /\ stop' = "error"
  /\ pc' = "done"
  /\ UNCHANGED <<block, now, cursor, seen, last, wake, ctxDone, failure, historyVars, gathered>>

(* The timer fires, and the cursors of the response go into the next request. *)
Wake ==
  /\ pc = "wait"
  /\ now' = wake
  /\ IF block.paging
     THEN cursor' = last.cursor /\ seen' = seen \cup {last.cursor}
     ELSE UNCHANGED <<cursor, seen>>
  /\ pc' = "send"
  /\ UNCHANGED <<block, last, wake, ctxDone, stopVars, historyVars, gathered>>

Returned == pc = "done" /\ UNCHANGED vars

Progress == Send \/ Answered \/ Stop \/ StartWait \/ CancelWait \/ Wake
Next == Interrupt \/ Progress \/ Returned

Spec == Init /\ [][Next]_vars

(* A request ends in its answer or its timeout, and a timer fires. *)
FairSpec == Spec /\ WF_vars(Progress)

-----------------------------------------------------------------------------
(* The variables hold what their names say. *)
TypeOK ==
  /\ block \in Blocks
  /\ pc \in {"send", "sending", "judge", "wait", "done"}
  /\ now \in Nat /\ wake \in Nat /\ startAt \in Nat
  /\ cursor \in Cursor \cup {NoCursor}
  /\ seen \subseteq Cursor
  /\ last \in Response
  /\ ctxDone \in BOOLEAN /\ failure \in BOOLEAN /\ cut \in BOOLEAN
  /\ stop \in {"", "until", "exhausted", "loop", "max", "timeout", "error"}
  /\ pages \in Seq(Cursor \cup {NoCursor})
  /\ held \subseteq 1..Sent
  /\ gathered \in Seq(Nat)

Over == pc = "done"
Passed == Over /\ last.ok /\ ~failure /\ ~cut

(* A step that passes got what it repeated for: its last response, and no
   earlier one, met the condition, or it read the listing to its last page. *)
PassesOnWhatItWaitedFor ==
  /\ Passed => Sent \in held \/ (block.paging /\ last.cursor = NoCursor)
  /\ held \subseteq {Sent}
  /\ Over /\ held # {} => Passed

(* A listing is read page by page, none twice: a cursor given again stops the
   requests before it is sent, whichever request sent it first; and what is
   collected is every page once, in order, up to the last one the API answered
   (repeat.go executeStepRepeated, collectOutputs). *)
EveryPageOnce ==
  /\ block.paging => \A i, j \in 1..Sent : i < j => pages[i] # pages[j]
  /\ \A i \in 1..Len(gathered) : gathered[i] = i
  /\ Passed => Len(gathered) = Sent
  /\ Sent - Len(gathered) \in 0..1

(* A step sends no more requests than max and starts none past its timeout; it
   lets the interval go by, and the wait the server asked for up to the limit;
   and it gives up only at one of these, or on a page that it has read already
   (repeat.go executeStepRepeated). *)
KeepsItsLimits ==
  LET asked == IF last.ask > Cap THEN Cap ELSE last.ask
      longest == IF Cap > block.interval THEN Cap ELSE block.interval
  IN  /\ Sent <= block.max
      /\ block.timeout > 0 /\ Sent > 1 => startAt <= block.timeout
      /\ pc = "wait" => wake >= now + block.interval /\ wake >= now + asked
      /\ Over /\ failure /\ last.until # "unreadable" =>
           \/ Sent = block.max
           \/ block.timeout > 0 /\ now + longest > block.timeout
           \/ \E i \in 1..Sent : block.paging /\ pages[i] = last.cursor

(* Every repeated step comes to an end, whatever the API keeps answering. *)
RepeatEnds == <>Over
=============================================================================
