-------------------------- MODULE RepeatedStepProofs --------------------------
(***************************************************************************)
(* For any steps, any repeat blocks, any limit, and whatever is answered,  *)
(* asked for or lost.  First the retries of one request: a step that was   *)
(* not told to retry has one effect at most, the waits are kept, and a rate*)
(* limit is given up on only for a reason.  Then the repetition: it reads  *)
(* and collects each page once, passes on what it waited for alone, and    *)
(* keeps its limits.  Last the step that does both, request after request. *)
(***************************************************************************)
EXTENDS RepeatedStep, TLAPS


Told == step.role = "cleanup" \/ (step.role = "plain" /\ step.own)

(* A step that was not told to retry goes on only from an answer that had no
   effect, so it has had none when it is about to be sent. *)
NoEffectYet ==
  ~Told =>
    /\ acted <= 1
    /\ attemptPc \in {"send", "wait"} => acted = 0
    /\ attemptPc = "judge" /\ ~MayAct(answer) => acted = 0

(* One request was sent for each attempt, and no attempt is past the policy. *)
SentByAttempt ==
  /\ attempt <= Policy(step).max
  /\ attemptPc \in {"send", "wait"} => sent = attempt
  /\ attemptPc = "judge" => sent = attempt + 1
  /\ attemptPc = "done" => sent <= attempt + 1

(* The wait is long enough when it starts, and over when it is left to send. *)
WaitIsDue ==
  /\ wait <= (IF Cap > 2 THEN Cap ELSE 2)
  /\ attemptPc = "wait" => attempt > 0 /\ waited <= wait
  /\ attemptPc = "send" /\ attempt > 0 => waited = wait
  /\ attemptPc \in {"send", "wait"} /\ attempt > 0 => wait >= asked /\ wait >= Backoff(attempt)

RetryInv == RetryTypeOK /\ NoEffectYet /\ SentByAttempt /\ WaitIsDue /\ GivesUpOnlyWhen

(* A step's type, from the assumption on the steps considered. *)
LEMMA RetryStepTypes ==
  ASSUME RetryTypeOK
  PROVE  /\ step.role \in {"plain", "negative", "cleanup"}
         /\ step.own \in BOOLEAN
         /\ step.block.max \in Nat
         /\ Policy(step).max \in Nat
         /\ Policy(step).max = MaxRetries
  BY RetryAssumption
  DEF RetryTypeOK, StepSet, Block, Policy, Written, MaxRetries, NoBlock, CleanupBlock

(* An untold step is sent again after a rate limit alone. *)
LEMMA UntoldRetriesRateLimit ==
  ASSUME RetryTypeOK, ~Told, NEW n \in Nat, ShouldRetry(answer, Policy(step), n)
  PROVE  answer \in {"s429", "body429"}
<1>1. Policy(step) = NoBlock
  BY RetryStepTypes DEF Told, Policy, Written
<1>2. \E r \in {"429"} : RuleMatches(r, answer)
  BY <1>1 DEF ShouldRetry, NoBlock
<1>3. "429" = StatusOf(answer) \/ "429" \in CategoriesOf(answer)
  BY <1>2 DEF RuleMatches
<1>4. answer \in Kind \cup {"ok"}
  BY DEF RetryTypeOK
<1>5. "429" \notin CategoriesOf(answer)
  BY <1>4 DEF CategoriesOf, CategoryOf, Kind
<1> QED BY <1>3, <1>4, <1>5 DEF StatusOf, Kind

(* No attempt has been made when a step starts. *)
LEMMA RetryInitInv == RetryInit => RetryInv
<1> SUFFICES ASSUME RetryInit PROVE RetryInv
  OBVIOUS
<1>1. RetryTypeOK
  <2>1. << >> \in Seq(Category)
    OBVIOUS
  <2>2. retriedOn \in Seq(Category)
    BY <2>1 DEF RetryInit
  <2> QED BY <2>2, RetryAssumption, WaitAssumption DEF RetryInit, RetryTypeOK
<1>2. Policy(step).max \in Nat
  BY <1>1, RetryStepTypes
<1> QED BY <1>1, <1>2, RetryAssumption, WaitAssumption
        DEF RetryInit, RetryInv, NoEffectYet, SentByAttempt, WaitIsDue, GivesUpOnlyWhen

(* The category of a failure is one. *)
LEMMA CategoryType == \A k \in Kind : CategoryOf(k) \in Category
  BY DEF CategoryOf, Kind, Category

(* Every step keeps the types. *)
LEMMA RetryTypesStep == RetryTypeOK /\ [RetryNext]_retryVars => RetryTypeOK'
<1> SUFFICES ASSUME RetryTypeOK, [RetryNext]_retryVars PROVE RetryTypeOK'
  OBVIOUS
<1> USE DEF RetryTypeOK
<1>1. CASE RetryInterrupt
  BY <1>1 DEF RetryInterrupt, resultVars
<1>2. CASE SendAttempt
  BY <1>2 DEF SendAttempt
<1>3. CASE Accept
  BY <1>3 DEF Accept, resultVars
<1>4. CASE OutOfRetries \/ CancelBeforeWait \/ AskedTooLong
  BY <1>4 DEF OutOfRetries, CancelBeforeWait, AskedTooLong, Finish
<1>5. CASE Refuse
  BY <1>5 DEF Refuse, Finish
<1>6. CASE StartBackoff
  <2>1. answer \in Kind
    BY <1>6 DEF StartBackoff, Retriable, Failed
  <2>2. CategoryOf(answer) \in Category
    BY <2>1, CategoryType
  <2>3. WaitFor(attempt + 1, asked) \in Nat
    BY WaitAssumption DEF WaitFor, Backoff
  <2> QED BY <1>6, <2>2, <2>3 DEF StartBackoff
<1>7. CASE Tick
  BY <1>7 DEF Tick, resultVars
<1>8. CASE CancelInWait
  BY <1>8 DEF CancelInWait, Finish
<1>9. CASE Resend
  BY <1>9 DEF Resend, resultVars
<1>10. CASE UNCHANGED retryVars
  BY <1>10 DEF retryVars, resultVars
<1> QED BY <1>1, <1>2, <1>3, <1>4, <1>5, <1>6, <1>7, <1>8, <1>9, <1>10
        DEF RetryNext, RetryProgress, RetryReturned

(* Each of the ways to end leaves what the request did alone. *)
LEMMA EndStep ==
  ASSUME RetryInv, RetryTypeOK', attemptPc = "judge" \/ attemptPc = "wait", attemptPc' = "done",
         UNCHANGED <<step, attempt, answer, asked, waited, wait, ctxDone, sent, acted>>
  PROVE  NoEffectYet' /\ SentByAttempt' /\ WaitIsDue'
<1>1. attempt \in Nat /\ sent \in Nat
  BY DEF RetryInv, RetryTypeOK
<1> QED BY <1>1 DEF RetryInv, NoEffectYet, SentByAttempt, WaitIsDue, Told, Policy, Written, MayAct

(* One case per action. *)
LEMMA RetryInvStep == RetryInv /\ [RetryNext]_retryVars => RetryInv'
<1> SUFFICES ASSUME RetryInv, [RetryNext]_retryVars PROVE RetryInv'
  OBVIOUS
<1>0. RetryTypeOK /\ RetryTypeOK'
  BY RetryTypesStep DEF RetryInv
<1>t. /\ attempt \in Nat /\ sent \in Nat /\ acted \in Nat /\ asked \in Nat
      /\ waited \in Nat /\ wait \in Nat /\ Cap \in Nat /\ Policy(step).max \in Nat
  BY <1>0, RetryStepTypes, WaitAssumption DEF RetryTypeOK
<1>1. CASE RetryInterrupt
  BY <1>0, <1>1 DEF RetryInterrupt, resultVars, RetryInv, NoEffectYet, SentByAttempt, WaitIsDue,
     GivesUpOnlyWhen, Told, MayAct, Policy, Written
<1>2. CASE SendAttempt
  <2>1. step' = step /\ attempt' = attempt /\ attemptPc = "send" /\ attemptPc' = "judge"
        /\ sent' = sent + 1 /\ wait' = wait
        /\ acted' = IF MayAct(answer') THEN acted + 1 ELSE acted
    BY <1>2 DEF SendAttempt
  <2>2. NoEffectYet'
    BY <1>t, <2>1 DEF RetryInv, NoEffectYet, Told, MayAct
  <2>3. SentByAttempt' /\ WaitIsDue'
    BY <1>t, <2>1 DEF RetryInv, SentByAttempt, WaitIsDue, Policy, Written
  <2> QED BY <1>0, <2>1, <2>2, <2>3 DEF RetryInv, GivesUpOnlyWhen
<1>3. CASE Accept
  <2>1. attemptPc = "judge" /\ attemptPc' = "done"
        /\ UNCHANGED <<step, attempt, answer, asked, waited, wait, ctxDone, sent, acted>>
    BY <1>3 DEF Accept
  <2>2. NoEffectYet' /\ SentByAttempt' /\ WaitIsDue'
    BY <1>0, <2>1, EndStep
  <2>3. GivesUpOnlyWhen'
    <3> SUFFICES ASSUME answer \in {"s429", "body429"}, answer \notin step.expects,
                        step.role # "cleanup", ~step.own
                 PROVE  FALSE
      BY <2>1 DEF GivesUpOnlyWhen
    <3> QED BY <1>3 DEF Accept, NoRetries, Failed, HasResponse, StatusOf
  <2> QED BY <1>0, <2>2, <2>3 DEF RetryInv
<1>4. CASE OutOfRetries
  <2>1. attemptPc = "judge" /\ attemptPc' = "done" /\ attempt >= Policy(step).max
        /\ UNCHANGED <<step, attempt, answer, asked, waited, wait, ctxDone, sent, acted>>
    BY <1>4 DEF OutOfRetries, Finish, Retriable
  <2>2. NoEffectYet' /\ SentByAttempt' /\ WaitIsDue'
    BY <1>0, <2>1, EndStep
  <2>3. sent = Policy(step).max + 1
    BY <1>t, <2>1 DEF RetryInv, SentByAttempt
  <2>4. GivesUpOnlyWhen'
    BY <2>1, <2>3 DEF GivesUpOnlyWhen, Policy, Written, NoBlock
  <2> QED BY <1>0, <2>2, <2>4 DEF RetryInv
<1>5. CASE CancelBeforeWait \/ CancelInWait
  <2>1. attemptPc \in {"judge", "wait"} /\ attemptPc' = "done" /\ ctxDone /\ cancelled'
        /\ UNCHANGED <<step, attempt, answer, asked, waited, wait, ctxDone, sent, acted>>
    BY <1>5 DEF CancelBeforeWait, CancelInWait, Finish, Retriable
  <2>2. NoEffectYet' /\ SentByAttempt' /\ WaitIsDue'
    BY <1>0, <2>1, EndStep
  <2>3. GivesUpOnlyWhen'
    BY <2>1 DEF GivesUpOnlyWhen
  <2> QED BY <1>0, <2>2, <2>3 DEF RetryInv
<1>6. CASE Refuse
  <2>1. attemptPc = "judge" /\ attemptPc' = "done" /\ attempt < Policy(step).max
        /\ UNCHANGED <<step, attempt, answer, asked, waited, wait, ctxDone, sent, acted>>
        /\ ~ShouldRetry(answer, Policy(step), attempt + 1)
    BY <1>6 DEF Refuse, Finish, Retriable
  <2>2. NoEffectYet' /\ SentByAttempt' /\ WaitIsDue'
    BY <1>0, <2>1, EndStep
  <2>3. GivesUpOnlyWhen'
    <3> SUFFICES ASSUME answer \in {"s429", "body429"}, step.role # "cleanup", ~step.own
                 PROVE  FALSE
      BY <2>1 DEF GivesUpOnlyWhen
    <3>1. Policy(step) = NoBlock
      BY DEF Policy, Written
    <3>2. attempt + 1 <= NoBlock.max
      BY <1>t, <2>1, <3>1 DEF NoBlock
    <3>3. RuleMatches("429", answer)
      BY DEF RuleMatches, StatusOf
    <3> QED BY <2>1, <3>1, <3>2, <3>3 DEF ShouldRetry, NoBlock
  <2> QED BY <1>0, <2>2, <2>3 DEF RetryInv
<1>7. CASE AskedTooLong
  <2>1. attemptPc = "judge" /\ attemptPc' = "done" /\ asked > Cap
        /\ UNCHANGED <<step, attempt, answer, asked, waited, wait, ctxDone, sent, acted>>
    BY <1>7 DEF AskedTooLong, Finish, Retriable, TooLong
  <2>2. NoEffectYet' /\ SentByAttempt' /\ WaitIsDue'
    BY <1>0, <2>1, EndStep
  <2>3. GivesUpOnlyWhen'
    BY <2>1 DEF GivesUpOnlyWhen
  <2> QED BY <1>0, <2>2, <2>3 DEF RetryInv
<1>8. CASE StartBackoff
  <2>1. attemptPc = "judge" /\ attemptPc' = "wait" /\ attempt < Policy(step).max /\ attempt' = attempt + 1
        /\ ShouldRetry(answer, Policy(step), attempt + 1) /\ asked <= Cap
        /\ wait' = WaitFor(attempt + 1, asked) /\ waited' = 0
        /\ UNCHANGED <<step, answer, asked, sent, acted>>
    BY <1>8, <1>t DEF StartBackoff, Retriable, TooLong
  <2>2. NoEffectYet'
    <3> SUFFICES ASSUME ~Told PROVE acted = 0
      BY <2>1 DEF NoEffectYet, Told
    <3>1. answer \in {"s429", "body429"}
      BY <1>0, <1>t, <2>1, UntoldRetriesRateLimit
    <3> QED BY <2>1, <3>1 DEF RetryInv, NoEffectYet, MayAct
  <2>3. SentByAttempt'
    BY <1>t, <2>1 DEF RetryInv, SentByAttempt, Policy, Written
  <2>4. WaitIsDue'
    BY <1>t, <2>1, WaitAssumption DEF WaitIsDue, WaitFor, Backoff
  <2> QED BY <1>0, <2>1, <2>2, <2>3, <2>4 DEF RetryInv, GivesUpOnlyWhen
<1>9. CASE Tick
  BY <1>0, <1>t, <1>9 DEF Tick, resultVars, RetryInv, NoEffectYet, SentByAttempt, WaitIsDue,
     GivesUpOnlyWhen, Told, MayAct, Policy, Written
<1>10. CASE Resend
  BY <1>0, <1>t, <1>10 DEF Resend, resultVars, RetryInv, NoEffectYet, SentByAttempt, WaitIsDue,
     GivesUpOnlyWhen, Told, MayAct, Policy, Written
<1>11. CASE UNCHANGED retryVars
  BY <1>0, <1>11 DEF retryVars, resultVars, RetryInv, NoEffectYet, SentByAttempt, WaitIsDue,
     GivesUpOnlyWhen, Told, MayAct, Policy, Written
<1> QED BY <1>1, <1>2, <1>3, <1>4, <1>5, <1>6, <1>7, <1>8, <1>9, <1>10, <1>11
        DEF RetryNext, RetryProgress, RetryReturned

(* The invariant that the three theorems below rest on. *)
THEOREM RetryInvariant == RetrySpec => []RetryInv
  BY RetryInitInv, RetryInvStep, PTL DEF RetrySpec

(* What the invariant says of the waits and the requests. *)
LEMMA RetryInvWaits == RetryInv => WaitsAreKept
<1> SUFFICES ASSUME RetryInv PROVE WaitsAreKept
  OBVIOUS
<1>1. RetryTypeOK
  BY DEF RetryInv
<1>2. Policy(step).max = MaxRetries /\ MaxRetries \in Nat
  BY <1>1, RetryStepTypes
<1>3. attempt \in Nat /\ sent \in Nat
  BY <1>1 DEF RetryTypeOK
<1>4. sent <= MaxRetries + 1
  BY <1>1, <1>2, <1>3 DEF RetryInv, SentByAttempt, RetryTypeOK
<1> QED BY <1>3, <1>4 DEF RetryInv, WaitIsDue, WaitsAreKept, Backoff

(* And of the effects. *)
LEMMA RetryInvEffects == RetryInv => OnceUnlessTold
  BY DEF RetryInv, NoEffectYet, OnceUnlessTold, Told

(* A step that was not told to retry is not sent again once the API may have
   acted on it, whatever is lost and however often it is limited. *)
THEOREM OneEffectUnlessTold == RetrySpec => []OnceUnlessTold
  BY RetryInvEffects, RetryInvariant, PTL

(* No request goes out before its server asked for it, no wait is longer than
   the limit, and no step is sent more often than it was given. *)
THEOREM WaitsAreHonoured == RetrySpec => []WaitsAreKept
  BY RetryInvWaits, RetryInvariant, PTL

(* A rate limit that the step is not meant to meet is given up on only when its
   retries are used up, the server asked for too long, or the run was
   interrupted, which its result then says. *)
THEOREM GivesUpForAReason == RetrySpec => []GivesUpOnlyWhen
<1>1. RetryInv => GivesUpOnlyWhen
  BY DEF RetryInv
<1> QED BY <1>1, RetryInvariant, PTL

-----------------------------------------------------------------------------

(* Where the requests are counted: one more was sent than answered while one is
   out, and the ones sent do not go past max. *)
Counted ==
  /\ pc \in {"sending", "judge", "done"} => Sent > 0
  /\ pc \in {"send", "wait"} => Sent < block.max
  /\ Sent <= block.max
  /\ pc # "done" => ~failure /\ ~cut

(* Every cursor that was sent is in seen, but the first one while it is out,
   and everything in seen was sent or is about to be. *)
SeenIsSent ==
  /\ block.paging => \A i \in 1..Sent :
       pages[i] \in seen \cup {NoCursor} \/ (pc = "sending" /\ Sent = 1)
  /\ \A c \in seen : block.paging /\ ((\E i \in 1..Sent : pages[i] = c) \/ (pc = "send" /\ c = cursor))
  /\ block.paging /\ pc = "send" /\ Sent > 0 => cursor \in seen
  /\ pc = "sending" => cursor = pages[Sent]

(* So the next cursor is a new one. *)
NextIsNew ==
  block.paging =>
    /\ pc = "wait" => last.cursor # NoCursor /\ last.cursor \notin seen
    /\ pc = "send" /\ Sent > 0 => \A i \in 1..Sent : pages[i] # cursor
    /\ \A i, j \in 1..Sent : i < j => pages[i] # pages[j]

Collected ==
  /\ \A i \in 1..Len(gathered) : gathered[i] = i
  /\ pc \in {"send", "wait"} => Len(gathered) = Sent
  /\ pc = "sending" => Len(gathered) = Sent - 1
  /\ pc \in {"judge", "done"} => Len(gathered) = (IF last.ok THEN Sent ELSE Sent - 1)

HeldIsLast ==
  /\ pc \in {"send", "sending", "wait"} => held = {}
  /\ pc \in {"judge", "done"} => held = (IF last.ok /\ last.until = "met" THEN {Sent} ELSE {})

(* The wait that was begun is over before the timeout. *)
InTime ==
  /\ pc = "wait" => wake = now + Wait /\ (block.timeout > 0 => wake <= block.timeout)
  /\ block.timeout > 0 /\ pc = "send" /\ Sent > 0 => now <= block.timeout
  /\ block.timeout > 0 /\ Sent > 1 => startAt <= block.timeout

WaitsOnAnAnswer == pc = "wait" => Sent > 0 /\ last.ok /\ last.until # "met"

GivesUpAtALimit ==
  pc = "done" /\ failure /\ last.until # "unreadable" =>
    \/ Sent = block.max
    \/ block.timeout > 0 /\ now + Wait > block.timeout
    \/ \E i \in 1..Sent : block.paging /\ pages[i] = last.cursor

RepeatInv ==
  /\ TypeOK /\ Counted /\ SeenIsSent /\ NextIsNew /\ Collected /\ HeldIsLast /\ InTime
  /\ WaitsOnAnAnswer /\ GivesUpAtALimit /\ PassesOnWhatItWaitedFor

(* The numbers and the fields that the steps below compute with. *)
LEMMA Numbers ==
  ASSUME TypeOK
  PROVE  /\ block.max \in Nat \ {0} /\ block.interval \in Nat /\ block.timeout \in Nat
         /\ block.paging \in BOOLEAN /\ block.start \in Cursor \cup {NoCursor}
         /\ last.ok \in BOOLEAN /\ last.ask \in Nat /\ last.cursor \in Cursor \cup {NoCursor}
         /\ Cap \in Nat /\ NoCursor \notin Cursor
         /\ Sent \in Nat /\ Wait \in Nat
<1>1. block \in BlockSet /\ last \in Response /\ pages \in Seq(Cursor \cup {NoCursor})
  BY RepeatAssumption, WaitAssumption DEF TypeOK
<1>2. /\ block.max \in Nat \ {0} /\ block.interval \in Nat /\ block.timeout \in Nat
      /\ block.paging \in BOOLEAN /\ block.start \in Cursor \cup {NoCursor}
  BY <1>1 DEF BlockSet
<1>3. last.ok \in BOOLEAN /\ last.ask \in Asks /\ last.cursor \in Cursor \cup {NoCursor}
  BY <1>1 DEF Response
<1>4. last.ask \in Nat /\ Cap \in Nat /\ NoCursor \notin Cursor
  BY <1>3, RepeatAssumption, WaitAssumption
<1>5. Sent \in Nat
  BY <1>1 DEF Sent
<1>6. Wait \in Nat
  BY <1>2, <1>4 DEF Wait
<1> QED BY <1>2, <1>3, <1>4, <1>5, <1>6

(* The wait is the interval or what was asked for, and neither is exceeded. *)
LEMMA WaitBounds ==
  ASSUME TypeOK
  PROVE  /\ Wait >= block.interval
         /\ Wait >= (IF last.ask > Cap THEN Cap ELSE last.ask)
         /\ Wait <= (IF Cap > block.interval THEN Cap ELSE block.interval)
  BY Numbers DEF Wait

(* Nothing has been sent when a step starts. *)
LEMMA RepeatInitInv == Init => RepeatInv
<1> SUFFICES ASSUME Init PROVE RepeatInv
  OBVIOUS
<1>1. NoResponse \in Response
  BY RepeatAssumption, WaitAssumption DEF NoResponse, Response
<1>2. << >> \in Seq(Cursor \cup {NoCursor}) /\ << >> \in Seq(Nat)
  OBVIOUS
<1>3. pages \in Seq(Cursor \cup {NoCursor}) /\ gathered \in Seq(Nat) /\ last \in Response
  BY <1>1, <1>2 DEF Init
<1>4. block.start \in Cursor \cup {NoCursor}
  BY RepeatAssumption, WaitAssumption DEF Init, BlockSet
<1>5. TypeOK
  BY <1>3, <1>4 DEF Init, TypeOK
<1>6. Sent = 0 /\ Len(gathered) = 0
  BY DEF Init, Sent
<1>7. block.max \in Nat \ {0}
  BY <1>5, Numbers
<1>i. pc = "send" /\ seen = {} /\ held = {} /\ ~failure /\ ~cut
  BY DEF Init
<1>8. Counted /\ Collected /\ HeldIsLast /\ InTime
  <2>1. Counted
    BY <1>6, <1>7, <1>i DEF Counted
  <2>2. Collected
    BY <1>6, <1>i DEF Collected
  <2>3. HeldIsLast
    BY <1>i DEF HeldIsLast
  <2>4. InTime
    BY <1>6, <1>i DEF InTime
  <2> QED BY <2>1, <2>2, <2>3, <2>4
<1>9. SeenIsSent /\ NextIsNew
  <2>1. SeenIsSent
    BY <1>6, <1>i DEF SeenIsSent
  <2>2. NextIsNew
    BY <1>6, <1>i DEF NextIsNew
  <2> QED BY <2>1, <2>2
<1>10. GivesUpAtALimit /\ WaitsOnAnAnswer /\ PassesOnWhatItWaitedFor
  BY DEF Init, GivesUpAtALimit, WaitsOnAnAnswer, PassesOnWhatItWaitedFor, Passed, Over
<1> QED BY <1>5, <1>8, <1>9, <1>10 DEF RepeatInv

(* No part of the invariant speaks of the context. *)
LEMMA ContextAlone ==
  ASSUME RepeatInv, ctxDone' \in BOOLEAN,
         UNCHANGED <<block, pc, now, cursor, seen, last, wake, stop, failure, cut, pages, held,
                     startAt, gathered>>
  PROVE  RepeatInv'
<1>1. Sent' = Sent /\ Wait' = Wait
  BY DEF Sent, Wait
<1>2. TypeOK'
  BY <1>1 DEF RepeatInv, TypeOK
<1>3. Counted' /\ Collected' /\ HeldIsLast'
  BY <1>1 DEF RepeatInv, Counted, Collected, HeldIsLast
<1>4. SeenIsSent' /\ NextIsNew'
  BY <1>1 DEF RepeatInv, SeenIsSent, NextIsNew
<1>5. InTime' /\ WaitsOnAnAnswer' /\ GivesUpAtALimit'
  BY <1>1 DEF RepeatInv, InTime, WaitsOnAnAnswer, GivesUpAtALimit
<1>6. PassesOnWhatItWaitedFor'
  BY <1>1 DEF RepeatInv, PassesOnWhatItWaitedFor, Passed, Over
<1> QED BY <1>2, <1>3, <1>4, <1>5, <1>6 DEF RepeatInv

(* An interrupt changes the context alone. *)
LEMMA InterruptStep == RepeatInv /\ Interrupt => RepeatInv'
  BY ContextAlone DEF Interrupt, stopVars, historyVars

(* The cursor that goes out was not sent before: NextIsNew before the step. *)
LEMMA SendStep == RepeatInv /\ Send => RepeatInv'
<1> SUFFICES ASSUME RepeatInv, Send PROVE RepeatInv'
  OBVIOUS
<1>1. TypeOK /\ pages \in Seq(Cursor \cup {NoCursor}) /\ cursor \in Cursor \cup {NoCursor}
  BY DEF RepeatInv, TypeOK
<1>2. /\ Sent \in Nat /\ Sent' = Sent + 1
      /\ \A i \in 1..Sent : pages'[i] = pages[i]
      /\ pages'[Sent + 1] = cursor
  BY <1>1 DEF Send, Sent
<1>3. /\ pc = "send" /\ pc' = "sending" /\ startAt' = now
      /\ UNCHANGED <<block, now, cursor, seen, last, wake, ctxDone, stop, failure, cut, held, gathered>>
  BY DEF Send, stopVars
<1>n. block.max \in Nat /\ block.timeout \in Nat /\ now \in Nat /\ held = {}
  BY <1>1, <1>3, Numbers DEF RepeatInv, TypeOK, HeldIsLast
<1>p. pages' \in Seq(Cursor \cup {NoCursor})
  BY <1>1 DEF Send
<1>4. TypeOK'
  BY <1>1, <1>p, <1>n, <1>3 DEF TypeOK
<1>5. Counted' /\ Collected' /\ HeldIsLast' /\ InTime'
  <2>1. Sent < block.max /\ ~failure /\ ~cut
    BY <1>3 DEF RepeatInv, Counted
  <2>2. Counted'
    BY <1>2, <1>3, <1>n, <2>1 DEF Counted
  <2>3. Collected'
    BY <1>2, <1>3 DEF RepeatInv, Collected
  <2>4. HeldIsLast'
    BY <1>3, <1>n DEF HeldIsLast
  <2>5. InTime'
    BY <1>2, <1>3, <1>n DEF RepeatInv, InTime
  <2> QED BY <2>2, <2>3, <2>4, <2>5
<1>6. SeenIsSent'
  <2>1. \A c \in seen : block.paging /\ \E i \in 1..Sent + 1 : pages'[i] = c
    BY <1>2, <1>3 DEF RepeatInv, SeenIsSent
  <2>2. ASSUME block.paging, NEW i \in 1..Sent + 1
        PROVE  pages'[i] \in seen \cup {NoCursor} \/ Sent = 0
    <3>1. CASE i \in 1..Sent
      BY <1>2, <1>3, <2>2, <3>1 DEF RepeatInv, SeenIsSent
    <3>2. CASE i = Sent + 1
      BY <1>2, <1>3, <2>2, <3>2 DEF RepeatInv, SeenIsSent
    <3> QED BY <1>2, <3>1, <3>2
  <2> QED BY <1>2, <1>3, <2>1, <2>2 DEF SeenIsSent
<1>7. NextIsNew'
  BY <1>2, <1>3 DEF RepeatInv, NextIsNew
<1>8. GivesUpAtALimit' /\ WaitsOnAnAnswer' /\ PassesOnWhatItWaitedFor'
  BY <1>3, <1>n DEF GivesUpAtALimit, WaitsOnAnAnswer, PassesOnWhatItWaitedFor, Passed, Over
<1> QED BY <1>4, <1>5, <1>6, <1>7, <1>8 DEF RepeatInv

(* The answer's outputs are collected, and the first cursor is remembered. *)
LEMMA AnsweredStep == RepeatInv /\ Answered => RepeatInv'
<1> SUFFICES ASSUME RepeatInv, Answered PROVE RepeatInv'
  OBVIOUS
<1>1. PICK r \in Responses, d \in 0..Slowest :
        /\ last' = r /\ now' = now + d /\ gathered' = Gather(r)
        /\ held' = IF r.ok /\ r.until = "met" THEN held \cup {Sent} ELSE held
  BY DEF Answered
<1>2. /\ pc = "sending" /\ pc' = "judge" /\ seen' = Remember /\ Sent' = Sent
      /\ UNCHANGED <<block, cursor, wake, ctxDone, stop, failure, cut, pages, startAt>>
  BY DEF Answered, stopVars, Sent
<1>3. /\ TypeOK /\ Sent \in Nat \ {0} /\ r \in Response /\ d \in Nat
      /\ gathered \in Seq(Nat) /\ Len(gathered) = Sent - 1 /\ r.ok \in BOOLEAN
  <2>1. TypeOK /\ Sent \in Nat \ {0} /\ Len(gathered) = Sent - 1
    BY <1>2, Numbers DEF RepeatInv, Counted, Collected
  <2>2. gathered \in Seq(Nat)
    BY <2>1 DEF TypeOK
  <2>3. r \in Response /\ r.ok \in BOOLEAN /\ d \in Nat
    BY RepeatAssumption, WaitAssumption DEF Responses, Response
  <2> QED BY <2>1, <2>2, <2>3
<1>4. /\ gathered' \in Seq(Nat)
      /\ Len(gathered') = (IF r.ok THEN Sent ELSE Sent - 1)
      /\ \A i \in 1..Len(gathered) : gathered'[i] = gathered[i]
      /\ r.ok => gathered'[Sent] = Sent
  BY <1>1, <1>3 DEF Gather
<1>5. seen \subseteq seen' /\ seen' \subseteq seen \cup {cursor} /\ seen' \subseteq Cursor
      /\ (seen' # seen => block.paging)
  BY <1>2, <1>3 DEF Remember, TypeOK
<1>6. held = {} /\ cursor = pages[Sent]
  BY <1>2 DEF RepeatInv, HeldIsLast, SeenIsSent
<1>7. TypeOK'
  <2>1. held' \subseteq 1..Sent
    BY <1>1, <1>3, <1>6
  <2>2. now \in Nat
    BY <1>3 DEF TypeOK
  <2>3. now' \in Nat
    BY <1>1, <1>3, <2>2
  <2>4. last' \in Response
    BY <1>1, <1>3
  <2> QED BY <1>2, <1>3, <1>4, <1>5, <2>1, <2>3, <2>4 DEF TypeOK
<1>8. Counted' /\ InTime'
  BY <1>2, <1>3 DEF RepeatInv, Counted, InTime
<1>9. Collected'
  <2>1. \A i \in 1..Len(gathered') : gathered'[i] = i
    BY <1>3, <1>4 DEF RepeatInv, Collected
  <2> QED BY <1>1, <1>2, <1>4, <2>1 DEF Collected
<1>10. HeldIsLast'
  BY <1>1, <1>2, <1>6 DEF HeldIsLast
<1>11. SeenIsSent'
  <2>1. \A c \in seen' : block.paging /\ \E i \in 1..Sent : pages[i] = c
    BY <1>2, <1>3, <1>5, <1>6 DEF RepeatInv, SeenIsSent
  <2>2. block.paging => \A i \in 1..Sent : pages[i] \in seen' \cup {NoCursor}
    <3>1. CASE Sent = 1
      BY <1>2, <1>6, <3>1 DEF Remember
    <3>2. CASE Sent # 1
      BY <1>2, <1>5, <3>2 DEF RepeatInv, SeenIsSent
    <3> QED BY <3>1, <3>2
  <2> QED BY <1>2, <2>1, <2>2 DEF SeenIsSent
<1>12. NextIsNew'
  BY <1>2 DEF RepeatInv, NextIsNew
<1>13. GivesUpAtALimit' /\ PassesOnWhatItWaitedFor' /\ WaitsOnAnAnswer'
  BY <1>1, <1>2, <1>3, <1>6 DEF GivesUpAtALimit, WaitsOnAnAnswer, PassesOnWhatItWaitedFor, Passed, Over
<1> QED BY <1>7, <1>8, <1>9, <1>10, <1>11, <1>12, <1>13 DEF RepeatInv

(* The step stops for the reason it says. *)
LEMMA StopStep == RepeatInv /\ Stop => RepeatInv'
<1> SUFFICES ASSUME RepeatInv, Stop PROVE RepeatInv'
  OBVIOUS
<1>1. /\ pc = "judge" /\ pc' = "done" /\ Reason # "" /\ stop' = Reason
      /\ failure' = (Reason \in {"loop", "max", "timeout"} \/ (last.ok /\ last.until = "unreadable"))
      /\ UNCHANGED <<block, now, cursor, seen, last, wake, ctxDone, cut, pages, held, startAt, gathered>>
  BY DEF Stop, historyVars
<1>2. TypeOK /\ Sent' = Sent /\ Wait' = Wait /\ Sent \in Nat /\ cut = FALSE
  BY <1>1, Numbers DEF RepeatInv, Sent, Wait, Counted, TypeOK
<1>3. Reason \in {"until", "exhausted", "loop", "max", "timeout", "error"}
  BY <1>1 DEF Reason
<1>4. TypeOK'
  BY <1>1, <1>2, <1>3 DEF TypeOK, Sent
<1>5. Counted' /\ SeenIsSent' /\ NextIsNew' /\ Collected' /\ HeldIsLast' /\ InTime'
  BY <1>1, <1>2 DEF RepeatInv, Counted, SeenIsSent, NextIsNew, Collected, HeldIsLast, InTime
<1>0. WaitsOnAnAnswer'
  BY <1>1 DEF WaitsOnAnAnswer
<1>6. GivesUpAtALimit'
  <2> SUFFICES ASSUME Reason \in {"loop", "max", "timeout"}
               PROVE  \/ Sent = block.max
                      \/ block.timeout > 0 /\ now + Wait > block.timeout
                      \/ \E i \in 1..Sent : block.paging /\ pages[i] = last.cursor
    BY <1>1, <1>2 DEF GivesUpAtALimit
  <2>1. CASE Reason = "loop"
    BY <1>1, <2>1 DEF Reason, Looped, RepeatInv, SeenIsSent
  <2>2. CASE Reason = "max"
    <3>1. Sent >= block.max
      BY <2>2 DEF Reason, AtMax
    <3> QED BY <1>2, <3>1, Numbers DEF RepeatInv, Counted
  <2>3. CASE Reason = "timeout"
    BY <2>3 DEF Reason, TooLate
  <2> QED BY <2>1, <2>2, <2>3
<1>7. PassesOnWhatItWaitedFor'
  <2>1. held = (IF last.ok /\ last.until = "met" THEN {Sent} ELSE {})
    BY <1>1 DEF RepeatInv, HeldIsLast
  <2>2. held \subseteq {Sent}
    BY <2>1
  <2>3. held # {} => last.ok /\ ~failure'
    BY <1>1, <2>1 DEF Reason
  <2>4. last.ok /\ ~failure' => Sent \in held \/ (block.paging /\ last.cursor = NoCursor)
    BY <1>1, <2>1 DEF Reason, Exhausted
  <2> QED BY <1>1, <1>2, <2>2, <2>3, <2>4 DEF PassesOnWhatItWaitedFor, Passed, Over
<1> QED BY <1>0, <1>4, <1>5, <1>6, <1>7 DEF RepeatInv

(* Only a response that stops nothing is waited on. *)
LEMMA StartWaitStep == RepeatInv /\ StartWait => RepeatInv'
<1> SUFFICES ASSUME RepeatInv, StartWait PROVE RepeatInv'
  OBVIOUS
<1>1. /\ pc = "judge" /\ pc' = "wait" /\ Reason = "" /\ wake' = now + Wait
      /\ UNCHANGED <<block, now, cursor, seen, last, ctxDone, stop, failure, cut, pages, held, startAt, gathered>>
  BY DEF StartWait, historyVars, stopVars
<1>2. TypeOK /\ Sent' = Sent /\ Wait' = Wait /\ Sent \in Nat /\ Wait \in Nat /\ now \in Nat
  BY <1>1, Numbers DEF RepeatInv, Sent, Wait, TypeOK
<1>3. last.ok /\ last.until # "met" /\ ~Exhausted /\ ~Looped /\ ~AtMax /\ ~TooLate(Wait)
  BY <1>1 DEF Reason
<1>m. block.max \in Nat /\ block.timeout \in Nat
  BY <1>2, Numbers
<1>n. wake' \in Nat
  <2>1. wake' = now + Wait
    BY <1>1
  <2>2. now \in Nat /\ Wait \in Nat
    BY <1>2
  <2> QED BY <2>1, <2>2
<1>4. TypeOK'
  BY <1>1, <1>2, <1>n DEF TypeOK
<1>5. Counted' /\ InTime'
  <2>1. Sent < block.max
    BY <1>2, <1>3, <1>m DEF AtMax
  <2>2. ~failure /\ ~cut
    BY <1>1 DEF RepeatInv, Counted
  <2>3. Counted'
    <3>1. pc' = "wait" /\ block' = block /\ ~failure' /\ ~cut'
      BY <1>1, <2>2
    <3>2. Sent' = Sent /\ Sent \in Nat /\ Sent > 0
      BY <1>1, <1>2 DEF RepeatInv, Counted
    <3> QED BY <1>m, <2>1, <3>1, <3>2 DEF Counted
  <2>4. block.timeout > 0 => now + Wait <= block.timeout
    BY <1>2, <1>3, <1>m DEF TooLate
  <2>5. block.timeout > 0 /\ Sent > 1 => startAt <= block.timeout
    BY DEF RepeatInv, InTime
  <2>6. InTime'
    BY <1>1, <1>2, <1>m, <2>4, <2>5 DEF InTime
  <2> QED BY <2>3, <2>6
<1>6. SeenIsSent' /\ Collected' /\ HeldIsLast'
  BY <1>1, <1>2, <1>3 DEF RepeatInv, SeenIsSent, Collected, HeldIsLast
<1>7. NextIsNew'
  BY <1>1, <1>2, <1>3 DEF RepeatInv, NextIsNew, Exhausted, Looped
<1>8. GivesUpAtALimit' /\ PassesOnWhatItWaitedFor' /\ WaitsOnAnAnswer'
  BY <1>1, <1>2, <1>3, <1>6 DEF RepeatInv, Counted, GivesUpAtALimit, WaitsOnAnAnswer, PassesOnWhatItWaitedFor, Passed, Over, HeldIsLast
<1> QED BY <1>4, <1>5, <1>6, <1>7, <1>8 DEF RepeatInv

(* A wait that is interrupted leaves the last response as it was. *)
LEMMA CancelWaitStep == RepeatInv /\ CancelWait => RepeatInv'
<1> SUFFICES ASSUME RepeatInv, CancelWait PROVE RepeatInv'
  OBVIOUS
<1>1. /\ pc = "wait" /\ pc' = "done" /\ cut' /\ cut' \in BOOLEAN /\ stop' = "error"
      /\ UNCHANGED <<block, now, cursor, seen, last, wake, ctxDone, failure, pages, held, startAt, gathered>>
  BY DEF CancelWait, historyVars
<1>2. TypeOK /\ Sent' = Sent /\ Wait' = Wait /\ Sent \in Nat /\ ~failure /\ held = {}
  BY <1>1, Numbers DEF RepeatInv, Sent, Wait, Counted, HeldIsLast
<1>3. TypeOK'
  BY <1>1, <1>2 DEF TypeOK, Sent
<1>4. Sent > 0 /\ last.ok /\ last.until # "met"
  BY <1>1 DEF RepeatInv, WaitsOnAnAnswer
<1>5. Counted' /\ SeenIsSent' /\ NextIsNew' /\ Collected' /\ HeldIsLast' /\ InTime'
  BY <1>1, <1>2, <1>4 DEF RepeatInv, Counted, SeenIsSent, NextIsNew, Collected, HeldIsLast, InTime
<1>6. GivesUpAtALimit' /\ PassesOnWhatItWaitedFor' /\ WaitsOnAnAnswer'
  BY <1>1, <1>2 DEF GivesUpAtALimit, WaitsOnAnAnswer, PassesOnWhatItWaitedFor, Passed, Over
<1> QED BY <1>3, <1>5, <1>6 DEF RepeatInv

(* The next cursor is put in seen before it is sent. *)
LEMMA WakeStep == RepeatInv /\ Wake => RepeatInv'
<1> SUFFICES ASSUME RepeatInv, Wake PROVE RepeatInv'
  OBVIOUS
<1>1. /\ pc = "wait" /\ pc' = "send" /\ now' = wake
      /\ IF block.paging THEN cursor' = last.cursor /\ seen' = seen \cup {last.cursor}
         ELSE UNCHANGED <<cursor, seen>>
      /\ UNCHANGED <<block, last, wake, ctxDone, stop, failure, cut, pages, held, startAt, gathered>>
  BY DEF Wake, historyVars, stopVars
<1>2. TypeOK /\ Sent' = Sent /\ Sent \in Nat /\ last.cursor \in Cursor \cup {NoCursor}
  BY <1>1, Numbers DEF RepeatInv, Sent
<1>3. block.paging => last.cursor # NoCursor /\ last.cursor \notin seen
  BY <1>1 DEF RepeatInv, NextIsNew
<1>4. TypeOK'
  BY <1>1, <1>2, <1>3 DEF TypeOK, Sent
<1>5. Counted' /\ Collected' /\ HeldIsLast' /\ InTime'
  BY <1>1, <1>2 DEF RepeatInv, Counted, Collected, HeldIsLast, InTime
<1>6. SeenIsSent'
  BY <1>1, <1>2 DEF RepeatInv, SeenIsSent
<1>7. NextIsNew'
  BY <1>1, <1>2, <1>3 DEF RepeatInv, NextIsNew, SeenIsSent
<1>8. GivesUpAtALimit' /\ PassesOnWhatItWaitedFor' /\ WaitsOnAnAnswer'
  BY <1>1, <1>2, <1>5 DEF GivesUpAtALimit, WaitsOnAnAnswer, PassesOnWhatItWaitedFor, Passed, Over, HeldIsLast
<1> QED BY <1>4, <1>5, <1>6, <1>7, <1>8 DEF RepeatInv

(* Nothing changes. *)
LEMMA StutterStep == RepeatInv /\ UNCHANGED vars => RepeatInv'
<1> SUFFICES ASSUME RepeatInv, UNCHANGED vars PROVE RepeatInv'
  OBVIOUS
<1>1. ctxDone' \in BOOLEAN
  BY DEF vars, RepeatInv, TypeOK
<1> QED BY <1>1, ContextAlone DEF vars, stopVars, historyVars

(* The invariant that the three theorems below rest on. *)
THEOREM RepeatInvariant == Spec => []RepeatInv
<1>1. RepeatInv /\ [Next]_vars => RepeatInv'
  BY InterruptStep, SendStep, AnsweredStep, StopStep, StartWaitStep, CancelWaitStep, WakeStep,
     StutterStep DEF Next, Progress, Returned
<1> QED BY <1>1, RepeatInitInv, PTL DEF Spec

(* What the invariant says of the pages. *)
LEMMA RepeatInvPages == RepeatInv => EveryPageOnce
<1> SUFFICES ASSUME RepeatInv PROVE EveryPageOnce
  OBVIOUS
<1>1. TypeOK /\ Sent \in Nat /\ Len(gathered) \in Nat
  <2>1. TypeOK /\ Sent \in Nat
    BY Numbers DEF RepeatInv
  <2>2. gathered \in Seq(Nat)
    BY <2>1 DEF TypeOK
  <2> QED BY <2>1, <2>2
<1>2. pc \in {"send", "sending", "judge", "wait", "done"}
  BY <1>1 DEF TypeOK
<1>3. Sent - Len(gathered) \in 0..1
  BY <1>1, <1>2 DEF RepeatInv, Collected
<1> QED BY <1>1, <1>3 DEF RepeatInv, NextIsNew, Collected, EveryPageOnce, Passed, Over

(* And of the limits. *)
LEMMA RepeatInvLimits == RepeatInv => KeepsItsLimits
<1> SUFFICES ASSUME RepeatInv PROVE KeepsItsLimits
  OBVIOUS
<1>1. TypeOK /\ now \in Nat /\ wake \in Nat
  BY DEF RepeatInv, TypeOK
<1>2. Sent <= block.max /\ (block.timeout > 0 /\ Sent > 1 => startAt <= block.timeout)
  BY DEF RepeatInv, Counted, InTime
<1>3. pc = "wait" => wake >= now + block.interval
                     /\ wake >= now + (IF last.ask > Cap THEN Cap ELSE last.ask)
  BY <1>1, Numbers, WaitBounds DEF RepeatInv, InTime
<1>4. Over /\ failure /\ last.until # "unreadable" =>
        \/ Sent = block.max
        \/ block.timeout > 0 /\ now + (IF Cap > block.interval THEN Cap ELSE block.interval) > block.timeout
        \/ \E i \in 1..Sent : block.paging /\ pages[i] = last.cursor
  BY <1>1, Numbers, WaitBounds DEF RepeatInv, GivesUpAtALimit, Over
<1> QED BY <1>2, <1>3, <1>4 DEF KeepsItsLimits

(* A listing is read and collected page by page, each page once, whatever
   cursors the API gives. *)
THEOREM PagesAreReadOnce == Spec => []EveryPageOnce
  BY RepeatInvPages, RepeatInvariant, PTL

(* A step passes only when its last response met the condition, or was the last
   page, and stops at the first response that meets it. *)
THEOREM PassesOnItsCondition == Spec => []PassesOnWhatItWaitedFor
<1>1. RepeatInv => PassesOnWhatItWaitedFor
  BY DEF RepeatInv
<1> QED BY <1>1, RepeatInvariant, PTL

(* A step sends no more than max requests, starts none past its timeout, waits
   as long as it was told to, and gives up only at a limit or on a page it has
   read. *)
THEOREM LimitsAreKept == Spec => []KeepsItsLimits
  BY RepeatInvLimits, RepeatInvariant, PTL

-----------------------------------------------------------------------------
(* Between requests, and before its only one is sent, nothing is left of the
   retries; a step without a block has nothing of a repetition. *)
Fresh ==
  /\ attemptPc = "send" /\ attempt = 0 /\ answer = "ok" /\ asked = 0 /\ waited = 0 /\ wait = 0
  /\ cancelled = FALSE /\ action = "none" /\ retryCount = 0 /\ retriedOn = <<>>
  /\ sent = 0 /\ acted = 0

Single ==
  /\ pc \in {"sending", "done"} /\ pages = <<>> /\ gathered = <<>> /\ held = {}
  /\ last = NoResponse /\ failure = FALSE

StepInv ==
  /\ RetryInv
  /\ repeated \in BOOLEAN
  /\ repeated => step.role = "plain" /\ RepeatInv /\ (pc # "sending" => Fresh)
  /\ ~repeated => Single

(* A request starts as a step's only one does, also after an interrupt. *)
LEMMA FreshInv == step \in Steps /\ ctxDone \in BOOLEAN /\ Fresh => RetryInv
<1> SUFFICES ASSUME step \in Steps, ctxDone \in BOOLEAN, Fresh PROVE RetryInv
  OBVIOUS
<1>1. RetryTypeOK
  <2>1. << >> \in Seq(Category)
    OBVIOUS
  <2>2. retriedOn \in Seq(Category)
    BY <2>1 DEF Fresh
  <2> QED BY <2>2, WaitAssumption DEF Fresh, RetryTypeOK
<1>2. Policy(step).max \in Nat
  BY <1>1, RetryStepTypes
<1> QED BY <1>1, <1>2, WaitAssumption
        DEF Fresh, RetryInv, NoEffectYet, SentByAttempt, WaitIsDue, GivesUpOnlyWhen

(* A repeated step starts as StepRepeat does, and one without a block in its
   only request. *)
LEMMA StepStarts == StepInit => StepInv /\ (repeated => Init)
<1> SUFFICES ASSUME StepInit PROVE StepInv /\ (repeated => Init)
  OBVIOUS
<1>1. PICK c \in Cases : step = c.step /\ block = c.block /\ repeated = c.repeated
  BY DEF StepInit
<1>2. /\ step \in Steps /\ block \in Blocks /\ repeated \in BOOLEAN
      /\ repeated => step.role = "plain"
  BY <1>1, CaseAssumption
<1>3. RetryInv
  BY RetryInitInv DEF StepInit
<1>4. repeated => Init
  BY <1>2 DEF StepInit, RetryInit, Init
<1>5. Fresh
  BY DEF StepInit, RetryInit, Fresh
<1>6. ~repeated => Single
  BY DEF StepInit, Single
<1> QED BY <1>2, <1>3, <1>4, <1>5, <1>6, RepeatInitInv DEF StepInv

(* What a step does while it is repeated is a step of StepRepeat, or one of the
   retries of the request at hand, which the repetition does not see. *)
LEMMA RepeatedAlike ==
  ASSUME repeated, [StepNext]_stepVars PROVE repeated' = repeated /\ [Next]_vars
<1>1. CASE StepInterrupt
  BY <1>1 DEF StepInterrupt, repeatVars, Interrupt, Next
<1>2. CASE SendPage
  BY <1>2 DEF SendPage, Next, Progress
<1>3. CASE Attempt
  <2>1. ctxDone' = ctxDone
    BY <1>3 DEF Attempt, RetryProgress, SendAttempt, Accept, OutOfRetries, CancelBeforeWait, Refuse,
       AskedTooLong, StartBackoff, Tick, CancelInWait, Resend
  <2> QED BY <1>3, <2>1 DEF Attempt, repeatVars, vars
<1>4. CASE PageAnswered
  BY <1>4 DEF PageAnswered, Next, Progress
<1>5. CASE OnlyAnswer
  BY <1>5 DEF OnlyAnswer
<1>6. CASE Between
  BY <1>6 DEF Between, Next, Progress
<1>7. CASE UNCHANGED stepVars
  BY <1>7 DEF stepVars
<1> QED BY <1>1, <1>2, <1>3, <1>4, <1>5, <1>6, <1>7 DEF StepNext, StepProgress, StepOver

(* A step of StepRepeat keeps its invariant. *)
LEMMA RepeatStep == RepeatInv /\ [Next]_vars => RepeatInv'
  BY InterruptStep, SendStep, AnsweredStep, StopStep, StartWaitStep, CancelWaitStep, WakeStep,
     StutterStep DEF Next, Progress, Returned

(* The retries of each request keep their invariant, and every request starts
   with none. *)
LEMMA RetriesKeep == ASSUME StepInv, [StepNext]_stepVars PROVE RetryInv'
<1>0. RetryInv
  BY DEF StepInv
<1>1. CASE StepInterrupt
  <2>1. CASE attemptPc # "done"
    <3>1. RetryInterrupt
      BY <1>1, <2>1 DEF StepInterrupt, RetryInterrupt
    <3> QED BY <1>0, <3>1, RetryInvStep DEF RetryNext
  <2>2. CASE attemptPc = "done"
    <3>1. UNCHANGED <<step, attemptPc, attempt, answer, asked, waited, wait, cancelled, action,
                      retryCount, retriedOn, sent, acted>> /\ ctxDone' = TRUE
      BY <1>1 DEF StepInterrupt, resultVars
    <3> QED BY <1>0, <3>1 DEF RetryInv, RetryTypeOK, NoEffectYet, SentByAttempt, WaitIsDue,
               GivesUpOnlyWhen, Told, MayAct, Policy, Written
  <2> QED BY <2>1, <2>2
<1>2. CASE PageAnswered
  <2>1. Fresh' /\ step' = step /\ ctxDone' = ctxDone
    BY <1>2 DEF PageAnswered, Answered, Fresh
  <2>2. step' \in Steps /\ ctxDone' \in BOOLEAN
    BY <1>0, <2>1 DEF RetryInv, RetryTypeOK
  <2>3. (step \in Steps /\ ctxDone \in BOOLEAN /\ Fresh => RetryInv)'
    BY FreshInv, PTL
  <2> QED BY <2>1, <2>2, <2>3
<1>3. CASE Attempt
  BY <1>0, <1>3, RetryInvStep DEF Attempt, RetryNext
<1>4. CASE SendPage \/ OnlyAnswer \/ Between \/ UNCHANGED stepVars
  <2>1. UNCHANGED retryVars
    BY <1>4 DEF SendPage, OnlyAnswer, Between, stepVars
  <2> QED BY <1>0, <2>1, RetryInvStep
<1> QED BY <1>1, <1>2, <1>3, <1>4 DEF StepNext, StepProgress, StepOver

(* The step keeps the invariant of its retries and that of its repetition. *)
LEMMA StepKeeps == StepInv /\ [StepNext]_stepVars => StepInv'
<1> SUFFICES ASSUME StepInv, [StepNext]_stepVars PROVE StepInv'
  OBVIOUS
<1>1. RetryInv' /\ step' = step /\ repeated' = repeated /\ repeated' \in BOOLEAN
  <2>1. step' = step
    BY DEF StepNext, StepProgress, StepOver, StepInterrupt, SendPage, Attempt, PageAnswered,
       OnlyAnswer, Between, stepVars, retryVars, RetryProgress, SendAttempt, Accept, OutOfRetries,
       CancelBeforeWait, Refuse, AskedTooLong, StartBackoff, Tick, CancelInWait, Resend
  <2>2. repeated' = repeated
    BY DEF StepNext, StepProgress, StepOver, StepInterrupt, SendPage, Attempt, PageAnswered,
       OnlyAnswer, Between, stepVars
  <2> QED BY <2>1, <2>2, RetriesKeep DEF StepInv
<1>2. ASSUME repeated PROVE RepeatInv' /\ (pc' # "sending" => Fresh')
  <2>1. RepeatInv'
    BY <1>2, RepeatedAlike, RepeatStep DEF StepInv
  <2>2. pc' # "sending" => Fresh'
    <3>1. CASE pc = "sending"
      BY <1>2, <3>1 DEF StepNext, StepProgress, StepOver, StepInterrupt, SendPage, Send, Attempt,
         PageAnswered, OnlyAnswer, Between, Stop, StartWait, CancelWait, Wake, repeatVars, stepVars,
         vars, Fresh
    <3>2. CASE pc # "sending" /\ UNCHANGED retryVars
      BY <1>2, <3>2 DEF StepInv, Fresh, retryVars, resultVars
    <3>3. CASE StepInterrupt
      BY <1>2, <3>3 DEF StepInterrupt, repeatVars, resultVars, StepInv, Fresh
    <3> QED BY <3>1, <3>2, <3>3 DEF StepNext, StepProgress, StepOver, SendPage, Attempt,
               PageAnswered, RequestOver, OnlyAnswer, Between, stepVars
  <2> QED BY <2>1, <2>2
<1>3. ASSUME ~repeated PROVE Single'
  <2>1. Single
    BY <1>3 DEF StepInv
  <2> QED BY <1>3, <2>1 DEF Single, StepNext, StepProgress, StepOver, StepInterrupt, SendPage, Send,
             Attempt, PageAnswered, OnlyAnswer, Between, Stop, StartWait, CancelWait, Wake,
             repeatVars, stepVars, vars, stopVars, historyVars
<1> QED BY <1>1, <1>2, <1>3 DEF StepInv

(* The invariant of the step that does both. *)
LEMMA StepInvHolds == StepSpec => []StepInv
  BY StepStarts, StepKeeps, PTL DEF StepSpec

(* What the repetition promises holds of a step without a block as well. *)
LEMMA SinglePasses == Single => EveryPageOnce /\ PassesOnWhatItWaitedFor
<1> SUFFICES ASSUME Single PROVE EveryPageOnce /\ PassesOnWhatItWaitedFor
  OBVIOUS
<1>1. Sent = 0 /\ Len(gathered) = 0 /\ last.ok = FALSE /\ held = {}
  BY DEF Single, Sent, NoResponse
<1> QED BY <1>1 DEF EveryPageOnce, PassesOnWhatItWaitedFor, Passed

(* A repeated step whose requests are retried in full implements StepRepeat, in
   which a request is one pair of actions (engine/repeat.go
   executeStepRepeated calls executeStepWithRetry for each request). *)
THEOREM RequestsAreRetriedWithin == StepSpec /\ repeated => Spec
<1>1. repeated /\ [StepNext]_stepVars => repeated' /\ [Next]_vars
  BY RepeatedAlike
<1> QED BY <1>1, StepStarts, PTL DEF StepSpec, Spec

(* Repeated or not, each request of a step that was not told to retry has one
   effect at most; no request goes out before its server asked for it; and a
   rate limit is given up on for a reason alone (engine/retry.go
   executeStepWithTracking). *)
THEOREM RequestsKeepTheirPolicy == StepSpec => [](OnceUnlessTold /\ WaitsAreKept /\ GivesUpOnlyWhen)
<1>1. StepInv => OnceUnlessTold /\ WaitsAreKept /\ GivesUpOnlyWhen
  BY RetryInvEffects, RetryInvWaits DEF StepInv, RetryInv
<1> QED BY <1>1, StepInvHolds, PTL

(* However often its requests are retried, limited or interrupted, a step reads
   and collects each page once and passes on what it waited for alone. *)
THEOREM RetriedStepsRepeat == StepSpec => [](EveryPageOnce /\ PassesOnWhatItWaitedFor)
<1>1. StepInv => EveryPageOnce /\ PassesOnWhatItWaitedFor
  BY RepeatInvPages, SinglePasses DEF StepInv, RepeatInv
<1> QED BY <1>1, StepInvHolds, PTL
=============================================================================
