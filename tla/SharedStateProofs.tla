--------------------------- MODULE SharedStateProofs ---------------------------
(***************************************************************************)
(* What callers share.  For any number of requests and runs, any interval, *)
(* clock bound, lifetime and buffer: the slots the pacer hands out are an  *)
(* interval apart and none is given up, also when the runs of a batch share*)
(* it, and the token that those share is fetched when it is needed and     *)
(* serves its life.  And for any catalog, prices, callers and number of    *)
(* orders, what the shop's orders, payments, shipments and returns say of  *)
(* each other, and that a client that reads every page of the orders       *)
(* misses none.                                                            *)
(***************************************************************************)
EXTENDS PacedRuns, SandboxShop, Integers, FiniteSetTheorems, WellFoundedInduction, TLAPS

(* Every slot ends before p.next, and p.next is one interval past the last
   slot, which is why a new slot is clear of all of them. *)
NextAfterSlots == \A r \in Reserved : slot[r] + Interval <= next
NextFollowsASlot == next = 0 \/ \E q \in Reserved : next = slot[q] + Interval

PacerInv ==
  /\ TypeOK
  /\ NextAfterSlots
  /\ NextFollowsASlot
  /\ SlotsSpaced
  /\ NoIdleGap

(* No slot is taken at the start. *)
LEMMA InitInv == Init => PacerInv
  BY PacerAssumption
  DEF Init, PacerInv, TypeOK, NextAfterSlots, NextFollowsASlot, SlotsSpaced,
      NoIdleGap, Reserved, Phase

(* A step that reserves nothing leaves the slots, p.next and the set of the
   requests that hold a slot alone. *)
LEMMA QuietStep ==
  ASSUME PacerInv,
         TypeOK',
         UNCHANGED <<next, slot, askedAt>>,
         Reserved' = Reserved
  PROVE  PacerInv'
  BY DEF PacerInv, NextAfterSlots, NextFollowsASlot, SlotsSpaced, NoIdleGap, Reserved

(* A new slot is an interval past every other: next was. *)
LEMMA ReserveStep ==
  ASSUME PacerInv, NEW r \in Request, Reserve(r)
  PROVE  PacerInv'
<1> USE PacerAssumption
<1>1. TypeOK'
  BY DEF PacerInv, TypeOK, Reserve, Start, NextAfter, Phase
<1>2. Reserved' = Reserved \cup {r} /\ r \notin Reserved
  BY DEF PacerInv, TypeOK, Reserve, Reserved, Phase
<1>3. \A q \in Reserved : slot'[q] = slot[q] /\ askedAt'[q] = askedAt[q]
  BY <1>2 DEF PacerInv, TypeOK, Reserve, Reserved
<1>4. /\ slot'[r] = Start
      /\ askedAt'[r] = now
      /\ next' = Start + Interval
  BY DEF PacerInv, TypeOK, Reserve, NextAfter
<1>5. Start \in Nat /\ Start >= next
  BY DEF PacerInv, TypeOK, Start
<1>6. \A q \in Reserved : slot[q] \in Nat /\ slot[q] + Interval <= Start
  BY <1>5 DEF PacerInv, TypeOK, NextAfterSlots, Reserved
<1>7. NextAfterSlots'
  BY <1>2, <1>3, <1>4, <1>5, <1>6 DEF NextAfterSlots
<1>8. NextFollowsASlot'
  BY <1>2, <1>4 DEF NextFollowsASlot
<1>9. SlotsSpaced'
  BY <1>2, <1>3, <1>4, <1>6 DEF PacerInv, SlotsSpaced
<1>10. NoIdleGap'
  <2>1. Start = now \/ \E q \in Reserved : Start = slot[q] + Interval
    BY DEF PacerInv, TypeOK, NextFollowsASlot, Start
  <2>2. QED
    BY <2>1, <1>2, <1>3, <1>4 DEF PacerInv, NoIdleGap
<1>11. QED
  BY <1>1, <1>7, <1>8, <1>9, <1>10 DEF PacerInv

(* One case per action; only Reserve moves a slot. *)
LEMMA NextInv == PacerInv /\ [Next]_vars => PacerInv'
<1> SUFFICES ASSUME PacerInv, [Next]_vars PROVE PacerInv'
  OBVIOUS
<1>1. CASE Tick
  <2>1. TypeOK'
    BY <1>1 DEF PacerInv, TypeOK, Tick
  <2>2. QED
    BY <1>1, <2>1, QuietStep DEF Tick, Reserved
<1>2. ASSUME NEW r \in Request, Reserve(r) PROVE PacerInv'
  BY <1>2, ReserveStep
<1>3. ASSUME NEW r \in Request, StartAtOnce(r) \/ Arm(r) \/ Fire(r) \/ Cancel(r)
      PROVE  PacerInv'
  <2>1. TypeOK'
    BY <1>3 DEF PacerInv, TypeOK, StartAtOnce, Arm, Fire, Cancel, Phase
  <2>2. UNCHANGED <<next, slot, askedAt>> /\ Reserved' = Reserved
    BY <1>3 DEF PacerInv, TypeOK, StartAtOnce, Arm, Fire, Cancel, Reserved
  <2>3. QED
    BY <2>1, <2>2, QuietStep
<1>4. CASE UNCHANGED vars
  <2>1. TypeOK' /\ Reserved' = Reserved
    BY <1>4 DEF PacerInv, TypeOK, Reserved, vars
  <2>2. QED
    BY <1>4, <2>1, QuietStep DEF vars
<1>5. QED
  BY <1>1, <1>2, <1>3, <1>4 DEF Next

(* The invariant that the two theorems below rest on. *)
LEMMA InvariantHolds == Spec => []PacerInv
  BY InitInv, NextInv, PTL DEF Spec

(* The pacer spaces the slots of all requests, cancelled ones included. *)
THEOREM SlotsAreSpaced == Spec => []SlotsSpaced
<1>1. PacerInv => SlotsSpaced
  BY DEF PacerInv
<1>2. QED
  BY <1>1, InvariantHolds, PTL

(* The pacer holds a request back only behind another request. *)
THEOREM NoSlotIsIdle == Spec => []NoIdleGap
<1>1. PacerInv => NoIdleGap
  BY DEF PacerInv
<1>2. QED
  BY <1>1, InvariantHolds, PTL

-----------------------------------------------------------------------------
(* The runs of a batch use the pacer as any requests do. *)
THEOREM PacedRunsPace == PacedSpec => Spec
<1>1. PacedInit => Init
  BY DEF PacedInit
<1>2. [PacedNext]_pacedVars => [Next]_vars
  <2> SUFFICES ASSUME [PacedNext]_pacedVars PROVE [Next]_vars
    OBVIOUS
  <2>1. CASE TimePasses
    BY <2>1 DEF TimePasses, Next
  <2>2. CASE AuthStep
    <3>1. now' = now
      BY <2>2 DEF AuthStep, Auth!AuthNext, Auth!Ask, Auth!TakeCached, Auth!BeginFetch, Auth!Issue,
                  Auth!EndFetch, Auth!FetchFails
    <3> QED BY <2>2, <3>1 DEF AuthStep, vars
  <2>3. ASSUME NEW r \in Request, PaceStep(r) PROVE Next
    BY <2>3 DEF PaceStep, Next
  <2>4. CASE UNCHANGED pacedVars
    BY <2>4 DEF pacedVars
  <2> QED BY <2>1, <2>2, <2>3, <2>4 DEF PacedNext
<1> QED BY <1>1, <1>2, PTL DEF PacedSpec, Spec

(* A token that was issued; its answer takes some time, which is known later. *)
Token == [life : Nat, issued : Int]
Fetch == [by : Run, begun : Nat, ok : BOOLEAN, until : Int, latency : Int]

TokenTypes ==
  /\ holder \in Run \cup {Auth!Nobody}
  /\ token \in Token /\ expiresAt \in Int
  /\ at \in [Run -> {"idle", "waiting", "fetching", "answered", "has", "failed"}]
  /\ held \in [Run -> [token : Token, when : Nat, latency : Int]]
  /\ fetches \in Seq(Fetch)

(* The one who fetches holds the mutex, and its fetch is the last one; nobody
   fetches twice. *)
OneFetches ==
  /\ \A c \in Run : at[c] \in {"fetching", "answered"} <=> holder = c
  /\ \A i \in 1..Len(fetches) : at[fetches[i].by] \notin {"idle", "waiting"}
  /\ \A i, j \in 1..Len(fetches) : fetches[i].by = fetches[j].by => i = j
  /\ holder # Auth!Nobody =>
       /\ Len(fetches) > 0
       /\ fetches[Len(fetches)].by = holder /\ ~fetches[Len(fetches)].ok

(* A token that was fetched is the cached one, or it was to be renewed before
   now. *)
OldOnesAreOver ==
  \A j \in 1..Len(fetches) : fetches[j].ok =>
    \/ holder = Auth!Nobody /\ token # Auth!NoToken /\ expiresAt = fetches[j].until
    \/ fetches[j].until # Auth!Never /\ now > fetches[j].until

(* The cached token is to be renewed a buffer before its life ends, counted from
   its arrival. *)
CachedIsDated ==
  holder = Auth!Nobody /\ token # Auth!NoToken =>
    /\ Len(fetches) > 0 /\ fetches[Len(fetches)].latency >= 0 /\ token.issued >= 0
    /\ IF token.life = 0 THEN expiresAt = Auth!Never
       ELSE expiresAt = token.issued + fetches[Len(fetches)].latency + token.life - Buffer

IssuedBefore == \A c \in Run : at[c] = "answered" => held[c].token.issued \in 0..now

(* What a caller was handed was good then, or is its own. *)
HandedGood ==
  \A c \in Run : at[c] = "has" =>
    LET h == held[c] IN
    /\ h.when <= now /\ h.latency >= 0
    /\ \/ h.when - h.token.issued = h.latency
       \/ h.token.life = 0
       \/ h.when - h.token.issued <= h.latency + h.token.life - Buffer

SentWithToken ==
  \A r \in Request :
    /\ phase[r] # "idle" => at[RunOf[r][1]] = "has"
    /\ r \in Sent => sentAt[r] >= held[RunOf[r][1]].when

TokenInv ==
  /\ TypeOK /\ TokenTypes /\ OneFetches /\ AsksOnlyWhenNeeded /\ OldOnesAreOver
  /\ CachedIsDated /\ IssuedBefore /\ HandedGood /\ SentWithToken

LEMMA TokenInit == PacedInit => TokenInv
<1> SUFFICES ASSUME PacedInit PROVE TokenInv
  OBVIOUS
<1> USE PacedAssumption
<1>1. TypeOK
  BY InitInv DEF PacedInit, PacerInv
<1>2. TokenTypes /\ Len(fetches) = 0
  BY DEF PacedInit, Auth!AuthInit, TokenTypes, Auth!NoToken, Auth!Never, Auth!Nobody, Token
<1>3. holder = Auth!Nobody /\ token = Auth!NoToken /\ at = [r \in Run |-> "idle"]
  BY DEF PacedInit, Auth!AuthInit
<1>4. \A r \in Request : phase[r] = "idle"
  BY DEF PacedInit, Init
<1>5. OneFetches /\ AsksOnlyWhenNeeded /\ OldOnesAreOver /\ CachedIsDated
  BY <1>2, <1>3 DEF OneFetches, AsksOnlyWhenNeeded, OldOnesAreOver, CachedIsDated, Auth!Nobody
<1>6. IssuedBefore /\ HandedGood /\ SentWithToken
  BY <1>3, <1>4 DEF IssuedBefore, HandedGood, SentWithToken, Sent
<1> QED BY <1>1, <1>2, <1>5, <1>6 DEF TokenInv

LEMMA FetchType ==
  ASSUME TokenTypes, NEW j \in 1..Len(fetches)
  PROVE  /\ fetches[j] \in Fetch
         /\ fetches[j].by \in Run /\ fetches[j].begun \in Nat /\ fetches[j].ok \in BOOLEAN
         /\ fetches[j].until \in Int /\ fetches[j].latency \in Int
<1>1. fetches[j] \in Fetch
  BY DEF TokenTypes
<1> QED BY <1>1 DEF Fetch

(* Time and the pacer leave the tokens alone. *)
LEMMA PaceKeepsTokens ==
  ASSUME TokenInv, TypeOK', UNCHANGED tokenVars,
         now' >= now,
         \A r \in Request : phase'[r] # "idle" => at[RunOf[r][1]] = "has",
         \A r \in Request : phase'[r] = "sent" =>
           (phase[r] = "sent" /\ sentAt'[r] = sentAt[r]) \/ sentAt'[r] = now
  PROVE  TokenInv'
<1>1. UNCHANGED <<holder, token, expiresAt, at, held, fetches>>
  BY DEF tokenVars
<1>2. now \in Nat /\ now' \in Nat
  BY DEF TokenInv, TypeOK
<1>3. TokenTypes' /\ OneFetches' /\ CachedIsDated'
  BY <1>1 DEF TokenInv, TokenTypes, OneFetches, CachedIsDated
<1>4. AsksOnlyWhenNeeded'
  BY <1>1 DEF TokenInv, AsksOnlyWhenNeeded
<1>5. OldOnesAreOver'
  <2> SUFFICES ASSUME NEW j \in 1..Len(fetches), fetches[j].ok
               PROVE  \/ holder = Auth!Nobody /\ token # Auth!NoToken /\ expiresAt = fetches[j].until
                      \/ fetches[j].until # Auth!Never /\ now' > fetches[j].until
    BY <1>1 DEF OldOnesAreOver
  <2>1. fetches[j].until \in Int
    BY FetchType DEF TokenInv
  <2> QED BY <1>2, <2>1 DEF TokenInv, OldOnesAreOver
<1>6. IssuedBefore'
  BY <1>1, <1>2 DEF TokenInv, IssuedBefore
<1>7. HandedGood'
  <2> SUFFICES ASSUME NEW c \in Run, at[c] = "has" PROVE held[c].when <= now'
    BY <1>1 DEF TokenInv, HandedGood
  <2>1. held[c].when \in Nat /\ held[c].when <= now
    BY DEF TokenInv, TokenTypes, HandedGood
  <2> QED BY <1>2, <2>1
<1>8. SentWithToken'
  <2> SUFFICES ASSUME NEW r \in Request, phase'[r] = "sent"
               PROVE  sentAt'[r] >= held[RunOf[r][1]].when
    BY <1>1 DEF SentWithToken, Sent
  <2>1. CASE phase[r] = "sent" /\ sentAt'[r] = sentAt[r]
    BY <2>1 DEF TokenInv, SentWithToken, Sent
  <2>2. CASE sentAt'[r] = now
    <3>1. at[RunOf[r][1]] = "has" /\ RunOf[r][1] \in Run
      BY PacedAssumption
    <3> QED BY <2>2, <3>1 DEF TokenInv, HandedGood, TokenTypes, TypeOK
  <2> QED BY <2>1, <2>2
<1> QED BY <1>3, <1>4, <1>5, <1>6, <1>7, <1>8 DEF TokenInv

LEMMA PaceStepKeeps ==
  ASSUME TokenInv,
         TimePasses \/ \E r \in Request : PaceStep(r)
  PROVE  TokenInv'
<1>1. CASE TimePasses
  <2>1. TypeOK' /\ now' >= now
    BY <1>1 DEF TimePasses, Tick, TokenInv, TypeOK
  <2> QED BY <1>1, <2>1, PaceKeepsTokens DEF TimePasses, Tick, TokenInv, SentWithToken
<1>2. ASSUME NEW r \in Request, PaceStep(r) PROVE TokenInv'
  <2>1. UNCHANGED tokenVars /\ now' = now
    BY <1>2 DEF PaceStep, Reserve, StartAtOnce, Arm, Fire, Cancel
  <2>2. TypeOK'
    <3> USE PacerAssumption
    <3>1. CASE Reserve(r)
      BY <3>1 DEF TokenInv, TypeOK, Reserve, Start, NextAfter, Phase
    <3>2. CASE StartAtOnce(r) \/ Arm(r) \/ Fire(r) \/ Cancel(r)
      BY <3>2 DEF TokenInv, TypeOK, StartAtOnce, Arm, Fire, Cancel, Phase
    <3> QED BY <1>2, <3>1, <3>2 DEF PaceStep
  <2>3. /\ \A q \in Request \ {r} : phase'[q] = phase[q] /\ sentAt'[q] = sentAt[q]
        /\ phase[r] # "sent"
        /\ phase'[r] = "sent" => sentAt'[r] = now
        /\ phase[r] = "idle" => at[RunOf[r][1]] = "has"
    BY <1>2 DEF PaceStep, MaySend, Reserve, StartAtOnce, Arm, Fire, Cancel, TokenInv, TypeOK, Phase
  <2>4. now' >= now
    BY <2>1 DEF TokenInv, TypeOK
  <2>5. \A q \in Request : phase'[q] # "idle" => at[RunOf[q][1]] = "has"
    BY <2>3 DEF TokenInv, SentWithToken
  <2>6. \A q \in Request : phase'[q] = "sent" =>
          (phase[q] = "sent" /\ sentAt'[q] = sentAt[q]) \/ sentAt'[q] = now
    BY <2>3
  <2> QED BY <2>1, <2>2, <2>4, <2>5, <2>6, PaceKeepsTokens
<1> QED BY <1>1, <1>2

(* A step of a caller that has no token yet leaves what was sent alone. *)
LEMMA CallerSteps ==
  ASSUME TokenInv, NEW c \in Run, at[c] # "has",
         \A b \in Run \ {c} : at'[b] = at[b] /\ held'[b] = held[b],
         UNCHANGED <<phase, sentAt>>
  PROVE  SentWithToken'
<1> SUFFICES ASSUME NEW r \in Request
             PROVE  /\ phase[r] # "idle" => at'[RunOf[r][1]] = "has"
                    /\ phase[r] = "sent" => sentAt[r] >= held'[RunOf[r][1]].when
  BY DEF SentWithToken, Sent
<1>1. RunOf[r][1] \in Run
  BY PacedAssumption
<1>2. CASE phase[r] # "idle"
  <2>1. at[RunOf[r][1]] = "has"
    BY <1>2 DEF TokenInv, SentWithToken
  <2> QED BY <1>1, <2>1 DEF TokenInv, SentWithToken, Sent
<1>3. CASE phase[r] = "idle"
  BY <1>3
<1> QED BY <1>2, <1>3

LEMMA NeverIsNoRun == Auth!Nobody \notin Run
BY PacedAssumption DEF Auth!Nobody

LEMMA AskKeeps ==
  ASSUME TokenInv, TypeOK', UNCHANGED <<now, phase, sentAt>>, NEW c \in Run, Auth!Ask(c)
  PROVE  TokenInv'
<1>1. /\ at[c] = "idle" /\ at' = [at EXCEPT ![c] = "waiting"]
      /\ UNCHANGED <<holder, token, expiresAt, held, fetches>>
  BY DEF Auth!Ask
<1>2. \A b \in Run : at'[b] = IF b = c THEN "waiting" ELSE at[b]
  BY <1>1 DEF TokenInv, TokenTypes
<1>3. TokenTypes'
  BY <1>1 DEF TokenInv, TokenTypes
<1>4. OneFetches'
  <2>1. \A i \in 1..Len(fetches) : fetches[i].by \in Run /\ fetches[i].by # c
    BY <1>1, FetchType DEF TokenInv, OneFetches
  <2> QED BY <1>1, <1>2, <2>1 DEF TokenInv, OneFetches
<1>5. AsksOnlyWhenNeeded' /\ OldOnesAreOver' /\ CachedIsDated'
  BY <1>1 DEF TokenInv, AsksOnlyWhenNeeded, OldOnesAreOver, CachedIsDated
<1>6. IssuedBefore' /\ HandedGood'
  BY <1>1, <1>2 DEF TokenInv, IssuedBefore, HandedGood
<1>7. SentWithToken'
  BY <1>1, <1>2, CallerSteps
<1> QED BY <1>3, <1>4, <1>5, <1>6, <1>7 DEF TokenInv

LEMMA TakeCachedKeeps ==
  ASSUME TokenInv, TypeOK', UNCHANGED <<now, phase, sentAt>>, NEW c \in Run, Auth!TakeCached(c)
  PROVE  TokenInv'
<1> DEFINE lat == fetches[Len(fetches)].latency
           h == [token |-> token, when |-> now, latency |-> lat]
<1>1. /\ at[c] = "waiting" /\ holder = Auth!Nobody /\ token # Auth!NoToken
      /\ expiresAt = Auth!Never \/ ~(now > expiresAt)
      /\ at' = [at EXCEPT ![c] = "has"] /\ held' = [held EXCEPT ![c] = h]
      /\ UNCHANGED <<holder, token, expiresAt, fetches>>
  BY DEF Auth!TakeCached, Auth!MayLock, Auth!Usable, Auth!isExpired, Auth!Latency
<1>2. now \in Nat /\ token \in Token /\ expiresAt \in Int /\ Buffer \in Nat
  BY PacedAssumption DEF TokenInv, TypeOK, TokenTypes
<1>3. /\ Len(fetches) > 0 /\ lat >= 0 /\ token.issued >= 0 /\ lat \in Int
      /\ IF token.life = 0 THEN expiresAt = Auth!Never
         ELSE expiresAt = token.issued + lat + token.life - Buffer
  <2>1. Len(fetches) \in Nat /\ Len(fetches) > 0
    BY <1>1 DEF TokenInv, CachedIsDated, TokenTypes
  <2>2. lat \in Int
    BY <2>1, FetchType DEF TokenInv
  <2> QED BY <1>1, <2>1, <2>2 DEF TokenInv, CachedIsDated
<1>4. h \in [token : Token, when : Nat, latency : Int]
  BY <1>2, <1>3
<1>5. TokenTypes'
  BY <1>1, <1>4 DEF TokenInv, TokenTypes
<1>6. \A b \in Run : /\ at'[b] = IF b = c THEN "has" ELSE at[b]
                     /\ held'[b] = IF b = c THEN h ELSE held[b]
  BY <1>1 DEF TokenInv, TokenTypes
<1>7. OneFetches'
  BY <1>1, <1>6, FetchType DEF TokenInv, OneFetches
<1>8. AsksOnlyWhenNeeded' /\ OldOnesAreOver' /\ CachedIsDated'
  BY <1>1 DEF TokenInv, AsksOnlyWhenNeeded, OldOnesAreOver, CachedIsDated
<1>9. IssuedBefore'
  BY <1>6 DEF TokenInv, IssuedBefore
<1>10. HandedGood'
  <2>1. \/ token.life = 0
        \/ now - token.issued <= lat + token.life - Buffer
    <3>1. token.life \in Nat /\ token.issued \in Int
      BY <1>2 DEF Token
    <3>2. token.life # 0 => expiresAt = token.issued + lat + token.life - Buffer
      BY <1>3
    <3>3. expiresAt = -1 - Buffer \/ ~(now > expiresAt)
      BY <1>1 DEF Auth!Never
    <3>4. lat \in Int /\ lat >= 0 /\ token.issued >= 0
      BY <1>3
    <3> HIDE DEF lat
    <3> QED BY <1>2, <3>1, <3>2, <3>3, <3>4
  <2>2. h.when = now /\ h.latency = lat /\ h.token = token
    OBVIOUS
  <2>3. now <= now
    BY <1>2
  <2> HIDE DEF h, lat
  <2> QED BY <1>3, <1>6, <2>1, <2>2, <2>3 DEF TokenInv, HandedGood
<1>11. SentWithToken'
  BY <1>1, <1>6, CallerSteps
<1> QED BY <1>5, <1>7, <1>8, <1>9, <1>10, <1>11 DEF TokenInv

LEMMA BeginFetchKeeps ==
  ASSUME TokenInv, TypeOK', UNCHANGED <<now, phase, sentAt>>, NEW c \in Run, Auth!BeginFetch(c)
  PROVE  TokenInv'
<1> DEFINE n == Len(fetches)
           new == [by |-> c, begun |-> now, ok |-> FALSE, until |-> Auth!Never, latency |-> 0]
<1>1. /\ at[c] = "waiting" /\ holder = Auth!Nobody
      /\ token = Auth!NoToken \/ (expiresAt # Auth!Never /\ now > expiresAt)
      /\ holder' = c /\ at' = [at EXCEPT ![c] = "fetching"]
      /\ fetches' = Append(fetches, new)
      /\ UNCHANGED <<token, expiresAt, held>>
  BY DEF Auth!BeginFetch, Auth!MayLock, Auth!Usable, Auth!isExpired
<1>2. now \in Nat /\ Buffer \in Nat /\ n \in Nat /\ fetches \in Seq(Fetch)
  BY PacedAssumption DEF TokenInv, TypeOK, TokenTypes
<1>3. new \in Fetch
  BY <1>2 DEF Fetch, Auth!Never
<1>4. Len(fetches') = n + 1 /\ fetches'[n + 1] = new /\ \A i \in 1..n : fetches'[i] = fetches[i]
  <2> HIDE DEF new
  <2> QED BY <1>1, <1>2, <1>3
<1>5. \A b \in Run : at'[b] = IF b = c THEN "fetching" ELSE at[b]
  BY <1>1 DEF TokenInv, TokenTypes
<1>6. TokenTypes'
  <2>1. fetches' \in Seq(Fetch)
    BY <1>1, <1>2, <1>3
  <2> QED BY <1>1, <2>1 DEF TokenInv, TokenTypes
<1>7. \A i \in 1..n : fetches[i].by \in Run /\ fetches[i].by # c
  BY <1>1, FetchType DEF TokenInv, OneFetches
<1>8. \A i \in 1..n + 1 : i \in 1..n \/ i = n + 1
  BY <1>2
<1>9. OneFetches'
  <2>1. \A b \in Run : at'[b] \in {"fetching", "answered"} <=> holder' = b
    BY <1>1, <1>5, NeverIsNoRun DEF TokenInv, OneFetches
  <2>2. \A i \in 1..n + 1 : at'[fetches'[i].by] \notin {"idle", "waiting"}
    BY <1>4, <1>5, <1>7, <1>8 DEF TokenInv, OneFetches
  <2>3. \A i, j \in 1..n + 1 : fetches'[i].by = fetches'[j].by => i = j
    BY <1>4, <1>7, <1>8 DEF TokenInv, OneFetches
  <2> QED BY <1>1, <1>2, <1>4, <2>1, <2>2, <2>3 DEF OneFetches
<1>10. \A j \in 1..n : fetches[j].ok => fetches[j].until # Auth!Never /\ now > fetches[j].until
  BY <1>1 DEF TokenInv, OldOnesAreOver
<1>11. AsksOnlyWhenNeeded'
  <2> SUFFICES ASSUME NEW i \in 1..n + 1, NEW j \in 1..i - 1, fetches'[j].ok
               PROVE  fetches'[j].until # Auth!Never /\ fetches'[i].begun > fetches'[j].until
    BY <1>4 DEF AsksOnlyWhenNeeded
  <2>1. j \in 1..n /\ fetches'[j] = fetches[j]
    BY <1>2, <1>4
  <2>2. CASE i \in 1..n
    BY <1>4, <2>1, <2>2 DEF TokenInv, AsksOnlyWhenNeeded
  <2>3. CASE i = n + 1
    BY <1>4, <1>10, <2>1, <2>3
  <2> QED BY <1>8, <2>2, <2>3
<1>12. OldOnesAreOver'
  <2> SUFFICES ASSUME NEW j \in 1..n + 1, fetches'[j].ok
               PROVE  fetches'[j].until # Auth!Never /\ now > fetches'[j].until
    BY <1>4 DEF OldOnesAreOver
  <2>1. j \in 1..n
    BY <1>4, <1>8
  <2> QED BY <1>4, <1>10, <2>1
<1>13. CachedIsDated'
  BY <1>1, NeverIsNoRun DEF CachedIsDated
<1>14. IssuedBefore' /\ HandedGood'
  BY <1>1, <1>5 DEF TokenInv, IssuedBefore, HandedGood
<1>15. SentWithToken'
  BY <1>1, <1>5, CallerSteps
<1> QED BY <1>6, <1>9, <1>11, <1>12, <1>13, <1>14, <1>15 DEF TokenInv

LEMMA IssueKeeps ==
  ASSUME TokenInv, TypeOK', UNCHANGED <<now, phase, sentAt>>, NEW c \in Run, Auth!Issue(c)
  PROVE  TokenInv'
<1>1. /\ at[c] = "fetching" /\ at' = [at EXCEPT ![c] = "answered"]
      /\ UNCHANGED <<holder, token, expiresAt, fetches>>
  BY DEF Auth!Issue
<1>2. PICK life \in Lifetime :
        held' = [held EXCEPT ![c] = [token |-> [life |-> life, issued |-> now], when |-> 0, latency |-> 0]]
  BY DEF Auth!Issue
<1>3. now \in Nat /\ life \in Nat
  BY PacedAssumption DEF TokenInv, TypeOK
<1>4. TokenTypes'
  <2>1. held' \in [Run -> [token : Token, when : Nat, latency : Int]]
    BY <1>2, <1>3 DEF TokenInv, TokenTypes, Token
  <2> QED BY <1>1, <2>1 DEF TokenInv, TokenTypes
<1>5. \A b \in Run : /\ at'[b] = IF b = c THEN "answered" ELSE at[b]
                     /\ b # c => held'[b] = held[b]
  BY <1>1, <1>2 DEF TokenInv, TokenTypes
<1>6. OneFetches'
  BY <1>1, <1>5, FetchType DEF TokenInv, OneFetches
<1>7. AsksOnlyWhenNeeded' /\ OldOnesAreOver' /\ CachedIsDated'
  BY <1>1 DEF TokenInv, AsksOnlyWhenNeeded, OldOnesAreOver, CachedIsDated
<1>8. IssuedBefore'
  <2>1. held'[c].token.issued = now
    BY <1>2 DEF TokenInv, TokenTypes
  <2> QED BY <1>3, <1>5, <2>1 DEF TokenInv, IssuedBefore
<1>9. HandedGood'
  BY <1>5 DEF TokenInv, HandedGood
<1>10. SentWithToken'
  BY <1>1, <1>5, CallerSteps
<1> QED BY <1>4, <1>6, <1>7, <1>8, <1>9, <1>10 DEF TokenInv

LEMMA FetchFailsKeeps ==
  ASSUME TokenInv, TypeOK', UNCHANGED <<now, phase, sentAt>>, NEW c \in Run, Auth!FetchFails(c)
  PROVE  TokenInv'
<1>1. /\ at[c] \in {"fetching", "answered"} /\ token' = Auth!NoToken
      /\ at' = [at EXCEPT ![c] = "failed"] /\ held' = [held EXCEPT ![c].token = Auth!NoToken]
      /\ holder' = Auth!Nobody /\ UNCHANGED <<expiresAt, fetches>>
  BY DEF Auth!FetchFails, Auth!Unlock
<1>2. holder = c /\ holder # Auth!Nobody
  BY <1>1, NeverIsNoRun DEF TokenInv, OneFetches
<1>3. TokenTypes'
  <2>1. Auth!NoToken \in Token
    BY DEF Auth!NoToken, Token
  <2>2. held' \in [Run -> [token : Token, when : Nat, latency : Int]]
    BY <1>1, <2>1 DEF TokenInv, TokenTypes
  <2> QED BY <1>1, <2>1, <2>2 DEF TokenInv, TokenTypes
<1>4. \A b \in Run : /\ at'[b] = IF b = c THEN "failed" ELSE at[b]
                     /\ b # c => held'[b] = held[b]
  BY <1>1 DEF TokenInv, TokenTypes
<1>5. OneFetches'
  BY <1>1, <1>2, <1>4, FetchType, NeverIsNoRun DEF TokenInv, OneFetches
<1>6. AsksOnlyWhenNeeded'
  BY <1>1 DEF TokenInv, AsksOnlyWhenNeeded
<1>7. OldOnesAreOver' /\ CachedIsDated'
  BY <1>1, <1>2 DEF TokenInv, OldOnesAreOver, CachedIsDated
<1>8. IssuedBefore' /\ HandedGood'
  BY <1>4 DEF TokenInv, IssuedBefore, HandedGood
<1>9. SentWithToken'
  BY <1>1, <1>4, CallerSteps
<1> QED BY <1>3, <1>5, <1>6, <1>7, <1>8, <1>9 DEF TokenInv

LEMMA EndFetchKeeps ==
  ASSUME TokenInv, TypeOK', UNCHANGED <<now, phase, sentAt>>, NEW c \in Run, Auth!EndFetch(c)
  PROVE  TokenInv'
<1> DEFINE n == Len(fetches)
           t == held[c].token
           lat == now - t.issued
           h == [token |-> t, when |-> now, latency |-> lat]
<1>1. /\ at[c] = "answered" /\ at' = [at EXCEPT ![c] = "has"]
      /\ token' = t /\ expiresAt' = Auth!Expiry(t) /\ held' = [held EXCEPT ![c] = h]
      /\ holder' = Auth!Nobody
      /\ fetches' = [fetches EXCEPT ![Auth!FetchOf(c)] =
                      [@ EXCEPT !.ok = TRUE, !.until = Auth!Expiry(t), !.latency = lat]]
  BY DEF Auth!EndFetch, Auth!Unlock
<1>2. holder = c /\ holder # Auth!Nobody
  BY <1>1, NeverIsNoRun DEF TokenInv, OneFetches
<1>3. n \in Nat /\ n > 0 /\ fetches \in Seq(Fetch) /\ fetches[n].by = c /\ ~fetches[n].ok
  BY <1>2 DEF TokenInv, TokenTypes, OneFetches
<1>4. Auth!FetchOf(c) = n
  <2>1. \A i \in 1..n : fetches[i].by = c => i = n
    BY <1>3 DEF TokenInv, OneFetches
  <2> QED BY <1>3, <2>1 DEF Auth!FetchOf
<1>5. /\ now \in Nat /\ Buffer \in Nat /\ t \in Token /\ t.life \in Nat
      /\ t.issued \in 0..now /\ lat \in Int /\ lat >= 0
  <2>1. now \in Nat /\ Buffer \in Nat /\ t \in Token
    BY PacedAssumption DEF TokenInv, TypeOK, TokenTypes
  <2>2. t.issued \in 0..now /\ t.life \in Nat
    BY <1>1, <2>1 DEF TokenInv, IssuedBefore, Token
  <2> HIDE DEF t
  <2> QED BY <2>1, <2>2
<1>6. /\ Auth!Expiry(t) \in Int
      /\ IF t.life = 0 THEN Auth!Expiry(t) = Auth!Never
         ELSE Auth!Expiry(t) = t.issued + lat + t.life - Buffer
  <2> HIDE DEF t
  <2> QED BY <1>5 DEF Auth!Expiry, Auth!Never
<1>7. t # Auth!NoToken
  BY <1>5 DEF Auth!NoToken
<1>8. /\ DOMAIN fetches = 1..n /\ DOMAIN fetches' = 1..n /\ Len(fetches') = n
      /\ \A i \in 1..n : i # n => fetches'[i] = fetches[i]
      /\ fetches'[n] = [fetches[n] EXCEPT !.ok = TRUE, !.until = Auth!Expiry(t), !.latency = lat]
  <2> HIDE DEF lat, t
  <2>1. DOMAIN fetches = 1..n /\ n \in 1..n
    BY <1>3
  <2> DEFINE f == [fetches[n] EXCEPT !.ok = TRUE, !.until = Auth!Expiry(t), !.latency = lat]
  <2>2. fetches' = [fetches EXCEPT ![n] = f]
    BY <1>1, <1>4
  <2> HIDE DEF f, n
  <2>3. fetches' = [i \in 1..n |-> IF i = n THEN f ELSE fetches[i]]
    BY <2>1, <2>2
  <2>4. DOMAIN fetches' = 1..n /\ fetches'[n] = f /\ \A i \in 1..n : i # n => fetches'[i] = fetches[i]
    BY <2>1, <2>3
  <2>5. Len(fetches') = n
    BY <1>3, <2>3
  <2> QED BY <2>1, <2>4, <2>5 DEF f
<1>9. fetches[n] \in Fetch
  BY <1>3, FetchType DEF TokenInv
<1>10. /\ fetches'[n] \in Fetch /\ fetches'[n].by = c /\ fetches'[n].begun = fetches[n].begun
       /\ fetches'[n].ok /\ fetches'[n].until = Auth!Expiry(t) /\ fetches'[n].latency = lat
  <2> HIDE DEF lat, t
  <2> QED BY <1>3, <1>5, <1>6, <1>8, <1>9 DEF Fetch
<1>11. \A b \in Run : /\ at'[b] = IF b = c THEN "has" ELSE at[b]
                      /\ held'[b] = IF b = c THEN h ELSE held[b]
  BY <1>1 DEF TokenInv, TokenTypes
<1>12. TokenTypes'
  <2>1. fetches' \in Seq(Fetch)
    <3>1. \A i \in 1..n : fetches'[i] \in Fetch
      BY <1>8, <1>10, FetchType DEF TokenInv
    <3>2. fetches' = [i \in 1..n |-> fetches'[i]]
      BY <1>1, <1>3, <1>4, <1>8
    <3> QED BY <1>3, <3>1, <3>2
  <2>2. held' \in [Run -> [token : Token, when : Nat, latency : Int]]
    <3>1. h \in [token : Token, when : Nat, latency : Int]
      BY <1>5
    <3> HIDE DEF h
    <3> QED BY <1>1, <3>1 DEF TokenInv, TokenTypes
  <2> QED BY <1>1, <1>5, <1>6, <2>1, <2>2 DEF TokenInv, TokenTypes
<1>13. OneFetches'
  <2>1. \A i \in 1..n : fetches'[i].by = fetches[i].by
    BY <1>3, <1>8, <1>10
  <2> QED BY <1>1, <1>2, <1>8, <1>11, <2>1, NeverIsNoRun, FetchType DEF TokenInv, OneFetches
<1>14. \A i \in 1..n : fetches'[i].begun = fetches[i].begun
  BY <1>8, <1>10
<1>15. AsksOnlyWhenNeeded'
  <2> SUFFICES ASSUME NEW i \in 1..n, NEW j \in 1..i - 1, fetches'[j].ok
               PROVE  fetches'[j].until # Auth!Never /\ fetches'[i].begun > fetches'[j].until
    BY <1>8 DEF AsksOnlyWhenNeeded
  <2>1. j \in 1..n /\ fetches'[j] = fetches[j]
    BY <1>3, <1>8
  <2> QED BY <1>14, <2>1 DEF TokenInv, AsksOnlyWhenNeeded
<1>16. OldOnesAreOver'
  <2> SUFFICES ASSUME NEW j \in 1..n, fetches'[j].ok
               PROVE  \/ holder' = Auth!Nobody /\ token' # Auth!NoToken /\ expiresAt' = fetches'[j].until
                      \/ fetches'[j].until # Auth!Never /\ now > fetches'[j].until
    BY <1>8 DEF OldOnesAreOver
  <2>1. CASE j = n
    BY <1>1, <1>7, <1>10, <2>1
  <2>2. CASE j # n
    BY <1>2, <1>8, <2>2 DEF TokenInv, OldOnesAreOver
  <2> QED BY <2>1, <2>2
<1>17. CachedIsDated'
  <2> HIDE DEF lat, t
  <2> QED BY <1>1, <1>3, <1>5, <1>6, <1>8, <1>10 DEF CachedIsDated
<1>18. IssuedBefore'
  BY <1>11 DEF TokenInv, IssuedBefore
<1>19. HandedGood'
  <2>1. h.when = now /\ h.latency = lat /\ h.token = t /\ now - t.issued = lat /\ now <= now
    BY <1>5
  <2> HIDE DEF h, lat, t
  <2> QED BY <1>5, <1>11, <2>1 DEF TokenInv, HandedGood
<1>20. SentWithToken'
  BY <1>1, <1>11, CallerSteps
<1> QED BY <1>12, <1>13, <1>15, <1>16, <1>17, <1>18, <1>19, <1>20 DEF TokenInv

LEMMA TokenStep == TokenInv /\ [PacedNext]_pacedVars => TokenInv'
<1> SUFFICES ASSUME TokenInv, [PacedNext]_pacedVars PROVE TokenInv'
  OBVIOUS
<1>1. CASE TimePasses \/ \E r \in Request : PaceStep(r)
  BY <1>1, PaceStepKeeps
<1>2. CASE AuthStep
  <2>1. now' = now /\ UNCHANGED <<next, phase, slot, askedAt, sentAt>>
    BY <1>2 DEF AuthStep, Auth!AuthNext, Auth!Ask, Auth!TakeCached, Auth!BeginFetch, Auth!Issue,
                Auth!EndFetch, Auth!FetchFails
  <2>2. TypeOK'
    BY <2>1 DEF TokenInv, TypeOK
  <2> QED BY <1>2, <2>1, <2>2, AskKeeps, TakeCachedKeeps, BeginFetchKeeps, IssueKeeps, EndFetchKeeps,
             FetchFailsKeeps DEF AuthStep, Auth!AuthNext
<1>3. CASE UNCHANGED pacedVars
  BY <1>3 DEF pacedVars, vars, tokenVars, TokenInv, TypeOK, TokenTypes, OneFetches, AsksOnlyWhenNeeded,
              OldOnesAreOver, CachedIsDated, IssuedBefore, HandedGood, SentWithToken, Sent
<1> QED BY <1>1, <1>2, <1>3 DEF PacedNext

(* A request that leaves soon after its run was handed the token carries one
   that the server still takes. *)
LEMMA TokensAreLive == TokenInv => LiveForTheBuffer
<1> SUFFICES ASSUME TokenInv, NEW r \in Sent,
                    (sentAt[r] - held[RunOf[r][1]].when) + held[RunOf[r][1]].latency < Buffer,
                    Buffer <= held[RunOf[r][1]].token.life
             PROVE  sentAt[r] - held[RunOf[r][1]].token.issued < held[RunOf[r][1]].token.life
  BY DEF LiveForTheBuffer
<1> DEFINE h == held[RunOf[r][1]]
<1>1. RunOf[r][1] \in Run /\ r \in Request /\ phase[r] = "sent" /\ Buffer \in Nat
  BY PacedAssumption DEF Sent
<1>2. at[RunOf[r][1]] = "has" /\ sentAt[r] >= h.when
  BY <1>1 DEF TokenInv, SentWithToken
<1>3. /\ h.when <= now /\ h.latency >= 0
      /\ \/ h.when - h.token.issued = h.latency
         \/ h.token.life = 0
         \/ h.when - h.token.issued <= h.latency + h.token.life - Buffer
  BY <1>1, <1>2 DEF TokenInv, HandedGood
<1>4. h.when \in Nat /\ h.latency \in Int /\ h.token.life \in Nat /\ h.token.issued \in Int
  BY <1>1 DEF TokenInv, TokenTypes, Token
<1>5. sentAt[r] \in Nat
  BY <1>1 DEF TokenInv, TypeOK
<1>6. (sentAt[r] - h.when) + h.latency < Buffer /\ Buffer <= h.token.life
  OBVIOUS
<1> HIDE DEF h
<1>7. sentAt[r] - h.token.issued < h.token.life
  BY <1>1, <1>2, <1>3, <1>4, <1>5, <1>6
<1> QED BY <1>7 DEF h

(* However many runs ask for a token at once, whatever the endpoint answers and
   whenever: it is asked again only when no token is left that may be used, and
   what was handed out lives as long as the buffer promises. *)
THEOREM TokensServe == PacedSpec => []TokensServeTheirLife
<1>1. TokenInv => TokensServeTheirLife
  BY TokensAreLive DEF TokenInv, TokensServeTheirLife
<1> QED BY <1>1, TokenInit, TokenStep, PTL DEF PacedSpec

(* The runs of a batch share the pacer and keep its spacing. *)
THEOREM BatchesAreSpaced == PacedSpec => [](SlotsSpaced /\ NoIdleGap)
BY PacedRunsPace, SlotsAreSpaced, NoSlotIsIdle, PTL

-----------------------------------------------------------------------------
(* The shop's store. *)

Status == DOMAIN Transitions

Typed ==
  /\ seq \in [Prefix -> Nat]
  /\ \A o \in DOMAIN orders :
       /\ o \in 1..seq["ord"] /\ orders[o].status \in Status
       /\ {"status", "payStatus", "payment", "shipment"} \subseteq DOMAIN orders[o]
  /\ \A p \in DOMAIN payments :
       /\ p \in 1..seq["pay"] /\ payments[p].order \in 1..seq["ord"]
       /\ {"order", "refunded", "status"} \subseteq DOMAIN payments[p]
  /\ \A s \in DOMAIN shipments :
       /\ s \in 1..seq["shp"] /\ shipments[s].order \in 1..seq["ord"]
       /\ {"order", "status", "polls"} \subseteq DOMAIN shipments[s]
  /\ \A r \in DOMAIN returns : r \in 1..seq["ret"] /\ returns[r].order \in 1..seq["ord"]

(* An order is paid and shipped at most once, one that was deleted as well. *)
Once ==
  /\ \A p, q \in DOMAIN payments : payments[p].order = payments[q].order => p = q
  /\ \A s, t \in DOMAIN shipments : shipments[s].order = shipments[t].order => s = t

(* What the records say of an order is what its status says. *)
Tells(o) ==
  LET r == orders[o]
  IN  /\ r.status = "created" => PaymentsOf(o) = {}
      /\ r.status \notin {"created", "cancelled"} => PaymentsOf(o) # {}
      /\ PaymentsOf(o) = (IF r.payment = 0 THEN {} ELSE {r.payment})
      /\ r.status \in {"shipped", "delivered", "returned"} <=> ShipmentsOf(o) # {}
      /\ ShipmentsOf(o) = (IF r.shipment = 0 THEN {} ELSE {r.shipment})
      /\ r.status \in {"delivered", "returned"} <=>
           \E s \in ShipmentsOf(o) : shipments[s].status = "delivered"
      /\ r.status = "returned" <=> ReturnsOf(o) # {}

ShopInv == Typed /\ Once /\ \A o \in DOMAIN orders : Tells(o)

-----------------------------------------------------------------------------
(* Where each action leads, and from where. *)
LEMMA MovesAre ==
  ASSUME NEW st \in Status
  PROVE  /\ Status = {"created", "paid", "shipped", "delivered", "returned", "cancelled"}
         /\ "pay" \in DOMAIN Transitions[st] => st = "created"
         /\ "ship" \in DOMAIN Transitions[st] => st = "paid"
         /\ "cancel" \in DOMAIN Transitions[st] =>
              st \in {"created", "paid"} /\ Transitions[st]["cancel"] = "cancelled"
         /\ "deliver" \in DOMAIN Transitions[st] =>
              st = "shipped" /\ Transitions[st]["deliver"] = "delivered"
         /\ "return" \in DOMAIN Transitions[st] =>
              st = "delivered" /\ Transitions[st]["return"] = "returned"
<1>1. Status = {"created", "paid", "shipped", "delivered", "returned", "cancelled"}
  BY DEF Status, Transitions
<1>2. /\ DOMAIN Transitions["created"] = {"pay", "cancel"} /\ Transitions["created"]["cancel"] = "cancelled"
      /\ DOMAIN Transitions["paid"] = {"ship", "cancel"} /\ Transitions["paid"]["cancel"] = "cancelled"
      /\ DOMAIN Transitions["shipped"] = {"deliver"} /\ Transitions["shipped"]["deliver"] = "delivered"
      /\ DOMAIN Transitions["delivered"] = {"return"} /\ Transitions["delivered"]["return"] = "returned"
      /\ DOMAIN Transitions["returned"] = {} /\ DOMAIN Transitions["cancelled"] = {}
  BY DEF Transitions
<1> QED BY <1>1, <1>2

(* An empty shop. *)
LEMMA ShopOpens == ShopInit => ShopInv
<1> SUFFICES ASSUME ShopInit PROVE ShopInv
  OBVIOUS
<1>1. /\ DOMAIN orders = {} /\ DOMAIN payments = {} /\ DOMAIN shipments = {} /\ DOMAIN returns = {}
      /\ seq \in [Prefix -> Nat]
  BY ShopAssumption DEF ShopInit, Prefix
<1> QED BY <1>1 DEF ShopInv, Typed, Once

(* What is known of an order stays known while its records stay. *)
Stays(o) ==
  /\ orders'[o].status = orders[o].status
  /\ orders'[o].payment = orders[o].payment /\ orders'[o].shipment = orders[o].shipment
  /\ PaymentsOf(o)' = PaymentsOf(o) /\ ShipmentsOf(o)' = ShipmentsOf(o)
  /\ ReturnsOf(o)' = ReturnsOf(o)
  /\ \A s \in ShipmentsOf(o) : shipments'[s].status = shipments[s].status

LEMMA StillTells ==
  ASSUME NEW o, Tells(o), Stays(o)
  PROVE  Tells(o)'
  BY DEF Tells, Stays

(* Carts, tokens, the first halves of the calls and refusals, and what a client
   lists, are nothing to the orders' records. *)
LEMMA RecordsStay ==
  ASSUME ShopInv, UNCHANGED <<orders, payments, shipments, returns>>, seq' \in [Prefix -> Nat],
         \A x \in {"ord", "pay", "shp", "ret"} : seq'[x] = seq[x]
  PROVE  ShopInv'
<1>1. Typed' /\ Once'
  BY DEF ShopInv, Typed, Once
<1>2. \A o : PaymentsOf(o)' = PaymentsOf(o) /\ ShipmentsOf(o)' = ShipmentsOf(o) /\ ReturnsOf(o)' = ReturnsOf(o)
  BY DEF PaymentsOf, ShipmentsOf, ReturnsOf
<1>3. \A o \in DOMAIN orders : Tells(o) /\ Stays(o)
  BY <1>2 DEF ShopInv, Stays
<1>4. \A o \in DOMAIN orders : Tells(o)'
  BY <1>3, StillTells
<1> QED BY <1>1, <1>4 DEF ShopInv

(* A new order has no records yet. *)
LEMMA OrdersAreNew ==
  ASSUME ShopInv, NEW id, NEW tier, Checkout(id, tier)
  PROVE  ShopInv'
<1>0. PICK o, r : /\ o = NextID("ord")
                  /\ r = [status |-> "created", payStatus |-> "unpaid", lines |-> carts[id].lines,
                          total |-> Total(carts[id].lines, carts[id].coupon, tier),
                          payment |-> 0, shipment |-> 0]
  OBVIOUS
<1>1. /\ orders' = Put(orders, o, r) /\ seq' = [seq EXCEPT !["ord"] = @ + 1]
      /\ UNCHANGED <<payments, shipments, returns>>
  BY <1>0 DEF Checkout
<1>2. Typed /\ Once
  BY DEF ShopInv
<1>3. /\ o = seq["ord"] + 1 /\ seq["ord"] \in Nat /\ o \in Nat /\ o \notin DOMAIN orders
      /\ seq' \in [Prefix -> Nat] /\ seq'["ord"] = o
      /\ \A x \in {"pay", "shp", "ret"} : seq'[x] = seq[x]
  BY <1>0, <1>1, <1>2 DEF NextID, Typed, Prefix
<1>4. /\ r.status = "created" /\ r.payment = 0 /\ r.shipment = 0
      /\ {"status", "payStatus", "payment", "shipment"} \subseteq DOMAIN r
  BY <1>0
<1>5. /\ DOMAIN orders' = DOMAIN orders \cup {o} /\ orders'[o] = r
      /\ \A x \in DOMAIN orders : orders'[x] = orders[x]
  BY <1>1, <1>3 DEF Put
<1>6. \A x : PaymentsOf(x)' = PaymentsOf(x) /\ ShipmentsOf(x)' = ShipmentsOf(x) /\ ReturnsOf(x)' = ReturnsOf(x)
  BY <1>1 DEF PaymentsOf, ShipmentsOf, ReturnsOf
<1>7. Typed'
  <2>1. "created" \in Status
    BY DEF Status, Transitions
  <2> QED BY <1>1, <1>2, <1>3, <1>4, <1>5, <2>1 DEF Typed
<1>8. Once'
  BY <1>1, <1>2 DEF Once
<1>9. \A x \in DOMAIN orders : Tells(x)'
  <2>1. \A x \in DOMAIN orders : Tells(x) /\ Stays(x)
    BY <1>1, <1>5, <1>6 DEF ShopInv, Stays
  <2> QED BY <2>1, StillTells
<1>10. Tells(o)'
  <2>1. PaymentsOf(o) = {} /\ ShipmentsOf(o) = {} /\ ReturnsOf(o) = {}
    BY <1>2, <1>3 DEF Typed, PaymentsOf, ShipmentsOf, ReturnsOf
  <2> QED BY <1>4, <1>5, <1>6, <2>1 DEF Tells
<1> QED BY <1>5, <1>7, <1>8, <1>9, <1>10 DEF ShopInv

(* A deleted order leaves its payment and its shipment, and is never listed
   under its ID again. *)
LEMMA OrdersGo ==
  ASSUME ShopInv, NEW o \in DOMAIN orders, DeleteOrder(o)
  PROVE  ShopInv'
<1>1. /\ orders' = Drop(orders, o) /\ UNCHANGED <<payments, shipments, returns, seq>>
  BY DEF DeleteOrder
<1>2. DOMAIN orders' = DOMAIN orders \ {o} /\ \A x \in DOMAIN orders' : orders'[x] = orders[x]
  BY <1>1 DEF Drop
<1>3. Typed' /\ Once'
  BY <1>1, <1>2 DEF ShopInv, Typed, Once
<1>4. \A x : PaymentsOf(x)' = PaymentsOf(x) /\ ShipmentsOf(x)' = ShipmentsOf(x) /\ ReturnsOf(x)' = ReturnsOf(x)
  BY <1>1 DEF PaymentsOf, ShipmentsOf, ReturnsOf
<1>5. \A x \in DOMAIN orders' : Tells(x) /\ Stays(x)
  BY <1>1, <1>2, <1>4 DEF ShopInv, Stays
<1>6. \A x \in DOMAIN orders' : Tells(x)'
  BY <1>5, StillTells
<1> QED BY <1>3, <1>6 DEF ShopInv

(* One order moves, and the others' records stay. *)
Moves(o) ==
  /\ o \in DOMAIN orders /\ DOMAIN orders' = DOMAIN orders
  /\ \A x \in DOMAIN orders \ {o} : orders'[x] = orders[x] /\ Stays(x)

LEMMA OthersTell ==
  ASSUME ShopInv, NEW o, Moves(o), Typed', Once', Tells(o)'
  PROVE  ShopInv'
<1>1. \A x \in DOMAIN orders \ {o} : Tells(x)'
  BY StillTells DEF ShopInv, Moves
<1> QED BY <1>1 DEF ShopInv, Moves

(* An order is cancelled before it is shipped. *)
LEMMA OrdersAreCancelled ==
  ASSUME ShopInv, NEW o, CancelOrder(o)
  PROVE  ShopInv'
<1>1. /\ Can("cancel", o) /\ orders' = [orders EXCEPT ![o] = Moved("cancel", o)]
      /\ UNCHANGED <<payments, shipments, returns, seq>>
  BY DEF CancelOrder
<1>2. Typed /\ Once /\ o \in DOMAIN orders /\ Tells(o)
  BY <1>1 DEF ShopInv, Can
<1>3. /\ orders[o].status \in {"created", "paid"} /\ Transitions[orders[o].status]["cancel"] = "cancelled"
      /\ "cancelled" \in Status
  BY <1>1, <1>2, MovesAre DEF Can, Typed
<1>4. /\ DOMAIN orders' = DOMAIN orders /\ orders'[o].status = "cancelled"
      /\ orders'[o].payment = orders[o].payment /\ orders'[o].shipment = orders[o].shipment
      /\ DOMAIN orders'[o] = DOMAIN orders[o]
      /\ \A x \in DOMAIN orders \ {o} : orders'[x] = orders[x]
  BY <1>1, <1>2, <1>3 DEF Moved, Typed
<1>5. \A x : PaymentsOf(x)' = PaymentsOf(x) /\ ShipmentsOf(x)' = ShipmentsOf(x) /\ ReturnsOf(x)' = ReturnsOf(x)
  BY <1>1 DEF PaymentsOf, ShipmentsOf, ReturnsOf
<1>6. Typed' /\ Once'
  BY <1>1, <1>2, <1>3, <1>4 DEF Typed, Once
<1>7. Moves(o)
  BY <1>1, <1>2, <1>4, <1>5 DEF Moves, Stays
<1>8. Tells(o)'
  BY <1>1, <1>2, <1>3, <1>4, <1>5 DEF Tells
<1> QED BY <1>6, <1>7, <1>8, OthersTell

(* A charge that gets through pays for an order that nothing paid for. *)
LEMMA OrdersArePaid ==
  ASSUME ShopInv, NEW c, EndCharge(c)
  PROVE  ShopInv'
<1>0. PICK o, p, y : /\ o = call[c].order /\ p = NextID("pay")
                     /\ y = [order |-> o, amount |-> call[c].amount, refunded |-> 0, status |-> "captured"]
  OBVIOUS
<1>1. /\ Can("pay", o) /\ seq' = [seq EXCEPT !["pay"] = p] /\ payments' = Put(payments, p, y)
      /\ orders' = [orders EXCEPT ![o] = [@ EXCEPT !.status = "paid", !.payStatus = "captured",
                                                    !.payment = p]]
      /\ UNCHANGED <<shipments, returns>>
  BY <1>0 DEF EndCharge, StillCan
<1>2. Typed /\ Once /\ o \in DOMAIN orders /\ Tells(o)
  BY <1>1 DEF ShopInv, Can
<1>3. orders[o].status = "created" /\ "paid" \in Status
  BY <1>1, <1>2, MovesAre DEF Can, Typed
<1>4. /\ DOMAIN orders' = DOMAIN orders /\ orders'[o].status = "paid"
      /\ orders'[o].payment = p /\ orders'[o].shipment = orders[o].shipment
      /\ DOMAIN orders'[o] = DOMAIN orders[o]
      /\ \A x \in DOMAIN orders \ {o} : orders'[x] = orders[x]
  BY <1>1, <1>2 DEF Typed
<1>5. /\ p = seq["pay"] + 1 /\ p \in Nat \ {0} /\ p \notin DOMAIN payments
      /\ seq' \in [Prefix -> Nat] /\ seq'["pay"] = p
      /\ \A x \in {"ord", "shp", "ret"} : seq'[x] = seq[x]
  BY <1>0, <1>1, <1>2 DEF NextID, Typed, Prefix
<1>6. /\ DOMAIN payments' = DOMAIN payments \cup {p} /\ payments'[p] = y /\ y.order = o
      /\ {"order", "refunded", "status"} \subseteq DOMAIN y
      /\ \A q \in DOMAIN payments : payments'[q] = payments[q]
  BY <1>0, <1>1, <1>5 DEF Put
<1>7. /\ \A x : PaymentsOf(x)' = IF x = o THEN PaymentsOf(x) \cup {p} ELSE PaymentsOf(x)
      /\ \A x : ShipmentsOf(x)' = ShipmentsOf(x) /\ ReturnsOf(x)' = ReturnsOf(x)
  BY <1>1, <1>5, <1>6 DEF PaymentsOf, ShipmentsOf, ReturnsOf
<1>8. PaymentsOf(o) = {}
  BY <1>2, <1>3 DEF Tells
<1>9. Typed'
  BY <1>1, <1>2, <1>3, <1>4, <1>5, <1>6 DEF Typed
<1>10. Once'
  BY <1>1, <1>2, <1>6, <1>8 DEF Once, PaymentsOf
<1>11. Moves(o)
  BY <1>1, <1>2, <1>4, <1>7 DEF Moves, Stays
<1>12. Tells(o)'
  BY <1>1, <1>2, <1>3, <1>4, <1>5, <1>7, <1>8 DEF Tells
<1> QED BY <1>9, <1>10, <1>11, <1>12, OthersTell

(* A shipment that gets through is the first of a paid order. *)
LEMMA OrdersAreShipped ==
  ASSUME ShopInv, NEW c, EndShip(c)
  PROVE  ShopInv'
<1>0. PICK o, s, y : /\ o = call[c].order /\ s = NextID("shp")
                     /\ y = [order |-> o, status |-> "in_transit", polls |-> 0]
  OBVIOUS
<1>1. /\ Can("ship", o) /\ seq' = [seq EXCEPT !["shp"] = s] /\ shipments' = Put(shipments, s, y)
      /\ orders' = [orders EXCEPT ![o] = [@ EXCEPT !.status = "shipped", !.shipment = s]]
      /\ UNCHANGED <<payments, returns>>
  BY <1>0 DEF EndShip, StillCan
<1>2. Typed /\ Once /\ o \in DOMAIN orders /\ Tells(o)
  BY <1>1 DEF ShopInv, Can
<1>3. orders[o].status = "paid" /\ "shipped" \in Status
  BY <1>1, <1>2, MovesAre DEF Can, Typed
<1>4. /\ DOMAIN orders' = DOMAIN orders /\ orders'[o].status = "shipped"
      /\ orders'[o].shipment = s /\ orders'[o].payment = orders[o].payment
      /\ DOMAIN orders'[o] = DOMAIN orders[o]
      /\ \A x \in DOMAIN orders \ {o} : orders'[x] = orders[x]
  BY <1>1, <1>2 DEF Typed
<1>5. /\ s = seq["shp"] + 1 /\ s \in Nat \ {0} /\ s \notin DOMAIN shipments
      /\ seq' \in [Prefix -> Nat] /\ seq'["shp"] = s
      /\ \A x \in {"ord", "pay", "ret"} : seq'[x] = seq[x]
  BY <1>0, <1>1, <1>2 DEF NextID, Typed, Prefix
<1>6. /\ DOMAIN shipments' = DOMAIN shipments \cup {s} /\ shipments'[s] = y
      /\ y.order = o /\ y.status = "in_transit"
      /\ {"order", "status", "polls"} \subseteq DOMAIN y
      /\ \A t \in DOMAIN shipments : shipments'[t] = shipments[t]
  BY <1>0, <1>1, <1>5 DEF Put
<1>7. /\ \A x : ShipmentsOf(x)' = IF x = o THEN ShipmentsOf(x) \cup {s} ELSE ShipmentsOf(x)
      /\ \A x : PaymentsOf(x)' = PaymentsOf(x) /\ ReturnsOf(x)' = ReturnsOf(x)
  BY <1>1, <1>5, <1>6 DEF PaymentsOf, ShipmentsOf, ReturnsOf
<1>8. ShipmentsOf(o) = {} /\ PaymentsOf(o) # {} /\ ReturnsOf(o) = {}
  BY <1>2, <1>3 DEF Tells
<1>9. Typed'
  BY <1>1, <1>2, <1>3, <1>4, <1>5, <1>6 DEF Typed
<1>10. Once'
  BY <1>1, <1>2, <1>6, <1>8 DEF Once, ShipmentsOf
<1>11. Moves(o)
  BY <1>1, <1>2, <1>4, <1>6, <1>7 DEF Moves, Stays, ShipmentsOf
<1>12. Tells(o)'
  BY <1>1, <1>2, <1>3, <1>4, <1>5, <1>6, <1>7, <1>8 DEF Tells
<1> QED BY <1>9, <1>10, <1>11, <1>12, OthersTell

(* A refund changes what was paid back, not what was paid. *)
LEMMA PaymentsAreRefunded ==
  ASSUME ShopInv, NEW o \in DOMAIN orders, NEW amount, Refund(o, amount)
  PROVE  ShopInv'
<1>0. PICK p : p = orders[o].payment
  OBVIOUS
<1>1. PICK n, st : /\ p \in DOMAIN payments
                   /\ payments' = [payments EXCEPT ![p].refunded = n, ![p].status = st]
                   /\ orders' = [orders EXCEPT ![o].payStatus = st]
                   /\ seq' = [seq EXCEPT !["ref"] = @ + 1] /\ UNCHANGED <<shipments, returns>>
  BY <1>0 DEF Refund
<1>2. Typed /\ Once /\ Tells(o)
  BY DEF ShopInv
<1>3. /\ DOMAIN orders' = DOMAIN orders /\ orders'[o].status = orders[o].status
      /\ orders'[o].payment = orders[o].payment /\ orders'[o].shipment = orders[o].shipment
      /\ DOMAIN orders'[o] = DOMAIN orders[o]
      /\ \A x \in DOMAIN orders \ {o} : orders'[x] = orders[x]
  BY <1>1, <1>2 DEF Typed
<1>4. /\ DOMAIN payments' = DOMAIN payments
      /\ \A q \in DOMAIN payments : /\ payments'[q].order = payments[q].order
                                    /\ DOMAIN payments'[q] = DOMAIN payments[q]
  BY <1>1, <1>2 DEF Typed
<1>5. seq' \in [Prefix -> Nat] /\ \A x \in {"ord", "pay", "shp", "ret"} : seq'[x] = seq[x]
  BY <1>1, <1>2 DEF Typed, Prefix
<1>6. \A x : PaymentsOf(x)' = PaymentsOf(x) /\ ShipmentsOf(x)' = ShipmentsOf(x) /\ ReturnsOf(x)' = ReturnsOf(x)
  BY <1>1, <1>4 DEF PaymentsOf, ShipmentsOf, ReturnsOf
<1>7. Typed' /\ Once'
  BY <1>1, <1>2, <1>3, <1>4, <1>5 DEF Typed, Once
<1>8. \A x \in DOMAIN orders : Stays(x)
  BY <1>1, <1>3, <1>6 DEF Stays
<1>9. \A x \in DOMAIN orders : Tells(x)'
  BY <1>8, StillTells DEF ShopInv
<1> QED BY <1>3, <1>7, <1>9 DEF ShopInv

(* A poll counts, and tells nothing new. *)
LEMMA ShipmentsArePolled ==
  ASSUME ShopInv, NEW s \in DOMAIN shipments, GetShipment(s)
  PROVE  ShopInv'
<1>1. /\ shipments' = [shipments EXCEPT ![s].polls = @ + 1]
      /\ UNCHANGED <<orders, payments, returns, seq>>
  BY DEF GetShipment
<1>2. Typed /\ Once
  BY DEF ShopInv
<1>3. /\ DOMAIN shipments' = DOMAIN shipments
      /\ \A t \in DOMAIN shipments : /\ shipments'[t].order = shipments[t].order
                                     /\ shipments'[t].status = shipments[t].status
                                     /\ DOMAIN shipments'[t] = DOMAIN shipments[t]
  BY <1>1, <1>2 DEF Typed
<1>4. \A x : PaymentsOf(x)' = PaymentsOf(x) /\ ShipmentsOf(x)' = ShipmentsOf(x) /\ ReturnsOf(x)' = ReturnsOf(x)
  BY <1>1, <1>3 DEF PaymentsOf, ShipmentsOf, ReturnsOf
<1>5. Typed' /\ Once'
  BY <1>1, <1>2, <1>3 DEF Typed, Once
<1>6. \A x \in DOMAIN orders : Stays(x)
  BY <1>1, <1>3, <1>4 DEF Stays, ShipmentsOf
<1>7. \A x \in DOMAIN orders : Tells(x)'
  BY <1>6, StillTells DEF ShopInv
<1> QED BY <1>1, <1>5, <1>7 DEF ShopInv

(* What is delivered is the order's own shipment. *)
LEMMA OrdersAreDelivered ==
  ASSUME ShopInv, NEW s \in DOMAIN shipments, DeliverShipment(s)
  PROVE  ShopInv'
<1>0. PICK o : o = shipments[s].order
  OBVIOUS
<1>1. /\ Can("deliver", o) /\ orders' = [orders EXCEPT ![o] = Moved("deliver", o)]
      /\ shipments' = [shipments EXCEPT ![s].status = "delivered"]
      /\ UNCHANGED <<payments, returns, seq>>
  BY <1>0 DEF DeliverShipment
<1>2. Typed /\ Once /\ o \in DOMAIN orders /\ Tells(o)
  BY <1>1 DEF ShopInv, Can
<1>3. /\ orders[o].status = "shipped" /\ Transitions[orders[o].status]["deliver"] = "delivered"
      /\ "delivered" \in Status
  BY <1>1, <1>2, MovesAre DEF Can, Typed
<1>4. /\ DOMAIN orders' = DOMAIN orders /\ orders'[o].status = "delivered"
      /\ orders'[o].payment = orders[o].payment /\ orders'[o].shipment = orders[o].shipment
      /\ DOMAIN orders'[o] = DOMAIN orders[o]
      /\ \A x \in DOMAIN orders \ {o} : orders'[x] = orders[x]
  BY <1>1, <1>2, <1>3 DEF Moved, Typed
<1>5. /\ DOMAIN shipments' = DOMAIN shipments /\ shipments'[s].status = "delivered"
      /\ \A t \in DOMAIN shipments : /\ shipments'[t].order = shipments[t].order
                                     /\ t # s => shipments'[t].status = shipments[t].status
                                     /\ DOMAIN shipments'[t] = DOMAIN shipments[t]
  BY <1>1, <1>2 DEF Typed
<1>6. \A x : PaymentsOf(x)' = PaymentsOf(x) /\ ShipmentsOf(x)' = ShipmentsOf(x) /\ ReturnsOf(x)' = ReturnsOf(x)
  BY <1>1, <1>5 DEF PaymentsOf, ShipmentsOf, ReturnsOf
<1>7. Typed' /\ Once'
  BY <1>1, <1>2, <1>3, <1>4, <1>5 DEF Typed, Once
<1>8. Moves(o)
  <2>1. ASSUME NEW x \in DOMAIN orders \ {o}, NEW t \in ShipmentsOf(x) PROVE t \in DOMAIN shipments /\ t # s
    BY <1>0 DEF ShipmentsOf
  <2> QED BY <1>2, <1>4, <1>5, <1>6, <2>1 DEF Moves, Stays
<1>9. Tells(o)'
  <2>1. s \in ShipmentsOf(o)
    BY <1>0 DEF ShipmentsOf
  <2> QED BY <1>2, <1>3, <1>4, <1>5, <1>6, <2>1 DEF Tells
<1> QED BY <1>7, <1>8, <1>9, OthersTell

(* What is returned was delivered. *)
LEMMA OrdersAreReturned ==
  ASSUME ShopInv, NEW o, CreateReturn(o)
  PROVE  ShopInv'
<1>0. PICK n, y : n = NextID("ret") /\ y = [order |-> o]
  OBVIOUS
<1>1. /\ Can("return", o) /\ orders' = [orders EXCEPT ![o] = Moved("return", o)]
      /\ returns' = Put(returns, n, y) /\ seq' = [seq EXCEPT !["ret"] = @ + 1]
      /\ UNCHANGED <<payments, shipments>>
  BY <1>0 DEF CreateReturn
<1>2. Typed /\ Once /\ o \in DOMAIN orders /\ Tells(o)
  BY <1>1 DEF ShopInv, Can
<1>3. /\ orders[o].status = "delivered" /\ Transitions[orders[o].status]["return"] = "returned"
      /\ "returned" \in Status
  BY <1>1, <1>2, MovesAre DEF Can, Typed
<1>4. /\ DOMAIN orders' = DOMAIN orders /\ orders'[o].status = "returned"
      /\ orders'[o].payment = orders[o].payment /\ orders'[o].shipment = orders[o].shipment
      /\ DOMAIN orders'[o] = DOMAIN orders[o]
      /\ \A x \in DOMAIN orders \ {o} : orders'[x] = orders[x]
  BY <1>1, <1>2, <1>3 DEF Moved, Typed
<1>5. /\ n = seq["ret"] + 1 /\ n \in Nat \ {0} /\ n \notin DOMAIN returns
      /\ seq' \in [Prefix -> Nat] /\ seq'["ret"] = n
      /\ \A x \in {"ord", "pay", "shp"} : seq'[x] = seq[x]
  BY <1>0, <1>1, <1>2 DEF NextID, Typed, Prefix
<1>6. /\ DOMAIN returns' = DOMAIN returns \cup {n} /\ returns'[n] = y /\ y.order = o
      /\ \A r \in DOMAIN returns : returns'[r] = returns[r]
  BY <1>0, <1>1, <1>5 DEF Put
<1>7. /\ \A x : ReturnsOf(x)' = IF x = o THEN ReturnsOf(x) \cup {n} ELSE ReturnsOf(x)
      /\ \A x : PaymentsOf(x)' = PaymentsOf(x) /\ ShipmentsOf(x)' = ShipmentsOf(x)
  BY <1>1, <1>5, <1>6 DEF PaymentsOf, ShipmentsOf, ReturnsOf
<1>8. Typed' /\ Once'
  BY <1>1, <1>2, <1>3, <1>4, <1>5, <1>6 DEF Typed, Once
<1>9. Moves(o)
  BY <1>1, <1>2, <1>4, <1>7 DEF Moves, Stays
<1>10. Tells(o)'
  BY <1>1, <1>2, <1>3, <1>4, <1>7 DEF Tells
<1> QED BY <1>8, <1>9, <1>10, OthersTell

(* A reset shop is a new one. *)
LEMMA ShopReopens ==
  ASSUME Reset
  PROVE  ShopInv'
<1>1. /\ DOMAIN orders' = {} /\ DOMAIN payments' = {} /\ DOMAIN shipments' = {} /\ DOMAIN returns' = {}
      /\ seq' \in [Prefix -> Nat]
  BY DEF Reset, NewStore, Prefix
<1> QED BY <1>1 DEF ShopInv, Typed, Once

-----------------------------------------------------------------------------
(* However a request ends, the records go on telling what was done. *)
LEMMA StepsKeepShopInv == ShopInv /\ [ShopNext]_shopVars => ShopInv'
<1> SUFFICES ASSUME ShopInv, [ShopNext]_shopVars PROVE ShopInv'
  OBVIOUS
<1>1. Typed
  BY DEF ShopInv
<1>2. CASE CreateCart
  <2>1. seq' = [seq EXCEPT !["cart"] = @ + 1] /\ UNCHANGED <<orders, payments, shipments, returns>>
    BY <1>2 DEF CreateCart
  <2>2. seq' \in [Prefix -> Nat] /\ \A x \in {"ord", "pay", "shp", "ret"} : seq'[x] = seq[x]
    BY <1>1, <2>1 DEF Typed, Prefix
  <2> QED BY <2>1, <2>2, RecordsStay
<1>3. ASSUME UNCHANGED <<orders, payments, shipments, returns, seq>> PROVE ShopInv'
  <2>1. seq' \in [Prefix -> Nat]
    BY <1>1, <1>3 DEF Typed
  <2> QED BY <1>3, <2>1, RecordsStay
<1>4. ASSUME NEW id \in DOMAIN carts,
             \/ DeleteCart(id)
             \/ \E sku \in Sku, n \in 1..2 : AddItem(id, sku, n)
             \/ \E code \in DOMAIN Coupons : ApplyCoupon(id, code)
      PROVE  ShopInv'
  BY <1>3, <1>4 DEF DeleteCart, AddItem, ApplyCoupon
<1>5. ASSUME NEW id \in DOMAIN carts, NEW tier \in DOMAIN Region.tiers, Checkout(id, tier)
      PROVE  ShopInv'
  BY <1>5, OrdersAreNew
<1>6. ASSUME NEW o \in DOMAIN orders, DeleteOrder(o) \/ CancelOrder(o) \/ CreateReturn(o)
      PROVE  ShopInv'
  BY <1>6, OrdersGo, OrdersAreCancelled, OrdersAreReturned
<1>7. ASSUME NEW o \in DOMAIN orders, NEW c \in Client, BeginCharge(c, o) \/ BeginShip(c, o)
      PROVE  ShopInv'
  BY <1>3, <1>7 DEF BeginCharge, BeginShip, Begin, store
<1>8. ASSUME NEW o \in DOMAIN orders, NEW amount \in 1..orders[o].total, Refund(o, amount)
      PROVE  ShopInv'
  BY <1>8, PaymentsAreRefunded
<1>9. ASSUME NEW s \in DOMAIN shipments, GetShipment(s) \/ DeliverShipment(s)
      PROVE  ShopInv'
  BY <1>9, ShipmentsArePolled, OrdersAreDelivered
<1>10. ASSUME NEW c \in Client, EndCharge(c) \/ EndShip(c)
       PROVE  ShopInv'
  BY <1>10, OrdersArePaid, OrdersAreShipped
<1>11. ASSUME NEW c \in Client, EndRefused(c)
       PROVE  ShopInv'
  BY <1>3, <1>11 DEF EndRefused, store
<1>12. CASE ListFirst \/ ListNext \/ UNCHANGED shopVars
  BY <1>3, <1>12 DEF ListFirst, ListNext, store, shopVars
<1>13. CASE Reset
  BY <1>13, ShopReopens
<1> QED BY <1>2, <1>4, <1>5, <1>6, <1>7, <1>8, <1>9, <1>10, <1>11, <1>12, <1>13 DEF ShopNext

(* However calls overlap and whatever is cancelled, deleted or reset while they
   wait, no order is paid or shipped twice, and its records are what its status
   says (shop/orders.go, shop/handlers_payment.go, shop/handlers_shipment.go). *)
THEOREM StatusIsTheTruth == ShopSpec => []StatusTellsWhatWasDone
<1>1. ShopInv => StatusTellsWhatWasDone
  <2> SUFFICES ASSUME ShopInv PROVE StatusTellsWhatWasDone
    OBVIOUS
  <2>1. \A o \in DOMAIN orders : Tells(o)
    BY DEF ShopInv
  <2>2. ASSUME NEW o PROVE Cardinality(PaymentsOf(o)) <= 1 /\ Cardinality(ShipmentsOf(o)) <= 1
    <3>1. \A x, y \in PaymentsOf(o) : x = y
      BY DEF ShopInv, Once, PaymentsOf
    <3>2. \A x, y \in ShipmentsOf(o) : x = y
      BY DEF ShopInv, Once, ShipmentsOf
    <3>3. ASSUME NEW S, \A x, y \in S : x = y PROVE Cardinality(S) <= 1
      <4>1. CASE S = {}
        BY <4>1, FS_EmptySet
      <4>2. CASE S # {}
        <5>1. PICK x : x \in S
          BY <4>2
        <5>2. S = {x}
          BY <3>3, <5>1
        <5> QED BY <5>2, FS_Singleton
      <4> QED BY <4>1, <4>2
    <3> QED BY <3>1, <3>2, <3>3
  <2> QED BY <2>1, <2>2 DEF StatusTellsWhatWasDone, Tells
<1> QED BY <1>1, StepsKeepShopInv, ShopOpens, PTL DEF ShopSpec

-----------------------------------------------------------------------------
(* A set of numbers has a least one. *)
LEMMA LeastOf ==
  ASSUME NEW S \in SUBSET Nat, S # {}
  PROVE  \E i \in S : \A j \in S : i <= j
<1>1. IsWellFoundedOn(OpToRel(<, Nat), Nat)
  BY NatLessThanWellFounded
<1>2. PICK i \in S : \A j \in S : ~(<<j, i>> \in OpToRel(<, Nat))
  BY <1>1, WFMin
<1>3. \A j \in S : <<j, i>> \in Nat \X Nat /\ <<j, i>>[1] = j /\ <<j, i>>[2] = i
  OBVIOUS
<1>4. \A j \in S : ~(j < i)
  BY <1>2, <1>3 DEF OpToRel
<1> QED BY <1>4

-----------------------------------------------------------------------------
(* The IDs as they are printed. *)

(* What is left of a number without its last digit is less. *)
LEMMA WithoutItsLastDigit ==
  ASSUME NEW n \in Nat
  PROVE  /\ n \div Radix \in Nat /\ n % Radix \in Nat /\ n % Radix < Radix
         /\ n = Radix * (n \div Radix) + (n % Radix)
         /\ n >= Radix => n \div Radix < n /\ n \div Radix >= 1
<1>1. Radix \in Nat /\ Radix >= 2
  BY ShopAssumption
<1>2. PICK r : r = Radix
  OBVIOUS
<1>3. r \in Nat /\ r >= 2
  BY <1>1, <1>2
<1>4. n \div r \in Nat /\ n % r \in Nat /\ n % r < r /\ n = r * (n \div r) + (n % r)
  BY <1>3
<1>5. PICK q, m : q = n \div r /\ m = n % r
  OBVIOUS
<1>6. q \in Nat /\ m \in Nat /\ m < r /\ n = r * q + m
  BY <1>4, <1>5
<1>7. ASSUME n >= r PROVE q >= 1
  BY <1>3, <1>6, <1>7
<1>8. ASSUME q >= 1 PROVE r * q >= 2 * q
  BY <1>3, <1>6, <1>8
<1>9. n >= r => q < n /\ q >= 1
  BY <1>3, <1>6, <1>7, <1>8
<1> QED BY <1>2, <1>4, <1>5, <1>9

(* What Digits says of a number, and a function that says it of 0..m. *)
DigitsFrom(f, n) == IF n < Radix THEN <<n>> ELSE Append(f[n \div Radix], n % Radix)
DigitsTo(f, m) == f = [n \in 0..m |-> DigitsFrom(f, n)]

LEMMA DigitsToIs ==
  ASSUME NEW f, NEW m \in Nat, DigitsTo(f, m), NEW n \in 0..m
  PROVE  DOMAIN f = 0..m /\ f[n] = DigitsFrom(f, n)
<1> DEFINE g == [k \in 0..m |-> DigitsFrom(f, k)]
<1>1. f = g
  BY DEF DigitsTo
<1>2. DOMAIN g = 0..m /\ g[n] = DigitsFrom(f, n)
  OBVIOUS
<1> HIDE DEF g
<1> QED BY <1>1, <1>2

LEMMA DigitsToAgree ==
  ASSUME NEW f, NEW m \in Nat, DigitsTo(f, m), NEW g, NEW k \in Nat, DigitsTo(g, k),
         NEW n \in Nat, n <= m, n <= k
  PROVE  f[n] = g[n]
<1> DEFINE Bad == {i \in Nat : i <= m /\ i <= k /\ f[i] # g[i]}
<1>1. SUFFICES ASSUME Bad # {} PROVE FALSE
  OBVIOUS
<1>2. PICK i \in Bad : \A j \in Bad : i <= j
  <2>1. Bad \in SUBSET Nat
    OBVIOUS
  <2> HIDE DEF Bad
  <2> QED BY <1>1, <2>1, LeastOf
<1>3. i \in Nat /\ i \in 0..m /\ i \in 0..k /\ f[i] # g[i]
  BY <1>2
<1>4. f[i] = DigitsFrom(f, i) /\ g[i] = DigitsFrom(g, i)
  BY <1>3, DigitsToIs
<1>5. CASE i < Radix
  BY <1>3, <1>4, <1>5 DEF DigitsFrom
<1>6. CASE ~(i < Radix)
  <2>1. Radix \in Nat
    BY ShopAssumption
  <2>2. PICK q : q = i \div Radix
    OBVIOUS
  <2>3. q \in Nat /\ q < i
    BY <1>3, <1>6, <2>1, <2>2, WithoutItsLastDigit
  <2>4. q \notin Bad
    BY <1>2, <1>3, <2>3
  <2>5. f[q] = g[q]
    BY <1>3, <2>3, <2>4
  <2> QED BY <1>3, <1>4, <1>6, <2>2, <2>5 DEF DigitsFrom
<1> QED BY <1>5, <1>6

LEMMA DigitsToAll == \A m \in Nat : \E f : DigitsTo(f, m)
<1> DEFINE Bad == {m \in Nat : ~ \E f : DigitsTo(f, m)}
<1>1. SUFFICES ASSUME Bad # {} PROVE FALSE
  OBVIOUS
<1>2. PICK m \in Bad : \A j \in Bad : m <= j
  <2>1. Bad \in SUBSET Nat
    OBVIOUS
  <2> HIDE DEF Bad
  <2> QED BY <1>1, <2>1, LeastOf
<1>3. m \in Nat /\ \A f : ~DigitsTo(f, m)
  BY <1>2
<1>4. Radix \in Nat /\ Radix >= 2
  BY ShopAssumption
<1>5. CASE m = 0
  <2> DEFINE f == [n \in 0..0 |-> <<n>>]
  <2>1. \A n \in 0..0 : n < Radix /\ DigitsFrom(f, n) = <<n>>
    BY <1>4 DEF DigitsFrom
  <2>2. f = [n \in 0..0 |-> DigitsFrom(f, n)]
    <3>1. \A n \in 0..0 : <<n>> = DigitsFrom(f, n)
      BY <2>1
    <3> HIDE DEF f
    <3>2. f = [n \in 0..0 |-> <<n>>]
      BY DEF f
    <3> QED BY <3>1, <3>2
  <2>3. DigitsTo(f, m)
    BY <1>5, <2>2 DEF DigitsTo
  <2> QED BY <1>3, <2>3
<1>6. CASE m # 0
  <2>1. m - 1 \in Nat /\ m - 1 < m
    BY <1>3, <1>6
  <2>2. m - 1 \notin Bad
    BY <1>2, <1>3, <2>1
  <2>3. PICK g : DigitsTo(g, m - 1)
    BY <2>1, <2>2
  <2> DEFINE f == [n \in 0..m |-> DigitsFrom(g, n)]
  <2>4. ASSUME NEW n \in 0..(m - 1) PROVE f[n] = g[n]
    <3>1. n \in 0..m
      BY <2>1
    <3>2. f[n] = DigitsFrom(g, n)
      BY <3>1
    <3>3. g[n] = DigitsFrom(g, n)
      BY <2>1, <2>3, DigitsToIs
    <3> QED BY <3>2, <3>3
  <2>5. ASSUME NEW n \in 0..m PROVE DigitsFrom(f, n) = DigitsFrom(g, n)
    <3>1. CASE n < Radix
      BY <3>1 DEF DigitsFrom
    <3>2. CASE ~(n < Radix)
      <4>1. n \in Nat
        BY <1>3
      <4>2. PICK q : q = n \div Radix
        OBVIOUS
      <4>3. q \in Nat /\ q < n
        BY <1>4, <3>2, <4>1, <4>2, WithoutItsLastDigit
      <4>4. q \in 0..(m - 1)
        BY <1>3, <4>3
      <4>5. f[q] = g[q]
        BY <2>4, <4>4
      <4> HIDE DEF f
      <4> QED BY <3>2, <4>2, <4>5 DEF DigitsFrom
    <3> QED BY <3>1, <3>2
  <2>6. f = [n \in 0..m |-> DigitsFrom(f, n)]
    <3>1. f = [n \in 0..m |-> DigitsFrom(g, n)]
      OBVIOUS
    <3> HIDE DEF f
    <3> QED BY <2>5, <3>1
  <2>7. DigitsTo(f, m)
    <3> HIDE DEF f
    <3> QED BY <2>6 DEF DigitsTo
  <2> QED BY <1>3, <2>7
<1> QED BY <1>5, <1>6

(* Digits is there, and is what its definition says. *)
LEMMA DigitsAre ==
  ASSUME NEW n \in Nat
  PROVE  Digits[n] = IF n < Radix THEN <<n>> ELSE Append(Digits[n \div Radix], n % Radix)
<1> DEFINE upTo(m) == CHOOSE f : DigitsTo(f, m)
           all == [k \in Nat |-> upTo(k)[k]]
           said(f) == [k \in Nat |-> DigitsFrom(f, k)]
           it == CHOOSE f : f = said(f)
<1>1. \A m \in Nat : DigitsTo(upTo(m), m)
  BY DigitsToAll
<1>2. ASSUME NEW k \in Nat PROVE all[k] = DigitsFrom(all, k)
  <2> HIDE DEF upTo
  <2>1. all[k] = upTo(k)[k]
    OBVIOUS
  <2>2. upTo(k)[k] = DigitsFrom(upTo(k), k)
    BY <1>1, DigitsToIs
  <2>3. CASE k < Radix
    BY <2>1, <2>2, <2>3 DEF DigitsFrom
  <2>4. CASE ~(k < Radix)
    <3>1. Radix \in Nat
      BY ShopAssumption
    <3>2. PICK q : q = k \div Radix
      OBVIOUS
    <3>3. q \in Nat /\ q < k
      BY <2>4, <3>1, <3>2, WithoutItsLastDigit
    <3>4. all[q] = upTo(q)[q]
      BY <3>3
    <3>5. upTo(q)[q] = upTo(k)[q]
      BY <1>1, <3>3, DigitsToAgree
    <3>6. all[q] = upTo(k)[q]
      BY <3>4, <3>5
    <3> HIDE DEF all
    <3> QED BY <2>1, <2>2, <2>4, <3>2, <3>6 DEF DigitsFrom
  <2> QED BY <2>3, <2>4
<1>3. all = said(all)
  <2>1. all = [k \in Nat |-> all[k]]
    OBVIOUS
  <2> HIDE DEF all
  <2> QED BY <1>2, <2>1
<1>4. it = said(it)
  <2> HIDE DEF all, said
  <2> QED BY <1>3
<1>5. it[n] = DigitsFrom(it, n)
  <2> HIDE DEF it
  <2> QED BY <1>4
<1>6. Digits = it
  BY DEF Digits, DigitsFrom
<1> HIDE DEF it
<1> QED BY <1>5, <1>6 DEF DigitsFrom

(* A number has a digit, and its first is no zero unless it is one. *)
LEMMA DigitsAreSome ==
  ASSUME NEW n \in Nat
  PROVE  /\ Digits[n] \in Seq(Nat) /\ Len(Digits[n]) >= 1
         /\ n >= 1 => Digits[n][1] >= 1
<1> DEFINE Good(k) == Digits[k] \in Seq(Nat) /\ Len(Digits[k]) >= 1 /\ (k >= 1 => Digits[k][1] >= 1)
           Bad == {k \in Nat : ~Good(k)}
<1>1. SUFFICES ASSUME Bad # {} PROVE FALSE
  OBVIOUS
<1>2. PICK k \in Bad : \A j \in Bad : k <= j
  <2>1. Bad \in SUBSET Nat
    OBVIOUS
  <2> HIDE DEF Bad
  <2> QED BY <1>1, <2>1, LeastOf
<1>3. k \in Nat /\ ~Good(k)
  BY <1>2
<1>4. Radix \in Nat
  BY ShopAssumption
<1>5. CASE k < Radix
  <2>1. Digits[k] = <<k>>
    BY <1>3, <1>5, DigitsAre
  <2>2. <<k>> \in Seq(Nat) /\ Len(<<k>>) = 1 /\ <<k>>[1] = k
    BY <1>3
  <2> QED BY <1>3, <2>1, <2>2
<1>6. CASE ~(k < Radix)
  <2>1. PICK q, m : q = k \div Radix /\ m = k % Radix
    OBVIOUS
  <2>2. q \in Nat /\ m \in Nat /\ q < k /\ q >= 1
    BY <1>3, <1>4, <1>6, <2>1, WithoutItsLastDigit
  <2>3. Good(q)
    BY <1>2, <1>3, <2>2
  <2>4. Digits[k] = Append(Digits[q], m)
    BY <1>3, <1>6, <2>1, DigitsAre
  <2>5. PICK d : d = Digits[q]
    OBVIOUS
  <2>6. d \in Seq(Nat) /\ Len(d) >= 1 /\ d[1] >= 1
    BY <2>2, <2>3, <2>5
  <2>7. Append(d, m) \in Seq(Nat) /\ Len(Append(d, m)) >= 1 /\ Append(d, m)[1] = d[1]
    BY <2>2, <2>6
  <2> QED BY <1>3, <2>4, <2>5, <2>6, <2>7
<1> QED BY <1>5, <1>6

(* The order of texts of one length, and of lengths before it. *)
Precedes(s, t) ==
  \/ Len(s) < Len(t)
  \/ /\ Len(s) = Len(t)
     /\ \E k \in 1..Len(s) : s[k] < t[k] /\ \A j \in 1..(k - 1) : s[j] = t[j]

LEMMA DigitsKeepOrder ==
  ASSUME NEW a \in Nat, NEW b \in Nat, a < b
  PROVE  Precedes(Digits[a], Digits[b])
<1> DEFINE Bad == {k \in Nat : \E i \in Nat : i < k /\ ~Precedes(Digits[i], Digits[k])}
<1>1. SUFFICES ASSUME Bad # {} PROVE FALSE
  OBVIOUS
<1>2. PICK k \in Bad : \A j \in Bad : k <= j
  <2>1. Bad \in SUBSET Nat
    OBVIOUS
  <2> HIDE DEF Bad
  <2> QED BY <1>1, <2>1, LeastOf
<1>3. k \in Nat /\ \E i \in Nat : i < k /\ ~Precedes(Digits[i], Digits[k])
  BY <1>2
<1>4. PICK i \in Nat : i < k /\ ~Precedes(Digits[i], Digits[k])
  BY <1>3
<1>5. Radix \in Nat
  BY ShopAssumption
<1>6. CASE k < Radix
  <2>1. Digits[k] = <<k>>
    BY <1>3, <1>6, DigitsAre
  <2>2. i < Radix
    BY <1>3, <1>4, <1>5, <1>6
  <2>3. Digits[i] = <<i>>
    BY <1>4, <2>2, DigitsAre
  <2>4. Precedes(<<i>>, <<k>>)
    BY <1>3, <1>4 DEF Precedes
  <2> QED BY <1>4, <2>1, <2>3, <2>4
<1>7. CASE ~(k < Radix)
  <2>1. PICK q, m : q = k \div Radix /\ m = k % Radix
    OBVIOUS
  <2>2. q \in Nat /\ m \in Nat /\ q < k /\ k = Radix * q + m
    BY <1>3, <1>5, <1>7, <2>1, WithoutItsLastDigit
  <2>3. PICK d : d = Digits[q]
    OBVIOUS
  <2>4. d \in Seq(Nat) /\ Len(d) >= 1
    BY <2>2, <2>3, DigitsAreSome
  <2>5. Digits[k] = Append(d, m)
    BY <1>3, <1>7, <2>1, <2>3, DigitsAre
  <2>6. CASE i < Radix
    <3>1. Digits[i] = <<i>>
      BY <1>4, <2>6, DigitsAre
    <3>2. Len(<<i>>) < Len(Append(d, m))
      BY <2>2, <2>4
    <3> QED BY <1>4, <2>5, <3>1, <3>2 DEF Precedes
  <2>7. CASE ~(i < Radix)
    <3>1. PICK p, l : p = i \div Radix /\ l = i % Radix
      OBVIOUS
    <3>2. p \in Nat /\ l \in Nat /\ l < Radix /\ i = Radix * p + l
      BY <1>4, <1>5, <2>7, <3>1, WithoutItsLastDigit
    <3>3. PICK c : c = Digits[p]
      OBVIOUS
    <3>4. c \in Seq(Nat) /\ Len(c) >= 1
      BY <3>2, <3>3, DigitsAreSome
    <3>5. Digits[i] = Append(c, l)
      BY <1>4, <2>7, <3>1, <3>3, DigitsAre
    <3>6. p < q \/ (p = q /\ l < m)
      <4>1. CASE p = q
        BY <1>3, <1>4, <1>5, <2>2, <3>2, <4>1
      <4>2. CASE p > q
        <5>1. p >= q + 1
          BY <2>2, <3>2, <4>2
        <5>2. Radix * p >= Radix * q + Radix
          BY <1>5, <2>2, <3>2, <5>1
        <5>3. m < Radix
          BY <1>3, <1>5, <2>1, WithoutItsLastDigit
        <5>4. PICK x, y : x = Radix * p /\ y = Radix * q
          OBVIOUS
        <5>5. x \in Nat /\ y \in Nat
          BY <1>5, <2>2, <3>2, <5>4
        <5> QED BY <1>3, <1>4, <1>5, <2>2, <3>2, <5>2, <5>3, <5>4, <5>5
      <4> QED BY <2>2, <3>2, <4>1, <4>2
    <3>7. CASE p < q
      <4>1. Precedes(c, d)
        <5>1. q \notin Bad
          BY <1>2, <1>3, <2>2
        <5> QED BY <2>2, <2>3, <3>2, <3>3, <3>7, <5>1
      <4>2. Precedes(Append(c, l), Append(d, m))
        <5>1. CASE Len(c) < Len(d)
          BY <2>2, <2>4, <3>2, <3>4, <5>1 DEF Precedes
        <5>2. CASE ~(Len(c) < Len(d))
          <6>1. Len(c) = Len(d) /\ \E x \in 1..Len(c) : c[x] < d[x] /\ \A j \in 1..(x - 1) : c[j] = d[j]
            BY <4>1, <5>2 DEF Precedes
          <6>2. PICK x \in 1..Len(c) : c[x] < d[x] /\ \A j \in 1..(x - 1) : c[j] = d[j]
            BY <6>1
          <6>3. \A j \in 1..Len(c) : Append(c, l)[j] = c[j] /\ Append(d, m)[j] = d[j]
            BY <2>2, <2>4, <3>2, <3>4, <6>1
          <6>4. Len(Append(c, l)) = Len(c) + 1 /\ Len(Append(d, m)) = Len(c) + 1
            <7>1. Len(Append(c, l)) = Len(c) + 1 /\ Len(Append(d, m)) = Len(d) + 1
              BY <2>2, <2>4, <3>2, <3>4
            <7> QED BY <6>1, <7>1
          <6>5. x \in 1..(Len(c) + 1) /\ \A j \in 1..(x - 1) : j \in 1..Len(c)
            BY <3>4, <6>2
          <6> QED BY <6>2, <6>3, <6>4, <6>5 DEF Precedes
        <5> QED BY <5>1, <5>2
      <4> QED BY <1>4, <2>5, <3>5, <4>2
    <3>8. CASE p = q /\ l < m
      <4>1. c = d
        BY <2>3, <3>3, <3>8
      <4>2. /\ Len(Append(d, l)) = Len(d) + 1 /\ Len(Append(d, m)) = Len(d) + 1
            /\ Append(d, l)[Len(d) + 1] = l /\ Append(d, m)[Len(d) + 1] = m
            /\ \A j \in 1..Len(d) : Append(d, l)[j] = Append(d, m)[j]
        BY <2>2, <2>4, <3>2
      <4>3. Len(d) + 1 \in 1..(Len(d) + 1) /\ (Len(d) + 1) - 1 = Len(d)
        BY <2>4
      <4>4. Precedes(Append(d, l), Append(d, m))
        BY <3>8, <4>2, <4>3 DEF Precedes
      <4> QED BY <1>4, <2>5, <3>5, <4>1, <4>4
    <3> QED BY <3>6, <3>7, <3>8
  <2> QED BY <2>6, <2>7
<1> QED BY <1>6, <1>7

(* How many zeros an ID is printed with before its digits. *)
Zeros(d) == IF Len(d) < Width THEN Width - Len(d) ELSE 0

LEMMA PrintedIs ==
  ASSUME NEW n \in Nat
  PROVE  /\ Zeros(Digits[n]) \in Nat
         /\ Printed(n) \in Seq(Nat) /\ Len(Printed(n)) = Zeros(Digits[n]) + Len(Digits[n])
         /\ \A i \in 1..Zeros(Digits[n]) : Printed(n)[i] = 0
         /\ \A i \in 1..Len(Digits[n]) : Printed(n)[Zeros(Digits[n]) + i] = Digits[n][i]
<1>0. PICK d : d = Digits[n]
  OBVIOUS
<1>1. Width \in Nat
  BY ShopAssumption
<1>2. d \in Seq(Nat) /\ Len(d) \in Nat
  BY <1>0, DigitsAreSome
<1>3. Zeros(d) \in Nat /\ Zeros(d) \in {Width - Len(d), 0} /\ \A y \in {Width - Len(d), 0} : Zeros(d) >= y
  BY <1>1, <1>2 DEF Zeros
<1>4. Max({Width - Len(d), 0}) = Zeros(d)
  <2>1. \A z \in {Width - Len(d), 0} :
          (\A y \in {Width - Len(d), 0} : z >= y) => z = Zeros(d)
    BY <1>1, <1>2 DEF Zeros
  <2> QED BY <1>3, <2>1 DEF Max
<1>5. PICK w : w = Zeros(d)
  OBVIOUS
<1>6. PICK z : z = [i \in 1..w |-> 0]
  OBVIOUS
<1>7. w \in Nat /\ z \in Seq(Nat) /\ Len(z) = w /\ \A i \in 1..w : z[i] = 0
  <2>1. w \in Nat
    BY <1>3, <1>5
  <2>2. z \in [1..w -> Nat]
    BY <1>6
  <2> QED BY <1>6, <2>1, <2>2
<1>8. Printed(n) = z \o d
  BY <1>0, <1>4, <1>5, <1>6 DEF Printed
<1>9. z \o d \in Seq(Nat) /\ Len(z \o d) = w + Len(d)
  <2>1. z \o d \in Seq(Nat)
    BY <1>2, <1>7
  <2>2. \A s, t \in Seq(Nat) : Len(s \o t) = Len(s) + Len(t)
    OBVIOUS
  <2>3. Len(z \o d) = Len(z) + Len(d)
    BY <1>2, <1>7, <2>2
  <2> QED BY <1>7, <2>1, <2>3
<1>10. \A i \in 1..w : (z \o d)[i] = 0
  BY <1>2, <1>7
<1>11. \A i \in 1..Len(d) : (z \o d)[w + i] = d[i]
  BY <1>2, <1>7
<1> QED BY <1>0, <1>5, <1>7, <1>8, <1>9, <1>10, <1>11

(* The zeros keep the order. *)
LEMMA PrintedKeepsOrder ==
  ASSUME NEW a \in Nat, NEW b \in Nat, a < b
  PROVE  Precedes(Printed(a), Printed(b))
<1>1. PICK c, d : c = Digits[a] /\ d = Digits[b]
  OBVIOUS
<1>2. PICK x, y : x = Zeros(c) /\ y = Zeros(d)
  OBVIOUS
<1>3. PICK s, t : s = Printed(a) /\ t = Printed(b)
  OBVIOUS
<1>4. /\ c \in Seq(Nat) /\ Len(c) \in Nat /\ Len(c) >= 1
      /\ d \in Seq(Nat) /\ Len(d) \in Nat /\ Len(d) >= 1 /\ d[1] >= 1
  BY <1>1, DigitsAreSome
<1>5. /\ x \in Nat /\ Len(s) = x + Len(c)
      /\ \A i \in 1..x : s[i] = 0
      /\ \A i \in 1..Len(c) : s[x + i] = c[i]
  <2>1. /\ Zeros(Digits[a]) \in Nat /\ Len(Printed(a)) = Zeros(Digits[a]) + Len(Digits[a])
        /\ \A i \in 1..Zeros(Digits[a]) : Printed(a)[i] = 0
        /\ \A i \in 1..Len(Digits[a]) : Printed(a)[Zeros(Digits[a]) + i] = Digits[a][i]
    BY PrintedIs
  <2> QED BY <1>1, <1>2, <1>3, <2>1
<1>6. /\ y \in Nat /\ Len(t) = y + Len(d)
      /\ \A i \in 1..y : t[i] = 0
      /\ \A i \in 1..Len(d) : t[y + i] = d[i]
  <2>1. /\ Zeros(Digits[b]) \in Nat /\ Len(Printed(b)) = Zeros(Digits[b]) + Len(Digits[b])
        /\ \A i \in 1..Zeros(Digits[b]) : Printed(b)[i] = 0
        /\ \A i \in 1..Len(Digits[b]) : Printed(b)[Zeros(Digits[b]) + i] = Digits[b][i]
    BY PrintedIs
  <2> QED BY <1>1, <1>2, <1>3, <2>1
<1>7. /\ x = (IF Len(c) < Width THEN Width - Len(c) ELSE 0)
      /\ y = (IF Len(d) < Width THEN Width - Len(d) ELSE 0)
      /\ Width \in Nat
  BY <1>2, ShopAssumption DEF Zeros
<1>8. Precedes(c, d)
  BY <1>1, DigitsKeepOrder
<1>9. Precedes(s, t)
  <2>1. CASE Len(c) < Len(d)
    <3>1. CASE Len(s) < Len(t)
      BY <3>1 DEF Precedes
    <3>2. CASE ~(Len(s) < Len(t))
      <4>1. y < x /\ Len(s) = Len(t)
        BY <1>4, <1>5, <1>6, <1>7, <2>1, <3>2
      <4>2. y + 1 \in 1..x /\ y + 1 \in 1..Len(s) /\ (y + 1) - 1 = y
        BY <1>4, <1>5, <1>6, <4>1
      <4>3. s[y + 1] = 0 /\ t[y + 1] = d[1] /\ d[1] \in Nat
        BY <1>4, <1>5, <1>6, <4>2
      <4>4. \A j \in 1..y : s[j] = t[j]
        BY <1>5, <1>6, <4>1
      <4>5. s[y + 1] < t[y + 1]
        BY <1>4, <4>3
      <4> QED BY <4>1, <4>2, <4>4, <4>5 DEF Precedes
    <3> QED BY <3>1, <3>2
  <2>2. CASE ~(Len(c) < Len(d))
    <3>1. PICK k \in 1..Len(c) : c[k] < d[k] /\ \A j \in 1..(k - 1) : c[j] = d[j]
      BY <1>8, <2>2 DEF Precedes
    <3>2. Len(c) = Len(d)
      BY <1>8, <2>2 DEF Precedes
    <3>3. x = y /\ Len(s) = Len(t)
      BY <1>5, <1>6, <1>7, <3>2
    <3>4. x + k \in 1..Len(s) /\ k \in Nat
      BY <1>4, <1>5, <3>1
    <3>5. s[x + k] < t[x + k]
      <4>1. s[x + k] = c[k] /\ t[y + k] = d[k]
        BY <1>5, <1>6, <3>1, <3>2
      <4> QED BY <3>1, <3>3, <4>1
    <3>6. ASSUME NEW j \in 1..((x + k) - 1) PROVE s[j] = t[j]
      <4>1. CASE j <= x
        BY <1>5, <1>6, <3>3, <4>1
      <4>2. CASE ~(j <= x)
        <5>1. j - x \in 1..(k - 1) /\ j - x \in 1..Len(c) /\ j = x + (j - x)
          BY <1>4, <1>5, <3>1, <3>4, <4>2
        <5>2. PICK i \in 1..(k - 1) : i \in 1..Len(c) /\ j = x + i
          BY <5>1
        <5>3. s[x + i] = c[i] /\ t[y + i] = d[i] /\ c[i] = d[i]
          BY <1>5, <1>6, <3>1, <3>2, <5>2
        <5> QED BY <3>3, <5>2, <5>3
      <4> QED BY <4>1, <4>2
    <3> QED BY <3>3, <3>4, <3>5, <3>6 DEF Precedes
  <2> QED BY <2>1, <2>2
<1> QED BY <1>3, <1>9

(* compareIDs compares as Precedes does. *)
LEMMA ComparesTexts ==
  ASSUME NEW a \in Nat, NEW b \in Nat
  PROVE  /\ Precedes(Printed(a), Printed(b)) => ComesBefore(a, b)
         /\ ComesBefore(a, b) => ~Precedes(Printed(b), Printed(a)) /\ Printed(a) # Printed(b)
<1>1. PICK s, t : s = Printed(a) /\ t = Printed(b)
  OBVIOUS
<1>2. s \in Seq(Nat) /\ t \in Seq(Nat)
  BY <1>1, PrintedIs
<1> DEFINE differ == {i \in 1..Len(s) : s[i] # t[i]}
<1>3. Len(s) = Len(t) => (TextBefore(s, t) <=> IF differ = {} THEN FALSE ELSE s[Min(differ)] < t[Min(differ)])
  <2> SUFFICES ASSUME Len(s) = Len(t)
               PROVE  TextBefore(s, t) <=> IF differ = {} THEN FALSE ELSE s[Min(differ)] < t[Min(differ)]
    OBVIOUS
  <2>1. Len(s) \in Nat /\ Min({Len(s), Len(t)}) = Len(s) /\ ~(Len(s) < Len(t))
    BY <1>2 DEF Min
  <2> QED BY <2>1 DEF TextBefore
<1>4. differ # {} => /\ Min(differ) \in 1..Len(s) /\ s[Min(differ)] # t[Min(differ)]
                     /\ \A j \in 1..Len(s) : s[j] # t[j] => Min(differ) <= j
  <2>1. differ \in SUBSET Nat
    OBVIOUS
  <2>2. differ # {} => Min(differ) \in differ /\ \A j \in differ : Min(differ) <= j
    <3> HIDE DEF differ
    <3> QED BY <2>1, LeastOf DEF Min
  <2> QED BY <2>2
<1>5. \A i \in 1..Len(s) : s[i] \in Nat
  BY <1>2
<1>6. Len(s) = Len(t) => \A i \in 1..Len(s) : t[i] \in Nat
  BY <1>2
<1>7. Len(s) \in Nat /\ Len(t) \in Nat
  BY <1>2
<1>8. ComesBefore(a, b) <=> Len(s) < Len(t) \/ (Len(s) = Len(t) /\ TextBefore(s, t))
  BY <1>1 DEF ComesBefore
<1>9. ASSUME Precedes(s, t) PROVE ComesBefore(a, b)
  <2>1. CASE Len(s) < Len(t)
    BY <1>8, <2>1
  <2>2. CASE ~(Len(s) < Len(t))
    <3>1. Len(s) = Len(t) /\ \E k \in 1..Len(s) : s[k] < t[k] /\ \A j \in 1..(k - 1) : s[j] = t[j]
      BY <1>9, <2>2 DEF Precedes
    <3>2. PICK k \in 1..Len(s) : s[k] < t[k] /\ \A j \in 1..(k - 1) : s[j] = t[j]
      BY <3>1
    <3>3. k \in differ
      BY <1>5, <1>6, <3>1, <3>2
    <3>4. PICK m : m = Min(differ)
      OBVIOUS
    <3>5. m \in 1..Len(s) /\ s[m] # t[m] /\ m <= k
      BY <1>4, <3>3, <3>4
    <3>6. m = k
      BY <1>7, <3>2, <3>5
    <3> QED BY <1>3, <1>8, <3>1, <3>2, <3>3, <3>4, <3>6
  <2> QED BY <2>1, <2>2
<1>10. ASSUME ComesBefore(a, b) PROVE ~Precedes(t, s) /\ s # t
  <2>1. CASE Len(s) < Len(t)
    BY <1>7, <2>1 DEF Precedes
  <2>2. CASE Len(s) = Len(t)
    <3>1. differ # {} /\ s[Min(differ)] < t[Min(differ)]
      BY <1>3, <1>7, <1>8, <1>10, <2>2
    <3>2. PICK m : m = Min(differ)
      OBVIOUS
    <3>3. m \in 1..Len(s) /\ s[m] < t[m] /\ \A j \in 1..Len(s) : s[j] # t[j] => m <= j
      BY <1>4, <3>1, <3>2
    <3>4. ~ \E k \in 1..Len(t) : t[k] < s[k] /\ \A j \in 1..(k - 1) : t[j] = s[j]
      <4>1. SUFFICES ASSUME NEW k \in 1..Len(t), t[k] < s[k], \A j \in 1..(k - 1) : t[j] = s[j] PROVE FALSE
        OBVIOUS
      <4>2. k \in 1..Len(s) /\ s[k] \in Nat /\ t[k] \in Nat /\ s[m] \in Nat /\ t[m] \in Nat
        BY <1>5, <1>6, <2>2, <3>3
      <4>3. m <= k
        BY <3>3, <4>1, <4>2
      <4>4. CASE m = k
        BY <3>3, <4>1, <4>2, <4>4
      <4>5. CASE m # k
        <5>1. m \in 1..(k - 1)
          BY <1>7, <3>3, <4>2, <4>3, <4>5
        <5>2. t[m] = s[m]
          BY <4>1, <5>1
        <5> QED BY <3>3, <4>2, <5>2
      <4> QED BY <4>4, <4>5
    <3>5. s # t
      <4>1. s[m] \in Nat
        BY <1>5, <3>3
      <4> QED BY <3>3, <4>1
    <3> QED BY <1>7, <2>2, <3>4, <3>5 DEF Precedes
  <2> QED BY <1>8, <1>10, <2>1, <2>2
<1> QED BY <1>1, <1>9, <1>10

(* compareIDs orders IDs by their numbers, past a digit more as well. *)
LEMMA ComesBeforeIsLess ==
  ASSUME NEW a \in Nat, NEW b \in Nat
  PROVE  ComesBefore(a, b) <=> a < b
<1>1. a < b => ComesBefore(a, b)
  BY PrintedKeepsOrder, ComparesTexts
<1>2. ASSUME ComesBefore(a, b) PROVE a < b
  <2>1. a # b
    BY <1>2, ComparesTexts
  <2>2. ~(b < a)
    BY <1>2, ComparesTexts, PrintedKeepsOrder
  <2> QED BY <2>1, <2>2
<1> QED BY <1>1, <1>2

-----------------------------------------------------------------------------
(* The pages of a listing. *)

Before(L, o) == {x \in L : x < o}
Place(L, o) == Cardinality(Before(L, o)) + 1

LEMMA BeforeIsFinite ==
  ASSUME NEW n \in Nat, NEW L \in SUBSET (1..n)
  PROVE  /\ IsFiniteSet(L) /\ Cardinality(L) \in Nat
         /\ \A k : IsFiniteSet(Before(L, k)) /\ Cardinality(Before(L, k)) \in Nat
<1>1. ASSUME NEW S \in SUBSET (1..n) PROVE IsFiniteSet(S) /\ Cardinality(S) \in Nat
  <2>1. IsFiniteSet(1..n)
    BY FS_Interval
  <2>2. IsFiniteSet(S)
    BY <2>1, FS_Subset
  <2> QED BY <2>2, FS_CardinalityType
<1>2. \A k : Before(L, k) \in SUBSET (1..n)
  BY DEF Before
<1> QED BY <1>1, <1>2

(* Places are told apart, and are 1 up to the number of orders. *)
LEMMA PlacesAre ==
  ASSUME NEW n \in Nat, NEW L \in SUBSET (1..n)
  PROVE  /\ \A o \in L : Place(L, o) \in 1..Cardinality(L)
         /\ \A o, u \in L : o < u => Place(L, o) < Place(L, u)
<1>1. IsFiniteSet(L) /\ \A k : IsFiniteSet(Before(L, k)) /\ Cardinality(Before(L, k)) \in Nat
  BY BeforeIsFinite
<1>2. \A o \in L : o \in Nat
  OBVIOUS
<1>3. ASSUME NEW o \in L PROVE Cardinality(Before(L, o) \cup {o}) = Cardinality(Before(L, o)) + 1
  <2>1. o \notin Before(L, o)
    BY <1>2 DEF Before
  <2> QED BY <1>1, <2>1, FS_AddElement
<1>4. ASSUME NEW o \in L PROVE Place(L, o) \in 1..Cardinality(L)
  <2>1. Before(L, o) \cup {o} \subseteq L
    BY DEF Before
  <2>2. Cardinality(Before(L, o) \cup {o}) <= Cardinality(L)
    BY <1>1, <2>1, FS_Subset
  <2>3. Cardinality(L) \in Nat
    BY BeforeIsFinite
  <2> QED BY <1>1, <1>3, <2>2, <2>3 DEF Place
<1>5. ASSUME NEW o \in L, NEW u \in L, o < u PROVE Place(L, o) < Place(L, u)
  <2>1. Before(L, o) \cup {o} \subseteq Before(L, u)
    <3>1. \A x \in L : x < o => x < u
      BY <1>2, <1>5
    <3> QED BY <1>5, <3>1 DEF Before
  <2>2. Cardinality(Before(L, o) \cup {o}) <= Cardinality(Before(L, u))
    BY <1>1, <2>1, FS_Subset
  <2> QED BY <1>1, <1>3, <2>2 DEF Place
<1> QED BY <1>4, <1>5

LEMMA PlacesAreTaken ==
  ASSUME NEW n \in Nat, NEW L \in SUBSET (1..n), NEW r \in 1..Cardinality(L)
  PROVE  \E o \in L : Place(L, o) = r
<1> DEFINE Enough == {k \in Nat : Cardinality(Before(L, k)) >= r}
<1>0. /\ \A y \in L : y \in Nat /\ 1 <= y /\ y <= n
      /\ Cardinality(L) \in Nat /\ r \in Nat /\ r >= 1 /\ r <= Cardinality(L)
      /\ \A k : IsFiniteSet(Before(L, k)) /\ Cardinality(Before(L, k)) \in Nat
  BY BeforeIsFinite
<1>1. n + 1 \in Enough
  <2>1. Before(L, n + 1) = L
    <3>1. \A y \in L : y < n + 1
      BY <1>0
    <3> QED BY <3>1 DEF Before
  <2> QED BY <1>0, <2>1
<1>2. PICK k \in Enough : \A j \in Enough : k <= j
  <2>1. Enough \in SUBSET Nat
    OBVIOUS
  <2> HIDE DEF Enough
  <2> QED BY <1>1, <2>1, LeastOf
<1>3. k \in Nat /\ Cardinality(Before(L, k)) >= r
  BY <1>2
<1>4. k # 0
  <2>1. Before(L, 0) = {}
    <3>1. \A y \in L : ~(y < 0)
      BY <1>0
    <3> QED BY <3>1 DEF Before
  <2>2. Cardinality(Before(L, 0)) = 0
    BY <2>1, FS_EmptySet
  <2> QED BY <1>0, <1>3, <2>2
<1>5. PICK i \in Nat : k = i + 1
  <2>1. k - 1 \in Nat /\ k = (k - 1) + 1
    BY <1>3, <1>4
  <2> QED BY <2>1
<1>6. Cardinality(Before(L, i)) < r
  <2>1. i \notin Enough
    BY <1>2, <1>5
  <2>2. ~(Cardinality(Before(L, i)) >= r)
    BY <2>1
  <2>3. PICK c : c = Cardinality(Before(L, i))
    OBVIOUS
  <2>4. c \in Nat /\ r \in Nat /\ ~(c >= r)
    BY <1>0, <2>2, <2>3
  <2> QED BY <2>3, <2>4
<1>7. Before(L, k) = Before(L, i) \/ (i \in L /\ Before(L, k) = Before(L, i) \cup {i})
  <2>1. \A y \in L : y < k <=> y < i \/ y = i
    BY <1>0, <1>5
  <2> QED BY <2>1 DEF Before
<1>8. Before(L, k) # Before(L, i)
  <2>1. PICK c, d : c = Cardinality(Before(L, i)) /\ d = Cardinality(Before(L, k))
    OBVIOUS
  <2>2. c \in Nat /\ d \in Nat /\ c < r /\ d >= r
    BY <1>0, <1>3, <1>6, <2>1
  <2>3. c # d
    BY <1>0, <2>2
  <2> QED BY <2>1, <2>3
<1>9. i \in L /\ Cardinality(Before(L, k)) = Cardinality(Before(L, i)) + 1
  <2>1. i \in L /\ Before(L, k) = Before(L, i) \cup {i}
    BY <1>7, <1>8
  <2>2. i \notin Before(L, i)
    BY DEF Before
  <2> QED BY <1>0, <2>1, <2>2, FS_AddElement
<1>10. Place(L, i) = r
  <2>1. PICK c, d : c = Cardinality(Before(L, i)) /\ d = Cardinality(Before(L, k))
    OBVIOUS
  <2>2. c \in Nat /\ d \in Nat /\ c < r /\ d >= r /\ d = c + 1
    BY <1>0, <1>3, <1>6, <1>9, <2>1
  <2>3. c + 1 = r
    BY <1>0, <2>2
  <2> QED BY <2>1, <2>3 DEF Place
<1> QED BY <1>9, <1>10

(* The orders that are left to list after a cursor. *)
Left(cursor) == {o \in DOMAIN orders : cursor = 0 \/ cursor < o}

LEMMA PagesAre ==
  ASSUME Typed, NEW cursor \in Nat, NEW page, page = Page(cursor)
  PROVE  /\ page \in Seq(Nat) /\ \A i \in 1..Len(page) : page[i] \in Left(cursor)
         /\ \A i, j \in 1..Len(page) : i < j => page[i] < page[j]
         /\ Len(page) # Limit => Left(cursor) \subseteq Range(page)
         /\ Len(page) = Limit =>
              /\ page[Limit] \in Nat \ {0} /\ \A i \in 1..Len(page) : page[i] <= page[Limit]
              /\ \A o \in Left(cursor) : o <= page[Limit] => o \in Range(page)
<1>1. PICK n \in Nat : \A o \in DOMAIN orders : o \in 1..n
  BY DEF Typed, Prefix
<1>2. PICK L \in SUBSET (1..n) : L = Left(cursor) /\ \A o \in L : o \in Nat \ {0}
  <2>1. \A o \in Left(cursor) : o \in 1..n /\ o \in Nat \ {0}
    BY <1>1 DEF Left
  <2> QED BY <2>1
<1>3. PICK m : m = Min({Limit, Cardinality(L)})
  OBVIOUS
<1>4. Cardinality(L) \in Nat /\ Limit \in Nat /\ Limit >= 1
  <2>1. L \in SUBSET (1..n)
    OBVIOUS
  <2> QED BY <2>1, BeforeIsFinite, ShopAssumption
<1>5. m = IF Limit <= Cardinality(L) THEN Limit ELSE Cardinality(L)
  BY <1>3, <1>4 DEF Min
<1>6. page = [i \in 1..m |-> CHOOSE o \in L : Place(L, o) = i]
  <2>1. L = {o \in DOMAIN orders : cursor = 0 \/ ComesBefore(cursor, o)}
    BY <1>1, <1>2, ComesBeforeIsLess DEF Left
  <2>2. ASSUME NEW o \in L PROVE Place(L, o) = Cardinality({x \in L : ComesBefore(x, o)}) + 1
    <3>1. {x \in L : ComesBefore(x, o)} = Before(L, o)
      BY <1>2, ComesBeforeIsLess DEF Before
    <3> QED BY <3>1 DEF Place
  <2>3. Page(cursor) = [i \in 1..m |-> CHOOSE o \in L : Cardinality({x \in L : ComesBefore(x, o)}) + 1 = i]
    BY <1>3, <2>1 DEF Page
  <2>4. ASSUME NEW i PROVE (CHOOSE o \in L : Place(L, o) = i)
                           = CHOOSE o \in L : Cardinality({x \in L : ComesBefore(x, o)}) + 1 = i
    BY <2>2
  <2> QED BY <2>3, <2>4
<1>7. ASSUME NEW i \in 1..m PROVE page[i] \in L /\ Place(L, page[i]) = i
  <2>1. i \in 1..Cardinality(L)
    BY <1>4, <1>5
  <2>2. \E o \in L : Place(L, o) = i
    BY <2>1, PlacesAreTaken
  <2>3. page[i] = CHOOSE o \in L : Place(L, o) = i
    BY <1>6
  <2> QED BY <2>2, <2>3
<1>8. m \in Nat /\ m <= Cardinality(L) /\ m <= Limit
  BY <1>4, <1>5
<1>9. page \in Seq(Nat) /\ Len(page) = m
  <2>1. page \in [1..m -> Nat]
    <3>1. \A i \in 1..m : page[i] \in Nat
      BY <1>2, <1>7
    <3>2. DOMAIN page = 1..m /\ page = [i \in DOMAIN page |-> page[i]]
      BY <1>6
    <3> QED BY <3>1, <3>2
  <2> QED BY <1>8, <2>1
<1>10. ASSUME NEW o \in L, Place(L, o) <= m PROVE o \in Range(page)
  <2>1. PICK i : i = Place(L, o)
    OBVIOUS
  <2>2. i \in 1..m
    <3>1. Place(L, o) \in 1..Cardinality(L)
      BY PlacesAre
    <3> QED BY <1>8, <1>10, <2>1, <3>1
  <2>3. page[i] \in L /\ Place(L, page[i]) = i
    BY <1>7, <2>2
  <2>4. page[i] = o
    <3>1. Place(L, o) = Place(L, page[i]) /\ Place(L, o) \in Nat
      BY <2>1, <2>2, <2>3
    <3>2. ~(o < page[i]) /\ ~(page[i] < o)
      <4>1. ~(Place(L, o) < Place(L, page[i])) /\ ~(Place(L, page[i]) < Place(L, o))
        BY <3>1
      <4> QED BY <2>3, <4>1, PlacesAre
    <3>3. o \in Nat /\ page[i] \in Nat
      BY <1>2, <2>3
    <3> QED BY <3>2, <3>3
  <2>5. DOMAIN page = 1..m
    BY <1>6
  <2> QED BY <2>2, <2>4, <2>5 DEF Range
<1>11. ASSUME NEW i \in 1..m, NEW j \in 1..m, i < j PROVE page[i] < page[j]
  <2>1. page[i] \in L /\ page[j] \in L /\ Place(L, page[i]) = i /\ Place(L, page[j]) = j
    BY <1>7
  <2>2. ~(page[j] < page[i])
    <3>1. page[j] < page[i] => j < i
      BY <2>1, PlacesAre
    <3> QED BY <1>8, <1>11, <3>1
  <2>3. page[i] # page[j]
    BY <1>8, <1>11, <2>1
  <2> QED BY <1>2, <2>1, <2>2, <2>3
<1>12. Len(page) # Limit => Left(cursor) \subseteq Range(page)
  <2> SUFFICES ASSUME Len(page) # Limit, NEW o \in L PROVE o \in Range(page)
    BY <1>2
  <2>1. m = Cardinality(L)
    BY <1>4, <1>5, <1>9
  <2>2. Place(L, o) \in 1..m
    BY <2>1, PlacesAre
  <2> QED BY <1>8, <1>10, <2>2
<1>13. Len(page) = Limit =>
         /\ page[Limit] \in Nat \ {0} /\ \A i \in 1..Len(page) : page[i] <= page[Limit]
         /\ \A o \in Left(cursor) : o <= page[Limit] => o \in Range(page)
  <2> SUFFICES ASSUME Len(page) = Limit
               PROVE  /\ page[Limit] \in Nat \ {0} /\ \A i \in 1..Len(page) : page[i] <= page[Limit]
                      /\ \A o \in Left(cursor) : o <= page[Limit] => o \in Range(page)
    OBVIOUS
  <2>1. m = Limit /\ m \in 1..m
    BY <1>4, <1>8, <1>9
  <2>2. PICK z : z = page[Limit]
    OBVIOUS
  <2>3. z \in L /\ Place(L, z) = m /\ z \in Nat \ {0}
    BY <1>2, <1>7, <2>1, <2>2
  <2>4. ASSUME NEW i \in 1..m PROVE page[i] <= z
    <3>1. i < m => page[i] < z
      BY <1>11, <2>1, <2>2
    <3>2. page[i] \in Nat /\ (i = m => page[i] = z)
      BY <1>2, <1>7, <2>1, <2>2
    <3> QED BY <1>8, <2>3, <3>1, <3>2
  <2>5. ASSUME NEW o \in L, o <= z PROVE o \in Range(page)
    <3>1. o \in Nat /\ (o = z \/ o < z)
      BY <2>3, <2>5
    <3>2. Place(L, o) \in 1..Cardinality(L) /\ (o < z => Place(L, o) < m)
      BY <2>3, PlacesAre
    <3>3. Place(L, o) <= m
      <4>1. CASE o = z
        BY <1>8, <2>3, <4>1
      <4>2. CASE o < z
        BY <1>8, <3>2, <4>2
      <4> QED BY <3>1, <4>1, <4>2
    <3> QED BY <1>10, <3>3
  <2> QED BY <1>2, <1>9, <2>2, <2>3, <2>4, <2>5
<1> QED BY <1>2, <1>7, <1>9, <1>11, <1>12, <1>13

-----------------------------------------------------------------------------
(* What a client has listed: in order, and up to its cursor every order that
   stayed. *)
Ascending(ids) == \A i, j \in 1..Len(ids) : i < j => ids[i] < ids[j]
UpToDate(l) ==
  /\ l.over => l.stayed \subseteq Range(l.ids)
  /\ ~l.over => /\ l.at # 0 /\ \A i \in 1..Len(l.ids) : l.ids[i] <= l.at
                /\ \A o \in l.stayed : o <= l.at => o \in Range(l.ids)

Listing == [at : Nat, ids : Seq(Nat), stayed : SUBSET Nat, over : BOOLEAN]

ListInv ==
  /\ listing \in Listing /\ listing.stayed \subseteq DOMAIN orders
  /\ Ascending(listing.ids) /\ UpToDate(listing)

LEMMA NothingListed ==
  ASSUME NEW l, l = NoListing
  PROVE  l \in Listing /\ l.stayed = {} /\ Ascending(l.ids) /\ UpToDate(l)
<1>1. l.at = 0 /\ l.ids = <<>> /\ l.stayed = {} /\ l.over = TRUE
  BY DEF NoListing
<1>2. l \in Listing
  BY DEF NoListing, Listing
<1>3. <<>> \in Seq(Nat) /\ Len(<<>>) = 0
  OBVIOUS
<1> QED BY <1>1, <1>2, <1>3 DEF Ascending, UpToDate

(* Orders that are made or moved are nothing to what was listed. *)
LEMMA ListedStays ==
  ASSUME ListInv, UNCHANGED listing, DOMAIN orders \subseteq DOMAIN orders'
  PROVE  ListInv'
BY DEF ListInv

(* An order that is deleted did not stay. *)
LEMMA ListedGoes ==
  ASSUME ListInv, NEW o \in DOMAIN orders, DeleteOrder(o)
  PROVE  ListInv'
<1>1. PICK l, k : l = listing /\ k = [l EXCEPT !.stayed = @ \ {o}]
  OBVIOUS
<1>2. DOMAIN orders' = DOMAIN orders \ {o}
  BY DEF DeleteOrder, Drop
<1>3. listing' = k
  BY <1>1 DEF DeleteOrder, Listed
<1>4. l \in Listing /\ l.stayed \subseteq DOMAIN orders /\ Ascending(l.ids) /\ UpToDate(l)
  BY <1>1 DEF ListInv
<1>5. k \in Listing /\ k.at = l.at /\ k.ids = l.ids /\ k.over = l.over /\ k.stayed = l.stayed \ {o}
  BY <1>1, <1>4 DEF Listing
<1>6. Ascending(k.ids) /\ UpToDate(k) /\ k.stayed \subseteq DOMAIN orders'
  BY <1>2, <1>4, <1>5 DEF UpToDate
<1> QED BY <1>3, <1>5, <1>6 DEF ListInv

(* The pages that are read after the client's cursor, the first after none. *)
LEMMA PageIsListed ==
  ASSUME Typed, NEW ids \in Seq(Nat), Ascending(ids), NEW cursor \in Nat,
         \A i \in 1..Len(ids) : ids[i] <= cursor, cursor = 0 => ids = <<>>,
         NEW stayed, stayed \subseteq DOMAIN orders,
         \A o \in stayed : cursor # 0 /\ o <= cursor => o \in Range(ids),
         NEW page, page = Page(cursor), NEW l,
         l = [at |-> NextCursor(page), ids |-> ids \o page, stayed |-> stayed,
              over |-> NextCursor(page) = 0]
  PROVE  l \in Listing /\ Ascending(l.ids) /\ UpToDate(l)
<1>1. /\ page \in Seq(Nat) /\ \A i \in 1..Len(page) : page[i] \in Left(cursor)
      /\ \A i, j \in 1..Len(page) : i < j => page[i] < page[j]
      /\ Len(page) # Limit => Left(cursor) \subseteq Range(page)
      /\ Len(page) = Limit =>
           /\ page[Limit] \in Nat \ {0} /\ \A i \in 1..Len(page) : page[i] <= page[Limit]
           /\ \A o \in Left(cursor) : o <= page[Limit] => o \in Range(page)
  BY PagesAre
<1>2. PICK n : n = NextCursor(page)
  OBVIOUS
<1>3. n \in Nat /\ n = (IF Len(page) = Limit THEN page[Limit] ELSE 0)
  BY <1>1, <1>2 DEF NextCursor
<1>4. PICK b : b = (n = 0)
  OBVIOUS
<1>5. PICK all : all = ids \o page
  OBVIOUS
<1>6. l = [at |-> n, ids |-> all, stayed |-> stayed, over |-> b]
  BY <1>2, <1>4, <1>5
<1>7. l.at = n /\ l.ids = all /\ l.stayed = stayed /\ l.over = b
  BY <1>6
<1>8. \A o \in stayed : o \in Nat \ {0}
  BY DEF Typed, Prefix
<1>9. /\ all \in Seq(Nat) /\ Len(all) = Len(ids) + Len(page)
      /\ \A i \in 1..Len(ids) : all[i] = ids[i]
      /\ \A i \in 1..Len(page) : all[Len(ids) + i] = page[i]
  <2>1. \A s, t \in Seq(Nat) : s \o t \in Seq(Nat) /\ Len(s \o t) = Len(s) + Len(t)
    OBVIOUS
  <2>2. \A i \in 1..Len(ids) : (ids \o page)[i] = ids[i]
    BY <1>1
  <2>3. \A i \in 1..Len(page) : (ids \o page)[Len(ids) + i] = page[i]
    BY <1>1
  <2> QED BY <1>1, <1>5, <2>1, <2>2, <2>3
<1>10. l \in Listing
  <2>1. b \in BOOLEAN /\ stayed \in SUBSET Nat
    BY <1>4, <1>8
  <2>2. ASSUME NEW k \in Nat, NEW is \in Seq(Nat), NEW st \in SUBSET Nat, NEW ov \in BOOLEAN
        PROVE  [at |-> k, ids |-> is, stayed |-> st, over |-> ov] \in Listing
    BY DEF Listing
  <2> QED BY <1>3, <1>6, <1>9, <2>1, <2>2
<1>11. ASSUME NEW i \in 1..Len(all)
      PROVE  i \in 1..Len(ids) \/ \E k \in 1..Len(page) : i = Len(ids) + k
  <2>1. CASE i <= Len(ids)
    BY <2>1
  <2>2. CASE ~(i <= Len(ids))
    <3>1. i - Len(ids) \in 1..Len(page) /\ i = Len(ids) + (i - Len(ids))
      BY <1>1, <1>9, <2>2
    <3> QED BY <3>1
  <2> QED BY <2>1, <2>2
<1>12. \A k \in 1..Len(page) : page[k] \in Nat /\ (cursor = 0 \/ cursor < page[k])
  BY <1>1 DEF Left
<1>13. Range(all) = Range(ids) \cup Range(page)
  <2>0. DOMAIN all = 1..Len(all) /\ DOMAIN ids = 1..Len(ids) /\ DOMAIN page = 1..Len(page)
    BY <1>1, <1>9
  <2>1. ASSUME NEW x \in Range(ids) PROVE x \in Range(all)
    <3>1. PICK i \in 1..Len(ids) : x = ids[i]
      BY <2>0, <2>1 DEF Range
    <3>2. i \in 1..Len(all) /\ all[i] = x
      BY <1>1, <1>9, <3>1
    <3> QED BY <2>0, <3>2 DEF Range
  <2>2. ASSUME NEW x \in Range(page) PROVE x \in Range(all)
    <3>1. PICK i \in 1..Len(page) : x = page[i]
      BY <2>0, <2>2 DEF Range
    <3>2. Len(ids) + i \in 1..Len(all) /\ all[Len(ids) + i] = x
      BY <1>1, <1>9, <3>1
    <3> QED BY <2>0, <3>2 DEF Range
  <2>3. ASSUME NEW x \in Range(all) PROVE x \in Range(ids) \cup Range(page)
    <3>1. PICK i \in 1..Len(all) : x = all[i]
      BY <2>0, <2>3 DEF Range
    <3>2. CASE i \in 1..Len(ids)
      <4>1. x = ids[i]
        BY <1>9, <3>1, <3>2
      <4> QED BY <2>0, <3>2, <4>1 DEF Range
    <3>3. CASE \E k \in 1..Len(page) : i = Len(ids) + k
      <4>1. PICK k \in 1..Len(page) : i = Len(ids) + k
        BY <3>3
      <4>2. x = page[k]
        BY <1>9, <3>1, <4>1
      <4> QED BY <2>0, <4>2 DEF Range
    <3> QED BY <1>11, <3>2, <3>3
  <2> QED BY <2>1, <2>2, <2>3
<1>14. Ascending(all)
  <2> SUFFICES ASSUME NEW i \in 1..Len(all), NEW j \in 1..Len(all), i < j PROVE all[i] < all[j]
    BY DEF Ascending
  <2>1. CASE j \in 1..Len(ids)
    <3>1. i \in 1..Len(ids)
      BY <2>1
    <3> QED BY <1>9, <2>1, <3>1 DEF Ascending
  <2>2. CASE \E k \in 1..Len(page) : j = Len(ids) + k
    <3>1. PICK k \in 1..Len(page) : j = Len(ids) + k
      BY <2>2
    <3>2. all[j] = page[k] /\ page[k] \in Nat
      BY <1>9, <1>12, <3>1
    <3>3. CASE i \in 1..Len(ids)
      <4>1. ids # <<>>
        BY <3>3
      <4>2. ids[i] <= cursor /\ ids[i] \in Nat /\ cursor < page[k]
        BY <1>12, <3>1, <3>3, <4>1
      <4>3. all[i] = ids[i]
        BY <1>9, <3>3
      <4>4. PICK u, v : u = ids[i] /\ v = page[k]
        OBVIOUS
      <4>5. u \in Nat /\ v \in Nat /\ u < v
        BY <3>2, <4>2, <4>4
      <4> QED BY <3>2, <4>3, <4>4, <4>5
    <3>4. CASE \E m \in 1..Len(page) : i = Len(ids) + m
      <4>1. PICK m \in 1..Len(page) : i = Len(ids) + m
        BY <3>4
      <4>2. m < k
        BY <3>1, <4>1
      <4>3. page[m] < page[k] /\ all[i] = page[m]
        BY <1>1, <1>9, <3>1, <4>1, <4>2
      <4> QED BY <3>2, <4>3
    <3> QED BY <1>11, <3>3, <3>4
  <2> QED BY <1>11, <2>1, <2>2
<1>15. ASSUME NEW o \in stayed PROVE o \in Range(ids) \/ o \in Left(cursor)
  <2>1. cursor = 0 \/ cursor < o => o \in Left(cursor)
    BY DEF Left
  <2>2. cursor = 0 \/ cursor < o \/ o <= cursor
    BY <1>8
  <2> QED BY <2>1, <2>2
<1>16. CASE Len(page) # Limit
  <2>1. n = 0 /\ b = TRUE
    BY <1>3, <1>4, <1>16
  <2>2. stayed \subseteq Range(all)
    BY <1>1, <1>13, <1>15, <1>16
  <2> QED BY <1>7, <1>10, <1>14, <2>1, <2>2 DEF UpToDate
<1>17. CASE Len(page) = Limit
  <2>1. n = page[Limit] /\ n \in Nat \ {0} /\ b = FALSE
    BY <1>1, <1>3, <1>4, <1>17
  <2>2. \A i \in 1..Len(page) : page[i] <= n
    BY <1>1, <1>17, <2>1
  <2>3. ASSUME NEW i \in 1..Len(all) PROVE all[i] <= n
    <3>1. CASE i \in 1..Len(ids)
      <4>1. 1 \in 1..Len(page) /\ page[1] \in Nat /\ page[1] <= n
        BY <1>1, <1>12, <1>17, <2>2, ShopAssumption
      <4>2. ids # <<>> /\ ids[i] <= cursor /\ ids[i] \in Nat
        BY <3>1
      <4>3. cursor < page[1]
        BY <1>12, <4>1, <4>2
      <4>4. all[i] = ids[i]
        BY <1>9, <3>1
      <4>5. PICK u, v : u = ids[i] /\ v = page[1]
        OBVIOUS
      <4>6. u \in Nat /\ v \in Nat /\ u <= cursor /\ cursor < v /\ v <= n
        BY <4>1, <4>2, <4>3, <4>5
      <4> QED BY <2>1, <4>4, <4>5, <4>6
    <3>2. CASE \E k \in 1..Len(page) : i = Len(ids) + k
      BY <1>9, <2>2, <3>2
    <3> QED BY <1>11, <3>1, <3>2
  <2>4. ASSUME NEW o \in stayed, o <= n PROVE o \in Range(all)
    BY <1>1, <1>13, <1>15, <1>17, <2>1, <2>4
  <2> QED BY <1>7, <1>10, <1>14, <2>1, <2>3, <2>4 DEF UpToDate
<1> QED BY <1>16, <1>17

LEMMA FirstPageIsListed ==
  ASSUME Typed, ListInv, ListFirst
  PROVE  ListInv'
<1>1. PICK l, page : l = listing' /\ page = Page(0)
  OBVIOUS
<1>2. l = [at |-> NextCursor(page), ids |-> <<>> \o page, stayed |-> DOMAIN orders,
           over |-> NextCursor(page) = 0]
  <2>1. l = [at |-> NextCursor(page), ids |-> page, stayed |-> DOMAIN orders,
             over |-> NextCursor(page) = 0]
    BY <1>1 DEF ListFirst
  <2>2. page \in Seq(Nat)
    BY <1>1, PagesAre
  <2>3. <<>> \o page = page
    BY <2>2
  <2> QED BY <2>1, <2>3
<1>3. l.stayed = DOMAIN orders /\ DOMAIN orders' = DOMAIN orders
  BY <1>2 DEF ListFirst, store
<1>4. PICK ids : ids = <<>>
  OBVIOUS
<1>5. ids \in Seq(Nat) /\ Len(ids) = 0 /\ \A i \in 1..Len(ids) : FALSE
  BY <1>4
<1>6. PICK stayed, cursor : stayed = DOMAIN orders /\ cursor = 0
  OBVIOUS
<1>7. Ascending(ids) /\ \A i \in 1..Len(ids) : ids[i] <= cursor
  BY <1>5 DEF Ascending
<1>8. l = [at |-> NextCursor(page), ids |-> ids \o page, stayed |-> stayed,
           over |-> NextCursor(page) = 0]
  BY <1>2, <1>4, <1>6
<1>9. /\ stayed \subseteq DOMAIN orders /\ cursor \in Nat /\ page = Page(cursor)
      /\ \A o \in stayed : ~(cursor # 0)
  BY <1>1, <1>6
<1>10. l \in Listing /\ Ascending(l.ids) /\ UpToDate(l)
  BY <1>4, <1>5, <1>7, <1>8, <1>9, PageIsListed
<1> QED BY <1>1, <1>3, <1>10 DEF ListInv

LEMMA NextPageIsListed ==
  ASSUME Typed, ListInv, ListNext
  PROVE  ListInv'
<1>1. PICK l, k, page : l = listing' /\ k = listing /\ page = Page(k.at)
  OBVIOUS
<1>2. k \in Listing /\ k.stayed \subseteq DOMAIN orders /\ Ascending(k.ids) /\ UpToDate(k) /\ ~k.over
  BY <1>1 DEF ListInv, ListNext
<1>3. l = [k EXCEPT !.at = NextCursor(page), !.ids = @ \o page, !.over = NextCursor(page) = 0]
  BY <1>1 DEF ListNext
<1>4. l = [at |-> NextCursor(page), ids |-> k.ids \o page, stayed |-> k.stayed,
           over |-> NextCursor(page) = 0]
  BY <1>2, <1>3 DEF Listing
<1>5. l.stayed = k.stayed /\ DOMAIN orders' = DOMAIN orders
  BY <1>4 DEF ListNext, store
<1>6. /\ k.ids \in Seq(Nat) /\ k.at \in Nat /\ k.at # 0
      /\ \A i \in 1..Len(k.ids) : k.ids[i] <= k.at
      /\ \A o \in k.stayed : o <= k.at => o \in Range(k.ids)
  BY <1>2 DEF Listing, UpToDate
<1>7. PICK ids, cursor, stayed : ids = k.ids /\ cursor = k.at /\ stayed = k.stayed
  OBVIOUS
<1>8. /\ ids \in Seq(Nat) /\ Ascending(ids) /\ cursor \in Nat /\ cursor # 0
      /\ \A i \in 1..Len(ids) : ids[i] <= cursor
      /\ stayed \subseteq DOMAIN orders
      /\ \A o \in stayed : o <= cursor => o \in Range(ids)
  BY <1>2, <1>6, <1>7
<1>9. l = [at |-> NextCursor(page), ids |-> ids \o page, stayed |-> stayed,
           over |-> NextCursor(page) = 0]
  BY <1>4, <1>7
<1>10. page = Page(cursor)
  BY <1>1, <1>7
<1>11. l \in Listing /\ Ascending(l.ids) /\ UpToDate(l)
  BY <1>8, <1>9, <1>10, PageIsListed
<1> QED BY <1>1, <1>2, <1>5, <1>11 DEF ListInv

LEMMA StepsKeepListInv == Typed /\ ListInv /\ [ShopNext]_shopVars => ListInv'
<1> SUFFICES ASSUME Typed, ListInv, [ShopNext]_shopVars PROVE ListInv'
  OBVIOUS
<1>1. CASE CreateCart
  BY <1>1, ListedStays DEF CreateCart
<1>2. ASSUME NEW id \in DOMAIN carts,
             \/ DeleteCart(id)
             \/ \E sku \in Sku, n \in 1..2 : AddItem(id, sku, n)
             \/ \E code \in DOMAIN Coupons : ApplyCoupon(id, code)
      PROVE  ListInv'
  BY <1>2, ListedStays DEF DeleteCart, AddItem, ApplyCoupon
<1>3. ASSUME NEW id \in DOMAIN carts, NEW tier \in DOMAIN Region.tiers, Checkout(id, tier)
      PROVE  ListInv'
  <2>1. UNCHANGED listing /\ DOMAIN orders \subseteq DOMAIN orders'
    BY <1>3 DEF Checkout, Put
  <2> QED BY <2>1, ListedStays
<1>4. ASSUME NEW o \in DOMAIN orders, DeleteOrder(o)
      PROVE  ListInv'
  BY <1>4, ListedGoes
<1>5. ASSUME NEW o \in DOMAIN orders, CancelOrder(o) \/ CreateReturn(o)
      PROVE  ListInv'
  <2>1. UNCHANGED listing /\ DOMAIN orders' = DOMAIN orders
    BY <1>5 DEF CancelOrder, CreateReturn
  <2> QED BY <2>1, ListedStays
<1>6. ASSUME NEW o \in DOMAIN orders, NEW c \in Client, BeginCharge(c, o) \/ BeginShip(c, o)
      PROVE  ListInv'
  BY <1>6, ListedStays DEF BeginCharge, BeginShip, Begin, store
<1>7. ASSUME NEW o \in DOMAIN orders, NEW amount \in 1..orders[o].total, Refund(o, amount)
      PROVE  ListInv'
  <2>1. UNCHANGED listing /\ DOMAIN orders' = DOMAIN orders
    BY <1>7 DEF Refund
  <2> QED BY <2>1, ListedStays
<1>8. ASSUME NEW s \in DOMAIN shipments, GetShipment(s) \/ DeliverShipment(s)
      PROVE  ListInv'
  <2>1. UNCHANGED listing /\ DOMAIN orders' = DOMAIN orders
    BY <1>8 DEF GetShipment, DeliverShipment
  <2> QED BY <2>1, ListedStays
<1>9. ASSUME NEW c \in Client, EndCharge(c) \/ EndShip(c) \/ EndRefused(c)
      PROVE  ListInv'
  <2>1. UNCHANGED listing /\ DOMAIN orders' = DOMAIN orders
    BY <1>9 DEF EndCharge, EndShip, EndRefused, store
  <2> QED BY <2>1, ListedStays
<1>10. CASE Reset
  <2>1. listing' = NoListing /\ listing'.stayed = {}
    BY <1>10, NothingListed DEF Reset
  <2> QED BY <2>1, NothingListed DEF ListInv
<1>11. CASE ListFirst \/ ListNext
  BY <1>11, FirstPageIsListed, NextPageIsListed
<1>12. CASE UNCHANGED shopVars
  BY <1>12, ListedStays DEF shopVars, store
<1> QED BY <1>1, <1>2, <1>3, <1>4, <1>5, <1>6, <1>7, <1>8, <1>9, <1>10, <1>11, <1>12 DEF ShopNext

(* Whatever is made, deleted or moved between two pages, a client that reads
   to the last one has each order that was there throughout, and none twice:
   its cursor is the last ID it has, and IDs compare by their numbers also
   where they get a digit longer (shop/handlers_order.go, compareIDs). *)
THEOREM ListingsAreWhole == ShopSpec => []ListsEveryOrderOnce
<1>1. ShopInit => ListInv
  <2> SUFFICES ASSUME ShopInit PROVE ListInv
    OBVIOUS
  <2>1. listing = NoListing
    BY DEF ShopInit
  <2> QED BY <2>1, NothingListed DEF ListInv
<1>2. ShopInv => Typed
  BY DEF ShopInv
<1>3. ListInv => ListsEveryOrderOnce
  <2> SUFFICES ASSUME ListInv PROVE ListsEveryOrderOnce
    OBVIOUS
  <2>1. listing.ids \in Seq(Nat)
    BY DEF ListInv, Listing
  <2>2. DOMAIN listing.ids = 1..Len(listing.ids)
    BY <2>1
  <2> QED BY <2>2 DEF ListInv, Ascending, UpToDate, ListsEveryOrderOnce
<1> QED BY <1>1, <1>2, <1>3, ShopOpens, StepsKeepShopInv, StepsKeepListInv, PTL DEF ShopSpec
=============================================================================
