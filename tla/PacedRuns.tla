------------------------------- MODULE PacedRuns -------------------------------
(***************************************************************************)
(* Runs of a parallel batch (cmd/aat/run_shared.go): each takes a token    *)
(* from the shared AuthProvider when it starts and sends its requests, one *)
(* after the other, with that token through the shared Pacer.              *)
(***************************************************************************)
EXTENDS Pacer, Sequences

CONSTANTS
  Run, Lifetime, Buffer,
  RunOf       \* the run a request belongs to, and its place in it

ASSUME PacedAssumption ==
  /\ Buffer \in Nat /\ Lifetime \subseteq Nat
  /\ RunOf \in [Request -> Run \X Nat]
  /\ "nobody" \notin Run

VARIABLES holder, token, expiresAt, at, held, fetches

Auth == INSTANCE TokenCache

tokenVars == <<holder, token, expiresAt, at, held, fetches>>
pacedVars == <<vars, tokenVars>>

PacedInit == Init /\ Auth!AuthInit

(* The requests of r's run that come before r. *)
Earlier(r) == {q \in Request : RunOf[q][1] = RunOf[r][1] /\ RunOf[q][2] < RunOf[r][2]}

(* A run sends its next request once it has a token and the one before it was
   sent. *)
MaySend(r) == at[RunOf[r][1]] = "has" /\ \A q \in Earlier(r) : phase[q] = "sent"

PaceStep(r) ==
  /\ \/ MaySend(r) /\ Reserve(r)
     \/ StartAtOnce(r) \/ Arm(r) \/ Fire(r) \/ Cancel(r)
  /\ UNCHANGED tokenVars

AuthStep == Auth!AuthNext /\ UNCHANGED <<next, phase, slot, askedAt, sentAt>>
TimePasses == Tick /\ UNCHANGED tokenVars

PacedNext == TimePasses \/ AuthStep \/ \E r \in Request : PaceStep(r)

PacedSpec ==
  /\ PacedInit /\ [][PacedNext]_pacedVars
  /\ Fairness /\ Auth!AuthFairness

-----------------------------------------------------------------------------
(* The token endpoint is asked only when no token is left that may be used: a
   fetch begins after the token of the one before it was to be renewed, and
   callers that arrive meanwhile share it (auth_provider.go:13). *)
AsksOnlyWhenNeeded ==
  \A i \in 1..Len(fetches) : \A j \in 1..i - 1 :
    fetches[j].ok => fetches[j].until # Auth!Never /\ fetches[i].begun > fetches[j].until

(* A request that leaves less than the buffer after its run was handed the token,
   less what the token's answer took, carries one the server still takes
   (auth_provider.go:9, "refreshed before they actually expire").  A longer run
   keeps its token and may outlive it. *)
LiveForTheBuffer ==
  \A r \in Sent :
    LET h == held[RunOf[r][1]]
        lived == sentAt[r] - h.token.issued
    IN  (sentAt[r] - h.when) + h.latency < Buffer /\ Buffer <= h.token.life
          => lived < h.token.life

(* Every wait for a slot ends, in the request or in its cancellation, and nothing
   but a fetch that is under way keeps a caller of Authenticate waiting: the mutex
   is handed on also by those that fail.  A fetch may never end; the mutex is held
   over it (auth_provider.go:51), and those behind it wait as long. *)
EveryCallEnds ==
  /\ WaitEnds
  /\ \A c \in Run :
       at[c] = "waiting" ~> \/ at[c] \in {"has", "failed"}
                            \/ \E d \in Run : at[d] \in {"fetching", "answered"}

(* A token is fetched when it is needed and serves as long as it was given out
   for (AsksOnlyWhenNeeded, LiveForTheBuffer). *)
TokensServeTheirLife == AsksOnlyWhenNeeded /\ LiveForTheBuffer
=============================================================================
