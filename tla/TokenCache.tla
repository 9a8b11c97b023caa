------------------------------ MODULE TokenCache ------------------------------
(***************************************************************************)
(* AuthProvider (config/auth_provider.go): the runs of a batch share one   *)
(* OAuth token, fetched under the mutex when there is none or it is about  *)
(* to expire.  The server that issues it is the sandbox's tokenStore       *)
(* (internal/sandbox/shop/auth.go): a token is valid until its lifetime    *)
(* has passed since the server issued it, which is before the client       *)
(* learns of it.  The clock, now, belongs to the module that uses this one.*)
(***************************************************************************)
EXTENDS Integers, Sequences

CONSTANTS
  Run,        \* the callers of Authenticate, each once
  Lifetime,   \* the values of expires_in a server may give; 0: none given
  Buffer      \* expiryBuffer

VARIABLES
  now,
  holder,     \* who holds mu, or Nobody
  token,      \* AuthProvider.token
  expiresAt,  \* AuthProvider.expiresAt
  at,         \* where each caller is in Authenticate
  held,       \* what each caller was handed, and when
  fetches     \* history: the fetches, when each began and how it ended

authVars == <<holder, token, expiresAt, at, held, fetches>>

Nobody == "nobody"
NoToken == [life |-> 0, issued |-> -1]
(* Earlier than any expiry, as the zero time is. *)
Never == -1 - Buffer

AuthInit ==
  /\ holder = Nobody
  /\ token = NoToken
  /\ expiresAt = Never
  /\ at = [r \in Run |-> "idle"]
  /\ held = [r \in Run |-> [token |-> NoToken, when |-> 0, latency |-> 0]]
  /\ fetches = <<>>

(* Mutant of Expiry: the buffer is not taken off. *)
ExpiryWithoutBuffer(t) == IF t.life > 0 THEN now + t.life ELSE Never

Expiry(t) == IF t.life > 0 THEN now + t.life - Buffer ELSE Never

isExpired == expiresAt # Never /\ now > expiresAt
Usable == token # NoToken /\ ~isExpired

(* Mutant of MayLock: the mutex is not held over the fetch. *)
MayLockAnyTime == holder \in Run \cup {Nobody}

MayLock == holder = Nobody

Ask(r) ==
  /\ at[r] = "idle"
  /\ at' = [at EXCEPT ![r] = "waiting"]
  /\ UNCHANGED <<now, holder, token, expiresAt, held, fetches>>

Latency == fetches[Len(fetches)].latency

TakeCached(r) ==
  /\ at[r] = "waiting" /\ MayLock
  /\ Usable
  /\ at' = [at EXCEPT ![r] = "has"]
  /\ held' = [held EXCEPT ![r] = [token |-> token, when |-> now, latency |-> Latency]]
  /\ UNCHANGED <<now, holder, token, expiresAt, fetches>>

BeginFetch(r) ==
  /\ at[r] = "waiting" /\ MayLock
  /\ ~Usable
  /\ holder' = r
  /\ at' = [at EXCEPT ![r] = "fetching"]
  /\ fetches' = Append(fetches, [by |-> r, begun |-> now, ok |-> FALSE, until |-> Never, latency |-> 0])
  /\ UNCHANGED <<now, token, expiresAt, held>>

(* tokenStore.issue: the answer is on its way. *)
Issue(r) ==
  /\ at[r] = "fetching"
  /\ \E life \in Lifetime :
       held' = [held EXCEPT ![r] = [token |-> [life |-> life, issued |-> now], when |-> 0, latency |-> 0]]
  /\ at' = [at EXCEPT ![r] = "answered"]
  /\ UNCHANGED <<now, holder, token, expiresAt, fetches>>

(* Mutant of Unlock: the early return for an error leaves the mutex locked. *)
UnlockOnSuccess(ok) == IF ok THEN Nobody ELSE holder

Unlock(ok) == Nobody

FetchOf(r) == CHOOSE i \in 1..Len(fetches) : fetches[i].by = r

EndFetch(r) ==
  /\ at[r] = "answered"
  /\ LET t == held[r].token
         latency == now - t.issued
     IN  /\ token' = t
         /\ expiresAt' = Expiry(t)
         /\ held' = [held EXCEPT ![r] = [token |-> t, when |-> now, latency |-> latency]]
         /\ fetches' = [fetches EXCEPT ![FetchOf(r)] =
                         [@ EXCEPT !.ok = TRUE, !.until = Expiry(t), !.latency = latency]]
  /\ at' = [at EXCEPT ![r] = "has"]
  /\ holder' = Unlock(TRUE)
  /\ UNCHANGED now

FetchFails(r) ==
  /\ at[r] \in {"fetching", "answered"}
  /\ token' = NoToken
  /\ at' = [at EXCEPT ![r] = "failed"]
  /\ held' = [held EXCEPT ![r].token = NoToken]
  /\ holder' = Unlock(FALSE)
  /\ UNCHANGED <<now, expiresAt, fetches>>

AuthNext ==
  \E r \in Run :
    Ask(r) \/ TakeCached(r) \/ BeginFetch(r) \/ Issue(r) \/ EndFetch(r) \/ FetchFails(r)

(* A caller that waits for the mutex gets it once it is free and stays so.  The
   endpoint gets no fairness: the fetch is made by http.DefaultClient, which has
   no timeout, on a context without a deadline, so an answer may never come or
   never end. *)
AuthFairness ==
  \A r \in Run : WF_<<now, authVars>>(TakeCached(r) \/ BeginFetch(r))
=============================================================================
