----------------------------- MODULE OidcCaches -----------------------------
(***************************************************************************)
(* The two caches of GitHub OIDC assertions.  Secure Runner's main process *)
(* shares one client between its exchanges (secure-runner/oidc.cjs); the   *)
(* assertion it has for Aegis seeds the token provider's own cache         *)
(* (aegis/github-oidc.cjs), which serves handshakes for the rest of the    *)
(* job.  One audience is modelled; the caches keep audiences apart.        *)
(***************************************************************************)
EXTENDS Integers, Sequences

CONSTANTS
  MARGIN,      \* 30 s: an assertion this close to its end is not reused
  FALLBACK,    \* 60 s: assumed lifetime of one whose end cannot be read
  RETRY_AFTER, \* 60 s between two acquisitions of the provider
  Lifetimes,   \* of assertions
  MaxOidcNow, MaxRequests   \* bounds: time, requests of the client

ASSUME OidcConstants ==
  /\ MARGIN \in Nat /\ FALLBACK \in Nat /\ RETRY_AFTER \in Nat \ {0}
  /\ MaxOidcNow \in Nat /\ MaxRequests \in Nat
  /\ \A l \in Lifetimes : l \in Nat /\ l >= RETRY_AFTER

VARIABLES
  oidcNow,
  requests,  \* of the client: when each assertion ends, Pending, or Failed
  entry,     \* the request whose entry is in the cache, 0 for none
  call,      \* last call: [fresh, request], the request whose value it got
  provider,  \* "off", "on"
  expires,   \* provider: end of the assertion that it has, 0 for none
  retryAt,
  loading,   \* provider: an acquisition is under way
  waiting,   \* a handshake waits for it
  answer,    \* last answer: when, and the end of the assertion in it, 0 for ""
  failedAt   \* when an acquisition last failed, -1 for never

Pending == -1
Failed == -2

theClient == <<requests, entry, call>>
theProvider == <<provider, expires, retryAt, loading, waiting, answer, failedAt>>
oidcVars == <<oidcNow, theClient, theProvider>>

-----------------------------------------------------------------------------
(* The client of the main process.                                         *)

\* A pending entry has no end yet and is shared.
Reusable == entry # 0 /\ (requests[entry] = Pending \/ requests[entry] > oidcNow + MARGIN)

\* token(): a fresh call, or one that finds nothing to reuse, begins a request
\* and puts it into the cache.
Token(fresh) ==
  /\ provider = "off"
  /\ IF ~fresh /\ Reusable
     THEN call' = [fresh |-> fresh, request |-> entry] /\ UNCHANGED <<requests, entry>>
     ELSE /\ Len(requests) < MaxRequests
          /\ requests' = Append(requests, Pending)
          /\ entry' = Len(requests) + 1
          /\ call' = [fresh |-> fresh, request |-> entry']
  /\ UNCHANGED <<oidcNow, theProvider>>

\* fetchAssertion() ends: an assertion whose end cannot be read is taken to
\* last for a while.
Fetched ==
  /\ \E r \in 1..Len(requests), l \in Lifetimes \cup {FALLBACK} :
       requests[r] = Pending /\ requests' = [requests EXCEPT ![r] = oidcNow + l]
  /\ UNCHANGED <<oidcNow, entry, call, theProvider>>

\* Mutant: whatever entry is there leaves with it.
EvictAny(r) == 0
\* A failed request leaves the cache only if its entry is still there.
Evict(r) == IF entry = r THEN 0 ELSE entry

FetchFails ==
  /\ \E r \in 1..Len(requests) :
       /\ requests[r] = Pending /\ requests' = [requests EXCEPT ![r] = Failed]
       /\ entry' = Evict(r)
  /\ UNCHANGED <<oidcNow, call, theProvider>>

-----------------------------------------------------------------------------
(* The token provider.                                                     *)

\* The provider is started with the assertion that the client has; one that is
\* over by then, or whose end cannot be read, is not used.
StartProvider ==
  /\ provider = "off" /\ call.request # 0 /\ requests[call.request] > 0
  /\ provider' = "on"
  /\ expires' \in {0, requests[call.request]} \ 1..oidcNow
  /\ UNCHANGED <<oidcNow, theClient, retryAt, loading, waiting, answer, failedAt>>

Answer(end) == answer' = <<oidcNow, IF oidcNow < end THEN end ELSE 0>>

Due == oidcNow >= expires - MARGIN /\ oidcNow >= retryAt

\* getToken(): a handshake joins the acquisition under way or begins one when
\* it is due, and is answered at once otherwise.
GetToken ==
  /\ provider = "on" /\ ~waiting
  /\ IF Due
     THEN loading' = TRUE /\ waiting' = TRUE /\ UNCHANGED answer
     ELSE Answer(expires) /\ UNCHANGED <<loading, waiting>>
  /\ UNCHANGED <<oidcNow, theClient, provider, expires, retryAt, failedAt>>

RetryAt == oidcNow + RETRY_AFTER

\* acquire() ends, within its timeout, and the waiting handshakes are answered
\* with what there is.
Acquired ==
  /\ loading /\ loading' = FALSE /\ waiting' = FALSE
  /\ retryAt' = RetryAt
  /\ \/ /\ \E l \in Lifetimes : expires' = oidcNow + l
        /\ UNCHANGED failedAt
     \/ failedAt' = oidcNow /\ UNCHANGED expires
  /\ Answer(expires')
  /\ UNCHANGED <<oidcNow, theClient, provider>>

\* An acquisition takes less than a unit of time.
OidcTick ==
  /\ oidcNow < MaxOidcNow /\ ~loading /\ oidcNow' = oidcNow + 1
  /\ UNCHANGED <<theClient, theProvider>>

OidcInit ==
  /\ oidcNow = 0 /\ requests = <<>> /\ entry = 0
  /\ call = [fresh |-> FALSE, request |-> 0]
  /\ provider = "off" /\ expires = 0 /\ retryAt = 0 /\ loading = FALSE
  /\ waiting = FALSE /\ answer = <<>> /\ failedAt = -1

OidcNext ==
  \/ \E fresh \in BOOLEAN : Token(fresh)
  \/ Fetched \/ FetchFails \/ StartProvider \/ GetToken \/ Acquired \/ OidcTick

-----------------------------------------------------------------------------

OidcTypeOK ==
  /\ oidcNow \in 0..MaxOidcNow /\ requests \in Seq(Int) /\ entry \in 0..Len(requests)
  /\ call.request \in 0..Len(requests) /\ provider \in {"off", "on"}
  /\ expires \in Nat /\ retryAt \in Nat /\ answer \in Seq(Nat)
  /\ loading \in BOOLEAN /\ waiting \in BOOLEAN /\ failedAt \in Int

\* The newest request is the one that counts: a call begins another only if it
\* insists on a fresh assertion, or the newest failed or nears its end, whatever
\* older requests do meanwhile.  The value of a call is never of an older one.
ClientServesNewest ==
  [][ call' # call \/ requests' # requests =>
      /\ call'.request < Len(requests') => call' = call
      /\ Len(requests') > Len(requests) =>
           \/ call'.fresh
           \/ requests = <<>>
           \/ requests[Len(requests)] = Failed
           \/ requests[Len(requests)] \in 0..(oidcNow + MARGIN) ]_oidcVars

\* A handshake is answered without an assertion only within a retry delay of a
\* failed acquisition: while acquisitions succeed there is no gap between an
\* assertion and the next.
GapOnlyAfterFailure ==
  [][ answer' # answer /\ answer'[2] = 0 =>
      failedAt' >= 0 /\ oidcNow <= failedAt' + RETRY_AFTER ]_oidcVars

-----------------------------------------------------------------------------
(* The inductive invariant.                                                *)

\* The entry of the client's cache is the newest request's; there is none only
\* after that request failed.
EntryIsNewest ==
  /\ requests \in Seq(Nat \cup {Pending, Failed})
  /\ entry \in {0, Len(requests)}
  /\ IF entry = 0 THEN requests = <<>> \/ requests[Len(requests)] = Failed
     ELSE requests[entry] # Failed

\* The provider waits with its next acquisition for no longer than what it has
\* lasts, unless the last one failed.
RetryIsCovered ==
  /\ expires \in Nat /\ retryAt \in Nat /\ failedAt \in Int
  /\ provider = "off" => retryAt = 0 /\ ~loading
  /\ \/ retryAt = 0 \/ retryAt <= expires
     \/ failedAt >= 0 /\ retryAt = failedAt + RETRY_AFTER

OidcInv == oidcNow \in Nat /\ EntryIsNewest /\ RetryIsCovered
=============================================================================
