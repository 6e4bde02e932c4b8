----------------------------- MODULE SocketSts -----------------------------
(***************************************************************************)
(* actions/socket-sts: an assertion buys one creation of a Socket API      *)
(* token.  Three retries nest in one budget: a fresh assertion for one     *)
(* that was used up (exchangeWithFreshAssertion), polls and rate limit     *)
(* waits (retryRateLimited), and retries of failures (retry).              *)
(***************************************************************************)
EXTENDS StsClient

CONSTANTS
  RETRY_ATTEMPTS,     \* 4: attempts of retry()
  ASSERTION_ATTEMPTS, \* 2: assertions, beside those that a rate limit used up
  MIN_DELAY           \* 100 ms: the shortest rate limit wait

ASSUME SocketConstants ==
  /\ RETRY_ATTEMPTS \in Nat \ {0}
  /\ ASSERTION_ATTEMPTS \in Nat \ {0}
  /\ MIN_DELAY \in Nat \ {0}

\* What the Socket STS may answer and do with the claim: it creates at most one
\* token per assertion and replays none.  A 503 says that an older version is
\* still creating, a 502 that the creation timed out, a 409 that the assertion
\* is used.
SocketService ==
  LET any == [answer : {"transient", "429"}, claim : {claim}]
      open == [answer : {"ok", "invalid", "transient"}, claim : {"minted"}]
                \cup [answer : {"502"}, claim : {"spent"}]
                \cup [answer : {"pending"}, claim : {"pending"}]
  IN  any \cup
      CASE claim = "new" -> open \cup [answer : {"denied"}, claim : {"new"}]
                                 \cup [answer : {"limited"}, claim : {"spent"}]
        [] claim = "pending" -> open \cup [answer : {"503"}, claim : {"pending"}]
        [] claim \in {"minted", "spent"} ->
             [answer : {"409"}, claim : {claim}]

\* Answers after which the same assertion cannot yield a token.
RequiresFreshAssertion(seen) == seen \in {"503", "502", "409"}

\* A 429 from the Socket API uses the assertion up; from the STS it does not.
IsProviderRateLimited(seen) == seen = "limited"

\* The delay that a 429 asks for, in its headers or its body.
RateLimitDelays == Asked \cup {NoDelay}

\* retry(): a wait that would reach the deadline is not begun.
HttpRetry(left) ==
  Retry(attempt, RETRY_ATTEMPTS - 1, Jittered(attempt), left, Give)

\* Mutant: a delay that was asked for is kept whatever time is left.
PaceAsAsked(asked, left) ==
  IF left < MIN_DELAY THEN {Expired}
  ELSE {Wait(Max({MIN_DELAY, d})) :
          d \in IF asked # NoDelay THEN {asked}
                ELSE {Min({b, left}) : b \in Jittered(Min({outer, 5}))}}
\* retryRateLimited(): a delay that was asked for is kept or refused, never cut.
Pace(asked, left) ==
  IF left < MIN_DELAY \/ asked > left
  THEN {Expired}
  ELSE {Wait(Max({MIN_DELAY, d})) :
          d \in IF asked # NoDelay THEN {asked}
                ELSE {Min({b, left}) : b \in Jittered(Min({outer, 5}))}}

\* request(): bounded by the request timeout and by what is left.
SocketTime == Durations(Min({REQUEST_TIMEOUT, Left}))

SocketStatus ==
  /\ client = "socket"
  /\ StatusCheck("assert", TRUE)

\* exchangeWithFreshAssertion(): the next assertion attempt, if one is left.
FreshAssertion(t) ==
  IF tries = ASSERTION_ATTEMPTS - 1
  THEN Fail(t)
  ELSE /\ tries' = tries + 1 /\ outer' = 0
       /\ Begin("assert", t, until)

\* getAssertion(): an OIDC request in its retry loop.  A timeout in the end
\* counts as one of the exchange; an answer without an assertion ends it.
SocketAsserted(seen, t) ==
  \/ seen = "ok" /\ Begin("send", t, until) /\ UNCHANGED <<outer, tries>>
  \/ seen = "invalid" /\ Fail(t)
  \/ /\ seen \notin {"ok", "invalid"}
     /\ \E next \in HttpRetry(until - t) :
          CASE next.then = "wait" -> Again(t + next.delay)
            [] next.then = "give" ->
                 IF seen = "timeout" THEN FreshAssertion(t) ELSE Fail(t)

SocketAssert ==
  /\ client = "socket" /\ pc = "assert"
  /\ IF Left = 0 THEN Fail(now) /\ UNCHANGED held
     ELSE \E d \in SocketTime : \E seen \in OidcSights(d) :
            OidcAnswered(seen) /\ SocketAsserted(seen, now + d)
  /\ UNCHANGED client

\* exchangeWithRetry(): what an answer leads to.
SocketAnswered(seen, t) ==
  LET left == until - t
  IN  \/ /\ seen = "ok"
         /\ Begin("publish", t, until) /\ UNCHANGED <<outer, tries>>
      \/ seen = "invalid" /\ Fail(t)
      \/ /\ RequiresFreshAssertion(seen) \/ seen = "timeout"
         /\ FreshAssertion(t)
      \/ /\ seen \in {"429", "pending", "limited"}
         /\ \E asked \in RateLimitDelays : \E next \in Pace(asked, left) :
              IF next.then = "expired" THEN Fail(t)
              ELSE /\ outer' = outer + 1 /\ UNCHANGED tries
                   /\ Begin(IF IsProviderRateLimited(seen) THEN "assert" ELSE "send",
                            t + next.delay, until)
      \/ /\ seen \in {"transient", "denied", "reset"}
         /\ \E next \in HttpRetry(left) :
              IF next.then = "wait" THEN Again(t + next.delay) ELSE Fail(t)

SocketSend ==
  /\ client = "socket" /\ pc = "send"
  /\ IF Left = 0 THEN Fail(now) /\ UNCHANGED held
     ELSE \E d \in SocketTime, effect \in SocketService :
          \E seen \in Sights(effect.answer, d) :
            Exchanged(effect, seen) /\ SocketAnswered(seen, now + d)
  /\ UNCHANGED client

SocketPublish ==
  /\ client = "socket"
  /\ Publish("revoke")

\* Post: best effort, with a warning when the STS did not take the token back.
\* A request has its timeout, the loop no deadline.
SocketRevoke ==
  /\ client = "socket" /\ pc = "revoke"
  /\ \E d \in Durations(REQUEST_TIMEOUT), seen \in Revocations :
       /\ Revoked(seen)
       /\ IF seen = "204" THEN Close("clean", now + d)
          ELSE IF attempt = RETRY_ATTEMPTS - 1 THEN Close("warned", now + d)
          ELSE \E w \in Jittered(attempt) : RevokeAgain(now + d + w)

SocketNext ==
  SocketStatus \/ SocketAssert \/ SocketSend \/ SocketPublish \/ SocketRevoke
=============================================================================
