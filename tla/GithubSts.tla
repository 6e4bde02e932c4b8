----------------------------- MODULE GithubSts -----------------------------
(***************************************************************************)
(* actions/github-sts: a GitHub App token for an assertion.  One deadline  *)
(* bounds the OIDC and exchange requests; the assertion is renewed after   *)
(* an answer 429 and kept after everything else.  The post hook asks the   *)
(* STS to revoke the token, or GitHub if the STS does not; its requests    *)
(* have no timeout and its retries no deadline.                            *)
(***************************************************************************)
EXTENDS StsClient

CONSTANTS
  GITHUB_RETRIES,     \* 5: retries of one request (MAX_RETRIES)
  LIMIT_FALLBACK,     \* 60 s: the wait after a 429 that asks for none
  SLOW_ANSWER         \* bound: how late a request without a timeout is answered

ASSUME GithubConstants ==
  /\ GITHUB_RETRIES \in Nat /\ LIMIT_FALLBACK \in Nat \ {0}
  /\ SLOW_ANSWER \in Nat

\* What the GitHub STS may answer and do.  It replays what it made for an
\* assertion, and a 429 makes nothing.
GithubService ==
  [answer : {"ok", "invalid", "transient"}, claim : {"minted"}]
    \cup [answer : {"denied", "transient", "429"}, claim : {claim}]

\* isTransientStatus(): 408, 425, 429 and everything from 500.
GithubTransient(seen) == seen \in {"transient", "429"}

\* retryAfterMs(): a reset time counts only when it says that nothing remains.
RetryAfter(seen) ==
  IF Lost(seen) THEN {0}
  ELSE Asked \cup {IF seen = "429" THEN LIMIT_FALLBACK ELSE 0}

\* retry(): a result that is not transient is final; a wait that would reach
\* the deadline throws RetryTimeoutError.
GithubRetry(n, retryable, seen, left) ==
  IF ~retryable THEN {Give}
  ELSE Retry(n, GITHUB_RETRIES, LongerOf(Jittered(n), RetryAfter(seen)), left, Expired)

\* request() under send() or bounded().
GithubTime == Durations(Min({REQUEST_TIMEOUT, Left}))

GithubStatus ==
  /\ client = "github"
  /\ StatusCheck("oidc", TRUE)

\* A failed call inside the exchange's own retry: the assertion is renewed
\* before the next one if the last answer was a 429 (exchangeWithRetry).
RetryExchange(t, seen, leg) ==
  \E next \in GithubRetry(outer, TRUE, seen, until - t) :
    IF next.then = "wait"
    THEN /\ outer' = outer + 1 /\ UNCHANGED tries
         /\ Begin(leg, t + next.delay, until)
    ELSE Fail(t)

\* getOidc(): before the first exchange its failure is final.  Inside the
\* exchange it is a failed attempt of that, unless the time is up.
GithubAsserted(seen, t) ==
  \/ seen = "ok" /\ Begin("send", t, until) /\ UNCHANGED <<outer, tries>>
  \/ /\ seen # "ok"
     /\ \E next \in GithubRetry(attempt, Lost(seen) \/ GithubTransient(seen),
                                seen, until - t) :
          CASE next.then = "wait" -> Again(t + next.delay)
            [] next.then = "expired" -> Fail(t)
            [] next.then = "give" ->
                 IF pc = "oidc" THEN Fail(t)
                 ELSE RetryExchange(t, "reset", "refresh")

GithubOidc ==
  /\ client = "github" /\ pc \in {"oidc", "refresh"}
  /\ IF Left = 0 THEN Fail(now) /\ UNCHANGED held
     ELSE \E d \in GithubTime : \E seen \in OidcSights(d) :
            OidcAnswered(seen) /\ GithubAsserted(seen, now + d)
  /\ UNCHANGED client

\* exchange() and exchangeWithRetry(): what an answer leads to.
GithubAnswered(seen, t) ==
  \/ /\ seen = "ok"
     /\ Begin("publish", t, until) /\ UNCHANGED <<outer, tries>>
  \/ seen \in {"invalid", "denied"} /\ Fail(t)
  \/ /\ Lost(seen) \/ GithubTransient(seen)
     /\ RetryExchange(t, seen, IF seen = "429" THEN "refresh" ELSE "send")

GithubSend ==
  /\ client = "github" /\ pc = "send"
  /\ IF Left = 0 THEN Fail(now) /\ UNCHANGED held
     ELSE \E d \in GithubTime, effect \in GithubService :
          \E seen \in Sights(effect.answer, d) :
            Exchanged(effect, seen) /\ GithubAnswered(seen, now + d)
  /\ UNCHANGED client

GithubPublish ==
  /\ client = "github"
  /\ Publish("revoke")

\* request() of the post hook sets no timeout: an answer takes as long as it
\* takes, and need not come at all.  In these legs nothing ends the wait but
\* the service.
RevocationTime == Durations(SLOW_ANSWER)

StsUntimed == client = "github" /\ pc \in {"revoke", "provider", "reconcile"}

NextRevocation(leg, t) ==
  /\ pc' = leg /\ attempt' = 0 /\ now' = t
  /\ UNCHANGED <<client, until, outer, tries, held, result, post>>

\* A transient answer or no answer is retried; the outcome is what came last.
MayRetry(seen) ==
  seen \in {"transient", "reset"} /\ attempt < GITHUB_RETRIES

\* revokeToken(): the STS first.
GithubRevoke ==
  /\ client = "github" /\ pc = "revoke"
  /\ \E d \in RevocationTime, seen \in Revocations :
       /\ Revoked(seen)
       /\ IF seen = "204" THEN Close("clean", now + d)
          ELSE IF MayRetry(seen)
               THEN \E w \in Jittered(attempt) : RevokeAgain(now + d + w)
          ELSE NextRevocation("provider", now + d)

\* Mutant: any refusal says that the token is gone.
ProviderRevokedOrDenied(status) == status \in {"204", "401", "denied"}
\* Then GitHub, whose 401 says that the token is no longer accepted.
ProviderRevoked(status) == status \in {"204", "401"}

GithubProvider ==
  /\ client = "github" /\ pc = "provider"
  /\ \E d \in RevocationTime, seen \in Revocations \cup {"401"} :
       /\ IF seen = "401" THEN ~live /\ UNCHANGED live ELSE Revoked(seen)
       /\ IF ProviderRevoked(seen) THEN NextRevocation("reconcile", now + d)
          ELSE IF MayRetry(seen)
               THEN \E w \in Jittered(attempt) : RevokeAgain(now + d + w)
          ELSE Close("warned", now + d)

\* And the STS once more, without a retry, to settle its ledger.
GithubReconcile ==
  /\ client = "github" /\ pc = "reconcile"
  /\ \E d \in RevocationTime, seen \in Revocations :
       /\ Revoked(seen)
       /\ Close(IF seen = "204" THEN "clean" ELSE "unreconciled", now + d)

GithubNext ==
  \/ GithubStatus \/ GithubOidc \/ GithubSend \/ GithubPublish
  \/ GithubRevoke \/ GithubProvider \/ GithubReconcile
=============================================================================
