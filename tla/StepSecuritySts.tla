-------------------------- MODULE StepSecuritySts --------------------------
(***************************************************************************)
(* actions/step-security-sts: one assertion, one lease.  The STS answers a *)
(* repeated assertion with the lease it made for it, so every retry sends  *)
(* the same one.                                                           *)
(***************************************************************************)
EXTENDS SocketSts

\* What the Step Security STS may answer and do: it replays a lease it made.
StepSecurityService ==
  [answer : {"ok", "invalid", "transient"}, claim : {"minted"}]
    \cup [answer : {"denied", "transient", "429"}, claim : {claim}]

\* isTransientStatus(): 408, 425, 429 and every 5xx.
StepTransient(seen) == seen \in {"transient", "429"}

\* retry() of this action: errors and transient answers, and of those that the
\* caller of the exchange does not pace itself.
StepRetry(seen, paced, left) ==
  IF Lost(seen) \/ (StepTransient(seen) /\ seen \notin paced)
  THEN HttpRetry(left) ELSE {Give}

\* retryRateLimited() and rateLimitDelay() of this action.
StepPace(left) == UNION {Pace(asked, left) : asked \in Asked \cup {NoDelay}}

StepStatus ==
  /\ client = "stepsecurity"
  /\ StatusCheck("assert", TRUE)

\* githubAssertion(): without an assertion the exchange fails.
StepAsserted(seen, t) ==
  \/ seen = "ok" /\ Begin("send", t, until) /\ UNCHANGED <<outer, tries>>
  \/ /\ seen # "ok"
     /\ \E next \in StepRetry(seen, {}, until - t) :
          IF next.then = "wait" THEN Again(t + next.delay) ELSE Fail(t)

StepAssert ==
  /\ client = "stepsecurity" /\ pc = "assert"
  /\ IF Left = 0 THEN Fail(now) /\ UNCHANGED held
     ELSE \E d \in SocketTime : \E seen \in OidcSights(d) :
            OidcAnswered(seen) /\ StepAsserted(seen, now + d)
  /\ UNCHANGED client

\* exchangeToken(): what an answer to retryExchange() leads to.
StepAnswered(seen, t) ==
  \/ /\ seen = "ok"
     /\ Begin("publish", t, until) /\ UNCHANGED <<outer, tries>>
  \/ seen = "invalid" /\ Fail(t)
  \/ /\ seen = "429"
     /\ \E next \in StepPace(until - t) :
          IF next.then = "expired" THEN Fail(t)
          ELSE /\ outer' = outer + 1 /\ UNCHANGED tries
               /\ Begin("send", t + next.delay, until)
  \/ /\ seen \notin {"ok", "invalid", "429"}
     /\ \E next \in StepRetry(seen, {"429"}, until - t) :
          IF next.then = "wait" THEN Again(t + next.delay) ELSE Fail(t)

StepSend ==
  /\ client = "stepsecurity" /\ pc = "send"
  /\ IF Left = 0 THEN Fail(now) /\ UNCHANGED held
     ELSE \E d \in SocketTime, effect \in StepSecurityService :
          \E seen \in Sights(effect.answer, d) :
            Exchanged(effect, seen) /\ StepAnswered(seen, now + d)
  /\ UNCHANGED client

StepPublish ==
  /\ client = "stepsecurity"
  /\ Publish("revoke")

\* Post: best effort; a refusal is final, everything transient is retried.
StepRevoke ==
  /\ client = "stepsecurity" /\ pc = "revoke"
  /\ \E d \in Durations(REQUEST_TIMEOUT), seen \in Revocations :
       /\ Revoked(seen)
       /\ IF seen = "204" THEN Close("clean", now + d)
          ELSE IF seen = "denied" \/ attempt = RETRY_ATTEMPTS - 1
               THEN Close("warned", now + d)
          ELSE \E w \in Jittered(attempt) : RevokeAgain(now + d + w)

StepNext == StepStatus \/ StepAssert \/ StepSend \/ StepPublish \/ StepRevoke
=============================================================================
