--------------------------- MODULE CloudflareSts ---------------------------
(***************************************************************************)
(* actions/cloudflare-sts: a Cloudflare API token for an assertion.  Every *)
(* retry loop has a budget of its own, in the main hook and in the post    *)
(* hook, which needs an assertion of its own and fails when the token is   *)
(* not deleted.                                                            *)
(***************************************************************************)
EXTENDS StsClient

CONSTANTS
  CLOUDFLARE_RETRIES, \* 5: retries of one request (MAX_RETRIES)
  EXCHANGE_TIMEOUT,   \* 60 s: the request timeout of the exchange
  Ttls, MAX_TTL       \* lifetimes a workflow may ask for; 1 h

ASSUME CloudflareConstants ==
  /\ CLOUDFLARE_RETRIES \in Nat /\ EXCHANGE_TIMEOUT \in Nat \ {0}
  /\ Ttls \subseteq Nat /\ MAX_TTL \in Nat

\* parseTtl()
ValidTtl(ttl) == ttl > 0 /\ ttl <= MAX_TTL

\* What the Cloudflare STS may answer and do: whether it replays a token for a
\* repeated assertion, this action does not rely on.
CloudflareService ==
  [answer : {"ok", "invalid", "transient"}, claim : {"minted"}]
    \cup [answer : {"denied", "transient", "429"}, claim : {claim}]

\* isTransientStatus(): 408, 425, 429 and every 5xx.
CloudflareTransient(seen) == seen \in {"transient", "429"}

\* retryAfterMs(), which only an answer 429 is asked for.
CloudflareAfter(seen) == IF seen = "429" THEN Asked \cup {0} ELSE {0}

\* retry(): no jitter; a wait that would reach the deadline throws.
CloudflareRetry(seen, left) ==
  IF ~(Lost(seen) \/ CloudflareTransient(seen)) THEN {Give}
  ELSE Retry(attempt, CLOUDFLARE_RETRIES,
             LongerOf({2 ^ attempt}, CloudflareAfter(seen)), left, Expired)

\* request(), under the timeout that the loop gives it.
CloudflareTime(limit) == Durations(Min({limit, Left}))

\* main() checks its inputs before it asks the STS for its status.
CloudflareStatus ==
  /\ client = "cloudflare" /\ pc = "status"
  /\ \E ttl \in Ttls :
       IF ValidTtl(ttl)
       THEN StatusCheck("oidc", FALSE)
       ELSE Fail(now) /\ UNCHANGED <<client, held>>

\* What an answer leads to, of the issuer and of the STS.
CloudflareAnswered(seen, t, leg, deadline) ==
  \/ seen = "ok" /\ Begin(leg, t, deadline) /\ UNCHANGED <<outer, tries>>
  \/ /\ seen # "ok"
     /\ \E next \in CloudflareRetry(seen, until - t) :
          IF next.then = "wait" THEN Again(t + next.delay) ELSE Fail(t)

CloudflareOidc ==
  /\ client = "cloudflare" /\ pc = "oidc"
  /\ IF Left = 0 THEN Fail(now) /\ UNCHANGED held
     ELSE \E d \in CloudflareTime(REQUEST_TIMEOUT) : \E seen \in OidcSights(d) :
            /\ OidcAnswered(seen)
            /\ CloudflareAnswered(seen, now + d, "send", now + d + RETRY_BUDGET)
  /\ UNCHANGED client

CloudflareSend ==
  /\ client = "cloudflare" /\ pc = "send"
  /\ IF Left = 0 THEN Fail(now) /\ UNCHANGED held
     ELSE \E d \in CloudflareTime(EXCHANGE_TIMEOUT), effect \in CloudflareService :
          \E seen \in Sights(effect.answer, d) :
            /\ Exchanged(effect, seen)
            /\ CloudflareAnswered(seen, now + d, "publish", until)
  /\ UNCHANGED client

CloudflarePublish ==
  /\ client = "cloudflare"
  /\ Publish("post_oidc")

\* The post hook fails: the token is left to expire.
PostFails(t) ==
  /\ pc' = "closed" /\ post' = "failed" /\ now' = t
  /\ UNCHANGED <<until, loops, result>>

PostAgain(t) ==
  /\ now' = t /\ attempt' = attempt + 1
  /\ UNCHANGED <<pc, until, outer, tries, result, post>>

CloudflarePostOidc ==
  /\ client = "cloudflare" /\ pc = "post_oidc"
  /\ IF Left = 0 THEN PostFails(now)
     ELSE \E d \in CloudflareTime(REQUEST_TIMEOUT) : \E seen \in OidcSights(d) :
       LET t == now + d
       IN  \/ /\ seen = "ok"
              /\ pc' = "revoke" /\ now' = t /\ until' = t + RETRY_BUDGET
              /\ attempt' = 0 /\ UNCHANGED <<outer, tries, result, post>>
           \/ /\ seen # "ok"
              /\ \E next \in CloudflareRetry(seen, until - t) :
                   IF next.then = "wait" THEN PostAgain(t + next.delay)
                                         ELSE PostFails(t)
  /\ UNCHANGED <<client, held, live>>

\* The token is deleted by its identifier; only a 204 is a success.
CloudflareRevoke ==
  /\ client = "cloudflare" /\ pc = "revoke"
  /\ IF Left = 0 THEN PostFails(now) /\ UNCHANGED live
     ELSE \E d \in CloudflareTime(REQUEST_TIMEOUT) : \E seen \in Revocations :
       LET t == now + d
       IN  /\ Revoked(seen)
           /\ IF seen = "204"
              THEN /\ pc' = "closed" /\ post' = "clean" /\ now' = t
                   /\ UNCHANGED <<until, loops, result>>
              ELSE \E next \in CloudflareRetry(seen, until - t) :
                     IF next.then = "wait" THEN PostAgain(t + next.delay)
                                           ELSE PostFails(t)
  /\ UNCHANGED <<client, held>>

CloudflareNext ==
  \/ CloudflareStatus \/ CloudflareOidc \/ CloudflareSend \/ CloudflarePublish
  \/ CloudflarePostOidc \/ CloudflareRevoke
=============================================================================
