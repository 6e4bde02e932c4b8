----------------------------- MODULE StsClient -----------------------------
(***************************************************************************)
(* State and steps common to the four actions that exchange a GitHub OIDC  *)
(* assertion for a credential at a security token service (STS) and give   *)
(* it back in their post hook: SocketSts, StepSecuritySts, GithubSts and   *)
(* CloudflareSts extend this module, StsExchange composes them.            *)
(*                                                                         *)
(* A behaviour follows one action from its first request to the end of its *)
(* post hook.  The action is a sequential program, so a step is one HTTP   *)
(* request with the wait that follows it, and `now' is the time passed.    *)
(* What is concurrent is the STS: it may do what was asked and have its    *)
(* answer lost, or answer while it still creates the credential.           *)
(***************************************************************************)
EXTENDS Integers, FiniteSetsExt

CONSTANTS
  RETRY_BUDGET,       \* 90 s: the budget of an exchange
  REQUEST_TIMEOUT,    \* 10 s
  Asked               \* delays that an answer may ask for

ASSUME StsConstants ==
  /\ RETRY_BUDGET \in Nat \ {0} /\ REQUEST_TIMEOUT \in 1 .. RETRY_BUDGET
  /\ Asked \subseteq Nat

VARIABLES
  client,     \* the action that runs
  pc,         \* the request it makes next, or "closed"
  now,        \* time since its hook started
  until,      \* deadline of the retry loop it is in
  attempt,    \* attempts that failed in that loop
  outer,      \* rate limit waits, or retries of the exchange around an OIDC loop
  tries,      \* Socket: assertion attempts used up
  assertion,  \* number of the assertion it holds, 0 for none
  claim,      \* at the STS: what became of that assertion
  told,       \* the last answer about it
  unsure,     \* an earlier request with it may have been carried out
  mints,      \* at the STS: credentials created for this exchange
  lateLimits, \* 429s that came while unsure
  result,     \* of the main hook: "none", "token", "failed"
  live,       \* the credential that the job holds is accepted
  post        \* of the post hook: "none", "clean", "unreconciled", "warned", "failed"

clock == <<now, until>>
loops == <<attempt, outer, tries>>
held == <<assertion, claim, told, unsure, mints, lateLimits>>
stsVars == <<client, pc, clock, loops, held, result, live, post>>

Claims == {"new", "pending", "minted", "spent"}

\* No usable delay in an answer; NoDelay < d for every delay d.
NoDelay == -1

-----------------------------------------------------------------------------
(* Waits.  What follows a failed attempt: "give" hands the last response   *)
(* or error to the caller, "wait" sleeps and tries again, "expired" throws *)
(* because the budget ends first.                                          *)

Give == [then |-> "give", delay |-> 0]
Wait(d) == [then |-> "wait", delay |-> d]
Expired == [then |-> "expired", delay |-> 0]

\* What the loop does about attempt number n when the waits that may follow are
\* `delays': the last attempt's outcome is handed over.
Retry(n, most, delays, left, late) ==
  IF n = most THEN {Give}
  ELSE {IF d >= left THEN late ELSE Wait(d) : d \in delays}

\* The n-th backoff: doubled each time, up to a quarter longer at random.
Jittered(n) == 2 ^ n .. (5 * 2 ^ n) \div 4

\* A wait is the longer one of a backoff and of what the answer asks for.
LongerOf(backoffs, askeds) == {Max({b, asked}) : b \in backoffs, asked \in askeds}

\* A request answers at once or takes all the time that it has.
Durations(limit) == {0, limit}

Left == IF until > now THEN until - now ELSE 0

\* What the client sees of an answer: it may be lost on the way, and a request
\* that took all its time may have timed out.
Sights(answer, d) == {answer, "reset"} \cup IF d > 0 THEN {"timeout"} ELSE {}

Lost(seen) == seen \in {"reset", "timeout"}

\* Answers of the runner's OIDC issuer; "invalid" is a success without an
\* assertion.
OidcSights(d) == Sights("ok", d) \cup {"invalid", "denied", "transient", "429"}

-----------------------------------------------------------------------------
(* Moves between the legs of a client.                                     *)

\* The step throws: the main hook fails and no state is saved for post.
Fail(t) ==
  /\ pc' = "closed" /\ result' = "failed" /\ now' = t
  /\ UNCHANGED <<until, loops, live, post>>

\* Another attempt of the loop after a wait.
Again(t) ==
  /\ now' = t /\ attempt' = attempt + 1
  /\ UNCHANGED <<pc, until, outer, tries, result, live, post>>

\* A loop begins with its own deadline and no failed attempt.
Begin(leg, t, deadline) ==
  /\ pc' = leg /\ now' = t /\ until' = deadline /\ attempt' = 0
  /\ UNCHANGED <<result, live, post>>

\* The client takes a fresh assertion.  A creation that is still pending for
\* the old one may end after all.
NewAssertion ==
  /\ assertion' = assertion + 1
  /\ claim' = "new" /\ told' = "nothing" /\ unsure' = FALSE
  /\ mints' \in {mints} \cup IF claim = "pending" THEN {mints + 1} ELSE {}
  /\ UNCHANGED lateLimits

\* The issuer answers.
OidcAnswered(seen) == IF seen = "ok" THEN NewAssertion ELSE UNCHANGED held

\* An exchange request: the STS answers and changes the claim, the client sees
\* `seen'.
Exchanged(effect, seen) ==
  /\ claim' = effect.claim /\ told' = seen
  /\ mints' = IF effect.claim = "minted" /\ claim # "minted"
              THEN mints + 1 ELSE mints
  /\ unsure' = (unsure \/ Lost(seen) \/ seen = "transient")
  /\ lateLimits' = IF unsure /\ seen \in {"limited", "429"}
                   THEN lateLimits + 1 ELSE lateLimits
  /\ UNCHANGED assertion

\* POST /status before the exchange.  Only a service that reports itself
\* disabled ends the action; no answer within the time left is no answer.  The
\* request is within the budget of the exchange, or before that starts.
StatusCheck(leg, inBudget) ==
  /\ pc = "status"
  /\ \E d \in Durations(REQUEST_TIMEOUT) :
       \/ Fail(now + d)
       \/ /\ Begin(leg, now + d, IF inBudget THEN until ELSE now + d + RETRY_BUDGET)
          /\ UNCHANGED <<outer, tries>>
  /\ UNCHANGED <<client, held>>

\* The token is registered with the masker, then written to the step's
\* outputs and to the state that the post hook reads.  That hook has a clock of
\* its own.
Publish(leg) ==
  /\ pc = "publish"
  /\ pc' = leg /\ result' = "token" /\ live' = TRUE
  /\ now' = 0 /\ until' = RETRY_BUDGET /\ attempt' = 0
  /\ UNCHANGED <<client, outer, tries, held, post>>

-----------------------------------------------------------------------------
(* The post hook, after the job.                                           *)

\* A revocation request may be carried out and its answer lost.
Revoked(seen) ==
  \/ seen = "204" /\ live' = FALSE
  \/ seen \in {"transient", "reset"} /\ live' \in {live, FALSE}
  \/ seen = "denied" /\ UNCHANGED live

Revocations == {"204", "transient", "reset", "denied"}

\* The hook ends.  Only Cloudflare's has a deadline: the others' retries have
\* none, and `until' stays as it was.
Close(outcome, t) ==
  /\ pc' = "closed" /\ post' = outcome /\ now' = t
  /\ UNCHANGED <<client, until, loops, held, result>>

\* Another attempt after a wait, however late it is.
RevokeAgain(t) ==
  /\ now' = t /\ attempt' = attempt + 1
  /\ UNCHANGED <<client, pc, until, outer, tries, held, result, post>>

\* The credential reaches the end of its life while the hook runs.
Expire ==
  /\ pc \in {"revoke", "provider", "reconcile"} /\ live
  /\ live' = FALSE
  /\ UNCHANGED <<client, pc, clock, loops, held, result, post>>

StsInit ==
  /\ pc = "status" /\ now = 0 /\ until = RETRY_BUDGET
  /\ attempt = 0 /\ outer = 0 /\ tries = 0
  /\ assertion = 0 /\ claim = "new" /\ told = "nothing" /\ unsure = FALSE
  /\ mints = 0 /\ lateLimits = 0
  /\ result = "none" /\ live = FALSE /\ post = "none"
=============================================================================
