---------------------------- MODULE StsExchange ----------------------------
(***************************************************************************)
(* The four STS clients together: one of them is run, chosen in the        *)
(* beginning, and the properties say what each promises of its exchange.   *)
(***************************************************************************)
EXTENDS StepSecuritySts, GithubSts, CloudflareSts

CONSTANT Clients

ASSUME ClientsAssumption ==
  Clients # {} /\ Clients \subseteq {"socket", "stepsecurity", "github", "cloudflare"}

\* Nothing further happens after the post hook, or after a main hook that
\* failed.
StsWork == SocketNext \/ StepNext \/ GithubNext \/ CloudflareNext

StsNext == StsWork \/ Expire

StsDone == pc = "closed"

-----------------------------------------------------------------------------
(* Properties.                                                             *)

StsTypeOK ==
  /\ client \in {"socket", "stepsecurity", "github", "cloudflare"}
  /\ pc \in {"status", "assert", "oidc", "refresh", "send", "publish", "revoke",
             "provider", "reconcile", "post_oidc", "closed"}
  /\ now \in Nat /\ until \in Nat /\ attempt \in Nat /\ outer \in Nat
  /\ tries \in Nat /\ assertion \in Nat /\ claim \in Claims
  /\ unsure \in BOOLEAN /\ mints \in Nat /\ lateLimits \in Nat
  /\ result \in {"none", "token", "failed"} /\ live \in BOOLEAN
  /\ post \in {"none", "clean", "unreconciled", "warned", "failed"}

\* The revocation of Socket and Step Security at its longest: every request
\* times out, and every wait between them is a quarter longer.
LongestRevocation ==
  RETRY_ATTEMPTS * REQUEST_TIMEOUT + (5 * (2 ^ (RETRY_ATTEMPTS - 1) - 1)) \div 4

\* The time that a hook may take: one budget for the whole exchange, and one
\* per request loop where the Cloudflare action sets a new one.
Allowance ==
  IF client = "cloudflare"
  THEN 2 * RETRY_BUDGET + IF result = "token" THEN 0 ELSE REQUEST_TIMEOUT
  ELSE IF result = "token" THEN LongestRevocation ELSE RETRY_BUDGET

\* However failures, polls, fresh assertions and rate limit waits are mixed, no
\* main hook outlasts its budget, and no post hook but that of GitHub's client
\* the time that its attempts can take.  That one has no limit: its requests
\* have no timeout.
InBudget == now <= Allowance \/ (client = "github" /\ result = "token")

\* Answers after which the assertion that was sent is not worth another try:
\* the Socket STS used it up, the GitHub STS refused it and it may have expired.
UsedUp ==
  CASE client = "socket" -> {"503", "502", "409", "limited", "timeout"}
    [] client = "github" -> {"429"}
    [] OTHER -> {}

\* A fresh assertion is taken exactly when the last one is used up: a pending
\* creation keeps being polled with its own assertion, an ambiguous failure is
\* repeated with the assertion whose result can be replayed, and a used-up
\* assertion is not sent again, in whatever loop the next request is made.
FreshExactlyWhenUsedUp ==
  [][ /\ assertion' # assertion => assertion = 0 \/ told \in UsedUp
      /\ pc = "send" => told \notin UsedUp ]_stsVars

\* Lost answers cost few credentials: at most one per assertion attempt at
\* Socket, none beyond the first at Step Security, and at GitHub one more for
\* every 429 that followed an ambiguous failure.
CredentialsBounded ==
  /\ client = "socket" => mints <= ASSERTION_ATTEMPTS
  /\ client = "stepsecurity" => mints <= 1
  /\ client = "github" => mints <= 1 + lateLimits

\* What the post hook says it revoked is no longer accepted, whatever answers
\* were lost and whichever of the two services took the token back.
RevokedIsDead == post \in {"clean", "unreconciled"} => ~live

-----------------------------------------------------------------------------
(* The inductive invariants.                                               *)

\* A post hook that has an outcome has ended, and GitHub STS's is asked to settle
\* its ledger only when GitHub has said that the token is gone.
RevocationInv ==
  /\ live \in BOOLEAN
  /\ post # "none" => pc = "closed"
  /\ pc = "reconcile" => ~live
  /\ RevokedIsDead

MainLegs == {"status", "assert", "oidc", "refresh", "send", "publish"}

PostLegs == {"post_oidc", "revoke", "provider", "reconcile"}

\* Legs whose retry loop has a deadline.
HasDeadline ==
  \/ pc \notin {"revoke", "provider", "reconcile", "closed"}
  \/ pc = "revoke" /\ client = "cloudflare"

\* The last deadline that a hook may set itself, in each of these legs.
LastDeadline ==
  IF client # "cloudflare" \/ pc \in {"status", "post_oidc"} THEN RETRY_BUDGET
  ELSE IF pc = "oidc" THEN RETRY_BUDGET + REQUEST_TIMEOUT
  ELSE Allowance

\* The attempts that failed took the timeout each, and the waits after them
\* their backoff and a quarter of it.
AttemptsTakeTheirTime ==
  /\ attempt <= RETRY_ATTEMPTS - 1
  /\ 4 * now <= 4 * (attempt * REQUEST_TIMEOUT) + 5 * (2 ^ attempt - 1)

\* No wait and no request goes past the deadline of its loop; a loop without
\* one is bounded by its attempts, if its requests have a timeout.
BudgetInv ==
  /\ pc \in MainLegs \cup PostLegs \cup {"closed"}
  /\ now \in Nat /\ until \in Nat /\ attempt \in Nat /\ outer \in Nat
  /\ HasDeadline => now <= until /\ until <= LastDeadline
  /\ pc = "revoke" /\ client \notin {"github", "cloudflare"} => AttemptsTakeTheirTime
  /\ pc = "closed" => InBudget
  /\ pc = "status" => now = 0 /\ until = RETRY_BUDGET
  /\ pc \in MainLegs => result = "none"
  /\ pc \in PostLegs => result = "token"
  /\ pc = "post_oidc" => client = "cloudflare"
  /\ pc \in {"provider", "reconcile"} => client = "github"

\* How many credentials an assertion may still come to: at Socket a creation
\* that is pending can end after its assertion was replaced.
SocketMints ==
  /\ tries \in 0 .. ASSERTION_ATTEMPTS - 1 /\ claim \in Claims
  /\ pc \in {"status", "assert"} => mints + (IF claim = "pending" THEN 1 ELSE 0) <= tries
  /\ pc = "send" => mints <= IF claim = "minted" THEN tries + 1 ELSE tries

\* Step Security is sent one assertion, and replays what it made for it.
StepMints ==
  /\ claim \in {"new", "minted"} /\ mints = IF claim = "minted" THEN 1 ELSE 0
  /\ pc \in {"status", "assert"} => claim = "new"

\* At GitHub a credential that nobody has got was made by a request that may
\* have been carried out, and its assertion is renewed only after a 429.
GithubMints ==
  /\ claim \in {"new", "minted"} /\ lateLimits \in Nat /\ unsure \in BOOLEAN
  /\ pc \in {"status", "oidc", "refresh"} => mints <= lateLimits
  /\ pc = "send" => IF claim = "minted" THEN unsure /\ mints <= 1 + lateLimits
                    ELSE mints <= lateLimits

MintInv ==
  /\ mints \in Nat /\ CredentialsBounded
  /\ client = "socket" => SocketMints
  /\ client = "stepsecurity" => StepMints
  /\ client = "github" => GithubMints

\* What the client knows of its assertion says whether it may be sent, and
\* whether it may be replaced.
AssertionInv ==
  /\ pc = "send" => told \notin UsedUp
  /\ pc \in {"status", "assert", "oidc", "refresh"} => assertion = 0 \/ told \in UsedUp
=============================================================================
