---------------------------- MODULE DeployBroker ----------------------------
(***************************************************************************)
(* actions/cloudflare-deploy-broker and its delete-preview variant: one    *)
(* job asks the broker to deploy, or to delete a preview, in a loop that   *)
(* waits out transient failures and polls an operation that is still in    *)
(* progress.  The broker goes on with an operation whose request broke.    *)
(***************************************************************************)
EXTENDS Integers, FiniteSetsExt

CONSTANTS
  MAX_TOTAL_RETRY_DELAY,   \* 60 s
  OPERATION_POLL_INTERVAL, \* 10 s
  OPERATION_POLL_TIMEOUT,  \* 11 min
  CONNECTION_TIMEOUT,      \* 5 s
  RESPONSE_TIMEOUT,        \* 10 min
  RetryAfters,             \* delays that a Retry-After may ask for
  MaxRuns                  \* bound: run attempts of the job

ASSUME BrokerConstants ==
  /\ MAX_TOTAL_RETRY_DELAY \in Nat
  /\ OPERATION_POLL_INTERVAL \in Nat \ {0} /\ OPERATION_POLL_TIMEOUT \in Nat \ {0}
  /\ CONNECTION_TIMEOUT \in Nat /\ RESPONSE_TIMEOUT \in Nat
  /\ RetryAfters \subseteq Nat /\ MaxRuns \in Nat \ {0}

VARIABLES
  operation,   \* "deploy" or "delete"
  runAttempt,  \* attempt of the workflow run
  step,        \* "oidc", "request", "done"
  time,        \* since this attempt started
  pollStarted, \* operationPollStartedAt, -1 before the first poll
  transients,  \* consecutiveTransientAttempts
  delayed,     \* totalTransientDelayMs
  polled,      \* time spent waiting between polls
  reported,    \* what the job said: "none", "success", "failure"
  started,     \* at the broker: keys whose operation it began
  running      \* at the broker: those still in progress

loop == <<time, pollStarted, transients, delayed, polled>>
broker == <<started, running>>
brokerVars == <<operation, runAttempt, step, loop, reported, broker>>

\* Mutant: every request after a failure has a key of its own.
KeyPerRequest == <<operation, runAttempt, transients>>
\* The key is made of the run, its attempt and what is deployed, so it is the
\* same in every request of the loop.  A deletion has none: the broker knows it
\* by its preview.
IdempotencyKey == IF operation = "deploy" THEN <<operation, runAttempt>>
                  ELSE <<operation>>

-----------------------------------------------------------------------------
(* The loop requestDeployment().                                           *)

\* nextRetryDelay(): a longer Retry-After replaces the backoff.
NextRetryDelay(attempt, retryAfter) ==
  LET exponential == 2 ^ (attempt - 1)
  IN  IF retryAfter >= exponential THEN retryAfter ELSE exponential

Report(t, outcome) ==
  /\ step' = "done" /\ reported' = outcome /\ time' = t
  /\ UNCHANGED <<pollStarted, transients, delayed, polled>>

\* Mutant: the total of the waits is not looked at.
WaitTransientOn(t) ==
  \E retryAfter \in RetryAfters :
    LET delay == NextRetryDelay(transients + 1, retryAfter)
    IN  /\ transients' = transients + 1 /\ delayed' = delayed + delay
        /\ step' = "oidc" /\ time' = t + delay
        /\ UNCHANGED <<pollStarted, polled, reported>>
\* retry(): a wait that would take the total past its limit ends the loop.
WaitTransient(t) ==
  \E retryAfter \in RetryAfters :
    LET delay == NextRetryDelay(transients + 1, retryAfter)
    IN  IF delayed + delay > MAX_TOTAL_RETRY_DELAY
        THEN Report(t, "failure")
        ELSE /\ transients' = transients + 1 /\ delayed' = delayed + delay
             /\ step' = "oidc" /\ time' = t + delay
             /\ UNCHANGED <<pollStarted, polled, reported>>

\* When the loop first saw that the operation is in progress.
PollStartedAt(t) == IF pollStarted >= 0 THEN pollStarted ELSE t

\* A 409 says that the operation is in progress: it is polled for a while, and
\* failures are no longer consecutive.
WaitForOperation(t) ==
  LET elapsed == t - PollStartedAt(t)
      delay == Min({OPERATION_POLL_INTERVAL, OPERATION_POLL_TIMEOUT - elapsed})
  IN  IF elapsed >= OPERATION_POLL_TIMEOUT
      THEN Report(t, "failure")
      ELSE /\ transients' = 0 /\ pollStarted' = PollStartedAt(t)
           /\ polled' = polled + delay
           /\ step' = "oidc" /\ time' = t + delay
           /\ UNCHANGED <<delayed, reported>>

\* request(): an answer may take as long as the broker holds the request; a
\* connection that is not made ends sooner.
RequestTimes == {0, CONNECTION_TIMEOUT, RESPONSE_TIMEOUT}

\* oidc(), asked again for every request; a refusal is final.
BrokerOidc ==
  /\ step = "oidc"
  /\ \/ step' = "request" /\ UNCHANGED <<loop, reported>>
     \/ Report(time, "failure")
     \/ \E d \in RequestTimes : WaitTransient(time + d)
  /\ UNCHANGED <<operation, runAttempt, broker>>

\* What the broker does with a request: it begins an operation that it does not
\* know, answers 409 while it is in progress and repeats its result after that.
\* An answer may be lost in each case.
BrokerAnswers ==
  LET known == IdempotencyKey \in started
      busy == IdempotencyKey \in running
  IN  {"denied", "transient", "lost"}
        \cup (IF busy THEN {"in_progress"} ELSE {"finished", "failed"})
        \cup (IF ~known THEN {"begun"} ELSE {})

BrokerRequest ==
  /\ step = "request"
  /\ \E d \in RequestTimes, answer \in BrokerAnswers :
       LET t == time + d
       IN  /\ started' = IF answer \in {"begun", "finished", "failed"}
                         THEN started \cup {IdempotencyKey} ELSE started
           /\ running' = IF answer = "begun"
                         THEN running \cup {IdempotencyKey} ELSE running
           /\ \/ answer = "finished" /\ Report(t, "success")
              \/ answer \in {"failed", "denied"} /\ Report(t, "failure")
              \/ answer \in {"transient", "lost", "begun"} /\ WaitTransient(t)
              \/ answer = "in_progress" /\ WaitForOperation(t)
  /\ UNCHANGED <<operation, runAttempt>>

\* The broker ends an operation in its own time, or never.
OperationEnds ==
  /\ step # "done"
  /\ \E key \in running : running' = running \ {key}
  /\ UNCHANGED <<operation, runAttempt, step, loop, reported, started>>

\* A failed job is run again: a new attempt of the run, and a new key.
Rerun ==
  /\ step = "done" /\ reported = "failure" /\ runAttempt < MaxRuns
  /\ runAttempt' = runAttempt + 1 /\ step' = "oidc" /\ reported' = "none"
  /\ time' = 0 /\ pollStarted' = -1 /\ transients' = 0
  /\ delayed' = 0 /\ polled' = 0
  /\ UNCHANGED <<operation, broker>>

BrokerInit ==
  /\ operation \in {"deploy", "delete"} /\ runAttempt = 1 /\ step = "oidc"
  /\ time = 0 /\ pollStarted = -1 /\ transients = 0 /\ delayed = 0 /\ polled = 0
  /\ reported = "none" /\ started = {} /\ running = {}

BrokerClient == BrokerOidc \/ BrokerRequest

BrokerWorld == OperationEnds \/ Rerun

BrokerNext == BrokerClient \/ BrokerWorld

BrokerDone == step = "done"

-----------------------------------------------------------------------------

BrokerTypeOK ==
  /\ operation \in {"deploy", "delete"} /\ runAttempt \in 1..MaxRuns
  /\ step \in {"oidc", "request", "done"}
  /\ time \in Nat /\ pollStarted \in Nat \cup {-1} /\ transients \in Nat
  /\ delayed \in 0..MAX_TOTAL_RETRY_DELAY /\ polled \in Nat
  /\ reported \in {"none", "success", "failure"} /\ running \subseteq started

\* The loop waits no longer than the retry total and one poll window, however
\* failures and polls alternate: failures do not restart the poll clock, and
\* polls do not restore the retry total.
BrokerWaitsBounded ==
  polled <= OPERATION_POLL_TIMEOUT /\ delayed <= MAX_TOTAL_RETRY_DELAY

\* A run attempt begins at most one deployment, whatever answers are lost: all
\* its requests carry one key, and only a re-run has another.
OneDeploymentPerAttempt == Cardinality(started) <= runAttempt

-----------------------------------------------------------------------------
(* The inductive invariant.                                                *)

\* The polls' own waits are part of the time since the first of them, which the
\* poll timeout bounds.
WaitsAreTimed ==
  /\ time \in Nat /\ transients \in Nat /\ delayed \in Nat /\ polled \in Nat
  /\ BrokerWaitsBounded
  /\ IF pollStarted = -1 THEN polled = 0
     ELSE pollStarted \in Nat /\ polled <= time - pollStarted

\* A run attempt that has not begun an operation may still do so.
KeysAreSpent ==
  /\ runAttempt \in Nat /\ IsFiniteSet(started)
  /\ Cardinality(started) + (IF IdempotencyKey \in started THEN 0 ELSE 1) <= runAttempt

BrokerInv == WaitsAreTimed /\ KeysAreSpent
=============================================================================
