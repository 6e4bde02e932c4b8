------------------------------- MODULE Actions -------------------------------
(***************************************************************************)
(* The actions that share no state with another: a behaviour is a job that *)
(* runs one of them.  `action' says which; the variables of the others     *)
(* stay as one of their initial states has them.                           *)
(***************************************************************************)
EXTENDS StsExchange, DeployBroker, SkillSync, PrAudit, EnsureSecureRunner,
        ConditionalCi, OidcCaches, CreatePullRequest, DependencyUpdate

VARIABLE action

ActionNames ==
  {"sts", "broker", "sync", "audit", "ensure", "ci", "oidc", "create", "update"}

jobVars == <<action, stsVars, brokerVars, syncVars, auditVars, ensureVars,
             ciVars, oidcVars, createVars, updateVars>>

-----------------------------------------------------------------------------
(* How the variables of an action look while another one is run.           *)

StsIdle == client = (CHOOSE c \in Clients : TRUE) /\ StsInit
BrokerIdle == operation = "deploy" /\ BrokerInit
SyncIdle == registry = <<>> /\ SyncInit
AuditIdle ==
  /\ command = [private |-> FALSE, tokens |-> <<>>, defaultEnv |-> "prod"]
  /\ asker = "trusted" /\ AuditInit
EnsureIdle ==
  /\ scanPaths = {} /\ accepted = {<<"secure-runner", AnyRef>>}
  /\ text = (CHOOSE t \in FileTexts : TRUE) /\ EnsureInit
CiIdle ==
  /\ changes = {} /\ filters = [j \in Gated |-> [positive |-> Paths, negative |-> {}]]
  /\ allowedSkips = {} /\ allowedFailures = {} /\ CiInit
UpdateIdle == policy = "skip" /\ UpdateInit

ActionsInit ==
  /\ action \in ActionNames
  /\ IF action = "sts" THEN client \in Clients /\ StsInit ELSE StsIdle
  /\ IF action = "broker" THEN BrokerInit ELSE BrokerIdle
  /\ IF action = "sync" THEN SyncInit ELSE SyncIdle
  /\ IF action = "audit" THEN AuditInit ELSE AuditIdle
  /\ IF action = "ensure" THEN EnsureInit ELSE EnsureIdle
  /\ IF action = "ci" THEN CiInit ELSE CiIdle
  /\ OidcInit /\ CreateInit
  /\ IF action = "update" THEN UpdateInit ELSE UpdateIdle

\* The variables of the other actions.
Others(a) ==
  /\ UNCHANGED action
  /\ IF a = "sts" THEN TRUE ELSE UNCHANGED stsVars
  /\ IF a = "broker" THEN TRUE ELSE UNCHANGED brokerVars
  /\ IF a = "sync" THEN TRUE ELSE UNCHANGED syncVars
  /\ IF a = "audit" THEN TRUE ELSE UNCHANGED auditVars
  /\ IF a = "ensure" THEN TRUE ELSE UNCHANGED ensureVars
  /\ IF a = "ci" THEN TRUE ELSE UNCHANGED ciVars
  /\ IF a = "oidc" THEN TRUE ELSE UNCHANGED oidcVars
  /\ IF a = "create" THEN TRUE ELSE UNCHANGED createVars
  /\ IF a = "update" THEN TRUE ELSE UNCHANGED updateVars

\* What the actions do of their own accord, as opposed to what users, GitHub
\* and the services do.
ActionsWork ==
  \/ action = "sts" /\ StsWork /\ Others("sts")
  \/ action = "broker" /\ BrokerClient /\ Others("broker")
  \/ action = "sync" /\ SyncWork /\ Others("sync")
  \/ action = "audit" /\ AuditWork /\ Others("audit")
  \/ action = "ensure" /\ EnsureNext /\ Others("ensure")
  \/ action = "ci" /\ CiNext /\ Others("ci")
  \/ action = "update" /\ Coordinator /\ Others("update")

ActionsWorld ==
  \/ action = "sts" /\ Expire /\ Others("sts")
  \/ action = "broker" /\ BrokerWorld /\ Others("broker")
  \/ action = "sync" /\ SyncWorld /\ Others("sync")
  \/ action = "audit" /\ AuditWorld /\ Others("audit")
  \/ action = "oidc" /\ OidcNext /\ Others("oidc")
  \/ action = "create" /\ CreateNext /\ Others("create")
  \/ action = "update" /\ UpdateWorld /\ Others("update")

\* The action waits for an answer to a request without a timeout: when it goes
\* on, or whether it does, is up to the service.
Untimed ==
  \/ action = "sts" /\ StsUntimed
  \/ action = "sync" /\ SyncUntimed
  \/ action = "audit" /\ AuditUntimed
  \/ action = "ci" /\ CiUntimed

\* Programs go on by themselves, except where they wait without a timeout.  The
\* calls of a dependency update and its wait for CI have that of its job, which
\* stops it.  Nothing else is assumed of the world.
TimedWork ==
  \/ ActionsWork /\ ~Untimed
  \/ action = "update" /\ StopUpdate /\ Others("update")

ActionsSpec ==
  ActionsInit /\ [][ActionsWork \/ ActionsWorld]_jobVars /\ WF_jobVars(TimedWork)

-----------------------------------------------------------------------------

Ended ==
  CASE action = "sts" -> StsDone [] action = "broker" -> BrokerDone
    [] action = "sync" -> SyncDone [] action = "audit" -> AuditDone
    [] action = "ensure" -> EnsureDone [] action = "ci" -> CiDone
    [] action = "update" -> UpdateDone [] OTHER -> TRUE

ActionsTypeOK ==
  /\ action \in ActionNames
  /\ StsTypeOK /\ BrokerTypeOK /\ SyncTypeOK /\ AuditTypeOK /\ EnsureTypeOK
  /\ CiTypeOK /\ OidcTypeOK /\ CreateTypeOK /\ UpdateTypeOK

\* No hook of an STS client outlasts the time that it is given, except GitHub's
\* post hook, which is given no limit, and no request to the broker outlasts its
\* limits, however failures, rate limits and polls alternate.
BudgetsHold == InBudget /\ BrokerWaitsBounded

\* Lost answers and retries do not repeat what was asked for once: the number
\* of credentials and of deployments that the services made is bounded.
RequestsCountOnce == CredentialsBounded /\ OneDeploymentPerAttempt

\* What the status comment of an audit says is true, and it is settled.
AuditIsReported == StatusIsTrue /\ QueuedIsSettled

\* A required check that passes has seen what it is there to see.
GatesHold == NoUnprotectedPasses /\ NoChangeSkipped

\* Neither way of updating a branch loses a pull request or a push.
UpdatesAreKept == PullRequestKept /\ PushesAreKept

\* Assertions are taken afresh exactly when they are used up, and the caches
\* give out the newest one, without a gap while requests are answered.
AssertionsAreCurrent ==
  FreshExactlyWhenUsedUp /\ ClientServesNewest /\ GapOnlyAfterFailure

\* Every action comes to its end, and comes to it again after it was disturbed,
\* restarted or run once more, unless a service leaves a request without a
\* timeout unanswered and nothing happens any more: no retry, poll or repair
\* loop goes on for ever.
ActionsEnd == []<>Ended \/ (<>[]Untimed /\ <>[][FALSE]_jobVars)
=============================================================================
