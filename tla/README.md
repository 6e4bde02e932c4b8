# Verification of tempoxyz/gh-actions

This directory holds TLA+ models of the parts of the repository that keep state
across failures, retries and concurrent runs, the TLC configurations that check
them, and TLAPS proofs of the safety properties, the action properties and the
refinement that they check, for every value of the constants.  Paths below are
relative to the repository's root.  `PROJECT.json` lists the components, the runs, the source
lines behind every definition (`map`), the hazards and the theorems.

Run a configuration with `tlc -workers 2 -config SocketLease.cfg MCSocketLease.tla`
(the table of runs names the module of each one), and the proofs with
`tlapm SocketLease_proofs.tla`, and so on for the eight modules whose names end
in `_proofs`.

## 1. Inventory

### The system

The repository is a collection of GitHub Actions and reusable workflows.  Most
of them wrap a tool.  These groups carry logic of their own:

| Component | State it keeps | Operations | Hard parts | What makes it correct |
|---|---|---|---|---|
| **aegis token provider** (`actions/aegis/socket-lease.cjs`, `token-server.cjs`, `token-provider.cjs`) | the current Socket token, a map of accepted tokens, a renewal timer, `closed`; a detached process with a loopback server | start, renew, adopt, discard, answer a scan, retire | a mint racing `close()`, late and repeated answers, lost answers, awaits between check and use, death of the process | no token forgotten, none revoked in use, renewal never stops, closing is final |
| **secure-runner** with **harden-runner** and **aegis-report** (`actions/secure-runner/main.cjs`, `post.cjs`) | keys in `GITHUB_STATE`, credentials at two STSs, the detached provider, the installation on the machine | setup with concurrent branches, cleanup with concurrent branches | cancellation anywhere, one branch failing while another holds a credential, several invocations on one machine, half-finished installs | nothing left behind unnoticed, no foreign or partial installation touched, no service with revoked tokens |
| **STS clients** (`socket-sts`, `step-security-sts`, `github-sts`, `cloudflare-sts`) | a deadline, an assertion, a token in the step's state | exchange with nested retries, revoke, reconcile | single-use assertions, lost answers, rate limits, budgets | ends within its budget, never sends a used-up assertion, creates few credentials however answers are lost, and reports as revoked only what is |
| **cargo-publish** (`actions/cargo-publish/publish.cjs`, `action.yml`) | a plan, the token's issue time, the list of uploads; crates.io | plan, authenticate, upload with delays and waits | dev-dependency cycles, a stale index, concurrent runs, a token of thirty minutes, lost answers | no upload before its dependency, success means complete, reports only its own uploads |
| **changesets-release** and **npm-publish** (`.github/workflows/changesets-release.yml`, `actions/npm-publish/publish.cjs`) | npm versions, tags and releases, outputs handed between jobs, a concurrency group | pack, publish, release; version pull request | overlapping runs, reruns of failed jobs, partial failure, lost answers, staged versions | dependencies first, whatever a run planned gets its tag, nothing that npm was not given does |
| **create-pull-request**, **dependency-update**, **codex-repair**, **cargo-update** | a branch, its open pull request, the head a step expects | reset, commit, force-move, edit or create the PR, poll CI, repair | other callers on the branch, failures between calls | never closes or overwrites another's work unnoticed |
| **skill-sync** | generated trees and a lock file | sync, check | failing between two writes; destinations that change hands | after a completed sync, trees and lock agree |
| **pr-audit** | a status comment with its opt-in marker, the event that is published | parse, permission, queue, publish, update | lost answers, cancellation between two calls, options that override each other | what the status says is true, and it is settled |
| **cloudflare-deploy-broker** | poll clock, failure count, total delay | request loop | 409s between failures, lost answers, reruns | ends within its bounds, one deployment |
| **OIDC caches** (`secure-runner/oidc.cjs`, `aegis/github-oidc.cjs`) | an assertion, the request in flight, a retry time | token, acquire | fresh requests next to failing ones, an assertion near its end | the newest assertion is served, without a gap |
| **required checks** (`ensure-secure-runner`, `changed-paths` with `check-needs`) | none that lasts | check workflows; detect, run, gate | what was not looked at must not pass | a check that passes has seen what it is there to see |

The rest (tool setup, lint and scan wrappers, docker, notifications, build
workflows, vendored code) keeps no state that a step of another actor could
invalidate; `PROJECT.json` lists each with its reason.

### How components interact

- `secure-runner/main.cjs` runs the Harden Runner branch and the Aegis branch
  concurrently.  Each exchanges a GitHub OIDC assertion with an STS and appends
  what it obtained to `GITHUB_STATE`, the only thing the post hook sees.
- When both parts of the Aegis branch are over it forks the token provider
  (`startProvider`), which outlives the step, retires what an earlier
  invocation left on the machine, arms its own cleanup and installs Aegis.
- Aegis asks the provider's loopback server for a token on every package scan;
  the server asks the lease.
- `secure-runner/post.cjs` retires Aegis and the provider side by side, then
  revokes the initial token and those it collected, and lets Harden Runner
  flush its telemetry with a key that it revokes afterwards.
- `secure-runner/oidc.cjs` is shared by the exchanges of Secure Runner; the
  assertion it ends with seeds the cache of the token provider.
- A job of conditional CI runs or is skipped as `changed-paths` says, and a
  gate with `check-needs` judges the results.
- `cargo-publish` and `npm-publish` talk to a registry that they share with
  other runs and with people.  The jobs of `changesets-release` hand plans to
  each other as outputs and share npm, the tags and one concurrency group.

## 2. Plan

Built, in this order:

1. `SocketLease`, then `TokenServer` on top of it, with the abstract
   specification `CredentialLifecycle` that the two implement.
2. `PublishOrder` (the planner's choices), `PublishPlan` (the planner as a
   loop), `CargoPublish` (runs of the action on top of the same choices).
3. `SecureRunner`: setup and cleanup of several invocations on one machine.
4. `ChangesetsRelease`: overlapping runs of the release workflow.
5. `StsClient` with the four clients on top of it, composed in `StsExchange`;
   `DeployBroker`, `SkillSync`, `PrAudit`, `EnsureSecureRunner`,
   `ConditionalCi`, `OidcCaches`, `CreatePullRequest` and `DependencyUpdate`.
   They share no state, so `Actions` runs them as alternatives.

6. Proofs, a module for each component: `SocketLease_proofs`,
   `TokenServer_proofs`, `SecureRunner_proofs`, `PublishOrder_proofs` (lemmas
   only), `PublishPlan_proofs`, `CargoPublish_proofs`,
   `ChangesetsRelease_proofs`, `Actions_proofs`.

Every invariant, every action property and the refinement that a passing run
checks is now a theorem.  What is left to prove is out of TLAPS's reach
(liveness); further work is in widening the models: the probe of `pr-audit.yml`,
the `version-pr` job of `changesets-release`, and the download of Aegis.

## 3. The models

### SocketLease

The lease object of `socket-lease.cjs`: one variable per field of its closure
(`token`, `expires`, `renewAt`, `retryAt`, `timer`, `loading`, `closed`,
`tokens`), the process (`alive`) and the Socket STS (`issued`, `revoked`).
Every await of the renewal is a point where other steps interleave: `renew()`
starts an exchange, the STS may mint at any time after it, the answer may be
adopted, be rejected (repeated, expired, too short, or too late because
`close()` ran), or never arrive, and a rejected token is discarded with a
request of its own.  `abandoned` only observes: it collects the tokens that a
failure left to expire by themselves, so that "forgotten" can be told from
"lost and noticed".

The Socket STS is modelled from how the code uses it: it may answer with a new
token or with one it minted before (the exchange is idempotent), and it may
mint without its answer arriving.

### TokenServer and CredentialLifecycle

`TokenServer` extends the lease with the loopback server (a request waits for a
GitHub assertion and only then reads the lease), the retire request and the
post hook (`retireProvider`, the one-second timeout, the limit of 16 tokens, the
revocation of each token).  A retire request may be served after the hook gave
up on it.

`CredentialLifecycle` says what a job promises about credentials without saying
how: each is unissued, outstanding, held, surrendered, stranded, revoked or
expired; a held one is never revoked, retiring surrenders what is held, nothing
becomes held afterwards.  `Stage` in `TokenServer` maps each token's state to
that, and `ImplementsLifecycle` checks that every step is a step of it.

### PublishOrder, PublishPlan and CargoPublish

`PublishOrder` has the choices of `planPackages` and `breakSoftCycle` as
operators: what is ready, the components that no edge leaves (the code's Tarjan
search, stated by what it computes: the least closed sets), the candidates to
break a cycle at and the order of their costs.  `PlanOf` is the plan in closed
form.  `SortedLists` has what it shares with the packing of `ChangesetsRelease`:
`sort()`, `filter()` and the loop of Kahn's algorithm, as a function of the names
that are not placed yet.  `PublishPlan` is the planner as a loop over passes;
`PlanIsSound` ties the two together, so `CargoPublish` can use `PlanOf` in one
step.

`CargoPublish` is a run of the action: planning from an index that may lag,
minting the token, recording its time some ticks later, delays, rate-limit
waits that may end late, uploads that are accepted, refused or whose answer is
lost, and the classification of cargo's exit.  Reruns and concurrent runs are
further members of `Jobs`; people may publish by hand.  The comparison of
cargo's messages is abstracted to the answer it recognises.

### SecureRunner

An invocation has one variable per branch of its setup and cleanup.  A hook of
one invocation runs at a time and post hooks run in reverse order of setups, as
the runner executes them; inside a hook the branches interleave freely.
`saved` is the invocation's part of `GITHUB_STATE`.  `KillSetup` is a cancelled
setup whose post hook still runs, `LoseRunner` ends everything at once;
self-hosted machines keep their installation.  `dropped` only observes which
credential a kill took before it was saved.  Jobs without OIDC permission or
with enforcement disabled do nothing and are left out.

### ChangesetsRelease

Every push without changesets has a run with its `pack`, `publish` and
`release` jobs.  The publish jobs share a concurrency group with one running
and one waiting job; a newer waiting job cancels the older one.  A job fails or
is cancelled at any step, and a rerun starts the failed job again with the
outputs of the earlier ones.  npm takes an upload with or without its answer
arriving.  Every lookup of npm may lag: pack's, the publish job's second lookup
of what pack found (`missed` is what it did not see), and the one before an
upload.  A package whose name is ambiguous at the commit cannot be planned and
is not resumable (`publish.cjs:366`, `374-376`).

Published and staged versions are apart: `npm` is what the registry serves,
`staged` what an owner has handed in without its being approved.  npm refuses an
upload of either, and the job takes either for done (`publish.cjs:433-435`), so
a staged version is released and tagged and stands in for a dependency.  What
an owner does not approve stays in `staged`, since npm refuses its number all
the same.  The properties are stated accordingly: `DependenciesFirst` and
`TagsAreRight` speak of what npm was *given*, and that tagged versions are *on*
npm is a finding.  Unpublishing is left out.  `had` records which packages had a
tag when the release job started, as its `gh release view` loop sees it.

### StsClient, its four clients and StsExchange

`StsClient` has what the exchanges of an assertion for a credential have in
common: the clock of the hook, the deadline of the retry loop it is in, the
assertion with what became of it at the STS (`claim`), and the post hook.  A
step is one HTTP request with the wait that follows it.  The STS acts inside
that step: it may do what it was asked and have its answer lost, or answer
while it still creates the credential.  The clock runs through the post hook
too: a revocation request takes its time, `RevokeAgain` waits between two
attempts, and the retries there have no deadline (`post.cjs` of `socket-sts` and
`step-security-sts`, `post.js` of `github-sts`), only a number of attempts.  A
request of `github-sts/post.js` has no timeout either: it is answered after any
time up to `SLOW_ANSWER`, or never.  `SocketSts` adds the three nested
retries of `socket-sts` and its single-use assertions, `StepSecuritySts` the
replays of `step-security-sts`, `GithubSts` the shared deadline and the three
stages of the revocation, `CloudflareSts` a budget per request loop, the
question whether the service is enabled (`status.cjs`), and the assertion that its
post hook needs.  `StsExchange` composes them and states what each promises.
`InBudget` says of the main hooks that they keep their budget, of the post hooks
of Socket, Step Security and Cloudflare that they take no longer than their
attempts or their budget (`LongestRevocation`, `Allowance`), and nothing of
GitHub's, which has no limit.

### DeployBroker

The loop of `retry.cjs` as both broker actions use it, against a broker that
goes on with an operation whose request broke.  The idempotency key is the run,
its attempt and what is deployed; a rerun has a key of its own.

### SkillSync

A run of `sync()` over a registry of two names: one step per skill that it
looks at or removes, then the lock file, then the index.  A source may fail and
the process be stopped between any two.  Between runs sources, the registry or
generated copies are edited.  A destination is what the template makes of the
plugin and the name, so two entries can have the same one in turn.

### PrAudit

The comment action: command, permission, parsing, status comment, event, edited
comment.  Every call may fail and its effect happen all the same.  A command is
a sequence of tokens, each what an option does to the result; parsing takes one
token a step, as the loop of `parseArgs` does.

### EnsureSecureRunner and ConditionalCi

Both end with a verdict.  `EnsureSecureRunner` has workflows as jobs with steps
or calls; its property looks at them from the runner's side, with any
conditional step skipped; a caller that sets `fail-on-violation` to false asks
for warnings instead of a verdict and is left out.  `ConditionalCi` puts `changed-paths`, the jobs behind
its filters and the gate of `check-needs` together.  A pattern stands for the
paths it matches; the gate is taken to need the detecting job too.

### OidcCaches

The client of Secure Runner's main process with pending entries that are shared
and fresh requests that replace them, then the provider's cache that starts
with its value.  One audience; the caches keep them apart.

### CreatePullRequest and DependencyUpdate

`CreatePullRequest` follows every call of the step that changes or reads the
branch or its pull request, with several runs and a maintainer in between.  The
rule it turns on is GitHub's: a pull request whose branch becomes its base is
closed.  The base stays at one commit.  `DependencyUpdate` is the coordinator against maintainers who push to
its branch and close or reopen the pull request; a commit is known by the set
of pushes whose changes it holds.

### Actions

The actions of this part share no state, so one module runs them as
alternatives: `action` says which one a behaviour is about, and the variables
of the others keep one initial value.  `ActionsWork` is what programs do,
`ActionsWorld` what users, GitHub, the services and the clock do; `Untimed` says
that the action waits for an answer without a timeout, so that it is up to the
service whether it goes on.  Each property joins the properties of the modules that answer the same question.

## 4. Runs

| Run | Module | Checks | Bounds |
|---|---|---|---|
| `SocketLease` | `MCSocketLease` | type, `NoForgottenToken`, `AcceptedNotRevoked`, `RenewalArmed`, `FewUnexpired`, `CurrentOutlastsOthers`, `ClosedIsFinal` | 4 tokens, 5 ticks, leases of up to 5 |
| `TokenServer` | `TokenServer` | `ServerInv` (types, and no revocation of a token in use), `CleanupComplete`, `AnswersAreUsable`, refinement `ImplementsLifecycle`, liveness `SurrenderedEnds` | 3 tokens, 3 ticks, one scan |
| `PublishPlan` | `MCPublishPlan` | `PlanIsSound` (types, agreement with `PlanOf`, refusal only of hard cycles), `HardEdgesHold`, `DroppedOnlyOnCycle`, `NeededEdgesKept`, liveness `PlanningEnds` | every workspace of 3 crates |
| `PublishPlanRejected` | `MCPublishPlan` | finding, below | 3 crates |
| `CargoPublish` | `MCCargoPublish` | `OutcomesAreOwn` (types, and no run claims another's upload), `StartsWithLiveToken`, `NeverRejected`, `NeverStopsAtNewCrate`, `SuccessIsComplete` | two runs, 3 crates in four shapes of workspace, 4 ticks |
| `SecureRunner` | `MCSecureRunner` | `RunnerIsArmed` (types, and every installation can be found by a post hook), `CleanPostLeavesNothing`, `NoServiceWithRevokedToken`, `InstallationsAreKept` | two invocations on one machine |
| `SecureRunnerSlow` | `MCSecureRunner` | finding, below | one invocation |
| `ChangesetsRelease` | `MCChangesetsRelease` | `ReleaseTypeOK` (types, and the concurrency group), `DependenciesFirst`, `TagsAreRight` (what is tagged npm was given, what a finished run planned is tagged), `InterruptedIsResumed` | two pushes, two packages, one ambiguous name, unbounded failures and reruns |
| `ChangesetsReleaseStaged` | `MCChangesetsRelease` | finding, below | two pushes, no reruns |
| `ChangesetsReleaseOutput` | `MCChangesetsRelease` | finding, below | two pushes |
| `Actions` | `MCActions` | `ActionsTypeOK`; `BudgetsHold`, `RequestsCountOnce`, `RevokedIsDead`, `AssertionsAreCurrent` (exchanges, broker, caches); `SyncedIsInLine`; `AuditIsReported`; `GatesHold`; `UpdatesAreKept`; liveness `ActionsEnd` | below |
| `SkillSyncMoved` | `SkillSync` | finding, below | two names, two plugins |

Why the bounds are enough.

- *Lease*: every race needs at most the current token, one in flight, one
  replayed and one collected; the ticks allow a lease to be renewed, to expire
  and a late answer to arrive after either.
- *Planner*: three crates give every shape of cycle, with hard edges, with
  dev-dependencies and mixed; the theorems of section 5 cover larger ones.
- *cargo-publish*: the budget is one tick, the token's life three; a delay or a
  wait of one tick that ends one tick late just fits, which is the arithmetic
  the constants of the code have (25 and 30 minutes).  Recording the time late
  and waking late shift a start in the same way, so only the second is given a
  tick (`Lag` is 0).  `MaxMint` bounds when a token is minted, `MaxTime` the
  clock.  The four workspaces are a chain, a
  dev-dependency cycle through it, a lone dev-dependency and a cycle that no
  order resolves.
- *secure-runner*: two invocations nest or follow one another, which is all an
  installation can distinguish (its owner or another one).  Hosted runners
  differ only in discarding the machine.
- *changesets-release*: two pushes overlap in every pair of jobs.  Only that a
  third push replaces a waiting job of the concurrency group does not happen
  with them; `ReleaseIsTyped` and the other theorems cover it, for any number
  of pushes.  `MCAmbiguous` has a fixture reuse the name of package 2 at the
  first push and not at the second, so one package is ambiguous and one is not.
- *exchanges* (`RETRY_BUDGET` to `Clients` in `Actions.cfg`): the budget of 7
  holds a full sequence of three attempts with its backoffs and some of a
  second one, so each loop ends in each of its ways: by its attempts, by a wait
  that does not fit, and by a request that takes the rest.  A service asks for
  no delay, one that fits, and one that does not.  `SLOW_ANSWER` of 10 is more
  than the budget and more than the longest revocation of the others, so that
  one slow answer tells GitHub's post hook from theirs.
- *broker*: the poll window of 5 is no multiple of the interval of 2, so the
  last wait is cut; the retry total of 4 holds two waits; a connection time and
  a response time lie on either side of both.  Two run attempts show two keys.
- *skill-sync*: two names and two plugins move, swap and share destinations;
  two edits put a change before and after an interrupted run.  `Template` has
  both placeholders in `Actions` and only `{plugin}` in `SkillSyncMoved`.
- *pr-audit*: two tokens show every option override another or its default.
  The head moves once, which is enough to differ from the one that was seen.
- *required checks*: two workflow files, jobs of two steps, every kind of step;
  three paths with renames, and up to three changes at a listing limit of two.
  One gated job: the gate judges each need on its own.
- *OIDC caches*: three requests are an old, a fresh and a newer one; five ticks
  let an assertion come near its end, be refused and be renewed.
- *create-pull-request*: two runs one after the other or at the same time, with
  equal or different trees, and one merge or close.
- *dependency-update*: two runs of the coordinator with one CI repair each and
  three moves of maintainers, so a close, a reopening and a push.

Deadlock is not checked: jobs end, the bounded clock stops, and a model in
which every actor is done has no further step.

### Fairness

- `FairHook` (`TokenServer`): once the post hook has started, it keeps going.
  Every wait of it is bounded (one second for the provider, the retry budget of
  each revocation).  Nothing is assumed of the provider or the STS.
- `FairSpec` (`PublishPlan`): the loop is synchronous code.
- `FairSpec` (`SecureRunner`): the branches of setup and post have deadlines on
  every request, subprocess and retry.

- `WF(TimedWork)` (`Actions`): a program goes on while its machine runs it, where
  what it waits for has a limit.  The `http.cjs` of the STS clients and of the
  broker and the OIDC requests set a timeout, so a step that waits for their
  answer is a step of the program.  These calls have none, and no fairness
  is assumed of them (`Untimed`): the revocations of `github-sts/post.js`
  (`request`, lines 5-14; its `retry` has no deadline), the same function called
  by `skill-sync`, the API calls and `curl` of `pr-audit-comment`, and the
  compare calls of `changed-paths`.  The update is the exception that has a
  limit from outside: `timeout-minutes` of its job stops it, which is
  `StopUpdate`.  That GitHub ends any job after six hours is not assumed: the
  property is about what this code does.  Nothing is assumed of `ActionsWorld`.
  `ActionsEnd` says accordingly that every action ends again after each rerun
  and edit, or that nothing happens any more because it waits for an answer
  that has no timeout; it never goes round in a loop.  That reruns and edits
  are finitely many is their bound.

### Findings

- `PublishPlanRejected`: `publish.cjs:168` says that the edges of a published
  crate cost nothing; line 165 still lets a published crate's hard edges decide
  where a cycle may be broken, so a dev-dependency of an unpublished crate may
  be dropped and the upload be rejected where another order would have kept it.
- `SecureRunnerSlow`: a provider that does not report its URL within ten
  seconds is neither killed nor detached (`token-provider.cjs:34`), so the
  setup step waits for it as long as it lives, although `main.cjs:210` and the
  README promise that the job continues without a firewall.
- `ChangesetsReleaseOutput`: a version whose upload npm accepted without its
  answer arriving is found "already published" by the retry and left out of
  `published`, which `action.yml:54` calls the versions this run uploaded.  It
  is still released and tagged.
- `ChangesetsReleaseStaged`: `publish.cjs:380`, `README.md:40` of the action and
  `changesets-release.yml:408` say that what is released and tagged was
  confirmed on npm.  A planned version that an owner has staged is refused as
  "previously staged", taken as released (`publish.cjs:433-435`; `README.md:19`
  says that staged counts as done) and tagged while npm does not serve it.
- `SkillSyncMoved`: with a `dest` template without `{name}`, a skill that is
  renamed inside its plugin keeps its destination.  `sync` writes the new tree
  there and afterwards removes the old name's (`main.js:168`), which is the same
  directory; the run ends well with a lock that names a tree that is gone.
  `{plugin}/{name}` has no such clash, and `SyncedIsInLine` holds for it.  The
  next run repairs the copy.

Smaller observations:

- Secure Runner's own OIDC client retries within a budget of its own, outside
  that of the Socket and Step Security exchanges that call it, while
  `step-security-sts/http.cjs:5-8` speaks of one budget for both.  `InBudget`
  is about the standalone actions.
- `github-sts/main.js:190-192` says that an ambiguous failure is repeated with
  its assertion, whose token the STS replays.  A 429 after such a failure
  renews the assertion, so a second token may be made; `CredentialsBounded`
  allows one more for each such 429.
- In `skill-sync`, a change of nothing but a skill's plugin, with a template of
  `{name}` only, leaves the lock's plugin as it was; `SyncedIsInLine` excepts
  that field.
- In `create-pull-request`, a pull request that another run opens between the
  listing and the reset is closed by the reset.  `PullRequestKept` says that a
  run never closes one that was open when it looked, and that an undisturbed
  run leaves one open.
- In `dependency-update`, a pull request that a maintainer reopens between the
  listing and `ls-remote` is treated as closed, and its branch started over.
  The lease then protects only what was not on the branch when the coordinator
  looked, as `PushesAreKept` says.
- A private audit with an argument that is refused is answered publicly, with
  the usage.
- A request of `github-sts/post.js` that is never answered holds the post hook,
  and the job with it, until GitHub stops it.  The main hook's requests have a
  timeout.  `InBudget` excepts this hook and `ActionsEnd` says so.

One about `cargo-publish`: after a rate-limit wait `publish.cjs:374` starts the next
upload without looking at the clock again.  A timer that fires late can start
it past the budget of 25 minutes, never past the token's life
(`StartsWithLiveToken` allows for it).

## 5. Proofs

TLAPS checks 42 theorems for all values of the constants that satisfy the named
assumptions of the modules: every invariant and every action property of the
passing runs, and the refinement.  `PROJECT.json` lists them with the property
each one states.  Each proof has the same shape: an inductive invariant, a
lemma per action (or group of actions) that keeps it, and a last step that
draws the property from it.  The properties are seldom inductive as the runs
check them; what follows says what had to be added, which is mostly the
relation between what a program remembers and what is true elsewhere.

### Assumptions

| Assumption | What it says beyond types | Why the code justifies it |
|---|---|---|
| `LeaseConstants`, `CollectedCoversRenewals` | times are positive; one less than the tokens that the hook accepts, times the retry time, covers `RenewBefore` | `socket-lease.cjs:5-6` (30 s, 5 min) and `token-provider.cjs:89` (16 tokens): 15 times 30 s is more than 5 min |
| `PlanConstants`, `PublishConstants` | crates are positive integers, compared as the code compares names; no crate depends on itself; finitely many | `publish.cjs:93` leaves self-dependencies out |
| `PublishConstants` | `Lag + Overrun < Lifetime - Budget` | 25 of 30 minutes; recording the time late and waking late together take less than the other five |
| `ReleaseConstants` | packages are positive integers, finitely many, versions above 0; any names may be ambiguous at any push | as for crates; version 0 stands for what was there before |
| `StsConstants` and those of the clients | a request times out within the retry budget; counts, delays and `SLOW_ANSWER` are natural numbers | 10 s and 90 s in the `http.cjs` of the actions |
| `OidcConstants` | an assertion lives as long as the provider's retry time, which is not 0 | minutes against 60 s |
| `BrokerConstants` | a poll interval and a poll window of more than 0 | 10 s and 11 min in `retry.cjs` |
| `EnsureConstants` | the steps of a job are a sequence, and a job that calls a workflow has none | GitHub's parser accepts no other workflow |
| `SyncConstants`, `ClientsAssumption` | there is a content, and a client | every source holds something; a job runs one of the clients |

One theorem has a hypothesis of its own: `SyncsLeaveAllInLine` needs `"name"` in
`Template`.  Without it the property is false, which is the finding
`SkillSyncMoved`.

### SocketLease_proofs

`LeaseCore` adds to the properties what ties the code's map to the STS: the
map's expiry is the STS's and the current token ends last (`MapAgrees`); an
answer in flight is a minted token and a discarded one was never accepted and is
of no use while the lease is open (`InflightAgrees`); so is everything revoked
before closing (`RevokedAreUseless`), which is why a later replay of it cannot
be adopted; and `close()` collected what is unexpired (`ClosedCollected`).
`LeaseInv` is that and `AcceptedNotRevoked`; they are apart because `LeaseCore`
also holds behind a server whose hook has given up, and `AcceptedNotRevoked`
does not.

`FewUnexpired` is a count.  A renewal starts only when it is due and the back-off
is over, so every token accepted after some token t costs `RetryAfter` of the
time that has passed since t was due for renewal.  `RenewalsAreSpaced` states
that as a bound on the number of tokens that outlast t; the unexpired token that
ends first then bounds them all (`SpacedAreFew`).

### TokenServer_proofs

`ServerInv` joins `LeaseCore` and `RenewalsAreSpaced` with what the hook knows:
what it collected is what the lease returned and fits in an answer
(`CollectedFits`, from the count above), the saved token is in the map until it
expires (`FirstIsKnown`), what the hook has to revoke is that token or was
collected (`HookAgrees`), and of what is collected and live a hook that did not
give up skips nothing (`NoneIsSkipped`).  `ServerInvariant`,
`CleanupIsComplete` and `AnswersStayUsable` follow.

`LifecycleImplemented` is the refinement, `ServerSpec => ImplementsLifecycle`,
under the mapping `Stage`.  It has a lemma per kind of change of a stage: a
token minted, adopted, abandoned, revoked, expired with the clock, collected,
or given up by the hook.  Each shows that only the tokens it names change
stage, and that they change as `CredentialLifecycle` allows.

### PublishOrder_proofs and PublishPlan_proofs

`PublishOrder_proofs` has the lemmas about lists and batches.  `sort()` of a
finite set of names is the one list that has every name once and in order
(`SortedExists`, `SortedFacts`, `SortedIsUnique`); `filter()` keeps order
(`KeptFacts`); the loop of Kahn's algorithm is a total function of what is not
placed yet (`ListsExist`), and its list has every name once, each where a pass
placed it from a set with all that comes later (`RoundsPlace`).  These two
need induction; it is done by a least counterexample, a number for the one and
a set of names for the other (`LeastSet`, `SetInduction`).  Of one choice of the planner: in a component
that no edge leaves every dependency leads back (`SinkIsConnected`); a candidate
has no hard edge left (`CandidateEdges`); and where the edges that uploads need
can all be kept, the cheapest candidate drops none (`CheapestIsFree`).

`PlanInv` says what a pass knows of the crates it has yet to place
(`PassKeepsEdges`) and that the order so far, the rest of the pass by name, and
the closed form of what the loop has not reached make `PlanOf` (`PlanIsAhead`),
which is why the loop and the closed form agree (`PlannerIsSound`).  From it too:
`HardEdgesAlwaysHold`, `DropsOnlyOnCycles`, `GreedyIsEnough`.

### CargoPublish_proofs

`PublishInv` has five parts for each run.  `AtHandIsPlanned`: the crate at hand
is one of the plan.  `TimesAreKept`: how late a run can be, by the recorded time
and by every wake-up.  `PlanIsKept`: every crate was on crates.io or is in the
plan, behind all that its upload needs, and what was passed in the plan is
there.  `AnswerIsTrue`: what the answer at hand says of the crate at hand.
`ClaimsFollowUploads`: a run has claimed what it uploaded, but for an upload
whose answer is at hand or never came.  The five properties of the run are theorems; the ones about rejection
rest on `PublishOrder_proofs` (`PlanFacts`), since they hold only because the
planner keeps the edges that an upload needs.

### SecureRunner_proofs

`RunnerInv` says that hooks take turns (`HooksTakeTurns`: one runs at a time, its
branches are over when it is, and an invocation that has not started holds
nothing), that whatever is installed has an owner that armed its cleanup
before installing, and that nothing of it is left once that owner has retired it
without recording a failure (`InstallationIsKnown`), and where the lease, the
token, the provider and the renewed tokens are known while they are in force:
saved, in the hands of setup, dropped by a kill, or warned about
(`CredentialsAreKnown`).  The last is what makes
`CleanPostLeavesNothing` provable: a hook that ends without a warning has been
through all of these places.

### ChangesetsRelease_proofs

`ReleaseInv` relates a run's phase to the jobs and the concurrency group
(`PhaseFitsJob`), its plan to what npm had when it was packed (`PlanIsKept`),
what the publish loop has passed to what its job reports and to npm
(`PassedIsReleased`, which also has the resumable packages as exactly those that
pack found, less the ambiguous and the missed ones), and says that what the
release job has to tag has a tag or a row that is left (`RowsAreLeft`).
Overlapping runs and owners disturb these parts only by adding versions and
tags, which each of them survives: the proofs go by what npm was given
(`Given`), which only grows.

### Actions_proofs

`OneActionSteps` splits a step of a job into a step of one action, so each action
has its own invariant and its own proof.

- *STS clients*: where the loop that a hook is in has a deadline, `BudgetInv`
  bounds the clock by `LastDeadline`, the end of the last loop that it can still
  enter.  The revocations of Socket and Step Security have none: there
  `AttemptsTakeTheirTime` bounds the clock by what the attempts so far took, each
  its timeout and a wait of its power of two and a quarter of that
  (`AttemptTakesItsTime`; powers of two are counted as sets of subsets, so that
  `PowerDoubles` needs no induction), which sums up to `LongestRevocation`.  Of
  GitHub's post hook it bounds nothing; `MintInv` counts the credentials
  that each client can have caused against the assertions it has used up
  (`SocketMints`, `StepMints`, `GithubMints`; at Socket a creation that is pending
  can still end after its assertion was replaced); `RevocationInv` says that the
  reconciliation follows only a revocation that GitHub confirmed; `AssertionInv`
  that what a client knows of its assertion decides whether it is sent or
  replaced.  The lemmas about
  `retry()`, `Pace` and the rate limit waits show that whatever delay a service
  asks for, a step ends before the deadline of its loop or leaves it.
- *deploy broker*: `WaitsAreTimed` says that the waits between polls are part of
  the time since the first of them, which the poll timeout bounds;
  `KeysAreSpent` counts operations against run attempts.
- *OIDC caches*: the entry is the newest request's (`EntryIsNewest`), and the
  provider waits no longer than what it has lasts, unless an acquisition failed
  (`RetryIsCovered`).  `AssertionsAreCurrent` is a theorem about steps, of the
  clients by `AssertionInv` and of the caches by these two.
- *branches*: a head stands for one state of the branch, so a lease that holds
  says what the branch holds (`LeaseIsExact`), and the commit of a run that
  continues a branch holds what the run saw on it (`SeenIsHeld`).  `RunIsInStep`
  is what a run of `create-pull-request` knows that nobody has disturbed;
  whoever emptied a branch under a pull request had seen that there was none
  (`EmptiedUnseen`).
- *required checks*: a file that was checked has left a finding for every job
  in it (`FileIsFound`); a filter that matches something is reported whatever
  was listed (`HitsAreComplete`), a job that is hit is not skipped
  (`ResultsFollow`), and the gate has seen every result (`GateHasSeen`).
- *skill-sync*: what a run has looked at is in line, what it has yet to look at
  is in the new lock as it is in the old one (`RunIsHalfway`), and the lock file
  that it then writes has both properties for all selected skills
  (`RunIsLocked`).  Nothing has to be assumed of what earlier runs left but its
  types (`RepositoryIsKept`).
- *pr-audit*: the options are what the tokens parsed so far ask for
  (`ParsedIsAsked`), only a trusted command without an error is acted upon
  (`AskedIsValid`), and if the handler has no status comment that it knows of,
  something went wrong (`CommentIsKnown`).

`StateIsTyped` joins them: the types of all nine actions rest on the invariants
(the clock is a natural number because no wait goes past its deadline).

### Only model-checked

- Liveness: `SurrenderedEnds`, `PlanningEnds`, `ActionsEnd`.  TLAPS proves
  neither fairness arguments nor ENABLED.
- The runs that show a finding, which are counterexamples.
- Nothing ties `Sinks` of `PublishOrder`, which states the code's Tarjan search by
  what it computes, to the steps of that search: it is taken as the definition
  by the runs and the proofs alike.

## 6. Not modelled

Parsing, formatting, glob matching, tarball and digest checks, containers and
the wrapped tools.  `PROJECT.json` names the reason for each component.  Of the
code with logic of its own these are left out:

- the `version` and `version-pr` jobs of `changesets-release`, which compute a
  change and call `create-pull-request`;
- the probe of `pr-audit.yml`, which depends on how GitHub computes whether a
  pull request is mergeable and in which order it delivers events;
- the containers of `codex-repair` and the checks of what an update may change;
- `aegis/download.cjs` and `aegis-release.cjs`, which download, verify and
  unpack files: `SecureRunner` takes them as one step that succeeds or fails.
