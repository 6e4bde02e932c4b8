---------------------------- MODULE SecureRunner ----------------------------
(***************************************************************************)
(* Setup and cleanup of the secure-runner action (actions/secure-runner),  *)
(* with the Harden Runner branch (actions/harden-runner), the Aegis        *)
(* installation (actions/aegis, actions/aegis-report) and the credentials  *)
(* that both hold.                                                         *)
(*                                                                         *)
(* Invocations of the action share one Linux machine: several in one job,  *)
(* or jobs one after another.  The runner executes one hook at a time and  *)
(* post hooks in the reverse order of their setups; inside a hook the      *)
(* branches interleave.  An invocation's saved state is the set of keys    *)
(* that it appended to GITHUB_STATE.                                       *)
(***************************************************************************)
EXTENDS Naturals, Sequences, FiniteSets

CONSTANTS
  Invocations,  \* uses of the action on the machine
  Nobody,       \* no invocation
  Hosted        \* RUNNER_ENVIRONMENT is github-hosted

ASSUME RunnerConstants ==
  /\ Nobody \notin Invocations
  /\ Hosted \in BOOLEAN

VARIABLES
  pending,     \* invocations whose post hook is due, the last one first
  setup,       \* per invocation: "new", "running", "ended"
  harden,      \* the Harden Runner branch of setup
  socket,      \* the Socket exchange branch of Aegis's setup
  download,    \* the release download branch of Aegis's setup
  install,     \* what follows when both branches succeeded
  saved,       \* keys in the invocation's state
  lease,       \* at the StepSecurity STS: "none", "live", "revoked"
  token,       \* at the Socket STS: the token that setup exchanged
  renewed,     \* at the Socket STS: the tokens the provider obtained
  provider,    \* the detached process: "none", "starting", "alive", "gone"
  machine,     \* the Aegis installation: its state and its owner
  post,        \* per invocation: "due", "running", "ended", "lost"
  retiring, collecting, revoking, flushing, \* branches of post
  failed,      \* post hooks that recorded an error
  warned,      \* post hooks that warned about a credential left to expire
  dropped      \* observation: credentials a kill took before they were saved

setupVars == <<setup, harden, socket, download, install>>
postVars == <<post, retiring, collecting, revoking, flushing,
              failed, warned>>
credentials == <<lease, token, renewed>>
vars == <<pending, setupVars, saved, credentials, provider, machine, postVars,
          dropped>>

Keys == {"lease", "inline_policy", "socket", "provider", "action", "identity"}
Credential == {"none", "live", "revoked"}
NotInstalled == [state |-> "none", owner |-> Nobody]

RunnerTypeOK ==
  /\ pending \in Seq(Invocations)
  /\ setup \in [Invocations -> {"new", "running", "ended"}]
  /\ harden \in [Invocations -> {"todo", "minted", "ended"}]
  /\ socket \in [Invocations -> {"todo", "minted", "saved", "failed"}]
  /\ download \in [Invocations -> {"todo", "verified", "failed"}]
  /\ install \in [Invocations -> {"waiting", "starting", "config", "armed", "ended"}]
  /\ saved \in [Invocations -> SUBSET Keys]
  /\ lease \in [Invocations -> Credential]
  /\ token \in [Invocations -> Credential]
  /\ renewed \in [Invocations -> Credential]
  /\ provider \in [Invocations -> {"none", "starting", "alive", "gone"}]
  /\ machine \in [state : {"none", "complete", "partial"},
                  owner : Invocations \cup {Nobody}]
  /\ machine.state = "none" <=> machine.owner = Nobody
  /\ post \in [Invocations -> {"due", "running", "ended", "lost"}]
  /\ \A branch \in {retiring, collecting, revoking, flushing} :
       branch \in [Invocations -> {"todo", "ended"}]
  /\ failed \in SUBSET Invocations
  /\ warned \in SUBSET Invocations
  /\ dropped \in [Invocations -> SUBSET {"lease", "socket", "provider"}]

ForAll(v) == [i \in Invocations |-> v]

Init ==
  /\ pending = <<>>
  /\ setup = ForAll("new") /\ harden = ForAll("todo")
  /\ socket = ForAll("todo") /\ download = ForAll("todo")
  /\ install = ForAll("waiting") /\ saved = ForAll({})
  /\ lease = ForAll("none") /\ token = ForAll("none")
  /\ renewed = ForAll("none") /\ provider = ForAll("none")
  /\ machine = NotInstalled
  /\ post = ForAll("due")
  /\ retiring = ForAll("todo") /\ collecting = ForAll("todo")
  /\ revoking = ForAll("todo") /\ flushing = ForAll("todo")
  /\ failed = {} /\ warned = {} /\ dropped = ForAll({})

\* The runner executes one hook at a time.
Idle == \A i \in Invocations : setup[i] # "running" /\ post[i] # "running"

-----------------------------------------------------------------------------
(* Setup: the two branches of main().                                      *)

StartSetup(i) ==
  /\ Idle /\ setup[i] = "new"
  /\ setup' = [setup EXCEPT ![i] = "running"]
  /\ pending' = <<i>> \o pending
  /\ UNCHANGED <<harden, socket, download, install, saved, credentials,
                 provider, machine, postVars, dropped>>

\* pre.cjs obtains the StepSecurity lease, or falls back to the inline policy.
HardenExchange(i) ==
  /\ setup[i] = "running" /\ harden[i] = "todo"
  /\ \/ /\ lease' = [lease EXCEPT ![i] = "live"]
        /\ harden' = [harden EXCEPT ![i] = "minted"]
        /\ UNCHANGED saved
     \/ /\ saved' = [saved EXCEPT ![i] = @ \cup {"inline_policy"}]
        /\ harden' = [harden EXCEPT ![i] = "ended"]
        /\ UNCHANGED lease
  /\ UNCHANGED <<pending, setup, socket, download, install, token, renewed,
                 provider, machine, postVars, dropped>>

\* Its state is saved and the agent started, or a warning says that it was not.
HardenSave(i) ==
  /\ setup[i] = "running" /\ harden[i] = "minted"
  /\ saved' = [saved EXCEPT ![i] = @ \cup {"lease"}]
  /\ harden' = [harden EXCEPT ![i] = "ended"]
  /\ UNCHANGED <<pending, setup, socket, download, install, credentials,
                 provider, machine, postVars, dropped>>

\* The Socket exchange; its answer still has to be saved.
SocketExchange(i) ==
  /\ setup[i] = "running" /\ socket[i] = "todo"
  /\ \/ /\ token' = [token EXCEPT ![i] = "live"]
        /\ socket' = [socket EXCEPT ![i] = "minted"]
     \/ /\ socket' = [socket EXCEPT ![i] = "failed"]
        /\ UNCHANGED token
  /\ UNCHANGED <<pending, setup, harden, download, install, saved, lease,
                 renewed, provider, machine, postVars, dropped>>

SocketSave(i) ==
  /\ setup[i] = "running" /\ socket[i] = "minted"
  /\ saved' = [saved EXCEPT ![i] = @ \cup {"socket"}]
  /\ socket' = [socket EXCEPT ![i] = "saved"]
  /\ UNCHANGED <<pending, setup, harden, download, install, credentials,
                 provider, machine, postVars, dropped>>

\* The GitHub CLI is installed if need be; the release is downloaded and
\* verified.
Download(i) ==
  /\ setup[i] = "running" /\ download[i] = "todo"
  /\ \E outcome \in {"verified", "failed"} :
       download' = [download EXCEPT ![i] = outcome]
  /\ UNCHANGED <<pending, setup, harden, socket, install, saved, credentials,
                 provider, machine, postVars, dropped>>

-----------------------------------------------------------------------------
(* Setup: what follows once both branches of Aegis are drained.            *)

\* Mutant: the first failure ends Aegis's setup.
DrainedOrFailed(i) ==
  \/ socket[i] = "failed" \/ download[i] = "failed"
  \/ socket[i] = "saved" /\ download[i] = "verified"
\* Both branches are over.
Drained(i) == socket[i] \in {"saved", "failed"} /\ download[i] # "todo"

\* A branch failed, or there is no assertion for the provider to start with.
GiveUp(i) ==
  /\ setup[i] = "running" /\ install[i] = "waiting"
  /\ Drained(i)
  /\ install' = [install EXCEPT ![i] = "ended"]
  /\ UNCHANGED <<pending, setup, harden, socket, download, saved, credentials,
                 provider, machine, postVars, dropped>>

\* startProvider forks the detached process and hands it the token.
StartProvider(i) ==
  /\ setup[i] = "running" /\ install[i] = "waiting"
  /\ socket[i] = "saved" /\ download[i] = "verified"
  /\ install' = [install EXCEPT ![i] = "starting"]
  /\ provider' = [provider EXCEPT ![i] = "starting"]
  /\ UNCHANGED <<pending, setup, harden, socket, download, saved, credentials,
                 machine, postVars, dropped>>

\* The provider reports its URL in time; the configuration is written, or the
\* process is killed again.
ProviderReady(i) ==
  /\ setup[i] = "running" /\ install[i] = "starting"
  /\ provider[i] = "starting"
  /\ saved' = [saved EXCEPT ![i] = @ \cup {"provider"}]
  /\ \/ /\ provider' = [provider EXCEPT ![i] = "alive"]
        /\ install' = [install EXCEPT ![i] = "config"]
     \/ /\ provider' = [provider EXCEPT ![i] = "gone"]
        /\ install' = [install EXCEPT ![i] = "ended"]
  /\ UNCHANGED <<pending, setup, harden, socket, download, credentials,
                 machine, postVars, dropped>>

\* Ten seconds pass first: setup goes on without Aegis.  Nothing kills the
\* process, which may still start to listen.
ProviderSlow(i) ==
  /\ setup[i] = "running" /\ install[i] = "starting"
  /\ install' = [install EXCEPT ![i] = "ended"]
  /\ UNCHANGED <<pending, setup, harden, socket, download, saved, credentials,
                 provider, machine, postVars, dropped>>

ProviderListensLate(i) ==
  /\ install[i] # "starting" /\ provider[i] = "starting"
  /\ provider' = [provider EXCEPT ![i] = "alive"]
  /\ UNCHANGED <<pending, setupVars, saved, credentials, machine, postVars,
                 dropped>>

\* Mutant: any installation is taken for one's own.
RetirementsOfAny(expected) ==
  {[ok |-> FALSE, machine |-> machine]} \cup
  CASE machine.state = "none" -> {[ok |-> TRUE, machine |-> machine]}
    [] machine.state = "partial" -> {}
    [] OTHER -> {[ok |-> TRUE, machine |-> NotInstalled]}
\* retire(): how it can end, for the installation of expected, or for any
\* installation when that is Nobody.
Retirements(expected) ==
  {[ok |-> FALSE, machine |-> machine]} \cup
  CASE machine.state = "none" -> {[ok |-> TRUE, machine |-> machine]}
    [] machine.state = "partial" -> {}
    [] machine.state = "complete" /\ expected \notin {Nobody, machine.owner} -> {}
    [] OTHER -> {[ok |-> TRUE, machine |-> NotInstalled],
                 [ok |-> FALSE, machine |-> [machine EXCEPT !.state = "partial"]]}

\* Mutant: the identity is left to be saved after the installation.
ArmedLater(i, ok) == {"action"}
\* The keys that the lifecycle stage saves.
Armed(i, ok) == IF ok THEN {"action", "identity"} ELSE {"action"}

\* The installation an earlier invocation left is retired, then cleanup of
\* this one is armed.
RetireIncumbent(i) ==
  /\ setup[i] = "running" /\ install[i] = "config"
  /\ \E r \in Retirements(Nobody) :
       /\ machine' = r.machine
       /\ saved' = [saved EXCEPT ![i] = @ \cup Armed(i, r.ok)]
       /\ install' = [install EXCEPT ![i] = IF r.ok THEN "armed" ELSE "ended"]
  /\ UNCHANGED <<pending, setup, harden, socket, download, credentials,
                 provider, postVars, dropped>>

\* aegis install succeeds, or fails and leaves nothing or half of it.
Install(i) ==
  /\ setup[i] = "running" /\ install[i] = "armed"
  /\ \E state \in {"none", "partial", "complete"} :
       machine' = IF state = "none" THEN machine
                  ELSE [state |-> state, owner |-> i]
  /\ install' = [install EXCEPT ![i] = "ended"]
  /\ UNCHANGED <<pending, setup, harden, socket, download, saved, credentials,
                 provider, postVars, dropped>>

\* The setup process ends, with the state of its branches.
SetupGone(i) ==
  /\ setup' = [setup EXCEPT ![i] = "ended"]
  /\ harden' = [harden EXCEPT ![i] = "todo"]
  /\ socket' = [socket EXCEPT ![i] = "todo"]
  /\ download' = [download EXCEPT ![i] = "todo"]
  /\ install' = [install EXCEPT ![i] = "waiting"]

\* Node does not exit while the channel to a provider that never reported
\* its URL is open.
ChannelOpen(i) ==
  provider[i] \in {"starting", "alive"} /\ "provider" \notin saved[i]

EndSetup(i) ==
  /\ setup[i] = "running"
  /\ harden[i] = "ended" /\ install[i] = "ended"
  /\ ~ChannelOpen(i)
  /\ SetupGone(i)
  /\ UNCHANGED <<pending, saved, credentials, provider, machine, postVars,
                 dropped>>

\* The job is cancelled during setup; its post hook still runs.  Answers that
\* were not saved are lost with the process.
KillSetup(i) ==
  /\ setup[i] = "running"
  /\ SetupGone(i)
  /\ dropped' = [dropped EXCEPT ![i] = @
       \cup {c \in {"lease"} : harden[i] = "minted"}
       \cup {c \in {"socket"} : socket[i] = "minted"}
       \cup {c \in {"provider"} : ChannelOpen(i)}]
  /\ UNCHANGED <<pending, saved, credentials, provider, machine, postVars>>

-----------------------------------------------------------------------------
(* The provider renews while it lives, and may die.                        *)

ProviderRenews(i) ==
  /\ provider[i] = "alive" /\ renewed[i] # "live"
  /\ renewed' = [renewed EXCEPT ![i] = "live"]
  /\ UNCHANGED <<pending, setupVars, saved, lease, token, provider, machine,
                 postVars, dropped>>

\* Whoever loses the process loses what only it knew.
ProviderDies(i) ==
  /\ provider[i] \in {"starting", "alive"}
  /\ provider' = [provider EXCEPT ![i] = "gone"]
  /\ dropped' = [dropped EXCEPT ![i] = @ \cup {c \in {"provider"} : renewed[i] = "live"}]
  /\ UNCHANGED <<pending, setupVars, saved, credentials, machine, postVars>>

-----------------------------------------------------------------------------
(* The post hook.  An invocation's failure to clean up is recorded and     *)
(* does not stop the other branches.                                       *)

StartPost(i) ==
  /\ Idle /\ pending # <<>> /\ Head(pending) = i /\ setup[i] = "ended"
  /\ post' = [post EXCEPT ![i] = "running"]
  /\ pending' = Tail(pending)
  /\ UNCHANGED <<setupVars, saved, credentials, provider, machine, retiring,
                 collecting, revoking, flushing, failed, warned, dropped>>

Ends(branch, i) == branch[i] = "todo" /\ branch' = [branch EXCEPT ![i] = "ended"]

\* cleanup(): nothing without an identity, a bounded request on a hosted
\* runner, the checked retirement elsewhere.
RetireAegis(i) ==
  /\ post[i] = "running"
  /\ Ends(retiring, i)
  /\ IF "identity" \notin saved[i] \/ Hosted
       THEN UNCHANGED <<machine, failed>>
       ELSE \E r \in Retirements(i) :
              /\ machine' = r.machine
              /\ failed' = IF r.ok THEN failed ELSE failed \cup {i}
  /\ UNCHANGED <<pending, setupVars, saved, credentials, provider, post,
                 collecting, revoking, flushing, warned, dropped>>

\* retireProvider alongside: the provider hands over its tokens and ends, or
\* cannot be reached within a second.
Collect(i) ==
  /\ post[i] = "running"
  /\ Ends(collecting, i)
  /\ IF "provider" \notin saved[i]
       THEN UNCHANGED <<provider, warned>>
       ELSE \/ /\ provider[i] = "alive"
               /\ provider' = [provider EXCEPT ![i] = "gone"]
               /\ UNCHANGED warned
            \/ /\ warned' = warned \cup {i}
               /\ UNCHANGED provider
  /\ UNCHANGED <<pending, setupVars, saved, credentials, machine, post,
                 retiring, revoking, flushing, failed, dropped>>

\* Mutant: revocation does not wait for Aegis.
TokensDueAtOnce(i) == collecting[i] = "ended"
\* Tokens are revoked when Aegis no longer needs them and all are known.
TokensDue(i) == retiring[i] = "ended" /\ collecting[i] = "ended"

Revoked(credential, i) ==
  IF credential[i] = "live" THEN [credential EXCEPT ![i] = "revoked"] ELSE credential

\* The initial token and the collected ones; an STS that does not answer is
\* a warning.
RevokeTokens(i) ==
  /\ post[i] = "running" /\ TokensDue(i)
  /\ Ends(revoking, i)
  /\ \/ /\ token' = IF "socket" \in saved[i] THEN Revoked(token, i) ELSE token
        /\ renewed' = IF "provider" \in saved[i] /\ i \notin warned
                        THEN Revoked(renewed, i) ELSE renewed
        /\ UNCHANGED warned
     \/ /\ "socket" \in saved[i] \/ "provider" \in saved[i]
        /\ warned' = warned \cup {i}
        /\ UNCHANGED <<token, renewed>>
  /\ UNCHANGED <<pending, setupVars, saved, lease, provider, machine, post,
                 retiring, collecting, flushing, failed, dropped>>

\* Telemetry is flushed with the lease's key, and the lease revoked whether
\* or not that failed.
FlushAndRevokeLease(i) ==
  /\ post[i] = "running" /\ retiring[i] = "ended"
  /\ Ends(flushing, i)
  /\ \E flushed \in BOOLEAN :
       failed' = IF flushed \/ ~({"lease", "inline_policy"} \cap saved[i] # {})
                   THEN failed ELSE failed \cup {i}
  /\ \/ /\ lease' = IF "lease" \in saved[i] THEN Revoked(lease, i) ELSE lease
        /\ UNCHANGED warned
     \/ /\ "lease" \in saved[i]
        /\ warned' = warned \cup {i}
        /\ UNCHANGED lease
  /\ UNCHANGED <<pending, setupVars, saved, token, renewed, provider, machine,
                 post, retiring, collecting, revoking, dropped>>

\* The post process ends, with the state of its branches.
PostGone(i, outcome) ==
  /\ post' = [post EXCEPT ![i] = outcome]
  /\ retiring' = [retiring EXCEPT ![i] = "todo"]
  /\ collecting' = [collecting EXCEPT ![i] = "todo"]
  /\ revoking' = [revoking EXCEPT ![i] = "todo"]
  /\ flushing' = [flushing EXCEPT ![i] = "todo"]

EndPost(i) ==
  /\ post[i] = "running"
  /\ revoking[i] = "ended" /\ flushing[i] = "ended"
  /\ PostGone(i, "ended")
  /\ UNCHANGED <<pending, setupVars, saved, credentials, provider, machine,
                 failed, warned, dropped>>

\* The runner is lost: what runs ends where it is and no pending post hook
\* runs.  The machine, where it persists, keeps its installation.
LoseRunner ==
  /\ pending # <<>> \/ ~Idle
  /\ IF \E i \in Invocations : setup[i] = "running"
       THEN \E i \in Invocations : setup[i] = "running" /\ SetupGone(i)
       ELSE UNCHANGED setupVars
  /\ IF \E i \in Invocations : post[i] = "running"
       THEN \E i \in Invocations : post[i] = "running" /\ PostGone(i, "lost")
       ELSE UNCHANGED <<post, retiring, collecting, revoking, flushing>>
  /\ pending' = <<>>
  /\ provider' = [i \in Invocations |-> IF provider[i] = "none" THEN "none" ELSE "gone"]
  /\ UNCHANGED <<saved, credentials, machine, failed, warned, dropped>>

SetupStep(i) ==
  \/ HardenExchange(i) \/ HardenSave(i)
  \/ SocketExchange(i) \/ SocketSave(i) \/ Download(i)
  \/ GiveUp(i) \/ StartProvider(i) \/ ProviderReady(i) \/ ProviderSlow(i)
  \/ RetireIncumbent(i) \/ Install(i) \/ EndSetup(i)

PostStep(i) ==
  \/ RetireAegis(i) \/ Collect(i) \/ RevokeTokens(i)
  \/ FlushAndRevokeLease(i) \/ EndPost(i)

Next ==
  \/ \E i \in Invocations :
       \/ StartSetup(i) \/ SetupStep(i) \/ KillSetup(i)
       \/ StartPost(i) \/ PostStep(i)
       \/ ProviderListensLate(i) \/ ProviderRenews(i) \/ ProviderDies(i)
  \/ LoseRunner

Spec == Init /\ [][Next]_vars

\* Every branch waits with a deadline: requests, subprocesses and retries are
\* all bounded.
FairSpec ==
  Spec /\ \A i \in Invocations : WF_vars(SetupStep(i)) /\ WF_vars(PostStep(i))

-----------------------------------------------------------------------------
(* Properties.                                                             *)

\* Setup drains both of its branches and saves what they obtained: a post
\* hook that reports no problem leaves no credential of its invocation in
\* force, unless the process was killed with the credential in its hands.
CleanPostLeavesNothing ==
  \A i \in Invocations :
    post[i] = "ended" /\ i \notin failed \cup warned =>
      /\ lease[i] = "live" => "lease" \in dropped[i]
      /\ token[i] = "live" => "socket" \in dropped[i]
      /\ renewed[i] = "live" => "provider" \in dropped[i]

\* Aegis never runs on with a token that its own post hook revoked, unless
\* the hook failed to remove it (or the machine is discarded).
NoServiceWithRevokedToken ==
  \A i \in Invocations :
    machine.state = "complete" /\ machine.owner = i /\ token[i] = "revoked" =>
      Hosted \/ i \in failed

\* An installation, complete or not, belongs to an invocation whose saved
\* identity lets its post hook find it.
InstalledIsArmed ==
  machine.owner # Nobody => {"action", "identity"} \subseteq saved[machine.owner]

\* Recovery state is kept: half of an installation is never removed or
\* replaced, by whatever sequence of setups and post hooks.
PartialIsKept ==
  [][machine.state = "partial" => machine' = machine]_vars

\* A post hook removes only the installation of its own invocation.
OnlyOwnIsRetired ==
  [][\A i \in Invocations :
       post[i] = "running" /\ machine' # machine => machine.owner = i]_vars

\* Every state of the machine and of the hooks is one that cleanup can find.
RunnerIsArmed == RunnerTypeOK /\ InstalledIsArmed

\* No hook touches an installation that is half done or another invocation's.
InstallationsAreKept == PartialIsKept /\ OnlyOwnIsRetired

\* The inductive invariant behind the properties above.
\* The runner executes one hook at a time, each invocation's post hook after
\* its setup.
Busy(i) == setup[i] = "running" \/ post[i] = "running"
OneHookAtATime ==
  /\ \A i, j \in Invocations : Busy(i) /\ Busy(j) => i = j
  /\ \A i \in Invocations : post[i] # "due" => setup[i] = "ended"

\* Branches live and die with the process of their hook.
BranchesEnd ==
  \A i \in Invocations :
    /\ setup[i] # "running" => /\ harden[i] = "todo" /\ socket[i] = "todo"
                               /\ download[i] = "todo" /\ install[i] = "waiting"
    /\ post[i] # "running" => /\ retiring[i] = "todo" /\ collecting[i] = "todo"
                              /\ revoking[i] = "todo" /\ flushing[i] = "todo"
    /\ install[i] # "waiting" => Drained(i)
    /\ revoking[i] = "ended" => TokensDue(i)

\* Installing waits until the machine is clean and cleanup is armed.
InstallIsArmed ==
  \A i \in Invocations : install[i] = "armed" =>
    machine = NotInstalled /\ {"action", "identity"} \subseteq saved[i]

\* An invocation that has its retirement behind it owns no installation, or
\* recorded the failure; only then is its token revoked.
RetiredIsGone ==
  \A i \in Invocations :
    (post[i] = "running" /\ retiring[i] = "ended") \/ token[i] = "revoked" =>
      setup[i] = "ended" /\ (Hosted \/ i \in failed \/ machine.owner # i)

\* The runner was lost before the post hook of i.
NeverCleaned(i) ==
  /\ setup[i] = "ended" /\ post[i] \in {"due", "lost"}
  /\ \A n \in 1 .. Len(pending) : pending[n] # i

\* A credential in force is saved, still in the hands of setup, or dropped;
\* its revocation behind it, it is dropped or warned about.
LeaseIsKnown ==
  \A i \in Invocations : lease[i] = "live" =>
    /\ "lease" \in saved[i] \cup dropped[i] \/ harden[i] = "minted" \/ NeverCleaned(i)
    /\ flushing[i] = "ended" \/ post[i] = "ended" => "lease" \in dropped[i] \/ i \in warned

TokenIsKnown ==
  \A i \in Invocations : token[i] = "live" =>
    /\ "socket" \in saved[i] \cup dropped[i] \/ socket[i] = "minted" \/ NeverCleaned(i)
    /\ revoking[i] = "ended" \/ post[i] = "ended" => "socket" \in dropped[i] \/ i \in warned

\* A provider at work is saved or dropped when setup is over; once collected,
\* a saved one is gone, and only a provider at work renews.
ProviderIsKnown ==
  \A i \in Invocations :
    /\ provider[i] \in {"starting", "alive"} =>
         setup[i] = "running" \/ "provider" \in saved[i] \cup dropped[i]
    /\ collecting[i] = "ended" \/ post[i] = "ended" =>
         "provider" \notin saved[i] \/ i \in warned \/ provider[i] = "gone"
    /\ provider[i] \in {"none", "starting"} => renewed[i] = "none"
    /\ setup[i] = "new" \/ (setup[i] = "running" /\ install[i] = "waiting") =>
         provider[i] = "none"

RenewedIsKnown ==
  \A i \in Invocations : renewed[i] = "live" =>
    /\ \/ "provider" \in dropped[i] \/ i \in warned \/ NeverCleaned(i)
       \/ provider[i] = "alive"
       \/ collecting[i] = "ended" /\ "provider" \in saved[i]
    /\ revoking[i] = "ended" \/ post[i] = "ended" => "provider" \in dropped[i] \/ i \in warned

NewHoldsNothing ==
  \A i \in Invocations : setup[i] = "new" => lease[i] = "none" /\ token[i] = "none"

HooksTakeTurns == OneHookAtATime /\ BranchesEnd /\ NewHoldsNothing
InstallationIsKnown == InstalledIsArmed /\ InstallIsArmed /\ RetiredIsGone
CredentialsAreKnown ==
  LeaseIsKnown /\ TokenIsKnown /\ ProviderIsKnown /\ RenewedIsKnown

RunnerInv ==
  RunnerTypeOK /\ HooksTakeTurns /\ InstallationIsKnown /\ CredentialsAreKnown

\* The README: when the provider stage fails, the action warns and the job
\* continues without a package firewall.
SetupContinues ==
  \A i \in Invocations : setup[i] = "running" ~> setup[i] # "running"
=============================================================================
