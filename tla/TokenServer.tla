----------------------------- MODULE TokenServer -----------------------------
(***************************************************************************)
(* The token provider end to end: the loopback server around the lease     *)
(* (actions/aegis/token-server.cjs), the package scans that ask it for a   *)
(* token, and the Secure Runner post hook that retires it                  *)
(* (token-provider.cjs, secure-runner/post.cjs) and revokes what it gets   *)
(* back together with the token saved in the step's state.                 *)
(***************************************************************************)
EXTENDS SocketLease

CONSTANTS
  Scans,        \* requests of Aegis for a token
  MaxCollected  \* most tokens retireProvider accepts from the provider

\* token-provider.cjs:89 accepts 16 tokens, which is more than FewUnexpired
\* leaves for RENEW_BEFORE_MS = 5 minutes and RETRY_AFTER_MS = 30 seconds.
ASSUME CollectedCoversRenewals ==
  /\ MaxCollected \in Nat \ {0}
  /\ (MaxCollected - 1) * RetryAfter >= RenewBefore

VARIABLES
  scan,     \* each request: "none", "waiting" for getOIDC, or "answered"
  reply,    \* the token in each answer; NoToken for none yet, or HTTP 503
  hook,     \* the post hook: "job", "retiring", "revoking", "done"
  pending,  \* tokens the hook still has to revoke
  gaveUp    \* the hook could not collect the provider's tokens

hookVars == <<hook, pending, gaveUp>>
serverVars == <<scan, reply, hookVars>>
allVars == <<vars, serverVars>>

ServerTypeOK ==
  /\ TypeOK
  /\ scan \in [Scans -> {"none", "waiting", "answered"}]
  /\ reply \in [Scans -> Tokens \cup {NoToken}]
  /\ hook \in {"job", "retiring", "revoking", "done"}
  /\ pending \in SUBSET Tokens
  /\ gaveUp \in BOOLEAN

ServerInit ==
  /\ Init
  /\ scan = [r \in Scans |-> "none"]
  /\ reply = [r \in Scans |-> NoToken]
  /\ hook = "job"
  /\ pending = {}
  /\ gaveUp = FALSE

-----------------------------------------------------------------------------
(* The server.                                                             *)

\* A request arrives and waits for the GitHub assertion; a retired server no
\* longer listens.
Receive(r) ==
  /\ alive /\ ~closed
  /\ scan[r] = "none"
  /\ scan' = [scan EXCEPT ![r] = "waiting"]
  /\ UNCHANGED <<vars, reply, hookVars>>

\* Mutant: the token is taken without asking the lease.
AnswerCurrent(r) == token
\* What the answer carries: the lease's value read after the wait.
AnswerToken(r) == Value

Answer(r) ==
  /\ alive
  /\ scan[r] = "waiting"
  /\ scan' = [scan EXCEPT ![r] = "answered"]
  /\ reply' = [reply EXCEPT ![r] = AnswerToken(r)]
  /\ UNCHANGED <<vars, hookVars>>

\* The retire request: close the lease, answer with its tokens, and stop
\* listening.  It may be served after the hook stopped waiting for it.
Retire ==
  /\ hook # "job"
  /\ Close
  /\ UNCHANGED serverVars

-----------------------------------------------------------------------------
(* The post hook.                                                          *)

PostStarts ==
  /\ hook = "job"
  /\ hook' = "retiring"
  /\ UNCHANGED <<vars, scan, reply, pending, gaveUp>>

Fits(S) == Cardinality(S) <= MaxCollected

\* Mutant: the hook does not wait for the provider's answer.
CollectEarly ==
  /\ hook = "retiring" /\ Fits(collected)
  /\ hook' = "revoking"
  /\ pending' = {First} \cup collected
  /\ UNCHANGED <<vars, scan, reply, gaveUp>>

\* The provider answered: revoke what it held and what setup had saved.
Collect ==
  /\ hook = "retiring" /\ closed /\ Fits(collected)
  /\ hook' = "revoking"
  /\ pending' = {First} \cup collected
  /\ UNCHANGED <<vars, scan, reply, gaveUp>>

\* The request timed out, was refused, or its answer was not acceptable:
\* only the saved token is revoked.
GiveUp ==
  /\ hook = "retiring"
  /\ hook' = "revoking"
  /\ pending' = {First}
  /\ gaveUp' = TRUE
  /\ UNCHANGED <<vars, scan, reply>>

\* Mutant: the hook ends with the first revocation.
RevokeFirstOnly(t) ==
  /\ hook = "revoking" /\ t \in pending
  /\ pending' = pending \ {t}
  /\ hook' = "done"
  /\ revoked' = revoked \cup {t}
  /\ UNCHANGED <<now, leaseVars, inflight, issued, abandoned, scan, reply, gaveUp>>

\* One revocation ends; a failed one is only a warning.
RevokePending(t) ==
  /\ hook = "revoking" /\ t \in pending
  /\ pending' = pending \ {t}
  /\ hook' = IF pending' = {} THEN "done" ELSE "revoking"
  /\ \/ /\ revoked' = revoked \cup {t}
        /\ UNCHANGED abandoned
     \/ /\ abandoned' = abandoned \cup {t}
        /\ UNCHANGED revoked
  /\ UNCHANGED <<now, leaseVars, inflight, issued, scan, reply, gaveUp>>

-----------------------------------------------------------------------------
LeaseStep == (Provider \/ Sts \/ Die \/ Tick) /\ UNCHANGED serverVars
ServerStep == Retire \/ \E r \in Scans : Receive(r) \/ Answer(r)
HookStep == Collect \/ GiveUp \/ \E t \in Tokens : RevokePending(t)

ServerNext == LeaseStep \/ ServerStep \/ PostStarts \/ HookStep

ServerSpec == ServerInit /\ [][ServerNext]_allVars

\* Every wait of the hook is bounded (one second for the provider, a retry
\* budget for each revocation), so once it starts it keeps going; the provider
\* owes nothing.
FairHook == ServerSpec /\ WF_allVars(HookStep)

-----------------------------------------------------------------------------
(* Properties.                                                             *)

\* An answer carries a token only while the lease is open and holds it
\* unexpired: waiting for the GitHub assertion cannot make the server hand out
\* a token that was retired or replaced by expiry meanwhile, nor, unless the
\* hook gave up on the provider, one that is revoked.
AnswersAreUsable ==
  [][\A r \in Scans : reply'[r] # reply[r] =>
       /\ ~closed
       /\ reply'[r] \in Unexpired
       /\ ~gaveUp => reply'[r] \notin revoked]_allVars

\* When the hook is done, every token that still works was lost by a failure,
\* or is a mint still in flight that the provider is going to discard.
CleanupComplete ==
  hook = "done" /\ ~gaveUp => \A t \in Live : t \in abandoned \/ t = inflight

\* Until the hook gave up, no revocation touches a token the open lease holds.
NoRevocationInUse == ~gaveUp => AcceptedNotRevoked

\* The hook never refuses what the provider returns for being too long
\* (token-provider.cjs:89).
CollectedFits == closed => Fits(collected)

\* What the hook revokes is known to it: the saved token, and, once the
\* provider is closed, what close() returned.
HookAgrees ==
  /\ hook = "job" => ~closed
  /\ hook \in {"job", "retiring"} => pending = {} /\ ~gaveUp
  /\ hook \in {"revoking", "done"} => closed \/ gaveUp
  /\ hook = "done" => pending = {}
  /\ pending \subseteq {First} \cup collected
  /\ collected \subseteq {t \in Tokens : Has(t)}
  /\ ~closed => collected = {}

\* The saved token is minted, and in the map until it expires.
FirstIsKnown ==
  /\ issued[First] # 0
  /\ Has(First) \/ issued[First] <= now

\* A hook that did not give up has every returned token to revoke or has had
\* its chance to.
NoneIsSkipped ==
  hook \in {"revoking", "done"} /\ ~gaveUp =>
    \A t \in collected \cap Live : t \in pending \cup abandoned

\* The inductive invariant of server and hook: revocation touches no token the
\* open lease holds, and what the hook knows covers what the lease returned.
ServerInv ==
  /\ ServerTypeOK /\ LeaseCore /\ RenewalsAreSpaced
  /\ abandoned \subseteq Minted
  /\ \A r \in Scans : scan[r] # "answered" => reply[r] = NoToken
  /\ NoRevocationInUse /\ CollectedFits
  /\ HookAgrees /\ FirstIsKnown /\ NoneIsSkipped

\* The stage of each token in the abstract lifecycle.
Stage(t) ==
  CASE issued[t] = 0 -> "unissued"
    [] t \in revoked -> "revoked"
    [] t \in Minted \ revoked /\ issued[t] <= now -> "expired"
    [] t \in Live /\ t \in abandoned -> "stranded"
    [] t \in Live \ abandoned /\ t \in pending -> "surrendered"
    [] t \in Live \ (abandoned \cup pending) /\ ~closed /\ Has(t) -> "held"
    [] t \in Live \ (abandoned \cup pending) /\ closed /\ t \in collected ->
         IF gaveUp THEN "stranded" ELSE "surrendered"
    [] OTHER -> "outstanding"

\* The provider and the hook implement the credential lifecycle.
Lifecycle == INSTANCE CredentialLifecycle
  WITH Credentials <- Tokens, retired <- closed,
       status <- [t \in Tokens |-> Stage(t)]

ImplementsLifecycle == Lifecycle!Spec
SurrenderedEnds == Lifecycle!SurrenderedEnds
=============================================================================
