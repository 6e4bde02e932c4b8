-------------------------- MODULE SecureRunner_proofs --------------------------
(***************************************************************************)
(* Proofs about SecureRunner, for any number of invocations of the action  *)
(* on a machine, hosted or not: the inductive invariant RunnerInv, that    *)
(* cleanup finds every installation and credential, and that no hook       *)
(* touches an installation that is not its own.                            *)
(***************************************************************************)
EXTENDS SecureRunner, TLAPS

\* The invariant holds at the start.
LEMMA InitRunnerInv == Init => RunnerInv
<1> SUFFICES ASSUME Init PROVE RunnerInv
  OBVIOUS
<1> USE RunnerConstants DEF Init, ForAll
<1>1. RunnerTypeOK
  BY DEF RunnerTypeOK, Keys, Credential, NotInstalled
<1>2. HooksTakeTurns /\ InstallationIsKnown
  BY DEF HooksTakeTurns, OneHookAtATime, BranchesEnd, Drained, NewHoldsNothing, Busy, TokensDue,
         InstallationIsKnown, InstalledIsArmed, InstallIsArmed, RetiredIsGone, NotInstalled
<1>3. CredentialsAreKnown
  BY DEF CredentialsAreKnown, LeaseIsKnown, TokenIsKnown, ProviderIsKnown, RenewedIsKnown
<1>4. QED
  BY <1>1, <1>2, <1>3 DEF RunnerInv

\* Losing the runner ends the one hook that runs and all of its branches, and
\* no pending post hook remains.
LEMMA LoseOutcome ==
  ASSUME RunnerInv, LoseRunner
  PROVE  /\ setup' \in [Invocations -> {"new", "running", "ended"}]
         /\ post' \in [Invocations -> {"due", "running", "ended", "lost"}]
         /\ \A i \in Invocations :
              /\ setup'[i] = IF setup[i] = "running" THEN "ended" ELSE setup[i]
              /\ post'[i] = IF post[i] = "running" THEN "lost" ELSE post[i]
              /\ harden'[i] = "todo" /\ socket'[i] = "todo"
              /\ download'[i] = "todo" /\ install'[i] = "waiting"
              /\ retiring'[i] = "todo" /\ collecting'[i] = "todo"
              /\ revoking'[i] = "todo" /\ flushing'[i] = "todo"
              /\ provider'[i] = IF provider[i] = "none" THEN "none" ELSE "gone"
         /\ harden' \in [Invocations -> {"todo"}] /\ socket' \in [Invocations -> {"todo"}]
         /\ download' \in [Invocations -> {"todo"}] /\ install' \in [Invocations -> {"waiting"}]
         /\ retiring' \in [Invocations -> {"todo"}] /\ collecting' \in [Invocations -> {"todo"}]
         /\ revoking' \in [Invocations -> {"todo"}] /\ flushing' \in [Invocations -> {"todo"}]
         /\ provider' \in [Invocations -> {"none", "gone"}]
         /\ pending' = <<>>
         /\ UNCHANGED <<saved, credentials, machine, failed, warned, dropped>>
<1> USE DEF RunnerInv, RunnerTypeOK, HooksTakeTurns, OneHookAtATime, BranchesEnd, Drained, Busy, setupVars
<1>1. /\ setup' \in [Invocations -> {"new", "running", "ended"}]
      /\ harden' \in [Invocations -> {"todo"}] /\ socket' \in [Invocations -> {"todo"}]
      /\ download' \in [Invocations -> {"todo"}] /\ install' \in [Invocations -> {"waiting"}]
      /\ \A i \in Invocations : setup'[i] = IF setup[i] = "running" THEN "ended" ELSE setup[i]
  <2>1. CASE \E i \in Invocations : setup[i] = "running"
    <3>1. PICK i \in Invocations : setup[i] = "running" /\ SetupGone(i)
      BY <2>1 DEF LoseRunner
    <3>2. QED
      BY <3>1 DEF SetupGone
  <2>2. CASE ~ \E i \in Invocations : setup[i] = "running"
    BY <2>2 DEF LoseRunner
  <2>3. QED
    BY <2>1, <2>2
<1>2. /\ post' \in [Invocations -> {"due", "running", "ended", "lost"}]
      /\ retiring' \in [Invocations -> {"todo"}] /\ collecting' \in [Invocations -> {"todo"}]
      /\ revoking' \in [Invocations -> {"todo"}] /\ flushing' \in [Invocations -> {"todo"}]
      /\ \A i \in Invocations : post'[i] = IF post[i] = "running" THEN "lost" ELSE post[i]
  <2>1. CASE \E i \in Invocations : post[i] = "running"
    <3>1. PICK i \in Invocations : post[i] = "running" /\ PostGone(i, "lost")
      BY <2>1 DEF LoseRunner
    <3>2. QED
      BY <3>1 DEF PostGone
  <2>2. CASE ~ \E i \in Invocations : post[i] = "running"
    BY <2>2 DEF LoseRunner
  <2>3. QED
    BY <2>1, <2>2
<1>3. QED
  BY <1>1, <1>2 DEF LoseRunner

\* Revoking is a change of one credential to another.
LEMMA RevokedIsKnown ==
  ASSUME NEW held \in [Invocations -> Credential], NEW i \in Invocations
  PROVE  Revoked(held, i) \in [Invocations -> Credential]
<1>1. "revoked" \in Credential
  BY DEF Credential
<1>2. QED
  BY <1>1 DEF Revoked

\* Every step keeps the types.
LEMMA NextKeepsRunnerType == RunnerInv /\ [Next]_vars => RunnerTypeOK'
<1> SUFFICES ASSUME RunnerInv, [Next]_vars PROVE RunnerTypeOK'
  OBVIOUS
<1> USE RunnerConstants DEF RunnerInv, setupVars, postVars, credentials, RunnerTypeOK, Keys,
           Credential
<1>1. ASSUME NEW i \in Invocations, StartSetup(i) PROVE RunnerTypeOK'
  BY <1>1 DEF StartSetup, Idle
<1>2. ASSUME NEW i \in Invocations, EndSetup(i) PROVE RunnerTypeOK'
  BY <1>2 DEF EndSetup, SetupGone
<1>3. ASSUME NEW i \in Invocations, KillSetup(i) PROVE RunnerTypeOK'
  BY <1>3 DEF KillSetup, SetupGone
<1>4. ASSUME NEW i \in Invocations, HardenExchange(i) PROVE RunnerTypeOK'
  <2>1. CASE lease' = [lease EXCEPT ![i] = "live"]
             /\ harden' = [harden EXCEPT ![i] = "minted"] /\ UNCHANGED saved
    BY <1>4, <2>1 DEF HardenExchange
  <2>2. CASE saved' = [saved EXCEPT ![i] = @ \cup {"inline_policy"}]
             /\ harden' = [harden EXCEPT ![i] = "ended"] /\ UNCHANGED lease
    BY <1>4, <2>2 DEF HardenExchange
  <2>3. QED
    BY <1>4, <2>1, <2>2 DEF HardenExchange
<1>5. ASSUME NEW i \in Invocations, HardenSave(i) PROVE RunnerTypeOK'
  BY <1>5 DEF HardenSave
<1>6. ASSUME NEW i \in Invocations, SocketExchange(i) PROVE RunnerTypeOK'
  BY <1>6 DEF SocketExchange
<1>7. ASSUME NEW i \in Invocations, SocketSave(i) PROVE RunnerTypeOK'
  BY <1>7 DEF SocketSave
<1>8. ASSUME NEW i \in Invocations, Download(i) PROVE RunnerTypeOK'
  BY <1>8 DEF Download
<1>9. ASSUME NEW i \in Invocations, GiveUp(i) PROVE RunnerTypeOK'
  BY <1>9 DEF GiveUp
<1>10. ASSUME NEW i \in Invocations, StartProvider(i) PROVE RunnerTypeOK'
  BY <1>10 DEF StartProvider
<1>11. ASSUME NEW i \in Invocations, ProviderReady(i) PROVE RunnerTypeOK'
  <2>1. CASE provider' = [provider EXCEPT ![i] = "alive"]
             /\ install' = [install EXCEPT ![i] = "config"]
    BY <1>11, <2>1 DEF ProviderReady
  <2>2. CASE provider' = [provider EXCEPT ![i] = "gone"]
             /\ install' = [install EXCEPT ![i] = "ended"]
    BY <1>11, <2>2 DEF ProviderReady
  <2>3. QED
    BY <1>11, <2>1, <2>2 DEF ProviderReady
<1>12. ASSUME NEW i \in Invocations, ProviderSlow(i) PROVE RunnerTypeOK'
  BY <1>12 DEF ProviderSlow
<1>13. ASSUME NEW i \in Invocations, RetireIncumbent(i) PROVE RunnerTypeOK'
  BY <1>13 DEF RetireIncumbent, Retirements, Armed, NotInstalled
<1>14. ASSUME NEW i \in Invocations, Install(i) PROVE RunnerTypeOK'
  BY <1>14 DEF Install, NotInstalled
<1>15. ASSUME NEW i \in Invocations, ProviderListensLate(i) PROVE RunnerTypeOK'
  BY <1>15 DEF ProviderListensLate
<1>16. ASSUME NEW i \in Invocations, ProviderRenews(i) PROVE RunnerTypeOK'
  BY <1>16 DEF ProviderRenews
<1>17. ASSUME NEW i \in Invocations, ProviderDies(i) PROVE RunnerTypeOK'
  BY <1>17 DEF ProviderDies
<1>18. ASSUME NEW i \in Invocations, StartPost(i) PROVE RunnerTypeOK'
  BY <1>18 DEF StartPost, Idle
<1>19. ASSUME NEW i \in Invocations, RetireAegis(i) PROVE RunnerTypeOK'
  BY <1>19 DEF RetireAegis, Ends, Retirements, NotInstalled
<1>20. ASSUME NEW i \in Invocations, Collect(i) PROVE RunnerTypeOK'
  <2>1. CASE "provider" \notin saved[i]
    BY <1>20, <2>1 DEF Collect, Ends
  <2>2. CASE provider' = [provider EXCEPT ![i] = "gone"] /\ UNCHANGED warned
    BY <1>20, <2>2 DEF Collect, Ends
  <2>3. CASE warned' = warned \cup {i} /\ UNCHANGED provider
    BY <1>20, <2>3 DEF Collect, Ends
  <2>4. \/ "provider" \notin saved[i]
        \/ provider' = [provider EXCEPT ![i] = "gone"] /\ UNCHANGED warned
        \/ warned' = warned \cup {i} /\ UNCHANGED provider
    <3> HIDE DEF RunnerInv, RunnerTypeOK
    <3>1. QED
      BY <1>20 DEF Collect
  <2>5. QED
    BY <2>1, <2>2, <2>3, <2>4
<1>21. ASSUME NEW i \in Invocations, RevokeTokens(i) PROVE RunnerTypeOK'
  <2>1. token' \in {token, Revoked(token, i)} /\ renewed' \in {renewed, Revoked(renewed, i)}
    <3> HIDE DEF RunnerInv, RunnerTypeOK
    <3>1. QED
      BY <1>21 DEF RevokeTokens
  <2>2. token' \in [Invocations -> Credential] /\ renewed' \in [Invocations -> Credential]
    <3>1. token \in [Invocations -> Credential] /\ renewed \in [Invocations -> Credential]
      OBVIOUS
    <3> HIDE DEF RunnerInv, RunnerTypeOK, Credential
    <3>2. QED
      BY <2>1, <3>1, RevokedIsKnown
  <2>3. revoking' \in [Invocations -> {"todo", "ended"}] /\ warned' \in SUBSET Invocations
    BY <1>21 DEF RevokeTokens, Ends
  <2>4. UNCHANGED <<pending, setupVars, saved, lease, provider, machine, post,
                    retiring, collecting, flushing, failed, dropped>>
    BY <1>21 DEF RevokeTokens
  <2>5. QED
    BY <2>2, <2>3, <2>4
<1>22. ASSUME NEW i \in Invocations, FlushAndRevokeLease(i) PROVE RunnerTypeOK'
  <2>1. lease' \in {lease, Revoked(lease, i)}
    <3> HIDE DEF RunnerInv, RunnerTypeOK
    <3>1. QED
      BY <1>22 DEF FlushAndRevokeLease
  <2>2. lease' \in [Invocations -> Credential]
    <3>1. lease \in [Invocations -> Credential]
      OBVIOUS
    <3> HIDE DEF RunnerInv, RunnerTypeOK, Credential
    <3>2. QED
      BY <2>1, <3>1, RevokedIsKnown
  <2>3. /\ flushing' \in [Invocations -> {"todo", "ended"}]
        /\ warned' \in SUBSET Invocations /\ failed' \in SUBSET Invocations
    BY <1>22 DEF FlushAndRevokeLease, Ends
  <2>4. UNCHANGED <<pending, setupVars, saved, token, renewed, provider, machine,
                    post, retiring, collecting, revoking, dropped>>
    BY <1>22 DEF FlushAndRevokeLease
  <2>5. QED
    BY <2>2, <2>3, <2>4
<1>23. ASSUME NEW i \in Invocations, EndPost(i) PROVE RunnerTypeOK'
  BY <1>23 DEF EndPost, PostGone
<1>24. CASE LoseRunner
  <2>1. pending' \in Seq(Invocations)
    <3>1. pending' = <<>>
      BY <1>24 DEF LoseRunner
    <3>2. QED
      BY <3>1
  <2>2. setup' \in [Invocations -> {"new", "running", "ended"}]
        /\ harden' \in [Invocations -> {"todo", "minted", "ended"}]
        /\ socket' \in [Invocations -> {"todo", "minted", "saved", "failed"}]
        /\ download' \in [Invocations -> {"todo", "verified", "failed"}]
        /\ install' \in [Invocations -> {"waiting", "starting", "config", "armed", "ended"}]
        /\ provider' \in [Invocations -> {"none", "starting", "alive", "gone"}]
    BY <1>24, LoseOutcome
  <2>3. post' \in [Invocations -> {"due", "running", "ended", "lost"}]
        /\ retiring' \in [Invocations -> {"todo", "ended"}]
        /\ collecting' \in [Invocations -> {"todo", "ended"}]
        /\ revoking' \in [Invocations -> {"todo", "ended"}]
        /\ flushing' \in [Invocations -> {"todo", "ended"}]
    BY <1>24, LoseOutcome
  <2>4. UNCHANGED <<saved, credentials, machine, failed, warned, dropped>>
    BY <1>24, LoseOutcome
  <2>5. QED
    BY <2>1, <2>2, <2>3, <2>4
<1>25. CASE UNCHANGED vars
  BY <1>25 DEF vars
<1>26. QED
  BY <1>1, <1>2, <1>3, <1>4, <1>5, <1>6, <1>7, <1>8, <1>9, <1>10, <1>11, <1>12, <1>13, <1>14,
     <1>15, <1>16, <1>17, <1>18, <1>19, <1>20, <1>21, <1>22, <1>23, <1>24, <1>25
     DEF Next, SetupStep, PostStep

\* Hooks keep taking turns, and their branches end with them.
LEMMA NextKeepsHooks == RunnerInv /\ [Next]_vars => HooksTakeTurns'
<1> SUFFICES ASSUME RunnerInv, [Next]_vars PROVE HooksTakeTurns'
  OBVIOUS
<1> USE RunnerConstants DEF RunnerInv, setupVars, postVars, credentials, RunnerTypeOK,
           HooksTakeTurns, OneHookAtATime, BranchesEnd, Drained, Busy, TokensDue, NewHoldsNothing
<1>1. ASSUME NEW i \in Invocations, StartSetup(i) PROVE HooksTakeTurns'
  BY <1>1 DEF StartSetup, Idle
<1>2. ASSUME NEW i \in Invocations, EndSetup(i) PROVE HooksTakeTurns'
  BY <1>2 DEF EndSetup, SetupGone
<1>3. ASSUME NEW i \in Invocations, KillSetup(i) PROVE HooksTakeTurns'
  BY <1>3 DEF KillSetup, SetupGone
<1>4. ASSUME NEW i \in Invocations, HardenExchange(i) PROVE HooksTakeTurns'
  BY <1>4 DEF HardenExchange
<1>5. ASSUME NEW i \in Invocations, HardenSave(i) PROVE HooksTakeTurns'
  BY <1>5 DEF HardenSave
<1>6. ASSUME NEW i \in Invocations, SocketExchange(i) PROVE HooksTakeTurns'
  BY <1>6 DEF SocketExchange
<1>7. ASSUME NEW i \in Invocations, SocketSave(i) \/ Download(i) PROVE HooksTakeTurns'
  BY <1>7 DEF SocketSave, Download
<1>8. ASSUME NEW i \in Invocations, GiveUp(i) PROVE HooksTakeTurns'
  BY <1>8 DEF GiveUp
<1>9. ASSUME NEW i \in Invocations, StartProvider(i) PROVE HooksTakeTurns'
  BY <1>9 DEF StartProvider
<1>10. ASSUME NEW i \in Invocations, ProviderReady(i) PROVE HooksTakeTurns'
  BY <1>10 DEF ProviderReady
<1>11. ASSUME NEW i \in Invocations, ProviderSlow(i) PROVE HooksTakeTurns'
  BY <1>11 DEF ProviderSlow
<1>12. ASSUME NEW i \in Invocations, RetireIncumbent(i) PROVE HooksTakeTurns'
  BY <1>12 DEF RetireIncumbent, Retirements, Armed, NotInstalled
<1>13. ASSUME NEW i \in Invocations, Install(i) PROVE HooksTakeTurns'
  BY <1>13 DEF Install, NotInstalled
<1>14. ASSUME NEW i \in Invocations, ProviderListensLate(i) PROVE HooksTakeTurns'
  BY <1>14 DEF ProviderListensLate
<1>15. ASSUME NEW i \in Invocations, ProviderRenews(i) PROVE HooksTakeTurns'
  BY <1>15 DEF ProviderRenews
<1>16. ASSUME NEW i \in Invocations, ProviderDies(i) PROVE HooksTakeTurns'
  BY <1>16 DEF ProviderDies
<1>17. ASSUME NEW i \in Invocations, StartPost(i) PROVE HooksTakeTurns'
  BY <1>17 DEF StartPost, Idle
<1>18. ASSUME NEW i \in Invocations, RetireAegis(i) PROVE HooksTakeTurns'
  BY <1>18 DEF RetireAegis, Ends, Retirements, NotInstalled
<1>19. ASSUME NEW i \in Invocations, Collect(i) PROVE HooksTakeTurns'
  BY <1>19 DEF Collect, Ends
<1>20. ASSUME NEW i \in Invocations, RevokeTokens(i) PROVE HooksTakeTurns'
  BY <1>20 DEF RevokeTokens, Ends, Revoked
<1>21. ASSUME NEW i \in Invocations, FlushAndRevokeLease(i) PROVE HooksTakeTurns'
  BY <1>21 DEF FlushAndRevokeLease, Ends, Revoked
<1>22. ASSUME NEW i \in Invocations, EndPost(i) PROVE HooksTakeTurns'
  BY <1>22 DEF EndPost, PostGone
<1>23. CASE LoseRunner
  BY <1>23, LoseOutcome
<1>24. CASE UNCHANGED vars
  BY <1>24 DEF vars
<1>25. QED
  BY <1>1, <1>2, <1>3, <1>4, <1>5, <1>6, <1>7, <1>8, <1>9, <1>10, <1>11, <1>12, <1>13, <1>14,
     <1>15, <1>16, <1>17, <1>18, <1>19, <1>20, <1>21, <1>22, <1>23, <1>24
     DEF Next, SetupStep, PostStep

\* The machine's installation stays one that its owner's post hook can find.
LEMMA NextKeepsInstallation == RunnerInv /\ [Next]_vars => InstallationIsKnown'
<1> SUFFICES ASSUME RunnerInv, [Next]_vars PROVE InstallationIsKnown'
  OBVIOUS
<1> USE RunnerConstants DEF RunnerInv, setupVars, postVars, credentials, RunnerTypeOK,
           HooksTakeTurns, OneHookAtATime, BranchesEnd, Drained, Busy, TokensDue, InstallationIsKnown,
           InstalledIsArmed, InstallIsArmed, RetiredIsGone, NotInstalled
<1>1. ASSUME NEW i \in Invocations, StartSetup(i) PROVE InstallationIsKnown'
  BY <1>1 DEF StartSetup, Idle
<1>2. ASSUME NEW i \in Invocations, EndSetup(i) PROVE InstallationIsKnown'
  BY <1>2 DEF EndSetup, SetupGone
<1>3. ASSUME NEW i \in Invocations, KillSetup(i) PROVE InstallationIsKnown'
  BY <1>3 DEF KillSetup, SetupGone
<1>4. ASSUME NEW i \in Invocations, HardenExchange(i) PROVE InstallationIsKnown'
  BY <1>4 DEF HardenExchange
<1>5. ASSUME NEW i \in Invocations, HardenSave(i) PROVE InstallationIsKnown'
  BY <1>5 DEF HardenSave
<1>6. ASSUME NEW i \in Invocations, SocketExchange(i) PROVE InstallationIsKnown'
  BY <1>6 DEF SocketExchange
<1>7. ASSUME NEW i \in Invocations, SocketSave(i) PROVE InstallationIsKnown'
  BY <1>7 DEF SocketSave
<1>8. ASSUME NEW i \in Invocations, Download(i) PROVE InstallationIsKnown'
  BY <1>8 DEF Download
<1>9. ASSUME NEW i \in Invocations, GiveUp(i) PROVE InstallationIsKnown'
  BY <1>9 DEF GiveUp
<1>10. ASSUME NEW i \in Invocations, StartProvider(i) PROVE InstallationIsKnown'
  BY <1>10 DEF StartProvider
<1>11. ASSUME NEW i \in Invocations, ProviderReady(i) PROVE InstallationIsKnown'
  BY <1>11 DEF ProviderReady
<1>12. ASSUME NEW i \in Invocations, ProviderSlow(i) PROVE InstallationIsKnown'
  BY <1>12 DEF ProviderSlow
<1>13. ASSUME NEW i \in Invocations, RetireIncumbent(i) PROVE InstallationIsKnown'
  BY <1>13 DEF RetireIncumbent, Retirements, Armed
<1>14. ASSUME NEW i \in Invocations, Install(i) PROVE InstallationIsKnown'
  BY <1>14 DEF Install
<1>15. ASSUME NEW i \in Invocations, ProviderListensLate(i) PROVE InstallationIsKnown'
  BY <1>15 DEF ProviderListensLate
<1>16. ASSUME NEW i \in Invocations, ProviderRenews(i) PROVE InstallationIsKnown'
  BY <1>16 DEF ProviderRenews
<1>17. ASSUME NEW i \in Invocations, ProviderDies(i) PROVE InstallationIsKnown'
  BY <1>17 DEF ProviderDies
<1>18. ASSUME NEW i \in Invocations, StartPost(i) PROVE InstallationIsKnown'
  BY <1>18 DEF StartPost, Idle
<1>19. ASSUME NEW i \in Invocations, RetireAegis(i) PROVE InstallationIsKnown'
  BY <1>19 DEF RetireAegis, Ends, Retirements
<1>20. ASSUME NEW i \in Invocations, Collect(i) PROVE InstallationIsKnown'
  BY <1>20 DEF Collect, Ends
<1>21. ASSUME NEW i \in Invocations, RevokeTokens(i) PROVE InstallationIsKnown'
  BY <1>21 DEF RevokeTokens, Ends, Revoked
<1>22. ASSUME NEW i \in Invocations, FlushAndRevokeLease(i) PROVE InstallationIsKnown'
  BY <1>22 DEF FlushAndRevokeLease, Ends, Revoked
<1>23. ASSUME NEW i \in Invocations, EndPost(i) PROVE InstallationIsKnown'
  BY <1>23 DEF EndPost, PostGone
<1>24. CASE LoseRunner
  BY <1>24, LoseOutcome
<1>25. CASE UNCHANGED vars
  BY <1>25 DEF vars
<1>26. QED
  BY <1>1, <1>2, <1>3, <1>4, <1>5, <1>6, <1>7, <1>8, <1>9, <1>10, <1>11, <1>12, <1>13, <1>14,
     <1>15, <1>16, <1>17, <1>18, <1>19, <1>20, <1>21, <1>22, <1>23, <1>24, <1>25
     DEF Next, SetupStep, PostStep

\* The StepSecurity lease stays known to whoever has to revoke it.
LEMMA NextKeepsLease == RunnerInv /\ [Next]_vars => LeaseIsKnown'
<1> SUFFICES ASSUME RunnerInv, [Next]_vars PROVE LeaseIsKnown'
  OBVIOUS
<1> USE RunnerConstants DEF RunnerInv, setupVars, postVars, credentials, RunnerTypeOK,
           HooksTakeTurns, OneHookAtATime, BranchesEnd, Drained, Busy, NewHoldsNothing,
           CredentialsAreKnown, LeaseIsKnown, NeverCleaned
<1>1. ASSUME NEW i \in Invocations, StartSetup(i) PROVE LeaseIsKnown'
  BY <1>1 DEF StartSetup, Idle
<1>2. ASSUME NEW i \in Invocations, EndSetup(i) PROVE LeaseIsKnown'
  BY <1>2 DEF EndSetup, SetupGone
<1>3. ASSUME NEW i \in Invocations, KillSetup(i) PROVE LeaseIsKnown'
  BY <1>3 DEF KillSetup, SetupGone
<1>4. ASSUME NEW i \in Invocations, HardenExchange(i) PROVE LeaseIsKnown'
  BY <1>4 DEF HardenExchange
<1>5. ASSUME NEW i \in Invocations, HardenSave(i) PROVE LeaseIsKnown'
  BY <1>5 DEF HardenSave
<1>6. ASSUME NEW i \in Invocations, SocketExchange(i) PROVE LeaseIsKnown'
  BY <1>6 DEF SocketExchange
<1>7. ASSUME NEW i \in Invocations, SocketSave(i) PROVE LeaseIsKnown'
  BY <1>7 DEF SocketSave
<1>8. ASSUME NEW i \in Invocations, Download(i) PROVE LeaseIsKnown'
  BY <1>8 DEF Download
<1>9. ASSUME NEW i \in Invocations, GiveUp(i) PROVE LeaseIsKnown'
  BY <1>9 DEF GiveUp
<1>10. ASSUME NEW i \in Invocations, StartProvider(i) PROVE LeaseIsKnown'
  BY <1>10 DEF StartProvider
<1>11. ASSUME NEW i \in Invocations, ProviderReady(i) PROVE LeaseIsKnown'
  BY <1>11 DEF ProviderReady
<1>12. ASSUME NEW i \in Invocations, ProviderSlow(i) PROVE LeaseIsKnown'
  BY <1>12 DEF ProviderSlow
<1>13. ASSUME NEW i \in Invocations, RetireIncumbent(i) PROVE LeaseIsKnown'
  BY <1>13 DEF RetireIncumbent, Retirements, Armed, NotInstalled
<1>14. ASSUME NEW i \in Invocations, Install(i) PROVE LeaseIsKnown'
  BY <1>14 DEF Install, NotInstalled
<1>15. ASSUME NEW i \in Invocations, ProviderListensLate(i) PROVE LeaseIsKnown'
  BY <1>15 DEF ProviderListensLate
<1>16. ASSUME NEW i \in Invocations, ProviderRenews(i) PROVE LeaseIsKnown'
  BY <1>16 DEF ProviderRenews
<1>17. ASSUME NEW i \in Invocations, ProviderDies(i) PROVE LeaseIsKnown'
  BY <1>17 DEF ProviderDies
<1>18. ASSUME NEW i \in Invocations, StartPost(i) PROVE LeaseIsKnown'
  BY <1>18 DEF StartPost, Idle
<1>19. ASSUME NEW i \in Invocations, RetireAegis(i) PROVE LeaseIsKnown'
  BY <1>19 DEF RetireAegis, Ends, Retirements, NotInstalled
<1>20. ASSUME NEW i \in Invocations, Collect(i) PROVE LeaseIsKnown'
  BY <1>20 DEF Collect, Ends
<1>21. ASSUME NEW i \in Invocations, RevokeTokens(i) PROVE LeaseIsKnown'
  BY <1>21 DEF RevokeTokens, Ends, Revoked, TokensDue
<1>22. ASSUME NEW i \in Invocations, FlushAndRevokeLease(i) PROVE LeaseIsKnown'
  BY <1>22 DEF FlushAndRevokeLease, Ends, Revoked
<1>23. ASSUME NEW i \in Invocations, EndPost(i) PROVE LeaseIsKnown'
  BY <1>23 DEF EndPost, PostGone
<1>24. CASE LoseRunner
  BY <1>24, LoseOutcome
<1>25. CASE UNCHANGED vars
  <2>1. ASSUME NEW i \in Invocations, (lease[i] = "live")' PROVE NeverCleaned(i)' = NeverCleaned(i)
    BY <1>25 DEF vars
  <2>2. QED
    BY <1>25, <2>1 DEF vars
<1>26. QED
  BY <1>1, <1>2, <1>3, <1>4, <1>5, <1>6, <1>7, <1>8, <1>9, <1>10, <1>11, <1>12, <1>13, <1>14,
     <1>15, <1>16, <1>17, <1>18, <1>19, <1>20, <1>21, <1>22, <1>23, <1>24, <1>25
     DEF Next, SetupStep, PostStep

\* So does the token that setup exchanged.
LEMMA NextKeepsToken == RunnerInv /\ [Next]_vars => TokenIsKnown'
<1> SUFFICES ASSUME RunnerInv, [Next]_vars PROVE TokenIsKnown'
  OBVIOUS
<1> USE RunnerConstants DEF RunnerInv, setupVars, postVars, credentials, RunnerTypeOK,
           HooksTakeTurns, OneHookAtATime, BranchesEnd, Drained, Busy, NewHoldsNothing,
           CredentialsAreKnown, TokenIsKnown, NeverCleaned
<1>1. ASSUME NEW i \in Invocations, StartSetup(i) PROVE TokenIsKnown'
  BY <1>1 DEF StartSetup, Idle
<1>2. ASSUME NEW i \in Invocations, EndSetup(i) PROVE TokenIsKnown'
  <2>1. UNCHANGED <<token, saved, dropped, warned, revoking, post, pending>>
    BY <1>2 DEF EndSetup
  <2>2. socket[i] # "minted" /\ setup[i] = "running"
    BY <1>2 DEF EndSetup
  <2>3. \A j \in Invocations \ {i} : socket'[j] = socket[j] /\ setup'[j] = setup[j]
    BY <1>2 DEF EndSetup, SetupGone
  <2>4. \A j \in Invocations : setup[j] = "ended" => j # i
    BY <2>2
  <2>5. TokenIsKnown
    OBVIOUS
  <2> HIDE DEF RunnerInv, RunnerTypeOK, HooksTakeTurns, OneHookAtATime, BranchesEnd, Drained,
           Busy, NewHoldsNothing, CredentialsAreKnown
  <2>6. QED
    BY <2>1, <2>2, <2>3, <2>4, <2>5, SMTT(30)
<1>3. ASSUME NEW i \in Invocations, KillSetup(i) PROVE TokenIsKnown'
  BY <1>3 DEF KillSetup, SetupGone
<1>4. ASSUME NEW i \in Invocations, HardenExchange(i) PROVE TokenIsKnown'
  BY <1>4 DEF HardenExchange
<1>5. ASSUME NEW i \in Invocations, HardenSave(i) PROVE TokenIsKnown'
  BY <1>5 DEF HardenSave
<1>6. ASSUME NEW i \in Invocations, SocketExchange(i) PROVE TokenIsKnown'
  BY <1>6 DEF SocketExchange
<1>7. ASSUME NEW i \in Invocations, SocketSave(i) PROVE TokenIsKnown'
  BY <1>7 DEF SocketSave
<1>8. ASSUME NEW i \in Invocations, Download(i) PROVE TokenIsKnown'
  BY <1>8 DEF Download
<1>9. ASSUME NEW i \in Invocations, GiveUp(i) PROVE TokenIsKnown'
  BY <1>9 DEF GiveUp
<1>10. ASSUME NEW i \in Invocations, StartProvider(i) PROVE TokenIsKnown'
  BY <1>10 DEF StartProvider
<1>11. ASSUME NEW i \in Invocations, ProviderReady(i) PROVE TokenIsKnown'
  BY <1>11 DEF ProviderReady
<1>12. ASSUME NEW i \in Invocations, ProviderSlow(i) PROVE TokenIsKnown'
  BY <1>12 DEF ProviderSlow
<1>13. ASSUME NEW i \in Invocations, RetireIncumbent(i) PROVE TokenIsKnown'
  BY <1>13 DEF RetireIncumbent, Retirements, Armed, NotInstalled
<1>14. ASSUME NEW i \in Invocations, Install(i) PROVE TokenIsKnown'
  BY <1>14 DEF Install, NotInstalled
<1>15. ASSUME NEW i \in Invocations, ProviderListensLate(i) PROVE TokenIsKnown'
  BY <1>15 DEF ProviderListensLate
<1>16. ASSUME NEW i \in Invocations, ProviderRenews(i) PROVE TokenIsKnown'
  BY <1>16 DEF ProviderRenews
<1>17. ASSUME NEW i \in Invocations, ProviderDies(i) PROVE TokenIsKnown'
  BY <1>17 DEF ProviderDies
<1>18. ASSUME NEW i \in Invocations, StartPost(i) PROVE TokenIsKnown'
  BY <1>18 DEF StartPost, Idle
<1>19. ASSUME NEW i \in Invocations, RetireAegis(i) PROVE TokenIsKnown'
  BY <1>19 DEF RetireAegis, Ends, Retirements, NotInstalled
<1>20. ASSUME NEW i \in Invocations, Collect(i) PROVE TokenIsKnown'
  BY <1>20 DEF Collect, Ends
<1>21. ASSUME NEW i \in Invocations, RevokeTokens(i) PROVE TokenIsKnown'
  BY <1>21 DEF RevokeTokens, Ends, Revoked, TokensDue
<1>22. ASSUME NEW i \in Invocations, FlushAndRevokeLease(i) PROVE TokenIsKnown'
  BY <1>22 DEF FlushAndRevokeLease, Ends, Revoked
<1>23. ASSUME NEW i \in Invocations, EndPost(i) PROVE TokenIsKnown'
  BY <1>23 DEF EndPost, PostGone
<1>24. CASE LoseRunner
  BY <1>24, LoseOutcome
<1>25. CASE UNCHANGED vars
  BY <1>25 DEF vars
<1>26. QED
  BY <1>1, <1>2, <1>3, <1>4, <1>5, <1>6, <1>7, <1>8, <1>9, <1>10, <1>11, <1>12, <1>13, <1>14,
     <1>15, <1>16, <1>17, <1>18, <1>19, <1>20, <1>21, <1>22, <1>23, <1>24, <1>25
     DEF Next, SetupStep, PostStep

\* A provider at work stays known.
LEMMA NextKeepsProvider == RunnerInv /\ [Next]_vars => ProviderIsKnown'
<1> SUFFICES ASSUME RunnerInv, [Next]_vars PROVE ProviderIsKnown'
  OBVIOUS
<1> USE RunnerConstants DEF RunnerInv, setupVars, postVars, credentials, RunnerTypeOK,
           HooksTakeTurns, OneHookAtATime, BranchesEnd, Drained, Busy, TokensDue, CredentialsAreKnown,
           ProviderIsKnown
<1>1. ASSUME NEW i \in Invocations, StartSetup(i) PROVE ProviderIsKnown'
  BY <1>1 DEF StartSetup, Idle
<1>2. ASSUME NEW i \in Invocations, EndSetup(i) PROVE ProviderIsKnown'
  BY <1>2 DEF EndSetup, SetupGone, ChannelOpen
<1>3. ASSUME NEW i \in Invocations, KillSetup(i) PROVE ProviderIsKnown'
  BY <1>3 DEF KillSetup, SetupGone, ChannelOpen
<1>4. ASSUME NEW i \in Invocations, HardenExchange(i) PROVE ProviderIsKnown'
  BY <1>4 DEF HardenExchange
<1>5. ASSUME NEW i \in Invocations, HardenSave(i) PROVE ProviderIsKnown'
  BY <1>5 DEF HardenSave
<1>6. ASSUME NEW i \in Invocations, SocketExchange(i) PROVE ProviderIsKnown'
  BY <1>6 DEF SocketExchange
<1>7. ASSUME NEW i \in Invocations, SocketSave(i) \/ Download(i) PROVE ProviderIsKnown'
  BY <1>7 DEF SocketSave, Download
<1>8. ASSUME NEW i \in Invocations, GiveUp(i) PROVE ProviderIsKnown'
  BY <1>8 DEF GiveUp
<1>9. ASSUME NEW i \in Invocations, StartProvider(i) PROVE ProviderIsKnown'
  BY <1>9 DEF StartProvider
<1>10. ASSUME NEW i \in Invocations, ProviderReady(i) PROVE ProviderIsKnown'
  BY <1>10 DEF ProviderReady
<1>11. ASSUME NEW i \in Invocations, ProviderSlow(i) PROVE ProviderIsKnown'
  BY <1>11 DEF ProviderSlow
<1>12. ASSUME NEW i \in Invocations, RetireIncumbent(i) PROVE ProviderIsKnown'
  BY <1>12 DEF RetireIncumbent, Retirements, Armed, NotInstalled
<1>13. ASSUME NEW i \in Invocations, Install(i) PROVE ProviderIsKnown'
  BY <1>13 DEF Install, NotInstalled
<1>14. ASSUME NEW i \in Invocations, ProviderListensLate(i) PROVE ProviderIsKnown'
  BY <1>14 DEF ProviderListensLate
<1>15. ASSUME NEW i \in Invocations, ProviderRenews(i) PROVE ProviderIsKnown'
  BY <1>15 DEF ProviderRenews
<1>16. ASSUME NEW i \in Invocations, ProviderDies(i) PROVE ProviderIsKnown'
  BY <1>16 DEF ProviderDies
<1>17. ASSUME NEW i \in Invocations, StartPost(i) PROVE ProviderIsKnown'
  BY <1>17 DEF StartPost, Idle
<1>18. ASSUME NEW i \in Invocations, RetireAegis(i) PROVE ProviderIsKnown'
  BY <1>18 DEF RetireAegis, Ends, Retirements, NotInstalled
<1>19. ASSUME NEW i \in Invocations, Collect(i) PROVE ProviderIsKnown'
  BY <1>19 DEF Collect, Ends
<1>20. ASSUME NEW i \in Invocations, RevokeTokens(i) PROVE ProviderIsKnown'
  BY <1>20 DEF RevokeTokens, Ends, Revoked
<1>21. ASSUME NEW i \in Invocations, FlushAndRevokeLease(i) PROVE ProviderIsKnown'
  BY <1>21 DEF FlushAndRevokeLease, Ends, Revoked
<1>22. ASSUME NEW i \in Invocations, EndPost(i) PROVE ProviderIsKnown'
  BY <1>22 DEF EndPost, PostGone
<1>23. CASE LoseRunner
  BY <1>23, LoseOutcome
<1>24. CASE UNCHANGED vars
  BY <1>24 DEF vars
<1>25. QED
  BY <1>1, <1>2, <1>3, <1>4, <1>5, <1>6, <1>7, <1>8, <1>9, <1>10, <1>11, <1>12, <1>13, <1>14,
     <1>15, <1>16, <1>17, <1>18, <1>19, <1>20, <1>21, <1>22, <1>23, <1>24
     DEF Next, SetupStep, PostStep

\* So do the tokens that the provider obtained.
LEMMA NextKeepsRenewed == RunnerInv /\ [Next]_vars => RenewedIsKnown'
<1> SUFFICES ASSUME RunnerInv, [Next]_vars PROVE RenewedIsKnown'
  OBVIOUS
<1> USE RunnerConstants DEF RunnerInv, setupVars, postVars, credentials, RunnerTypeOK,
           HooksTakeTurns, OneHookAtATime, BranchesEnd, Drained, Busy, TokensDue, CredentialsAreKnown,
           ProviderIsKnown, RenewedIsKnown, NeverCleaned
<1>1. ASSUME NEW i \in Invocations, StartSetup(i) PROVE RenewedIsKnown'
  BY <1>1 DEF StartSetup, Idle
<1>2. ASSUME NEW i \in Invocations, EndSetup(i) PROVE RenewedIsKnown'
  BY <1>2 DEF EndSetup, SetupGone
<1>3. ASSUME NEW i \in Invocations, KillSetup(i) PROVE RenewedIsKnown'
  BY <1>3 DEF KillSetup, SetupGone
<1>4. ASSUME NEW i \in Invocations, HardenExchange(i) PROVE RenewedIsKnown'
  BY <1>4 DEF HardenExchange
<1>5. ASSUME NEW i \in Invocations, HardenSave(i) PROVE RenewedIsKnown'
  BY <1>5 DEF HardenSave
<1>6. ASSUME NEW i \in Invocations, SocketExchange(i) PROVE RenewedIsKnown'
  BY <1>6 DEF SocketExchange
<1>7. ASSUME NEW i \in Invocations, SocketSave(i) \/ Download(i) PROVE RenewedIsKnown'
  BY <1>7 DEF SocketSave, Download
<1>8. ASSUME NEW i \in Invocations, GiveUp(i) PROVE RenewedIsKnown'
  BY <1>8 DEF GiveUp
<1>9. ASSUME NEW i \in Invocations, StartProvider(i) PROVE RenewedIsKnown'
  BY <1>9 DEF StartProvider
<1>10. ASSUME NEW i \in Invocations, ProviderReady(i) PROVE RenewedIsKnown'
  BY <1>10 DEF ProviderReady
<1>11. ASSUME NEW i \in Invocations, ProviderSlow(i) PROVE RenewedIsKnown'
  BY <1>11 DEF ProviderSlow
<1>12. ASSUME NEW i \in Invocations, RetireIncumbent(i) PROVE RenewedIsKnown'
  BY <1>12 DEF RetireIncumbent, Retirements, Armed, NotInstalled
<1>13. ASSUME NEW i \in Invocations, Install(i) PROVE RenewedIsKnown'
  BY <1>13 DEF Install, NotInstalled
<1>14. ASSUME NEW i \in Invocations, ProviderListensLate(i) PROVE RenewedIsKnown'
  BY <1>14 DEF ProviderListensLate
<1>15. ASSUME NEW i \in Invocations, ProviderRenews(i) PROVE RenewedIsKnown'
  BY <1>15 DEF ProviderRenews
<1>16. ASSUME NEW i \in Invocations, ProviderDies(i) PROVE RenewedIsKnown'
  BY <1>16 DEF ProviderDies
<1>17. ASSUME NEW i \in Invocations, StartPost(i) PROVE RenewedIsKnown'
  BY <1>17 DEF StartPost, Idle
<1>18. ASSUME NEW i \in Invocations, RetireAegis(i) PROVE RenewedIsKnown'
  BY <1>18 DEF RetireAegis, Ends, Retirements, NotInstalled
<1>19. ASSUME NEW i \in Invocations, Collect(i) PROVE RenewedIsKnown'
  BY <1>19 DEF Collect, Ends
<1>20. ASSUME NEW i \in Invocations, RevokeTokens(i) PROVE RenewedIsKnown'
  BY <1>20 DEF RevokeTokens, Ends, Revoked
<1>21. ASSUME NEW i \in Invocations, FlushAndRevokeLease(i) PROVE RenewedIsKnown'
  BY <1>21 DEF FlushAndRevokeLease, Ends, Revoked
<1>22. ASSUME NEW i \in Invocations, EndPost(i) PROVE RenewedIsKnown'
  BY <1>22 DEF EndPost, PostGone
<1>23. CASE LoseRunner
  BY <1>23, LoseOutcome
<1>24. CASE UNCHANGED vars
  BY <1>24 DEF vars
<1>25. QED
  BY <1>1, <1>2, <1>3, <1>4, <1>5, <1>6, <1>7, <1>8, <1>9, <1>10, <1>11, <1>12, <1>13, <1>14,
     <1>15, <1>16, <1>17, <1>18, <1>19, <1>20, <1>21, <1>22, <1>23, <1>24
     DEF Next, SetupStep, PostStep

\* Every step keeps the invariant.
LEMMA NextKeepsRunnerInv == RunnerInv /\ [Next]_vars => RunnerInv'
  BY NextKeepsRunnerType, NextKeepsHooks, NextKeepsInstallation, NextKeepsLease, NextKeepsToken,
     NextKeepsProvider, NextKeepsRenewed DEF RunnerInv, CredentialsAreKnown

-----------------------------------------------------------------------------
\* The inductive invariant holds in every reachable state.
THEOREM RunnerInvariant == Spec => []RunnerInv
  BY InitRunnerInv, NextKeepsRunnerInv, PTL DEF Spec

\* Every installation on the machine, complete or not, is one whose owner saved
\* the identity that its post hook retires it by.
THEOREM RunnerStaysArmed == Spec => []RunnerIsArmed
<1>1. RunnerInv => RunnerIsArmed
  BY DEF RunnerInv, InstallationIsKnown, RunnerIsArmed
<1>2. QED
  BY <1>1, RunnerInvariant, PTL

\* A post hook that reports no problem leaves no credential of its invocation
\* in force, except those a kill took before they were saved.
THEOREM CleanPostIsComplete == Spec => []CleanPostLeavesNothing
<1>1. RunnerInv => CleanPostLeavesNothing
  BY DEF RunnerInv, CredentialsAreKnown, LeaseIsKnown, TokenIsKnown, RenewedIsKnown,
         CleanPostLeavesNothing
<1>2. QED
  BY <1>1, RunnerInvariant, PTL

\* Aegis never runs on with a token that its own post hook revoked, unless the
\* hook recorded that it could not remove it.
THEOREM ServiceOutlivesNoToken == Spec => []NoServiceWithRevokedToken
<1>1. RunnerInv => NoServiceWithRevokedToken
  BY DEF RunnerInv, InstallationIsKnown, RetiredIsGone, NoServiceWithRevokedToken
<1>2. QED
  BY <1>1, RunnerInvariant, PTL

\* Only three steps touch the machine: retiring an earlier installation, once
\* it is known to be complete; installing, on a machine known to be clean; and
\* the post hook's retirement, of the installation it owns.
LEMMA MachineChanges ==
  ASSUME RunnerInv, Next, machine' # machine
  PROVE  /\ machine.state # "partial"
         /\ \A i \in Invocations : post[i] = "running" => machine.owner = i
<1>1. \A i \in Invocations : setup[i] = "running" => \A j \in Invocations : post[j] # "running"
  BY DEF RunnerInv, HooksTakeTurns, OneHookAtATime, Busy
<1>2. ASSUME NEW i \in Invocations, RetireIncumbent(i)
      PROVE  machine.state # "partial" /\ \A j \in Invocations : post[j] # "running"
  <2>1. setup[i] = "running" /\ \E r \in Retirements(Nobody) : machine' = r.machine
    BY <1>2 DEF RetireIncumbent
  <2>2. machine.state # "partial"
    BY <2>1 DEF Retirements
  <2>3. QED
    BY <1>1, <2>1, <2>2
<1>3. ASSUME NEW i \in Invocations, Install(i)
      PROVE  machine.state # "partial" /\ \A j \in Invocations : post[j] # "running"
  <2>1. setup[i] = "running" /\ install[i] = "armed"
    BY <1>3 DEF Install
  <2>2. machine = NotInstalled
    BY <2>1 DEF RunnerInv, InstallationIsKnown, InstallIsArmed
  <2>3. machine.state # "partial"
    BY <2>2 DEF NotInstalled
  <2>4. QED
    BY <1>1, <2>1, <2>3
<1>4. ASSUME NEW i \in Invocations, RetireAegis(i)
      PROVE  /\ machine.state # "partial" /\ machine.owner = i
             /\ \A j \in Invocations : post[j] = "running" => j = i
  <2>1. post[i] = "running" /\ \E r \in Retirements(i) : machine' = r.machine
    BY <1>4 DEF RetireAegis
  <2>2. machine.state # "partial" /\ machine.owner = i
    BY <2>1, RunnerConstants DEF Retirements, RunnerInv, RunnerTypeOK
  <2>3. QED
    BY <2>1, <2>2 DEF RunnerInv, HooksTakeTurns, OneHookAtATime, Busy
<1>5. \E i \in Invocations : RetireIncumbent(i) \/ Install(i) \/ RetireAegis(i)
  <2>1. ~ LoseRunner
    BY DEF LoseRunner
  <2>2. PICK i \in Invocations :
          \/ StartSetup(i) \/ SetupStep(i) \/ KillSetup(i) \/ StartPost(i) \/ PostStep(i)
          \/ ProviderListensLate(i) \/ ProviderRenews(i) \/ ProviderDies(i)
    BY <2>1 DEF Next
  <2>3. SetupStep(i) => RetireIncumbent(i) \/ Install(i)
    BY DEF SetupStep, HardenExchange, HardenSave, SocketExchange, SocketSave, Download,
           GiveUp, StartProvider, ProviderReady, ProviderSlow, EndSetup
  <2>4. PostStep(i) => RetireAegis(i)
    BY DEF PostStep, Collect, RevokeTokens, FlushAndRevokeLease, EndPost
  <2>5. ~ (StartSetup(i) \/ KillSetup(i) \/ StartPost(i))
    BY DEF StartSetup, KillSetup, StartPost
  <2>6. ~ (ProviderListensLate(i) \/ ProviderRenews(i) \/ ProviderDies(i))
    BY DEF ProviderListensLate, ProviderRenews, ProviderDies
  <2>7. QED
    BY <2>2, <2>3, <2>4, <2>5, <2>6
<1>6. QED
  BY <1>2, <1>3, <1>4, <1>5

\* Half of an installation is never removed or replaced, and a post hook
\* removes only the installation of its own invocation.
THEOREM InstallationsStay == Spec => InstallationsAreKept
<1>1. RunnerInv /\ [Next]_vars => [machine.state = "partial" => machine' = machine]_vars
  BY MachineChanges
<1>2. RunnerInv /\ [Next]_vars =>
        [\A i \in Invocations :
           post[i] = "running" /\ machine' # machine => machine.owner = i]_vars
  BY MachineChanges
<1>3. QED
  BY <1>1, <1>2, RunnerInvariant, PTL
     DEF Spec, InstallationsAreKept, PartialIsKept, OnlyOwnIsRetired
=============================================================================
