-------------------------- MODULE TokenServer_proofs --------------------------
(***************************************************************************)
(* Proofs about TokenServer, for every value of its constants: the         *)
(* inductive invariant ServerInv, the completeness of the hook's cleanup,  *)
(* the usability of every answer, and the refinement of the abstract       *)
(* CredentialLifecycle.                                                    *)
(***************************************************************************)
EXTENDS TokenServer, SocketLease_proofs

-----------------------------------------------------------------------------
(* The steps of the lease, seen from the server and the hook.              *)

\* What a step of the lease leaves alone: an expiry the STS granted, what a
\* closed lease holds and returned, and what is revoked or, once it is
\* closed, abandoned.
LEMMA LeaseStepKeeps ==
  ASSUME LeaseCore, [Next]_vars
  PROVE  /\ now' >= now
         /\ \A t \in Minted : t \in Minted' /\ issued'[t] = issued[t]
         /\ closed => closed' /\ UNCHANGED <<tokens, collected>> /\ abandoned \subseteq abandoned'
         /\ ~closed' => UNCHANGED collected
         /\ ~closed /\ closed' => UNCHANGED <<now, tokens>> /\ collected' = Unexpired
         /\ \A t \in Tokens : Has(t) => Has(t)' \/ issued[t] <= now
         /\ revoked \subseteq revoked'
         /\ abandoned \subseteq Minted => abandoned' \subseteq Minted'
<1> USE DEF leaseVars, stsVars, LeaseCore, Minted, Has
<1>1. ASSUME NEW t \in Tokens, Adopt(t)
      PROVE  /\ ~closed /\ ~closed' /\ UNCHANGED <<now, issued, collected, revoked>>
             /\ \A s \in Tokens : Has(s) => Has(s)' \/ issued[s] <= now
             /\ abandoned' \subseteq abandoned
  BY <1>1 DEF Adopt, Accept, Rejected, TypeOK, MapAgrees, CurrentOutlastsOthers
<1>2. ASSUME NEW t \in Tokens, IgnoreRepeat(t) \/ StartDiscard(t) \/ StsRepeats(t)
      PROVE  UNCHANGED <<now, issued, closed, tokens, collected, revoked, abandoned>>
  BY <1>2 DEF IgnoreRepeat, StartDiscard, StsRepeats
<1>3. CASE Renew \/ FinishDiscard \/ ExchangeFails \/ AnswerLost \/ Die
  <2>1. UNCHANGED <<now, issued, closed, tokens, collected>> /\ revoked \subseteq revoked'
    BY <1>3 DEF Renew, FinishDiscard, ExchangeFails, AnswerLost, Die
  <2>2. inflight \in Tokens => inflight \in Minted
    BY LeaseConstants DEF InflightAgrees
  <2>3. abandoned \subseteq abandoned'
    BY <1>3 DEF Renew, FinishDiscard, ExchangeFails, AnswerLost, Die
  <2>4. \A t \in Tokens : Has(t) => t \in Minted
    BY DEF MapAgrees, CurrentOutlastsOthers, TypeOK
  <2>5. abandoned \subseteq Minted => abandoned' \subseteq Minted
    BY <1>3, <2>2, <2>4 DEF Renew, FinishDiscard, ExchangeFails, AnswerLost, Die, Unknown,
                            TypeOK, InflightAgrees
  <2>6. QED
    BY <2>1, <2>3, <2>5 DEF TypeOK
<1>4. ASSUME NEW t \in Tokens, StsMints(t)
      PROVE  /\ UNCHANGED <<now, closed, tokens, collected, revoked, abandoned>>
             /\ \A s \in Minted : s \in Minted' /\ issued'[s] = issued[s]
  BY <1>4 DEF StsMints, TypeOK
<1>5. CASE Close
  BY <1>5 DEF Close, TypeOK
<1>6. CASE Tick
  BY <1>6 DEF Tick, TypeOK
<1>7. CASE UNCHANGED vars
  BY <1>7 DEF vars, TypeOK
<1>8. now \in Nat
  BY DEF TypeOK
<1>9. QED
  BY <1>1, <1>2, <1>3, <1>4, <1>5, <1>6, <1>7, <1>8
     DEF Next, Provider, Sts, ExchangeReturns

\* A step of the lease keeps what the server and the hook know of it.
LEMMA LeaseStepKeepsServerInv ==
  ASSUME ServerInv, [Next]_vars, UNCHANGED serverVars,
         hook = "job" => ~closed'
  PROVE  ServerInv'
<1> USE DEF ServerInv, serverVars, hookVars
<1>1. LeaseCore' /\ RenewalsAreSpaced'
  BY NextPreservesLeaseCore, NextKeepsSpacing
<1>2. ServerTypeOK'
  BY <1>1 DEF LeaseCore, ServerTypeOK
<1>3. abandoned' \subseteq Minted'
  BY LeaseStepKeeps
<1>4. NoRevocationInUse'
  BY NextPreservesAccepted DEF NoRevocationInUse, LeaseInv
<1>5. CollectedFits'
  <2>1. CASE closed
    BY <2>1, LeaseStepKeeps DEF CollectedFits, Fits
  <2>2. CASE ~closed /\ closed'
    <3>1. collected' = Unexpired /\ FewUnexpired
      BY <2>2, LeaseStepKeeps, SpacedAreFew
    <3>2. Cardinality(Unexpired) \in Nat
      BY LaterIsFinite DEF LeaseCore, RenewalsAreSpaced
    <3>3. (Cardinality(Unexpired) - 2) * RetryAfter < (MaxCollected - 1) * RetryAfter
      BY <3>1, <3>2, LeaseConstants, CollectedCoversRenewals DEF FewUnexpired
    <3>4. Cardinality(Unexpired) - 2 < MaxCollected - 1
      BY <3>2, <3>3, LeaseConstants, CollectedCoversRenewals
    <3>5. QED
      BY <3>1, <3>2, <3>4, CollectedCoversRenewals DEF CollectedFits, Fits
  <2>3. QED
    BY <2>1, <2>2 DEF CollectedFits
<1>6. HookAgrees'
  <2>1. \A t \in collected' : t \in Tokens /\ Has(t)'
    <3>1. CASE closed
      BY <3>1, LeaseStepKeeps DEF HookAgrees, Has
    <3>2. CASE ~closed /\ closed'
      BY <3>2, LeaseStepKeeps DEF Unexpired, Has, LeaseCore, TypeOK
    <3>3. CASE ~closed'
      BY <3>3, LeaseStepKeeps DEF HookAgrees
    <3>4. QED
      BY <3>1, <3>2, <3>3
  <2>2. closed => closed' /\ collected' = collected
    BY LeaseStepKeeps
  <2>3. ~closed => collected = {} /\ (~closed' => collected' = {})
    BY LeaseStepKeeps DEF HookAgrees
  <2>4. QED
    BY <2>1, <2>2, <2>3 DEF HookAgrees
<1>7. FirstIsKnown'
  <2>1. First \in Minted
    BY LeaseConstants DEF FirstIsKnown, Minted
  <2>2. issued'[First] = issued[First] /\ First \in Minted' /\ now' >= now
    BY <2>1, LeaseStepKeeps
  <2>3. Has(First)' \/ issued[First] <= now
    BY LeaseStepKeeps, LeaseConstants DEF FirstIsKnown
  <2>4. now \in Nat /\ now' \in Nat /\ issued[First] \in Nat
    BY <1>1, LeaseConstants DEF LeaseCore, TypeOK
  <2>5. QED
    BY <2>2, <2>3, <2>4 DEF FirstIsKnown, Minted
<1>8. NoneIsSkipped'
  <2> SUFFICES ASSUME hook \in {"revoking", "done"}, ~gaveUp, NEW t \in (collected \cap Live)'
               PROVE  t \in (pending \cup abandoned)'
    BY DEF NoneIsSkipped
  <2>1. closed /\ collected' = collected /\ abandoned \subseteq abandoned' /\ t \in Tokens
    BY LeaseStepKeeps DEF HookAgrees, Live, Minted
  <2>2. t \in Minted
    BY <2>1 DEF HookAgrees, LeaseCore, MapAgrees, CurrentOutlastsOthers, Has, Minted
  <2>3. t \in Live
    <3>1. issued'[t] = issued[t] /\ now' >= now /\ revoked \subseteq revoked'
      BY <2>2, LeaseStepKeeps
    <3>2. now \in Nat /\ now' \in Nat /\ issued[t] \in Nat
      BY <1>1, <2>1 DEF LeaseCore, TypeOK
    <3>3. QED
      BY <2>2, <3>1, <3>2 DEF Live
  <2>4. QED
    BY <2>1, <2>3 DEF NoneIsSkipped
<1>9. QED
  BY <1>1, <1>2, <1>3, <1>4, <1>5, <1>6, <1>7, <1>8

\* A revocation by the hook, successful or not, touches a token that the hook
\* knows: one the closed lease returned, or the saved one.
LEMMA RevokePendingKeepsServerInv ==
  ASSUME ServerInv, NEW t \in Tokens, RevokePending(t)
  PROVE  ServerInv'
<1> USE DEF ServerInv, leaseVars
<1>1. /\ hook = "revoking" /\ t \in pending /\ pending' = pending \ {t}
      /\ hook' = IF pending' = {} THEN "done" ELSE "revoking"
      /\ revoked' \subseteq revoked \cup {t} /\ revoked \subseteq revoked'
      /\ abandoned' \subseteq abandoned \cup {t} /\ abandoned \subseteq abandoned'
      /\ t \in revoked' \cup abandoned'
      /\ UNCHANGED <<now, leaseVars, inflight, issued, scan, reply, gaveUp>>
  BY DEF RevokePending
<1>2. t \in Minted /\ (Has(t) \/ issued[t] <= now)
  BY <1>1, LeaseConstants DEF HookAgrees, FirstIsKnown, Minted, LeaseCore, MapAgrees,
                              CurrentOutlastsOthers, Has
<1>3. issued[t] <= expires \/ issued[t] <= now
  BY <1>2 DEF LeaseCore, MapAgrees, CurrentOutlastsOthers
<1>4. Minted' = Minted /\ Live' \subseteq Live
  BY <1>1 DEF Minted, Live
<1>5. LeaseCore'
  <2> USE DEF LeaseCore
  <2>1. TypeOK' /\ RenewalArmed'
    BY <1>1 DEF TypeOK, RenewalArmed
  <2>2. MapAgrees' /\ InflightAgrees' /\ ClosedCollected'
    BY <1>1 DEF MapAgrees, CurrentOutlastsOthers, InflightAgrees, Minted, Has, ClosedCollected
  <2>3. RevokedAreUseless'
    BY <1>1, <1>2, <1>3, <1>4 DEF RevokedAreUseless
  <2>4. NoForgottenToken'
    BY <1>1, <1>4 DEF NoForgottenToken, Accounted, Has
  <2>5. QED
    BY <2>1, <2>2, <2>3, <2>4
<1>6. RenewalsAreSpaced'
  BY <1>1 DEF RenewalsAreSpaced, Later, Unexpired, Has
<1>7. ServerTypeOK' /\ abandoned' \subseteq Minted'
  BY <1>1, <1>2, <1>4, <1>5 DEF ServerTypeOK, LeaseCore
<1>8. NoRevocationInUse'
  BY <1>1 DEF NoRevocationInUse, AcceptedNotRevoked, HookAgrees, Has
<1>9. CollectedFits' /\ FirstIsKnown'
  BY <1>1 DEF CollectedFits, Fits, FirstIsKnown, Has
<1>10. HookAgrees'
  BY <1>1 DEF HookAgrees, Has
<1>11. NoneIsSkipped'
  BY <1>1, <1>4 DEF NoneIsSkipped, Live
<1>12. QED
  BY <1>1, <1>5, <1>6, <1>7, <1>8, <1>9, <1>10, <1>11

\* The server's invariant holds at the start.
LEMMA ServerInitInv == ServerInit => ServerInv
<1> SUFFICES ASSUME ServerInit PROVE ServerInv
  OBVIOUS
<1>1. LeaseCore /\ RenewalsAreSpaced
  BY InitImpliesLeaseCore, InitSpaced DEF ServerInit
<1>2. ServerTypeOK
  BY <1>1 DEF ServerInit, ServerTypeOK, LeaseCore
<1>3. FirstIsKnown
  <2>1. tokens[First] = expires /\ issued = tokens /\ expires # 0
    BY LeaseConstants DEF ServerInit, Init
  <2>2. QED
    BY <2>1 DEF FirstIsKnown, Has
<1>4. HookAgrees /\ NoneIsSkipped /\ CollectedFits /\ NoRevocationInUse
  BY DEF ServerInit, Init, HookAgrees, NoneIsSkipped, CollectedFits, NoRevocationInUse,
         AcceptedNotRevoked
<1>5. QED
  BY <1>1, <1>2, <1>3, <1>4 DEF ServerInv, ServerInit, Init

\* Every step of the lease, the server and the hook keeps the invariant.
LEMMA ServerNextInv == ServerInv /\ [ServerNext]_allVars => ServerInv'
<1> SUFFICES ASSUME ServerInv, [ServerNext]_allVars PROVE ServerInv'
  OBVIOUS
<1>1. CASE LeaseStep
  <2>1. Next /\ UNCHANGED serverVars
    BY <1>1 DEF LeaseStep, Next
  <2>2. closed' = closed
    BY <1>1 DEF LeaseStep, Provider, Sts, ExchangeReturns, Renew, FinishDiscard, ExchangeFails,
                Adopt, IgnoreRepeat, StartDiscard, AnswerLost, StsMints, StsRepeats, Die, Tick,
                leaseVars
  <2>3. QED
    BY <2>1, <2>2, LeaseStepKeepsServerInv DEF ServerInv, HookAgrees
<1>2. CASE Retire
  BY <1>2, LeaseStepKeepsServerInv DEF Retire, Next
<1>3. ASSUME UNCHANGED <<vars, hookVars>>, ServerTypeOK',
             \A r \in Scans : scan'[r] # "answered" => reply'[r] = NoToken
      PROVE  ServerInv'
  BY <1>3 DEF ServerInv, vars, leaseVars, stsVars, hookVars, LeaseCore, TypeOK, MapAgrees,
     CurrentOutlastsOthers, InflightAgrees, RevokedAreUseless, ClosedCollected, NoForgottenToken,
     RenewalArmed, Live, Minted, Accounted, Has, RenewalsAreSpaced, Later, Unexpired,
     NoRevocationInUse, AcceptedNotRevoked, CollectedFits, Fits, HookAgrees, FirstIsKnown,
     NoneIsSkipped
<1>4. ASSUME NEW r \in Scans, Receive(r) PROVE ServerInv'
  BY <1>3, <1>4 DEF Receive, ServerInv, ServerTypeOK, vars, leaseVars, stsVars, hookVars, TypeOK
<1>5. ASSUME NEW r \in Scans, Answer(r) PROVE ServerInv'
  <2>1. Value \in Tokens \cup {NoToken}
    BY DEF Value, ServerInv, ServerTypeOK, TypeOK
  <2>2. QED
    BY <1>3, <1>5, <2>1 DEF Answer, AnswerToken, ServerInv, ServerTypeOK, vars, leaseVars,
                            stsVars, hookVars, TypeOK
<1>6. ASSUME UNCHANGED <<vars, scan, reply>>, ServerTypeOK', HookAgrees', NoneIsSkipped',
             gaveUp => gaveUp'
      PROVE  ServerInv'
  BY <1>6 DEF ServerInv, vars, leaseVars, stsVars, LeaseCore, TypeOK, MapAgrees,
     CurrentOutlastsOthers, InflightAgrees, RevokedAreUseless, ClosedCollected, NoForgottenToken,
     RenewalArmed, Live, Minted, Accounted, Has, RenewalsAreSpaced, Later, Unexpired,
     NoRevocationInUse, AcceptedNotRevoked, CollectedFits, Fits, FirstIsKnown
<1>7. ASSUME UNCHANGED <<vars, scan, reply>>,
             hook' \in {"job", "retiring", "revoking", "done"},
             pending' \in SUBSET Tokens, gaveUp' \in BOOLEAN
      PROVE  ServerTypeOK'
  BY <1>7 DEF ServerInv, ServerTypeOK, vars, leaseVars, stsVars, TypeOK
<1>8. CASE PostStarts
  <2>1. ServerTypeOK'
    BY <1>7, <1>8 DEF PostStarts, ServerInv, ServerTypeOK
  <2>2. HookAgrees' /\ NoneIsSkipped'
    BY <1>8 DEF PostStarts, ServerInv, HookAgrees, NoneIsSkipped, vars, leaseVars, stsVars, Has
  <2>3. QED
    BY <1>6, <1>8, <2>1, <2>2 DEF PostStarts
<1>9. CASE Collect
  <2>1. ServerTypeOK'
    BY <1>7, <1>9, LeaseConstants DEF Collect, ServerInv, ServerTypeOK, TypeOK
  <2>2. HookAgrees' /\ NoneIsSkipped'
    BY <1>9 DEF Collect, ServerInv, HookAgrees, NoneIsSkipped, vars, leaseVars, stsVars, Has
  <2>3. QED
    BY <1>6, <1>9, <2>1, <2>2 DEF Collect
<1>10. CASE GiveUp
  <2>1. ServerTypeOK'
    BY <1>7, <1>10, LeaseConstants DEF GiveUp
  <2>2. HookAgrees' /\ NoneIsSkipped'
    BY <1>10 DEF GiveUp, ServerInv, HookAgrees, NoneIsSkipped, vars, leaseVars, stsVars, Has
  <2>3. QED
    BY <1>6, <1>10, <2>1, <2>2 DEF GiveUp
<1>11. ASSUME NEW t \in Tokens, RevokePending(t) PROVE ServerInv'
  BY <1>11, RevokePendingKeepsServerInv
<1>12. CASE UNCHANGED allVars
  BY <1>3, <1>12 DEF allVars, serverVars, hookVars, ServerInv, ServerTypeOK, vars, leaseVars,
                     stsVars, TypeOK
<1>13. QED
  BY <1>1, <1>2, <1>4, <1>5, <1>8, <1>9, <1>10, <1>11, <1>12
     DEF ServerNext, ServerStep, HookStep

-----------------------------------------------------------------------------
\* Server, hook and lease keep the inductive invariant, whatever the lease
\* times, the number of scans and the STS's answers: in particular no token in
\* use is revoked under an open lease and the hook never refuses the list of
\* tokens that the provider returns.
THEOREM ServerInvariant == ServerSpec => []ServerInv
  BY ServerInitInv, ServerNextInv, PTL DEF ServerSpec

\* When a hook that reached the provider is done, no token is left in force
\* that neither a failure lost nor a mint in flight still has to discard.
THEOREM CleanupIsComplete == ServerSpec => []CleanupComplete
<1>1. ServerInv => CleanupComplete
  <2> SUFFICES ASSUME ServerInv, hook = "done", ~gaveUp, NEW t \in Live, t # inflight
               PROVE  t \in abandoned
    BY DEF CleanupComplete
  <2> USE DEF ServerInv
  <2>1. closed /\ pending = {}
    BY DEF HookAgrees
  <2>2. t \in abandoned \/ t \in collected
    BY <2>1 DEF LeaseCore, NoForgottenToken, Accounted
  <2>3. QED
    BY <2>1, <2>2 DEF NoneIsSkipped
<1>2. QED
  BY <1>1, ServerInvariant, PTL

\* Waiting for the GitHub assertion never makes the server hand out a token
\* that was retired, has expired or was revoked meanwhile.
THEOREM AnswersStayUsable == ServerSpec => AnswersAreUsable
<1> DEFINE Usable(r) == /\ ~closed
                        /\ reply'[r] \in Unexpired
                        /\ ~gaveUp => reply'[r] \notin revoked
<1>1. ServerInv /\ [ServerNext]_allVars =>
        [\A r \in Scans : reply'[r] # reply[r] => Usable(r)]_allVars
  <2> SUFFICES ASSUME ServerInv, ServerNext, NEW r \in Scans, reply'[r] # reply[r]
               PROVE  Usable(r)
    OBVIOUS
  <2>1. PICK q \in Scans : Answer(q)
    BY DEF ServerNext, LeaseStep, ServerStep, HookStep, Retire, Receive, PostStarts, Collect,
           GiveUp, RevokePending, serverVars
  <2>2. q = r /\ reply'[r] = Value /\ scan[r] # "answered"
    BY <2>1 DEF Answer, AnswerToken, ServerInv, ServerTypeOK
  <2>3. Value # NoToken
    BY <2>2 DEF ServerInv
  <2>4. ~closed /\ now < expires /\ Value = token
    BY <2>3 DEF Value
  <2>5. token \in Unexpired /\ Has(token)
    BY <2>4 DEF ServerInv, LeaseCore, MapAgrees, TypeOK, Unexpired, Has
  <2>6. QED
    BY <2>2, <2>4, <2>5 DEF ServerInv, NoRevocationInUse, AcceptedNotRevoked, Unexpired
<1>2. QED
  BY <1>1, ServerInvariant, PTL DEF ServerSpec, AnswersAreUsable

-----------------------------------------------------------------------------
(* The refinement of CredentialLifecycle.                                  *)

\* The stages of the mapping are those of the abstract specification.
LEMMA StageIsStage ==
  ASSUME ServerInv, NEW t \in Tokens
  PROVE  Stage(t) \in Lifecycle!Stages
  BY DEF Stage, Lifecycle!Stages

\* When one token changes its stage, the abstract status function is updated
\* at that token.
LEMMA MoveOne ==
  ASSUME NEW c \in Tokens, NEW from, NEW to,
         Stage(c) \in from, Stage(c)' = to,
         \A t \in Tokens \ {c} : Stage(t)' = Stage(t)
  PROVE  Lifecycle!Move(c, from, to)
  BY DEF Lifecycle!Move

\* The tokens of a set are stranded at once, or expire at once.
LEMMA StrandSome ==
  ASSUME NEW S \in SUBSET Tokens, UNCHANGED closed,
         \A t \in S : /\ Stage(t) \in {"outstanding", "held", "surrendered"}
                      /\ Stage(t)' = "stranded",
         \A t \in Tokens \ S : Stage(t)' = Stage(t)
  PROVE  Lifecycle!Next
<1>1. Lifecycle!Strand(S)
  BY DEF Lifecycle!Strand
<1>2. QED
  BY <1>1 DEF Lifecycle!Next

\* Tokens that expire together are a step of the life cycle.
LEMMA ExpireSome ==
  ASSUME NEW S \in SUBSET Tokens, UNCHANGED closed,
         \A t \in S : /\ Stage(t) \notin {"unissued", "revoked", "expired"}
                      /\ Stage(t)' = "expired",
         \A t \in Tokens \ S : Stage(t)' = Stage(t)
  PROVE  Lifecycle!Next
<1>1. Lifecycle!Expire(S)
  BY DEF Lifecycle!Expire, Lifecycle!Ended
<1>2. QED
  BY <1>1 DEF Lifecycle!Next

\* A step that changes no stage is a stutter of the abstract specification.
LEMMA SameStages ==
  ASSUME UNCHANGED closed, \A t \in Tokens : Stage(t)' = Stage(t)
  PROVE  UNCHANGED Lifecycle!vars
  BY DEF Lifecycle!vars

\* Setup hands over one token, held or already expired.
LEMMA InitRefines == ServerInit => Lifecycle!Init
<1> SUFFICES ASSUME ServerInit PROVE Lifecycle!Init
  OBVIOUS
<1>1. /\ issued = [t \in Tokens |-> IF t = First THEN expires ELSE 0] /\ tokens = issued
      /\ expires \in Nat \ {0} /\ now = 1 /\ closed = FALSE /\ First \in Tokens
      /\ pending = {} /\ collected = {} /\ abandoned = {} /\ revoked = {}
  BY LeaseConstants DEF ServerInit, Init
<1>2. \A t \in Tokens \ {First} : Stage(t) = "unissued"
  BY <1>1 DEF Stage, Live, Minted
<1>3. Stage(First) \in {"held", "expired"}
  BY <1>1 DEF Stage, Live, Minted, Has
<1>4. QED
  BY <1>1, <1>2, <1>3 DEF Lifecycle!Init

\* The stage of a token depends on the shared state and on its own.
LEMMA StageKept ==
  ASSUME ServerInv, NEW t \in Tokens,
         UNCHANGED <<now, closed, gaveUp>>, issued'[t] = issued[t],
         t \in revoked' <=> t \in revoked,
         t \in abandoned' <=> t \in abandoned,
         t \in pending' <=> t \in pending,
         t \in collected' <=> t \in collected,
         t \in Live => (Has(t)' <=> Has(t))
  PROVE  Stage(t)' = Stage(t)
  BY DEF Stage, Live, Minted

\* Answers that end without being taken into use: the token in flight, if the
\* lease never held it, was on its way or already given up for lost.
LEMMA InflightStage ==
  ASSUME ServerInv, inflight \in Tokens, ~Has(inflight)
  PROVE  Stage(inflight) \in {"outstanding", "surrendered", "stranded", "revoked", "expired"}
<1>1. inflight \in Minted
  BY LeaseConstants DEF ServerInv, LeaseCore, InflightAgrees
<1>2. QED
  BY <1>1 DEF Stage, Live, Minted

\* A failure that leaves tokens of Lost to their expiry strands those that
\* still work.
LEMMA AbandonRefines ==
  ASSUME ServerInv, NEW Lost \in SUBSET Minted,
         abandoned' = abandoned \cup Lost,
         UNCHANGED <<now, closed, gaveUp, issued, tokens, collected, revoked>>,
         pending' \subseteq pending, pending \subseteq pending' \cup Lost
  PROVE  [Lifecycle!Next]_(Lifecycle!vars)
<1> DEFINE S == {t \in Lost \cap Live : Stage(t) # "stranded"}
<1>0. now \in Nat /\ issued \in [Tokens -> Nat]
  BY DEF ServerInv, LeaseCore, TypeOK
<1>1. ASSUME NEW t \in S
      PROVE  Stage(t) \in {"outstanding", "held", "surrendered"} /\ Stage(t)' = "stranded"
  BY <1>0, <1>1 DEF Stage, Live, Minted
<1>2. ASSUME NEW t \in Tokens \ S PROVE Stage(t)' = Stage(t)
  <2>1. CASE t \notin Lost
    <3>1. t \in pending <=> t \in pending'
      BY <2>1
    <3>2. QED
      BY <2>1, <3>1, StageKept DEF Has
  <2>2. CASE t \notin Live
    BY <1>0, <2>2 DEF Stage, Live, Minted
  <2>3. CASE t \in Lost \cap Live /\ Stage(t) = "stranded"
    BY <1>0, <2>3 DEF Stage, Live, Minted
  <2>4. QED
    BY <1>2, <2>1, <2>2, <2>3
<1>3. S \in SUBSET Tokens /\ \A t \in Tokens : t \in S \/ t \in Tokens \ S
  BY DEF Minted
<1>4. Lifecycle!Next
  <2> HIDE DEF S
  <2>1. QED
    BY <1>1, <1>2, <1>3, StrandSome
<1>5. QED
  BY <1>4

\* A revocation that succeeds, of a token that is not in use.
LEMMA RevokeRefines ==
  ASSUME ServerInv, NEW t \in Minted, Stage(t) # "held",
         revoked' = revoked \cup {t},
         UNCHANGED <<now, closed, gaveUp, issued, tokens, collected, abandoned>>,
         pending' \subseteq pending, pending \subseteq pending' \cup {t}
  PROVE  [Lifecycle!Next]_(Lifecycle!vars)
<1>0. now \in Nat /\ issued \in [Tokens -> Nat] /\ t \in Tokens
  BY DEF ServerInv, LeaseCore, TypeOK, Minted
<1>1. ASSUME NEW s \in Tokens \ {t} PROVE Stage(s)' = Stage(s)
  <2>1. (s \in pending <=> s \in pending') /\ (s \in revoked <=> s \in revoked')
    BY <1>1
  <2>2. QED
    BY <2>1, StageKept DEF Has
<1>2. CASE t \in revoked
  <2>1. Stage(t)' = Stage(t)
    BY <1>0, <1>2 DEF Stage, Live, Minted
  <2>2. QED
    BY <1>1, <2>1, SameStages
<1>3. CASE t \notin revoked
  <2>1. Stage(t) \in {"outstanding", "surrendered", "stranded", "expired"}
    BY <1>0, <1>3 DEF Stage, Live, Minted
  <2>2. Stage(t)' = "revoked"
    BY <1>0 DEF Stage, Live, Minted
  <2>3. Lifecycle!Revoke(t)
    <3>1. Lifecycle!Move(t, {"outstanding", "surrendered", "stranded", "expired"}, "revoked")
      BY <1>0, <1>1, <2>1, <2>2, MoveOne
    <3>2. QED
      BY <3>1 DEF Lifecycle!Revoke
  <2>4. QED
    BY <1>0, <2>3 DEF Lifecycle!Next
<1>4. QED
  BY <1>2, <1>3

\* The current token is replaced by one that was on its way, or given up for
\* lost; an entry that leaves the map has expired.
LEMMA AdoptRefines ==
  ASSUME ServerInv, NEW t \in Tokens, Adopt(t), UNCHANGED serverVars
  PROVE  Lifecycle!Next
<1> USE DEF ServerInv, LeaseCore, serverVars, hookVars
<1>1. /\ ~closed /\ UNCHANGED <<now, closed, collected, issued, revoked, pending, gaveUp>>
      /\ abandoned' = abandoned \ {t} /\ issued[t] > now /\ issued[t] > expires
      /\ now \in Nat /\ issued \in [Tokens -> Nat] /\ tokens \in [Tokens -> Nat]
      /\ expires \in Nat
  BY DEF Adopt, Rejected, TypeOK
<1>2. t \in Live /\ ~Has(t)
  BY <1>1 DEF Live, Minted, RevokedAreUseless, MapAgrees, CurrentOutlastsOthers
<1>3. t \notin pending
  <2>1. First # t
    BY <1>1, <1>2 DEF FirstIsKnown
  <2>2. QED
    BY <1>1, <2>1 DEF HookAgrees
<1>4. tokens'[t] = issued[t]
      /\ \A s \in Tokens \ {t} : tokens'[s] = IF tokens[s] <= now THEN 0 ELSE tokens[s]
  BY <1>1 DEF Adopt, Accept
<1>5. Stage(t) \in {"outstanding", "stranded"} /\ Stage(t)' = "held"
  BY <1>1, <1>2, <1>3, <1>4 DEF Stage, Live, Minted, Has
<1>6. ASSUME NEW s \in Tokens \ {t} PROVE Stage(s)' = Stage(s)
  <2>1. s \in Live => (Has(s)' <=> Has(s))
    BY <1>1, <1>4 DEF Live, Has, MapAgrees, CurrentOutlastsOthers, Minted
  <2>2. QED
    BY <1>1, <2>1, StageKept
<1>7. Lifecycle!Move(t, {"outstanding", "stranded"}, "held")
  BY <1>5, <1>6, MoveOne
<1>8. QED
  BY <1>1, <1>7 DEF Lifecycle!Hold, Lifecycle!Next

\* Minting a token is a step of the life cycle.
LEMMA MintRefines ==
  ASSUME ServerInv, NEW t \in Tokens, StsMints(t), UNCHANGED serverVars
  PROVE  Lifecycle!Next
<1> USE DEF ServerInv, LeaseCore, serverVars, hookVars, leaseVars
<1>1. PICK e \in (now + 1) .. (now + MaxLease) : issued' = [issued EXCEPT ![t] = e]
  BY DEF StsMints
<1>2. /\ now \in Nat /\ e \in Nat /\ e > now /\ issued[t] = 0 /\ issued'[t] = e
      /\ issued \in [Tokens -> Nat] /\ tokens \in [Tokens -> Nat]
      /\ \A s \in Tokens \ {t} : issued'[s] = issued[s]
      /\ UNCHANGED <<now, closed, collected, tokens, revoked, abandoned, pending, gaveUp>>
  BY <1>1, LeaseConstants DEF StsMints, Minted, TypeOK
<1>3. ~Has(t) /\ t \notin revoked /\ t \notin abandoned
  BY <1>2 DEF MapAgrees, CurrentOutlastsOthers, RevokedAreUseless, Minted, Has
<1>4. t \notin pending /\ t \notin collected
  BY <1>2, <1>3 DEF HookAgrees, FirstIsKnown
<1>5. Stage(t) = "unissued" /\ Stage(t)' = "outstanding"
  BY <1>2, <1>3, <1>4 DEF Stage, Live, Minted, Has
<1>6. ASSUME NEW s \in Tokens \ {t} PROVE Stage(s)' = Stage(s)
  BY <1>2, StageKept DEF Has
<1>7. Lifecycle!Move(t, {"unissued"}, "outstanding")
  BY <1>5, <1>6, MoveOne
<1>8. QED
  BY <1>2, <1>7 DEF Lifecycle!Issue, Lifecycle!Next

\* The passage of time is a step of it or none.
LEMMA TickRefines ==
  ASSUME ServerInv, Tick, UNCHANGED serverVars
  PROVE  [Lifecycle!Next]_(Lifecycle!vars)
<1> DEFINE S == {t \in Live : issued[t] = now + 1}
<1>1. /\ now \in Nat /\ now' = now + 1 /\ issued \in [Tokens -> Nat]
      /\ UNCHANGED <<closed, gaveUp, issued, tokens, collected, revoked, abandoned, pending>>
  BY DEF Tick, leaseVars, stsVars, serverVars, hookVars, ServerInv, LeaseCore, TypeOK
<1>2. ASSUME NEW t \in S
      PROVE  Stage(t) \notin {"unissued", "revoked", "expired"} /\ Stage(t)' = "expired"
  BY <1>1, <1>2 DEF Stage, Live, Minted
<1>3. ASSUME NEW t \in Tokens \ S PROVE Stage(t)' = Stage(t)
  <2>1. CASE t \notin Live
    BY <1>1, <1>3, <2>1 DEF Stage, Live, Minted, Has
  <2>2. CASE t \in Live /\ issued[t] > now + 1
    BY <1>1, <1>3, <2>2 DEF Stage, Live, Minted, Has
  <2>3. QED
    BY <1>1, <1>3, <2>1, <2>2 DEF Live, Minted
<1>4. S \in SUBSET Tokens /\ \A t \in Tokens : t \in S \/ t \in Tokens \ S
  BY DEF Live, Minted
<1>5. Lifecycle!Next
  <2> HIDE DEF S
  <2>1. QED
    BY <1>1, <1>2, <1>3, <1>4, ExpireSome
<1>6. QED
  BY <1>5

\* Every step of the lease is a step of the lifecycle or changes no stage.
LEMMA LeaseStepRefines ==
  ASSUME ServerInv, LeaseStep
  PROVE  [Lifecycle!Next]_(Lifecycle!vars)
<1> USE DEF leaseVars, stsVars, serverVars, hookVars
<1>1. UNCHANGED serverVars
  BY DEF LeaseStep
<1>2. ASSUME UNCHANGED <<now, closed, tokens, collected, issued, revoked, abandoned>>
      PROVE  [Lifecycle!Next]_(Lifecycle!vars)
  BY <1>1, <1>2, StageKept, SameStages DEF Has
<1>3. CASE Renew \/ \E t \in Tokens : IgnoreRepeat(t) \/ StartDiscard(t) \/ StsRepeats(t)
  BY <1>2, <1>3 DEF Renew, IgnoreRepeat, StartDiscard, StsRepeats
<1>4. ASSUME NEW t \in Tokens, Adopt(t) PROVE [Lifecycle!Next]_(Lifecycle!vars)
  BY <1>1, <1>4, AdoptRefines
<1>5. ASSUME inflight \in Tokens, abandoned' = abandoned \cup {inflight},
             UNCHANGED <<now, closed, tokens, collected, issued, revoked>>
      PROVE  [Lifecycle!Next]_(Lifecycle!vars)
  <2>1. {inflight} \in SUBSET Minted
    BY <1>5, LeaseConstants DEF ServerInv, LeaseCore, InflightAgrees
  <2>2. QED
    BY <1>1, <1>5, <2>1, AbandonRefines
<1>6. CASE FinishDiscard
  <2>1. inflight \in Tokens /\ ~Has(inflight)
        /\ UNCHANGED <<now, closed, tokens, collected, issued>>
    BY <1>6 DEF FinishDiscard, ServerInv, LeaseCore, InflightAgrees, Minted
  <2>2. CASE revoked' = revoked \cup {inflight} /\ UNCHANGED abandoned
    <3>1. inflight \in Minted
      BY <2>1, LeaseConstants DEF ServerInv, LeaseCore, InflightAgrees
    <3>2. Stage(inflight) # "held"
      BY <2>1, InflightStage
    <3>3. QED
      BY <1>1, <2>1, <2>2, <3>1, <3>2, RevokeRefines
  <2>3. CASE abandoned' = abandoned \cup {inflight} /\ UNCHANGED revoked
    BY <1>5, <2>1, <2>3
  <2>4. QED
    BY <1>6, <2>2, <2>3 DEF FinishDiscard
<1>7. CASE ExchangeFails \/ AnswerLost
  <2>1. /\ UNCHANGED <<now, closed, tokens, collected, issued, revoked>>
        /\ abandoned' = abandoned \cup Unknown({inflight})
    BY <1>7 DEF ExchangeFails, AnswerLost
  <2>2. CASE inflight \in Tokens /\ ~Has(inflight)
    BY <1>5, <2>1, <2>2 DEF Unknown
  <2>3. CASE ~(inflight \in Tokens /\ ~Has(inflight))
    BY <1>2, <2>1, <2>3 DEF Unknown
  <2>4. QED
    BY <2>2, <2>3
<1>8. ASSUME NEW t \in Tokens, StsMints(t) PROVE [Lifecycle!Next]_(Lifecycle!vars)
  BY <1>1, <1>8, MintRefines
<1>9. CASE Die
  <2> DEFINE Lost == Unknown({inflight}) \cup {t \in Tokens \ {First} : ~closed /\ Has(t)}
  <2>1. /\ UNCHANGED <<now, closed, tokens, collected, issued, revoked>>
        /\ abandoned' = abandoned \cup Lost
    BY <1>9 DEF Die
  <2>2. Lost \in SUBSET Minted
    BY LeaseConstants DEF Unknown, ServerInv, LeaseCore, InflightAgrees, MapAgrees,
                          CurrentOutlastsOthers, Has, Minted
  <2>3. QED
    BY <1>1, <2>1, <2>2, AbandonRefines
<1>10. CASE Tick
  BY <1>1, <1>10, TickRefines
<1>11. QED
  BY <1>3, <1>4, <1>6, <1>7, <1>8, <1>9, <1>10
     DEF LeaseStep, Provider, Sts, ExchangeReturns

\* Retiring the provider surrenders what it holds to the hook, or strands it
\* when the hook has stopped listening.
LEMMA RetireRefines ==
  ASSUME ServerInv, Retire
  PROVE  Lifecycle!Next
<1> USE DEF ServerInv, LeaseCore, serverVars, hookVars
<1>1. /\ ~closed /\ closed' = TRUE /\ collected' = Unexpired /\ collected = {}
      /\ UNCHANGED <<now, tokens, issued, revoked, abandoned, pending, gaveUp>>
      /\ now \in Nat /\ issued \in [Tokens -> Nat] /\ tokens \in [Tokens -> Nat]
  BY DEF Retire, Close, HookAgrees, stsVars, TypeOK
<1>2. \A t \in Live : t \in Unexpired <=> Has(t)
  BY <1>1 DEF Live, Minted, Unexpired, Has, MapAgrees, CurrentOutlastsOthers
<1>3. ASSUME NEW t \in Tokens
      PROVE  Stage(t)' = IF Stage(t) = "held"
                           THEN IF gaveUp THEN "stranded" ELSE "surrendered"
                           ELSE Stage(t)
  <2>1. CASE t \in Live
    BY <1>1, <1>2, <2>1 DEF Stage, Live, Minted, Has
  <2>2. CASE t \notin Live
    BY <1>1, <2>2 DEF Stage, Live, Minted
  <2>3. QED
    BY <2>1, <2>2
<1>4. \E to \in {"surrendered", "stranded"} : \A t \in Tokens :
        Stage(t)' = IF Stage(t) = "held" THEN to ELSE Stage(t)
  BY <1>3, <1>1
<1>5. Lifecycle!Retire
  BY <1>1, <1>4 DEF Lifecycle!Retire
<1>6. QED
  BY <1>5 DEF Lifecycle!Next

\* Giving up on the provider surrenders the saved token, or strands what a
\* closed lease had returned to nobody.
LEMMA GiveUpRefines ==
  ASSUME ServerInv, GiveUp
  PROVE  [Lifecycle!Next]_(Lifecycle!vars)
<1> USE DEF ServerInv, LeaseCore
<1>1. /\ pending = {} /\ ~gaveUp /\ pending' = {First} /\ gaveUp' = TRUE
      /\ UNCHANGED <<now, closed, tokens, issued, collected, revoked, abandoned>>
      /\ now \in Nat /\ issued \in [Tokens -> Nat] /\ tokens \in [Tokens -> Nat]
      /\ First \in Tokens
  BY LeaseConstants DEF GiveUp, HookAgrees, vars, leaseVars, stsVars, TypeOK
<1>2. First \in Live => Has(First)
  BY <1>1 DEF FirstIsKnown, Live, Minted
<1>3. CASE ~closed
  <2>1. ASSUME NEW t \in Tokens \ {First} PROVE Stage(t)' = Stage(t)
    BY <1>1, <1>3, <2>1 DEF Stage, Live, Minted, Has
  <2>2. CASE First \in Live \ abandoned
    <3>1. Stage(First) = "held" /\ Stage(First)' = "surrendered"
      BY <1>1, <1>2, <1>3, <2>2 DEF Stage, Live, Minted, Has
    <3>2. Lifecycle!Move(First, {"held"}, "surrendered")
      BY <1>1, <2>1, <3>1, MoveOne
    <3>3. QED
      BY <1>1, <3>2 DEF Lifecycle!Surrender, Lifecycle!Next
  <2>3. CASE First \notin Live \ abandoned
    <3>1. Stage(First)' = Stage(First)
      BY <1>1, <2>3 DEF Stage, Live, Minted
    <3>2. QED
      BY <1>1, <2>1, <3>1, SameStages
  <2>4. QED
    BY <2>2, <2>3
<1>4. CASE closed
  <2> DEFINE S == {t \in (Live \cap collected) \ {First} : t \notin abandoned}
  <2>1. First \in Live => First \in collected
    BY <1>1, <1>2, <1>4 DEF ClosedCollected, Live
  <2>2. ASSUME NEW t \in S PROVE Stage(t) = "surrendered" /\ Stage(t)' = "stranded"
    BY <1>1, <1>4, <2>2 DEF Stage, Live, Minted
  <2>3. ASSUME NEW t \in Tokens \ S PROVE Stage(t)' = Stage(t)
    <3>1. CASE t \notin Live \/ t \in abandoned
      BY <1>1, <1>4, <3>1 DEF Stage, Live, Minted
    <3>2. CASE t = First /\ t \in Live \ abandoned
      BY <1>1, <1>4, <2>1, <3>2 DEF Stage, Live, Minted
    <3>3. CASE t # First /\ t \in Live \ abandoned
      BY <1>1, <1>4, <2>3, <3>3 DEF Stage, Live, Minted
    <3>4. QED
      BY <3>1, <3>2, <3>3
  <2>4. S \in SUBSET Tokens
    BY DEF Live, Minted
  <2>5. Lifecycle!Next
    <3> HIDE DEF S
    <3>1. QED
      BY <1>1, <2>2, <2>3, <2>4, StrandSome
  <2>6. QED
    BY <2>5
<1>5. QED
  BY <1>3, <1>4

\* Collecting changes no stage: closing had surrendered the tokens already.
LEMMA CollectRefines ==
  ASSUME ServerInv, Collect
  PROVE  UNCHANGED Lifecycle!vars
<1> USE DEF ServerInv, LeaseCore
<1>1. /\ closed /\ pending = {} /\ ~gaveUp /\ pending' = {First} \cup collected
      /\ UNCHANGED <<now, closed, gaveUp, tokens, issued, collected, revoked, abandoned>>
      /\ now \in Nat /\ issued \in [Tokens -> Nat]
  BY DEF Collect, HookAgrees, vars, leaseVars, stsVars, TypeOK
<1>2. First \in Live => First \in collected
  BY <1>1, LeaseConstants DEF FirstIsKnown, Live, Minted, ClosedCollected
<1>3. ASSUME NEW t \in Tokens PROVE Stage(t)' = Stage(t)
  <2>1. CASE t \in Live
    BY <1>1, <1>2, <2>1 DEF Stage, Live, Minted
  <2>2. CASE t \notin Live
    BY <1>1, <2>2 DEF Stage, Live, Minted
  <2>3. QED
    BY <2>1, <2>2
<1>4. QED
  BY <1>1, <1>3, SameStages

\* Revoking a discarded token is a step of it or none.
LEMMA RevokePendingRefines ==
  ASSUME ServerInv, NEW t \in Tokens, RevokePending(t)
  PROVE  [Lifecycle!Next]_(Lifecycle!vars)
<1>1. /\ t \in pending /\ pending' = pending \ {t}
      /\ UNCHANGED <<now, closed, gaveUp, tokens, issued, collected>>
  BY DEF RevokePending, leaseVars
<1>2. t \in Minted
  BY <1>1, LeaseConstants DEF ServerInv, HookAgrees, FirstIsKnown, Minted, LeaseCore, MapAgrees,
                              CurrentOutlastsOthers, Has
<1>3. pending' \subseteq pending /\ pending \subseteq pending' \cup {t}
  BY <1>1
<1>4. CASE revoked' = revoked \cup {t} /\ UNCHANGED abandoned
  <2>1. now \in Nat /\ issued[t] \in Nat
    BY DEF ServerInv, LeaseCore, TypeOK
  <2>2. Stage(t) # "held"
    BY <1>1, <1>2, <2>1 DEF Stage, Live, Minted
  <2>3. QED
    BY <1>1, <1>2, <1>3, <1>4, <2>2, RevokeRefines
<1>5. CASE abandoned' = abandoned \cup {t} /\ UNCHANGED revoked
  <2>1. {t} \in SUBSET Minted
    BY <1>2
  <2>2. QED
    BY <1>1, <1>3, <1>5, <2>1, AbandonRefines
<1>6. QED
  BY <1>4, <1>5 DEF RevokePending

\* Every step of the provider, the server and the hook is a step of the
\* abstract lifecycle, or changes no stage.
LEMMA ServerNextRefines ==
  ServerInv /\ [ServerNext]_allVars => [Lifecycle!Next]_(Lifecycle!vars)
<1> SUFFICES ASSUME ServerInv, [ServerNext]_allVars PROVE [Lifecycle!Next]_(Lifecycle!vars)
  OBVIOUS
<1>1. ASSUME UNCHANGED <<vars, pending, gaveUp>> PROVE [Lifecycle!Next]_(Lifecycle!vars)
  BY <1>1, StageKept, SameStages DEF vars, leaseVars, stsVars, Has
<1>2. CASE PostStarts \/ \E r \in Scans : Receive(r) \/ Answer(r)
  BY <1>1, <1>2 DEF PostStarts, Receive, Answer, hookVars
<1>3. CASE UNCHANGED allVars
  BY <1>1, <1>3 DEF allVars, serverVars, hookVars
<1>4. QED
  BY <1>2, <1>3, LeaseStepRefines, RetireRefines, CollectRefines, GiveUpRefines,
     RevokePendingRefines DEF ServerNext, ServerStep, HookStep

\* The provider, its server and the post hook implement the credential
\* lifecycle: whatever races, fails or is lost, a token in use is never
\* revoked, retiring the lease surrenders everything it holds, and nothing is
\* taken into use afterwards.
THEOREM LifecycleImplemented == ServerSpec => ImplementsLifecycle
  BY InitRefines, ServerNextRefines, ServerInvariant, PTL
     DEF ServerSpec, ImplementsLifecycle, Lifecycle!Spec
=============================================================================
