-------------------------- MODULE SocketLease_proofs --------------------------
(***************************************************************************)
(* Proofs about SocketLease, for every value of its constants: the         *)
(* inductive invariant LeaseInv, the safety invariants it contains, and    *)
(* the action property ClosedIsFinal.                                      *)
(***************************************************************************)
EXTENDS SocketLease, FiniteSetTheorems, WellFoundedInduction, TLAPS

\* The renewal time of any lease is a natural number: halving what is left
\* keeps it from falling before the clock's origin.
LEMMA RenewDueNat ==
  ASSUME NEW e \in Nat, now \in Nat
  PROVE  RenewDue(e) \in Nat
<1>1. ASSUME e >= now
      PROVE  (e - now) \div 2 \in Nat /\ (e - now) \div 2 <= e
  BY <1>1, SMT
<1>2. CASE e >= now
  BY <1>1, <1>2, LeaseConstants DEF RenewDue, Lower, Higher
<1>3. CASE e < now
  <2>1. Higher(0, e - now) = 0
    BY <1>3 DEF Higher
  <2>2. 0 \div 2 = 0
    BY SMT
  <2>3. QED
    BY <2>1, <2>2, LeaseConstants DEF RenewDue, Lower
<1>4. QED
  BY <1>2, <1>3

\* What the finally block leaves behind: nothing in flight, and a timer armed
\* exactly when the lease is open.
LEMMA SettleOutcome ==
  ASSUME TypeOK, NEW due \in Nat, Settle(due)
  PROVE  /\ retryAt' \in Nat
         /\ timer' \in Nat \cup {Disarmed}
         /\ timer' # Disarmed <=> ~closed
         /\ loading' = "idle"
         /\ inflight' = NoToken
  BY LeaseConstants DEF Settle, TypeOK, Higher, Disarmed

\* The lease's invariant holds at the start.
LEMMA InitImpliesLeaseCore == Init => LeaseCore
<1> SUFFICES ASSUME Init PROVE LeaseCore
  OBVIOUS
<1>1. expires \in Nat /\ expires > 0 /\ now = 1 /\ now \in 1 .. MaxTime
  BY LeaseConstants DEF Init
<1>2. renewAt \in Nat
  BY <1>1, RenewDueNat DEF Init
<1>3. timer \in Nat
  BY <1>1, <1>2 DEF Init, Higher
<1>4. tokens \in [Tokens -> Nat] /\ tokens[First] = expires
      /\ \A t \in Tokens : tokens[t] # 0 => t = First
  BY <1>1, LeaseConstants DEF Init
<1>5. TypeOK
  BY <1>1, <1>2, <1>3, <1>4, LeaseConstants DEF Init, TypeOK
<1>6. MapAgrees
  BY <1>1, <1>4 DEF Init, MapAgrees, CurrentOutlastsOthers, Has
<1>7. InflightAgrees /\ RevokedAreUseless /\ ClosedCollected
  BY DEF Init, InflightAgrees, RevokedAreUseless, ClosedCollected
<1>8. NoForgottenToken
  BY DEF Init, NoForgottenToken, Live, Minted, Accounted, Has
<1>9. RenewalArmed
  BY <1>3 DEF Init, RenewalArmed, Disarmed
<1>10. QED
  BY <1>5, <1>6, <1>7, <1>8, <1>9 DEF LeaseCore

\* An adopted token becomes the current one; only expired entries leave the map.
LEMMA AdoptPreservesLeaseCore ==
  ASSUME LeaseCore, NEW t \in Tokens, Adopt(t)
  PROVE  LeaseCore'
<1> USE DEF LeaseCore
<1>1. /\ issued[t] \in Nat /\ issued[t] > now /\ issued[t] > expires
      /\ now \in Nat /\ expires \in Nat /\ ~closed /\ t # token
  BY DEF Adopt, Rejected, TypeOK
<1>2. renewAt' \in Nat
  BY <1>1, RenewDueNat DEF Adopt
<1>3. /\ retryAt' \in Nat
      /\ timer' \in Nat \cup {Disarmed} /\ timer' # Disarmed
      /\ loading' = "idle" /\ inflight' = NoToken
  <2>1. Settle(renewAt')
    BY DEF Adopt
  <2>2. QED
    BY <1>1, <1>2, <2>1, SettleOutcome
<1>4. /\ tokens' \in [Tokens -> Nat]
      /\ tokens'[t] = issued[t]
      /\ \A s \in Tokens \ {t} :
           \/ tokens'[s] = tokens[s]
           \/ tokens'[s] = 0 /\ tokens[s] <= now
  BY <1>1 DEF Adopt, Accept, TypeOK
<1>5. /\ token' = t /\ expires' = issued[t]
      /\ UNCHANGED <<now, closed, collected, alive, issued, revoked>>
      /\ abandoned' = abandoned \ {t}
  BY DEF Adopt
<1>6. TypeOK'
  BY <1>1, <1>2, <1>3, <1>4, <1>5, LeaseConstants DEF TypeOK
<1>7. MapAgrees'
  BY <1>1, <1>4, <1>5 DEF MapAgrees, CurrentOutlastsOthers, Has, TypeOK
<1>8. InflightAgrees'
  BY <1>3 DEF InflightAgrees
<1>9. RevokedAreUseless' /\ ClosedCollected'
  BY <1>1, <1>5 DEF RevokedAreUseless, Minted, ClosedCollected, TypeOK
<1>11. NoForgottenToken'
  <2> SUFFICES ASSUME NEW s \in Live' PROVE Accounted(s)'
    BY DEF NoForgottenToken
  <2>1. s \in Live /\ issued[s] > now
    BY <1>5 DEF Live, Minted
  <2>2. s # t => s # inflight
    BY DEF Adopt
  <2>3. CASE s = t
    BY <1>1, <1>4, <1>5, <2>3 DEF Accounted, Has
  <2>4. CASE s # t
    <3>1. s \in abandoned \/ Has(s)
      BY <1>1, <2>1, <2>2, <2>4 DEF NoForgottenToken, Accounted
    <3>2. Has(s) => tokens[s] > now
      BY <2>1 DEF MapAgrees, CurrentOutlastsOthers, Live, Minted
    <3>3. Has(s) => Has(s)'
      BY <1>1, <1>4, <2>1, <2>4, <3>2 DEF Has, Live, Minted, TypeOK
    <3>4. QED
      BY <1>1, <1>5, <2>4, <3>1, <3>3 DEF Accounted
  <2>5. QED
    BY <2>3, <2>4
<1>12. RenewalArmed'
  BY <1>1, <1>3, <1>5 DEF RenewalArmed
<1>13. QED
  BY <1>6, <1>7, <1>8, <1>9, <1>11, <1>12

\* A step that ends a renewal without touching the lease keeps the invariant,
\* provided it accounts for the answer.
LEMMA RenewalEndPreservesLeaseCore ==
  ASSUME LeaseCore, alive, loading # "idle", Settle(renewAt),
         UNCHANGED <<now, token, expires, renewAt, closed, tokens, collected,
                     alive, issued>>,
         abandoned' \in SUBSET Tokens, revoked' \in SUBSET Tokens,
         abandoned \subseteq abandoned', revoked \subseteq revoked',
         \/ inflight = NoToken
         \/ inflight \in abandoned' \cup revoked' \/ Has(inflight),
         revoked' \subseteq revoked \cup {inflight},
         revoked' = revoked \/ loading = "discarding"
  PROVE  LeaseCore'
<1> USE DEF LeaseCore
<1>1. /\ retryAt' \in Nat
      /\ timer' \in Nat \cup {Disarmed} /\ (timer' # Disarmed <=> ~closed)
      /\ loading' = "idle" /\ inflight' = NoToken
  BY SettleOutcome DEF TypeOK
<1>2. TypeOK'
  BY <1>1, LeaseConstants DEF TypeOK
<1>3. MapAgrees' /\ ClosedCollected'
  BY DEF MapAgrees, CurrentOutlastsOthers, Has, ClosedCollected
<1>4. InflightAgrees'
  BY <1>1 DEF InflightAgrees
<1>5. RevokedAreUseless'
  BY DEF RevokedAreUseless, InflightAgrees, Minted, Has
<1>6. NoForgottenToken'
  <2> SUFFICES ASSUME NEW s \in Live' PROVE Accounted(s)'
    BY DEF NoForgottenToken
  <2>1. s \in Live /\ s \in Tokens /\ issued[s] > now /\ s \notin revoked'
    BY DEF Live, Minted
  <2>2. CASE s = inflight
    <3>1. s \in abandoned' \/ Has(s)
      BY <2>1, <2>2, LeaseConstants
    <3>2. Has(s) /\ closed => s \in collected
      BY <2>1 DEF ClosedCollected
    <3>3. QED
      BY <3>1, <3>2 DEF Accounted, Has
  <2>3. CASE s # inflight
    BY <2>1, <2>3 DEF NoForgottenToken, Accounted, Has
  <2>4. QED
    BY <2>2, <2>3
<1>7. RenewalArmed'
  BY <1>1 DEF RenewalArmed
<1>8. QED
  BY <1>2, <1>3, <1>4, <1>5, <1>6, <1>7

\* Every step of the provider, the STS and the clock keeps the invariant.
LEMMA NextPreservesLeaseCore == LeaseCore /\ [Next]_vars => LeaseCore'
<1> SUFFICES ASSUME LeaseCore, [Next]_vars PROVE LeaseCore'
  OBVIOUS
<1> USE DEF leaseVars, stsVars
<1>1. CASE Renew
  <2> USE DEF LeaseCore
  <2>1. TypeOK' /\ RenewalArmed'
    BY <1>1, LeaseConstants DEF Renew, TypeOK, RenewalArmed, Disarmed
  <2>2. MapAgrees' /\ InflightAgrees' /\ RevokedAreUseless' /\ ClosedCollected'
    BY <1>1 DEF Renew, MapAgrees, CurrentOutlastsOthers, InflightAgrees, Has,
                RevokedAreUseless, ClosedCollected, Minted
  <2>3. NoForgottenToken'
    BY <1>1 DEF Renew, NoForgottenToken, Live, Minted, Accounted, Has
  <2>4. QED
    BY <2>1, <2>2, <2>3
<1>2. ASSUME NEW t \in Tokens, Adopt(t) PROVE LeaseCore'
  BY <1>2, AdoptPreservesLeaseCore
<1>3. ASSUME NEW t \in Tokens, IgnoreRepeat(t) PROVE LeaseCore'
  <2>1. /\ alive /\ loading # "idle" /\ Settle(renewAt)
        /\ UNCHANGED <<now, token, expires, renewAt, closed, tokens, collected,
                       alive, issued, revoked, abandoned>>
        /\ Has(inflight)
    BY <1>3 DEF IgnoreRepeat
  <2>2. QED
    BY <2>1, RenewalEndPreservesLeaseCore DEF LeaseCore, TypeOK
<1>4. ASSUME NEW t \in Tokens, StartDiscard(t) PROVE LeaseCore'
  <2> USE DEF LeaseCore
  <2>1. t # NoToken /\ t = inflight
    BY <1>4, LeaseConstants DEF StartDiscard
  <2>2. closed \/ issued[t] <= now \/ issued[t] <= expires
    BY <1>4 DEF StartDiscard, Rejected, MapAgrees, Has, TypeOK
  <2>3. TypeOK' /\ RenewalArmed'
    BY <1>4, LeaseConstants DEF StartDiscard, TypeOK, RenewalArmed
  <2>4. InflightAgrees'
    BY <1>4, <2>1, <2>2 DEF StartDiscard, InflightAgrees, Has, Minted
  <2>5. MapAgrees' /\ RevokedAreUseless' /\ ClosedCollected'
    BY <1>4 DEF StartDiscard, MapAgrees, CurrentOutlastsOthers, Has,
                RevokedAreUseless, Minted, ClosedCollected
  <2>6. NoForgottenToken'
    BY <1>4 DEF StartDiscard, NoForgottenToken, Live, Minted, Accounted, Has
  <2>7. QED
    BY <2>3, <2>4, <2>5, <2>6
<1>5. CASE FinishDiscard
  <2>1. inflight \in Tokens
    BY <1>5 DEF FinishDiscard, LeaseCore, InflightAgrees, TypeOK
  <2>2. /\ alive /\ loading = "discarding" /\ Settle(renewAt)
        /\ UNCHANGED <<now, token, expires, renewAt, closed, tokens, collected,
                       alive, issued>>
    BY <1>5 DEF FinishDiscard
  <2>3. CASE revoked' = revoked \cup {inflight} /\ UNCHANGED abandoned
    BY <2>1, <2>2, <2>3, RenewalEndPreservesLeaseCore DEF LeaseCore, TypeOK
  <2>4. CASE abandoned' = abandoned \cup {inflight} /\ UNCHANGED revoked
    BY <2>1, <2>2, <2>4, RenewalEndPreservesLeaseCore DEF LeaseCore, TypeOK
  <2>5. QED
    BY <1>5, <2>3, <2>4 DEF FinishDiscard
<1>6. CASE ExchangeFails
  <2>1. /\ alive /\ loading # "idle" /\ Settle(renewAt)
        /\ UNCHANGED <<now, token, expires, renewAt, closed, tokens, collected,
                       alive, issued, revoked>>
        /\ abandoned' = abandoned \cup Unknown({inflight})
    BY <1>6 DEF ExchangeFails
  <2>2. inflight = NoToken \/ inflight \in abandoned' \/ Has(inflight)
    BY <2>1 DEF Unknown, LeaseCore, TypeOK
  <2>3. QED
    BY <2>1, <2>2, RenewalEndPreservesLeaseCore DEF LeaseCore, TypeOK, Unknown
<1>7. CASE AnswerLost
  <2> USE DEF LeaseCore
  <2>1. TypeOK' /\ RenewalArmed'
    BY <1>7, LeaseConstants DEF AnswerLost, TypeOK, RenewalArmed, Unknown
  <2>2. MapAgrees' /\ InflightAgrees' /\ RevokedAreUseless' /\ ClosedCollected'
    BY <1>7 DEF AnswerLost, MapAgrees, CurrentOutlastsOthers, InflightAgrees, Has,
                RevokedAreUseless, Minted, ClosedCollected
  <2>4. NoForgottenToken'
    <3> SUFFICES ASSUME NEW s \in Live' PROVE Accounted(s)'
      BY DEF NoForgottenToken
    <3>1. s \in Live /\ s \in Tokens /\ issued[s] > now
      BY <1>7 DEF AnswerLost, Live, Minted
    <3>2. CASE s = inflight /\ Has(s) /\ closed
      BY <1>7, <3>1, <3>2 DEF AnswerLost, ClosedCollected, Accounted
    <3>3. CASE s = inflight /\ Has(s) /\ ~closed
      BY <1>7, <3>3 DEF AnswerLost, Accounted, Has
    <3>4. CASE s = inflight /\ ~Has(s)
      BY <1>7, <3>1, <3>4 DEF AnswerLost, Accounted, Unknown
    <3>5. CASE s # inflight
      BY <1>7, <3>1, <3>5 DEF AnswerLost, NoForgottenToken, Accounted, Has
    <3>6. QED
      BY <3>2, <3>3, <3>4, <3>5
  <2>5. QED
    BY <2>1, <2>2, <2>4
<1>8. ASSUME NEW t \in Tokens, StsMints(t) PROVE LeaseCore'
  <2> USE DEF LeaseCore
  <2>1. PICK e \in (now + 1) .. (now + MaxLease) : issued' = [issued EXCEPT ![t] = e]
    BY <1>8 DEF StsMints
  <2>2. issued[t] = 0 /\ ~Has(t) /\ t # NoToken /\ e > now /\ e \in Nat
        /\ now \in Nat /\ issued'[t] = e
        /\ \A s \in Tokens \ {t} : issued'[s] = issued[s]
    BY <1>8, <2>1, LeaseConstants
       DEF StsMints, Minted, MapAgrees, CurrentOutlastsOthers, Has, TypeOK
  <2>3. TypeOK' /\ RenewalArmed'
    BY <1>8, <2>1, <2>2, LeaseConstants DEF StsMints, TypeOK, RenewalArmed
  <2>4. MapAgrees' /\ ClosedCollected'
    BY <1>8, <2>2 DEF StsMints, MapAgrees, CurrentOutlastsOthers, Has, ClosedCollected
  <2>5. InflightAgrees'
    BY <1>8, <2>2 DEF StsMints, InflightAgrees, Minted
  <2>6. RevokedAreUseless'
    <3>1. \A s \in revoked : s \in Tokens \ {t} /\ issued[s] # 0
      BY <2>2 DEF RevokedAreUseless, Minted
    <3>2. revoked' = revoked /\ expires' = expires /\ now' = now /\ closed' = closed
      BY <1>8 DEF StsMints
    <3>3. QED
      BY <2>2, <3>1, <3>2 DEF RevokedAreUseless, Minted
  <2>8. NoForgottenToken'
    BY <1>8, <2>2, LeaseConstants DEF StsMints, NoForgottenToken, Live, Minted, Accounted, Has
  <2>9. QED
    BY <2>3, <2>4, <2>5, <2>6, <2>8
<1>9. ASSUME NEW t \in Tokens, StsRepeats(t) PROVE LeaseCore'
  <2> USE DEF LeaseCore
  <2>1. TypeOK' /\ RenewalArmed'
    BY <1>9, LeaseConstants DEF StsRepeats, TypeOK, RenewalArmed
  <2>2. MapAgrees' /\ InflightAgrees' /\ RevokedAreUseless' /\ ClosedCollected'
    BY <1>9 DEF StsRepeats, MapAgrees, CurrentOutlastsOthers, InflightAgrees, Has,
                RevokedAreUseless, Minted, ClosedCollected
  <2>3. NoForgottenToken'
    BY <1>9, LeaseConstants DEF StsRepeats, NoForgottenToken, Live, Minted, Accounted,
                Has
  <2>4. QED
    BY <2>1, <2>2, <2>3
<1>10. CASE Close
  <2> USE DEF LeaseCore
  <2>1. TypeOK' /\ RenewalArmed'
    BY <1>10 DEF Close, TypeOK, RenewalArmed, Unexpired
  <2>2. MapAgrees' /\ InflightAgrees' /\ RevokedAreUseless'
    BY <1>10 DEF Close, MapAgrees, CurrentOutlastsOthers, InflightAgrees, Has,
                 RevokedAreUseless, Minted
  <2>3. \A t \in Tokens : Has(t) /\ issued[t] > now => t \in Unexpired
    BY DEF MapAgrees, CurrentOutlastsOthers, Unexpired
  <2>4. ClosedCollected'
    BY <1>10, <2>3 DEF Close, ClosedCollected, Has
  <2>5. NoForgottenToken'
    BY <1>10, <2>3 DEF Close, NoForgottenToken, Live, Minted, Accounted
  <2>6. QED
    BY <2>1, <2>2, <2>4, <2>5
<1>11. CASE Die
  <2> USE DEF LeaseCore
  <2>1. TypeOK' /\ RenewalArmed'
    BY <1>11, LeaseConstants DEF Die, TypeOK, RenewalArmed, Unknown
  <2>2. MapAgrees' /\ InflightAgrees' /\ RevokedAreUseless' /\ ClosedCollected'
    BY <1>11 DEF Die, MapAgrees, CurrentOutlastsOthers, InflightAgrees, Has,
                 RevokedAreUseless, Minted, ClosedCollected
  <2>3. NoForgottenToken'
    BY <1>11 DEF Die, NoForgottenToken, Live, Minted, Accounted, Has
  <2>4. QED
    BY <2>1, <2>2, <2>3
<1>12. CASE Tick
  <2> USE DEF LeaseCore
  <2>1. TypeOK' /\ RenewalArmed'
    BY <1>12, LeaseConstants DEF Tick, TypeOK, RenewalArmed
  <2>2. now' = now + 1 /\ now \in Nat /\ issued \in [Tokens -> Nat] /\ expires \in Nat
    BY <1>12 DEF Tick, TypeOK
  <2>3. MapAgrees' /\ ClosedCollected'
    BY <1>12, <2>2 DEF Tick, MapAgrees, CurrentOutlastsOthers, Has, ClosedCollected
  <2>4. InflightAgrees'
    BY <1>12, <2>2 DEF Tick, InflightAgrees, Has, Minted
  <2>5. RevokedAreUseless'
    BY <1>12, <2>2 DEF Tick, RevokedAreUseless, Minted
  <2>6. NoForgottenToken'
    BY <1>12, <2>2 DEF Tick, NoForgottenToken, Live, Minted, Accounted, Has
  <2>7. QED
    BY <2>1, <2>3, <2>4, <2>5, <2>6
<1>13. CASE UNCHANGED vars
  BY <1>13 DEF vars, LeaseCore, TypeOK, RenewalArmed, MapAgrees, CurrentOutlastsOthers,
     InflightAgrees, Has, RevokedAreUseless, Minted, ClosedCollected, NoForgottenToken,
     Live, Accounted
<1>14. QED
  BY <1>1, <1>2, <1>3, <1>4, <1>5, <1>6, <1>7, <1>8, <1>9, <1>10, <1>11, <1>12,
     <1>13 DEF Next, Provider, Sts, ExchangeReturns


\* A revocation touches only a discarded answer, which was never accepted, and
\* what is adopted was never revoked: it outlasts the current token.
LEMMA NextPreservesAccepted ==
  LeaseInv /\ [Next]_vars => AcceptedNotRevoked'
<1> SUFFICES ASSUME LeaseInv, [Next]_vars PROVE AcceptedNotRevoked'
  OBVIOUS
<1> USE DEF leaseVars, stsVars, LeaseInv, LeaseCore, AcceptedNotRevoked, Has
<1>1. ASSUME NEW t \in Tokens, Adopt(t) PROVE AcceptedNotRevoked'
  <2>1. t \notin revoked
    BY <1>1 DEF Adopt, Rejected, RevokedAreUseless, TypeOK
  <2>2. \A s \in Tokens \ {t} : tokens'[s] # 0 => tokens[s] # 0
    BY <1>1 DEF Adopt, Accept
  <2>3. QED
    BY <1>1, <2>1, <2>2 DEF Adopt
<1>2. CASE FinishDiscard
  BY <1>2 DEF FinishDiscard, InflightAgrees
<1>3. CASE Next /\ UNCHANGED <<tokens, revoked>>
  BY <1>3 DEF Next, Provider, Sts, ExchangeReturns, Renew, ExchangeFails, Adopt, FinishDiscard,
              IgnoreRepeat, StartDiscard, AnswerLost, StsMints, StsRepeats, Close, Die, Tick
<1>4. CASE UNCHANGED vars
  BY <1>4 DEF vars
<1>5. ASSUME Next PROVE \/ \E t \in Tokens : Adopt(t)
                       \/ FinishDiscard
                       \/ UNCHANGED <<tokens, revoked>>
  BY <1>5 DEF Next, Provider, Sts, ExchangeReturns, Renew, ExchangeFails, IgnoreRepeat,
              StartDiscard, AnswerLost, StsMints, StsRepeats, Close, Die, Tick
<1>6. QED
  BY <1>1, <1>2, <1>3, <1>4, <1>5

\* Every step keeps the lease's invariant.
LEMMA NextPreservesLeaseInv == LeaseInv /\ [Next]_vars => LeaseInv'
  BY NextPreservesLeaseCore, NextPreservesAccepted DEF LeaseInv

-----------------------------------------------------------------------------
(* How many accepted tokens are unexpired at once.                         *)

\* A set of natural numbers has a least element: the initial segments that its
\* elements span are finite sets, which strict inclusion orders well.
LEMMA LeastElement ==
  ASSUME NEW T \in SUBSET Nat, T # {}
  PROVE  \E x \in T : \A y \in T : x <= y
<1> DEFINE Segments == {0 .. x : x \in T}
<1>1. Segments \subseteq FiniteSubsetsOf(Nat)
  <2>1. ASSUME NEW x \in T PROVE 0 .. x \in FiniteSubsetsOf(Nat)
    BY FS_Interval DEF FiniteSubsetsOf
  <2>2. QED
    BY <2>1
<1>2. Segments # {}
  OBVIOUS
<1>3. PICK A \in Segments : \A B \in Segments : ~ (<<B, A>> \in StrictSubsetOrdering(Nat))
  <2> HIDE DEF Segments
  <2>1. QED
    BY <1>1, <1>2, FS_StrictSubsetOrderingWellFounded, WFMin
<1>4. PICK x \in T : A = 0 .. x
  OBVIOUS
<1>5. ASSUME NEW y \in T PROVE x <= y
  <2>1. ~ (0 .. y \subseteq 0 .. x /\ 0 .. y # 0 .. x)
    <3>1. 0 .. y \in Segments /\ 0 .. y \in SUBSET Nat /\ 0 .. x \in SUBSET Nat
      OBVIOUS
    <3>2. ~ (<<0 .. y, 0 .. x>> \in StrictSubsetOrdering(Nat))
      BY <1>3, <1>4, <3>1
    <3>3. ASSUME NEW B \in SUBSET Nat, NEW C \in SUBSET Nat, B \subseteq C, B # C
          PROVE  <<B, C>> \in StrictSubsetOrdering(Nat)
      BY <3>3 DEF StrictSubsetOrdering
    <3>4. QED
      BY <3>1, <3>2, <3>3
  <2>2. SUFFICES ASSUME y < x PROVE FALSE
    OBVIOUS
  <2>3. x \in 0 .. x /\ x \notin 0 .. y /\ 0 .. y \subseteq 0 .. x
    BY <2>2
  <2>4. QED
    BY <2>1, <2>3
<1>6. QED
  BY <1>5

\* A lease is never due for renewal earlier than RenewBefore ahead of its end.
LEMMA RenewDueNotEarly ==
  ASSUME NEW e \in Nat, now \in Nat
  PROVE  RenewDue(e) >= e - RenewBefore
<1>1. Higher(0, e - now) \in Nat
  BY DEF Higher
<1>2. Higher(0, e - now) \div 2 \in Nat
  BY <1>1, SMT
<1>3. QED
  BY <1>2, LeaseConstants DEF RenewDue, Lower

\* Later counts finitely many tokens, all of them in the map.
LEMMA LaterIsFinite ==
  ASSUME TypeOK, IsFiniteSet({t \in Tokens : Has(t)}), NEW t
  PROVE  /\ IsFiniteSet(Unexpired) /\ Cardinality(Unexpired) \in Nat
         /\ IsFiniteSet(Later(t)) /\ Cardinality(Later(t)) \in Nat
<1>1. Unexpired \subseteq {s \in Tokens : Has(s)}
  BY DEF Unexpired, Has, TypeOK
<1>2. Later(t) \subseteq {s \in Tokens : Has(s)}
  BY <1>1 DEF Later
<1>3. QED
  BY <1>1, <1>2, FS_Subset, FS_CardinalityType

\* The spacing of renewals holds at the start.
LEMMA InitSpaced == Init => RenewalsAreSpaced
<1> SUFFICES ASSUME Init PROVE RenewalsAreSpaced
  OBVIOUS
<1>1. expires \in Nat /\ now = 1 /\ retryAt = 0 /\ renewAt = RenewDue(expires)
      /\ loading = "idle" /\ timer = Higher(renewAt, now)
  BY LeaseConstants DEF Init
<1>2. renewAt \in Nat /\ renewAt >= expires - RenewBefore
  BY <1>1, RenewDueNat, RenewDueNotEarly
<1>3. {t \in Tokens : Has(t)} \subseteq {First} /\ Unexpired \subseteq {First}
  BY LeaseConstants DEF Init, Has, Unexpired
<1>4. IsFiniteSet({t \in Tokens : Has(t)})
  BY <1>3, FS_Singleton, FS_Subset
<1>5. Unexpired \ {token} = {}
  BY <1>3 DEF Init
<1>6. \A s, t \in Tokens : Has(s) /\ Has(t) /\ tokens[s] = tokens[t] => s = t
  BY <1>3
<1>7. QED
  BY <1>1, <1>2, <1>4, <1>5, <1>6, LeaseConstants DEF RenewalsAreSpaced, Higher

\* A new token outlasts every unexpired one, so each of those has one more
\* later token, and the clock has moved RetryAfter past the last back-off.
LEMMA AdoptKeepsSpacing ==
  ASSUME LeaseCore, RenewalsAreSpaced, NEW t \in Tokens, Adopt(t)
  PROVE  RenewalsAreSpaced'
<1>1. /\ now \in Nat /\ expires \in Nat /\ retryAt \in Nat /\ renewAt \in Nat
      /\ token \in Tokens /\ tokens \in [Tokens -> Nat]
      /\ issued[t] \in Nat /\ issued[t] > now /\ issued[t] > expires /\ ~closed
      /\ RetryAfter \in Nat /\ RenewBefore \in Nat
  BY LeaseConstants DEF LeaseCore, TypeOK, Adopt, Rejected
<1>2. \A s \in Tokens : Has(s) => tokens[s] <= expires
  BY DEF LeaseCore, MapAgrees, CurrentOutlastsOthers
<1>3. ~Has(t) /\ tokens[token] = expires
  BY <1>1 DEF LeaseCore, MapAgrees, CurrentOutlastsOthers
<1>4. /\ tokens'[t] = issued[t]
      /\ \A s \in Tokens \ {t} : tokens'[s] = IF tokens[s] <= now THEN 0 ELSE tokens[s]
      /\ now' = now /\ token' = t /\ expires' = issued[t] /\ renewAt' = RenewDue(issued[t])
      /\ retryAt' = now + RetryAfter /\ loading' = "idle"
      /\ timer' = Higher(renewAt', retryAt')
  BY <1>1 DEF Adopt, Accept, Settle
<1>5. renewAt' \in Nat /\ renewAt' >= expires' - RenewBefore
  BY <1>1, <1>4, RenewDueNat, RenewDueNotEarly
<1>6. timer' >= retryAt' /\ timer' >= renewAt' /\ retryAt' <= now' + RetryAfter
  BY <1>1, <1>4, <1>5 DEF Higher
<1>7. now >= retryAt /\ now >= renewAt /\ renewAt >= expires - RenewBefore
  BY DEF RenewalsAreSpaced, Adopt
<1>8. IsFiniteSet({s \in Tokens : Has(s)}')
  <2>1. {s \in Tokens : Has(s)}' \subseteq {s \in Tokens : Has(s)} \cup {t}
    BY <1>4 DEF Has
  <2>2. IsFiniteSet({s \in Tokens : Has(s)} \cup {t})
    BY FS_AddElement DEF RenewalsAreSpaced
  <2>3. QED
    BY <2>1, <2>2, FS_Subset
<1>9. \A s, u \in Tokens : Has(s)' /\ Has(u)' /\ tokens'[s] = tokens'[u] => s = u
  <2> SUFFICES ASSUME NEW s \in Tokens, NEW u \in Tokens, Has(s)', Has(u)', tokens'[s] = tokens'[u]
               PROVE  s = u
    OBVIOUS
  <2>1. ASSUME NEW r \in Tokens \ {t}, Has(r)'
        PROVE  Has(r) /\ tokens'[r] = tokens[r] /\ tokens'[r] <= expires
    BY <1>2, <1>4, <2>1 DEF Has
  <2>2. CASE s = t \/ u = t
    BY <1>1, <1>4, <2>1, <2>2
  <2>3. CASE s # t /\ u # t
    BY <2>1, <2>3 DEF RenewalsAreSpaced
  <2>4. QED
    BY <2>2, <2>3
<1>10. ASSUME NEW s \in (Unexpired \ {token})'
       PROVE  Cardinality(Later(s)') * RetryAfter <= retryAt' + RenewBefore - tokens'[s]
  <2>1. s \in Unexpired /\ s # t /\ tokens'[s] = tokens[s] /\ tokens[s] <= expires
        /\ s \in Tokens /\ tokens[s] \in Nat
    BY <1>1, <1>2, <1>4, <1>10 DEF Unexpired, Has
  <2>2. Later(s)' = Later(s) \cup {t}
    <3>1. ASSUME NEW u \in Tokens \ {t}
          PROVE  u \in Later(s)' <=> u \in Later(s)
      BY <1>1, <1>4, <2>1 DEF Later, Unexpired
    <3>2. t \in Later(s)'
      BY <1>1, <1>4, <2>1 DEF Later, Unexpired
    <3>3. QED
      BY <3>1, <3>2 DEF Later, Unexpired
  <2>3. t \notin Later(s)
    BY <1>1, <1>3 DEF Later, Unexpired, Has
  <2>4. IsFiniteSet(Later(s)) /\ Cardinality(Later(s)) \in Nat
    BY LaterIsFinite DEF LeaseCore, RenewalsAreSpaced
  <2>5. Cardinality(Later(s)') = Cardinality(Later(s)) + 1
    BY <2>2, <2>3, <2>4, FS_AddElement
  <2>6. (Cardinality(Later(s)) + 1) * RetryAfter = Cardinality(Later(s)) * RetryAfter + RetryAfter
        /\ Cardinality(Later(s)) * RetryAfter \in Nat
    BY <1>1, <2>4
  <2>7. CASE s = token
    <3>1. Later(s) = {}
      BY <1>1, <1>2, <1>3, <2>7 DEF Later, Unexpired, Has
    <3>2. Cardinality(Later(s)) = 0
      BY <3>1, FS_EmptySet
    <3>3. QED
      BY <1>1, <1>3, <1>4, <1>7, <2>1, <2>5, <2>6, <2>7, <3>2
  <2>8. CASE s # token
    <3>1. Cardinality(Later(s)) * RetryAfter <= retryAt + RenewBefore - tokens[s]
      BY <2>1, <2>8 DEF RenewalsAreSpaced
    <3>2. QED
      BY <1>1, <1>4, <1>7, <2>1, <2>5, <2>6, <3>1
  <2>9. QED
    BY <2>7, <2>8
<1>11. QED
  BY <1>4, <1>5, <1>6, <1>8, <1>9, <1>10 DEF RenewalsAreSpaced

\* Every step keeps it.
LEMMA NextKeepsSpacing ==
  LeaseCore /\ RenewalsAreSpaced /\ [Next]_vars => RenewalsAreSpaced'
<1> SUFFICES ASSUME LeaseCore, RenewalsAreSpaced, [Next]_vars PROVE RenewalsAreSpaced'
  OBVIOUS
<1>1. /\ now \in Nat /\ expires \in Nat /\ retryAt \in Nat /\ renewAt \in Nat
      /\ timer \in Nat \cup {Disarmed} /\ tokens \in [Tokens -> Nat]
      /\ RetryAfter \in Nat /\ RenewBefore \in Nat
  BY LeaseConstants DEF LeaseCore, TypeOK
<1>2. ASSUME UNCHANGED <<now, token, expires, renewAt, tokens>>,
             retryAt' \in Nat, retryAt' >= retryAt, retryAt' <= now + RetryAfter,
             timer' # Disarmed => timer' >= retryAt' /\ timer' >= renewAt,
             loading' # "idle" => now >= retryAt' /\ now >= renewAt
      PROVE  RenewalsAreSpaced'
  <2>1. /\ Unexpired' = Unexpired /\ \A s : Later(s)' = Later(s)
        /\ {t \in Tokens : Has(t)}' = {t \in Tokens : Has(t)}
    BY <1>2 DEF Unexpired, Later, Has
  <2>2. ASSUME NEW s \in Unexpired \ {token}
        PROVE  Cardinality(Later(s)) * RetryAfter <= retryAt' + RenewBefore - tokens[s]
    <3>0. Cardinality(Later(s)) \in Nat
      BY LaterIsFinite DEF LeaseCore, RenewalsAreSpaced
    <3>1. Cardinality(Later(s)) * RetryAfter \in Nat /\ tokens[s] \in Nat
      BY <1>1, <3>0 DEF Unexpired
    <3>2. Cardinality(Later(s)) * RetryAfter <= retryAt + RenewBefore - tokens[s]
      BY DEF RenewalsAreSpaced
    <3>3. QED
      BY <1>1, <1>2, <3>1, <3>2
  <2>3. QED
    BY <1>2, <2>1, <2>2 DEF RenewalsAreSpaced, Has
<1>3. ASSUME Settle(renewAt), loading # "idle",
             UNCHANGED <<now, token, expires, renewAt, tokens>>
      PROVE  RenewalsAreSpaced'
  <2>1. now >= retryAt
    BY <1>3 DEF RenewalsAreSpaced
  <2>2. QED
    BY <1>1, <1>2, <1>3, <2>1 DEF Settle, Higher
<1>4. CASE Renew
  BY <1>1, <1>2, <1>4 DEF Renew, RenewalsAreSpaced
<1>5. ASSUME NEW t \in Tokens, Adopt(t) PROVE RenewalsAreSpaced'
  BY <1>5, AdoptKeepsSpacing
<1>6. ASSUME NEW t \in Tokens, IgnoreRepeat(t) PROVE RenewalsAreSpaced'
  BY <1>3, <1>6 DEF IgnoreRepeat
<1>7. ASSUME NEW t \in Tokens, StartDiscard(t) PROVE RenewalsAreSpaced'
  BY <1>1, <1>2, <1>7 DEF StartDiscard, RenewalsAreSpaced
<1>8. CASE FinishDiscard \/ ExchangeFails
  BY <1>3, <1>8 DEF FinishDiscard, ExchangeFails
<1>9. CASE Sts
  BY <1>1, <1>2, <1>9 DEF Sts, AnswerLost, StsMints, StsRepeats, RenewalsAreSpaced, leaseVars
<1>10. CASE Close \/ Die
  BY <1>1, <1>2, <1>10 DEF Close, Die, RenewalsAreSpaced, stsVars
<1>11. CASE Tick
  <2>1. UNCHANGED <<token, expires, renewAt, retryAt, timer, loading, tokens>> /\ now' = now + 1
    BY <1>11 DEF Tick, leaseVars
  <2>2. ASSUME NEW s \in Unexpired'
        PROVE  s \in Unexpired /\ Later(s)' = Later(s)
    BY <1>1, <2>1 DEF Unexpired, Later
  <2>3. {t \in Tokens : Has(t)}' = {t \in Tokens : Has(t)}
    BY <2>1 DEF Has
  <2>4. QED
    BY <1>1, <2>1, <2>2, <2>3 DEF RenewalsAreSpaced, Has
<1>12. CASE UNCHANGED vars
  BY <1>1, <1>2, <1>12 DEF vars, leaseVars, RenewalsAreSpaced
<1>13. QED
  BY <1>4, <1>5, <1>6, <1>7, <1>8, <1>9, <1>10, <1>11, <1>12
     DEF Next, Provider, ExchangeReturns

\* The oldest unexpired token has all the others after it.
LEMMA SpacedAreFew == LeaseCore /\ RenewalsAreSpaced => FewUnexpired
<1> SUFFICES ASSUME LeaseCore, RenewalsAreSpaced PROVE FewUnexpired
  OBVIOUS
<1>1. /\ now \in Nat /\ expires \in Nat /\ retryAt \in Nat /\ tokens \in [Tokens -> Nat]
      /\ RetryAfter \in Nat \ {0} /\ RenewBefore \in Nat \ {0}
  BY LeaseConstants DEF LeaseCore, TypeOK
<1>2. IsFiniteSet(Unexpired) /\ Cardinality(Unexpired) \in Nat
  BY LaterIsFinite DEF LeaseCore, RenewalsAreSpaced
<1>3. CASE Unexpired = {}
  <2>1. Cardinality(Unexpired) = 0
    BY <1>3, FS_EmptySet
  <2>2. QED
    BY <1>1, <2>1 DEF FewUnexpired
<1>4. CASE Unexpired # {}
  <2> DEFINE Ends == {tokens[t] : t \in Unexpired}
  <2>1. Ends \in SUBSET Nat /\ Ends # {}
    BY <1>1, <1>4 DEF Unexpired
  <2>2. PICK e \in Ends : \A f \in Ends : e <= f
    <3> HIDE DEF Ends
    <3>1. QED
      BY <2>1, LeastElement
  <2>3. PICK t \in Unexpired : e = tokens[t]
    OBVIOUS
  <2>4. t \in Tokens /\ Has(t) /\ tokens[t] \in Nat /\ tokens[t] > now
    BY <1>1, <2>3 DEF Unexpired, Has
  <2>5. ASSUME NEW u \in Unexpired, u # t PROVE u \in Later(t)
    <3>1. u \in Tokens /\ Has(u) /\ tokens[u] \in Nat /\ tokens[t] <= tokens[u]
      BY <1>1, <2>2, <2>3 DEF Unexpired, Has
    <3>2. tokens[u] # tokens[t]
      BY <2>4, <2>5, <3>1 DEF RenewalsAreSpaced
    <3>3. QED
      BY <2>4, <3>1, <3>2 DEF Later
  <2>6. Unexpired = Later(t) \cup {t} /\ t \notin Later(t)
    BY <2>3, <2>4, <2>5 DEF Later
  <2>7. IsFiniteSet(Later(t)) /\ Cardinality(Later(t)) \in Nat
    BY LaterIsFinite DEF LeaseCore, RenewalsAreSpaced
  <2>8. Cardinality(Unexpired) = Cardinality(Later(t)) + 1
    BY <2>6, <2>7, FS_AddElement
  <2>9. CASE t = token
    <3>1. Later(t) = {}
      BY <2>9, <2>4 DEF Later, Unexpired, LeaseCore, MapAgrees, CurrentOutlastsOthers, Has, TypeOK
    <3>2. Cardinality(Later(t)) = 0
      BY <3>1, FS_EmptySet
    <3>3. QED
      BY <1>1, <2>8, <3>2 DEF FewUnexpired
  <2>10. CASE t # token
    <3>1. Cardinality(Later(t)) * RetryAfter <= retryAt + RenewBefore - tokens[t]
          /\ retryAt <= now + RetryAfter
      BY <2>3, <2>10 DEF RenewalsAreSpaced
    <3>2. Cardinality(Later(t)) * RetryAfter \in Nat
      BY <1>1, <2>7
    <3>3. Cardinality(Later(t)) * RetryAfter < RenewBefore + RetryAfter
      BY <1>1, <2>4, <3>1, <3>2
    <3>4. (Cardinality(Unexpired) - 2) * RetryAfter
            = Cardinality(Later(t)) * RetryAfter - RetryAfter
      BY <1>1, <2>7, <2>8
    <3>5. QED
      BY <1>1, <3>2, <3>3, <3>4 DEF FewUnexpired
  <2>11. QED
    BY <2>9, <2>10
<1>5. QED
  BY <1>3, <1>4

-----------------------------------------------------------------------------
\* The inductive invariant holds in every reachable state.
THEOREM LeaseInvariant == Spec => []LeaseInv
<1>1. LeaseInv /\ [Next]_vars => LeaseInv'
  BY NextPreservesLeaseInv
<1>2. Init => LeaseInv
  BY InitImpliesLeaseCore DEF LeaseInv, Init, AcceptedNotRevoked
<1>3. QED
  BY <1>1, <1>2, PTL DEF Spec

\* Type correctness of the lease (socket-lease.cjs), whatever the lease times
\* and the STS's answers.
THEOREM LeaseTypeCorrect == Spec => []TypeOK
<1>1. LeaseInv => TypeOK
  BY DEF LeaseInv, LeaseCore
<1>2. QED
  BY <1>1, LeaseInvariant, PTL

\* No minted token is forgotten, also when its answer races close().
THEOREM NoTokenForgotten == Spec => []NoForgottenToken
<1>1. LeaseInv => NoForgottenToken
  BY DEF LeaseInv, LeaseCore
<1>2. QED
  BY <1>1, LeaseInvariant, PTL

\* A token Aegis may be using is not revoked while the lease is open.
THEOREM AcceptedStayUsable == Spec => []AcceptedNotRevoked
<1>1. LeaseInv => AcceptedNotRevoked
  BY DEF LeaseInv, LeaseCore
<1>2. QED
  BY <1>1, LeaseInvariant, PTL

\* An open lease always has its next renewal armed or under way.
THEOREM RenewalNeverStops == Spec => []RenewalArmed
<1>1. LeaseInv => RenewalArmed
  BY DEF LeaseInv, LeaseCore
<1>2. QED
  BY <1>1, LeaseInvariant, PTL

\* Every accepted token ends no later than the current one.
THEOREM CurrentIsLongest == Spec => []CurrentOutlastsOthers
<1>1. LeaseInv => CurrentOutlastsOthers
  BY DEF LeaseInv, LeaseCore, MapAgrees
<1>2. QED
  BY <1>1, LeaseInvariant, PTL

\* However the STS chooses its lease times, few accepted tokens are unexpired
\* at once; their number is bounded by the two renewal times alone.
THEOREM FewTokensUnexpired == Spec => []FewUnexpired
<1>1. LeaseCore /\ RenewalsAreSpaced /\ [Next]_vars => (LeaseCore /\ RenewalsAreSpaced)'
  BY NextPreservesLeaseCore, NextKeepsSpacing
<1>2. QED
  BY <1>1, InitImpliesLeaseCore, InitSpaced, SpacedAreFew, PTL DEF Spec

\* After close() nothing is accepted and nothing is handed out.
THEOREM ClosingIsFinal == Spec => ClosedIsFinal
<1>1. TypeOK /\ [Next]_vars =>
        [closed => closed' /\ UNCHANGED <<token, tokens, collected>> /\ Value' = NoToken]_vars
  <2> SUFFICES ASSUME TypeOK, Next, closed
               PROVE  closed' /\ UNCHANGED <<token, tokens, collected>> /\ Value' = NoToken
    OBVIOUS
  <2> USE DEF leaseVars, stsVars, Value
  <2>1. CASE Provider
    BY <2>1 DEF Provider, Renew, FinishDiscard, ExchangeFails, ExchangeReturns, Adopt,
                IgnoreRepeat, StartDiscard, Rejected
  <2>2. CASE Sts
    BY <2>2 DEF Sts, AnswerLost, StsMints, StsRepeats
  <2>3. CASE Close \/ Die \/ Tick
    BY <2>3 DEF Close, Die, Tick
  <2>4. QED
    BY <2>1, <2>2, <2>3 DEF Next
<1>2. QED
  BY <1>1, LeaseTypeCorrect, PTL DEF Spec, ClosedIsFinal
=============================================================================
