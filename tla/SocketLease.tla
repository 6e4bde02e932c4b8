----------------------------- MODULE SocketLease -----------------------------
(***************************************************************************)
(* The Socket lease that the detached Aegis token provider keeps           *)
(* (actions/aegis/socket-lease.cjs) and the part of the Socket STS it      *)
(* talks to.                                                               *)
(*                                                                         *)
(* The lease hands one current token to Aegis, renews it in the background *)
(* before it expires, and on close() returns every token it ever accepted  *)
(* that has not expired, for the post hook to revoke.  Every token string  *)
(* is a member of Tokens; times are ticks of one clock.                    *)
(***************************************************************************)
EXTENDS Integers, FiniteSets

CONSTANTS
  Tokens,       \* token values the STS can mint
  First,        \* the token the setup step exchanged and saved in its state
  NoToken,      \* "no token": the empty string of value(), or no answer yet
  RenewBefore,  \* RENEW_BEFORE_MS
  RetryAfter,   \* RETRY_AFTER_MS
  MaxLease,     \* bound: longest lease the STS grants
  MaxTime       \* bound: the last tick of the clock

ASSUME LeaseConstants ==
  /\ First \in Tokens
  /\ NoToken \notin Tokens
  /\ RenewBefore \in Nat \ {0}
  /\ RetryAfter \in Nat \ {0}
  /\ MaxLease \in Nat \ {0}
  /\ MaxTime \in Nat \ {0}

VARIABLES
  now,        \* Date.now()
  token,      \* the current token
  expires,    \* its expiry
  renewAt,    \* when renewal of the current token is due
  retryAt,    \* no renewal may start before this time
  timer,      \* when the armed timer fires, or Disarmed
  loading,    \* the renewal in flight: "idle", "exchanging" or "discarding"
  closed,     \* close() was called
  tokens,     \* the Map of accepted tokens to expiry; 0 when absent
  collected,  \* what close() returned
  alive,      \* the provider process runs
  inflight,   \* the STS's answer to the exchange in flight, or the token
              \* being discarded; NoToken when there is none
  issued,     \* at the STS: expiry of each minted token, 0 when not minted
  revoked,    \* at the STS: revoked tokens
  abandoned   \* observation: tokens some failure left to expire by themselves

leaseVars == <<token, expires, renewAt, retryAt, timer, loading, closed,
               tokens, collected, alive>>
stsVars == <<inflight, issued, revoked, abandoned>>
vars == <<now, leaseVars, stsVars>>

Disarmed == -1

Lower(a, b) == IF a <= b THEN a ELSE b
Higher(a, b) == IF a >= b THEN a ELSE b

TypeOK ==
  /\ now \in 1 .. MaxTime
  /\ token \in Tokens
  /\ expires \in Nat
  /\ renewAt \in Nat
  /\ retryAt \in Nat
  /\ timer \in Nat \cup {Disarmed}
  /\ loading \in {"idle", "exchanging", "discarding"}
  /\ closed \in BOOLEAN
  /\ tokens \in [Tokens -> Nat]
  /\ collected \in SUBSET Tokens
  /\ alive \in BOOLEAN
  /\ inflight \in Tokens \cup {NoToken}
  /\ issued \in [Tokens -> Nat]
  /\ revoked \in SUBSET Tokens
  /\ abandoned \in SUBSET Tokens

-----------------------------------------------------------------------------
(* Reading the lease.                                                      *)

Minted == {t \in Tokens : issued[t] # 0}
Has(t) == tokens[t] # 0

\* Mutant: close() gives back only the current token.
UnexpiredCurrentOnly == {t \in {token} : tokens[t] > now}
\* The accepted tokens that close() gives back.
Unexpired == {t \in Tokens : tokens[t] > now}

Unknown(S) == {t \in S \cap Tokens : ~Has(t)}
Live == {t \in Minted : issued[t] > now /\ t \notin revoked}

\* Mutant: value() does not look at closed.
ValueAfterClose == IF now < expires THEN token ELSE NoToken
\* value(): what the token server hands out.
Value == IF ~closed /\ now < expires THEN token ELSE NoToken

\* Mutants: a short lease is not renewed halfway; renewal is always due.
RenewDueFixed(e) == e - RenewBefore
RenewDueAtOnce(e) == now
\* Renewal of a lease that ends at e is due RenewBefore ahead of its end, or
\* halfway through what is left of a shorter one.
RenewDue(e) == e - Lower(RenewBefore, Higher(0, e - now) \div 2)

\* Mutants: a late answer, or one that ends sooner, is adopted.
RejectedButLate(t) == issued[t] <= now \/ t = token \/ issued[t] <= expires
RejectedButShorter(t) == closed \/ issued[t] <= now \/ t = token
\* An answer the lease may not adopt: it came after close(), it is no longer
\* valid, or it does not outlast the current token.
Rejected(t) ==
  \/ closed
  \/ issued[t] <= now
  \/ t = token
  \/ issued[t] <= expires

\* The Map after accepting t: expired entries are dropped.
Accept(t) ==
  [s \in Tokens |-> LET e == IF s = t THEN issued[t] ELSE tokens[s]
                    IN  IF e <= now THEN 0 ELSE e]

-----------------------------------------------------------------------------
(* Initial state: createSocketLease on the exchanged token.  Setup may     *)
(* have taken so long that the lease is already over.                      *)

Init ==
  /\ now = 1
  /\ token = First
  /\ expires \in 1 .. (1 + MaxLease)
  /\ renewAt = RenewDue(expires)
  /\ retryAt = 0
  /\ timer = Higher(renewAt, now)
  /\ loading = "idle"
  /\ closed = FALSE
  /\ tokens = [t \in Tokens |-> IF t = First THEN expires ELSE 0]
  /\ collected = {}
  /\ alive = TRUE
  /\ inflight = NoToken
  /\ issued = tokens
  /\ revoked = {}
  /\ abandoned = {}

-----------------------------------------------------------------------------
(* The provider.                                                           *)

\* The timer fires: one exchange starts.  renew() does nothing once closed,
\* and a running exchange is never joined by a second one.
Renew ==
  /\ alive /\ ~closed /\ loading = "idle"
  /\ timer # Disarmed /\ now >= timer
  /\ timer' = Disarmed
  /\ loading' = "exchanging"
  /\ UNCHANGED <<now, token, expires, renewAt, retryAt, closed, tokens,
                 collected, alive, stsVars>>

\* Mutant: the timer is not armed again.
SettleUnarmed(due) ==
  /\ retryAt' = now + RetryAfter
  /\ loading' = "idle"
  /\ inflight' = NoToken
  /\ UNCHANGED timer
\* The finally block of renew(): back off, then arm the timer again unless
\* the lease was closed meanwhile.
Settle(due) ==
  /\ retryAt' = now + RetryAfter
  /\ loading' = "idle"
  /\ inflight' = NoToken
  /\ timer' = IF closed THEN Disarmed ELSE Higher(due, retryAt')

\* The exchange returned a token that outlasts the current one.
Adopt(t) ==
  /\ alive /\ loading = "exchanging" /\ inflight = t
  /\ ~Rejected(t)
  /\ token' = t
  /\ expires' = issued[t]
  /\ tokens' = Accept(t)
  /\ renewAt' = RenewDue(issued[t])
  /\ Settle(renewAt')
  /\ abandoned' = abandoned \ {t}
  /\ UNCHANGED <<now, closed, collected, alive, issued, revoked>>

\* The exchange returned a token already accepted once: it is left alone,
\* since Aegis may be using it.
IgnoreRepeat(t) ==
  /\ alive /\ loading = "exchanging" /\ inflight = t
  /\ Rejected(t) /\ Has(t)
  /\ Settle(renewAt)
  /\ UNCHANGED <<now, token, expires, renewAt, closed, tokens, collected,
                 alive, issued, revoked, abandoned>>

\* Mutant: a repeated value is revoked as well.
DiscardRepeats(t) ==
  /\ alive /\ loading = "exchanging" /\ inflight = t
  /\ Rejected(t)
  /\ loading' = "discarding"
  /\ UNCHANGED <<now, token, expires, renewAt, retryAt, timer, closed, tokens,
                 collected, alive, stsVars>>

\* The exchange returned a token nobody has seen and the lease cannot use.
StartDiscard(t) ==
  /\ alive /\ loading = "exchanging" /\ inflight = t
  /\ Rejected(t) /\ ~Has(t)
  /\ loading' = "discarding"
  /\ UNCHANGED <<now, token, expires, renewAt, retryAt, timer, closed, tokens,
                 collected, alive, stsVars>>

\* discard() swallows a failed revocation; the token is left to its expiry.
FinishDiscard ==
  /\ alive /\ loading = "discarding"
  /\ Settle(renewAt)
  /\ \/ /\ revoked' = revoked \cup {inflight}
        /\ UNCHANGED abandoned
     \/ /\ abandoned' = abandoned \cup {inflight}
        /\ UNCHANGED revoked
  /\ UNCHANGED <<now, token, expires, renewAt, closed, tokens, collected,
                 alive, issued>>

\* The exchange throws (budget spent, refused, invalid answer).  Whatever the
\* STS minted for it is unknown to everyone.
ExchangeFails ==
  /\ alive /\ loading = "exchanging"
  /\ Settle(renewAt)
  /\ abandoned' = abandoned \cup Unknown({inflight})
  /\ UNCHANGED <<now, token, expires, renewAt, closed, tokens, collected,
                 alive, issued, revoked>>

\* close(): freeze renewal and hand over the unexpired tokens.
Close ==
  /\ alive /\ ~closed
  /\ closed' = TRUE
  /\ timer' = Disarmed
  /\ collected' = Unexpired
  /\ UNCHANGED <<now, token, expires, renewAt, retryAt, loading, tokens, alive,
                 stsVars>>

\* The runner is reclaimed or the process is killed; what only the provider
\* knew is left to its expiry.  First is saved in the step's state.
Die ==
  /\ alive
  /\ alive' = FALSE
  /\ timer' = Disarmed
  /\ abandoned' = abandoned \cup Unknown({inflight})
                           \cup {t \in Tokens \ {First} : ~closed /\ Has(t)}
  /\ UNCHANGED <<now, token, expires, renewAt, retryAt, loading, closed,
                 tokens, collected, inflight, issued, revoked>>

-----------------------------------------------------------------------------
(* The Socket STS, as far as its answers to one exchange go.               *)

\* It mints a new token; the answer is on its way.
StsMints(t) ==
  /\ alive /\ loading = "exchanging" /\ inflight = NoToken
  /\ t \notin Minted
  /\ \E e \in (now + 1) .. (now + MaxLease) : issued' = [issued EXCEPT ![t] = e]
  /\ inflight' = t
  /\ UNCHANGED <<now, leaseVars, revoked, abandoned>>

\* It replays the result of an exchange it already served.
StsRepeats(t) ==
  /\ alive /\ loading = "exchanging" /\ inflight = NoToken
  /\ t \in Minted
  /\ inflight' = t
  /\ UNCHANGED <<now, leaseVars, issued, revoked, abandoned>>

\* The answer is lost on the way; the exchange retries within its budget.
AnswerLost ==
  /\ loading = "exchanging" /\ inflight # NoToken
  /\ inflight' = NoToken
  /\ abandoned' = abandoned \cup Unknown({inflight})
  /\ UNCHANGED <<now, leaseVars, issued, revoked>>

Tick ==
  /\ now < MaxTime
  /\ now' = now + 1
  /\ UNCHANGED <<leaseVars, stsVars>>

-----------------------------------------------------------------------------
ExchangeReturns(t) == Adopt(t) \/ IgnoreRepeat(t) \/ StartDiscard(t)

Provider == Renew \/ FinishDiscard \/ ExchangeFails \/ \E t \in Tokens : ExchangeReturns(t)
Sts == AnswerLost \/ \E t \in Tokens : StsMints(t) \/ StsRepeats(t)

Next == Provider \/ Sts \/ Close \/ Die \/ Tick

Spec == Init /\ [][Next]_vars

-----------------------------------------------------------------------------
(* Properties.                                                             *)

\* Who answers for a minted token: the lease, then whoever called close(),
\* or the exchange or revocation in flight, or a failure that was noticed.
Accounted(t) ==
  \/ t \in abandoned
  \/ t = inflight
  \/ IF closed THEN t \in collected ELSE Has(t)

\* No minted token is forgotten: each one that still works is either held,
\* collected by close(), in flight, or was left to its expiry by a failure
\* (a lost answer, a failed revocation, a dead provider).  This is what the
\* comment at socket-lease.cjs:40 wants of a mint that races the cleanup.
NoForgottenToken == \A t \in Live : Accounted(t)

\* While the lease is open, no token it accepted is revoked: Aegis may be
\* using it (socket-lease.cjs:58).
AcceptedNotRevoked == ~closed => \A t \in Tokens : Has(t) => t \notin revoked

\* An open lease never stops renewing: either an exchange is under way or the
\* timer of the next one is armed; a closed lease leaves no timer behind.
RenewalArmed == alive => (timer # Disarmed <=> ~closed /\ loading = "idle")

\* Few accepted tokens are unexpired at once: they were accepted RetryAfter
\* apart, all but the oldest in the last RenewBefore of the oldest one's life.
\* The post hook refuses a longer list (token-provider.cjs:89).
FewUnexpired == (Cardinality(Unexpired) - 2) * RetryAfter < RenewBefore

\* Tokens accepted since t that outlast it.
Later(t) == {u \in Unexpired : tokens[u] > tokens[t]}

\* The argument for FewUnexpired: a renewal starts only when it is due and the
\* back-off is over, so every token accepted after t is paid for by RetryAfter
\* of the time that passed since t was due for renewal.
RenewalsAreSpaced ==
  /\ timer # Disarmed => timer >= retryAt /\ timer >= renewAt
  /\ loading # "idle" => now >= retryAt /\ now >= renewAt
  /\ renewAt >= expires - RenewBefore
  /\ retryAt <= now + RetryAfter
  /\ IsFiniteSet({t \in Tokens : Has(t)})
  /\ \A s, t \in Tokens : Has(s) /\ Has(t) /\ tokens[s] = tokens[t] => s = t
  /\ \A t \in Unexpired \ {token} :
       Cardinality(Later(t)) * RetryAfter <= retryAt + RenewBefore - tokens[t]

\* The current token is the accepted one that lasts longest, so a later
\* renewal never shortens what Aegis was given.
CurrentOutlastsOthers ==
  \A t \in Tokens : Has(t) => issued[t] <= expires /\ tokens[t] = issued[t]

\* The inductive invariant behind the properties above.
\* The map agrees with the STS, the current token is in it and lasts longest.
MapAgrees ==
  /\ tokens[token] = expires /\ expires > 0
  /\ CurrentOutlastsOthers

\* Only an exchange or a discard has an answer, which is a minted token; a
\* discarded one was never accepted and, while the lease is open, is useless.
InflightAgrees ==
  /\ loading = "idle" => inflight = NoToken
  /\ inflight # NoToken => inflight \in Minted
  /\ loading = "discarding" =>
       /\ inflight # NoToken /\ ~Has(inflight)
       /\ closed \/ issued[inflight] <= expires \/ issued[inflight] <= now

\* What was revoked before closing can never be adopted again.
RevokedAreUseless ==
  /\ revoked \subseteq Minted
  /\ ~closed => \A t \in revoked : issued[t] <= expires \/ issued[t] <= now

\* close() returned every accepted token that is still unexpired.
ClosedCollected ==
  closed => \A t \in Tokens : Has(t) /\ issued[t] > now => t \in collected

LeaseCore ==
  /\ TypeOK
  /\ MapAgrees
  /\ InflightAgrees
  /\ RevokedAreUseless
  /\ ClosedCollected
  /\ NoForgottenToken
  /\ RenewalArmed

\* The lease alone also revokes nothing it holds; a post hook that gave up on
\* the provider may (TokenServer).
LeaseInv == LeaseCore /\ AcceptedNotRevoked

\* Closing is final: afterwards nothing is accepted, and the lease hands out
\* neither its current token nor a new one.
ClosedIsFinal ==
  [][closed => closed' /\ UNCHANGED <<token, tokens, collected>> /\ Value' = NoToken]_vars
=============================================================================
