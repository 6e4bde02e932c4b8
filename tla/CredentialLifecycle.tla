------------------------- MODULE CredentialLifecycle -------------------------
(***************************************************************************)
(* What a job promises about the credentials an STS mints for it: a        *)
(* credential in use is never revoked under its user, retiring the holder  *)
(* surrenders everything it holds, nothing is taken into use after that,   *)
(* and a surrendered credential does not stay usable.                      *)
(***************************************************************************)
CONSTANT Credentials

VARIABLES
  status,   \* the stage each credential is in
  retired   \* the holder was retired

vars == <<status, retired>>

Stages == {"unissued",    \* not minted
           "outstanding", \* minted, on its way to the holder or to revocation
           "held",        \* in use
           "surrendered", \* given up for revocation
           "stranded",    \* lost by a failure; only its expiry ends it
           "revoked", "expired"}
Ended == {"revoked", "expired"}

TypeOK == status \in [Credentials -> Stages] /\ retired \in BOOLEAN

\* Setup hands the holder a first credential, possibly one already expired.
Init ==
  /\ retired = FALSE
  /\ \E c \in Credentials, s \in {"held", "expired"} :
       status = [d \in Credentials |-> IF d = c THEN s ELSE "unissued"]

Move(c, from, to) ==
  /\ status[c] \in from
  /\ status' = [status EXCEPT ![c] = to]

Issue(c) == Move(c, {"unissued"}, "outstanding") /\ UNCHANGED retired

\* An answer that was given up for lost may still be replayed.
Hold(c) ==
  /\ ~retired
  /\ Move(c, {"outstanding", "stranded"}, "held")
  /\ UNCHANGED retired

\* Only a credential in use may not be revoked.
Revoke(c) ==
  /\ Move(c, {"outstanding", "surrendered", "stranded", "expired"}, "revoked")
  /\ UNCHANGED retired

\* The holder is retired: every credential it holds is surrendered, or, when
\* nobody listens any more, stranded.
Retire ==
  /\ ~retired /\ retired' = TRUE
  /\ \E to \in {"surrendered", "stranded"} :
       status' = [c \in Credentials |-> IF status[c] = "held" THEN to ELSE status[c]]

\* Cleanup gives up one credential on the strength of its own records.
Surrender(c) == Move(c, {"held"}, "surrendered") /\ UNCHANGED retired

\* A failure: some credentials are left to their expiry.
Strand(S) ==
  /\ \A c \in S : status[c] \in {"outstanding", "held", "surrendered"}
  /\ status' = [c \in Credentials |-> IF c \in S THEN "stranded" ELSE status[c]]
  /\ UNCHANGED retired

Expire(S) ==
  /\ \A c \in S : status[c] \notin Ended \cup {"unissued"}
  /\ status' = [c \in Credentials |-> IF c \in S THEN "expired" ELSE status[c]]
  /\ UNCHANGED retired

Next ==
  \/ \E c \in Credentials : Issue(c) \/ Hold(c) \/ Revoke(c) \/ Surrender(c)
  \/ Retire
  \/ \E S \in SUBSET Credentials : Strand(S) \/ Expire(S)

Spec == Init /\ [][Next]_vars

\* A surrendered credential does not stay usable: it is revoked, it expires,
\* or its revocation visibly failed.
SurrenderedEnds ==
  \A c \in Credentials :
    status[c] = "surrendered" ~> status[c] \in Ended \cup {"stranded"}
=============================================================================
