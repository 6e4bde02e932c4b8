---------------------------- MODULE MCSocketLease ----------------------------
(* Model-checking instance of SocketLease. *)
EXTENDS SocketLease, TLC

\* The STS treats all tokens but the first alike.
TokenSymmetry == Permutations(Tokens \ {First})
=============================================================================
