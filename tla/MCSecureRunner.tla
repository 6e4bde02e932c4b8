---------------------------- MODULE MCSecureRunner ----------------------------
(* Model-checking instance of SecureRunner. *)
EXTENDS SecureRunner, TLC

InvocationSymmetry == Permutations(Invocations)
=============================================================================
