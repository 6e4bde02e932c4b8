------------------------- MODULE MCChangesetsRelease -------------------------
(* Model-checking instance of ChangesetsRelease: package 1 depends on       *)
(* package 2; the second push raises one of them.                           *)
EXTENDS ChangesetsRelease

MCDeps == [p \in Packages |-> IF p = 1 THEN Packages \ {1} ELSE {}]

MCCommits == <<[p \in Packages |-> 1], [p \in Packages |-> IF p = 1 THEN 1 ELSE 2]>>
\* At the first push, a fixture reuses the name of package 2.
MCAmbiguous == <<Packages \cap {2}, {}>>
=============================================================================
