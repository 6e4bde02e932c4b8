---------------------------- MODULE MCCargoPublish ----------------------------
(* Model-checking instance of CargoPublish: a chain of dependencies, a     *)
(* dev-dependency cycle through a chain, a dev-dependency between two      *)
(* crates, and a workspace that cannot be ordered.                         *)
EXTENDS CargoPublish, TLC

None == [c \in Crates |-> {}]

Chain == [hard |-> [None EXCEPT ![2] = {1}, ![3] = {2}], soft |-> None]
DevCycle == [hard |-> [None EXCEPT ![1] = {2}], soft |-> [None EXCEPT ![2] = {1, 3}]]
DevAfter == [hard |-> None, soft |-> [None EXCEPT ![1] = {3}]]
HardCycle == [hard |-> [None EXCEPT ![1] = {2}, ![2] = {1}], soft |-> None]

MCWorkspaces == {Chain, DevCycle, DevAfter, HardCycle}

JobSymmetry == Permutations(Jobs)
=============================================================================
