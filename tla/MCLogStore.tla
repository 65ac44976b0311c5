-------------------------------- MODULE MCLogStore --------------------------------
(* Instances of LogStore.                                                     *)
EXTENDS LogStore, TLC

Symmetry == Permutations(Handlers)
=============================================================================
