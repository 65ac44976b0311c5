------------------------------ MODULE MCChatTurns ------------------------------
(* Instance of ChatTurns for TLC. *)
EXTENDS ChatTurns, TLC

Symmetric == Permutations(Turns)
=============================================================================
