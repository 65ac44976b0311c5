---------------------------- MODULE MCChatConversion ----------------------------
(* Instance of ChatConversion for TLC. *)
EXTENDS ChatConversion
=============================================================================
