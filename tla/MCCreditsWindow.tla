----------------------------- MODULE MCCreditsWindow -----------------------------
(* Instances of CreditsWindow: what the provider column of a row is.          *)
EXTENDS CreditsWindow, TLC

CONSTANTS openrouter, requesty, deepinfra

(* MCPTAP_OPENROUTER_PROVIDER is empty. *)
Unpinned == [p \in Providers |-> p]

(* It names the provider OpenRouter shall use. *)
Pinned == [Unpinned EXCEPT ![openrouter] = deepinfra]

Symmetry == Permutations(Requests)
=============================================================================
