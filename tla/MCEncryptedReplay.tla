---------------------------- MODULE MCEncryptedReplay ----------------------------
(* Two upstreams with two models each, an item of each upstream, two         *)
(* handlers of one session.                                                 *)
EXTENDS EncryptedReplay, TLC

CONSTANTS r1, r2, sA, aa, ab, ma, mb, ia, ib

MCSessionOf == [r \in Requests |-> sA]
MCMintedBy  == (ia :> <<aa, ma>>) @@ (ib :> <<ab, ma>>)

(* The handlers may be exchanged, and so may the upstreams with their items. *)
Upstreams == {(aa :> aa) @@ (ab :> ab) @@ (ia :> ia) @@ (ib :> ib),
              (aa :> ab) @@ (ab :> aa) @@ (ia :> ib) @@ (ib :> ia)}
Exchange  == {p @@ q : p \in Permutations(Requests), q \in Upstreams}
=============================================================================
