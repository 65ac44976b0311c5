----------------------------- MODULE MCResponseFlow -----------------------------
(* ResponseFlow on three requests: two of one session, one of another. *)
EXTENDS ResponseFlow, TLC

CONSTANTS r1, r2, r3, s1, s2

TwoAndOne == r1 :> s1 @@ r2 :> s1 @@ r3 :> s2
AllInOne  == r1 :> s1 @@ r2 :> s1 @@ r3 :> s1
PairInOne == r1 :> s1 @@ r2 :> s1
=============================================================================
