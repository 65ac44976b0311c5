------------------------------- MODULE MCConfigPoll -------------------------------
(* Instances of ConfigPoll.                                                   *)
EXTENDS ConfigPoll

CONSTANTS openrouter, requesty, plain, tagged

(* requesty takes a name without its tag.                                     *)
MCNormal ==
  [p \in {openrouter, requesty} |->
    [m \in {plain, tagged} |->
      IF p = requesty THEN plain ELSE m]]
=============================================================================
