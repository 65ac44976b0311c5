------------------------------ MODULE ToolCallGate ------------------------------
(***************************************************************************)
(* What the tool-call hook promises about a batch of client tool calls,     *)
(* without requests, sessions, stores or scripts: the batch is withheld,    *)
(* then settled once and for good.  It is granted, and at most one client   *)
(* receives it, or refused, or dropped undecided.                           *)
(* (mcptap/tool_hook.py, module docstring, steps 1 to 4.)                   *)
(***************************************************************************)
CONSTANTS Batches, Clients

VARIABLES
  stage,      (* of each batch: unseen, held, granted, refused, dropped *)
  receivers   (* the clients that received the calls of a batch          *)

vars == <<stage, receivers>>

Init ==
  /\ stage = [b \in Batches |-> "unseen"]
  /\ receivers = [b \in Batches |-> {}]

Stay(b) == stage'[b] = stage[b] /\ receivers'[b] = receivers[b]

(* The model's response is saved instead of being passed on. *)
Hold(b) ==
  /\ stage[b] = "unseen"
  /\ stage'[b] = "held"
  /\ receivers'[b] = {}

(* The hook allows: one client gets the calls, or none if handing over fails. *)
Grant(b) ==
  /\ stage[b] = "held"
  /\ stage'[b] = "granted"
  /\ \/ receivers'[b] = {}
     \/ \E c \in Clients : receivers'[b] = {c}

(* The hook blocks or fails, or the batch is discarded without a decision. *)
Reject(b) ==
  /\ stage[b] = "held"
  /\ stage'[b] \in {"refused", "dropped"}
  /\ receivers'[b] = {}

(* Batches evolve independently: one step of the system may settle several. *)
Next == \A b \in Batches : Stay(b) \/ Hold(b) \/ Grant(b) \/ Reject(b)

Spec == Init /\ [][Next]_vars

=============================================================================
