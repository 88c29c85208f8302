----------------------------- MODULE MCSomfyRts -----------------------------
(* SomfyRts for TLC, with what the documentation says of the same code.    *)
EXTENDS SomfyRts

(***************************************************************************)
(* Bounds of the runs, which the theorems do without: in one behaviour     *)
(* either users type rolling codes or flash fails, and once it has failed  *)
(* one command less is sent, and no PROG.                                  *)
(***************************************************************************)
Typed == manual # "never" \/ http.pc \in {"rollNvs", "rollRam"}

MCNext ==
  /\ Next
  /\ ~(Typed' /\ faulted' # {})
  /\ rf.pc = "idle" /\ rf'.pc = "read" /\ faulted # {} =>
       cfg.rolling < MaxCode - 1 /\ rf'.button = "move"

MCSpec == Init /\ [][MCNext]_vars /\ WF_vars(Send) /\ WF_vars(Handler)

(* UpdatedCodeIsNext: the form asks for the "Next rolling code" and says   *)
(* "Rolling code updated" (config_server.c:434, 587): from then on the     *)
(* device counts from that number.                                         *)
UpdatedCodeIsNext == cfg.rolling >= asked.code
=============================================================================
