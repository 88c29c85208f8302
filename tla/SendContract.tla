----------------------------- MODULE SendContract -----------------------------
(***************************************************************************)
(* What somfy_rts_send is for the tasks around it, with nothing said about *)
(* the lock, the two copies of the counter or the waveform: a command      *)
(* takes one code, at one moment of its own, or none; nothing else moves   *)
(* the counter; and a power failure leaves it where the command had got.   *)
(* SomfyRts shows that its steps amount to this, and CommandBridge is      *)
(* built on it.                                                            *)
(***************************************************************************)
EXTENDS Naturals

VARIABLES
  code,      \* g_config.rolling_code
  phase,     \* the command: none, "asked" for, its code "taken"
  excused    \* flash has failed or the user has set the code

contractVars == <<code, phase, excused>>

ContractInit ==
  /\ code \in Nat
  /\ phase = "idle"
  /\ excused = FALSE

Begin ==
  /\ phase = "idle" /\ phase' = "asked"
  /\ UNCHANGED <<code, excused>>

(* From here on the rest of the device sees the next code. *)
Take ==
  /\ phase = "asked" /\ phase' = "taken"
  /\ code' = code + 1
  /\ UNCHANGED excused

(* With or without an error; without one only after Take. *)
Return ==
  /\ phase # "idle" /\ phase' = "idle"
  /\ UNCHANGED <<code, excused>>

(* Flash is written before RAM: a restart may find a code already taken. *)
PowerLoss ==
  /\ phase' = "idle"
  /\ code' \in IF phase = "asked" THEN {code, code + 1} ELSE {code}
  /\ UNCHANGED excused

(* Once excused the counter may be anything. *)
Excuse ==
  /\ excused' = TRUE
  /\ code' \in Nat /\ phase' \in {"idle", "asked", "taken"}

ContractNext == (~excused /\ (Begin \/ Take \/ Return \/ PowerLoss)) \/ Excuse

ContractSpec == ContractInit /\ [][ContractNext]_contractVars
=============================================================================
