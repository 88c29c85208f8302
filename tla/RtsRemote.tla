------------------------------ MODULE RtsRemote ------------------------------
(***************************************************************************)
(* What a remote control with a rolling code promises its receiver, with   *)
(* nothing said about tasks, RAM or forms: the counter kept in durable     *)
(* memory is always ahead of every code that has been on air, and each     *)
(* code on air is ahead of the one before it.  A restart can therefore     *)
(* happen at any moment: it resumes from durable.                          *)
(***************************************************************************)
EXTENDS Naturals

VARIABLES
  durable,   \* the counter a restart resumes from
  last,      \* the last counter on air
  excused    \* flash has failed, the user has turned the counter back, or
             \* the codes are used up

remoteVars == <<durable, last, excused>>

RemoteInit ==
  /\ durable \in Nat /\ last \in Nat /\ durable > last
  /\ excused = FALSE

(* A frame goes out: ahead of the last one, behind the durable counter. *)
Transmit ==
  /\ last' \in Nat /\ last < last' /\ last' < durable
  /\ UNCHANGED <<durable, excused>>

(* The durable counter moves, but never back to a code already used. *)
Reserve ==
  /\ durable' \in Nat /\ durable' > last
  /\ UNCHANGED <<last, excused>>

(* Once excused the remote promises nothing. *)
Excuse ==
  /\ excused' = TRUE
  /\ durable' \in Nat /\ last' \in Nat

RemoteNext == (~excused /\ (Transmit \/ Reserve)) \/ Excuse

RemoteSpec == RemoteInit /\ [][RemoteNext]_remoteVars
=============================================================================
