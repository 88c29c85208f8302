---------------------------- MODULE MCStatusTask ----------------------------
(* StatusTask for TLC, with what a comment says of the same code.          *)
EXTENDS StatusTask

(* BootReport: since_pub_s starts at its maximum to "publish on the first  *)
(* pass" (app_main.c:145): the first pass that finds the device connected  *)
(* publishes the diagnostics.                                              *)
BootReport ==
  [][task.pc = "pass" /\ task'.pc # "pass" /\ connected /\ ~reported =>
       task'.pc = "report"]_vars
=============================================================================
