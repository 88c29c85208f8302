---------------------------- MODULE MCConfigStore ----------------------------
(***************************************************************************)
(* ConfigStore for TLC: every form, one or two of them in a behaviour, and *)
(* numbers on both sides of every limit.                                   *)
(***************************************************************************)
EXTENDS ConfigStore

MCSessions == {{"wifi", "hostname"}, {"somfy"}, {"mqtt"}, {"cover", "hostname"}}

(* 271 is 15 in eight bits; 2^24 + 7 is 7 in 24, 2^24 no address at all. *)
MCNumbers == [remote_addr |-> {2 ^ 24, 2 ^ 24 + 7}, tx_gpio |-> {None, 0, 40, 271},
              pub_ivl |-> {None, 0, 4000}, cover_dn |-> {None, 0, 7}]
=============================================================================
