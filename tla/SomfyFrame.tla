------------------------------ MODULE SomfyFrame ------------------------------
(***************************************************************************)
(* What one command puts on air: the seven bytes of a frame, and the wave  *)
(* made of them (components/somfy_rts/somfy_rts.c, build_frame and the     *)
(* rendering part of somfy_rts_send).                                      *)
(***************************************************************************)
EXTENDS SomfyWave, Bitwise

KEY == 167     \* 0xA7, the first byte of every frame

(* The fields in clear, big endian, the checksum nibble still 0. *)
Clear(button, code, remote) ==
  << KEY, 16 * button, code \div 256, code % 256,
     (remote \div 65536) % 256, (remote \div 256) % 256, remote % 256 >>

XorNibbles(bytes) == FoldLeft(LAMBDA x, b : x ^^ ((b % 16) ^^ (b \div 16)), 0, bytes)

WithChecksum(bytes) == [bytes EXCEPT ![2] = @ + XorNibbles(bytes)]

(* A bug in build_frame: each byte is combined with the plain one before.  *)
ObfuscatePlain(bytes) ==
  [i \in 1..7 |-> IF i = 1 THEN bytes[1] ELSE bytes[i] ^^ bytes[i - 1]]

(* Each byte is combined with the obfuscated one before it. *)
Obfuscate(bytes) ==
  FoldLeft(LAMBDA done, b : Append(done, b ^^ Last(done)), <<Head(bytes)>>, Tail(bytes))

BuildFrame(button, code, remote) ==
  Obfuscate(WithChecksum(Clear(button, code, remote)))

-----------------------------------------------------------------------------
(* somfy_rts_send: the counter is cut to 16 bits. *)
Transmission(button, counter, remote) == Render(BuildFrame(button, counter % 65536, remote))
===============================================================================
