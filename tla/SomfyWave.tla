------------------------------- MODULE SomfyWave -------------------------------
(***************************************************************************)
(* How a frame becomes the symbols handed to the RMT peripheral            *)
(* (components/somfy_rts/somfy_rts.c, the emitter and emit_frame).         *)
(*                                                                         *)
(* Pure operators, with the numbers of the code.  A pulse is a pair of a   *)
(* level and a duration in microseconds, which is also the RMT's tick.     *)
(* Two pulses make a symbol; the emitter is the sequence of pulses         *)
(* appended so far, so that "half" is an odd length.  The bytes of the     *)
(* frame are SomfyFrame's, a module apart for its bit operations.          *)
(***************************************************************************)
EXTENDS Integers, Sequences, SequencesExt

SYMBOL_US       == 640
WAKE            == << <<1, 9415>>, <<0, 89565>> >>
SW_SYNC_HIGH_US == 4550
INTERFRAME_US   == 30415
RMT_MAX_TICKS   == 32767
SYM_CAP         == 208

(* A bug in emit: the chunk is not limited to the 15-bit field.            *)
EmitWhole(level, us) == << <<level, us>> >>

(* A duration longer than the 15-bit field is split. *)
Emit(level, us) ==
  LET n == (us + RMT_MAX_TICKS - 1) \div RMT_MAX_TICKS
  IN  [i \in 1..n |-> <<level, IF i < n THEN RMT_MAX_TICKS
                                        ELSE us - (n - 1) * RMT_MAX_TICKS>>]

EmitAll(pulses) == FlattenSeq([i \in DOMAIN pulses |-> Emit(pulses[i][1], pulses[i][2])])

BitAt(frame, i) == (frame[i \div 8 + 1] \div 2 ^ (7 - (i % 8))) % 2

(* Most significant bit first: 1 rises in the middle of the bit, 0 falls.  *)
Manchester(frame) ==
  FlattenSeq([n \in 1..56 |->
    LET bit == BitAt(frame, n - 1)
    IN  << <<1 - bit, SYMBOL_US>>, <<bit, SYMBOL_US>> >>])

(* sync pulses of the hardware sync, then the software sync. *)
Sync(sync) ==
  FlattenSeq([i \in 1..sync |-> << <<1, 4 * SYMBOL_US>>, <<0, 4 * SYMBOL_US>> >>])
    \o << <<1, SW_SYNC_HIGH_US>>, <<0, SYMBOL_US>> >>

EmitFrame(frame, sync) ==
  EmitAll(  (IF sync = 2 THEN WAKE ELSE <<>>)
         \o Sync(sync) \o Manchester(frame) \o << <<0, INTERFRAME_US>> >>)

(* A half symbol at the end is closed with RMT's end marker. *)
EmitFinish(pulses) == IF Len(pulses) % 2 = 1 THEN Append(pulses, <<0, 0>>) ELSE pulses

(* A wake-up frame and two repeats. *)
Wave(frame) ==
  EmitFinish(EmitFrame(frame, 2) \o EmitFrame(frame, 7) \o EmitFrame(frame, 7))

(* somfy_rts_send: with more than SYM_CAP symbols nothing is sent.         *)
Render(frame) == LET all == Wave(frame) IN IF Len(all) <= 2 * SYM_CAP THEN all ELSE <<>>

-----------------------------------------------------------------------------
(* Half and half, so that a long transmission is not a deep recursion.     *)
Airtime(pulses) ==
  LET time[span \in (1..Len(pulses)) \X (1..Len(pulses))] ==
        LET mid == (span[1] + span[2]) \div 2
        IN  IF span[1] = span[2] THEN pulses[span[1]][2]
            ELSE time[<<span[1], mid>>] + time[<<mid + 1, span[2]>>]
  IN  IF pulses = <<>> THEN 0 ELSE time[<<1, Len(pulses)>>]

HalfASecond == 495000..510000

(* What the peripheral and the wait for it can take: whole symbols, as     *)
(* many as there is room for, 15-bit durations of which only the last may  *)
(* be the end marker 0, about half a second of the two that                *)
(* somfy_rts_send waits.                                                   *)
Fits(pulses) ==
  /\ pulses # <<>> /\ Len(pulses) % 2 = 0 /\ Len(pulses) <= 2 * SYM_CAP
  /\ \A i \in DOMAIN pulses :
       /\ pulses[i][2] <= RMT_MAX_TICKS
       /\ pulses[i][2] = 0 => i = Len(pulses)
  /\ Airtime(pulses) \in HalfASecond
=============================================================================
