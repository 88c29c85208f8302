-------------------------------- MODULE MCWire --------------------------------
(***************************************************************************)
(* Wire over bounded inputs: every input is an initial state, with what    *)
(* the code makes of it.  A receiver, written independently, says what     *)
(* should have come out of a command.                                      *)
(***************************************************************************)
EXTENDS Wire, SomfyFrame

CONSTANTS
  Buttons, Counters, Remotes,  \* arguments of a command
  Chars, MaxValue,             \* what people type: characters, their number
  OutLens, BodyLens, Arrivals  \* sizes of the buffers, characters that arrive

Values == UNION {[1..n -> Chars] : n \in 0..MaxValue}

Commands == [kind : {"command"}, button : Buttons, counter : Counters, remote : Remotes]
Forms == [kind : {"form"}, ssid : Values, pass : Values, outLen : OutLens,
          bodyLen : BodyLens, arrived : Arrivals]

-----------------------------------------------------------------------------
(* A receiver: level changes, symbols of 640 us, bits, bytes. *)

FirstHalf(s)  == SubSeq(s, 1, Len(s) \div 2)
SecondHalf(s) == SubSeq(s, Len(s) \div 2 + 1, Len(s))

Join(a, b) ==
  IF a = <<>> \/ b = <<>> \/ Last(a)[1] # Head(b)[1] THEN a \o b
  ELSE Front(a) \o << <<Head(b)[1], Last(a)[2] + Head(b)[2]>> >> \o Tail(b)

RECURSIVE Runs(_)
Runs(pulses) ==
  IF Len(pulses) > 1 THEN Join(Runs(FirstHalf(pulses)), Runs(SecondHalf(pulses)))
  ELSE SelectSeq(pulses, LAMBDA p : p[2] > 0)

(* Where the frames begin: the software sync. *)
Starts(runs) == SetToSortSeq({r \in DOMAIN runs : runs[r] = <<1, SW_SYNC_HIGH_US>>}, <)

Chips(runs, r) ==
  LET window == SubSeq(runs, r + 1, Min({r + 113, Len(runs)}))
  IN  FlattenSeq([i \in DOMAIN window |->
        [k \in 1..window[i][2] \div SYMBOL_US |-> window[i][1]]])

(* The chip in the second half of a bit is the bit; the first is its opposite. *)
Byte(chips, b) ==
  FoldLeft(LAMBDA n, i : 2 * n + chips[16 * b + 2 * i + 1], 0, <<1, 2, 3, 4, 5, 6, 7, 8>>)

Received(runs, r) ==
  LET chips == Chips(runs, r)
      frame == [b \in 1..7 |-> Byte(chips, b - 1)]
      clear == [b \in 1..7 |-> IF b = 1 THEN frame[1] ELSE frame[b] ^^ frame[b - 1]]
  IN  [valid   |-> /\ \A i \in 1..56 : chips[2 * i] # chips[2 * i + 1]
                   /\ XorNibbles(clear) = 0 /\ clear[1] = KEY,
       button  |-> clear[2] \div 16,
       code    |-> 256 * clear[3] + clear[4],
       remote  |-> 65536 * clear[5] + 256 * clear[6] + clear[7],
       syncs   |-> LET before == Max({0} \cup {s \in 1..r - 1 :
                                                 runs[s][2] >= INTERFRAME_US})
                   IN  Cardinality({s \in before + 1..r - 1 :
                                     runs[s] = <<1, 4 * SYMBOL_US>>})]

-----------------------------------------------------------------------------
Outcome(i) == IF i.kind = "command"
              THEN Transmission(i.button, i.counter, i.remote)
              ELSE Fields(i)

Init == /\ input \in Commands \cup Forms
        /\ output = Outcome(input)
Next == UNCHANGED <<input, output>>
Spec == Init /\ [][Next]_<<input, output>>

(* FramesReceived: whatever the bits of a frame, a receiver that only sees *)
(* level changes gets the wake-up frame and two repeats, each with a valid *)
(* checksum, the button, the address, and the counter modulo 2^16          *)
(* (build_frame, emit_frame, somfy_rts_send).                              *)
FramesReceived ==
  input.kind = "command" =>
    LET runs   == Runs(output)
        starts == Starts(runs)
    IN  /\ runs[1] = WAKE[1] /\ runs[2] = WAKE[2]
        /\ Len(starts) = 3
        /\ \A n \in 1..3 :
             Received(runs, starts[n]) =
               [valid |-> TRUE, button |-> input.button, code |-> input.counter % 65536,
                remote |-> input.remote, syncs |-> IF n = 1 THEN 2 ELSE 7]

=============================================================================
