---------------------------------- MODULE Wire ----------------------------------
(***************************************************************************)
(* What goes through the firmware's two codecs: a command in, the pulses   *)
(* of its transmission out; a form in, its fields out.  A browser, written *)
(* from what a form sends, says what should have come out of a form.       *)
(* MCWire chooses the inputs.                                              *)
(***************************************************************************)
EXTENDS SomfyWave, FormFields

VARIABLES input, output

-----------------------------------------------------------------------------
(* A browser: letters, digits and * - . _ as they are, the rest escaped. *)

HexChar(d) == IF d < 10 THEN 48 + d ELSE 65 + d - 10
AsIs == (97..122) \cup (65..90) \cup (48..57) \cup {42, 45, 46, 95}
Escape(c) ==
  IF c \in AsIs THEN <<c>>
  ELSE IF c = Space THEN <<Plus>>
  ELSE <<Percent, HexChar(c \div 16), HexChar(c % 16)>>
Encode(v) == FlattenSeq([i \in DOMAIN v |-> Escape(v[i])])

SsidKey == <<115, 115>>   \* "ss"
PassKey == <<112>>        \* "p"
Sent(f) == SsidKey \o <<Equals>> \o Encode(f.ssid) \o <<Amp>>
             \o PassKey \o <<Equals>> \o Encode(f.pass)

Fields(f) ==
  LET body == ReadBody(Sent(f), f.arrived, f.bodyLen)
  IN  [ssid |-> GetField(body, SsidKey, f.outLen),
       pass |-> GetField(body, PassKey, f.outLen)]

Arrives(f) == Len(Sent(f)) <= f.arrived /\ Len(Sent(f)) < f.bodyLen

-----------------------------------------------------------------------------
(* FitsPeripheral: three frames of any bits fit in the symbol buffer, no   *)
(* duration exceeds its 15 bits, only the last may be the end marker 0,    *)
(* and the transmission is over well within the two seconds that           *)
(* somfy_rts_send waits for it (emit, emit_finish, SYM_CAP).               *)
FitsPeripheral == input.kind = "command" => Fits(output)

(* FieldsSurvive: a form that arrives whole gives back what was typed in   *)
(* every field whose escaped text fits the field's buffer, whatever        *)
(* characters are in the other fields (url_decode, get_field).             *)
FieldsSurvive ==
  input.kind = "form" /\ Arrives(input) =>
    \A k \in {"ssid", "pass"} :
      Len(Encode(input[k])) < input.outLen => output[k] = input[k]

(* FieldsOnlyCut: when the escaped text does not fit, or the body is cut   *)
(* short, a field is the beginning of what was typed, at worst with the    *)
(* first one or two characters of an escape after it: it never overflows   *)
(* its buffer and never takes in another field (get_field, read_body).     *)
FieldsOnlyCut ==
  input.kind = "form" =>
    \A k \in {"ssid", "pass"} :
      /\ Len(output[k]) < input.outLen
      /\ \E n \in 0..Len(input[k]), cut \in 0..2 :
           LET next == IF n = Len(input[k]) THEN <<>> ELSE Escape(input[k][n + 1])
           IN  output[k] = Cut(input[k], n)
                             \o IF Len(next) = 3 THEN Cut(next, cut) ELSE <<>>
=================================================================================
