------------------------------ MODULE FormFields ------------------------------
(***************************************************************************)
(* How the portal reads a form (components/config_server/config_server.c:  *)
(* url_decode, get_field, read_body).  Pure operators on strings as        *)
(* sequences of ASCII codes; the NUL at the end of a C string is the end   *)
(* of the sequence, so a buffer of n bytes holds n - 1 of them.  No        *)
(* buffer of a field exceeds the 256 bytes of get_field's tmp.             *)
(***************************************************************************)
EXTENDS Integers, Sequences, SequencesExt, FiniteSetsExt

Percent == 37
Plus    == 43
Amp     == 38
Equals  == 61
Space   == 32

Cut(s, n) == SubSeq(s, 1, IF n < Len(s) THEN n ELSE Len(s))

(* & 0xDF folds lower case letters to upper case. *)
HexDigit(c) == IF c >= 65 THEN (IF c >= 97 THEN c - 32 ELSE c) - 65 + 10 ELSE c - 48

(* A bug in url_decode: a plus sign stays one. *)
UrlDecodeKeepsPlus(src, len) ==
  LET decode[p \in 1..Len(src) + 3] ==
        IF p > Len(src) THEN <<>>
        ELSE IF src[p] = Percent /\ p + 2 <= Len(src)
        THEN <<(16 * HexDigit(src[p + 1]) + HexDigit(src[p + 2])) % 256>> \o decode[p + 3]
        ELSE <<src[p]>> \o decode[p + 1]
  IN  Cut(decode[1], len - 1)

(* A percent sign without two characters after it stays one. *)
UrlDecode(src, len) ==
  LET decode[p \in 1..Len(src) + 3] ==
        IF p > Len(src) THEN <<>>
        ELSE IF src[p] = Percent /\ p + 2 <= Len(src)
        THEN <<(16 * HexDigit(src[p + 1]) + HexDigit(src[p + 2])) % 256>> \o decode[p + 3]
        ELSE <<IF src[p] = Plus THEN Space ELSE src[p]>> \o decode[p + 1]
  IN  Cut(decode[1], len - 1)

StartsAt(body, word, p) == IsPrefix(word, SubSeq(body, p, Len(body)))

(* A bug in get_field: the value is not ended at the next field. *)
GetFieldToEnd(body, key, outLen) ==
  LET word  == Append(key, Equals)
      found == {p \in DOMAIN body : StartsAt(body, word, p)}
      value == SubSeq(body, Min(found) + Len(word), Len(body))
  IN  IF found = {} THEN <<>> ELSE UrlDecode(Cut(value, outLen - 1), outLen)

(* The first place that reads "key=", up to the next "&"; the value is cut *)
(* to the buffer before it is decoded.                                     *)
GetField(body, key, outLen) ==
  LET word  == Append(key, Equals)
      found == {p \in DOMAIN body : StartsAt(body, word, p)}
      rest  == SubSeq(body, Min(found) + Len(word), Len(body))
      ends  == {i \in DOMAIN rest : rest[i] = Amp}
      value == IF ends = {} THEN rest ELSE Cut(rest, Min(ends) - 1)
  IN  IF found = {} THEN <<>> ELSE UrlDecode(Cut(value, outLen - 1), outLen)

(* Whatever arrives before the buffer is full or a receive fails or times  *)
(* out; the caller is not told that there was more.                        *)
ReadBody(sent, arrived, maxLen) ==
  LET wanted == IF Len(sent) = 0 \/ Len(sent) >= maxLen THEN maxLen - 1 ELSE Len(sent)
  IN  Cut(Cut(sent, wanted), arrived)
=============================================================================
