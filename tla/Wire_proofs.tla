------------------------------ MODULE Wire_proofs ------------------------------
(***************************************************************************)
(* What the two codecs of Wire do for every input.  The wave is            *)
(* SomfyWave_proofs'; here it is what Wire's output says of it.  Then the  *)
(* forms: texts of any length and characters, buffers of any size and      *)
(* bodies cut off anywhere, down to FormSurvives and FormOnlyCut.          *)
(***************************************************************************)
EXTENDS Wire, SomfyWave_proofs

(* TransmissionFits: whatever the frame, somfy_rts_send hands its whole    *)
(* wave to the peripheral, and it fits (emit_frame, emit_finish, SYM_CAP). *)
THEOREM TransmissionFits ==
  ASSUME NEW frame, output = Render(frame)
  PROVE  FitsPeripheral
<1>1. Fits(Wave(frame))
  BY WaveFits
<1>2. Len(Wave(frame)) <= 2 * SYM_CAP
  BY <1>1 DEF Fits
<1>3. output = Wave(frame)
  BY <1>2 DEF Render
<1> QED
  BY <1>1, <1>3 DEF FitsPeripheral

-----------------------------------------------------------------------------
(* Texts are sequences of character codes.                                 *)
Text(s) == s \in Seq(Nat)

(* TextIs: a function on 1..n is a text of length n.                       *)
LEMMA TextIs ==
  ASSUME NEW n \in Nat, NEW s \in [1..n -> Nat]
  PROVE  Text(s) /\ Len(s) = n
BY FunctionIsSeq DEF Text

(* TextHas: what a text has.                                               *)
LEMMA TextHas ==
  ASSUME NEW s, Text(s)
  PROVE  Len(s) \in Nat /\ DOMAIN s = 1..Len(s) /\ \A i \in 1..Len(s) : s[i] \in Nat
BY LenProperties, ElementOfSeq DEF Text

(* TextEqual: texts are equal code by code.                                *)
LEMMA TextEqual ==
  ASSUME NEW a, NEW b, Text(a), Text(b), Len(a) = Len(b), \A i \in 1..Len(a) : a[i] = b[i]
  PROVE  a = b
BY SeqEqual DEF Text

(* PartIs: the codes of a part of a text.                                  *)
LEMMA PartIs ==
  ASSUME NEW s, Text(s), NEW m \in Nat \ {0}, NEW n \in 0..Len(s), m <= n + 1
  PROVE  /\ Text(SubSeq(s, m, n)) /\ Len(SubSeq(s, m, n)) = n - m + 1
         /\ \A i \in 1..n - m + 1 : SubSeq(s, m, n)[i] = s[m + i - 1]
<1>1. \A i \in m..n : s[i] \in Nat
  <2>1. \A i \in m..n : i \in 1..Len(s)
    BY TextHas
  <2> QED
    BY <2>1, TextHas
<1>2. n \in Int /\ m \in Int
  OBVIOUS
<1>3. /\ SubSeq(s, m, n) \in Seq(Nat)
      /\ Len(SubSeq(s, m, n)) = IF m <= n THEN n - m + 1 ELSE 0
      /\ \A i \in 1..n - m + 1 : SubSeq(s, m, n)[i] = s[m + i - 1]
  BY <1>1, <1>2, SubSeqProperties
<1>4. (IF m <= n THEN n - m + 1 ELSE 0) = n - m + 1
  BY <1>2
<1> QED
  BY <1>3, <1>4 DEF Text

(* CutIs: the codes of the beginning of a text (the buffers' size - 1).    *)
LEMMA CutIs ==
  ASSUME NEW s, Text(s), NEW n \in Nat
  PROVE  /\ Text(Cut(s, n)) /\ Len(Cut(s, n)) = IF n < Len(s) THEN n ELSE Len(s)
         /\ \A i \in 1..Len(Cut(s, n)) : Cut(s, n)[i] = s[i]
         /\ n >= Len(s) => Cut(s, n) = s
<1> DEFINE k == IF n < Len(s) THEN n ELSE Len(s)
           c == SubSeq(s, 1, k)
<1>1. k \in 0..Len(s) /\ k \in Nat /\ 1 <= k + 1 /\ 1 \in Nat \ {0}
  BY TextHas
<1>2. Cut(s, n) = c
  BY DEF Cut
<1> HIDE DEF k
<1>3. Text(c) /\ Len(c) = k - 1 + 1 /\ \A i \in 1..k - 1 + 1 : c[i] = s[1 + i - 1]
  BY <1>1, PartIs
<1>4. Len(c) = k /\ \A i \in 1..k : c[i] = s[i]
  <2>1. k - 1 + 1 = k /\ \A i \in 1..k : 1 + i - 1 = i
    BY <1>1
  <2> HIDE DEF c
  <2> QED
    BY <1>3, <2>1
<1> HIDE DEF c
<1>5. n >= Len(s) => c = s
  <2> SUFFICES ASSUME n >= Len(s) PROVE c = s
    OBVIOUS
  <2>1. k = Len(s)
    BY TextHas DEF k
  <2> QED
    BY <1>3, <1>4, <2>1, TextEqual
<1> QED
  BY <1>2, <1>3, <1>4, <1>5 DEF k

(* The codes of the digits 0 to 9 and the letters A to F.                  *)
Hex == 48..57 \cup 65..70

(* HexDigits: the digits a browser writes are read back.                   *)
LEMMA HexDigits ==
  ASSUME NEW d \in 0..15
  PROVE  HexChar(d) \in Hex /\ HexDigit(HexChar(d)) = d
BY DEF HexChar, HexDigit, Hex

(* Nibbles: and make up the byte they came from.                           *)
LEMMA Nibbles ==
  ASSUME NEW c \in 0..255
  PROVE  /\ c \div 16 \in 0..15 /\ c % 16 \in 0..15
         /\ (16 * (c \div 16) + (c % 16)) % 256 = c
<1>1. c \div 16 \in 0..15 /\ c % 16 \in 0..15
  OBVIOUS
<1>2. 16 * (c \div 16) + (c % 16) = c
  OBVIOUS
<1>3. c % 256 = c
  OBVIOUS
<1> QED
  BY <1>1, <1>2, <1>3

(* e is one code, or three, that url_decode reads as c; none of them ends  *)
(* a field or a key.                                                       *)
Plain(e, c) ==
  /\ Len(e) = 1 /\ e[1] \in Nat /\ e[1] \notin {Percent, Amp, Equals}
  /\ (IF e[1] = Plus THEN Space ELSE e[1]) = c
Escaped(e, c) ==
  /\ Len(e) = 3 /\ e[1] = Percent /\ e[2] \in Hex /\ e[3] \in Hex
  /\ (16 * HexDigit(e[2]) + HexDigit(e[3])) % 256 = c

(* EscapeIs: what a browser makes of a character is one or the other.      *)
LEMMA EscapeIs ==
  ASSUME NEW c \in 0..255
  PROVE  Text(Escape(c)) /\ (Plain(Escape(c), c) \/ Escaped(Escape(c), c))
<1>1. CASE c \in AsIs
  <2>1. Escape(c) = <<c>>
    BY <1>1 DEF Escape
  <2>2. c \notin {Percent, Amp, Equals} /\ c # Plus /\ c \in Nat
    BY <1>1 DEF AsIs, Percent, Amp, Equals, Plus
  <2> QED
    BY <2>1, <2>2 DEF Text, Plain
<1>2. CASE c \notin AsIs /\ c = Space
  <2>1. Escape(c) = <<Plus>>
    BY <1>2 DEF Escape
  <2>2. Plus \notin {Percent, Amp, Equals} /\ Plus \in Nat
    BY DEF Percent, Amp, Equals, Plus
  <2> QED
    BY <1>2, <2>1, <2>2 DEF Text, Plain
<1>3. CASE c \notin AsIs /\ c # Space
  <2> DEFINE hi == HexChar(c \div 16)
             lo == HexChar(c % 16)
  <2>1. Escape(c) = <<Percent, hi, lo>>
    BY <1>3 DEF Escape
  <2>2. /\ hi \in Hex /\ lo \in Hex
        /\ HexDigit(hi) = c \div 16 /\ HexDigit(lo) = c % 16
    BY Nibbles, HexDigits
  <2> HIDE DEF hi, lo
  <2>3. (16 * HexDigit(hi) + HexDigit(lo)) % 256 = c
    BY <2>2, Nibbles
  <2>4. Percent \in Nat /\ hi \in Nat /\ lo \in Nat
    BY <2>2 DEF Percent, Hex
  <2> QED
    BY <2>1, <2>2, <2>3, <2>4 DEF Text, Escaped
<1> QED
  BY <1>1, <1>2, <1>3

(* What people type: bytes, none of them the NUL that ends a C string.     *)
Typed(v) == v \in Seq(1..255)

(* TypedHas: what they have.                                               *)
LEMMA TypedHas ==
  ASSUME NEW v, Typed(v)
  PROVE  Len(v) \in Nat /\ DOMAIN v = 1..Len(v) /\ \A i \in 1..Len(v) : v[i] \in 0..255
<1>1. Len(v) \in Nat /\ DOMAIN v = 1..Len(v)
  BY LenProperties DEF Typed
<1>2. ASSUME NEW i \in 1..Len(v) PROVE v[i] \in 0..255
  <2>1. v[i] \in 1..255
    BY ElementOfSeq DEF Typed
  <2> QED
    BY <2>1
<1> QED
  BY <1>1, <1>2

(* TypedIsText: bytes are codes.                                           *)
LEMMA TypedIsText ==
  ASSUME NEW v, Typed(v)
  PROVE  Text(v)
<1>0. \A c \in 0..255 : c \in Nat
  OBVIOUS
<1>1. Len(v) \in Nat /\ DOMAIN v = 1..Len(v) /\ \A i \in 1..Len(v) : v[i] \in Nat
  BY <1>0, TypedHas, Zenon
<1>2. v = [i \in 1..Len(v) |-> v[i]]
  BY <1>1, LenProperties DEF Typed
<1> QED
  BY <1>1, <1>2, TextIs

(* E spells v: g[i] is where the text of the first i characters ends.      *)
Spelled(v, E, g) ==
  /\ Typed(v) /\ Text(E)
  /\ g \in [0..Len(v) -> Nat] /\ g[0] = 0 /\ Len(E) = g[Len(v)]
  /\ \A i \in 1..Len(v) : g[i] = g[i - 1] + Len(Escape(v[i]))
  /\ \A i \in 1..Len(v) : \A k \in 1..Len(Escape(v[i])) :
       E[g[i - 1] + k] = Escape(v[i])[k]

(* EncodeSpells: a browser spells what was typed.                          *)
LEMMA EncodeSpells ==
  ASSUME NEW v, Typed(v)
  PROVE  \E g : Spelled(v, Encode(v), g)
<1> DEFINE n == Len(v)
           seqs == [i \in DOMAIN v |-> Escape(v[i])]
           d == [i \in 1..n |-> Len(Escape(v[i]))]
<1>1. n \in Nat /\ DOMAIN v = 1..n /\ \A i \in 1..n : v[i] \in 0..255
  BY TypedHas
<1>2. ASSUME NEW i \in 1..n PROVE Escape(v[i]) \in Seq(Nat) /\ Len(Escape(v[i])) \in Nat
  <2>1. Text(Escape(v[i]))
    BY <1>1, EscapeIs
  <2> QED
    BY <2>1, TextHas DEF Text
<1>3. d \in [1..n -> Nat] /\ seqs \in [1..n -> Seq(Nat)]
  BY <1>1, <1>2
<1>4. \A i \in 1..n : d[i] = Len(Escape(v[i])) /\ seqs[i] = Escape(v[i])
  BY <1>1
<1>5. Encode(v) = FlattenSeq(seqs)
  BY DEF Encode
<1> HIDE DEF d, seqs
<1>6. PICK g \in [0..n -> Nat] : g[0] = 0 /\ \A i \in 1..n : g[i] = g[i - 1] + d[i]
  BY <1>1, <1>3, RunningTotals
<1>7. seqs \in Seq(Seq(Nat)) /\ Len(seqs) = n
  BY <1>1, <1>3, FunctionIsSeq
<1>8. \A i \in 1..Len(seqs) : g[i] = g[i - 1] + Len(seqs[i])
  BY <1>4, <1>6, <1>7
<1>9. g \in [0..Len(seqs) -> Nat] /\ g[0] = 0
  BY <1>6, <1>7
<1>10. Len(FlattenSeq(seqs)) = g[n]
  BY <1>7, <1>8, <1>9, FlattenLength
<1>11. Text(FlattenSeq(seqs))
  BY <1>7, FlattenTyped DEF Text
<1>12. ASSUME NEW i \in 1..n, NEW k \in 1..Len(Escape(v[i]))
       PROVE  FlattenSeq(seqs)[g[i - 1] + k] = Escape(v[i])[k]
  <2>1. i \in 1..Len(seqs) /\ k \in 1..Len(seqs[i])
    BY <1>4, <1>7
  <2>2. FlattenSeq(seqs)[g[i - 1] + k] = seqs[i][k]
    BY <1>7, <1>8, <1>9, <2>1, FlattenAt
  <2> QED
    BY <1>4, <2>2
<1>13. \A i \in 1..n : g[i] = g[i - 1] + Len(Escape(v[i]))
  BY <1>4, <1>6
<1>14. Spelled(v, FlattenSeq(seqs), g)
  BY <1>6, <1>10, <1>11, <1>12, <1>13 DEF Spelled
<1> QED
  BY <1>5, <1>14

(* The text of one character, between b and e, and the character c it      *)
(* stands for.                                                             *)
Letter(E, b, e, c) ==
  \/ /\ e = b + 1 /\ E[b + 1] \in Nat /\ E[b + 1] \notin {Percent, Amp, Equals}
     /\ (IF E[b + 1] = Plus THEN Space ELSE E[b + 1]) = c
  \/ /\ e = b + 3 /\ E[b + 1] = Percent /\ E[b + 2] \in Hex /\ E[b + 3] \in Hex
     /\ (16 * HexDigit(E[b + 2]) + HexDigit(E[b + 3])) % 256 = c

(* SpelledLetter: a spelled text is letters one after the other.           *)
LEMMA SpelledLetter ==
  ASSUME NEW v, NEW E, NEW g, Spelled(v, E, g), NEW i \in 1..Len(v)
  PROVE  /\ g[i - 1] \in Nat /\ g[i] \in Nat /\ v[i] \in 0..255
         /\ Letter(E, g[i - 1], g[i], v[i])
         /\ g[i] = g[i - 1] + Len(Escape(v[i]))
<1> DEFINE e == Escape(v[i])
<1>1. Len(v) \in Nat /\ v[i] \in 0..255
  BY TypedHas DEF Spelled
<1>2. i - 1 \in 0..Len(v) /\ i \in 0..Len(v)
  BY <1>1
<1>3. g[i - 1] \in Nat /\ g[i] \in Nat
  BY <1>2 DEF Spelled
<1>4. Plain(e, v[i]) \/ Escaped(e, v[i])
  BY <1>1, EscapeIs
<1>5. g[i] = g[i - 1] + Len(e) /\ \A k \in 1..Len(e) : E[g[i - 1] + k] = e[k]
  BY DEF Spelled
<1> HIDE DEF e
<1>6. CASE Plain(e, v[i])
  <2>1. Len(e) = 1 /\ 1 \in 1..1
    BY <1>6 DEF Plain
  <2>2. g[i] = g[i - 1] + 1 /\ E[g[i - 1] + 1] = e[1]
    BY <1>5, <2>1
  <2> QED
    BY <1>1, <1>3, <1>5, <1>6, <2>2 DEF Plain, Letter, e
<1>7. CASE Escaped(e, v[i])
  <2>1. Len(e) = 3 /\ 1 \in 1..3 /\ 2 \in 1..3 /\ 3 \in 1..3
    BY <1>7 DEF Escaped
  <2>2. /\ g[i] = g[i - 1] + 3 /\ E[g[i - 1] + 1] = e[1]
        /\ E[g[i - 1] + 2] = e[2] /\ E[g[i - 1] + 3] = e[3]
    BY <1>5, <2>1
  <2> QED
    BY <1>1, <1>3, <1>5, <1>7, <2>2 DEF Escaped, Letter, e
<1> QED
  BY <1>4, <1>6, <1>7

(* Grows: every character takes at least one code.                         *)
LEMMA Grows ==
  ASSUME NEW v, NEW E, NEW g, Spelled(v, E, g), NEW i \in 0..Len(v)
  PROVE  g[i] \in Nat /\ i <= g[i]
<1> DEFINE n == Len(v)
           T == {j \in 0..n : ~(j <= g[j])}
<1>1. n \in Nat
  BY TypedHas DEF Spelled
<1>2. g \in [0..n -> Nat] /\ g[0] = 0
  BY DEF Spelled
<1>3. ASSUME NEW j \in T PROVE \E m \in T : m < j
  <2>1. j \in 0..n /\ ~(j <= g[j])
    OBVIOUS
  <2>2. j # 0
    BY <1>2, <2>1
  <2>3. j \in 1..n /\ j - 1 \in 0..n /\ j - 1 < j
    BY <1>1, <2>1, <2>2
  <2>4. g[j - 1] \in Nat /\ g[j] \in Nat /\ Letter(E, g[j - 1], g[j], v[j])
    BY <2>3, SpelledLetter
  <2>5. g[j] >= g[j - 1] + 1
    BY <2>4 DEF Letter
  <2>6. ~(j - 1 <= g[j - 1])
    BY <2>1, <2>3, <2>4, <2>5
  <2> QED
    BY <2>3, <2>6
<1>4. T = {}
  <2>1. T \subseteq Nat
    OBVIOUS
  <2> HIDE DEF T
  <2> QED
    BY <1>3, <2>1, Descent
<1> QED
  BY <1>2, <1>4

(* Locate: a text cut off after m codes ends in some character.            *)
LEMMA Locate ==
  ASSUME NEW v, NEW E, NEW g, Spelled(v, E, g), NEW m \in 0..Len(E)
  PROVE  \E n \in 0..Len(v) :
           /\ \A i \in 0..n : g[i] <= m
           /\ (n = Len(v) /\ m = g[n]) \/ (n < Len(v) /\ m < g[n + 1])
<1> DEFINE N == Len(v)
           T == {j \in 0..N : ~(g[j] <= m)}
<1>1. N \in Nat /\ m \in Nat
  BY TypedHas, TextHas DEF Spelled
<1>2. g \in [0..N -> Nat] /\ g[0] = 0 /\ Len(E) = g[N]
  BY DEF Spelled
<1>3. CASE T = {}
  <2>1. \A i \in 0..N : g[i] <= m
    BY <1>3
  <2>2. N \in 0..N /\ g[N] \in Nat
    BY <1>1, <1>2
  <2>3. m = g[N]
    BY <1>1, <1>2, <2>1, <2>2
  <2> QED
    BY <2>1, <2>2, <2>3
<1>4. CASE T # {}
  <2>1. T \subseteq Nat
    OBVIOUS
  <2>2. PICK j \in T : \A k \in T : ~(k < j)
    <3> HIDE DEF T
    <3> QED
      BY <1>4, <2>1, Descent
  <2>3. j \in 0..N /\ ~(g[j] <= m) /\ j # 0
    BY <1>1, <1>2
  <2>4. j - 1 \in 0..N /\ j - 1 < N /\ j - 1 + 1 = j /\ g[j] \in Nat
    BY <1>1, <1>2, <2>3
  <2>5. ASSUME NEW i \in 0..j - 1 PROVE g[i] <= m
    <3>1. i \in 0..N /\ i < j
      BY <1>1, <2>3
    <3> QED
      BY <2>2, <3>1
  <2>6. m < g[j]
    BY <1>1, <2>3, <2>4
  <2> QED
    BY <2>4, <2>5, <2>6
<1> QED
  BY <1>3, <1>4

(* The function that url_decode's recursion defines.                       *)
Byte(src, p) == (16 * HexDigit(src[p + 1]) + HexDigit(src[p + 2])) % 256
IsEscape(src, p) == src[p] = Percent /\ p + 2 <= Len(src)
Decoded(d, src, p) ==
  IF p > Len(src) THEN <<>>
  ELSE IF IsEscape(src, p) THEN <<Byte(src, p)>> \o d[p + 3]
  ELSE <<IF src[p] = Plus THEN Space ELSE src[p]>> \o d[p + 1]

(* DecodeExists: there is such a function, so that CHOOSE finds one.       *)
LEMMA DecodeExists ==
  ASSUME NEW src, Text(src)
  PROVE  \E d : d = [p \in 1..Len(src) + 3 |-> Decoded(d, src, p)]
<1> DEFINE n == Len(src)
           From(k, d) == d = [p \in k..n + 3 |-> Decoded(d, src, p)]
                      T == {j \in 0..n : ~\E d : From(n + 1 - j, d)}
<1>1. n \in Nat
  BY TextHas
<1>2. \E d : From(n + 1, d)
  <2> DEFINE d == [p \in n + 1..n + 3 |-> <<>>]
  <2>1. \A p \in n + 1..n + 3 : Decoded(d, src, p) = <<>>
    BY <1>1 DEF Decoded
  <2>2. From(n + 1, d)
    BY <2>1
  <2> HIDE DEF From, d
  <2> QED
    BY <2>2
<1>3. ASSUME NEW k \in 1..n, NEW d, From(k + 1, d) PROVE \E e : From(k, e)
  <2> DEFINE x == Decoded(d, src, k)
             e == [p \in k..n + 3 |-> IF p = k THEN x ELSE d[p]]
  <2>1. ASSUME NEW p \in k..n + 3 PROVE e[p] = Decoded(e, src, p)
    <3>1. p \in Nat /\ p >= k /\ k \in Nat
      BY <1>1
    <3>2. p + 1 \in Int /\ p + 3 \in Int /\ p + 1 # k /\ p + 3 # k
      BY <3>1
    <3>3. CASE p > n
      <4>1. p \in k + 1..n + 3 /\ p # k
        BY <1>1, <3>1, <3>3
      <4>2. d[p] = Decoded(d, src, p)
        BY <1>3, <4>1
      <4> QED
        BY <3>3, <4>1, <4>2 DEF Decoded
    <3>4. CASE ~(p > n)
      <4>1. p + 1 \in k..n + 3 /\ p + 3 \in k..n + 3
        BY <1>1, <3>1, <3>4
      <4>2. e[p + 1] = d[p + 1] /\ e[p + 3] = d[p + 3]
        BY <3>2, <4>1
      <4> HIDE DEF e
      <4>3. Decoded(e, src, p) = Decoded(d, src, p)
        BY <4>2 DEF Decoded
      <4>4. p # k => p \in k + 1..n + 3
        BY <1>1, <3>1
      <4>5. p # k => d[p] = Decoded(d, src, p)
        BY <1>3, <4>4
      <4>6. e[p] = IF p = k THEN x ELSE d[p]
        BY DEF e
      <4> QED
        BY <4>3, <4>5, <4>6
    <3> QED
      BY <3>3, <3>4
  <2>2. e = [p \in k..n + 3 |-> Decoded(e, src, p)]
    BY <2>1, Zenon
  <2> HIDE DEF e
  <2> QED
    BY <2>2
<1>4. ASSUME NEW j \in T PROVE \E m \in T : m < j
  <2>1. j \in 0..n /\ ~\E d : From(n + 1 - j, d)
    OBVIOUS
  <2> HIDE DEF From
  <2>2. j # 0
    <3>1. j = 0 => n + 1 - j = n + 1
      BY <1>1
    <3> QED
      BY <1>2, <2>1, <3>1
  <2>3. /\ n + 1 - j \in 1..n /\ j - 1 \in 0..n /\ j - 1 < j
        /\ n + 1 - (j - 1) = (n + 1 - j) + 1
    BY <1>1, <2>1, <2>2
  <2>4. ~\E d : From((n + 1 - j) + 1, d)
    BY <1>3, <2>1, <2>3
  <2> QED
    BY <2>3, <2>4
<1>5. T = {}
  <2>1. T \subseteq Nat
    OBVIOUS
  <2> HIDE DEF T
  <2> QED
    BY <1>4, <2>1, Descent
<1>6. \E d : From(1, d)
  <2>1. n \in 0..n /\ n + 1 - n = 1
    BY <1>1
  <2> HIDE DEF From
  <2>2. \E d : From(n + 1 - n, d)
    BY <1>5, <2>1
  <2> QED
    BY <2>1, <2>2
<1> QED
  BY <1>6

(* DecodeIs: url_decode gives its first value.                             *)
LEMMA DecodeIs ==
  ASSUME NEW src, Text(src), NEW len
  PROVE  \E d : /\ UrlDecode(src, len) = Cut(d[1], len - 1)
                /\ \A p \in 1..Len(src) + 3 : d[p] = Decoded(d, src, p)
<1> DEFINE decode == CHOOSE d : d = [p \in 1..Len(src) + 3 |->
             IF p > Len(src) THEN <<>>
             ELSE IF src[p] = Percent /\ p + 2 <= Len(src)
             THEN <<(16 * HexDigit(src[p + 1]) + HexDigit(src[p + 2])) % 256>> \o d[p + 3]
             ELSE <<IF src[p] = Plus THEN Space ELSE src[p]>> \o d[p + 1]]
<1>1. UrlDecode(src, len) = Cut(decode[1], len - 1)
  BY DEF UrlDecode
<1>2. decode = CHOOSE d : d = [p \in 1..Len(src) + 3 |-> Decoded(d, src, p)]
  BY DEF Decoded, IsEscape, Byte
<1> HIDE DEF decode
<1>3. decode = [p \in 1..Len(src) + 3 |-> Decoded(decode, src, p)]
  BY <1>2, DecodeExists
<1>4. \A p \in 1..Len(src) + 3 : decode[p] = Decoded(decode, src, p)
  BY <1>3, Zenon
<1> QED
  BY <1>1, <1>4

(* s is x, then t.                                                         *)
Begins(s, x, t) ==
  /\ Text(s) /\ Len(s) = Len(t) + 1 /\ s[1] = x
  /\ \A k \in 1..Len(t) : s[k + 1] = t[k]

(* OneFirst: so is the text x before a text t.                             *)
LEMMA OneFirst ==
  ASSUME NEW x, NEW a, NEW t, Text(a), Len(a) = 1, a[1] = x, Text(t)
  PROVE  Begins(a \o t, x, t)
<1>1. Text(a \o t)
  BY ConcatProperties DEF Text
<1>2. Joins(a \o t, a, t)
  <2>1. IsSeq(a, Nat) /\ IsSeq(t, Nat)
    BY DEF Text, IsSeq
  <2> QED
    BY <2>1, ConcatJoins, Zenon
<1>3. PICK s : s = a \o t
  OBVIOUS
<1>4. Text(s) /\ Joins(s, a, t)
  BY <1>1, <1>2, <1>3, Zenon
<1>5. Len(s) = Len(t) + 1 /\ s[1] = x /\ Len(t) \in Nat
  BY <1>4 DEF Joins
<1>6. ASSUME NEW k \in 1..Len(t) PROVE s[k + 1] = t[k]
  <2>1. k + 1 \in Nat /\ (k + 1) - Len(a) = k
    BY <1>5
  <2> QED
    BY <1>4, <2>1 DEF Joins
<1>7. Begins(s, x, t)
  BY <1>4, <1>5, <1>6 DEF Begins
<1> QED
  BY <1>3, <1>7, Zenon

(* Single: one code is a text.                                             *)
LEMMA Single ==
  ASSUME NEW x \in Nat
  PROVE  Text(<<x>>) /\ Len(<<x>>) = 1 /\ <<x>>[1] = x
BY DEF Text

(* ConsBegins: one code before a text.                                     *)
LEMMA ConsBegins ==
  ASSUME NEW x \in Nat, NEW t, Text(t)
  PROVE  Begins(<<x>> \o t, x, t)
<1>1. PICK a : a = <<x>>
  OBVIOUS
<1>2. Text(a) /\ Len(a) = 1 /\ a[1] = x
  BY <1>1, Single
<1>3. Begins(a \o t, x, t)
  BY <1>2, OneFirst
<1> QED
  BY <1>1, <1>3, Zenon

(* What the decoder makes of a text that is cut off, from its i-th         *)
(* character on: the rest of the first n characters, and r codes of the    *)
(* next one's escape as they are.                                          *)
Reads(s, v, E, g, i, n, r) ==
  /\ Text(s) /\ Len(s) = n - i + r
  /\ \A k \in 1..n - i : s[k] = v[i + k]
  /\ \A k \in 1..r : s[n - i + k] = E[g[n] + k]

(* The first g[n] + r codes of E: n characters, and r codes of the next    *)
(* one.                                                                    *)
CutOff(src, v, E, g, n, r) ==
  /\ Spelled(v, E, g) /\ n \in 0..Len(v) /\ r \in 0..2
  /\ Text(src) /\ Len(src) = g[n] + r /\ g[n] \in Nat
  /\ \A p \in 1..Len(src) : src[p] = E[p]
  /\ \A i \in 0..n : g[i] <= g[n] + r
  /\ r > 0 => n < Len(v) /\ g[n] + r < g[n + 1]

(* HexIs: a digit of an escape is no plus sign.                            *)
LEMMA HexIs ==
  ASSUME NEW c \in Hex
  PROVE  c \in Nat /\ c # Plus /\ HexDigit(c) \in Int
BY DEF Hex, Plus, HexDigit

(* Leftover: the beginning of an escape is left as it is, because          *)
(* url_decode wants two more codes after the percent sign.                 *)
LEMMA Leftover ==
  ASSUME NEW src, NEW v, NEW E, NEW g, NEW n, NEW r, CutOff(src, v, E, g, n, r),
         NEW d, \A p \in 1..Len(src) + 3 : d[p] = Decoded(d, src, p)
  PROVE  Reads(d[g[n] + 1], v, E, g, n, n, r)
<1> DEFINE b == g[n]
<1>1. n \in Nat /\ b \in Nat /\ r \in 0..2 /\ Len(src) = b + r
  BY TypedHas DEF CutOff, Spelled
<1> SUFFICES /\ Text(d[b + 1]) /\ Len(d[b + 1]) = r
             /\ \A k \in 1..r : d[b + 1][k] = E[b + k]
  <2>1. n - n + r = r /\ 1..n - n = {} /\ \A k \in 1..r : n - n + k = k
    BY <1>1
  <2> HIDE DEF b
  <2>2. \A k \in 1..n - n : d[b + 1][k] = v[n + k]
    BY <2>1
  <2> QED
    BY <2>1, <2>2 DEF Reads, b
<1>2. \A p \in 1..b + r : src[p] = E[p]
  BY <1>1 DEF CutOff
<1>3. r > 0 => /\ E[b + 1] = Percent /\ E[b + 2] \in Hex
  <2> SUFFICES ASSUME r > 0 PROVE E[b + 1] = Percent /\ E[b + 2] \in Hex
    OBVIOUS
  <2>1. n + 1 \in 1..Len(v) /\ n + 1 - 1 = n /\ b + r < g[n + 1]
    BY <1>1, TypedHas DEF CutOff, Spelled
  <2>2. Letter(E, b, g[n + 1], v[n + 1]) /\ g[n + 1] \in Nat
    BY <2>1, SpelledLetter DEF CutOff
  <2>3. g[n + 1] # b + 1
    BY <1>1, <2>1, <2>2
  <2> HIDE DEF b
  <2> QED
    BY <2>2, <2>3 DEF Letter
<1> HIDE DEF b
<1>4. d[b + r + 1] = <<>> /\ Text(<<>>)
  <2>1. b + r + 1 \in 1..Len(src) + 3 /\ b + r + 1 > Len(src)
    BY <1>1
  <2>2. d[b + r + 1] = Decoded(d, src, b + r + 1)
    BY <2>1
  <2> QED
    BY <2>1, <2>2 DEF Decoded, Text
<1>5. ASSUME NEW q \in 1..r, src[b + q] \in Nat \ {Plus},
             src[b + q] # Percent \/ b + q + 2 > b + r
      PROVE  d[b + q] = <<src[b + q]>> \o d[b + q + 1]
  <2>1. b + q \in 1..Len(src) + 3 /\ ~(b + q > Len(src)) /\ b + q \in Int
    BY <1>1
  <2>2. ~IsEscape(src, b + q)
    BY <1>1, <1>5, <2>1 DEF IsEscape
  <2>3. d[b + q] = Decoded(d, src, b + q)
    BY <2>1
  <2> QED
    BY <1>5, <2>1, <2>2, <2>3 DEF Decoded
<1>6. CASE r = 0
  <2>1. b + r + 1 = b + 1
    BY <1>1, <1>6
  <2>2. d[b + 1] = <<>>
    BY <1>4, <2>1
  <2> QED
    BY <1>4, <1>6, <2>2
<1>7. CASE r = 1
  <2>1. /\ b + r + 1 = b + 2 /\ 1 \in 1..r /\ b + 1 \in 1..b + r /\ b + 1 + 1 = b + 2
        /\ b + 1 + 2 > b + r
    BY <1>1, <1>7
  <2>2. src[b + 1] = Percent /\ src[b + 1] \in Nat \ {Plus}
    <3>1. src[b + 1] = Percent
      BY <1>2, <1>3, <1>7, <2>1
    <3> QED
      BY <3>1 DEF Percent, Plus
  <2>3. d[b + 1] = <<Percent>> \o <<>>
    <3>1. d[b + 1] = <<src[b + 1]>> \o d[b + 1 + 1]
      BY <1>5, <2>1, <2>2
    <3> QED
      BY <1>4, <2>1, <2>2, <3>1
  <2>4. d[b + 1] = <<Percent>> /\ Percent \in Nat
    BY <2>3 DEF Percent
  <2> QED
    BY <1>3, <1>7, <2>4 DEF Text
<1>8. CASE r = 2
  <2>1. /\ b + r + 1 = b + 3 /\ 1 \in 1..r /\ b + 1 \in 1..b + r /\ b + 1 + 1 = b + 2
        /\ 2 \in 1..r /\ b + 2 \in 1..b + r /\ b + 2 + 1 = b + 3
        /\ b + 2 + 2 > b + r /\ b + 1 + 2 > b + r
    BY <1>1, <1>8
  <2>2. src[b + 1] = Percent /\ src[b + 1] \in Nat \ {Plus} /\ Percent \in Nat
    <3>1. src[b + 1] = Percent
      BY <1>2, <1>3, <1>8, <2>1
    <3> QED
      BY <3>1 DEF Percent, Plus
  <2>3. src[b + 2] = E[b + 2] /\ src[b + 2] \in Nat \ {Plus}
    <3>1. src[b + 2] = E[b + 2] /\ E[b + 2] \in Hex
      BY <1>2, <1>3, <1>8, <2>1
    <3> QED
      BY <3>1, HexIs
  <2>4. d[b + 2] = <<src[b + 2]>> \o <<>>
    <3>1. d[b + 2] = <<src[b + 2]>> \o d[b + 2 + 1]
      BY <1>5, <2>1, <2>3
    <3> QED
      BY <1>4, <2>1, <3>1
  <2>5. d[b + 2] = <<src[b + 2]>>
    BY <2>3, <2>4
  <2>6. d[b + 1] = <<Percent>> \o <<src[b + 2]>>
    <3>1. d[b + 1] = <<src[b + 1]>> \o d[b + 1 + 1]
      BY <1>5, <2>1, <2>2
    <3> QED
      BY <2>1, <2>2, <2>5, <3>1
  <2>7. PICK t : t = <<src[b + 2]>>
    OBVIOUS
  <2>8. /\ Text(d[b + 1]) /\ Len(d[b + 1]) = 2
        /\ d[b + 1][1] = E[b + 1] /\ d[b + 1][2] = E[b + 2]
    <3>1. Text(t) /\ Len(t) = 1 /\ t[1] = src[b + 2] /\ 1 \in 1..1
      BY <2>3, <2>7, Single
    <3>2. Begins(<<Percent>> \o t, Percent, t)
      BY <2>2, <3>1, ConsBegins
    <3>3. Begins(d[b + 1], Percent, t)
      BY <2>6, <2>7, <3>2, Zenon
    <3>4. Text(d[b + 1]) /\ Len(d[b + 1]) = 1 + 1 /\ d[b + 1][1] = Percent
      BY <3>1, <3>3 DEF Begins
    <3>5. d[b + 1][1 + 1] = t[1]
      BY <3>1, <3>3, Zenon DEF Begins
    <3>6. 1 + 1 = 2
      OBVIOUS
    <3> QED
      BY <1>3, <1>8, <2>3, <3>1, <3>4, <3>5, <3>6
  <2>9. \A k \in 1..r : k = 1 \/ k = 2
    BY <1>8
  <2> QED
    BY <1>8, <2>8, <2>9
<1> QED
  BY <1>1, <1>6, <1>7, <1>8

(* OneCode: the place of a plain code.                                     *)
LEMMA OneCode ==
  ASSUME NEW b \in Nat, NEW e \in Nat, NEW m \in Nat, e = b + 1, e <= m
  PROVE  /\ b + 1 \in 1..m + 3 /\ b + 1 \in 1..m /\ ~(b + 1 > m)
         /\ b + 1 + 1 = e + 1
OBVIOUS

(* ThreeCodes: the places of an escape.                                    *)
LEMMA ThreeCodes ==
  ASSUME NEW b \in Nat, NEW e \in Nat, NEW m \in Nat, e = b + 3, e <= m
  PROVE  /\ b + 1 \in 1..m + 3 /\ b + 1 \in 1..m /\ b + 2 \in 1..m
         /\ b + 3 \in 1..m /\ ~(b + 1 > m) /\ b + 1 + 2 <= m
         /\ b + 1 + 3 = e + 1 /\ b + 1 + 1 = b + 2 /\ b + 1 + 2 = b + 3
OBVIOUS

(* ReadStep: one character more is read, from the end of the text to its   *)
(* beginning.                                                              *)
LEMMA ReadStep ==
  ASSUME NEW src, NEW v, NEW E, NEW g, NEW n, NEW r, CutOff(src, v, E, g, n, r),
         NEW d, \A p \in 1..Len(src) + 3 : d[p] = Decoded(d, src, p),
         NEW i \in 1..n, Reads(d[g[i] + 1], v, E, g, i, n, r)
  PROVE  Reads(d[g[i - 1] + 1], v, E, g, i - 1, n, r)
<1>1. /\ n \in 0..Len(v) /\ Len(v) \in Nat /\ g[n] \in Nat /\ r \in 0..2
      /\ Len(src) = g[n] + r
  BY TypedHas DEF CutOff, Spelled
<1>2. i \in 1..Len(v) /\ i \in 0..n /\ i \in Nat /\ n \in Nat
  BY <1>1
<1>3. /\ g[i - 1] \in Nat /\ g[i] \in Nat /\ v[i] \in 0..255
      /\ Letter(E, g[i - 1], g[i], v[i])
  BY <1>2, SpelledLetter DEF CutOff
<1>4. g[i] <= Len(src)
  BY <1>1, <1>2 DEF CutOff
<1> SUFFICES ASSUME NEW b \in Nat, NEW e \in Nat, b = g[i - 1], e = g[i]
             PROVE  Reads(d[b + 1], v, E, g, i - 1, n, r)
  BY <1>3
<1>5. \A p \in 1..Len(src) : src[p] = E[p]
  BY DEF CutOff
<1>6. Letter(E, b, e, v[i]) /\ e <= Len(src) /\ Len(src) \in Nat /\ Text(src)
  BY <1>1, <1>3, <1>4 DEF CutOff
<1>7. d[b + 1] = <<v[i]>> \o d[e + 1]
  <2>1. CASE /\ e = b + 1 /\ E[b + 1] \in Nat /\ E[b + 1] \notin {Percent, Amp, Equals}
             /\ (IF E[b + 1] = Plus THEN Space ELSE E[b + 1]) = v[i]
    <3>1. /\ b + 1 \in 1..Len(src) + 3 /\ b + 1 \in 1..Len(src) /\ ~(b + 1 > Len(src))
          /\ b + 1 + 1 = e + 1
      <4>1. Len(src) \in Nat /\ e = b + 1 /\ e <= Len(src)
        BY <1>6, <2>1
      <4> QED
        BY <4>1, OneCode
    <3>2. src[b + 1] = E[b + 1] /\ ~IsEscape(src, b + 1)
      BY <1>5, <2>1, <3>1 DEF IsEscape
    <3>3. d[b + 1] = Decoded(d, src, b + 1)
      BY <3>1
    <3>4. d[b + 1] = <<IF src[b + 1] = Plus THEN Space ELSE src[b + 1]>> \o d[b + 1 + 1]
      BY <3>1, <3>2, <3>3 DEF Decoded
    <3> QED
      BY <2>1, <3>1, <3>2, <3>4
  <2>2. CASE /\ e = b + 3 /\ E[b + 1] = Percent /\ E[b + 2] \in Hex /\ E[b + 3] \in Hex
             /\ (16 * HexDigit(E[b + 2]) + HexDigit(E[b + 3])) % 256 = v[i]
    <3>1. /\ b + 1 \in 1..Len(src) + 3 /\ b + 1 \in 1..Len(src) /\ b + 2 \in 1..Len(src)
          /\ b + 3 \in 1..Len(src) /\ ~(b + 1 > Len(src)) /\ b + 1 + 2 <= Len(src)
          /\ b + 1 + 3 = e + 1 /\ b + 1 + 1 = b + 2 /\ b + 1 + 2 = b + 3
      <4>1. Len(src) \in Nat /\ e = b + 3 /\ e <= Len(src)
        BY <1>6, <2>2
      <4> QED
        BY <4>1, ThreeCodes
    <3>2. /\ src[b + 1] = E[b + 1] /\ src[b + 2] = E[b + 2] /\ src[b + 3] = E[b + 3]
          /\ IsEscape(src, b + 1)
      BY <1>5, <2>2, <3>1 DEF IsEscape
    <3>3. d[b + 1] = Decoded(d, src, b + 1)
      BY <3>1
    <3>4. d[b + 1] = <<Byte(src, b + 1)>> \o d[b + 1 + 3]
      BY <3>1, <3>2, <3>3 DEF Decoded
    <3>5. Byte(src, b + 1) = v[i]
      <4>1. Byte(src, b + 1) =
                (16 * HexDigit(src[b + 1 + 1]) + HexDigit(src[b + 1 + 2])) % 256
        BY Zenon DEF Byte
      <4>2. src[b + 1 + 1] = E[b + 2] /\ src[b + 1 + 2] = E[b + 3]
        BY <3>1, <3>2
      <4> QED
        BY <2>2, <4>1, <4>2, Zenon
    <3> QED
      BY <3>1, <3>4, <3>5
  <2> QED
    BY <1>6, <2>1, <2>2 DEF Letter
<1>8. PICK t : t = d[e + 1]
  OBVIOUS
<1>9. PICK s : s = d[b + 1]
  OBVIOUS
<1>10. Reads(t, v, E, g, i, n, r)
  BY <1>8
<1>11. Text(t) /\ v[i] \in Nat
  <2>1. \A c \in 0..255 : c \in Nat
    OBVIOUS
  <2> QED
    BY <1>3, <1>10, <2>1, Zenon DEF Reads
<1>12. Begins(s, v[i], t)
  <2>1. Begins(<<v[i]>> \o t, v[i], t)
    BY <1>11, ConsBegins, Zenon
  <2> QED
    BY <1>7, <1>8, <1>9, <2>1, Zenon
<1>13. Text(s) /\ Len(s) = n - (i - 1) + r /\ Len(t) = n - i + r
  BY <1>1, <1>2, <1>10, <1>12 DEF Begins, Reads
<1>14. ASSUME NEW k \in 1..n - (i - 1) PROVE s[k] = v[(i - 1) + k]
  <2>1. CASE k = 1
    <3>1. i - 1 + 1 = i
      BY <1>2
    <3> QED
      BY <1>12, <2>1, <3>1 DEF Begins
  <2>2. CASE k # 1
    <3>1. /\ k - 1 \in 1..n - i /\ k - 1 \in 1..Len(t) /\ (k - 1) + 1 = k
          /\ i + (k - 1) = (i - 1) + k
      BY <1>1, <1>2, <1>13, <2>2
    <3>2. s[(k - 1) + 1] = t[k - 1]
      BY <1>12, <3>1 DEF Begins
    <3>3. t[k - 1] = v[i + (k - 1)]
      BY <1>10, <3>1 DEF Reads
    <3> QED
      BY <3>1, <3>2, <3>3
  <2> QED
    BY <2>1, <2>2
<1>15. ASSUME NEW k \in 1..r PROVE s[n - (i - 1) + k] = E[g[n] + k]
  <2>1. /\ n - i + k \in 1..Len(t) /\ (n - i + k) + 1 = n - (i - 1) + k
    BY <1>1, <1>2, <1>13
  <2>2. s[(n - i + k) + 1] = t[n - i + k]
    BY <1>12, <2>1 DEF Begins
  <2>3. t[n - i + k] = E[g[n] + k]
    BY <1>10 DEF Reads
  <2> QED
    BY <2>1, <2>2, <2>3
<1>16. Reads(s, v, E, g, i - 1, n, r)
  BY <1>13, <1>14, <1>15 DEF Reads
<1> QED
  BY <1>9, <1>16

(* ReadsAll: and so all of them.                                           *)
LEMMA ReadsAll ==
  ASSUME NEW src, NEW v, NEW E, NEW g, NEW n, NEW r, CutOff(src, v, E, g, n, r),
         NEW d, \A p \in 1..Len(src) + 3 : d[p] = Decoded(d, src, p)
  PROVE  Reads(d[1], v, E, g, 0, n, r)
<1> DEFINE T == {j \in 0..n : ~Reads(d[g[n - j] + 1], v, E, g, n - j, n, r)}
<1>1. n \in Nat /\ g[0] = 0
  BY TypedHas DEF CutOff, Spelled
<1>2. ASSUME NEW j \in T PROVE \E m \in T : m < j
  <2>1. j \in 0..n /\ ~Reads(d[g[n - j] + 1], v, E, g, n - j, n, r)
    OBVIOUS
  <2>2. j # 0
    <3>1. j = 0 => n - j = n
      BY <1>1
    <3> QED
      BY <2>1, <3>1, Leftover
  <2>3. j - 1 \in 0..n /\ j - 1 < j /\ n - (j - 1) \in 1..n /\ (n - (j - 1)) - 1 = n - j
    BY <1>1, <2>1, <2>2
  <2>4. ~Reads(d[g[n - (j - 1)] + 1], v, E, g, n - (j - 1), n, r)
    BY <2>1, <2>3, ReadStep
  <2> QED
    BY <2>3, <2>4
<1>3. T = {}
  <2>1. T \subseteq Nat
    OBVIOUS
  <2> HIDE DEF T
  <2> QED
    BY <1>2, <2>1, Descent
<1>4. n \in 0..n /\ n - n = 0 /\ g[n - n] + 1 = 1
  BY <1>1
<1> QED
  BY <1>3, <1>4

(* A text read back: the first n characters of v, then r codes of the next *)
(* one's escape; all of v when whole.                                      *)
ReadBack(s, v, whole, n, r) ==
  /\ Text(s) /\ n \in 0..Len(v) /\ r \in 0..2 /\ Len(s) = n + r
  /\ \A k \in 1..n : s[k] = v[k]
  /\ r > 0 => n < Len(v) /\ Len(Escape(v[n + 1])) = 3
  /\ \A k \in 1..r : s[n + k] = Escape(v[n + 1])[k]
  /\ whole => n = Len(v) /\ r = 0

(* Backwards: counting from the end.                                       *)
LEMMA Backwards ==
  ASSUME NEW N \in Nat, NEW j \in 0..N, j # 0
  PROVE  /\ j - 1 \in 0..N /\ j - 1 < j /\ N - (j - 1) \in 1..N
         /\ (N - (j - 1)) - 1 = N - j /\ N \in 0..N
<1>1. N - (j - 1) = N - j + 1 /\ (N - (j - 1)) - 1 = N - j
  OBVIOUS
<1>2. N - j \in 0..N - 1
  OBVIOUS
<1>3. N - (j - 1) \in 1..N
  BY <1>1, <1>2
<1> QED
  BY <1>1, <1>3

(* EndsLast: no character ends after the last one.                         *)
LEMMA EndsLast ==
  ASSUME NEW v, NEW E, NEW g, Spelled(v, E, g), NEW i \in 0..Len(v)
  PROVE  g[i] <= g[Len(v)]
<1> DEFINE N == Len(v)
           T == {j \in 0..N : ~(g[N - j] <= g[N])}
<1>1. N \in Nat /\ g \in [0..N -> Nat]
  BY TypedHas DEF Spelled
<1>2. ASSUME NEW j \in T PROVE \E m \in T : m < j
  <2>1. j \in 0..N /\ ~(g[N - j] <= g[N])
    OBVIOUS
  <2>2. j # 0
    <3>1. N - 0 = N /\ g[N] \in Nat
      BY <1>1
    <3> QED
      BY <2>1, <3>1
  <2>3. /\ j - 1 \in 0..N /\ j - 1 < j /\ N - (j - 1) \in 1..N
        /\ (N - (j - 1)) - 1 = N - j /\ N \in 0..N
    <3> HIDE DEF N, T
    <3> QED
      BY <1>1, <2>1, <2>2, Backwards, Zenon
  <2>4. /\ g[N - j] \in Nat /\ g[N - (j - 1)] \in Nat /\ g[N] \in Nat
        /\ Letter(E, g[N - j], g[N - (j - 1)], v[N - (j - 1)])
    <3>1. g[N - j] \in Nat /\ g[N - (j - 1)] \in Nat /\ g[N] \in Nat
      <4>1. N - j \in 0..N /\ N - (j - 1) \in 0..N
        BY <1>1, <2>1, <2>3
      <4> QED
        BY <1>1, <2>3, <4>1, Zenon
    <3>2. N - (j - 1) \in 1..Len(v) /\ (N - (j - 1)) - 1 = N - j
      BY <2>3, Zenon
    <3>3. Letter(E, g[N - j], g[N - (j - 1)], v[N - (j - 1)])
      BY <3>2, SpelledLetter, Zenon
    <3> QED
      BY <3>1, <3>3, Zenon
  <2>5. g[N - j] <= g[N - (j - 1)]
    BY <2>4 DEF Letter
  <2>6. ~(g[N - (j - 1)] <= g[N])
    BY <2>1, <2>4, <2>5
  <2> QED
    BY <2>3, <2>6
<1>3. T = {}
  <2>1. T \subseteq Nat
    OBVIOUS
  <2> HIDE DEF T
  <2> QED
    BY <1>2, <2>1, Descent
<1>4. N - i \in 0..N /\ N - (N - i) = i
  BY <1>1
<1> QED
  BY <1>3, <1>4

(* LetterLength: a character takes three codes at most.                    *)
LEMMA LetterLength ==
  ASSUME NEW E, NEW b \in Nat, NEW e, NEW c, Letter(E, b, e, c)
  PROVE  e <= b + 3
BY DEF Letter

(* Remainder: what is left of a letter that does not fit.                  *)
LEMMA Remainder ==
  ASSUME NEW m \in Nat, NEW a \in Nat, NEW b \in Nat, a <= m, m < b, b <= a + 3
  PROVE  m - a \in 0..2 /\ m = a + (m - a) /\ m - a \in Nat
OBVIOUS

(* PrefixDecodes: url_decode undoes the escapes of a text of any length,   *)
(* wherever the text is cut off.                                           *)
LEMMA PrefixDecodes ==
  ASSUME NEW v, Typed(v), NEW src, Text(src), Len(src) <= Len(Encode(v)),
         \A p \in 1..Len(src) : src[p] = Encode(v)[p],
         NEW len \in Nat, Len(src) < len
  PROVE  \E n, r : /\ ReadBack(UrlDecode(src, len), v, Len(src) = Len(Encode(v)), n, r)
                   /\ n + r <= Len(src)
<1> DEFINE E == Encode(v)
           m == Len(src)
<1>1. PICK g : Spelled(v, E, g)
  BY EncodeSpells
<1>2. m \in Nat /\ m \in 0..Len(E) /\ Len(v) \in Nat /\ Len(E) = g[Len(v)]
  BY <1>1, TextHas, TypedHas DEF Spelled
<1>3. PICK n \in 0..Len(v) :
           /\ \A i \in 0..n : g[i] <= m
           /\ (n = Len(v) /\ m = g[n]) \/ (n < Len(v) /\ m < g[n + 1])
  BY <1>1, <1>2, Locate
<1>4. PICK d : /\ UrlDecode(src, len) = Cut(d[1], len - 1)
               /\ \A p \in 1..Len(src) + 3 : d[p] = Decoded(d, src, p)
  BY DecodeIs
<1> DEFINE r == m - g[n]
<1> HIDE DEF E
<1>5. n \in Nat /\ g[n] \in Nat /\ n <= g[n] /\ g[n] <= m
  <2>1. n \in Nat /\ n \in 0..n
    BY <1>2
  <2> QED
    BY <1>1, <1>3, <2>1, Grows
<1>6. n < Len(v) => /\ g[n + 1] = g[n] + Len(Escape(v[n + 1])) /\ g[n + 1] \in Nat
                    /\ Letter(E, g[n], g[n + 1], v[n + 1])
  <2> SUFFICES ASSUME n < Len(v)
               PROVE  /\ g[n + 1] = g[n] + Len(Escape(v[n + 1])) /\ g[n + 1] \in Nat
                      /\ Letter(E, g[n], g[n + 1], v[n + 1])
    OBVIOUS
  <2>1. n + 1 \in 1..Len(v) /\ n + 1 - 1 = n
    BY <1>2, <1>5
  <2> QED
    BY <1>1, <2>1, SpelledLetter
<1>7. r \in 0..2 /\ m = g[n] + r /\ (r > 0 => n < Len(v) /\ m < g[n + 1])
  <2>1. CASE n = Len(v) /\ m = g[n]
    BY <1>5, <2>1
  <2>2. CASE n < Len(v) /\ m < g[n + 1]
    <3>1. g[n + 1] <= g[n] + 3
      <4>1. Letter(E, g[n], g[n + 1], v[n + 1])
        BY <1>6, <2>2, Zenon
      <4> QED
        BY <1>5, <4>1, LetterLength, Zenon
    <3> QED
      BY <1>2, <1>5, <1>6, <2>2, <3>1, Remainder
  <2> QED
    BY <1>3, <2>1, <2>2
<1> HIDE DEF r
<1>17. n + r <= Len(src) /\ n + r \in Nat
  <2>1. r \in Nat
    BY <1>7
  <2> QED
    BY <1>2, <1>5, <1>7, <2>1
<1>8. CutOff(src, v, E, g, n, r)
  <2>1. \A p \in 1..Len(src) : src[p] = E[p]
    BY DEF E
  <2>2. Spelled(v, E, g)
    BY <1>1 DEF E
  <2> QED
    BY <1>3, <1>5, <1>7, <2>1, <2>2 DEF CutOff
<1>9. Reads(d[1], v, E, g, 0, n, r)
  BY <1>4, <1>8, ReadsAll
<1> DEFINE s == UrlDecode(src, len)
<1>10. Text(d[1]) /\ Len(d[1]) = n + r
  BY <1>5, <1>7, <1>9 DEF Reads
<1>11. s = d[1]
  <2>1. len - 1 \in Nat /\ len - 1 >= Len(d[1])
    BY <1>2, <1>10, <1>17
  <2>2. Cut(d[1], len - 1) = d[1]
    BY <1>10, <2>1, CutIs
  <2> QED
    BY <1>4, <2>2
<1>12. \A k \in 1..n : d[1][k] = v[k]
  <2>1. n - 0 = n /\ \A k \in 1..n : 0 + k = k
    BY <1>5
  <2> QED
    BY <1>9, <2>1 DEF Reads
<1>13. r > 0 => n < Len(v) /\ Len(Escape(v[n + 1])) = 3
  <2> SUFFICES ASSUME r > 0 PROVE n < Len(v) /\ Len(Escape(v[n + 1])) = 3
    OBVIOUS
  <2>1. n < Len(v) /\ m < g[n + 1] /\ m = g[n] + r /\ r \in Nat
    BY <1>7
  <2>2. g[n + 1] # g[n] + 1
    BY <1>5, <1>6, <2>1
  <2>3. n + 1 \in 1..Len(v)
    BY <1>2, <1>5, <2>1
  <2>4. Text(Escape(v[n + 1]))
    <3>1. v[n + 1] \in 0..255
      BY <2>3, TypedHas
    <3> QED
      BY <3>1, EscapeIs
  <2>5. Len(Escape(v[n + 1])) \in Nat
    BY <2>4, TextHas
  <2>6. g[n + 1] = g[n] + 3
    BY <1>6, <2>1, <2>2 DEF Letter
  <2> QED
    <3>1. \A a \in Nat, x \in Nat : a + 3 = a + x => x = 3
      OBVIOUS
    <3> QED
      BY <1>5, <1>6, <2>1, <2>5, <2>6, <3>1
<1>14. ASSUME NEW k \in 1..r PROVE d[1][n + k] = Escape(v[n + 1])[k]
  <2>1. n < Len(v) /\ Len(Escape(v[n + 1])) = 3
    BY <1>7, <1>13
  <2>2. n + 1 \in 1..Len(v) /\ n + 1 - 1 = n /\ k \in 1..3 /\ n - 0 + k = n + k
    BY <1>2, <1>5, <1>7, <2>1
  <2>3. E[g[n] + k] = Escape(v[n + 1])[k]
    <3>1. \A i \in 1..Len(v) : \A q \in 1..Len(Escape(v[i])) :
             E[g[i - 1] + q] = Escape(v[i])[q]
      BY <1>1 DEF Spelled, E
    <3>2. PICK i : i = n + 1
      OBVIOUS
    <3>3. i \in 1..Len(v) /\ k \in 1..Len(Escape(v[i])) /\ i - 1 = n
      <4>1. i \in 1..Len(v) /\ i - 1 = n
        BY <1>5, <2>2, <3>2
      <4>2. Len(Escape(v[i])) = 3 /\ k \in 1..3
        BY <2>1, <2>2, <3>2, Zenon
      <4> QED
        BY <4>1, <4>2
    <3>4. E[g[i - 1] + k] = Escape(v[i])[k]
      BY <3>1, <3>3
    <3> QED
      BY <3>2, <3>3, <3>4
  <2>4. d[1][n - 0 + k] = E[g[n] + k]
    <3>1. \A q \in 1..r : d[1][n - 0 + q] = E[g[n] + q]
      BY <1>9 DEF Reads
    <3> QED
      BY <3>1
  <2> QED
    BY <2>2, <2>3, <2>4
<1>15. m = Len(E) => n = Len(v) /\ r = 0
  <2> SUFFICES ASSUME m = Len(E), n # Len(v) PROVE FALSE
    BY <1>3, <1>5 DEF r
  <2>1. n < Len(v) /\ m < g[n + 1] /\ n + 1 \in 0..Len(v)
    BY <1>2, <1>3, <1>5
  <2>2. g[n + 1] <= g[Len(v)] /\ m = g[Len(v)]
    BY <1>1, <1>2, <2>1, EndsLast DEF E
  <2>3. g[n + 1] \in Nat /\ g[Len(v)] \in Nat
    <3>1. Len(v) \in 0..Len(v)
      BY <1>2
    <3> QED
      BY <1>1, <2>1, <3>1 DEF Spelled
  <2> QED
    BY <2>1, <2>2, <2>3
<1>16. ReadBack(d[1], v, Len(src) = Len(E), n, r)
  BY <1>3, <1>7, <1>10, <1>12, <1>13, <1>14, <1>15 DEF ReadBack
<1> QED
  BY <1>11, <1>16, <1>17 DEF E

(* NoDelimiters: an escaped text has neither an ampersand nor an equals    *)
(* sign, so that it ends no field and starts no key.                       *)
LEMMA NoDelimiters ==
  ASSUME NEW v, Typed(v), NEW p \in 1..Len(Encode(v))
  PROVE  Encode(v)[p] # Amp /\ Encode(v)[p] # Equals
<1>1. PICK E : E = Encode(v)
  OBVIOUS
<1>2. PICK g : Spelled(v, E, g)
  BY <1>1, EncodeSpells
<1>3. Len(E) \in Nat /\ Len(v) \in Nat /\ Len(E) = g[Len(v)] /\ p \in 1..Len(E)
  BY <1>1, <1>2, TextHas, TypedHas DEF Spelled
<1>4. p - 1 \in 0..Len(E)
  BY <1>3
<1>5. PICK n \in 0..Len(v) :
           /\ \A i \in 0..n : g[i] <= p - 1
           /\ (n = Len(v) /\ p - 1 = g[n]) \/ (n < Len(v) /\ p - 1 < g[n + 1])
  BY <1>2, <1>4, Locate
<1>6. n < Len(v) /\ p - 1 < g[n + 1] /\ n \in 0..n
  BY <1>3, <1>5
<1>7. n + 1 \in 1..Len(v) /\ n + 1 - 1 = n /\ g[n] <= p - 1
  BY <1>3, <1>5, <1>6
<1>8. /\ g[n] \in Nat /\ g[n + 1] \in Nat
      /\ Letter(E, g[n], g[n + 1], v[n + 1])
  BY <1>2, <1>7, SpelledLetter
<1> SUFFICES ASSUME NEW b \in Nat, NEW e \in Nat, NEW c, Letter(E, b, e, c),
                    b <= p - 1, p - 1 < e
             PROVE  E[p] # Amp /\ E[p] # Equals
  BY <1>1, <1>6, <1>7, <1>8
<1>9. e <= b + 3 /\ p \in Nat
  BY <1>3 DEF Letter
<1>10. p = b + 1 \/ p = b + 2 \/ p = b + 3
  BY <1>9
<1>11. p # b + 1 => e # b + 1
  BY <1>9
<1>12. E[b + 1] # Amp /\ E[b + 1] # Equals
  BY DEF Letter, Percent, Amp, Equals
<1>13. e # b + 1 => E[b + 2] \in Hex /\ E[b + 3] \in Hex
  BY DEF Letter
<1>14. \A c2 \in Hex : c2 # Amp /\ c2 # Equals
  BY DEF Hex, Amp, Equals
<1>15. CASE p = b + 1
  BY <1>12, <1>15
<1>16. CASE p # b + 1
  <2>1. E[p] \in Hex
    BY <1>10, <1>11, <1>13, <1>16
  <2> QED
    BY <1>14, <2>1
<1> QED
  BY <1>15, <1>16

(* StartsIs: where get_field finds a word, code by code.                   *)
LEMMA StartsIs ==
  ASSUME NEW body, Text(body), NEW word, Text(word), NEW p \in 1..Len(body)
  PROVE  StartsAt(body, word, p) <=>
           /\ p + Len(word) <= Len(body) + 1
           /\ \A k \in 1..Len(word) : body[p + k - 1] = word[k]
<1> DEFINE L == Len(word)
           N == Len(body)
           rest == SubSeq(body, p, N)
<1>1. L \in Nat /\ N \in Nat /\ p \in Nat \ {0} /\ N \in 0..N /\ p <= N + 1
  BY TextHas
<1>2. /\ Text(rest) /\ Len(rest) = N - p + 1
      /\ \A i \in 1..N - p + 1 : rest[i] = body[p + i - 1]
  BY <1>1, PartIs
<1>3. StartsAt(body, word, p) <=> L <= Len(rest) /\ SubSeq(word, 1, L) = SubSeq(rest, 1, L)
  BY DEF StartsAt, IsPrefix
<1> HIDE DEF rest
<1>4. L <= Len(rest) <=> p + L <= N + 1
  BY <1>1, <1>2
<1>5. Text(SubSeq(word, 1, L)) /\ Len(SubSeq(word, 1, L)) = L
      /\ \A i \in 1..L : SubSeq(word, 1, L)[i] = word[i]
  <2>1. 1 \in Nat \ {0} /\ L \in 0..Len(word) /\ 1 <= L + 1 /\ L - 1 + 1 = L
        /\ \A i \in 1..L : 1 + i - 1 = i
    BY <1>1
  <2>2. /\ Text(SubSeq(word, 1, L)) /\ Len(SubSeq(word, 1, L)) = L - 1 + 1
        /\ \A i \in 1..L - 1 + 1 : SubSeq(word, 1, L)[i] = word[1 + i - 1]
    BY <1>1, <2>1, PartIs
  <2> HIDE DEF L
  <2> QED
    BY <2>1, <2>2
<1>6. CASE L <= Len(rest)
  <2>1. 1 \in Nat \ {0} /\ L \in 0..Len(rest) /\ 1 <= L + 1 /\ L - 1 + 1 = L
        /\ \A i \in 1..L : 1 + i - 1 = i /\ i \in 1..N - p + 1
    BY <1>1, <1>2, <1>6
  <2>2. /\ Text(SubSeq(rest, 1, L)) /\ Len(SubSeq(rest, 1, L)) = L - 1 + 1
        /\ \A i \in 1..L - 1 + 1 : SubSeq(rest, 1, L)[i] = rest[1 + i - 1]
    BY <1>2, <2>1, PartIs
  <2>3. /\ Len(SubSeq(rest, 1, L)) = L
        /\ \A i \in 1..L : SubSeq(rest, 1, L)[i] = body[p + i - 1]
    <3> HIDE DEF L, N
    <3> QED
      BY <1>2, <2>1, <2>2
  <2>4. SubSeq(word, 1, L) = SubSeq(rest, 1, L) <=>
          \A i \in 1..L : SubSeq(word, 1, L)[i] = SubSeq(rest, 1, L)[i]
    <3>1. PICK a, b : a = SubSeq(word, 1, L) /\ b = SubSeq(rest, 1, L)
      OBVIOUS
    <3>2. Text(a) /\ Text(b) /\ Len(a) = L /\ Len(b) = L
      BY <1>5, <2>2, <2>3, <3>1
    <3>3. a = b <=> \A i \in 1..L : a[i] = b[i]
      BY <3>2, TextEqual
    <3> QED
      BY <3>1, <3>3
  <2> HIDE DEF L, N
  <2>5. SubSeq(word, 1, L) = SubSeq(rest, 1, L) <=>
          \A k \in 1..L : body[p + k - 1] = word[k]
    BY <1>5, <2>3, <2>4
  <2> QED
    BY <1>3, <1>4, <1>6, <2>5 DEF L, N
<1>7. CASE ~(L <= Len(rest))
  BY <1>3, <1>4, <1>7
<1> QED
  BY <1>6, <1>7

(* What a field comes out as: less than its buffer, and all of what was    *)
(* typed when whole.                                                       *)
FieldRead(out, v, whole, outLen) ==
  \E n, r : ReadBack(out, v, whole, n, r) /\ n + r < outLen

(* NothingRead: a field that is not found is empty.                        *)
LEMMA NothingRead ==
  ASSUME NEW v, Typed(v), NEW outLen \in Nat \ {0}, NEW whole, ~whole
  PROVE  FieldRead(<<>>, v, whole, outLen)
<1>1. Text(<<>>) /\ Len(<<>>) = 0 /\ Len(v) \in Nat
  BY TypedHas DEF Text
<1>2. ReadBack(<<>>, v, whole, 0, 0)
  BY <1>1 DEF ReadBack
<1> QED
  BY <1>2 DEF FieldRead

(* The text of the value begins after off codes of the body; it goes on to *)
(* the end of the body or to an ampersand.                                 *)
ValueAt(body, off, E) ==
  /\ off \in 0..Len(body)
  /\ \A k \in 1..Len(E) : off + k <= Len(body) => body[off + k] = E[k]
  /\ off + Len(E) + 1 <= Len(body) => body[off + Len(E) + 1] = Amp

(* FieldMissing: without its key there is no field.                        *)
LEMMA FieldMissing ==
  ASSUME NEW body, NEW key, NEW outLen,
         \A p \in DOMAIN body : ~StartsAt(body, Append(key, Equals), p)
  PROVE  GetField(body, key, outLen) = <<>>
<1>1. {p \in DOMAIN body : StartsAt(body, Append(key, Equals), p)} = {}
  OBVIOUS
<1> QED
  BY <1>1 DEF GetField

(* LeastIs: Min of a set that has a least element.                         *)
LEMMA LeastIs ==
  ASSUME NEW T, T \subseteq Nat, NEW t \in T, \A s \in T : t <= s
  PROVE  Min(T) = t
<1>1. Min(T) = CHOOSE x \in T : \A y \in T : x <= y
  BY DEF Min
<1>2. \A x \in T : (\A y \in T : x <= y) => x = t
  OBVIOUS
<1> QED
  BY <1>1, <1>2

(* RestIs: what comes after off codes.                                     *)
LEMMA RestIs ==
  ASSUME NEW body, Text(body), NEW off \in 0..Len(body)
  PROVE  /\ Text(SubSeq(body, off + 1, Len(body)))
         /\ Len(SubSeq(body, off + 1, Len(body))) = Len(body) - off
         /\ \A i \in 1..Len(body) - off :
              SubSeq(body, off + 1, Len(body))[i] = body[off + i]
<1> DEFINE N == Len(body)
           a == off + 1
<1>1. /\ N \in Nat /\ a \in Nat \ {0} /\ N \in 0..Len(body) /\ a <= N + 1
      /\ N - a + 1 = N - off /\ \A i \in 1..N - off : a + i - 1 = off + i
  BY TextHas
<1> HIDE DEF a
<1>2. /\ Text(SubSeq(body, a, N)) /\ Len(SubSeq(body, a, N)) = N - a + 1
      /\ \A i \in 1..N - a + 1 : SubSeq(body, a, N)[i] = body[a + i - 1]
  BY <1>1, PartIs
<1> HIDE DEF N
<1>3. /\ Text(SubSeq(body, a, N)) /\ Len(SubSeq(body, a, N)) = N - off
      /\ \A i \in 1..N - off : SubSeq(body, a, N)[i] = body[off + i]
  BY <1>1, <1>2
<1> QED
  BY <1>3 DEF N, a

(* The first place that reads "key=" ends after off codes.                 *)
KeyAt(body, key, off) ==
  \E word, at :
    /\ word = Append(key, Equals) /\ Text(word)
    /\ at \in 1..Len(body) /\ StartsAt(body, word, at)
    /\ \A p \in 1..Len(body) : StartsAt(body, word, p) => at <= p
    /\ off = at + Len(word) - 1

(* FieldFound: get_field takes the value up to the ampersand, cuts it to   *)
(* the buffer and decodes it.                                              *)
LEMMA FieldFound ==
  ASSUME NEW body, Text(body), NEW key, NEW off, KeyAt(body, key, off),
         NEW v, Typed(v), ValueAt(body, off, Encode(v)), NEW outLen \in Nat \ {0}
  PROVE  FieldRead(GetField(body, key, outLen), v,
                   off + Len(Encode(v)) <= Len(body) /\ Len(Encode(v)) < outLen, outLen)
<1>0. PICK word, at :
        /\ word = Append(key, Equals) /\ Text(word)
        /\ at \in 1..Len(body) /\ StartsAt(body, word, at)
        /\ \A p \in 1..Len(body) : StartsAt(body, word, p) => at <= p
        /\ off = at + Len(word) - 1
  BY DEF KeyAt
<1> DEFINE found == {p \in DOMAIN body : StartsAt(body, Append(key, Equals), p)}
           rest == SubSeq(body, Min(found) + Len(Append(key, Equals)), Len(body))
           ends == {i \in DOMAIN rest : rest[i] = Amp}
           value == IF ends = {} THEN rest ELSE Cut(rest, Min(ends) - 1)
           src == Cut(value, outLen - 1)
           E == Encode(v)
           N == Len(body)
           M == Len(E)
<1>1. GetField(body, key, outLen) = IF found = {} THEN <<>> ELSE UrlDecode(src, outLen)
  BY DEF GetField
<1>2. N \in Nat /\ DOMAIN body = 1..N /\ Len(word) \in Nat /\ at \in Nat
  BY <1>0, TextHas
<1>3. Text(E) /\ M \in Nat
  <2>1. \E g : Spelled(v, E, g)
    BY EncodeSpells
  <2>2. Text(E)
    BY <2>1 DEF Spelled
  <2> QED
    BY <2>2, TextHas
<1>4. \A p \in 1..M : E[p] # Amp
  BY NoDelimiters
<1>5. off \in 0..N /\ (\A k \in 1..M : off + k <= N => body[off + k] = E[k])
      /\ (off + M + 1 <= N => body[off + M + 1] = Amp)
  BY DEF ValueAt
<1>6. Min(found) = at /\ found # {}
  <2>1. found \subseteq Nat /\ at \in found /\ \A s \in found : at <= s
    BY <1>0, <1>2
  <2> HIDE DEF found
  <2> QED
    BY <2>1, LeastIs
<1>7. rest = SubSeq(body, off + 1, N)
  <2>1. at + Len(word) = off + 1
    BY <1>0, <1>2
  <2> HIDE DEF found
  <2> QED
    BY <1>0, <1>6, <2>1
<1> HIDE DEF found, rest, E, N
<1>8. /\ Text(rest) /\ Len(rest) = N - off
      /\ \A i \in 1..N - off : rest[i] = body[off + i]
  <2>1. off \in 0..Len(body)
    BY <1>5 DEF N
  <2>2. rest = SubSeq(body, off + 1, Len(body))
    BY <1>7 DEF N
  <2>3. /\ Text(SubSeq(body, off + 1, Len(body)))
        /\ Len(SubSeq(body, off + 1, Len(body))) = Len(body) - off
        /\ \A i \in 1..Len(body) - off :
             SubSeq(body, off + 1, Len(body))[i] = body[off + i]
    BY <2>1, RestIs
  <2> QED
    BY <2>2, <2>3, Zenon DEF N
<1>9. DOMAIN rest = 1..N - off /\ N - off \in Nat
  BY <1>2, <1>5, <1>8, TextHas
<1>10. ASSUME NEW i \in 1..N - off
       PROVE  /\ i <= M => rest[i] = E[i] /\ rest[i] # Amp
              /\ i = M + 1 => rest[i] = Amp
  <2>1. rest[i] = body[off + i] /\ off + i <= N
    BY <1>2, <1>5, <1>8
  <2>2. i <= M => i \in 1..M
    BY <1>3
  <2>3. i = M + 1 => off + M + 1 = off + i
    BY <1>3, <1>5
  <2> QED
    BY <1>4, <1>5, <2>1, <2>2, <2>3
<1> DEFINE m == IF M < N - off THEN M ELSE N - off
<1>11. Text(value) /\ Len(value) = m /\ \A i \in 1..m : value[i] = E[i]
  <2>1. CASE M < N - off
    <3>1. M + 1 \in ends /\ \A i \in ends : M + 1 <= i
      <4>1. M + 1 \in 1..N - off
        BY <1>2, <1>3, <1>5, <2>1
      <4>2. \A i \in ends : i \in 1..N - off /\ rest[i] = Amp
        BY <1>9
      <4>3. \A i \in ends : ~(i <= M) /\ i \in Nat
        BY <1>10, <4>2
      <4> QED
        BY <1>3, <1>9, <1>10, <4>1, <4>3
    <3>2. ends \subseteq Nat
      BY <1>9
    <3> HIDE DEF ends
    <3>3. Min(ends) = M + 1 /\ ends # {}
      BY <3>1, <3>2, LeastIs
    <3>4. value = Cut(rest, M)
      <4>1. M + 1 - 1 = M
        BY <1>3
      <4> QED
        BY <3>3, <4>1
    <3>5. Text(Cut(rest, M)) /\ Len(Cut(rest, M)) = M
          /\ \A i \in 1..M : Cut(rest, M)[i] = rest[i]
      BY <1>3, <1>8, <2>1, CutIs
    <3>6. \A i \in 1..M : rest[i] = E[i]
      <4>1. \A i \in 1..M : i \in 1..N - off /\ i <= M
        BY <1>2, <1>3, <1>5, <2>1
      <4> QED
        BY <1>10, <4>1
    <3> HIDE DEF value
    <3> QED
      BY <2>1, <3>4, <3>5, <3>6
  <2>2. CASE ~(M < N - off)
    <3>1. \A i \in 1..N - off : i <= M
      BY <1>3, <1>9, <2>2
    <3>2. ends = {}
      BY <1>9, <1>10, <3>1
    <3>3. value = rest
      BY <3>2
    <3> HIDE DEF value
    <3> QED
      BY <1>8, <1>10, <2>2, <3>1, <3>3
  <2> QED
    BY <2>1, <2>2
<1>12. m \in Nat /\ m <= M /\ outLen - 1 \in Nat /\ (off + M <= N => m = M)
  <2>1. \A x \in Nat, y \in Nat :
          (IF x < y THEN x ELSE y) \in Nat /\ (IF x < y THEN x ELSE y) <= x
    OBVIOUS
  <2>2. off + M <= N => ~(N - off < M)
    BY <1>2, <1>3, <1>5
  <2>3. off + M <= N => m = M
    BY <1>3, <1>9, <2>2
  <2>4. m \in Nat /\ m <= M
    BY <1>3, <1>9, <2>1
  <2>5. outLen - 1 \in Nat
    OBVIOUS
  <2> HIDE DEF m
  <2> QED
    BY <2>3, <2>4, <2>5
<1> HIDE DEF value, m
<1>13. /\ Text(src) /\ Len(src) = IF outLen - 1 < m THEN outLen - 1 ELSE m
       /\ \A i \in 1..Len(src) : src[i] = value[i]
  BY <1>11, <1>12, CutIs
<1> HIDE DEF src
<1>14. /\ Len(src) \in Nat /\ Len(src) <= M /\ Len(src) < outLen /\ Len(src) <= m
       /\ (off + M <= N /\ M < outLen => Len(src) = M)
  BY <1>3, <1>12, <1>13
<1>15. \A i \in 1..Len(src) : src[i] = E[i]
  <2>1. \A i \in 1..Len(src) : i \in 1..m
    BY <1>12, <1>14
  <2> QED
    BY <1>11, <1>13, <2>1
<1>16. PICK n, r : /\ ReadBack(UrlDecode(src, outLen), v, Len(src) = M, n, r)
                   /\ n + r <= Len(src)
  <2>1. outLen \in Nat
    OBVIOUS
  <2> QED
    BY <1>13, <1>14, <1>15, <2>1, PrefixDecodes DEF E
<1>17. ReadBack(UrlDecode(src, outLen), v, off + M <= N /\ M < outLen, n, r)
  BY <1>14, <1>16 DEF ReadBack
<1>18. n + r < outLen
  <2>1. n \in Nat /\ r \in Nat
    <3>1. n \in 0..Len(v) /\ r \in 0..2
      BY <1>16 DEF ReadBack
    <3> QED
      BY <3>1
  <2> QED
    BY <1>14, <1>16, <2>1
<1>19. GetField(body, key, outLen) = UrlDecode(src, outLen)
  BY <1>1, <1>6
<1> QED
  BY <1>17, <1>18, <1>19 DEF FieldRead, E, N

(* TextJoins: texts one after the other.                                   *)
LEMMA TextJoins ==
  ASSUME NEW a, NEW b, Text(a), Text(b)
  PROVE  Text(a \o b) /\ Joins(a \o b, a, b)
<1>1. Text(a \o b)
  BY ConcatProperties DEF Text
<1>2. IsSeq(a, Nat) /\ IsSeq(b, Nat)
  BY DEF Text, IsSeq
<1> QED
  BY <1>1, <1>2, ConcatJoins, Zenon

(* What a browser sends, code by code.                                     *)
SentAs(s, E1, E2) ==
  /\ Text(s) /\ Len(s) = Len(E1) + Len(E2) + 6
  /\ s[1] = 115 /\ s[2] = 115 /\ s[3] = Equals
  /\ \A k \in 1..Len(E1) : s[k + 3] = E1[k]
  /\ s[Len(E1) + 4] = Amp /\ s[Len(E1) + 5] = 112 /\ s[Len(E1) + 6] = Equals
  /\ \A k \in 1..Len(E2) : s[k + Len(E1) + 6] = E2[k]

(* AfterJoin: where the codes of both texts are.                           *)
LEMMA AfterJoin ==
  ASSUME NEW c, NEW a, NEW b, NEW m \in Nat, NEW n \in Nat, Joins(c, a, b),
         Len(a) = m, Len(b) = n
  PROVE  /\ Len(c) = m + n
         /\ \A t \in 1..m : c[t] = a[t]
         /\ \A k \in 1..n : c[k + m] = b[k]
<1>1. Len(c) = m + n /\ \A t \in 1..m : c[t] = a[t]
  BY DEF Joins
<1>2. ASSUME NEW k \in 1..n PROVE c[k + m] = b[k]
  <2>1. k + m \in Nat /\ (k + m) - Len(a) = k /\ k \in 1..Len(b)
    BY <1>1
  <2> QED
    BY <2>1 DEF Joins
<1> QED
  BY <1>1, <1>2

(* AfterOne: and of a text and one code.                                   *)
LEMMA AfterOne ==
  ASSUME NEW c, NEW a, NEW b, NEW m \in Nat, Joins(c, a, b), Len(a) = m, Len(b) = 1
  PROVE  /\ Len(c) = m + 1
         /\ \A t \in 1..m : c[t] = a[t]
         /\ c[m + 1] = b[1]
<1>1. Len(c) = m + 1 /\ \A t \in 1..m : c[t] = a[t]
  BY DEF Joins
<1>2. m + 1 \in Nat /\ (m + 1) - Len(a) = 1 /\ 1 \in 1..Len(b)
  OBVIOUS
<1>3. c[m + 1] = b[1]
  BY <1>2 DEF Joins
<1> QED
  BY <1>1, <1>3

(* SentIs: two fields of any texts.                                        *)
LEMMA SentIs ==
  ASSUME NEW E1, Text(E1), NEW E2, Text(E2)
  PROVE  SentAs(SsidKey \o <<Equals>> \o E1 \o <<Amp>> \o PassKey \o <<Equals>> \o E2,
                E1, E2)
<1>1. PICK ss, eq, amp, p : ss = SsidKey /\ eq = <<Equals>> /\ amp = <<Amp>> /\ p = PassKey
  OBVIOUS
<1>2. PICK n1 \in Nat, n2 \in Nat : n1 = Len(E1) /\ n2 = Len(E2)
  BY TextHas
<1>3. /\ Text(ss) /\ Len(ss) = 2 /\ ss[1] = 115 /\ ss[2] = 115
      /\ Text(p) /\ Len(p) = 1 /\ p[1] = 112
  BY <1>1 DEF SsidKey, PassKey, Text
<1>4. /\ Text(eq) /\ Len(eq) = 1 /\ eq[1] = Equals
      /\ Text(amp) /\ Len(amp) = 1 /\ amp[1] = Amp
  BY <1>1 DEF Equals, Amp, Text
<1>5. PICK s1 : s1 = ss \o eq
  OBVIOUS
<1>6. PICK s2 : s2 = s1 \o E1
  OBVIOUS
<1>7. PICK s3 : s3 = s2 \o amp
  OBVIOUS
<1>8. PICK s4 : s4 = s3 \o p
  OBVIOUS
<1>9. PICK s5 : s5 = s4 \o eq
  OBVIOUS
<1>10. PICK s6 : s6 = s5 \o E2
  OBVIOUS
<1>11. Text(s1) /\ Joins(s1, ss, eq)
  BY <1>3, <1>4, <1>5, TextJoins, Zenon
<1>12. Text(s2) /\ Joins(s2, s1, E1)
  BY <1>6, <1>11, TextJoins, Zenon
<1>13. Text(s3) /\ Joins(s3, s2, amp)
  BY <1>4, <1>7, <1>12, TextJoins, Zenon
<1>14. Text(s4) /\ Joins(s4, s3, p)
  BY <1>3, <1>8, <1>13, TextJoins, Zenon
<1>15. Text(s5) /\ Joins(s5, s4, eq)
  BY <1>4, <1>9, <1>14, TextJoins, Zenon
<1>16. Text(s6) /\ Joins(s6, s5, E2)
  BY <1>10, <1>15, TextJoins, Zenon
<1>21. Len(s1) = 3 /\ s1[1] = 115 /\ s1[2] = 115 /\ s1[3] = Equals
  BY <1>3, <1>4, <1>11 DEF Joins
<1>22. /\ Len(s2) = n1 + 3 /\ s2[1] = 115 /\ s2[2] = 115 /\ s2[3] = Equals
       /\ \A k \in 1..n1 : s2[k + 3] = E1[k]
  <2>1. Len(s1) = 3 /\ Len(E1) = n1
    BY <1>2, <1>21
  <2>2. Len(s2) = n1 + 3 /\ \A t \in 1..3 : s2[t] = s1[t]
    BY <1>12, <2>1 DEF Joins
  <2>3. ASSUME NEW k \in 1..n1 PROVE s2[k + 3] = E1[k]
    <3>1. k + 3 \in Nat /\ (k + 3) - Len(s1) = k /\ k \in 1..Len(E1)
      BY <2>1
    <3> QED
      BY <1>12, <3>1 DEF Joins
  <2> QED
    BY <1>21, <2>2, <2>3
<1>23. /\ Len(s3) = n1 + 4 /\ s3[1] = 115 /\ s3[2] = 115 /\ s3[3] = Equals
       /\ (\A k \in 1..n1 : s3[k + 3] = E1[k]) /\ s3[n1 + 4] = Amp
  <2>1. Len(s2) = n1 + 3 /\ n1 + 3 \in Nat /\ n1 + 3 + 1 = n1 + 4
    BY <1>2, <1>22
  <2>2. /\ Len(s3) = n1 + 3 + 1 /\ s3[n1 + 3 + 1] = amp[1]
        /\ \A t \in 1..n1 + 3 : s3[t] = s2[t]
    BY <1>3, <1>4, <1>13, <2>1, AfterOne
  <2>3. /\ 1 \in 1..n1 + 3 /\ 2 \in 1..n1 + 3 /\ 3 \in 1..n1 + 3
        /\ \A k \in 1..n1 : k + 3 \in 1..n1 + 3
    OBVIOUS
  <2>4. \A k \in 1..n1 : s3[k + 3] = E1[k]
    BY <1>22, <2>2, <2>3
  <2>5. Len(s3) = n1 + 4 /\ s3[n1 + 4] = Amp
    BY <1>4, <2>1, <2>2
  <2> QED
    BY <1>22, <2>2, <2>3, <2>4, <2>5
<1>24. /\ Len(s4) = n1 + 5 /\ s4[1] = 115 /\ s4[2] = 115 /\ s4[3] = Equals
       /\ (\A k \in 1..n1 : s4[k + 3] = E1[k]) /\ s4[n1 + 4] = Amp /\ s4[n1 + 5] = 112
  <2>1. Len(s3) = n1 + 4 /\ n1 + 4 \in Nat /\ n1 + 4 + 1 = n1 + 5
    BY <1>2, <1>23
  <2>2. /\ Len(s4) = n1 + 4 + 1 /\ s4[n1 + 4 + 1] = p[1]
        /\ \A t \in 1..n1 + 4 : s4[t] = s3[t]
    BY <1>3, <1>4, <1>14, <2>1, AfterOne
  <2>3. /\ 1 \in 1..n1 + 4 /\ 2 \in 1..n1 + 4 /\ 3 \in 1..n1 + 4 /\ n1 + 4 \in 1..n1 + 4
        /\ \A k \in 1..n1 : k + 3 \in 1..n1 + 4
    OBVIOUS
  <2>4. \A k \in 1..n1 : s4[k + 3] = E1[k]
    BY <1>23, <2>2, <2>3
  <2>5. Len(s4) = n1 + 5 /\ s4[n1 + 5] = 112
    BY <1>3, <2>1, <2>2
  <2> QED
    BY <1>23, <2>2, <2>3, <2>4, <2>5
<1>25. /\ Len(s5) = n1 + 6 /\ s5[1] = 115 /\ s5[2] = 115 /\ s5[3] = Equals
       /\ (\A k \in 1..n1 : s5[k + 3] = E1[k])
       /\ s5[n1 + 4] = Amp /\ s5[n1 + 5] = 112 /\ s5[n1 + 6] = Equals
  <2>1. Len(s4) = n1 + 5 /\ n1 + 5 \in Nat /\ n1 + 5 + 1 = n1 + 6
    BY <1>2, <1>24
  <2>2. /\ Len(s5) = n1 + 5 + 1 /\ s5[n1 + 5 + 1] = eq[1]
        /\ \A t \in 1..n1 + 5 : s5[t] = s4[t]
    BY <1>3, <1>4, <1>15, <2>1, AfterOne
  <2>3. /\ 1 \in 1..n1 + 5 /\ 2 \in 1..n1 + 5 /\ 3 \in 1..n1 + 5
        /\ n1 + 4 \in 1..n1 + 5 /\ n1 + 5 \in 1..n1 + 5
        /\ \A k \in 1..n1 : k + 3 \in 1..n1 + 5
    OBVIOUS
  <2>4. \A k \in 1..n1 : s5[k + 3] = E1[k]
    BY <1>24, <2>2, <2>3
  <2>5. Len(s5) = n1 + 6 /\ s5[n1 + 6] = Equals
    BY <1>4, <2>1, <2>2
  <2> QED
    BY <1>24, <2>2, <2>3, <2>4, <2>5
<1>26. /\ Len(s6) = n1 + n2 + 6 /\ s6[1] = 115 /\ s6[2] = 115 /\ s6[3] = Equals
       /\ (\A k \in 1..n1 : s6[k + 3] = E1[k])
       /\ s6[n1 + 4] = Amp /\ s6[n1 + 5] = 112 /\ s6[n1 + 6] = Equals
       /\ (\A k \in 1..n2 : s6[k + (n1 + 6)] = E2[k])
  <2>1. Len(s5) = n1 + 6 /\ Len(E2) = n2
    BY <1>2, <1>25
  <2>6. PICK q \in Nat : q = n1 + 6
    OBVIOUS
  <2>7. /\ Len(s6) = q + n2 /\ \A t \in 1..q : s6[t] = s5[t]
        /\ \A k \in 1..n2 : s6[k + q] = E2[k]
    <3>1. Len(s5) = q /\ q \in Nat /\ Joins(s6, s5, E2)
      BY <1>16, <2>1, <2>6
    <3> QED
      BY <2>1, <3>1, AfterJoin
  <2>2. /\ Len(s6) = n1 + 6 + n2 /\ \A t \in 1..n1 + 6 : s6[t] = s5[t]
        /\ \A k \in 1..n2 : s6[k + (n1 + 6)] = E2[k]
    BY <2>6, <2>7
  <2>3. /\ 1 \in 1..n1 + 6 /\ 2 \in 1..n1 + 6 /\ 3 \in 1..n1 + 6
        /\ n1 + 4 \in 1..n1 + 6 /\ n1 + 5 \in 1..n1 + 6 /\ n1 + 6 \in 1..n1 + 6
        /\ \A k \in 1..n1 : k + 3 \in 1..n1 + 6
    OBVIOUS
  <2>4. \A k \in 1..n1 : s6[k + 3] = E1[k]
    BY <1>25, <2>2, <2>3
  <2>5. Len(s6) = n1 + n2 + 6
    BY <2>2
  <2> QED
    BY <1>25, <2>2, <2>3, <2>4, <2>5
<1>27. SentAs(s6, E1, E2)
  <2>1. \A k \in 1..n2 : k + (n1 + 6) = k + n1 + 6
    OBVIOUS
  <2> QED
    BY <1>2, <1>16, <1>26, <2>1 DEF SentAs
<1>28. s6 = ss \o eq \o E1 \o amp \o p \o eq \o E2
  BY <1>5, <1>6, <1>7, <1>8, <1>9, <1>10
<1> QED
  BY <1>1, <1>27, <1>28, Zenon

(* What arrives is the beginning of what was sent.                         *)
BeginningOf(body, sent) ==
  Text(body) /\ Len(body) <= Len(sent) /\ \A i \in 1..Len(body) : body[i] = sent[i]

(* BodyIs: read_body gives no more than that, and all of it if it arrives  *)
(* and fits.                                                               *)
LEMMA BodyIs ==
  ASSUME NEW sent, Text(sent), NEW arrived \in Nat, NEW maxLen \in Nat \ {0}
  PROVE  /\ BeginningOf(ReadBody(sent, arrived, maxLen), sent)
         /\ Len(sent) <= arrived /\ Len(sent) < maxLen /\ Len(sent) > 0 =>
              Len(ReadBody(sent, arrived, maxLen)) = Len(sent)
<1> DEFINE wanted == IF Len(sent) = 0 \/ Len(sent) >= maxLen THEN maxLen - 1 ELSE Len(sent)
           all == Cut(sent, wanted)
           body == Cut(all, arrived)
<1>1. ReadBody(sent, arrived, maxLen) = body
  BY DEF ReadBody
<1>2. Len(sent) \in Nat
  BY TextHas
<1>3. wanted \in Nat /\ (Len(sent) < maxLen /\ Len(sent) > 0 => wanted >= Len(sent))
  BY <1>2
<1> HIDE DEF wanted
<1>4. /\ Text(all) /\ Len(all) = IF wanted < Len(sent) THEN wanted ELSE Len(sent)
      /\ \A i \in 1..Len(all) : all[i] = sent[i]
  BY <1>3, CutIs
<1> HIDE DEF all
<1>5. Len(all) \in Nat
  BY <1>4, TextHas
<1>6. /\ Text(body) /\ Len(body) = IF arrived < Len(all) THEN arrived ELSE Len(all)
      /\ \A i \in 1..Len(body) : body[i] = all[i]
  BY <1>4, CutIs
<1> HIDE DEF body
<1>7. Len(body) \in Nat /\ Len(body) <= Len(all) /\ Len(all) <= Len(sent)
  BY <1>2, <1>3, <1>4, <1>5, <1>6
<1>8. \A i \in 1..Len(body) : body[i] = sent[i]
  <2>1. \A i \in 1..Len(body) : i \in 1..Len(all)
    BY <1>5, <1>7
  <2> QED
    BY <1>4, <1>6, <2>1
<1>9. BeginningOf(body, sent)
  BY <1>2, <1>5, <1>6, <1>7, <1>8 DEF BeginningOf
<1>10. Len(sent) <= arrived /\ Len(sent) < maxLen /\ Len(sent) > 0 => Len(body) = Len(sent)
  BY <1>2, <1>3, <1>4, <1>5, <1>6
<1> QED
  BY <1>1, <1>9, <1>10

(* FieldWeaker: what holds of a whole text holds under a narrower          *)
(* condition.                                                              *)
LEMMA FieldWeaker ==
  ASSUME NEW out, NEW v, NEW outLen, NEW whole, NEW less, FieldRead(out, v, whole, outLen),
         less => whole
  PROVE  FieldRead(out, v, less, outLen)
BY DEF FieldRead, ReadBack

(* SsidRead: the first field, whatever its text and the other's.           *)
LEMMA SsidRead ==
  ASSUME NEW sent, NEW body, NEW v1, Typed(v1), NEW v2, Typed(v2),
         SentAs(sent, Encode(v1), Encode(v2)), BeginningOf(body, sent),
         NEW outLen \in Nat \ {0}
  PROVE  FieldRead(GetField(body, SsidKey, outLen), v1,
                   Len(body) = Len(sent) /\ Len(Encode(v1)) < outLen, outLen)
<1>1. PICK E1, E2 : E1 = Encode(v1) /\ E2 = Encode(v2)
  OBVIOUS
<1>2. Text(E1) /\ Text(E2)
  BY <1>1, EncodeSpells DEF Spelled
<1>3. Len(E1) \in Nat /\ Len(E2) \in Nat /\ SentAs(sent, E1, E2)
  BY <1>1, <1>2, TextHas
<1>4. Text(body) /\ Len(body) \in Nat /\ DOMAIN body = 1..Len(body)
  BY TextHas DEF BeginningOf
<1>5. PICK word : word = Append(SsidKey, Equals)
  OBVIOUS
<1>6. Text(word) /\ Len(word) = 3 /\ word[1] = 115 /\ word[2] = 115 /\ word[3] = Equals
  BY <1>5 DEF SsidKey, Equals, Text
<1>7. /\ Len(sent) = Len(E1) + Len(E2) + 6
      /\ sent[1] = 115 /\ sent[2] = 115 /\ sent[3] = Equals
      /\ \A k \in 1..Len(E1) : sent[k + 3] = E1[k]
      /\ sent[Len(E1) + 4] = Amp
  BY <1>3 DEF SentAs
<1>8. CASE Len(body) >= 3
  <2>1. StartsAt(body, word, 1)
    <3>1. /\ 1 \in 1..Len(body) /\ 2 \in 1..Len(body) /\ 3 \in 1..Len(body)
          /\ 1 + 3 <= Len(body) + 1
      BY <1>4, <1>8
    <3>2. body[1] = 115 /\ body[2] = 115 /\ body[3] = Equals
      BY <1>7, <3>1 DEF BeginningOf
    <3>3. ASSUME NEW k \in 1..3 PROVE body[1 + k - 1] = word[k]
      <4>1. k = 1 \/ k = 2 \/ k = 3
        OBVIOUS
      <4>2. 1 + k - 1 = k
        OBVIOUS
      <4> QED
        BY <1>6, <3>2, <4>1, <4>2
    <3>4. PICK q \in 1..Len(body) : q = 1
      BY <3>1
    <3>5. /\ q + Len(word) <= Len(body) + 1
          /\ \A k \in 1..Len(word) : body[q + k - 1] = word[k]
      BY <1>6, <3>1, <3>3, <3>4
    <3>6. StartsAt(body, word, q)
      BY <1>4, <1>6, <3>5, StartsIs
    <3> QED
      BY <3>4, <3>6, Zenon
  <2>2. ValueAt(body, 3, E1)
    <3>1. 3 \in 0..Len(body)
      BY <1>4, <1>8
    <3>2. ASSUME NEW k \in 1..Len(E1), 3 + k <= Len(body) PROVE body[3 + k] = E1[k]
      <4>1. 3 + k \in 1..Len(body) /\ 3 + k = k + 3
        BY <1>4, <3>2
      <4> QED
        BY <1>7, <4>1 DEF BeginningOf
    <3>3. ASSUME 3 + Len(E1) + 1 <= Len(body) PROVE body[3 + Len(E1) + 1] = Amp
      <4>1. 3 + Len(E1) + 1 \in 1..Len(body) /\ 3 + Len(E1) + 1 = Len(E1) + 4
        BY <1>3, <1>4, <3>3
      <4> QED
        BY <1>7, <4>1 DEF BeginningOf
    <3> QED
      BY <3>1, <3>2, <3>3 DEF ValueAt
  <2>3. \A p \in 1..Len(body) : StartsAt(body, word, p) => 1 <= p
    <3>1. ASSUME NEW p \in 1..Len(body) PROVE 1 <= p
      BY <1>4
    <3> QED
      BY <3>1, Zenon
  <2>4. KeyAt(body, SsidKey, 3)
    <3>1. 1 \in 1..Len(body) /\ 3 = 1 + Len(word) - 1
      BY <1>4, <1>6, <1>8
    <3>2. word = Append(SsidKey, Equals) /\ Text(word)
      BY <1>5, <1>6, Zenon
    <3>3. PICK at : at = 1
      OBVIOUS
    <3>4. /\ at \in 1..Len(body) /\ StartsAt(body, word, at)
          /\ \A p \in 1..Len(body) : StartsAt(body, word, p) => at <= p
          /\ 3 = at + Len(word) - 1
      BY <2>1, <2>3, <3>1, <3>3, Zenon
    <3> QED
      BY <3>2, <3>4, Zenon DEF KeyAt
  <2>5. FieldRead(GetField(body, SsidKey, outLen), v1,
                  3 + Len(E1) <= Len(body) /\ Len(E1) < outLen, outLen)
    <3>1. ValueAt(body, 3, Encode(v1))
      BY <1>1, <2>2
    <3> QED
      BY <1>1, <1>4, <2>4, <3>1, FieldFound
  <2>6. Len(body) = Len(sent) => 3 + Len(E1) <= Len(body)
    BY <1>3, <1>7
  <2> QED
    BY <1>1, <2>5, <2>6, FieldWeaker
<1>9. CASE Len(body) < 3
  <2>1. ASSUME NEW p \in 1..Len(body) PROVE ~StartsAt(body, word, p)
    <3>1. ~(p + 3 <= Len(body) + 1)
      BY <1>4, <1>9
    <3>2. Text(body) /\ Text(word)
      BY <1>4, <1>6
    <3>3. StartsAt(body, word, p) => p + Len(word) <= Len(body) + 1
      BY <3>2, StartsIs
    <3> QED
      BY <1>6, <3>1, <3>3
  <2>2. GetField(body, SsidKey, outLen) = <<>>
    BY <1>4, <1>5, <2>1, FieldMissing
  <2>3. ~(Len(body) = Len(sent) /\ Len(Encode(v1)) < outLen)
    BY <1>3, <1>7, <1>9
  <2> QED
    BY <2>2, <2>3, NothingRead
<1> QED
  BY <1>4, <1>8, <1>9

(* PassNotBefore: the second field's key is nowhere before its own place,  *)
(* not in the first key, not in the first field's text, not across them.   *)
LEMMA PassNotBefore ==
  ASSUME NEW sent, NEW E1, NEW E2, Text(E1), SentAs(sent, E1, E2),
         \A i \in 1..Len(E1) : E1[i] # Equals,
         NEW p \in Nat, p >= 1, p < Len(E1) + 5, sent[p] = 112, sent[p + 1] = Equals
  PROVE  FALSE
<1>1. PICK n \in Nat : n = Len(E1)
  BY TextHas
<1>2. /\ sent[1] = 115 /\ sent[2] = 115 /\ sent[n + 4] = Amp /\ sent[n + 5] = 112
      /\ \A k \in 1..n : sent[k + 3] # Equals
  <2>1. \A k \in 1..n : sent[k + 3] = E1[k]
    BY <1>1 DEF SentAs
  <2> QED
    BY <1>1, <2>1 DEF SentAs
<1>3. Equals = 61 /\ Amp = 38
  BY DEF Equals, Amp
<1>4. p # 1 /\ p # 2
  BY <1>2
<1>5. p # n + 3
  <2>1. p = n + 3 => p + 1 = n + 4
    OBVIOUS
  <2> QED
    BY <1>2, <1>3, <2>1
<1>6. p # n + 4
  <2>1. p = n + 4 => p + 1 = n + 5
    OBVIOUS
  <2> QED
    BY <1>2, <1>3, <2>1
<1>7. p - 2 \in 1..n /\ (p - 2) + 3 = p + 1
  BY <1>1, <1>4, <1>5, <1>6
<1> QED
  BY <1>2, <1>7

(* PassRead: the second field, whatever the texts of both.                 *)
LEMMA PassRead ==
  ASSUME NEW sent, NEW body, NEW v1, Typed(v1), NEW v2, Typed(v2),
         SentAs(sent, Encode(v1), Encode(v2)), BeginningOf(body, sent),
         NEW outLen \in Nat \ {0}
  PROVE  FieldRead(GetField(body, PassKey, outLen), v2,
                   Len(body) = Len(sent) /\ Len(Encode(v2)) < outLen, outLen)
<1>1. PICK E1, E2 : E1 = Encode(v1) /\ E2 = Encode(v2)
  OBVIOUS
<1>2. Text(E1) /\ Text(E2)
  BY <1>1, EncodeSpells DEF Spelled
<1>3. Len(E1) \in Nat /\ Len(E2) \in Nat /\ SentAs(sent, E1, E2)
  BY <1>1, <1>2, TextHas
<1>4. Text(body) /\ Len(body) \in Nat /\ DOMAIN body = 1..Len(body)
  BY TextHas DEF BeginningOf
<1>5. PICK word : word = Append(PassKey, Equals)
  OBVIOUS
<1>6. Text(word) /\ Len(word) = 2 /\ word[1] = 112 /\ word[2] = Equals
  BY <1>5 DEF PassKey, Equals, Text
<1>7. PICK n \in Nat : n = Len(E1)
  BY <1>3
<1>8. /\ Len(sent) = n + Len(E2) + 6
      /\ sent[n + 5] = 112 /\ sent[n + 6] = Equals
      /\ \A k \in 1..Len(E2) : sent[k + n + 6] = E2[k]
  BY <1>3, <1>7 DEF SentAs
<1>9. ASSUME NEW p \in 1..Len(body), StartsAt(body, word, p), p < n + 5 PROVE FALSE
  <2>1. /\ p + Len(word) <= Len(body) + 1
        /\ \A k \in 1..Len(word) : body[p + k - 1] = word[k]
    <3>1. Text(body) /\ Text(word) /\ StartsAt(body, word, p)
      BY <1>4, <1>6, <1>9
    <3> QED
      BY <3>1, StartsIs
  <2>2. /\ 1 \in 1..Len(word) /\ 2 \in 1..Len(word) /\ p + 1 - 1 = p /\ p + 2 - 1 = p + 1
        /\ p + 1 \in 1..Len(body) /\ p \in Nat /\ p >= 1
    BY <1>4, <1>6, <2>1
  <2>3. body[p] = 112 /\ body[p + 1] = Equals
    <3>1. body[p + 1 - 1] = word[1] /\ body[p + 2 - 1] = word[2]
      BY <2>1, <2>2
    <3> QED
      BY <1>6, <2>2, <3>1
  <2>4. sent[p] = 112 /\ sent[p + 1] = Equals
    BY <2>2, <2>3 DEF BeginningOf
  <2>5. \A i \in 1..Len(E1) : E1[i] # Equals
    BY <1>1, NoDelimiters
  <2>6. p < Len(E1) + 5
    BY <1>7, <1>9
  <2> QED
    BY <1>2, <1>3, <2>2, <2>4, <2>5, <2>6, PassNotBefore
<1>10. CASE Len(body) >= n + 6
  <2>1. StartsAt(body, word, n + 5)
    <3>1. /\ n + 5 \in 1..Len(body) /\ n + 6 \in 1..Len(body) /\ n + 5 + 2 <= Len(body) + 1
      BY <1>4, <1>10
    <3>2. body[n + 5] = 112 /\ body[n + 6] = Equals
      BY <1>8, <3>1 DEF BeginningOf
    <3>3. ASSUME NEW k \in 1..2 PROVE body[n + 5 + k - 1] = word[k]
      <4>1. k = 1 \/ k = 2
        OBVIOUS
      <4>2. (k = 1 => n + 5 + k - 1 = n + 5) /\ (k = 2 => n + 5 + k - 1 = n + 6)
        OBVIOUS
      <4> QED
        BY <1>6, <3>2, <4>1, <4>2
    <3>4. PICK q \in 1..Len(body) : q = n + 5
      BY <3>1
    <3>5. /\ q + Len(word) <= Len(body) + 1
          /\ \A k \in 1..Len(word) : body[q + k - 1] = word[k]
      BY <1>6, <3>1, <3>3, <3>4
    <3>6. StartsAt(body, word, q)
      BY <1>4, <1>6, <3>5, StartsIs
    <3> QED
      BY <3>4, <3>6, Zenon
  <2>2. ValueAt(body, n + 6, E2)
    <3>1. n + 6 \in 0..Len(body)
      BY <1>4, <1>10
    <3>2. ASSUME NEW k \in 1..Len(E2), n + 6 + k <= Len(body) PROVE body[n + 6 + k] = E2[k]
      <4>1. n + 6 + k \in 1..Len(body) /\ n + 6 + k = k + n + 6
        BY <1>4, <3>2
      <4> QED
        BY <1>8, <4>1 DEF BeginningOf
    <3>3. ~(n + 6 + Len(E2) + 1 <= Len(body))
      <4>1. Len(body) <= Len(sent)
        BY DEF BeginningOf
      <4> QED
        BY <1>3, <1>4, <1>8, <4>1
    <3> QED
      BY <3>1, <3>2, <3>3 DEF ValueAt
  <2>3. \A p \in 1..Len(body) : StartsAt(body, word, p) => n + 5 <= p
    <3>1. \A p \in 1..Len(body) : ~(p < n + 5) => n + 5 <= p
      BY <1>4
    <3> QED
      BY <1>9, <3>1
  <2>4. KeyAt(body, PassKey, n + 6)
    <3>1. n + 5 \in 1..Len(body) /\ n + 6 = n + 5 + Len(word) - 1
      BY <1>4, <1>6, <1>10
    <3> QED
      BY <1>5, <1>6, <2>1, <2>3, <3>1 DEF KeyAt
  <2>5. FieldRead(GetField(body, PassKey, outLen), v2,
                  n + 6 + Len(E2) <= Len(body) /\ Len(E2) < outLen, outLen)
    <3>1. PICK off : off = n + 6
      OBVIOUS
    <3>2. ValueAt(body, off, Encode(v2)) /\ KeyAt(body, PassKey, off)
      BY <1>1, <2>2, <2>4, <3>1
    <3>3. FieldRead(GetField(body, PassKey, outLen), v2,
                    off + Len(Encode(v2)) <= Len(body) /\ Len(Encode(v2)) < outLen, outLen)
      BY <1>4, <3>2, FieldFound
    <3> QED
      BY <1>1, <3>1, <3>3
  <2>6. Len(body) = Len(sent) => n + 6 + Len(E2) <= Len(body)
    BY <1>3, <1>8
  <2> QED
    BY <1>1, <2>5, <2>6, FieldWeaker
<1>11. CASE Len(body) < n + 6
  <2>1. ASSUME NEW p \in 1..Len(body) PROVE ~StartsAt(body, word, p)
    <3> SUFFICES ASSUME StartsAt(body, word, p) PROVE FALSE
      OBVIOUS
    <3>1. p + Len(word) <= Len(body) + 1
      BY <1>4, <1>6, StartsIs
    <3>2. p < n + 5
      BY <1>4, <1>6, <1>11, <3>1
    <3> QED
      BY <1>9, <3>2
  <2>2. GetField(body, PassKey, outLen) = <<>>
    BY <1>4, <1>5, <2>1, FieldMissing
  <2>3. ~(Len(body) = Len(sent) /\ Len(Encode(v2)) < outLen)
    BY <1>3, <1>8, <1>11
  <2> QED
    BY <2>2, <2>3, NothingRead
<1> QED
  BY <1>4, <1>10, <1>11

(* Any form: two texts of any length and characters, any arrival, a buffer *)
(* for the body of any size and one for the field of no more than tmp in   *)
(* get_field.                                                              *)
AnyForm ==
  [kind : {"form"}, ssid : Seq(1..255), pass : Seq(1..255),
   outLen : 1..256, bodyLen : Nat \ {0}, arrived : Nat]

(* FormTyped: what its parts are.                                          *)
LEMMA FormTyped ==
  ASSUME NEW f \in AnyForm
  PROVE  /\ Typed(f.ssid) /\ Typed(f.pass) /\ f.outLen \in Nat \ {0}
         /\ f.bodyLen \in Nat \ {0} /\ f.arrived \in Nat
<1>1. /\ Typed(f.ssid) /\ Typed(f.pass) /\ f.outLen \in 1..256
      /\ f.bodyLen \in Nat \ {0} /\ f.arrived \in Nat
  BY DEF AnyForm, Typed
<1>2. f.outLen \in Nat /\ f.outLen # 0
  BY <1>1
<1> QED
  BY <1>1, <1>2

(* FormRead: what its fields come out as.                                  *)
LEMMA FormRead ==
  ASSUME NEW f \in AnyForm
  PROVE  /\ FieldRead(Fields(f).ssid, f.ssid,
                      Arrives(f) /\ Len(Encode(f.ssid)) < f.outLen, f.outLen)
         /\ FieldRead(Fields(f).pass, f.pass,
                      Arrives(f) /\ Len(Encode(f.pass)) < f.outLen, f.outLen)
<1>1. /\ Typed(f.ssid) /\ Typed(f.pass) /\ f.outLen \in Nat \ {0}
      /\ f.bodyLen \in Nat \ {0} /\ f.arrived \in Nat
  BY FormTyped
<1>2. Text(Encode(f.ssid)) /\ Text(Encode(f.pass))
  BY <1>1, EncodeSpells DEF Spelled
<1>3. PICK sent : sent = Sent(f)
  OBVIOUS
<1>4. SentAs(sent, Encode(f.ssid), Encode(f.pass))
  BY <1>2, <1>3, SentIs, Zenon DEF Sent
<1>5. PICK body : body = ReadBody(sent, f.arrived, f.bodyLen)
  OBVIOUS
<1>6. Text(sent) /\ Len(sent) > 0
  <2>1. Text(sent) /\ Len(sent) = Len(Encode(f.ssid)) + Len(Encode(f.pass)) + 6
    BY <1>4 DEF SentAs
  <2>2. Len(Encode(f.ssid)) \in Nat /\ Len(Encode(f.pass)) \in Nat
    BY <1>2, TextHas
  <2> QED
    BY <2>1, <2>2
<1>7. BeginningOf(body, sent) /\ (Arrives(f) => Len(body) = Len(sent))
  BY <1>1, <1>3, <1>5, <1>6, BodyIs DEF Arrives
<1>8. /\ Fields(f).ssid = GetField(body, SsidKey, f.outLen)
      /\ Fields(f).pass = GetField(body, PassKey, f.outLen)
  BY <1>3, <1>5 DEF Fields
<1>9. FieldRead(GetField(body, SsidKey, f.outLen), f.ssid,
                Len(body) = Len(sent) /\ Len(Encode(f.ssid)) < f.outLen, f.outLen)
  BY <1>1, <1>4, <1>7, SsidRead
<1>10. FieldRead(GetField(body, PassKey, f.outLen), f.pass,
                 Len(body) = Len(sent) /\ Len(Encode(f.pass)) < f.outLen, f.outLen)
  BY <1>1, <1>4, <1>7, PassRead
<1>11. FieldRead(GetField(body, SsidKey, f.outLen), f.ssid,
                 Arrives(f) /\ Len(Encode(f.ssid)) < f.outLen, f.outLen)
  BY <1>7, <1>9, FieldWeaker
<1>12. FieldRead(GetField(body, PassKey, f.outLen), f.pass,
                 Arrives(f) /\ Len(Encode(f.pass)) < f.outLen, f.outLen)
  BY <1>7, <1>10, FieldWeaker
<1> QED
  BY <1>8, <1>11, <1>12

(* WholeIsSame: a text that is read back whole is what was typed.          *)
LEMMA WholeIsSame ==
  ASSUME NEW v, Typed(v), NEW out, NEW outLen, FieldRead(out, v, TRUE, outLen)
  PROVE  out = v
<1>1. PICK n, r : ReadBack(out, v, TRUE, n, r)
  BY DEF FieldRead
<1>2. /\ Text(out) /\ Len(out) = n + r /\ n = Len(v) /\ r = 0
      /\ \A k \in 1..n : out[k] = v[k]
  BY <1>1 DEF ReadBack
<1>3. Text(v) /\ Len(v) \in Nat
  BY TypedIsText, TypedHas
<1>4. Len(out) = Len(v) /\ \A k \in 1..Len(out) : out[k] = v[k]
  BY <1>2, <1>3
<1> QED
  BY <1>2, <1>3, <1>4, TextEqual

(* FormSurvives: a form that arrives whole, with texts of any length,      *)
(* gives back what was typed in every field whose escaped text fits its    *)
(* buffer, whatever characters are in the other fields (read_body,         *)
(* get_field, url_decode).                                                 *)
THEOREM FormSurvives ==
  ASSUME input \in AnyForm, output = Fields(input)
  PROVE  FieldsSurvive
<1> SUFFICES ASSUME Arrives(input), NEW k \in {"ssid", "pass"},
                    Len(Encode(input[k])) < input.outLen
             PROVE  output[k] = input[k]
  BY DEF FieldsSurvive
<1>1. Typed(input.ssid) /\ Typed(input.pass)
  BY FormTyped
<1>2. CASE k = "ssid"
  <2>1. FieldRead(output.ssid, input.ssid,
                  Arrives(input) /\ Len(Encode(input.ssid)) < input.outLen, input.outLen)
    BY FormRead
  <2>2. FieldRead(output.ssid, input.ssid, TRUE, input.outLen)
    BY <1>2, <2>1, FieldWeaker
  <2>3. output.ssid = input.ssid
    BY <1>1, <2>2, WholeIsSame
  <2> QED
    BY <1>2, <2>3
<1>3. CASE k = "pass"
  <2>1. FieldRead(output.pass, input.pass,
                  Arrives(input) /\ Len(Encode(input.pass)) < input.outLen, input.outLen)
    BY FormRead
  <2>2. FieldRead(output.pass, input.pass, TRUE, input.outLen)
    BY <1>3, <2>1, FieldWeaker
  <2>3. output.pass = input.pass
    BY <1>1, <2>2, WholeIsSame
  <2> QED
    BY <1>3, <2>3
<1> QED
  BY <1>2, <1>3

(* One field of FieldsOnlyCut.                                             *)
OnlyCut(out, v, outLen) ==
  /\ Len(out) < outLen
  /\ \E n \in 0..Len(v), cut \in 0..2 :
       LET next == IF n = Len(v) THEN <<>> ELSE Escape(v[n + 1])
       IN  out = Cut(v, n) \o IF Len(next) = 3 THEN Cut(next, cut) ELSE <<>>

(* ReadIsOnlyCut: what is read back is the beginning of what was typed,    *)
(* and of one escape.                                                      *)
LEMMA ReadIsOnlyCut ==
  ASSUME NEW v, Typed(v), NEW out, NEW outLen \in Nat \ {0}, NEW whole,
         FieldRead(out, v, whole, outLen)
  PROVE  OnlyCut(out, v, outLen)
<1>1. PICK n, r : ReadBack(out, v, whole, n, r) /\ n + r < outLen
  BY DEF FieldRead
<1>2. /\ Text(out) /\ n \in 0..Len(v) /\ r \in 0..2 /\ Len(out) = n + r
      /\ \A k \in 1..n : out[k] = v[k]
      /\ r > 0 => n < Len(v) /\ Len(Escape(v[n + 1])) = 3
      /\ \A k \in 1..r : out[n + k] = Escape(v[n + 1])[k]
  BY <1>1 DEF ReadBack
<1>3. Text(v) /\ Len(v) \in Nat /\ n \in Nat
  BY <1>2, TypedIsText, TypedHas
<1> DEFINE next == IF n = Len(v) THEN <<>> ELSE Escape(v[n + 1])
           left == IF Len(next) = 3 THEN Cut(next, r) ELSE <<>>
<1>4. Text(next)
  <2>1. CASE n = Len(v)
    BY <2>1 DEF Text
  <2>2. CASE n # Len(v)
    <3>1. n + 1 \in 1..Len(v)
      BY <1>2, <1>3, <2>2
    <3>2. v[n + 1] \in 0..255
      BY <3>1, TypedHas
    <3>3. Text(Escape(v[n + 1]))
      BY <3>2, EscapeIs
    <3> QED
      BY <2>2, <3>3
  <2> QED
    BY <2>1, <2>2
<1>5. Text(left) /\ Len(left) = r /\ \A k \in 1..r : out[n + k] = left[k]
  <2>1. CASE r = 0
    <3>1. Text(<<>>) /\ Len(<<>>) = 0
      BY DEF Text
    <3>2. r \in Nat /\ 1..r = {}
      BY <2>1
    <3> HIDE DEF next
    <3>3. Len(next) = 3 => Text(Cut(next, r)) /\ Len(Cut(next, r)) = 0
      BY <1>4, <2>1, <3>2, CutIs
    <3> QED
      BY <2>1, <3>1, <3>2, <3>3
  <2>2. CASE r > 0
    <3>1. next = Escape(v[n + 1]) /\ Len(next) = 3 /\ r \in Nat /\ ~(3 < r)
      BY <1>2, <1>3, <2>2
    <3>2. left = Cut(next, r)
      BY <3>1
    <3>3. \A k \in 1..r : out[n + k] = next[k]
      BY <1>2, <3>1
    <3> HIDE DEF next, left
    <3>4. /\ Text(Cut(next, r))
          /\ Len(Cut(next, r)) = IF r < Len(next) THEN r ELSE Len(next)
          /\ \A i \in 1..Len(Cut(next, r)) : Cut(next, r)[i] = next[i]
      BY <1>4, <3>1, CutIs
    <3>5. Len(Cut(next, r)) = r
      BY <1>2, <3>1, <3>4
    <3> QED
      BY <3>2, <3>3, <3>4, <3>5
  <2> QED
    BY <1>2, <2>1, <2>2
<1>6. PICK head : head = Cut(v, n)
  OBVIOUS
<1>7. Text(head) /\ Len(head) = n /\ \A k \in 1..n : head[k] = v[k]
  <2>1. (IF n < Len(v) THEN n ELSE Len(v)) = n
    BY <1>2, <1>3
  <2>2. /\ Text(head) /\ Len(head) = IF n < Len(v) THEN n ELSE Len(v)
        /\ \A i \in 1..Len(head) : head[i] = v[i]
    BY <1>3, <1>6, CutIs
  <2> QED
    BY <2>1, <2>2
<1> HIDE DEF left
<1>8. PICK whl : whl = head \o left
  OBVIOUS
<1>9. Text(whl) /\ Joins(whl, head, left)
  BY <1>5, <1>7, <1>8, TextJoins, Zenon
<1>10. Len(whl) = n + r /\ \A t \in 1..n : whl[t] = head[t]
  BY <1>5, <1>7, <1>9 DEF Joins
<1>11. ASSUME NEW k \in 1..n + r PROVE whl[k] = out[k]
  <2>1. CASE k <= n
    <3>1. k \in 1..n
      BY <1>3, <2>1
    <3> QED
      BY <1>2, <1>7, <1>10, <3>1
  <2>2. CASE ~(k <= n)
    <3>1. k - n \in 1..r /\ n + (k - n) = k /\ k \in Nat
      BY <1>2, <1>3, <2>2
    <3>2. whl[k] = left[k - n]
      BY <1>5, <1>7, <1>9, <3>1 DEF Joins
    <3>3. out[n + (k - n)] = left[k - n]
      BY <1>5, <3>1
    <3> QED
      BY <3>1, <3>2, <3>3
  <2> QED
    BY <2>1, <2>2
<1>12. out = whl
  BY <1>2, <1>9, <1>10, <1>11, TextEqual
<1>13. out = Cut(v, n) \o left
  BY <1>6, <1>8, <1>12
<1>14. Len(out) < outLen
  BY <1>1, <1>2
<1> QED
  BY <1>2, <1>13, <1>14 DEF OnlyCut, left

(* FormOnlyCut: whatever the texts, the buffers and the bytes that arrive, *)
(* a field never overflows its buffer, never takes in another field and is *)
(* at worst cut off in its last escape (read_body, get_field, url_decode). *)
THEOREM FormOnlyCut ==
  ASSUME input \in AnyForm, output = Fields(input)
  PROVE  FieldsOnlyCut
<1>1. /\ Typed(input.ssid) /\ Typed(input.pass) /\ input.outLen \in Nat \ {0}
  BY FormTyped
<1>2. OnlyCut(output.ssid, input.ssid, input.outLen)
  BY <1>1, FormRead, ReadIsOnlyCut
<1>3. OnlyCut(output.pass, input.pass, input.outLen)
  BY <1>1, FormRead, ReadIsOnlyCut
<1>4. \A k \in {"ssid", "pass"} : OnlyCut(output[k], input[k], input.outLen)
  BY <1>2, <1>3
<1> QED
  BY <1>4, Zenon DEF FieldsOnlyCut, OnlyCut
================================================================================
