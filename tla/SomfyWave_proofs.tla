--------------------------- MODULE SomfyWave_proofs ---------------------------
(***************************************************************************)
(* What the rendering of a frame (SomfyWave) does for frames of any bits   *)
(* and durations of any length.                                            *)
(*                                                                         *)
(* First, what FlattenSeq does to sequences of any number and length: the  *)
(* induction behind this module and Wire_proofs.  The library's induction  *)
(* rules take a predicate as a parameter, which the provers cannot         *)
(* instantiate; here the numbers for which a fact fails are a set, and     *)
(* WFMin gives the least of them.                                          *)
(***************************************************************************)
EXTENDS SomfyWave, SequenceTheorems, WellFoundedInduction, TLAPS

(* FunctionIsSeq: a function on 1..n is a sequence of length n.            *)
LEMMA FunctionIsSeq ==
  ASSUME NEW S, NEW n \in Nat, NEW s \in [1..n -> S]
  PROVE  s \in Seq(S) /\ Len(s) = n
<1>1. s \in Seq(S)
  BY SeqDef
<1>2. DOMAIN s = 1..n /\ DOMAIN s = 1..Len(s) /\ Len(s) \in Nat
  BY <1>1, LenProperties
<1> QED
  BY <1>1, <1>2

(* Descent: a set of natural numbers in which every number has a smaller   *)
(* one is empty. The inductions below are over a set parameter instead of  *)
(* a predicate: the numbers for which the fact fails.                      *)
LEMMA Descent ==
  ASSUME NEW T, T \subseteq Nat, \A n \in T : \E m \in T : m < n
  PROVE  T = {}
<1> DEFINE R == OpToRel(<, Nat)
<1>1. IsWellFoundedOn(R, Nat)
  BY NatLessThanWellFounded
<1>2. SUFFICES ASSUME T # {} PROVE FALSE
  OBVIOUS
<1>3. PICK n \in T : \A m \in T : ~(<<m, n>> \in R)
  BY <1>1, <1>2, WFMin
<1>4. PICK m \in T : m < n
  OBVIOUS
<1>5. <<m, n>> \in R
  BY <1>4 DEF OpToRel
<1> QED
  BY <1>3, <1>5

(* f is the function FlattenSeq defines: f[i] is the concatenation of the  *)
(* first i sequences.                                                      *)
Flattens(f, seqs, n) ==
  f = [i \in 1..n |-> IF i = 1 THEN seqs[i] ELSE f[i - 1] \o seqs[i]]

(* FlattenExists: there is such a function, so that CHOOSE finds one.      *)
LEMMA FlattenExists ==
  ASSUME NEW S, NEW n \in Nat, NEW seqs \in Seq(Seq(S)), n <= Len(seqs)
  PROVE  \E f \in [1..n -> Seq(S)] : Flattens(f, seqs, n)
<1> DEFINE Has(k) == \E f \in [1..k -> Seq(S)] : Flattens(f, seqs, k)
           T == {k \in 0..Len(seqs) : ~Has(k)}
<1>1. T \subseteq Nat
  OBVIOUS
<1>2. ASSUME NEW k \in T PROVE \E m \in T : m < k
  <2> HIDE DEF Has
  <2>1. k \in 0..Len(seqs) /\ ~Has(k)
    OBVIOUS
  <2>2. k # 0
    <3>1. Has(0)
      <4> DEFINE f == [i \in 1..0 |-> <<>>]
      <4>1. f \in [1..0 -> Seq(S)] /\ Flattens(f, seqs, 0)
        BY DEF Flattens
      <4> QED
        BY <4>1 DEF Has
    <3> QED
      BY <2>1, <3>1
  <2>3. k - 1 \in 0..Len(seqs) /\ k - 1 < k /\ k \in 1..Len(seqs)
    BY <2>1, <2>2
  <2>4. ~Has(k - 1)
    <3> SUFFICES ASSUME Has(k - 1) PROVE FALSE
      OBVIOUS
    <3>1. PICK f \in [1..k - 1 -> Seq(S)] : Flattens(f, seqs, k - 1)
      BY DEF Has
    <3> DEFINE last == IF k = 1 THEN seqs[k] ELSE f[k - 1] \o seqs[k]
               g == [i \in 1..k |-> IF i = k THEN last ELSE f[i]]
    <3>2. seqs[k] \in Seq(S)
      BY <2>3, ElementOfSeq
    <3>3. last \in Seq(S)
      BY <2>3, <3>1, <3>2, ConcatProperties
    <3> HIDE DEF last
    <3>4. g \in [1..k -> Seq(S)]
      BY <2>3, <3>3
    <3>5. ASSUME NEW i \in 1..k
          PROVE  g[i] = IF i = 1 THEN seqs[i] ELSE g[i - 1] \o seqs[i]
      <4>1. CASE i = k
        BY <4>1, <2>3 DEF last
      <4>2. CASE i # k
        <5>1. i \in 1..k - 1
          BY <4>2, <2>3
        <5>2. f[i] = IF i = 1 THEN seqs[i] ELSE f[i - 1] \o seqs[i]
          BY <3>1, <5>1 DEF Flattens
        <5>3. i # 1 => i - 1 \in 1..k /\ i - 1 # k
          BY <5>1, <2>3
        <5> QED
          BY <5>1, <5>2, <5>3, <4>2
      <4> QED
        BY <4>1, <4>2
    <3>6. g = [i \in 1..k |-> IF i = 1 THEN seqs[i] ELSE g[i - 1] \o seqs[i]]
      BY <3>5, Zenon
    <3> HIDE DEF g
    <3>7. Has(k)
      BY <3>4, <3>6 DEF Has, Flattens
    <3> QED
      BY <2>1, <3>7
  <2> QED
    BY <2>3, <2>4
<1>3. T = {}
  <2> HIDE DEF T
  <2> QED
    BY <1>1, <1>2, Descent
<1>4. n \in 0..Len(seqs)
  BY LenProperties
<1>5. Has(n)
  <2> HIDE DEF Has
  <2> QED
    BY <1>3, <1>4
<1> QED
  BY <1>5

(* FlattenIs: FlattenSeq is its last value.                                *)
LEMMA FlattenIs ==
  ASSUME NEW S, NEW seqs \in Seq(Seq(S)), Len(seqs) > 0
  PROVE  \E f : Flattens(f, seqs, Len(seqs)) /\ FlattenSeq(seqs) = f[Len(seqs)]
<1> DEFINE F == CHOOSE f : f = [i \in 1..Len(seqs) |->
                                  IF i = 1 THEN seqs[i] ELSE f[i - 1] \o seqs[i]]
<1>1. Flattens(F, seqs, Len(seqs))
  <2>1. \E f : Flattens(f, seqs, Len(seqs))
    <3>1. Len(seqs) \in Nat /\ Len(seqs) <= Len(seqs)
      BY LenProperties
    <3>2. \E f \in [1..Len(seqs) -> Seq(S)] : Flattens(f, seqs, Len(seqs))
      BY <3>1, FlattenExists
    <3> QED
      BY <3>2
  <2> QED
    BY <2>1, Zenon DEF Flattens
<1>2. FlattenSeq(seqs) = F[Len(seqs)]
  BY DEF FlattenSeq
<1> QED
  BY <1>1, <1>2

(* FlattenRuns: and all its values are sequences.                          *)
LEMMA FlattenRuns ==
  ASSUME NEW S, NEW seqs \in Seq(Seq(S)), Len(seqs) > 0
  PROVE  \E f \in [1..Len(seqs) -> Seq(S)] :
           Flattens(f, seqs, Len(seqs)) /\ FlattenSeq(seqs) = f[Len(seqs)]
<1> DEFINE n == Len(seqs)
<1>0. n \in Nat
  BY LenProperties
<1>1. PICK F : Flattens(F, seqs, n) /\ FlattenSeq(seqs) = F[n]
  BY FlattenIs
<1>2. PICK f \in [1..n -> Seq(S)] : Flattens(f, seqs, n)
  <2>1. n <= Len(seqs)
    BY <1>0
  <2> QED
    BY <1>0, <2>1, FlattenExists
<1> DEFINE T == {i \in 1..n : F[i] # f[i]}
<1>3. ASSUME NEW i \in T PROVE \E m \in T : m < i
  <2>1. /\ F[i] = IF i = 1 THEN seqs[i] ELSE F[i - 1] \o seqs[i]
        /\ f[i] = IF i = 1 THEN seqs[i] ELSE f[i - 1] \o seqs[i]
    BY <1>1, <1>2 DEF Flattens
  <2>2. i # 1 /\ F[i - 1] # f[i - 1]
    BY <2>1
  <2>3. i - 1 \in 1..n /\ i - 1 < i
    BY <2>2, <1>0
  <2> QED
    BY <2>2, <2>3
<1>4. T = {}
  <2>1. T \subseteq Nat
    OBVIOUS
  <2> HIDE DEF T
  <2> QED
    BY <1>3, <2>1, Descent
<1>5. n \in 1..n
  BY <1>0
<1>6. F[n] = f[n]
  BY <1>4, <1>5
<1> QED
  BY <1>1, <1>2, <1>6

(* FlattenTyped: the concatenation of sequences over S is one over S.      *)
LEMMA FlattenTyped ==
  ASSUME NEW S, NEW seqs \in Seq(Seq(S))
  PROVE  FlattenSeq(seqs) \in Seq(S)
<1>0. Len(seqs) \in Nat
  BY LenProperties
<1>1. CASE Len(seqs) > 0
  <2>1. Len(seqs) \in 1..Len(seqs)
    BY <1>0, <1>1
  <2> QED
    BY <1>1, <2>1, FlattenRuns
<1>2. CASE Len(seqs) = 0
  <2>1. seqs = <<>>
    BY <1>2, EmptySeq
  <2>2. FlattenSeq(seqs) = <<>>
    BY <1>2, <2>1 DEF FlattenSeq
  <2> QED
    BY <2>2
<1> QED
  BY <1>0, <1>1, <1>2

(* w measures sequences over S, as a length or a duration does.            *)
Additive(w, S) ==
  /\ w \in [Seq(S) -> Nat]
  /\ w[<<>>] = 0
  /\ \A a, b \in Seq(S) : w[a \o b] = w[a] + w[b]

(* g[i] is the measure of the first i sequences together.                  *)
SumsUp(g, w, seqs) ==
  /\ g \in [0..Len(seqs) -> Nat]
  /\ g[0] = 0
  /\ \A i \in 1..Len(seqs) : g[i] = g[i - 1] + w[seqs[i]]

(* FlattenMeasure: whatever adds up over two sequences adds up over all of *)
(* them.                                                                   *)
LEMMA FlattenMeasure ==
  ASSUME NEW S, NEW seqs \in Seq(Seq(S)), NEW w, NEW g, Additive(w, S), SumsUp(g, w, seqs)
  PROVE  w[FlattenSeq(seqs)] = g[Len(seqs)]
<1> USE DEF Additive, SumsUp
<1> DEFINE n == Len(seqs)
<1>0. n \in Nat
  BY LenProperties
<1>1. CASE n = 0
  <2>1. seqs = <<>>
    BY <1>1, EmptySeq
  <2>2. FlattenSeq(seqs) = <<>>
    BY <1>1, <2>1 DEF FlattenSeq
  <2> QED
    BY <1>1, <2>2
<1>2. CASE n > 0
  <2>1. PICK f \in [1..n -> Seq(S)] : Flattens(f, seqs, n) /\ FlattenSeq(seqs) = f[n]
    BY <1>2, FlattenRuns
  <2> DEFINE T == {i \in 1..n : w[f[i]] # g[i]}
  <2>2. ASSUME NEW i \in T PROVE \E m \in T : m < i
    <3>1. /\ f[i] = IF i = 1 THEN seqs[i] ELSE f[i - 1] \o seqs[i]
          /\ g[i] = g[i - 1] + w[seqs[i]]
      BY <2>1 DEF Flattens
    <3>2. i \in 1..n /\ w[f[i]] # g[i]
      OBVIOUS
    <3>3. seqs[i] \in Seq(S) /\ w[seqs[i]] \in Nat
      BY <3>2, ElementOfSeq
    <3>4. i # 1
      <4> SUFFICES ASSUME i = 1 PROVE FALSE
        OBVIOUS
      <4>1. g[1] = 0 + w[seqs[1]]
        BY <3>1
      <4> QED
        BY <3>1, <3>2, <3>3, <4>1
    <3>5. i - 1 \in 1..n /\ i - 1 < i
      BY <1>0, <3>2, <3>4
    <3>6. w[f[i]] = w[f[i - 1]] + w[seqs[i]]
      <4>1. f[i - 1] \in Seq(S) /\ f[i] = f[i - 1] \o seqs[i]
        BY <3>1, <3>4, <3>5
      <4> HIDE DEF T, n
      <4> QED
        BY <3>3, <4>1, Zenon
    <3>7. w[f[i - 1]] # g[i - 1]
      BY <3>1, <3>2, <3>6
    <3> QED
      BY <3>5, <3>7
  <2>3. T = {}
    <3>1. T \subseteq Nat
      OBVIOUS
    <3> HIDE DEF T
    <3> QED
      BY <2>2, <3>1, Descent
  <2>4. n \in 1..n
    BY <1>0, <1>2
  <2> QED
    BY <2>1, <2>3, <2>4
<1> QED
  BY <1>0, <1>1, <1>2

(* FlattenLength: so the lengths of the parts add up to the length of the  *)
(* whole.                                                                  *)
LEMMA FlattenLength ==
  ASSUME NEW S, NEW seqs \in Seq(Seq(S)), NEW g \in [0..Len(seqs) -> Nat], g[0] = 0,
         \A i \in 1..Len(seqs) : g[i] = g[i - 1] + Len(seqs[i])
  PROVE  Len(FlattenSeq(seqs)) = g[Len(seqs)]
<1> DEFINE w == [s \in Seq(S) |-> Len(s)]
<1>1. \A a, b \in Seq(S) :
        Len(a) \in Nat /\ Len(a \o b) = Len(a) + Len(b) /\ a \o b \in Seq(S)
  BY LenProperties, ConcatProperties
<1>2. Len(<<>>) = 0 /\ <<>> \in Seq(S)
  OBVIOUS
<1>3. \A s \in Seq(S) : w[s] = Len(s)
  OBVIOUS
<1>4. w \in [Seq(S) -> Nat]
  BY <1>1
<1> HIDE DEF w
<1>5. Additive(w, S)
  <2>1. ASSUME NEW a \in Seq(S), NEW b \in Seq(S) PROVE w[a \o b] = w[a] + w[b]
    <3>1. Len(a \o b) = Len(a) + Len(b) /\ a \o b \in Seq(S)
      BY <1>1
    <3>2. w[a \o b] = Len(a \o b)
      BY <1>3, <3>1, Zenon
    <3>3. w[a] = Len(a) /\ w[b] = Len(b)
      BY <1>3, Zenon
    <3> QED
      BY <3>1, <3>2, <3>3, Zenon
  <2>2. w[<<>>] = 0
    BY <1>2, <1>3
  <2> QED
    BY <1>4, <2>1, <2>2, Zenon DEF Additive
<1>6. SumsUp(g, w, seqs)
  <2>1. \A i \in 1..Len(seqs) : w[seqs[i]] = Len(seqs[i])
    BY <1>3, ElementOfSeq
  <2> QED
    BY <2>1, Zenon DEF SumsUp
<1>7. w[FlattenSeq(seqs)] = g[Len(seqs)]
  BY <1>5, <1>6, FlattenMeasure
<1>8. FlattenSeq(seqs) \in Seq(S)
  BY FlattenTyped
<1> QED
  BY <1>3, <1>7, <1>8

(* RunningTotals: whatever the amounts, there are their running totals.    *)
LEMMA RunningTotals ==
  ASSUME NEW n \in Nat, NEW d \in [1..n -> Nat]
  PROVE  \E g \in [0..n -> Nat] : g[0] = 0 /\ \A i \in 1..n : g[i] = g[i - 1] + d[i]
<1> DEFINE Upto(k, g) == /\ g \in [0..k -> Nat] /\ g[0] = 0
                         /\ \A i \in 1..k : g[i] = g[i - 1] + d[i]
           T == {k \in 0..n : ~\E g : Upto(k, g)}
<1>1. ASSUME NEW k \in T PROVE \E m \in T : m < k
  <2>1. k # 0
    <3>1. Upto(0, [i \in 0..0 |-> 0])
      OBVIOUS
    <3> HIDE DEF Upto
    <3> QED
      BY <3>1
  <2>2. k \in 1..n /\ k - 1 \in 0..n /\ k - 1 < k
    BY <2>1
  <2>3. ASSUME NEW g, Upto(k - 1, g) PROVE FALSE
    <3> DEFINE h == [i \in 0..k |-> IF i = k THEN g[k - 1] + d[k] ELSE g[i]]
    <3>1. g[k - 1] \in Nat /\ d[k] \in Nat
      BY <2>2, <2>3
    <3>2. h \in [0..k -> Nat]
      BY <2>2, <2>3, <3>1
    <3>3. h[0] = 0
      BY <2>2, <2>3
    <3>4. ASSUME NEW i \in 1..k PROVE h[i] = h[i - 1] + d[i]
      <4>1. i - 1 \in 0..k /\ i - 1 # k /\ (i # k => i \in 1..k - 1) /\ i \in 0..k
        BY <2>2
      <4>2. i # k => g[i] = g[i - 1] + d[i]
        BY <4>1, <2>3
      <4> QED
        BY <4>1, <4>2
    <3>5. Upto(k, h)
      BY <3>2, <3>3, <3>4
    <3> HIDE DEF Upto, h
    <3> QED
      BY <3>5
  <2> HIDE DEF Upto
  <2>4. k - 1 \in T
    BY <2>2, <2>3
  <2> QED
    BY <2>2, <2>4
<1>2. T = {}
  <2>1. T \subseteq Nat
    OBVIOUS
  <2> HIDE DEF T
  <2> QED
    BY <1>1, <2>1, Descent
<1>3. \E g : Upto(n, g)
  <2>1. n \in 0..n
    OBVIOUS
  <2> HIDE DEF Upto
  <2> QED
    BY <1>2, <2>1
<1> QED
  BY <1>3

(* Memberships as predicates: the provers match them when they look for    *)
(* the instances of a lemma.                                               *)
IsSeq(s, S) == s \in Seq(S)

(* c is a, then b, one element after the other.                            *)
Joins(c, a, b) ==
  /\ Len(a) \in Nat /\ Len(b) \in Nat /\ Len(c) = Len(a) + Len(b)
  /\ \A t \in 1..Len(a) : c[t] = a[t]
  /\ \A t \in Nat : t - Len(a) \in 1..Len(b) => c[t] = b[t - Len(a)]

(* ConcatJoins: so is a concatenation.                                     *)
LEMMA ConcatJoins ==
  ASSUME NEW S, NEW a, NEW b, IsSeq(a, S), IsSeq(b, S)
  PROVE  Joins(a \o b, a, b)
<1>1. /\ Len(a \o b) = Len(a) + Len(b)
      /\ \A q \in 1..Len(a) + Len(b) :
           (a \o b)[q] = IF q <= Len(a) THEN a[q] ELSE b[q - Len(a)]
  BY ConcatProperties DEF IsSeq
<1>2. Len(a) \in Nat /\ Len(b) \in Nat
  BY LenProperties DEF IsSeq
<1> QED
  BY <1>1, <1>2 DEF Joins

(* Within: a place inside a part.                                          *)
LEMMA Within ==
  ASSUME NEW x \in Nat, NEW y \in Nat, NEW l \in Nat, NEW k \in Nat,
         y = x + l, k > 0, k <= l
  PROVE  x + k \in Nat /\ x + k > 0 /\ x + k <= y /\ (x + k) - x = k
OBVIOUS

(* InFirst: a place in the first part.                                     *)
LEMMA InFirst ==
  ASSUME NEW p \in Nat, NEW x \in Nat, NEW y \in Nat, p > 0, p <= x
  PROVE  p \in 1..x /\ p <= x + y
OBVIOUS

(* FlattenAt: where the elements of each part are in the whole.            *)
LEMMA FlattenAt ==
  ASSUME NEW S, NEW seqs \in Seq(Seq(S)), NEW g \in [0..Len(seqs) -> Nat], g[0] = 0,
         \A i \in 1..Len(seqs) : g[i] = g[i - 1] + Len(seqs[i]),
         NEW i \in 1..Len(seqs), NEW k \in 1..Len(seqs[i])
  PROVE  FlattenSeq(seqs)[g[i - 1] + k] = seqs[i][k]
<1> DEFINE n == Len(seqs)
<1>1. n \in Nat /\ n > 0 /\ i \in 1..n /\ n \in 1..n
  BY LenProperties
<1>2. PICK f \in [1..n -> Seq(S)] : Flattens(f, seqs, n) /\ FlattenSeq(seqs) = f[n]
  BY <1>1, FlattenRuns
<1>3. \A j \in 1..n : f[j] = IF j = 1 THEN seqs[j] ELSE f[j - 1] \o seqs[j]
  BY <1>2 DEF Flattens
<1>4. f[1] = seqs[1] /\ \A j \in 2..n : f[j] = f[j - 1] \o seqs[j]
  <2>1. 1 \in 1..n /\ \A j \in 2..n : j \in 1..n /\ j # 1
    BY <1>1
  <2> QED
    BY <1>3, <2>1, Zenon
<1>5. \A j \in 1..n : /\ seqs[j] \in Seq(S) /\ Len(seqs[j]) \in Nat
                      /\ f[j] \in Seq(S) /\ Len(f[j]) \in Nat
  BY <1>2, ElementOfSeq, LenProperties
<1>6. \A j \in 0..n : g[j] \in Nat
  OBVIOUS
<1> DEFINE at == g[i - 1] + k
<1>7. at \in Nat /\ at > 0 /\ at <= g[i] /\ i - 1 \in 0..n /\ at - g[i - 1] = k
  <2>1. i - 1 \in 0..n /\ Len(seqs[i]) \in Nat /\ k \in Nat /\ k > 0 /\ k <= Len(seqs[i])
    BY <1>1, <1>5
  <2> QED
    <3> HIDE DEF n
    <3>1. g[i] = g[i - 1] + Len(seqs[i]) /\ g[i - 1] \in Nat /\ g[i] \in Nat
      BY <1>1, <1>6, <2>1 DEF n
    <3>2. PICK x \in Nat, y \in Nat, l \in Nat :
                 x = g[i - 1] /\ y = g[i] /\ l = Len(seqs[i])
      BY <2>1, <3>1
    <3>3. x + k \in Nat /\ x + k > 0 /\ x + k <= y /\ (x + k) - x = k
      <4>1. y = x + l /\ k <= l /\ k \in Nat /\ k > 0
        BY <2>1, <3>1, <3>2
      <4> QED
        BY <4>1, Within
    <3> QED
      BY <2>1, <3>2, <3>3
<1> DEFINE Good(j) == Len(f[j]) = g[j] /\ (i <= j => at <= g[j] /\ f[j][at] = seqs[i][k])
           T == {j \in 1..n : ~Good(j)}
<1> HIDE DEF at
<1>8. Good(1)
  <2>1. g[1] = g[1 - 1] + Len(seqs[1])
    BY <1>1
  <2>2. Len(f[1]) = g[1]
    BY <1>1, <1>4, <1>5, <2>1
  <2>3. CASE i = 1
    <3>1. g[i - 1] = 0 /\ at = k
      BY <1>7, <2>3 DEF at
    <3> QED
      BY <1>4, <1>7, <2>2, <2>3, <3>1
  <2> QED
    BY <1>1, <2>2, <2>3
<1>9. ASSUME NEW j \in 2..n, Good(j - 1) PROVE Good(j)
  <2>1. /\ j - 1 \in 1..n /\ j \in 1..n /\ j \in 0..n /\ j - 1 \in 0..n /\ j \in Nat
        /\ f[j] = f[j - 1] \o seqs[j] /\ g[j] = g[j - 1] + Len(seqs[j])
    <3>1. j - 1 \in 1..n /\ j \in 1..n /\ j \in 0..n /\ j - 1 \in 0..n /\ j \in Nat
      BY <1>1
    <3>2. g[j] = g[j - 1] + Len(seqs[j])
      BY <3>1
    <3> QED
      BY <1>4, <3>1, <3>2, Zenon
  <2>2. IsSeq(f[j - 1], S) /\ IsSeq(seqs[j], S) /\ Len(f[j - 1]) = g[j - 1]
    BY <1>5, <1>9, <2>1 DEF IsSeq
  <2>3. Joins(f[j], f[j - 1], seqs[j])
    BY <2>1, <2>2, ConcatJoins, Zenon
  <2> SUFFICES ASSUME NEW a, NEW b, a = f[j - 1], b = seqs[j] PROVE Good(j)
    OBVIOUS
  <2>11. i < j => i <= j - 1 /\ at <= g[j - 1] /\ a[at] = seqs[i][k]
    BY <1>1, <1>9, <2>1
  <2>10. /\ i = j => b[k] = seqs[i][k] /\ k \in 1..Len(b) /\ at - g[j - 1] = k
         /\ g[j] = g[j - 1] + Len(b)
    BY <1>7, <2>1
  <2>12. Joins(f[j], a, b) /\ Len(a) = g[j - 1]
    BY <2>2, <2>3
  <2>5. Len(f[j]) = g[j]
    BY <2>12, <2>10 DEF Joins
  <2>6. CASE i = j
    <3>1. f[j][at] = b[k]
      BY <1>7, <2>12, <2>6, <2>10 DEF Joins
    <3>2. at <= g[j]
      BY <1>7, <2>6
    <3>3. Len(f[j]) = g[j] /\ at <= g[j] /\ f[j][at] = seqs[i][k]
      BY <2>5, <2>6, <2>10, <3>1, <3>2
    <3> QED
      BY <3>3, Zenon
  <2>7. CASE i < j
    <3>1. at \in 1..Len(a) /\ at <= g[j]
      <4>1. at \in Nat /\ at > 0 /\ at <= Len(a)
        BY <1>7, <2>11, <2>12, <2>7
      <4>2. Len(a) \in Nat /\ Len(b) \in Nat /\ g[j] = Len(a) + Len(b)
        BY <2>12, <2>10 DEF Joins
      <4> QED
        BY <4>1, <4>2, InFirst, Zenon
    <3>2. f[j][at] = seqs[i][k]
      BY <2>11, <2>12, <2>7, <3>1 DEF Joins
    <3> QED
      BY <2>5, <3>1, <3>2
  <2>8. CASE i > j
    <3>1. ~(i <= j)
      BY <1>1, <2>1, <2>8
    <3> QED
      BY <2>5, <3>1
  <2>9. i \in Int /\ j \in Int
    BY <1>1
  <2> QED
    BY <2>6, <2>7, <2>8, <2>9
<1>10. ASSUME NEW j \in T PROVE \E m \in T : m < j
  <2> HIDE DEF Good
  <2>1. j \in 1..n /\ ~Good(j) /\ j # 1
    BY <1>8
  <2>2. j \in 2..n /\ j - 1 \in 1..n /\ j - 1 < j
    BY <1>1, <2>1
  <2>3. ~Good(j - 1)
    BY <1>9, <2>1, <2>2
  <2> QED
    BY <2>2, <2>3
<1>11. T = {}
  <2>1. T \subseteq Nat
    OBVIOUS
  <2> HIDE DEF T
  <2> QED
    BY <1>10, <2>1, Descent
<1>12. Good(n)
  <2> HIDE DEF Good
  <2> QED
    BY <1>1, <1>11
<1> QED
  BY <1>1, <1>2, <1>12 DEF at

-----------------------------------------------------------------------------
(* g[i] is how long the first i pulses last together.                      *)
Totals(g, pulses) ==
  /\ g \in [0..Len(pulses) -> Nat]
  /\ g[0] = 0
  /\ \A i \in 1..Len(pulses) : pulses[i][2] \in Nat /\ g[i] = g[i - 1] + pulses[i][2]

(* Midpoint: half and half is two spans, each shorter.                     *)
LEMMA Midpoint ==
  ASSUME NEW n \in Nat, NEW a \in 1..n, NEW b \in 1..n, a # b,
         NEW mid, mid = (a + b) \div 2
  PROVE  /\ mid \in 1..n /\ mid + 1 \in 1..n /\ mid + 1 - 1 = mid
         /\ a < b => a <= mid /\ mid < b
OBVIOUS

(* Difference: what a step adds is the difference it makes.                *)
LEMMA Difference ==
  ASSUME NEW x \in Nat, NEW y \in Nat, NEW z \in Nat, x = y + z
  PROVE  x - y = z
OBVIOUS

(* AirtimeIsTotal: adding by halves gives the running total.               *)
LEMMA AirtimeIsTotal ==
  ASSUME NEW S, NEW pulses \in Seq(S), NEW g, Totals(g, pulses)
  PROVE  Airtime(pulses) = g[Len(pulses)]
<1> DEFINE n == Len(pulses)
           Spans == (1..n) \X (1..n)
           Mid(span) == (span[1] + span[2]) \div 2
           Time(time, span) ==
             IF span[1] = span[2] THEN pulses[span[1]][2]
             ELSE time[<<span[1], Mid(span)>>] + time[<<Mid(span) + 1, span[2]>>]
           F == CHOOSE time : time = [span \in Spans |-> Time(time, span)]
           G == [span \in Spans |-> g[span[2]] - g[span[1] - 1]]
<1>1. n \in Nat /\ g \in [0..n -> Nat]
  BY LenProperties DEF Totals
<1>2. ASSUME NEW x \in 1..n, NEW y \in 1..n PROVE G[<<x, y>>] = g[y] - g[x - 1]
  OBVIOUS
<1>3. ASSUME NEW span \in Spans PROVE G[span] = Time(G, span)
  <2>0. PICK a \in 1..n, b \in 1..n : span = <<a, b>>
    OBVIOUS
  <2>1. CASE a = b
    <3>0. a \in 0..n /\ a - 1 \in 0..n
      BY <1>1
    <3>1. /\ g[a] = g[a - 1] + pulses[a][2]
          /\ g[a] \in Nat /\ g[a - 1] \in Nat /\ pulses[a][2] \in Nat
      BY <1>1, <3>0 DEF Totals
    <3>2. G[<<a, a>>] = g[a] - g[a - 1]
      OBVIOUS
    <3>3. G[<<a, a>>] = pulses[a][2]
      <4> HIDE DEF G
      <4> QED
        BY <3>1, <3>2, Difference
    <3> QED
      BY <3>3, <2>0, <2>1
  <2>2. CASE a # b
    <3> DEFINE mid == (a + b) \div 2
    <3>1. mid \in 1..n /\ mid + 1 \in 1..n /\ mid + 1 - 1 = mid
      BY <1>1, <2>2, Midpoint
    <3>2. Mid(span) = mid /\ span[1] = a /\ span[2] = b
      BY <2>0
    <3> HIDE DEF mid
    <3>3. /\ G[<<a, b>>] = g[b] - g[a - 1]
          /\ G[<<a, mid>>] = g[mid] - g[a - 1]
          /\ G[<<mid + 1, b>>] = g[b] - g[mid + 1 - 1]
      <4> HIDE DEF G
      <4> QED
        BY <1>2, <3>1
    <3>6. b \in 0..n /\ a - 1 \in 0..n /\ mid \in 0..n
      BY <1>1, <3>1
    <3>4. g[b] \in Nat /\ g[a - 1] \in Nat /\ g[mid] \in Nat
      BY <1>1, <3>6
    <3> HIDE DEF G, Spans, n, Mid
    <3>5. G[<<a, b>>] = G[<<a, mid>>] + G[<<mid + 1, b>>]
      BY <3>1, <3>3, <3>4
    <3> QED
      BY <3>2, <3>5, <2>0, <2>2
  <2> QED
    BY <2>1, <2>2
<1>4. F = [span \in Spans |-> Time(F, span)]
  <2> HIDE DEF Time
  <2>1. G = [span \in Spans |-> Time(G, span)]
    BY <1>3
  <2> HIDE DEF G
  <2> QED
    BY <2>1, Zenon
<1>5. pulses # <<>> => Airtime(pulses) = F[<<1, n>>]
  BY DEF Airtime
<1> HIDE DEF F
<1>6. ASSUME NEW c \in 1..n, NEW e \in 1..n
      PROVE  /\ c = e => F[<<c, e>>] = pulses[c][2]
             /\ c # e => F[<<c, e>>]
                           = F[<<c, (c + e) \div 2>>] + F[<<(c + e) \div 2 + 1, e>>]
  <2>1. <<c, e>> \in Spans /\ Mid(<<c, e>>) = (c + e) \div 2
    OBVIOUS
  <2>2. F[<<c, e>>] = Time(F, <<c, e>>)
    <3> HIDE DEF Time, Spans
    <3> QED
      BY <1>4, <2>1
  <2>3. /\ c = e => Time(F, <<c, e>>) = pulses[c][2]
        /\ c # e => Time(F, <<c, e>>)
                      = F[<<c, Mid(<<c, e>>)>>] + F[<<Mid(<<c, e>>) + 1, e>>]
    <3> HIDE DEF Mid
    <3> QED
      OBVIOUS
  <2> HIDE DEF Time, Mid
  <2> QED
    BY <2>1, <2>2, <2>3
<1> DEFINE Wrong(a, b) == a <= b /\ F[<<a, b>>] # g[b] - g[a - 1]
           T == {d \in Nat : \E a \in 1..n, b \in 1..n : d = b - a /\ Wrong(a, b)}
<1>7. ASSUME NEW d \in T PROVE \E m \in T : m < d
  <2>1. PICK c \in 1..n, e \in 1..n : d = e - c /\ Wrong(c, e)
    OBVIOUS
  <2>2. c <= e /\ F[<<c, e>>] # g[e] - g[c - 1]
    BY <2>1
  <2>3. c # e
    <3> SUFFICES ASSUME c = e PROVE FALSE
      OBVIOUS
    <3>1. /\ g[c] = g[c - 1] + pulses[c][2]
          /\ g[c] \in Nat /\ g[c - 1] \in Nat /\ pulses[c][2] \in Nat
      <4>1. c \in 0..n /\ c - 1 \in 0..n
        BY <1>1
      <4> QED
        BY <1>1, <4>1 DEF Totals
    <3>2. g[c] - g[c - 1] = pulses[c][2]
      BY <3>1, Difference
    <3>3. F[<<c, c>>] = pulses[c][2]
      BY <1>6
    <3> HIDE DEF T
    <3> QED
      BY <2>2, <3>2, <3>3
  <2> DEFINE mid == (c + e) \div 2
  <2>4. /\ mid \in 1..n /\ mid + 1 \in 1..n /\ mid + 1 - 1 = mid
        /\ c <= mid /\ mid < e
    BY <1>1, <2>2, <2>3, Midpoint
  <2>5. F[<<c, e>>] = F[<<c, mid>>] + F[<<mid + 1, e>>]
    BY <1>6, <2>3
  <2> HIDE DEF mid
  <2>6. g[e] \in Nat /\ g[c - 1] \in Nat /\ g[mid] \in Nat
    <3>1. e \in 0..n /\ c - 1 \in 0..n /\ mid \in 0..n
      BY <1>1, <2>4
    <3> QED
      BY <1>1, <3>1
  <2>7. \/ F[<<c, mid>>] # g[mid] - g[c - 1]
        \/ F[<<mid + 1, e>>] # g[e] - g[mid]
    <3> HIDE DEF n, T
    <3> QED
      BY <2>2, <2>5, <2>6
  <2>8. CASE F[<<c, mid>>] # g[mid] - g[c - 1]
    <3>1. Wrong(c, mid)
      BY <2>4, <2>8
    <3>2. mid - c \in Nat /\ mid - c < d
      BY <1>1, <2>1, <2>4
    <3> HIDE DEF Wrong
    <3> QED
      BY <2>4, <3>1, <3>2
  <2>9. CASE F[<<mid + 1, e>>] # g[e] - g[mid]
    <3>1. e - (mid + 1) \in Nat /\ e - (mid + 1) < d /\ mid + 1 <= e
      BY <1>1, <2>1, <2>4
    <3>2. Wrong(mid + 1, e)
      BY <2>4, <2>9, <3>1
    <3> HIDE DEF Wrong
    <3> QED
      BY <2>4, <3>1, <3>2
  <2> QED
    BY <2>7, <2>8, <2>9
<1>8. T = {}
  <2>1. T \subseteq Nat
    OBVIOUS
  <2> HIDE DEF T
  <2> QED
    BY <1>7, <2>1, Descent
<1>9. CASE pulses = <<>>
  BY <1>9, EmptySeq DEF Airtime, Totals
<1>10. CASE pulses # <<>>
  <2>1. 1 \in 1..n /\ n \in 1..n /\ 1 <= n /\ n - 1 \in Nat
    BY <1>1, <1>10, EmptySeq
  <2>2. ~Wrong(1, n)
    <3> HIDE DEF Wrong
    <3> QED
      BY <1>8, <2>1
  <2>3. F[<<1, n>>] = g[n] - g[1 - 1]
    BY <2>1, <2>2
  <2>4. g[1 - 1] = 0 /\ g[n] \in Nat
    BY <1>1 DEF Totals
  <2> QED
    BY <1>5, <1>10, <2>3, <2>4
<1> QED
  BY <1>9, <1>10

(* Sequences of pulses with levels in L; nothing below depends on which    *)
(* levels there are.                                                       *)
Timed(L) == Seq(L \X Nat)

(* HasTotals: every sequence of pulses has its running totals.             *)
LEMMA HasTotals ==
  ASSUME NEW L, NEW pulses \in Timed(L)
  PROVE  \E g : Totals(g, pulses)
<1> DEFINE n == Len(pulses)
           Upto(k, g) == /\ g \in [0..k -> Nat] /\ g[0] = 0
                         /\ \A i \in 1..k : g[i] = g[i - 1] + pulses[i][2]
           T == {k \in 0..n : ~\E g : Upto(k, g)}
<1>0. n \in Nat /\ \A i \in 1..n : pulses[i][2] \in Nat
  BY ElementOfSeq, LenProperties DEF Timed
<1>1. ASSUME NEW k \in T PROVE \E m \in T : m < k
  <2>1. k # 0
    <3>1. Upto(0, [i \in 0..0 |-> 0])
      OBVIOUS
    <3> HIDE DEF Upto
    <3> QED
      BY <3>1
  <2>2. k \in 1..n /\ k - 1 \in 0..n /\ k - 1 < k
    BY <1>0, <2>1
  <2>3. ASSUME NEW g, Upto(k - 1, g) PROVE FALSE
    <3> DEFINE h == [i \in 0..k |-> IF i = k THEN g[k - 1] + pulses[k][2] ELSE g[i]]
    <3>1. g[k - 1] \in Nat /\ pulses[k][2] \in Nat
      BY <1>0, <2>2, <2>3
    <3>2. h \in [0..k -> Nat]
      BY <2>2, <2>3, <3>1
    <3>3. h[0] = 0
      BY <2>2, <2>3
    <3>4. ASSUME NEW i \in 1..k PROVE h[i] = h[i - 1] + pulses[i][2]
      <4>1. i - 1 \in 0..k /\ i - 1 # k /\ (i # k => i \in 1..k - 1) /\ i \in 0..k
        BY <2>2
      <4>2. i # k => g[i] = g[i - 1] + pulses[i][2]
        BY <4>1, <2>3
      <4> QED
        BY <4>1, <4>2
    <3>5. Upto(k, h)
      BY <3>2, <3>3, <3>4
    <3> HIDE DEF Upto, h
    <3> QED
      BY <3>5
  <2> HIDE DEF Upto
  <2>4. k - 1 \in T
    BY <2>2, <2>3
  <2> QED
    BY <2>2, <2>4
<1>2. T = {}
  <2>1. T \subseteq Nat
    OBVIOUS
  <2> HIDE DEF T
  <2> QED
    BY <1>1, <2>1, Descent
<1>3. PICK g : Upto(n, g)
  <2>1. n \in 0..n
    BY <1>0
  <2> HIDE DEF Upto
  <2> QED
    BY <1>2, <2>1
<1> QED
  BY <1>0, <1>3 DEF Totals

(* AirtimeConcat: one after the other, two waves last as long as both.     *)
LEMMA AirtimeConcat ==
  ASSUME NEW L, NEW a \in Timed(L), NEW b \in Timed(L)
  PROVE  Airtime(a) \in Nat /\ Airtime(a \o b) = Airtime(a) + Airtime(b)
<1>1. PICK g : Totals(g, a)
  BY HasTotals
<1>2. PICK h : Totals(h, b)
  BY HasTotals
<1> DEFINE n == Len(a)
           m == Len(b)
           c == a \o b
           k == [i \in 0..n + m |-> IF i <= n THEN g[i] ELSE g[n] + h[i - n]]
<1>3. /\ n \in Nat /\ m \in Nat /\ c \in Timed(L) /\ Len(c) = n + m
      /\ \A i \in 1..n + m : c[i] = IF i <= n THEN a[i] ELSE b[i - n]
  BY LenProperties, ConcatProperties DEF Timed
<1>4. /\ g \in [0..n -> Nat] /\ g[0] = 0
      /\ \A i \in 1..n : a[i][2] \in Nat /\ g[i] = g[i - 1] + a[i][2]
  BY <1>1 DEF Totals
<1>5. /\ h \in [0..m -> Nat] /\ h[0] = 0
      /\ \A i \in 1..m : b[i][2] \in Nat /\ h[i] = h[i - 1] + b[i][2]
  BY <1>2 DEF Totals
<1>6. Airtime(a) = g[n] /\ Airtime(b) = h[m] /\ g[n] \in Nat /\ h[m] \in Nat
  <2>1. Airtime(a) = g[n]
    BY <1>1, AirtimeIsTotal DEF Timed
  <2>2. Airtime(b) = h[m]
    BY <1>2, AirtimeIsTotal DEF Timed
  <2>3. n \in 0..n /\ m \in 0..m
    BY <1>3
  <2> QED
    BY <1>4, <1>5, <2>1, <2>2, <2>3
<1> HIDE DEF n, m, c
<1>7. Totals(k, c)
  <2>1. k \in [0..n + m -> Nat] /\ k[0] = 0
    BY <1>3, <1>4, <1>5
  <2>2. ASSUME NEW i \in 1..n + m
        PROVE  c[i][2] \in Nat /\ k[i] = k[i - 1] + c[i][2]
    <3>1. CASE i <= n
      <4>1. i \in 1..n /\ i \in 0..n + m /\ i - 1 \in 0..n + m /\ i - 1 <= n /\ c[i] = a[i]
        BY <1>3, <3>1
      <4> QED
        BY <1>4, <3>1, <4>1
    <3>2. CASE i = n + 1
      <4>1. /\ 1 \in 1..m /\ i \in 0..n + m /\ i - 1 \in 0..n + m /\ i - 1 = n /\ i - n = 1
            /\ ~(i <= n) /\ n <= n /\ c[i] = b[1]
        BY <1>3, <3>2
      <4>2. /\ k[i] = g[n] + h[1] /\ k[i - 1] = g[n]
            /\ h[1] = h[0] + b[1][2] /\ b[1][2] \in Nat
        BY <1>5, <4>1
      <4> QED
        BY <1>5, <1>6, <4>1, <4>2
    <3>3. CASE i > n + 1
      <4>1. /\ i - n \in 1..m /\ i \in 0..n + m /\ i - 1 \in 0..n + m
            /\ (i - 1) - n = (i - n) - 1
            /\ ~(i <= n) /\ ~(i - 1 <= n) /\ c[i] = b[i - n] /\ (i - n) - 1 \in 0..m
        BY <1>3, <3>3
      <4>2. /\ k[i] = g[n] + h[i - n] /\ k[i - 1] = g[n] + h[(i - n) - 1]
            /\ h[i - n] = h[(i - n) - 1] + b[i - n][2] /\ b[i - n][2] \in Nat
            /\ h[(i - n) - 1] \in Nat
        BY <1>5, <4>1
      <4> QED
        BY <1>6, <4>1, <4>2
    <3> QED
      BY <1>3, <3>1, <3>2, <3>3
  <2> HIDE DEF k
  <2> QED
    BY <1>3, <2>1, <2>2 DEF Totals
<1>8. k[n + m] = g[n] + h[m]
  <2>1. CASE m = 0
    BY <1>3, <1>5, <1>6, <2>1
  <2>2. CASE m > 0
    BY <1>3, <2>2
  <2> QED
    BY <1>3, <2>1, <2>2
<1>9. Airtime(c) = k[n + m]
  BY <1>3, <1>7, AirtimeIsTotal DEF Timed
<1> QED
  BY <1>6, <1>8, <1>9 DEF c

(* Pulses the peripheral can take, none of them the end marker.            *)
Short(L) == L \X (1..RMT_MAX_TICKS)

(* Chunks: rounded up, the division in emit leaves a last chunk that is    *)
(* neither empty nor too long.                                             *)
LEMMA Chunks ==
  ASSUME NEW us \in Nat, us > 0, NEW n, n = (us + RMT_MAX_TICKS - 1) \div RMT_MAX_TICKS
  PROVE  /\ n \in Nat /\ n >= 1
         /\ (n - 1) * RMT_MAX_TICKS < us /\ us <= (n - 1) * RMT_MAX_TICKS + RMT_MAX_TICKS
<1>1. (us + 32767 - 1) \div 32767 \in Int
  OBVIOUS
<1>2. n \in Int
  BY <1>1 DEF RMT_MAX_TICKS
<1>3. 32767 * n <= us + 32766 /\ us + 32766 < 32767 * n + 32767
  BY <1>2 DEF RMT_MAX_TICKS
<1> QED
  BY <1>2, <1>3 DEF RMT_MAX_TICKS

(* MaxTicks: the field holds at least 1.                                   *)
LEMMA MaxTicks == RMT_MAX_TICKS \in Nat /\ RMT_MAX_TICKS >= 1
  BY DEF RMT_MAX_TICKS

(* TickProducts: the chunks before the last, one by one.                   *)
LEMMA TickProducts ==
  ASSUME NEW i \in Nat
  PROVE  /\ i * RMT_MAX_TICKS \in Nat
         /\ i > 0 => i * RMT_MAX_TICKS = (i - 1) * RMT_MAX_TICKS + RMT_MAX_TICKS
         /\ 0 * RMT_MAX_TICKS = 0
  BY DEF RMT_MAX_TICKS

(* EmitProps: emit splits a duration into chunks of the field that last as *)
(* long as it does.                                                        *)
LEMMA EmitProps ==
  ASSUME NEW L, NEW level \in L, NEW us \in Nat, us > 0
  PROVE  /\ Emit(level, us) \in Seq(Short(L)) /\ Airtime(Emit(level, us)) = us
         /\ Len(Emit(level, us)) = (us + RMT_MAX_TICKS - 1) \div RMT_MAX_TICKS
<1> DEFINE n == (us + RMT_MAX_TICKS - 1) \div RMT_MAX_TICKS
           e == Emit(level, us)
           whole == (n - 1) * RMT_MAX_TICKS
           g == [i \in 0..n |-> IF i < n THEN i * RMT_MAX_TICKS ELSE us]
<1>1. n \in Nat /\ n >= 1 /\ whole < us /\ us <= whole + RMT_MAX_TICKS
  BY Chunks
<1>2. e = [i \in 1..n |-> <<level, IF i < n THEN RMT_MAX_TICKS ELSE us - whole>>]
  BY DEF Emit
<1> HIDE DEF n, e
<1>3. whole \in Nat
  BY <1>1, TickProducts
<1>4. us - whole \in 1..RMT_MAX_TICKS /\ us - whole \in Nat /\ whole + (us - whole) = us
  <2> HIDE DEF whole
  <2> QED
    BY <1>1, <1>3, MaxTicks
<1>5. ASSUME NEW i \in 1..n PROVE e[i] \in Short(L)
  <2>1. e[i] = <<level, IF i < n THEN RMT_MAX_TICKS ELSE us - whole>>
    BY <1>2
  <2>2. RMT_MAX_TICKS \in 1..RMT_MAX_TICKS
    BY MaxTicks
  <2> HIDE DEF whole
  <2> QED
    BY <1>4, <2>1, <2>2 DEF Short
<1>6. e \in Seq(Short(L)) /\ Len(e) = n
  <2>1. e \in [1..n -> Short(L)]
    BY <1>2, <1>5
  <2> QED
    BY <1>1, <2>1
<1>7. Totals(g, e)
  <2>1. ASSUME NEW i \in 0..n PROVE g[i] \in Nat
    BY <1>1, TickProducts
  <2>2. g \in [0..n -> Nat]
    BY <2>1
  <2>3. g[0] = 0
    BY <1>1, TickProducts
  <2>4. ASSUME NEW i \in 1..n PROVE e[i][2] \in Nat /\ g[i] = g[i - 1] + e[i][2]
    <3>1. e[i][2] = IF i < n THEN RMT_MAX_TICKS ELSE us - whole
      BY <1>2
    <3>2. i \in 0..n /\ i - 1 \in 0..n /\ i - 1 < n /\ i \in Nat /\ i > 0
      BY <1>1
    <3>3. g[i - 1] = (i - 1) * RMT_MAX_TICKS
      BY <3>2
    <3>4. CASE i < n
      <4>1. g[i] = i * RMT_MAX_TICKS
        BY <3>2, <3>4
      <4> QED
        BY <3>1, <3>2, <3>3, <3>4, <4>1, TickProducts, MaxTicks
    <3>5. CASE i = n
      <4>1. g[i] = us /\ g[i - 1] = whole /\ e[i][2] = us - whole
        BY <3>1, <3>2, <3>3, <3>5
      <4> QED
        BY <1>4, <4>1
    <3> QED
      BY <1>1, <3>4, <3>5
  <2> HIDE DEF g
  <2> QED
    BY <1>6, <2>2, <2>3, <2>4 DEF Totals
<1>8. Airtime(e) = us
  <2>1. g[n] = us
    BY <1>1
  <2> HIDE DEF g
  <2> QED
    BY <1>6, <1>7, <2>1, AirtimeIsTotal
<1> QED
  BY <1>6, <1>8 DEF e, n

(* ShortIsTimed: sequences of short pulses are sequences of pulses.        *)
LEMMA ShortIsTimed ==
  ASSUME NEW L PROVE Seq(Short(L)) \subseteq Timed(L)
<1>1. Short(L) \subseteq L \X Nat
  BY MaxTicks DEF Short
<1> QED
  BY <1>1 DEF Timed

(* FlattenAirtime: the durations of the parts add up.                      *)
LEMMA FlattenAirtime ==
  ASSUME NEW L, NEW seqs \in Seq(Timed(L)), NEW g \in [0..Len(seqs) -> Nat], g[0] = 0,
         \A i \in 1..Len(seqs) : g[i] = g[i - 1] + Airtime(seqs[i])
  PROVE  FlattenSeq(seqs) \in Timed(L) /\ Airtime(FlattenSeq(seqs)) = g[Len(seqs)]
<1> DEFINE w == [s \in Seq(L \X Nat) |-> Airtime(s)]
<1>1. ASSUME NEW a \in Seq(L \X Nat), NEW b \in Seq(L \X Nat)
      PROVE  Airtime(a) \in Nat /\ Airtime(a \o b) = Airtime(a) + Airtime(b)
  BY AirtimeConcat DEF Timed
<1>2. \A a, b \in Seq(L \X Nat) : a \o b \in Seq(L \X Nat)
  BY ConcatProperties
<1>3. Airtime(<<>>) = 0 /\ <<>> \in Seq(L \X Nat)
  BY DEF Airtime
<1>4. \A s \in Seq(L \X Nat) : w[s] = Airtime(s)
  OBVIOUS
<1>5. w \in [Seq(L \X Nat) -> Nat]
  BY <1>1
<1> HIDE DEF w
<1>6. w[<<>>] = 0
  BY <1>3, <1>4
<1>7. Additive(w, L \X Nat)
  <2>1. ASSUME NEW a \in Seq(L \X Nat), NEW b \in Seq(L \X Nat)
        PROVE  w[a \o b] = w[a] + w[b]
    <3>1. Airtime(a \o b) = Airtime(a) + Airtime(b) /\ a \o b \in Seq(L \X Nat)
      BY <1>1, <1>2
    <3>2. w[a \o b] = Airtime(a \o b)
      BY <1>4, <3>1, Zenon
    <3>3. w[a] = Airtime(a) /\ w[b] = Airtime(b)
      BY <1>4, Zenon
    <3> QED
      BY <3>1, <3>2, <3>3, Zenon
  <2> QED
    BY <1>5, <1>6, <2>1, Zenon DEF Additive
<1>8. seqs \in Seq(Seq(L \X Nat))
  BY DEF Timed
<1>9. SumsUp(g, w, seqs)
  <2>1. \A i \in 1..Len(seqs) : w[seqs[i]] = Airtime(seqs[i])
    BY <1>4, <1>8, ElementOfSeq
  <2> QED
    BY <2>1, Zenon DEF SumsUp
<1>10. w[FlattenSeq(seqs)] = g[Len(seqs)]
  BY <1>7, <1>8, <1>9, FlattenMeasure
<1>11. FlattenSeq(seqs) \in Seq(L \X Nat)
  BY <1>8, FlattenTyped
<1> QED
  BY <1>4, <1>10, <1>11 DEF Timed

(* EmitAllFits: whatever durations are asked for, no chunk exceeds the     *)
(* peripheral's 15-bit field, none is an end marker by accident and the    *)
(* line is keyed for exactly as long as was asked (emit, emit_frame).      *)
THEOREM EmitAllFits ==
  ASSUME NEW L, NEW pulses \in Seq(L \X (Nat \ {0}))
  PROVE  EmitAll(pulses) \in Seq(Short(L)) /\ Airtime(EmitAll(pulses)) = Airtime(pulses)
<1> DEFINE seqs == [i \in DOMAIN pulses |-> Emit(pulses[i][1], pulses[i][2])]
           n == Len(pulses)
<1>1. n \in Nat /\ DOMAIN pulses = 1..n
      /\ \A i \in 1..n : pulses[i][1] \in L /\ pulses[i][2] \in Nat /\ pulses[i][2] > 0
  BY LenProperties, ElementOfSeq
<1>2. \A i \in 1..n : seqs[i] \in Seq(Short(L)) /\ Airtime(seqs[i]) = pulses[i][2]
  BY <1>1, EmitProps
<1>3. seqs \in Seq(Seq(Short(L))) /\ Len(seqs) = n /\ seqs \in Seq(Timed(L))
  <2>1. seqs \in [1..n -> Seq(Short(L))]
    BY <1>1, <1>2
  <2>2. seqs \in [1..n -> Timed(L)]
    BY <2>1, ShortIsTimed
  <2> HIDE DEF seqs, n
  <2> QED
    BY <1>1, <2>1, <2>2, FunctionIsSeq
<1>4. EmitAll(pulses) = FlattenSeq(seqs)
  BY DEF EmitAll
<1> HIDE DEF seqs
<1>5. FlattenSeq(seqs) \in Seq(Short(L))
  BY <1>3, FlattenTyped
<1>6. PICK g : Totals(g, pulses)
  <2>1. pulses \in Timed(L)
    BY DEF Timed
  <2> QED
    BY <2>1, HasTotals
<1>8. /\ g \in [0..n -> Nat] /\ g[0] = 0
      /\ \A i \in 1..n : g[i] = g[i - 1] + Airtime(seqs[i])
  BY <1>2, <1>6 DEF Totals
<1> HIDE DEF n
<1>9. Airtime(FlattenSeq(seqs)) = g[n]
  BY <1>3, <1>8, FlattenAirtime
<1>10. Airtime(pulses) = g[n]
  BY <1>6, AirtimeIsTotal DEF n
<1> QED
  BY <1>4, <1>5, <1>9, <1>10

(* p is len short pulses that last time.                                   *)
Piece(p, L, len, time) == p \in Seq(Short(L)) /\ Len(p) = len /\ Airtime(p) = time

(* ShortConcat: pieces one after the other.                                *)
LEMMA ShortConcat ==
  ASSUME NEW L, NEW m \in Nat, NEW n \in Nat, NEW s \in Nat, NEW t \in Nat,
         NEW p, NEW q, Piece(p, L, m, s), Piece(q, L, n, t)
  PROVE  Piece(p \o q, L, m + n, s + t)
<1>1. p \in Timed(L) /\ q \in Timed(L)
  BY ShortIsTimed DEF Piece
<1>2. Airtime(p \o q) = s + t
  BY <1>1, AirtimeConcat DEF Piece
<1>3. p \o q \in Seq(Short(L)) /\ Len(p \o q) = m + n
  BY ConcatProperties DEF Piece
<1> QED
  BY <1>2, <1>3 DEF Piece

(* Multiples: k added i times.                                             *)
LEMMA Multiples ==
  ASSUME NEW k \in Nat, NEW i \in Nat
  PROVE  i * k \in Nat /\ 0 * k = 0 /\ (i > 0 => (i - 1) * k + k = i * k)
OBVIOUS

(* FlattenPieces: n pieces alike.                                          *)
LEMMA FlattenPieces ==
  ASSUME NEW L, NEW n \in Nat, NEW k \in Nat, NEW t \in Nat, NEW e,
         DOMAIN e = 1..n, e = [i \in 1..n |-> e[i]], \A i \in 1..n : Piece(e[i], L, k, t)
  PROVE  Piece(FlattenSeq(e), L, n * k, n * t)
<1> DEFINE h(c) == [i \in 0..n |-> i * c]
<1>1. e \in [1..n -> Seq(Short(L))] /\ e \in [1..n -> Timed(L)]
  BY ShortIsTimed DEF Piece
<1>2. e \in Seq(Seq(Short(L))) /\ e \in Seq(Timed(L)) /\ Len(e) = n
  BY <1>1, FunctionIsSeq
<1>3. ASSUME NEW c \in Nat
      PROVE  /\ h(c) \in [0..n -> Nat] /\ h(c)[0] = 0 /\ h(c)[n] = n * c
             /\ \A i \in 1..n : h(c)[i] = h(c)[i - 1] + c
  <2>1. \A i \in 0..n : i * c \in Nat
    BY <1>3, Multiples
  <2>2. ASSUME NEW i \in 1..n PROVE h(c)[i] = h(c)[i - 1] + c
    <3>1. i \in 0..n /\ i - 1 \in 0..n /\ i \in Nat /\ i > 0
      OBVIOUS
    <3>2. h(c)[i] = i * c /\ h(c)[i - 1] = (i - 1) * c
      BY <3>1
    <3> QED
      BY <1>3, <3>1, <3>2, Multiples
  <2>3. 0 \in 0..n /\ n \in 0..n
    OBVIOUS
  <2> QED
    BY <1>3, <2>1, <2>2, <2>3, Multiples
<1> HIDE DEF h
<1>4. Len(FlattenSeq(e)) = n * k
  <2>1. \A i \in 1..Len(e) : h(k)[i] = h(k)[i - 1] + Len(e[i])
    BY <1>2, <1>3 DEF Piece
  <2>2. h(k) \in [0..Len(e) -> Nat] /\ h(k)[0] = 0 /\ h(k)[Len(e)] = n * k
    BY <1>2, <1>3
  <2> QED
    BY <1>2, <2>1, <2>2, FlattenLength
<1>5. Airtime(FlattenSeq(e)) = n * t
  <2>1. \A i \in 1..Len(e) : h(t)[i] = h(t)[i - 1] + Airtime(e[i])
    BY <1>2, <1>3 DEF Piece
  <2>2. h(t) \in [0..Len(e) -> Nat] /\ h(t)[0] = 0 /\ h(t)[Len(e)] = n * t
    BY <1>2, <1>3
  <2> QED
    BY <1>2, <2>1, <2>2, FlattenAirtime
<1>6. FlattenSeq(e) \in Seq(Short(L))
  BY <1>2, FlattenTyped
<1> QED
  BY <1>4, <1>5, <1>6 DEF Piece

(* SinglePulse: how long one pulse lasts.                                  *)
LEMMA SinglePulse ==
  ASSUME NEW L, NEW a \in L, NEW s \in Nat
  PROVE  << <<a, s>> >> \in Timed(L) /\ Airtime(<< <<a, s>> >>) = s
<1> DEFINE p == << <<a, s>> >>
           g == [i \in 0..1 |-> IF i = 0 THEN 0 ELSE s]
<1>1. p \in Seq(L \X Nat) /\ Len(p) = 1 /\ p[1][2] = s
  OBVIOUS
<1>2. Totals(g, p)
  BY <1>1 DEF Totals
<1>3. g[1] = s
  OBVIOUS
<1> HIDE DEF g, p
<1>4. Airtime(p) = g[Len(p)]
  BY <1>1, <1>2, AirtimeIsTotal
<1> QED
  BY <1>1, <1>3, <1>4 DEF p, Timed

(* SinglePiece: one short pulse.                                           *)
LEMMA SinglePiece ==
  ASSUME NEW L, NEW a \in L, NEW s \in 1..RMT_MAX_TICKS
  PROVE  Piece(<< <<a, s>> >>, L, 1, s)
<1>1. s \in Nat
  BY MaxTicks
<1>2. << <<a, s>> >> \in Seq(Short(L)) /\ Len(<< <<a, s>> >>) = 1
  BY DEF Short
<1> QED
  BY <1>1, <1>2, SinglePulse DEF Piece

(* PairOfPulses: how long two pulses last.                                 *)
LEMMA PairOfPulses ==
  ASSUME NEW L, NEW a \in L, NEW b \in L, NEW s \in Nat, NEW t \in Nat
  PROVE  << <<a, s>>, <<b, t>> >> \in Timed(L) /\ Airtime(<< <<a, s>>, <<b, t>> >>) = s + t
<1> DEFINE p == << <<a, s>>, <<b, t>> >>
           g == [i \in 0..2 |-> IF i = 0 THEN 0 ELSE IF i = 1 THEN s ELSE s + t]
<1>1. p \in Seq(L \X Nat) /\ Len(p) = 2 /\ p[1][2] = s /\ p[2][2] = t
  OBVIOUS
<1>2. Totals(g, p)
  <2>1. g \in [0..2 -> Nat] /\ g[0] = 0 /\ g[1] = s /\ g[2] = s + t
    OBVIOUS
  <2> HIDE DEF g, p
  <2>2. \A i \in 1..Len(p) : p[i][2] \in Nat /\ g[i] = g[i - 1] + p[i][2]
    <3>1. \A i \in 1..Len(p) : i = 1 \/ i = 2
      BY <1>1
    <3>2. p[1][2] \in Nat /\ g[1] = g[1 - 1] + p[1][2]
      BY <1>1, <2>1
    <3>3. p[2][2] \in Nat /\ g[2] = g[2 - 1] + p[2][2]
      BY <1>1, <2>1
    <3> QED
      BY <3>1, <3>2, <3>3
  <2> QED
    BY <1>1, <2>1, <2>2 DEF Totals
<1>3. g[2] = s + t
  OBVIOUS
<1> HIDE DEF g, p
<1>4. Airtime(p) = s + t
  BY <1>1, <1>2, <1>3, AirtimeIsTotal
<1> QED
  BY <1>1, <1>4 DEF Timed, p

(* PairPiece: two short pulses.                                            *)
LEMMA PairPiece ==
  ASSUME NEW L, NEW a \in L, NEW b \in L,
         NEW s \in 1..RMT_MAX_TICKS, NEW t \in 1..RMT_MAX_TICKS
  PROVE  Piece(<< <<a, s>>, <<b, t>> >>, L, 2, s + t)
<1> DEFINE p == << <<a, s>>, <<b, t>> >>
<1>1. s \in Nat /\ t \in Nat
  BY MaxTicks
<1>2. p \in Seq(Short(L)) /\ Len(p) = 2
  BY DEF Short
<1>3. Airtime(p) = s + t
  BY <1>1, PairOfPulses
<1> QED
  BY <1>2, <1>3 DEF Piece

(* EmitAllLen: as many pulses come out as there are chunks.                *)
LEMMA EmitAllLen ==
  ASSUME NEW L, NEW pulses \in Seq(L \X (Nat \ {0})),
         NEW g \in [0..Len(pulses) -> Nat], g[0] = 0,
         \A i \in 1..Len(pulses) :
           g[i] = g[i - 1] + (pulses[i][2] + RMT_MAX_TICKS - 1) \div RMT_MAX_TICKS
  PROVE  Len(EmitAll(pulses)) = g[Len(pulses)]
<1> DEFINE seqs == [i \in DOMAIN pulses |-> Emit(pulses[i][1], pulses[i][2])]
           n == Len(pulses)
<1>1. n \in Nat /\ DOMAIN pulses = 1..n
      /\ \A i \in 1..n : pulses[i][1] \in L /\ pulses[i][2] \in Nat /\ pulses[i][2] > 0
  BY LenProperties, ElementOfSeq
<1>2. \A i \in 1..n :
        /\ seqs[i] \in Seq(Short(L))
        /\ Len(seqs[i]) = (pulses[i][2] + RMT_MAX_TICKS - 1) \div RMT_MAX_TICKS
  BY <1>1, EmitProps
<1>3. seqs \in [1..n -> Seq(Short(L))]
  BY <1>1, <1>2
<1>4. EmitAll(pulses) = FlattenSeq(seqs)
  BY DEF EmitAll
<1> HIDE DEF seqs
<1>5. seqs \in Seq(Seq(Short(L))) /\ Len(seqs) = n
  BY <1>1, <1>3, FunctionIsSeq
<1>6. \A i \in 1..Len(seqs) : g[i] = g[i - 1] + Len(seqs[i])
  BY <1>2, <1>5, Zenon
<1> QED
  BY <1>4, <1>5, <1>6, FlattenLength

(* AtLeastOnce: a positive multiple is no smaller.                         *)
LEMMA AtLeastOnce ==
  ASSUME NEW a \in Nat, NEW M \in Nat, a >= 1
  PROVE  M <= a * M
<1>1. a * M = M + (a - 1) * M
  OBVIOUS
<1>2. (a - 1) * M \in Nat
  OBVIOUS
<1> QED
  BY <1>1, <1>2

(* OneChunk: a short pulse is one chunk.                                   *)
LEMMA OneChunk ==
  ASSUME NEW us \in 1..RMT_MAX_TICKS
  PROVE  (us + RMT_MAX_TICKS - 1) \div RMT_MAX_TICKS = 1
<1> DEFINE n == (us + RMT_MAX_TICKS - 1) \div RMT_MAX_TICKS
<1>1. us \in Nat /\ us > 0 /\ us <= RMT_MAX_TICKS
  BY MaxTicks
<1>2. n \in Nat /\ n >= 1 /\ (n - 1) * RMT_MAX_TICKS < us
  BY <1>1, Chunks
<1> HIDE DEF n
<1>3. n = 1
  <2>1. RMT_MAX_TICKS \in Nat /\ n - 1 \in Nat
    BY <1>2, MaxTicks
  <2>2. CASE n - 1 >= 1
    <3>1. RMT_MAX_TICKS <= (n - 1) * RMT_MAX_TICKS
      BY <2>1, <2>2, AtLeastOnce
    <3> QED
      <4>1. (n - 1) * RMT_MAX_TICKS \in Nat
        BY <2>1
      <4> QED
        BY <1>1, <1>2, <2>1, <3>1, <4>1
  <2> QED
    BY <1>2, <2>1, <2>2
<1> QED
  BY <1>3 DEF n

(* ShortIsPositive: short pulses may be emitted.                           *)
LEMMA ShortIsPositive ==
  ASSUME NEW L PROVE Seq(Short(L)) \subseteq Seq(L \X (Nat \ {0}))
<1>1. Short(L) \subseteq L \X (Nat \ {0})
  BY MaxTicks DEF Short
<1> QED
  BY <1>1, SeqMonotonic

(* ShortPassed: emit leaves short pulses alone.                            *)
LEMMA ShortPassed ==
  ASSUME NEW L, NEW n \in Nat, NEW t \in Nat, NEW p, Piece(p, L, n, t)
  PROVE  Piece(EmitAll(p), L, n, t)
<1> DEFINE g == [i \in 0..n |-> i]
<1>1. p \in Seq(Short(L)) /\ Len(p) = n /\ p \in Seq(L \X (Nat \ {0}))
  BY ShortIsPositive DEF Piece
<1>2. ASSUME NEW i \in 1..n
      PROVE  g[i] = g[i - 1] + (p[i][2] + RMT_MAX_TICKS - 1) \div RMT_MAX_TICKS
  <2>1. p[i][2] \in 1..RMT_MAX_TICKS
    BY <1>1, ElementOfSeq DEF Short
  <2>2. g[i] = i /\ g[i - 1] = i - 1
    OBVIOUS
  <2>3. g[i] = g[i - 1] + 1
    BY <2>2
  <2> QED
    BY <2>1, <2>3, OneChunk
<1>3. g \in [0..n -> Nat] /\ g[0] = 0 /\ g[n] = n
  OBVIOUS
<1> HIDE DEF g
<1>4. Len(EmitAll(p)) = n
  BY <1>1, <1>2, <1>3, EmitAllLen
<1> QED
  BY <1>1, <1>4, EmitAllFits DEF Piece

(* WakeShape: the wake-up pulse and the silence after it.                  *)
LEMMA WakeShape == Len(WAKE) = 2 /\ WAKE[1][2] = 9415 /\ WAKE[2][2] = 89565
BY DEF WAKE

WakeUs == 9415 + 89565

(* WakeProps: how long they last.                                          *)
LEMMA WakeProps ==
  ASSUME NEW L, 0 \in L, 1 \in L
  PROVE  WAKE \in Timed(L) /\ WAKE \in Seq(L \X (Nat \ {0})) /\ Airtime(WAKE) = WakeUs
<1>1. WAKE \in Seq(L \X (Nat \ {0}))
  BY DEF WAKE
<1>2. WAKE \in Timed(L) /\ Airtime(WAKE) = 9415 + 89565
  BY PairOfPulses DEF WAKE
<1> QED
  BY <1>1, <1>2 DEF WakeUs

(* WakeChunks: the silence takes three chunks.                             *)
LEMMA WakeChunks ==
  /\ (9415 + RMT_MAX_TICKS - 1) \div RMT_MAX_TICKS = 1
  /\ (89565 + RMT_MAX_TICKS - 1) \div RMT_MAX_TICKS = 3
BY DEF RMT_MAX_TICKS

(* p is the wake-up pulse, its silence and n short pulses; all last t.     *)
Woken(p, L, n, t) ==
  /\ p \in Seq(L \X (Nat \ {0})) /\ Len(p) = n + 2 /\ Airtime(p) = t
  /\ p[1] = WAKE[1] /\ p[2] = WAKE[2]
  /\ \A i \in 3..n + 2 : p[i] \in Short(L)

(* WakeAlone: the wake-up alone.                                           *)
LEMMA WakeAlone ==
  ASSUME NEW L, 0 \in L, 1 \in L
  PROVE  Woken(WAKE, L, 0, WakeUs)
<1>1. WAKE \in Seq(L \X (Nat \ {0})) /\ Airtime(WAKE) = WakeUs
  BY WakeProps
<1>2. Len(WAKE) = 0 + 2 /\ 3..0 + 2 = {}
  BY WakeShape
<1> QED
  BY <1>1, <1>2 DEF Woken

(* WokenConcat: a piece after it.                                          *)
LEMMA WokenConcat ==
  ASSUME NEW L, NEW m \in Nat, NEW n \in Nat, NEW s \in Nat, NEW t \in Nat,
         NEW p, NEW q, Woken(p, L, m, s), Piece(q, L, n, t)
  PROVE  Woken(p \o q, L, m + n, s + t)
<1> DEFINE c == p \o q
<1>1. p \in Seq(L \X (Nat \ {0})) /\ Len(p) = m + 2
  BY DEF Woken
<1>2. q \in Seq(L \X (Nat \ {0})) /\ q \in Timed(L) /\ q \in Seq(Short(L)) /\ Len(q) = n
  BY ShortIsPositive, ShortIsTimed DEF Piece
<1>3. p \in Timed(L)
  <2>1. L \X (Nat \ {0}) \subseteq L \X Nat
    OBVIOUS
  <2> QED
    BY <1>1, <2>1, SeqMonotonic DEF Timed
<1>4. Airtime(c) = s + t
  BY <1>2, <1>3, AirtimeConcat DEF Woken, Piece
<1>5. /\ c \in Seq(L \X (Nat \ {0})) /\ Len(c) = (m + 2) + n
      /\ \A i \in 1..(m + 2) + n : c[i] = IF i <= m + 2 THEN p[i] ELSE q[i - (m + 2)]
  <2>1. /\ c \in Seq(L \X (Nat \ {0})) /\ Len(c) = Len(p) + Len(q)
        /\ \A i \in 1..Len(p) + Len(q) : c[i] = IF i <= Len(p) THEN p[i] ELSE q[i - Len(p)]
    BY <1>1, <1>2, ConcatProperties
  <2> HIDE DEF c
  <2> QED
    BY <1>1, <1>2, <2>1
<1> HIDE DEF c
<1>6. c[1] = WAKE[1] /\ c[2] = WAKE[2]
  BY <1>5 DEF Woken
<1>7. ASSUME NEW i \in 3..(m + n) + 2 PROVE c[i] \in Short(L)
  <2>1. i \in 1..(m + 2) + n
    OBVIOUS
  <2>2. CASE i <= m + 2
    BY <1>5, <2>1, <2>2 DEF Woken
  <2>3. CASE ~(i <= m + 2)
    <3>1. i - (m + 2) \in 1..n
      BY <2>3
    <3>2. q[i - (m + 2)] \in Short(L)
      BY <1>2, <3>1, ElementOfSeq
    <3> QED
      BY <1>5, <2>1, <2>3, <3>2
  <2> QED
    BY <2>2, <2>3
<1>8. Len(c) = (m + n) + 2
  BY <1>5
<1> QED
  BY <1>4, <1>5, <1>6, <1>7, <1>8 DEF Woken, c

(* WokenPassed: emit makes three chunks of the silence, and of nothing     *)
(* else.                                                                   *)
LEMMA WokenPassed ==
  ASSUME NEW L, NEW n \in Nat, NEW t, NEW p, Woken(p, L, n, t)
  PROVE  Piece(EmitAll(p), L, n + 4, t)
<1> DEFINE g == [i \in 0..n + 2 |-> IF i <= 1 THEN i ELSE i + 2]
<1>1. p \in Seq(L \X (Nat \ {0})) /\ Len(p) = n + 2
  BY DEF Woken
<1>2. ASSUME NEW i \in 1..n + 2
      PROVE  g[i] = g[i - 1] + (p[i][2] + RMT_MAX_TICKS - 1) \div RMT_MAX_TICKS
  <2>1. CASE i = 1
    <3>1. p[i] = WAKE[1] /\ g[i] = 1 /\ g[i - 1] = 0
      BY <2>1 DEF Woken
    <3> QED
      BY <3>1, WakeShape, WakeChunks
  <2>2. CASE i = 2
    <3>1. p[i] = WAKE[2] /\ g[i] = 4 /\ g[i - 1] = 1
      BY <2>2 DEF Woken
    <3> QED
      BY <3>1, WakeShape, WakeChunks
  <2>3. CASE i > 2
    <3>1. p[i][2] \in 1..RMT_MAX_TICKS
      <4>1. i \in 3..n + 2
        BY <2>3
      <4> QED
        BY <4>1 DEF Woken, Short
    <3>2. g[i] = i + 2 /\ g[i - 1] = (i - 1) + 2
      BY <2>3
    <3>3. g[i] = g[i - 1] + 1
      BY <3>2
    <3> QED
      BY <3>1, <3>3, OneChunk
  <2> QED
    BY <2>1, <2>2, <2>3
<1>3. g \in [0..n + 2 -> Nat] /\ g[0] = 0 /\ g[n + 2] = n + 4
  OBVIOUS
<1> HIDE DEF g
<1>4. Len(EmitAll(p)) = n + 4
  BY <1>1, <1>2, <1>3, EmitAllLen
<1>5. EmitAll(p) \in Seq(Short(L)) /\ Airtime(EmitAll(p)) = Airtime(p)
  BY <1>1, EmitAllFits
<1> QED
  BY <1>4, <1>5 DEF Piece, Woken

(* FourPieces: sync, bits and gap in a row, without and with the wake-up   *)
(* before them.                                                            *)
LEMMA FourPieces ==
  ASSUME NEW L, 0 \in L, 1 \in L, NEW p, NEW q, NEW r,
         NEW k \in Nat, NEW m \in Nat, NEW n \in Nat,
         NEW s \in Nat, NEW t \in Nat, NEW u \in Nat,
         Piece(p, L, k, s), Piece(q, L, m, t), Piece(r, L, n, u)
  PROVE  /\ Piece(((<<>> \o p) \o q) \o r, L, k + m + n, s + t + u)
         /\ Woken(((WAKE \o p) \o q) \o r, L, k + m + n, WakeUs + s + t + u)
<1>1. Piece(<<>> \o p, L, k, s)
  <2>1. Piece(<<>>, L, 0, 0)
    BY DEF Piece, Airtime
  <2>2. Piece(<<>> \o p, L, 0 + k, 0 + s)
    BY <2>1, ShortConcat
  <2> QED
    BY <2>2
<1>2. Piece((<<>> \o p) \o q, L, k + m, s + t)
  BY <1>1, ShortConcat
<1>3. k + m \in Nat /\ s + t \in Nat
  OBVIOUS
<1>4. Piece(((<<>> \o p) \o q) \o r, L, k + m + n, s + t + u)
  BY <1>2, <1>3, ShortConcat
<1>5. WakeUs \in Nat /\ WakeUs + s \in Nat /\ WakeUs + s + t \in Nat
  BY DEF WakeUs
<1>6. Woken(WAKE \o p, L, k, WakeUs + s)
  <2>1. Woken(WAKE, L, 0, WakeUs)
    BY WakeAlone
  <2>2. Woken(WAKE \o p, L, 0 + k, WakeUs + s)
    BY <1>5, <2>1, WokenConcat
  <2> QED
    BY <2>2
<1>7. Woken((WAKE \o p) \o q, L, k + m, WakeUs + s + t)
  BY <1>5, <1>6, WokenConcat
<1>8. Woken(((WAKE \o p) \o q) \o r, L, k + m + n, WakeUs + s + t + u)
  BY <1>3, <1>5, <1>7, WokenConcat
<1> QED
  BY <1>4, <1>8

(* Every level a frame's wave has.  BitAt is left unexpanded: nothing here *)
(* asks what the bits are.                                                 *)
Levels(frame) ==
  {0, 1} \cup {BitAt(frame, n - 1) : n \in 1..56}
         \cup {1 - BitAt(frame, n - 1) : n \in 1..56}

(* Numbers and durations of the parts of a frame.  They are names,         *)
(* expanded only in the lemmas that do arithmetic.                         *)
HardUs == 4 * SYMBOL_US + 4 * SYMBOL_US
SoftUs == SW_SYNC_HIGH_US + SYMBOL_US
SyncUs(sync) == sync * HardUs + SoftUs
SyncLen(sync) == sync * 2 + 2
BitUs == SYMBOL_US + SYMBOL_US
BitsLen == 56 * 2
BitsUs == 56 * BitUs
BodyUs(sync) == SyncUs(sync) + BitsUs + INTERFRAME_US

(* PulseWidths: every pulse but the silence after the wake-up is short.    *)
LEMMA PulseWidths ==
  /\ SYMBOL_US \in 1..RMT_MAX_TICKS /\ 4 * SYMBOL_US \in 1..RMT_MAX_TICKS
  /\ SW_SYNC_HIGH_US \in 1..RMT_MAX_TICKS /\ INTERFRAME_US \in 1..RMT_MAX_TICKS
BY DEF SYMBOL_US, SW_SYNC_HIGH_US, INTERFRAME_US, RMT_MAX_TICKS

(* PartTimes: the durations are numbers.                                   *)
LEMMA PartTimes ==
  /\ HardUs \in Nat /\ SoftUs \in Nat /\ BitUs \in Nat /\ BitsUs \in Nat
  /\ INTERFRAME_US \in Nat
BY DEF HardUs, SoftUs, BitUs, BitsUs, SYMBOL_US, SW_SYNC_HIGH_US, INTERFRAME_US

(* ManchesterPiece: 56 bits of two pulses each, whatever the bits.         *)
LEMMA ManchesterPiece ==
  ASSUME NEW frame
  PROVE  Piece(Manchester(frame), Levels(frame), BitsLen, BitsUs)
<1> DEFINE bits == 56
           L == Levels(frame)
           e == [n \in 1..bits |->
                  LET bit == BitAt(frame, n - 1)
                  IN  << <<1 - bit, SYMBOL_US>>, <<bit, SYMBOL_US>> >>]
<1>1. ASSUME NEW n \in 1..bits PROVE Piece(e[n], L, 2, BitUs)
  <2>1. BitAt(frame, n - 1) \in L /\ 1 - BitAt(frame, n - 1) \in L
    BY DEF Levels
  <2>2. e[n] = << <<1 - BitAt(frame, n - 1), SYMBOL_US>>,
                  <<BitAt(frame, n - 1), SYMBOL_US>> >>
    OBVIOUS
  <2> HIDE DEF e, L
  <2> QED
    BY <2>1, <2>2, PulseWidths, PairPiece DEF BitUs
<1>2. DOMAIN e = 1..bits /\ e = [n \in 1..bits |-> e[n]]
  OBVIOUS
<1>3. Manchester(frame) = FlattenSeq(e)
  BY DEF Manchester
<1>5. bits \in Nat /\ BitUs \in Nat
  BY PartTimes
<1> HIDE DEF e, L, bits
<1>4. Piece(FlattenSeq(e), L, bits * 2, bits * BitUs)
  BY <1>1, <1>2, <1>5, FlattenPieces
<1> QED
  BY <1>3, <1>4 DEF L, bits, BitsLen, BitsUs

(* SyncPiece: the hardware syncs and the software sync.                    *)
LEMMA SyncPiece ==
  ASSUME NEW L, 0 \in L, 1 \in L, NEW sync \in Nat
  PROVE  Piece(Sync(sync), L, SyncLen(sync), SyncUs(sync))
<1> DEFINE e == [i \in 1..sync |-> << <<1, 4 * SYMBOL_US>>, <<0, 4 * SYMBOL_US>> >>]
           soft == << <<1, SW_SYNC_HIGH_US>>, <<0, SYMBOL_US>> >>
<1>1. \A i \in 1..sync : e[i] = << <<1, 4 * SYMBOL_US>>, <<0, 4 * SYMBOL_US>> >>
  OBVIOUS
<1>2. DOMAIN e = 1..sync /\ e = [i \in 1..sync |-> e[i]]
  OBVIOUS
<1>3. Sync(sync) = FlattenSeq(e) \o soft
  BY DEF Sync
<1> HIDE DEF e
<1>4. \A i \in 1..sync : Piece(e[i], L, 2, HardUs)
  BY <1>1, PulseWidths, PairPiece DEF HardUs
<1>5. Piece(FlattenSeq(e), L, sync * 2, sync * HardUs)
  BY <1>2, <1>4, PartTimes, FlattenPieces
<1>6. Piece(soft, L, 2, SoftUs)
  BY PulseWidths, PairPiece DEF SoftUs
<1> HIDE DEF soft
<1>7. sync * 2 \in Nat /\ sync * HardUs \in Nat /\ SoftUs \in Nat
  BY PartTimes
<1>8. Piece(FlattenSeq(e) \o soft, L, sync * 2 + 2, SyncUs(sync))
  BY <1>5, <1>6, <1>7, ShortConcat DEF SyncUs
<1> QED
  BY <1>3, <1>8 DEF SyncLen

GapLen == 1
FirstLen == SyncLen(2) + BitsLen + GapLen + 4
AgainLen == SyncLen(7) + BitsLen + GapLen
FirstUs == WakeUs + SyncUs(2) + BitsUs + INTERFRAME_US
AgainUs == BodyUs(7)

(* FrameTimes: the durations of the frames are numbers.                    *)
LEMMA FrameTimes ==
  FirstUs \in Nat /\ AgainUs \in Nat
BY PartTimes DEF FirstUs, AgainUs, BodyUs, SyncUs, WakeUs

WaveLen == FirstLen + AgainLen + AgainLen
WaveUs == FirstUs + AgainUs + AgainUs

(* WaveLens: three frames are an odd number of pulses, and fit SYM_CAP     *)
(* with one more.                                                          *)
LEMMA WaveLens ==
  /\ FirstLen \in Nat /\ AgainLen \in Nat /\ WaveLen \in Nat /\ WaveLen % 2 = 1
  /\ WaveLen + 1 <= 2 * SYM_CAP
BY DEF FirstLen, AgainLen, WaveLen, SyncLen, BitsLen, GapLen, SYM_CAP

(* WaveTime: they last about half a second.                                *)
LEMMA WaveTime == WaveUs \in HalfASecond
BY DEF HalfASecond, WaveUs, FirstUs, AgainUs, BodyUs, SyncUs, WakeUs, BitsUs,
       HardUs, SoftUs, BitUs, SYMBOL_US, SW_SYNC_HIGH_US, INTERFRAME_US

(* RMT's end marker.                                                       *)
End == <<0, 0>>

(* EndMarker: appended, it adds a pulse and no time.                       *)
LEMMA EndMarker ==
  ASSUME NEW L, 0 \in L, NEW p \in Timed(L)
  PROVE  /\ Len(Append(p, End)) = Len(p) + 1
         /\ DOMAIN Append(p, End) = 1..Len(p) + 1
         /\ \A i \in 1..Len(p) : Append(p, End)[i] = p[i]
         /\ Append(p, End)[Len(p) + 1] = End
         /\ Append(p, End) # <<>>
         /\ Airtime(Append(p, End)) = Airtime(p)
<1>1. p \in Seq(L \X Nat) /\ End \in L \X Nat
  BY DEF Timed, End
<1>2. <<End>> \in Timed(L) /\ Airtime(<<End>>) = 0
  BY SinglePulse DEF End
<1>3. Append(p, End) = p \o <<End>>
  BY <1>1, AppendIsConcat
<1>4. Airtime(p \o <<End>>) = Airtime(p) /\ Airtime(p) \in Nat
  BY <1>2, AirtimeConcat
<1>5. /\ Append(p, End) \in Seq(L \X Nat) /\ Append(p, End) # <<>>
      /\ Len(Append(p, End)) = Len(p) + 1
      /\ \A i \in 1..Len(p) : Append(p, End)[i] = p[i]
      /\ Append(p, End)[Len(p) + 1] = End
  BY <1>1, AppendProperties
<1>6. DOMAIN Append(p, End) = 1..Len(Append(p, End))
  BY <1>5, LenProperties
<1> QED
  BY <1>3, <1>4, <1>5, <1>6

(* FramePieces: the wake-up frame and the repeated one.                    *)
LEMMA FramePieces ==
  ASSUME NEW frame
  PROVE  /\ Piece(EmitFrame(frame, 2), Levels(frame), FirstLen, FirstUs)
         /\ Piece(EmitFrame(frame, 7), Levels(frame), AgainLen, AgainUs)
<1> DEFINE L == Levels(frame)
           gap == << <<0, INTERFRAME_US>> >>
           M == Manchester(frame)
<1>1. 0 \in L /\ 1 \in L
  BY DEF Levels
<1>2. Piece(M, L, BitsLen, BitsUs)
  BY ManchesterPiece
<1>3. EmitFrame(frame, 2) = EmitAll(((WAKE \o Sync(2)) \o M) \o gap)
  BY DEF EmitFrame
<1>4. EmitFrame(frame, 7) = EmitAll(((<<>> \o Sync(7)) \o M) \o gap)
  BY DEF EmitFrame
<1> HIDE DEF L, M
<1>5. Piece(gap, L, GapLen, INTERFRAME_US)
  BY <1>1, PulseWidths, SinglePiece DEF GapLen
<1> HIDE DEF gap
<1>6. Piece(Sync(2), L, SyncLen(2), SyncUs(2)) /\ Piece(Sync(7), L, SyncLen(7), SyncUs(7))
  BY <1>1, SyncPiece
<1>7. /\ SyncLen(2) \in Nat /\ SyncLen(7) \in Nat /\ BitsLen \in Nat /\ GapLen \in Nat
      /\ SyncUs(2) \in Nat /\ SyncUs(7) \in Nat /\ BitsUs \in Nat /\ INTERFRAME_US \in Nat
  BY PartTimes DEF SyncUs, SyncLen, BitsLen, GapLen
<1>8. Woken(((WAKE \o Sync(2)) \o M) \o gap, L, SyncLen(2) + BitsLen + GapLen, FirstUs)
  BY <1>1, <1>2, <1>5, <1>6, <1>7, FourPieces DEF FirstUs
<1>9. Piece(((<<>> \o Sync(7)) \o M) \o gap, L, SyncLen(7) + BitsLen + GapLen, AgainUs)
  BY <1>1, <1>2, <1>5, <1>6, <1>7, FourPieces DEF AgainUs, BodyUs
<1>10. Piece(EmitFrame(frame, 2), L, SyncLen(2) + BitsLen + GapLen + 4, FirstUs)
  <2>1. SyncLen(2) + BitsLen + GapLen \in Nat
    BY <1>7
  <2> QED
    BY <1>3, <1>8, <2>1, WokenPassed
<1>11. Piece(EmitFrame(frame, 7), L, SyncLen(7) + BitsLen + GapLen, AgainUs)
  <2>1. SyncLen(7) + BitsLen + GapLen \in Nat
    BY <1>7
  <2> QED
    BY <1>4, <1>9, <2>1, FrameTimes, ShortPassed
<1> QED
  BY <1>10, <1>11 DEF L, FirstLen, AgainLen

(* Repeated: a frame, and another twice.                                   *)
LEMMA Repeated ==
  ASSUME NEW L, NEW p, NEW q, NEW m \in Nat, NEW n \in Nat, NEW s \in Nat, NEW t \in Nat,
         Piece(p, L, m, s), Piece(q, L, n, t)
  PROVE  Piece(p \o q \o q, L, m + n + n, s + t + t)
<1>1. Piece(p \o q, L, m + n, s + t) /\ m + n \in Nat /\ s + t \in Nat
  BY ShortConcat
<1> QED
  BY <1>1, ShortConcat

(* FinishFits: an odd number of short pulses is closed to whole symbols,   *)
(* with the only end marker at the end.                                    *)
LEMMA FinishFits ==
  ASSUME NEW L, 0 \in L, NEW p, NEW n \in Nat, n % 2 = 1, n + 1 <= 2 * SYM_CAP,
         NEW t \in HalfASecond, Piece(p, L, n, t)
  PROVE  Fits(EmitFinish(p))
<1> DEFINE wave == Append(p, End)
<1>1. p \in Seq(Short(L)) /\ Len(p) = n /\ Airtime(p) = t /\ p \in Timed(L)
  BY ShortIsTimed DEF Piece
<1>2. EmitFinish(p) = wave
  BY <1>1 DEF EmitFinish, End
<1>3. /\ Len(wave) = n + 1 /\ DOMAIN wave = 1..n + 1 /\ wave # <<>>
      /\ \A i \in 1..n : wave[i] = p[i]
      /\ wave[n + 1] = End /\ Airtime(wave) = t
  BY <1>1, EndMarker
<1> HIDE DEF wave
<1>4. ASSUME NEW i \in DOMAIN wave
      PROVE  wave[i][2] <= RMT_MAX_TICKS /\ (wave[i][2] = 0 => i = Len(wave))
  <2>1. CASE i = n + 1
    <3>1. wave[i][2] = 0
      BY <1>3, <2>1 DEF End
    <3> QED
      BY <1>3, <2>1, <3>1, MaxTicks
  <2>2. CASE i # n + 1
    <3>1. i \in 1..n
      BY <1>3, <2>2
    <3>2. p[i] \in Short(L)
      BY <1>1, <3>1, ElementOfSeq
    <3>3. wave[i] = p[i]
      BY <1>3, <3>1
    <3>4. wave[i][2] \in 1..RMT_MAX_TICKS
      BY <3>2, <3>3 DEF Short
    <3> QED
      BY <3>4, MaxTicks
  <2> QED
    BY <2>1, <2>2
<1>5. wave # <<>> /\ Len(wave) % 2 = 0 /\ Len(wave) <= 2 * SYM_CAP
  <2>1. (n + 1) % 2 = 0
    OBVIOUS
  <2> QED
    BY <1>3, <2>1
<1>6. Airtime(wave) \in HalfASecond
  BY <1>3
<1> QED
  BY <1>2, <1>4, <1>5, <1>6, Zenon DEF Fits

(* WaveFits: whatever the bytes of the frame, the wake-up frame and its    *)
(* two repeats fit the symbol buffer (the error of somfy_rts_send for too  *)
(* many symbols is never taken), no duration exceeds 15 bits, only the     *)
(* last is the end marker and the transmission is over in half a second of *)
(* the two that somfy_rts_send waits (emit, emit_frame, emit_finish,       *)
(* SYM_CAP).                                                               *)
THEOREM WaveFits == \A frame : Fits(Wave(frame))
<1> SUFFICES ASSUME NEW frame PROVE Fits(Wave(frame))
  OBVIOUS
<1>1. FirstUs \in Nat /\ AgainUs \in Nat
  BY FrameTimes
<1>2. /\ Piece(EmitFrame(frame, 2), Levels(frame), FirstLen, FirstUs)
      /\ Piece(EmitFrame(frame, 7), Levels(frame), AgainLen, AgainUs)
  BY FramePieces
<1>3. Piece(EmitFrame(frame, 2) \o EmitFrame(frame, 7) \o EmitFrame(frame, 7),
            Levels(frame), WaveLen, WaveUs)
  BY <1>1, <1>2, WaveLens, Repeated DEF WaveUs, WaveLen
<1>5. 0 \in Levels(frame)
  BY DEF Levels
<1>6. Fits(EmitFinish(EmitFrame(frame, 2) \o EmitFrame(frame, 7) \o EmitFrame(frame, 7)))
  BY <1>3, <1>5, WaveLens, WaveTime, FinishFits
<1> QED
  BY <1>6 DEF Wave
===============================================================================
