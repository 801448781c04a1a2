--------------------------- MODULE UwbOutOfBand_proofs ---------------------------
(***************************************************************************)
(* Theorems about the objects that two hosts exchange, for objects of any  *)
(* tags, lengths and values, and for any session data.  An object is what  *)
(* the parser returns for its bytes, and session data are what is decoded  *)
(* from their object.                                                      *)
(***************************************************************************)
EXTENDS UwbExchange, SequenceTheorems, FiniteSetTheorems, WellFoundedInduction, TLAPS

-----------------------------------------------------------------------------
(* Recursive functions of an index.                                        *)

LEMMA IndexInduction ==
    ASSUME NEW n \in Nat, NEW I, 0 \in I, \A i \in 1 .. n : i - 1 \in I => i \in I
    PROVE  \A i \in 0 .. n : i \in I
<1> DEFINE R == {p \in Nat \X Nat : p[1] < p[2]}
           J == (0 .. n) \ I
<1> SUFFICES ASSUME J # {} PROVE FALSE
  OBVIOUS
<1>1. IsWellFoundedOn(R, Nat)
  BY NatLessThanWellFounded DEF OpToRel
<1>2. PICK x \in J : \A y \in J : ~ (<<y, x>> \in R)
  <2>1. J \subseteq Nat
    OBVIOUS
  <2> HIDE DEF R, J
  <2> QED
    BY <1>1, <2>1, WFMin
<1>3. x \in 0 .. n /\ x \notin I
  OBVIOUS
<1>4. x \in 1 .. n
  BY <1>3
<1>5. <<x - 1, x>> \in R /\ x - 1 \in 0 .. n
  BY <1>4
<1>6. x - 1 \in I
  <2> HIDE DEF R
  <2> QED
    BY <1>2, <1>5
<1>7. QED
  BY <1>3, <1>4, <1>6

\* f is the function that starts at b and goes on by step, as far as n ...
Recurs(f, b, step, n) ==
    f[0] = b /\ \A i \in 1 .. n : f[i] = step[<<f[i - 1], i>>]

\* ... and there is one.
LEMMA Recursion ==
    ASSUME NEW S, NEW b \in S, NEW n \in Nat, NEW step \in [S \X (1 .. n) -> S]
    PROVE  \E f \in [0 .. n -> S] : Recurs(f, b, step, n)
<1> DEFINE I == {k \in 0 .. n : \E f \in [0 .. k -> S] : Recurs(f, b, step, k)}
<1>1. 0 \in I
  <2>1. /\ [j \in 0 .. 0 |-> b] \in [0 .. 0 -> S]
        /\ Recurs([j \in 0 .. 0 |-> b], b, step, 0)
    BY DEF Recurs
  <2>2. QED
    BY <2>1
<1>2. ASSUME NEW k \in 1 .. n, k - 1 \in I PROVE k \in I
  <2>1. PICK f \in [0 .. k - 1 -> S] : Recurs(f, b, step, k - 1)
    BY <1>2
  <2> DEFINE g == [j \in 0 .. k |-> IF j = k THEN step[<<f[k - 1], k>>] ELSE f[j]]
  <2>2. f[k - 1] \in S /\ step[<<f[k - 1], k>>] \in S
    BY <2>1
  <2>3. g \in [0 .. k -> S]
    BY <2>1, <2>2
  <2>4. g[0] = b
    BY <2>1 DEF Recurs
  <2>5. ASSUME NEW i \in 1 .. k PROVE g[i] = step[<<g[i - 1], i>>]
    <3>1. CASE i = k
      <4>1. k \in 0 .. k /\ k - 1 \in 0 .. k /\ k - 1 # k
        OBVIOUS
      <4>2. g[k] = step[<<f[k - 1], k>>] /\ g[k - 1] = f[k - 1]
        BY <4>1
      <4>3. QED
        BY <3>1, <4>2
    <3>2. CASE i # k
      <4>1. i \in 1 .. k - 1 /\ g[i] = f[i] /\ g[i - 1] = f[i - 1]
        BY <3>2
      <4>2. QED
        BY <2>1, <4>1 DEF Recurs
    <3>3. QED
      BY <3>1, <3>2
  <2>6. Recurs(g, b, step, k)
    BY <2>4, <2>5 DEF Recurs
  <2>7. k \in 0 .. n
    OBVIOUS
  <2>8. QED
    BY <2>3, <2>6, <2>7
<1> HIDE DEF I
<1>3. n \in I
  BY <1>1, <1>2, IndexInduction
<1>4. QED
  BY <1>3 DEF I

-----------------------------------------------------------------------------
(* Sequences that are put one after the other.                             *)

\* Where each of n sequences of given lengths ends, when they are.
EndsOf(n, length) ==
    CHOOSE end \in [0 .. n -> Nat] :
        end[0] = 0 /\ \A i \in 1 .. n : end[i] = end[i - 1] + length[i]

LEMMA EndsOfIs ==
    ASSUME NEW n \in Nat, NEW length \in [1 .. n -> Nat]
    PROVE  /\ EndsOf(n, length) \in [0 .. n -> Nat]
           /\ EndsOf(n, length)[0] = 0
           /\ \A i \in 1 .. n : EndsOf(n, length)[i] = EndsOf(n, length)[i - 1] + length[i]
<1> DEFINE step == [p \in Nat \X (1 .. n) |-> p[1] + length[p[2]]]
<1>1. step \in [Nat \X (1 .. n) -> Nat]
  OBVIOUS
<1>2. ASSUME NEW x \in Nat, NEW i \in 1 .. n PROVE step[<<x, i>>] = x + length[i]
  OBVIOUS
<1> HIDE DEF step
<1>3. PICK f \in [0 .. n -> Nat] : Recurs(f, 0, step, n)
  BY <1>1, Recursion
<1>4. f[0] = 0 /\ \A i \in 1 .. n : f[i] = f[i - 1] + length[i]
  <2>1. ASSUME NEW i \in 1 .. n PROVE f[i] = f[i - 1] + length[i]
    <3>1. f[i - 1] \in Nat
      OBVIOUS
    <3>2. QED
      BY <1>2, <1>3, <3>1 DEF Recurs
  <2>2. QED
    BY <1>3, <2>1 DEF Recurs
<1>5. QED
  BY <1>4 DEF EndsOf

LEMMA EndsOfUnique ==
    ASSUME NEW n \in Nat, NEW length \in [1 .. n -> Nat], NEW f, f[0] = 0,
           \A i \in 1 .. n : f[i] = f[i - 1] + length[i]
    PROVE  \A i \in 0 .. n : f[i] = EndsOf(n, length)[i]
<1> DEFINE g == EndsOf(n, length)
<1>1. g[0] = 0 /\ \A i \in 1 .. n : g[i] = g[i - 1] + length[i]
  BY EndsOfIs
<1> HIDE DEF g
<1>2. ASSUME NEW i \in 1 .. n, f[i - 1] = g[i - 1] PROVE f[i] = g[i]
  <2>1. f[i] = f[i - 1] + length[i] /\ g[i] = g[i - 1] + length[i]
    BY <1>1
  <2>2. QED
    BY <1>2, <2>1
<1>3. f[0] = g[0]
  BY <1>1
<1> DEFINE I == {i \in 0 .. n : f[i] = g[i]}
<1>5. 0 \in I
  BY <1>3
<1>6. ASSUME NEW i \in 1 .. n, i - 1 \in I PROVE i \in I
  BY <1>2, <1>6
<1> HIDE DEF I
<1>7. \A i \in 0 .. n : i \in I
  BY <1>5, <1>6, IndexInduction
<1>4. \A i \in 0 .. n : f[i] = g[i]
  BY <1>7 DEF I
<1>8. QED
  BY <1>4 DEF g

\* Later ends are no smaller.
LEMMA EndsOfGrow ==
    ASSUME NEW n \in Nat, NEW length \in [1 .. n -> Nat]
    PROVE  \A i, j \in 0 .. n : i <= j => EndsOf(n, length)[i] <= EndsOf(n, length)[j]
<1> DEFINE e == EndsOf(n, length)
<1>1. e \in [0 .. n -> Nat] /\ \A i \in 1 .. n : e[i] = e[i - 1] + length[i]
  BY EndsOfIs
<1> HIDE DEF e
<1>2. SUFFICES ASSUME NEW i \in 0 .. n PROVE \A j \in 0 .. n : i <= j => e[i] <= e[j]
  BY DEF e
<1> DEFINE I == {j \in 0 .. n : i <= j => e[i] <= e[j]}
<1>3. 0 \in I
  BY <1>1
<1>4. ASSUME NEW j \in 1 .. n, j - 1 \in I PROVE j \in I
  <2>1. e[j] = e[j - 1] + length[j] /\ length[j] \in Nat /\ e[j - 1] \in Nat /\ e[i] \in Nat
    BY <1>1
  <2>2. i <= j - 1 => e[i] <= e[j - 1]
    BY <1>4
  <2>3. i <= j => e[i] <= e[j]
    BY <2>1, <2>2
  <2>4. QED
    BY <2>3
<1> HIDE DEF I
<1>5. \A j \in 0 .. n : j \in I
  BY <1>3, <1>4, IndexInduction
<1>6. QED
  BY <1>5 DEF I

\* A sequence is found in another one, behind a number of its elements.
Holds(a, at, s) ==
    at + Len(s) <= Len(a) /\ \A k \in 1 .. Len(s) : a[at + k] = s[k]

\* What is in a sequence stays where it is, when another is put behind it ...
LEMMA ConcatKeeps ==
    ASSUME NEW X, NEW a \in Seq(X), NEW b \in Seq(X), NEW s \in Seq(X), NEW at \in Nat,
           Holds(a, at, s)
    PROVE  Holds(a \o b, at, s)
<1>1. at + Len(s) <= Len(a) + Len(b) /\ Len(a \o b) = Len(a) + Len(b)
  BY LenProperties, ConcatProperties DEF Holds
<1>2. ASSUME NEW k \in 1 .. Len(s) PROVE (a \o b)[at + k] = s[k]
  <2>1. at + k \in 1 .. Len(a) + Len(b) /\ at + k <= Len(a)
    BY LenProperties DEF Holds
  <2>2. (a \o b)[at + k] = a[at + k]
    BY <2>1, ConcatProperties
  <2>3. QED
    BY <2>2 DEF Holds
<1>3. QED
  BY <1>1, <1>2 DEF Holds

\* ... and so is the other one.
LEMMA ConcatAdds ==
    ASSUME NEW X, NEW a \in Seq(X), NEW b \in Seq(X)
    PROVE  Holds(a \o b, Len(a), b)
<1>1. ASSUME NEW k \in 1 .. Len(b) PROVE (a \o b)[Len(a) + k] = b[k]
  <2>1. /\ Len(a) \in Nat
        /\ Len(a) + k \in 1 .. Len(a) + Len(b)
        /\ ~ (Len(a) + k <= Len(a))
        /\ Len(a) + k - Len(a) = k
    BY LenProperties
  <2>2. QED
    BY <2>1, ConcatProperties
<1>2. Len(a) + Len(b) <= Len(a \o b)
  BY LenProperties, ConcatProperties
<1>3. QED
  BY <1>1, <1>2 DEF Holds

\* What is found in a part is found in the whole.
LEMMA HoldsThrough ==
    ASSUME NEW X, NEW a \in Seq(X), NEW b \in Seq(X), NEW c \in Seq(X),
           NEW at \in Nat, NEW behind \in Nat, Holds(a, at, b), Holds(b, behind, c)
    PROVE  Holds(a, at + behind, c)
<1>1. Len(a) \in Nat /\ Len(b) \in Nat /\ Len(c) \in Nat
  BY LenProperties
<1>2. ASSUME NEW k \in 1 .. Len(c) PROVE a[at + behind + k] = c[k]
  <2>1. behind + k \in 1 .. Len(b) /\ b[behind + k] = c[k]
    BY <1>1 DEF Holds
  <2>2. a[at + (behind + k)] = b[behind + k]
    BY <2>1 DEF Holds
  <2>3. at + (behind + k) = at + behind + k
    OBVIOUS
  <2>4. QED
    BY <2>1, <2>2, <2>3
<1>3. at + behind + Len(c) <= Len(a)
  BY <1>1 DEF Holds
<1>4. QED
  BY <1>2, <1>3 DEF Holds

\* What FlattenSeq makes of sequences: each of them, behind the one before it.
LEMMA FlattenIs ==
    ASSUME NEW X, NEW n \in Nat, NEW ss \in [1 .. n -> Seq(X)],
           NEW length \in [1 .. n -> Nat], \A i \in 1 .. n : length[i] = Len(ss[i])
    PROVE  /\ FlattenSeq(ss) \in Seq(X)
           /\ Len(FlattenSeq(ss)) = EndsOf(n, length)[n]
           /\ \A i \in 1 .. n : Holds(FlattenSeq(ss), EndsOf(n, length)[i - 1], ss[i])
<1> DEFINE e == EndsOf(n, length)
           P(g) == g = [i \in 1 .. n |-> IF i = 1 THEN ss[i] ELSE g[i - 1] \o ss[i]]
           flatten == CHOOSE g : P(g)
<1>1. Len(ss) = n
  <2>1. ss \in Seq(Seq(X)) /\ DOMAIN ss = 1 .. n
    OBVIOUS
  <2>2. QED
    BY <2>1, LenProperties
<1>2. e \in [0 .. n -> Nat] /\ e[0] = 0 /\ \A i \in 1 .. n : e[i] = e[i - 1] + Len(ss[i])
  <2>1. e \in [0 .. n -> Nat] /\ e[0] = 0 /\ \A i \in 1 .. n : e[i] = e[i - 1] + length[i]
    BY EndsOfIs
  <2>2. QED
    BY <2>1
<1>3. \A i, j \in 0 .. n : i <= j => e[i] <= e[j]
  BY EndsOfGrow
<1> HIDE DEF e
<1> SUFFICES /\ FlattenSeq(ss) \in Seq(X)
             /\ Len(FlattenSeq(ss)) = e[n]
             /\ \A i \in 1 .. n : Holds(FlattenSeq(ss), e[i - 1], ss[i])
  BY DEF e
<1>4. CASE n = 0
  <2>1. FlattenSeq(ss) = ss
    BY <1>1, <1>4 DEF FlattenSeq
  <2>2. ss \in Seq(X)
    BY <1>4
  <2>3. QED
    BY <1>1, <1>2, <1>4, <2>1, <2>2
<1>5. CASE n # 0
  <2> DEFINE step == [p \in Seq(X) \X (1 .. n) |-> p[1] \o ss[p[2]]]
  <2>1. step \in [Seq(X) \X (1 .. n) -> Seq(X)]
    BY ConcatProperties
  <2>2. ASSUME NEW x \in Seq(X), NEW i \in 1 .. n PROVE step[<<x, i>>] = x \o ss[i]
    OBVIOUS
  <2>3. <<>> \in Seq(X)
    OBVIOUS
  <2> HIDE DEF step
  <2>4. PICK f \in [0 .. n -> Seq(X)] : Recurs(f, <<>>, step, n)
    BY <2>1, <2>3, Recursion
  <2>5. \A i \in 0 .. n : f[i] \in Seq(X)
    BY <2>4
  <2>6. \A i \in 1 .. n : ss[i] \in Seq(X) /\ f[i - 1] \in Seq(X)
    BY <2>5
  <2>7. f[0] = <<>>
    BY <2>4 DEF Recurs
  <2>8. ASSUME NEW i \in 1 .. n PROVE f[i] = f[i - 1] \o ss[i]
    BY <2>2, <2>4, <2>6 DEF Recurs
  <2>9. f[1] = ss[1]
    <3>1. 1 \in 1 .. n
      BY <1>5
    <3>2. f[1] = f[1 - 1] \o ss[1]
      BY ONLY <2>8, <3>1
    <3>3. ss[1] \in Seq(X)
      BY ONLY <2>6, <3>1
    <3>4. f[1 - 1] = <<>>
      BY ONLY <2>7, 1 - 1 = 0
    <3>5. QED
      BY ONLY <3>2, <3>3, <3>4, ConcatEmptySeq
  <2>10. P([i \in 1 .. n |-> f[i]])
    <3> DEFINE g == [i \in 1 .. n |-> f[i]]
    <3>1. ASSUME NEW i \in 1 .. n
          PROVE  f[i] = IF i = 1 THEN ss[i] ELSE g[i - 1] \o ss[i]
      <4>1. CASE i = 1
        BY <2>9, <4>1
      <4>2. CASE i # 1
        <5>1. g[i - 1] = f[i - 1]
          BY <4>2
        <5>2. QED
          BY <2>8, <4>2, <5>1
      <4>3. QED
        BY <4>1, <4>2
    <3>2. QED
      BY <3>1
  <2> HIDE DEF P
  <2>11. P(flatten)
    BY <2>10
  <2> USE DEF P
  <2>12. \A i \in 1 .. n : flatten[i] = f[i]
    <3> DEFINE I == {i \in 0 .. n : i # 0 => flatten[i] = f[i]}
    <3>1. 0 \in I
      OBVIOUS
    <3>2. ASSUME NEW i \in 1 .. n, i - 1 \in I PROVE i \in I
      <4> HIDE DEF flatten
      <4>1. flatten[i] = IF i = 1 THEN ss[i] ELSE flatten[i - 1] \o ss[i]
        BY <2>11
      <4>2. CASE i = 1
        BY <2>9, <4>1, <4>2
      <4>3. CASE i # 1
        <5>1. flatten[i - 1] = f[i - 1]
          BY <3>2, <4>3
        <5>2. flatten[i] = f[i]
          BY <2>8, <4>1, <4>3, <5>1
        <5>3. QED
          BY <5>2
      <4>4. QED
        BY <4>2, <4>3
    <3> HIDE DEF I
    <3>3. \A i \in 0 .. n : i \in I
      BY <3>1, <3>2, IndexInduction
    <3> HIDE DEF flatten
    <3>4. ASSUME NEW i \in 1 .. n PROVE flatten[i] = f[i]
      <4>1. i \in 0 .. n /\ i # 0
        OBVIOUS
      <4>2. QED
        BY <3>3, <4>1 DEF I
    <3>5. QED
      BY <3>4
  <2>13. FlattenSeq(ss) = f[n]
    <3>1. FlattenSeq(ss) = flatten[n]
      BY <1>1, <1>5 DEF FlattenSeq
    <3> HIDE DEF flatten
    <3>2. QED
      BY <1>5, <2>12, <3>1
  <2> HIDE DEF flatten, P
  <2> DEFINE J == {j \in 0 .. n :
                     /\ Len(f[j]) = e[j]
                     /\ \A i \in 1 .. j : Holds(f[j], e[i - 1], ss[i])}
  <2>14. 0 \in J
    BY <1>2, <2>7
  <2>15. ASSUME NEW j \in 1 .. n, j - 1 \in J PROVE j \in J
    <3>1. f[j] = f[j - 1] \o ss[j] /\ f[j - 1] \in Seq(X) /\ ss[j] \in Seq(X)
      BY <2>6, <2>8
    <3>2. Len(f[j - 1]) = e[j - 1] /\ e[j] = e[j - 1] + Len(ss[j])
      BY <1>2, <2>15
    <3>3. Len(f[j]) = e[j]
      BY ONLY <3>1, <3>2, ConcatProperties
    <3>4. ASSUME NEW i \in 1 .. j PROVE Holds(f[j], e[i - 1], ss[i])
      <4>1. CASE i = j
        BY <3>1, <3>2, <4>1, ConcatAdds
      <4>2. CASE i # j
        <5>1. Holds(f[j - 1], e[i - 1], ss[i])
          BY <2>15, <4>2
        <5>2. ss[i] \in Seq(X) /\ e[i - 1] \in Nat
          BY <1>2
        <5>3. QED
          BY <3>1, <5>1, <5>2, ConcatKeeps
      <4>3. QED
        BY <4>1, <4>2
    <3>5. QED
      BY <3>3, <3>4
  <2> HIDE DEF J
  <2>16. \A j \in 0 .. n : j \in J
    BY <2>14, <2>15, IndexInduction
  <2>17. n \in 0 .. n /\ f[n] \in Seq(X)
    BY <1>5, <2>5
  <2>18. QED
    BY <2>13, <2>16, <2>17 DEF J
<1>6. QED
  BY <1>4, <1>5

-----------------------------------------------------------------------------
(* The elements of a sequence that pass a test.                            *)

\* The places of the elements to keep, in order.
Places(n, keep) == FlattenSeq([i \in 1 .. n |-> IF keep[i] THEN <<i>> ELSE <<>>])

\* The elements that are kept, and those at some places.
Filtered(n, keep, s) == FlattenSeq([i \in 1 .. n |-> IF keep[i] THEN <<s[i]>> ELSE <<>>])
Chosen(s, places) == [j \in 1 .. Len(places) |-> s[places[j]]]

\* Keeping elements is keeping their places.
LEMMA KeepIs ==
    ASSUME NEW X, NEW n \in Nat, NEW s \in [1 .. n -> X], NEW keep
    PROVE  /\ Places(n, keep) \in Seq(1 .. n)
           /\ Filtered(n, keep, s) = Chosen(s, Places(n, keep))
           /\ \A j \in 1 .. Len(Places(n, keep)) : keep[Places(n, keep)[j]]
           /\ \A i \in 1 .. n : keep[i] => \E j \in 1 .. Len(Places(n, keep)) : Places(n, keep)[j] = i
           /\ \A j, k \in 1 .. Len(Places(n, keep)) : Places(n, keep)[j] = Places(n, keep)[k] => j = k
<1> DEFINE ss == [i \in 1 .. n |-> IF keep[i] THEN <<s[i]>> ELSE <<>>]
           tt == [i \in 1 .. n |-> IF keep[i] THEN <<i>> ELSE <<>>]
           length == [i \in 1 .. n |-> IF keep[i] THEN 1 ELSE 0]
           e == EndsOf(n, length)
           p == FlattenSeq(tt)
           f == FlattenSeq(ss)
<1>1. ss \in [1 .. n -> Seq(X)] /\ tt \in [1 .. n -> Seq(1 .. n)]
  <2>1. ASSUME NEW i \in 1 .. n
        PROVE  /\ (IF keep[i] THEN <<s[i]>> ELSE <<>>) \in Seq(X)
               /\ (IF keep[i] THEN <<i>> ELSE <<>>) \in Seq(1 .. n)
    <3>1. <<s[i]>> \in Seq(X) /\ <<>> \in Seq(X)
      OBVIOUS
    <3>2. <<i>> \in Seq(1 .. n) /\ <<>> \in Seq(1 .. n)
      OBVIOUS
    <3>3. QED
      BY <3>1, <3>2
  <2>2. QED
    BY <2>1
<1>2. \A i \in 1 .. n : length[i] = Len(ss[i]) /\ length[i] = Len(tt[i])
  OBVIOUS
<1>14. length \in [1 .. n -> Nat]
  OBVIOUS
<1>3. /\ f \in Seq(X) /\ Len(f) = e[n]
      /\ \A i \in 1 .. n : Holds(f, e[i - 1], ss[i])
  <2> HIDE DEF ss, length
  <2> QED
    BY <1>1, <1>2, <1>14, FlattenIs, ZenonT(60)
<1>4. p \in Seq(1 .. n) /\ Len(p) = e[n] /\ \A i \in 1 .. n : Holds(p, e[i - 1], tt[i])
  <2> DEFINE Y == 1 .. n
  <2>1. tt \in [1 .. n -> Seq(Y)]
    BY <1>1
  <2> HIDE DEF tt, length, Y
  <2>2. p \in Seq(Y) /\ Len(p) = e[n] /\ \A i \in 1 .. n : Holds(p, e[i - 1], tt[i])
    BY <1>2, <1>14, <2>1, FlattenIs
  <2>3. QED
    BY <2>2 DEF Y
<1>5. e \in [0 .. n -> Nat] /\ e[0] = 0 /\ \A i \in 1 .. n : e[i] = e[i - 1] + length[i]
  <2> HIDE DEF length
  <2> QED
    BY <1>14, EndsOfIs
<1>6. \A i, j \in 0 .. n : i <= j => e[i] <= e[j]
  <2> HIDE DEF length
  <2> QED
    BY <1>14, EndsOfGrow
<1> HIDE DEF e
<1>7. ASSUME NEW i \in 1 .. n, keep[i]
      PROVE  /\ e[i] = e[i - 1] + 1 /\ e[i] \in 1 .. e[n]
             /\ f[e[i]] = s[i] /\ p[e[i]] = i
  <2>1. e[i] = e[i - 1] + 1 /\ e[i] \in Nat /\ e[i - 1] \in Nat /\ e[i] <= e[n]
    BY <1>5, <1>6, <1>7
  <2>2. ss[i] = <<s[i]>> /\ tt[i] = <<i>>
    BY <1>7
  <2> HIDE DEF f, p, ss, tt
  <2>3. Holds(f, e[i - 1], <<s[i]>>) /\ Holds(p, e[i - 1], <<i>>)
    BY <1>3, <1>4, <2>2
  <2>4. f[e[i - 1] + 1] = s[i] /\ p[e[i - 1] + 1] = i
    BY <2>3 DEF Holds
  <2>5. QED
    BY <2>1, <2>4

\* Every element comes from somewhere.
<1>8. ASSUME NEW j \in 1 .. e[n] PROVE \E i \in 1 .. n : keep[i] /\ e[i] = j
  <2> DEFINE I == {i \in 0 .. n : e[i] < j}
  <2>1. SUFFICES ASSUME \A i \in 1 .. n : ~ (keep[i] /\ e[i] = j) PROVE FALSE
    OBVIOUS
  <2>2. 0 \in I
    BY <1>5
  <2>3. ASSUME NEW i \in 1 .. n, i - 1 \in I PROVE i \in I
    <3>1. e[i] = e[i - 1] + (IF keep[i] THEN 1 ELSE 0) /\ e[i - 1] \in Nat /\ e[i - 1] < j
      BY <1>5, <2>3
    <3>2. e[i] # j \/ ~ keep[i]
      BY <2>1
    <3>3. e[i] < j
      BY <3>1, <3>2
    <3>4. QED
      BY <3>3
  <2> HIDE DEF I
  <2>4. \A i \in 0 .. n : i \in I
    BY <2>2, <2>3, IndexInduction
  <2>5. e[n] < j
    BY <2>4 DEF I
  <2>6. e[n] \in Nat
    BY <1>5
  <2>7. QED
    BY <2>5, <2>6
<1> HIDE DEF f, p, ss, tt, length
<1>9. ASSUME NEW j \in 1 .. e[n]
      PROVE  p[j] \in 1 .. n /\ keep[p[j]] /\ f[j] = s[p[j]] /\ e[p[j]] = j
  <2>1. PICK i \in 1 .. n : keep[i] /\ e[i] = j
    BY <1>8
  <2>2. QED
    BY <1>7, <2>1
<1>10. f = [j \in 1 .. Len(p) |-> s[p[j]]]
  <2>1. f = [j \in 1 .. Len(f) |-> f[j]]
    BY <1>3
  <2>2. QED
    BY <1>3, <1>4, <1>9, <2>1
<1>11. ASSUME NEW i \in 1 .. n, keep[i] PROVE \E j \in 1 .. Len(p) : p[j] = i
  BY <1>4, <1>7, <1>11
<1>12. \A j \in 1 .. Len(p) : keep[p[j]]
  BY <1>4, <1>9
<1>15. ASSUME NEW j \in 1 .. Len(p), NEW k \in 1 .. Len(p), p[j] = p[k] PROVE j = k
  <2>1. e[p[j]] = j /\ e[p[k]] = k
    BY <1>4, <1>9
  <2>2. QED
    BY <1>15, <2>1
<1>13. QED
  BY <1>4, <1>10, <1>11, <1>12, <1>15 DEF Places, Filtered, Chosen, p, tt, f, ss

-----------------------------------------------------------------------------
(* The bytes of integers.                                                  *)

LEMMA Powers == 256 ^ 0 = 1 /\ 256 ^ 1 = 256 /\ 256 ^ 2 = 65536 /\ 256 ^ 3 = 256 * 65536
  BY SMT

\* The sums of the first numbers of a sequence.
LEMMA Sums ==
    ASSUME NEW n \in Nat, NEW a \in [1 .. n -> Int]
    PROVE  \E f \in [0 .. n -> Int] : f[0] = 0 /\ \A i \in 1 .. n : f[i] = f[i - 1] + a[i]
<1> DEFINE step == [p \in Int \X (1 .. n) |-> p[1] + a[p[2]]]
<1>1. step \in [Int \X (1 .. n) -> Int]
  OBVIOUS
<1>2. ASSUME NEW x \in Int, NEW i \in 1 .. n PROVE step[<<x, i>>] = x + a[i]
  OBVIOUS
<1> HIDE DEF step
<1>3. 0 \in Int
  OBVIOUS
<1>4. PICK f \in [0 .. n -> Int] : Recurs(f, 0, step, n)
  BY <1>1, <1>3, Recursion
<1>5. ASSUME NEW i \in 1 .. n PROVE f[i] = f[i - 1] + a[i]
  <2>1. f[i - 1] \in Int
    OBVIOUS
  <2>2. QED
    BY <1>2, <1>4, <2>1 DEF Recurs
<1>6. QED
  BY <1>4, <1>5 DEF Recurs

\* What is read from one, two or four bytes.
LEMMA FromLittleEndianIs ==
    ASSUME NEW n \in {1, 2, 4}, NEW bytes \in [1 .. n -> Int]
    PROVE  FromLittleEndian(bytes) =
             IF n = 1 THEN bytes[1] ELSE IF n = 2 THEN bytes[1] + 256 * bytes[2]
             ELSE bytes[1] + 256 * bytes[2] + 65536 * bytes[3] + (256 * 65536) * bytes[4]
<1> DEFINE P(g) == g = [i \in 0 .. Len(bytes) |-> IF i = 0 THEN 0 ELSE g[i - 1] + bytes[i] * 256 ^ (i - 1)]
           sum == CHOOSE g : P(g)
           place == [i \in 1 .. n |-> bytes[i] * 256 ^ (i - 1)]
<1>1. n \in Nat /\ Len(bytes) = n
  OBVIOUS
<1>2. place \in [1 .. n -> Int]
  <2> SUFFICES ASSUME NEW i \in 1 .. n PROVE bytes[i] * 256 ^ (i - 1) \in Int
    OBVIOUS
  <2>1. i = 1 \/ i = 2 \/ i = 3 \/ i = 4
    OBVIOUS
  <2>2. 256 ^ (i - 1) \in Int
    BY <2>1, Powers
  <2>3. bytes[i] \in Int
    OBVIOUS
  <2>4. QED
    BY <2>2, <2>3
<1> HIDE DEF place
<1>3. PICK f \in [0 .. n -> Int] : f[0] = 0 /\ \A i \in 1 .. n : f[i] = f[i - 1] + place[i]
  BY <1>1, <1>2, Sums
<1>6. f = [i \in 0 .. n |-> IF i = 0 THEN 0 ELSE f[i - 1] + bytes[i] * 256 ^ (i - 1)]
  <2>1. ASSUME NEW i \in 0 .. n
        PROVE  f[i] = IF i = 0 THEN 0 ELSE f[i - 1] + bytes[i] * 256 ^ (i - 1)
    <3>1. CASE i = 0
      BY <1>3, <3>1
    <3>2. CASE i # 0
      <4>1. i \in 1 .. n
        BY <3>2
      <4>2. place[i] = bytes[i] * 256 ^ (i - 1)
        BY <4>1 DEF place
      <4>3. QED
        BY <1>3, <3>2, <4>1, <4>2
    <3>3. QED
      BY <3>1, <3>2
  <2>2. f = [i \in 0 .. n |-> f[i]]
    OBVIOUS
  <2>3. QED
    BY <2>1, <2>2
<1>7. P(sum)
  <2>1. P(f)
    BY <1>1, <1>6
  <2> HIDE DEF P
  <2>2. QED
    BY <2>1 DEF sum
<1>8. sum[0] = 0 /\ \A i \in 1 .. n : sum[i] = sum[i - 1] + bytes[i] * 256 ^ (i - 1)
  <2>1. ASSUME NEW i \in 0 .. n
        PROVE  sum[i] = IF i = 0 THEN 0 ELSE sum[i - 1] + bytes[i] * 256 ^ (i - 1)
    BY <1>1, <1>7
  <2> HIDE DEF P
  <2>2. 0 \in 0 .. n /\ \A i \in 1 .. n : i \in 0 .. n /\ i # 0
    BY <1>1
  <2>3. QED
    BY <2>1, <2>2
<1>9. sum[1] = bytes[1]
  <2>1. 1 \in 1 .. n /\ bytes[1] \in Int
    OBVIOUS
  <2>2. sum[1] = sum[1 - 1] + bytes[1] * 256 ^ (1 - 1)
    BY ONLY <1>8, <2>1
  <2>3. QED
    BY <1>8, <2>1, <2>2, Powers
<1>10. n # 1 => sum[2] = bytes[1] + 256 * bytes[2]
  <2> SUFFICES ASSUME n # 1 PROVE sum[2] = bytes[1] + 256 * bytes[2]
    OBVIOUS
  <2>1. 2 \in 1 .. n /\ bytes[2] \in Int /\ bytes[1] \in Int
    OBVIOUS
  <2>2. sum[2] = sum[2 - 1] + bytes[2] * 256 ^ (2 - 1)
    BY ONLY <1>8, <2>1
  <2>3. QED
    BY <1>9, <2>1, <2>2, Powers
<1>11. n = 4 => sum[4] = bytes[1] + 256 * bytes[2] + 65536 * bytes[3] + (256 * 65536) * bytes[4]
  <2> SUFFICES ASSUME n = 4 PROVE sum[4] = bytes[1] + 256 * bytes[2] + 65536 * bytes[3] + (256 * 65536) * bytes[4]
    OBVIOUS
  <2>1. 3 \in 1 .. n /\ 4 \in 1 .. n /\ bytes[3] \in Int /\ bytes[4] \in Int /\ bytes[2] \in Int /\ bytes[1] \in Int
    OBVIOUS
  <2>2. sum[3] = sum[3 - 1] + bytes[3] * 256 ^ (3 - 1)
    BY ONLY <1>8, <2>1
  <2>3. sum[4] = sum[4 - 1] + bytes[4] * 256 ^ (4 - 1)
    BY ONLY <1>8, <2>1
  <2>4. sum[3] = bytes[1] + 256 * bytes[2] + 65536 * bytes[3]
    BY <1>10, <2>1, <2>2, Powers
  <2>5. QED
    BY <2>1, <2>3, <2>4, Powers
<1>12. FromLittleEndian(bytes) = sum[n]
  BY <1>1 DEF FromLittleEndian, sum
<1>13. QED
  BY <1>9, <1>10, <1>11, <1>12

\* An integer is read from its bytes as it was written.
LEMMA LittleEndianIs ==
    ASSUME NEW n \in {1, 2, 4}, NEW x, WithinBytes(x, n)
    PROVE  /\ LittleEndian(x, n) \in [1 .. n -> 0 .. 255]
           /\ LittleEndian(x, n) \in Seq(Int) /\ Len(LittleEndian(x, n)) = n
           /\ FromLittleEndian(LittleEndian(x, n)) = x
<1> DEFINE b == LittleEndian(x, n)
<1>1. x \in Nat
  BY DEF WithinBytes
<1>2. ASSUME NEW i \in 1 .. n PROVE b[i] = (x \div 256 ^ (i - 1)) % 256 /\ b[i] \in 0 .. 255
  <2>1. b[i] = (x \div 256 ^ (i - 1)) % 256
    BY DEF LittleEndian
  <2>2. i = 1 \/ i = 2 \/ i = 3 \/ i = 4
    OBVIOUS
  <2>3. \/ 256 ^ (i - 1) = 1 \/ 256 ^ (i - 1) = 256 \/ 256 ^ (i - 1) = 65536
        \/ 256 ^ (i - 1) = 256 * 65536
    <3>1. i = 1 => 256 ^ (i - 1) = 1
      BY Powers
    <3>2. i = 2 => 256 ^ (i - 1) = 256
      BY Powers
    <3>3. i = 3 => 256 ^ (i - 1) = 65536
      BY Powers
    <3>4. i = 4 => 256 ^ (i - 1) = 256 * 65536
      BY Powers
    <3>5. QED
      BY ONLY <2>2, <3>1, <3>2, <3>3, <3>4
  <2>4. (x \div 256 ^ (i - 1)) % 256 \in 0 .. 255
    BY <1>1, <2>3
  <2>5. QED
    BY <2>1, <2>4
<1>3. b \in [1 .. n -> 0 .. 255]
  BY <1>2 DEF LittleEndian
<1>4. b \in [1 .. n -> Int] /\ Len(b) = n /\ b \in Seq(Int)
  <2> HIDE DEF b
  <2>1. n \in Nat /\ 0 .. 255 \subseteq Int
    OBVIOUS
  <2>2. \A i \in 1 .. n : b[i] \in Int
    BY <1>2
  <2>4. DOMAIN b = 1 .. n /\ b = [i \in 1 .. n |-> b[i]]
    BY <1>3
  <2>3. QED
    BY <2>1, <2>2, <2>4
<1> HIDE DEF b
<1>5. b[1] = x % 256
  <2>1. 1 \in 1 .. n
    OBVIOUS
  <2>2. b[1] = (x \div 256 ^ (1 - 1)) % 256
    BY ONLY <1>2, <2>1
  <2>3. 256 ^ (1 - 1) = 1 /\ x \div 1 = x
    BY <1>1, Powers
  <2>4. QED
    BY <2>2, <2>3
<1>6. n # 1 => b[2] = (x \div 256) % 256
  <2>1. n # 1 => 2 \in 1 .. n
    OBVIOUS
  <2>2. n # 1 => b[2] = (x \div 256 ^ (2 - 1)) % 256
    BY ONLY <1>2, <2>1
  <2>3. 256 ^ (2 - 1) = 256
    BY Powers
  <2>4. QED
    BY <2>2, <2>3
<1>7. n = 4 => b[3] = (x \div 65536) % 256 /\ b[4] = (x \div (256 * 65536)) % 256
  <2>1. n = 4 => 3 \in 1 .. n /\ 4 \in 1 .. n
    OBVIOUS
  <2>2. n = 4 => b[3] = (x \div 256 ^ (3 - 1)) % 256 /\ b[4] = (x \div 256 ^ (4 - 1)) % 256
    BY ONLY <1>2, <2>1
  <2>3. 256 ^ (3 - 1) = 65536 /\ 256 ^ (4 - 1) = 256 * 65536
    BY Powers
  <2>4. QED
    BY <2>2, <2>3
<1>8. FromLittleEndian(b) = x
  <2>1. CASE n = 1
    <3>1. x < 256
      BY <2>1 DEF WithinBytes
    <3>2. FromLittleEndian(b) = b[1]
      BY <1>4, <2>1, FromLittleEndianIs
    <3>3. QED
      BY <1>1, <1>5, <3>1, <3>2
  <2>2. CASE n = 2
    <3>1. x < 65536
      BY <2>2 DEF WithinBytes
    <3>2. FromLittleEndian(b) = b[1] + 256 * b[2]
      BY <1>4, <2>2, FromLittleEndianIs
    <3>3. QED
      BY <1>1, <1>5, <1>6, <2>2, <3>1, <3>2
  <2>3. CASE n = 4
    <3>1. x < 65536 * 65536
      BY <2>3 DEF WithinBytes
    <3>2. FromLittleEndian(b) = b[1] + 256 * b[2] + 65536 * b[3] + (256 * 65536) * b[4]
      BY <1>4, <2>3, FromLittleEndianIs
    <3>3. b[1] = x % 256 /\ b[2] = (x \div 256) % 256 /\ b[3] = (x \div 65536) % 256
          /\ b[4] = (x \div (256 * 65536)) % 256
      BY <1>5, <1>6, <1>7, <2>3
    <3>4. QED
      BY <1>1, <3>1, <3>2, <3>3
  <2>4. QED
    BY <2>1, <2>2, <2>3
<1>9. QED
  BY <1>3, <1>4, <1>8 DEF b

\* Where parameters of a sequence pass a test, whatever is at these places.
LEMMA KeptIs ==
    ASSUME NEW n \in Nat, NEW s, DOMAIN s = 1 .. n, NEW keep
    PROVE  Filtered(n, keep, s) = Chosen(s, Places(n, keep))
<1> DEFINE X == {s[i] : i \in 1 .. n}
           t == [i \in 1 .. n |-> s[i]]
           p == Places(n, keep)
<1>1. t \in [1 .. n -> X] /\ \A i \in 1 .. n : t[i] = s[i]
  OBVIOUS
<1> HIDE DEF t, X
<1>2. p \in Seq(1 .. n) /\ Filtered(n, keep, t) = Chosen(t, p)
  <2>1. t \in [1 .. n -> X]
    BY <1>1
  <2>2. Filtered(n, keep, t) = Chosen(t, p)
    BY ONLY n \in Nat, <2>1, KeepIs, SMTT(60)
  <2>3. p \in Seq(1 .. n)
    BY ONLY n \in Nat, <2>1, KeepIs
  <2>4. QED
    BY <2>2, <2>3
<1> HIDE DEF p
<1>3. \A j \in 1 .. Len(p) : t[p[j]] = s[p[j]]
  BY <1>1, <1>2
<1>4. Chosen(t, p) = Chosen(s, p)
  BY <1>3 DEF Chosen
<1>5. Filtered(n, keep, t) = Filtered(n, keep, s)
  BY <1>1 DEF Filtered
<1>6. QED
  BY <1>2, <1>4, <1>5 DEF p

LEMMA PlacesAre ==
    ASSUME NEW n \in Nat, NEW keep
    PROVE  /\ Places(n, keep) \in Seq(1 .. n)
           /\ \A j \in 1 .. Len(Places(n, keep)) :
                Places(n, keep)[j] \in 1 .. n /\ keep[Places(n, keep)[j]]
<1> DEFINE s == [i \in 1 .. n |-> i]
           p == Places(n, keep)
<1>1. s \in [1 .. n -> 1 .. n]
  OBVIOUS
<1> HIDE DEF s
<1>2. p \in Seq(1 .. n) /\ \A j \in 1 .. Len(p) : keep[p[j]]
  <2> DEFINE X == 1 .. n
  <2>1. s \in [1 .. n -> X]
    BY <1>1
  <2> HIDE DEF X
  <2>2. QED
    BY <2>1, KeepIs
<1> HIDE DEF p
<1>3. \A j \in 1 .. Len(p) : p[j] \in 1 .. n
  BY <1>2
<1>4. QED
  BY <1>2, <1>3 DEF p

\* There is a largest of some numbers up to another one.
LEMMA MaxIs ==
    ASSUME NEW n \in Nat, NEW S \in SUBSET (0 .. n), S # {}
    PROVE  Max(S) \in S /\ \A y \in S : y <= Max(S)
<1> DEFINE R == {p \in Nat \X Nat : p[1] < p[2]}
           J == {n - x : x \in S}
<1>1. IsWellFoundedOn(R, Nat)
  BY NatLessThanWellFounded DEF OpToRel
<1>2. J \subseteq Nat /\ J # {}
  <2>1. \A x \in S : n - x \in Nat
    OBVIOUS
  <2>2. QED
    BY <2>1
<1>3. PICK d \in J : \A y \in J : ~ (<<y, d>> \in R)
  <2> HIDE DEF R, J
  <2> QED
    BY <1>1, <1>2, WFMin
<1>4. \A y \in J : d <= y
  <2> TAKE y \in J
  <2>1. y \in Nat /\ d \in Nat
    BY <1>2
  <2> HIDE DEF J
  <2>2. ~ (y < d)
    BY <1>3, <2>1
  <2>3. QED
    BY <2>1, <2>2
<1>5. PICK x \in S : d = n - x
  OBVIOUS
<1>6. \A y \in S : n - y \in J
  OBVIOUS
<1> HIDE DEF J
<1>7. \A y \in S : x >= y
  <2> TAKE y \in S
  <2>1. x \in Int /\ y \in Int /\ d <= n - y
    BY <1>4, <1>6
  <2>2. QED
    BY <1>5, <2>1
<1>8. Max(S) \in S /\ \A y \in S : Max(S) >= y
  <2>1. \E m \in S : \A y \in S : m >= y
    BY <1>7
  <2>2. QED
    BY <2>1 DEF Max
<1>9. QED
  BY <1>8

LEMMA BitsReturn ==
    ASSUME NEW S, S \subseteq DOMAIN ResultReportConfiguration
    PROVE  Bits(S) \in 0 .. 15 /\ Reports(Bits(S)) = S
<1> DEFINE a == IF "TofReport" \in S THEN 1 ELSE 0
           b == IF "AoAAzimuthReport" \in S THEN 2 ELSE 0
           c == IF "AoAElevationReport" \in S THEN 4 ELSE 0
           d == IF "AoAFoMReport" \in S THEN 8 ELSE 0
           bits == a + b + c + d
<1>1. /\ DOMAIN ResultReportConfiguration = {"TofReport", "AoAAzimuthReport", "AoAElevationReport", "AoAFoMReport"}
      /\ ResultReportConfiguration["TofReport"] = 1
      /\ ResultReportConfiguration["AoAAzimuthReport"] = 2
      /\ ResultReportConfiguration["AoAElevationReport"] = 4
      /\ ResultReportConfiguration["AoAFoMReport"] = 8
  BY DEF ResultReportConfiguration
<1>2. Bits(S) = bits
  BY <1>1 DEF Bits
<1>3. /\ a \in {0, 1} /\ b \in {0, 2} /\ c \in {0, 4} /\ d \in {0, 8}
      /\ a = 1 <=> "TofReport" \in S
      /\ b = 2 <=> "AoAAzimuthReport" \in S
      /\ c = 4 <=> "AoAElevationReport" \in S
      /\ d = 8 <=> "AoAFoMReport" \in S
  OBVIOUS
<1> HIDE DEF a, b, c, d
<1>4. /\ bits \in 0 .. 15
      /\ (bits \div 1) % 2 = 1 <=> a = 1
      /\ (bits \div 2) % 2 = 1 <=> b = 2
      /\ (bits \div 4) % 2 = 1 <=> c = 4
      /\ (bits \div 8) % 2 = 1 <=> d = 8
  BY <1>3
<1> HIDE DEF bits
<1>5. Reports(bits) = {r \in DOMAIN ResultReportConfiguration : (bits \div ResultReportConfiguration[r]) % 2 = 1}
  BY DEF Reports
<1>6. \A r \in DOMAIN ResultReportConfiguration : (bits \div ResultReportConfiguration[r]) % 2 = 1 <=> r \in S
  BY <1>1, <1>3, <1>4
<1>7. Reports(bits) = S
  BY <1>5, <1>6
<1>8. QED
  BY <1>2, <1>4, <1>7

-----------------------------------------------------------------------------
(* Enumerations, and the tables between them.                              *)

\* Every enumerator has a number of its own, between two numbers.
Numbered(e, low, high) ==
    IsInjective(e) /\ \A n \in DOMAIN e : e[n] \in low .. high

\* As many names as there are numbers from a first to a last one.
AsMany(names, first, last) ==
    first \in Int /\ last \in Int /\ DOMAIN names = 1 .. (last - first + 1)

\* Two intervals of numbers, the first one before the second.
Apart(low, middle, above, high) ==
    /\ {low, middle, above, high} \subseteq Int
    /\ low <= middle /\ middle < above /\ above <= high

LEMMA EnumerationIs ==
    ASSUME NEW names, NEW first, NEW last, AsMany(names, first, last)
    PROVE  Numbered(Enumeration(names, first), first, last)
<1> USE DEF AsMany
<1> DEFINE place(n) == CHOOSE i \in DOMAIN names : names[i] = n
           e == Enumeration(names, first)
<1>1. ASSUME NEW n \in Range(names)
      PROVE  place(n) \in 1 .. (last - first + 1) /\ names[place(n)] = n
  <2>1. \E i \in DOMAIN names : names[i] = n
    BY DEF Range
  <2>2. QED
    BY <2>1
<1>2. DOMAIN e = Range(names) /\ \A n \in Range(names) : e[n] = first - 1 + place(n)
  BY DEF Enumeration
<1> HIDE DEF place, e
<1>3. ASSUME NEW a \in Range(names), NEW b \in Range(names), e[a] = e[b] PROVE a = b
  <2>1. place(a) \in Int /\ place(b) \in Int
    BY <1>1
  <2>2. place(a) = place(b)
    BY <1>2, <1>3, <2>1
  <2>3. QED
    BY <1>1, <2>2
<1>4. ASSUME NEW a \in Range(names) PROVE e[a] \in first .. last
  BY <1>1, <1>2
<1>5. QED
  BY <1>2, <1>3, <1>4 DEF e, Numbered, IsInjective

LEMMA EnumerationDomain ==
    ASSUME NEW names, NEW first
    PROVE  DOMAIN Enumeration(names, first) = Range(names)
BY DEF Enumeration

\* The first enumerator, if it is there once, has the first number.
LEMMA EnumerationFirst ==
    ASSUME NEW names, NEW first \in Int, 1 \in DOMAIN names,
           \A j \in DOMAIN names : names[j] = names[1] => j = 1
    PROVE  Enumeration(names, first)[names[1]] = first
<1>1. names[1] \in Range(names)
  BY DEF Range
<1>2. (CHOOSE i \in DOMAIN names : names[i] = names[1]) = 1
  OBVIOUS
<1>3. QED
  BY <1>1, <1>2 DEF Enumeration

LEMMA OverIs ==
    ASSUME NEW f, NEW g, NEW low, NEW middle, NEW above, NEW high,
           Apart(low, middle, above, high), Numbered(f, low, middle), Numbered(g, above, high)
    PROVE  Numbered(Over(f, g), low, high)
<1> USE DEF Apart
<1> DEFINE o == Over(f, g)
<1>1. DOMAIN o = DOMAIN f \cup DOMAIN g
  BY DEF Over
<1>2. \A n \in DOMAIN f : o[n] = f[n] /\ o[n] \in low .. middle
  BY DEF Over, Numbered
<1>3. \A n \in DOMAIN g \ DOMAIN f : o[n] = g[n] /\ o[n] \in above .. high
  BY DEF Over, Numbered
<1> HIDE DEF o
<1>4. ASSUME NEW a \in DOMAIN o, NEW b \in DOMAIN o, o[a] = o[b] PROVE a = b
  <2>1. CASE a \in DOMAIN f /\ b \in DOMAIN f
    BY <1>2, <1>4, <2>1 DEF Numbered, IsInjective
  <2>2. CASE a \notin DOMAIN f /\ b \notin DOMAIN f
    BY <1>1, <1>3, <1>4, <2>2 DEF Numbered, IsInjective
  <2>3. CASE a \in DOMAIN f /\ b \notin DOMAIN f
    BY <1>1, <1>2, <1>3, <1>4, <2>3
  <2>4. CASE a \notin DOMAIN f /\ b \in DOMAIN f
    BY <1>1, <1>2, <1>3, <1>4, <2>4
  <2>5. QED
    BY <2>1, <2>2, <2>3, <2>4
<1>5. \A a \in DOMAIN o : o[a] \in low .. high
  BY <1>1, <1>2, <1>3
<1>6. QED
  BY <1>4, <1>5 DEF o, Numbered, IsInjective

LEMMA OverDomain ==
    ASSUME NEW f, NEW g
    PROVE  /\ DOMAIN Over(f, g) = DOMAIN f \cup DOMAIN g
           /\ \A n \in DOMAIN f : Over(f, g)[n] = f[n]
           /\ \A n \in DOMAIN g \ DOMAIN f : Over(f, g)[n] = g[n]
BY DEF Over

LEMMA NameOfIs ==
    ASSUME NEW e, NEW low, NEW high, Numbered(e, low, high), NEW n \in DOMAIN e
    PROVE  NameOf(e, e[n]) = n
BY DEF NameOf, Numbered, IsInjective

\* A table and another one that leads back.
Inverses(from, to, numbers) ==
    \A x \in DOMAIN from : from[x] \in DOMAIN numbers /\ to[from[x]] = x

LEMMA ThereAndBack ==
    ASSUME NEW from, NEW to, NEW numbers, NEW low, NEW high,
           Numbered(numbers, low, high), Inverses(from, to, numbers), NEW x \in DOMAIN from
    PROVE  /\ To(to, numbers, From(from, numbers, x)) = x
           /\ From(from, numbers, x) \in low .. high
<1>1. NameOf(numbers, numbers[from[x]]) = from[x]
  BY NameOfIs DEF Inverses
<1>2. QED
  BY <1>1 DEF From, To, Inverses, Numbered

\* The numbers of the driver interface.
LEMMA SessionTypeNumbers == Numbered(UWB_SESSION_TYPE, 0, 255)
BY DEF Numbered, IsInjective, UWB_SESSION_TYPE

LEMMA DeviceStateNumbers == Numbered(UWB_DEVICE_STATE, 0, 255)
BY DEF Numbered, IsInjective, UWB_DEVICE_STATE

LEMMA LineOfSightNumbers == Numbered(UWB_LINE_OF_SIGHT_INDICATOR, 0, 255)
BY DEF Numbered, IsInjective, UWB_LINE_OF_SIGHT_INDICATOR

LEMMA MeasurementTypeNumbers == Numbered(UWB_RANGING_MEASUREMENT_TYPE, 0, 255)
BY DEF Numbered, IsInjective, UWB_RANGING_MEASUREMENT_TYPE

LEMMA MulticastActionNumbers ==
    /\ Numbered(UWB_MULTICAST_ACTION, 0, 1)
    /\ DOMAIN UWB_MULTICAST_ACTION =
         {"ADD_SHORT_ADDRESS", "DELETE_SHORT_ADDRESS"}
<1> DEFINE names ==
             <<"ADD_SHORT_ADDRESS", "DELETE_SHORT_ADDRESS">>
<1>1. AsMany(names, 0, 1)
  BY DEF AsMany
<1>2. Range(names) =
         {"ADD_SHORT_ADDRESS", "DELETE_SHORT_ADDRESS"}
  BY SMT DEF Range
<1>3. UWB_MULTICAST_ACTION = Enumeration(names, 0)
  BY DEF UWB_MULTICAST_ACTION
<1> HIDE DEF names
<1>4. Numbered(Enumeration(names, 0), 0, 1)
  BY <1>1, EnumerationIs
<1>5. DOMAIN Enumeration(names, 0) = Range(names)
  BY EnumerationDomain
<1>6. QED
  BY <1>2, <1>3, <1>4, <1>5

LEMMA MulticastStatusNumbers ==
    /\ Numbered(UWB_MULTICAST_STATUS, 0, 3)
    /\ DOMAIN UWB_MULTICAST_STATUS =
         {"OK_MULTICAST_LIST_UPDATE", "ERROR_MULTICAST_LIST_FULL", "ERROR_KEY_FETCH_FAIL",
          "ERROR_SUB_SESSION_ID_NOT_FOUND"}
<1> DEFINE names ==
             <<"OK_MULTICAST_LIST_UPDATE", "ERROR_MULTICAST_LIST_FULL",
               "ERROR_KEY_FETCH_FAIL", "ERROR_SUB_SESSION_ID_NOT_FOUND">>
<1>1. AsMany(names, 0, 3)
  BY DEF AsMany
<1>2. Range(names) =
         {"OK_MULTICAST_LIST_UPDATE", "ERROR_MULTICAST_LIST_FULL", "ERROR_KEY_FETCH_FAIL",
          "ERROR_SUB_SESSION_ID_NOT_FOUND"}
  BY SMT DEF Range
<1>3. UWB_MULTICAST_STATUS = Enumeration(names, 0)
  BY DEF UWB_MULTICAST_STATUS
<1> HIDE DEF names
<1>4. Numbered(Enumeration(names, 0), 0, 3)
  BY <1>1, EnumerationIs
<1>5. DOMAIN Enumeration(names, 0) = Range(names)
  BY EnumerationDomain
<1>6. QED
  BY <1>2, <1>3, <1>4, <1>5

LEMMA SessionStateNumbers ==
    /\ Numbered(UWB_SESSION_STATE, 0, 3)
    /\ DOMAIN UWB_SESSION_STATE =
         {"INIT", "DEINIT", "ACTIVE", "IDLE"}
<1> DEFINE names ==
             <<"INIT", "DEINIT", "ACTIVE", "IDLE">>
<1>1. AsMany(names, 0, 3)
  BY DEF AsMany
<1>2. Range(names) =
         {"INIT", "DEINIT", "ACTIVE", "IDLE"}
  BY SMT DEF Range
<1>3. UWB_SESSION_STATE = Enumeration(names, 0)
  BY DEF UWB_SESSION_STATE
<1> HIDE DEF names
<1>4. Numbered(Enumeration(names, 0), 0, 3)
  BY <1>1, EnumerationIs
<1>5. DOMAIN Enumeration(names, 0) = Range(names)
  BY EnumerationDomain
<1>6. QED
  BY <1>2, <1>3, <1>4, <1>5

LEMMA AddressModeNumbers ==
    /\ Numbered(UWB_MAC_ADDRESS_MODE_INDICATOR, 0, 1)
    /\ DOMAIN UWB_MAC_ADDRESS_MODE_INDICATOR =
         {"SHORT", "EXTENDED"}
<1> DEFINE names ==
             <<"SHORT", "EXTENDED">>
<1>1. AsMany(names, 0, 1)
  BY DEF AsMany
<1>2. Range(names) =
         {"SHORT", "EXTENDED"}
  BY SMT DEF Range
<1>3. UWB_MAC_ADDRESS_MODE_INDICATOR = Enumeration(names, 0)
  BY DEF UWB_MAC_ADDRESS_MODE_INDICATOR
<1> HIDE DEF names
<1>4. Numbered(Enumeration(names, 0), 0, 1)
  BY <1>1, EnumerationIs
<1>5. DOMAIN Enumeration(names, 0) = Range(names)
  BY EnumerationDomain
<1>6. QED
  BY <1>2, <1>3, <1>4, <1>5

LEMMA DeviceParameterNumbers ==
    /\ Numbered(UWB_DEVICE_CONFIG_PARAM_TYPE, 0, 1)
    /\ DOMAIN UWB_DEVICE_CONFIG_PARAM_TYPE =
         {"DEVICE_STATE", "LOW_POWER_MODE"}
<1> DEFINE names ==
             <<"DEVICE_STATE", "LOW_POWER_MODE">>
<1>1. AsMany(names, 0, 1)
  BY DEF AsMany
<1>2. Range(names) =
         {"DEVICE_STATE", "LOW_POWER_MODE"}
  BY SMT DEF Range
<1>3. UWB_DEVICE_CONFIG_PARAM_TYPE = Enumeration(names, 0)
  BY DEF UWB_DEVICE_CONFIG_PARAM_TYPE
<1> HIDE DEF names
<1>4. Numbered(Enumeration(names, 0), 0, 1)
  BY <1>1, EnumerationIs
<1>5. DOMAIN Enumeration(names, 0) = Range(names)
  BY EnumerationDomain
<1>6. QED
  BY <1>2, <1>3, <1>4, <1>5

LEMMA NotificationNumbers ==
    /\ Numbered(UWB_NOTIFICATION_TYPE, 0, 4)
    /\ DOMAIN UWB_NOTIFICATION_TYPE =
         {"DEVICE_STATUS", "GENERIC_ERROR", "SESSION_STATUS",
          "SESSION_UPDATE_CONTROLLER_MULTICAST_LIST", "RANGING_DATA"}
<1> DEFINE names ==
             <<"DEVICE_STATUS", "GENERIC_ERROR", "SESSION_STATUS",
               "SESSION_UPDATE_CONTROLLER_MULTICAST_LIST", "RANGING_DATA">>
<1>1. AsMany(names, 0, 4)
  BY DEF AsMany
<1>2. Range(names) =
         {"DEVICE_STATUS", "GENERIC_ERROR", "SESSION_STATUS",
          "SESSION_UPDATE_CONTROLLER_MULTICAST_LIST", "RANGING_DATA"}
  BY SMT DEF Range
<1>3. UWB_NOTIFICATION_TYPE = Enumeration(names, 0)
  BY DEF UWB_NOTIFICATION_TYPE
<1> HIDE DEF names
<1>4. Numbered(Enumeration(names, 0), 0, 4)
  BY <1>1, EnumerationIs
<1>5. DOMAIN Enumeration(names, 0) = Range(names)
  BY EnumerationDomain
<1>6. QED
  BY <1>2, <1>3, <1>4, <1>5

LEMMA ReasonNumbers ==
    /\ Numbered(UWB_SESSION_REASON_CODE, 0, 37)
    /\ DOMAIN UWB_SESSION_REASON_CODE =
         {"STATE_CHANGE_WITH_SESSION_MANAGEMENT_COMMANDS",
          "MAX_RANGING_ROUND_RETRY_COUNT_REACHED", "MAX_NUMBER_OF_MEASUREMENTS_REACHED",
          "ERROR_SLOT_LENGTH_NOT_SUPPORTED", "ERROR_INSUFFICIENT_SLOTS_PER_RR",
          "ERROR_MAC_ADDRESS_MODE_NOT_SUPPORTED", "ERROR_INVALID_RANGING_INTERVAL",
          "ERROR_INVALID_STS_CONFIG", "ERROR_INVALID_RFRAME_CONFIG"}
<1> DEFINE
      n1 == <<"STATE_CHANGE_WITH_SESSION_MANAGEMENT_COMMANDS",
              "MAX_RANGING_ROUND_RETRY_COUNT_REACHED", "MAX_NUMBER_OF_MEASUREMENTS_REACHED">>
      e1 == Enumeration(n1, 0)
      n2 == <<"ERROR_SLOT_LENGTH_NOT_SUPPORTED", "ERROR_INSUFFICIENT_SLOTS_PER_RR",
              "ERROR_MAC_ADDRESS_MODE_NOT_SUPPORTED", "ERROR_INVALID_RANGING_INTERVAL",
              "ERROR_INVALID_STS_CONFIG", "ERROR_INVALID_RFRAME_CONFIG">>
      e2 == Enumeration(n2, 32)
      o1 == Over(e1, e2)
<1>1. Numbered(e1, 0, 2) /\ DOMAIN e1 =
         {"STATE_CHANGE_WITH_SESSION_MANAGEMENT_COMMANDS",
          "MAX_RANGING_ROUND_RETRY_COUNT_REACHED", "MAX_NUMBER_OF_MEASUREMENTS_REACHED"}
  <2>1. AsMany(n1, 0, 2)
    BY DEF AsMany
  <2>2. Range(n1) =
         {"STATE_CHANGE_WITH_SESSION_MANAGEMENT_COMMANDS",
          "MAX_RANGING_ROUND_RETRY_COUNT_REACHED", "MAX_NUMBER_OF_MEASUREMENTS_REACHED"}
    BY SMT DEF Range
  <2> HIDE DEF n1
  <2>3. Numbered(e1, 0, 2)
    BY <2>1, EnumerationIs
  <2>4. DOMAIN e1 = Range(n1)
    BY EnumerationDomain
  <2>5. QED
    BY <2>2, <2>3, <2>4
<1>2. Numbered(e2, 32, 37) /\ DOMAIN e2 =
         {"ERROR_SLOT_LENGTH_NOT_SUPPORTED", "ERROR_INSUFFICIENT_SLOTS_PER_RR",
          "ERROR_MAC_ADDRESS_MODE_NOT_SUPPORTED", "ERROR_INVALID_RANGING_INTERVAL",
          "ERROR_INVALID_STS_CONFIG", "ERROR_INVALID_RFRAME_CONFIG"}
  <2>1. AsMany(n2, 32, 37)
    BY DEF AsMany
  <2>2. Range(n2) =
         {"ERROR_SLOT_LENGTH_NOT_SUPPORTED", "ERROR_INSUFFICIENT_SLOTS_PER_RR",
          "ERROR_MAC_ADDRESS_MODE_NOT_SUPPORTED", "ERROR_INVALID_RANGING_INTERVAL",
          "ERROR_INVALID_STS_CONFIG", "ERROR_INVALID_RFRAME_CONFIG"}
    BY SMT DEF Range
  <2> HIDE DEF n2
  <2>3. Numbered(e2, 32, 37)
    BY <2>1, EnumerationIs
  <2>4. DOMAIN e2 = Range(n2)
    BY EnumerationDomain
  <2>5. QED
    BY <2>2, <2>3, <2>4
<1>3. UWB_SESSION_REASON_CODE = o1
  BY DEF UWB_SESSION_REASON_CODE
<1> HIDE DEF e1, e2
<1>4. Numbered(o1, 0, 37) /\ DOMAIN o1 = DOMAIN e1 \cup DOMAIN e2
  <2>1. Apart(0, 2, 32, 37)
    BY DEF Apart
  <2>2. QED
    BY <2>1, <1>1, <1>2, OverIs, OverDomain
<1> HIDE DEF o1
<1>5. DOMAIN o1 = DOMAIN e1 \cup DOMAIN e2
  BY <1>4
<1>6. QED
  BY <1>1, <1>2, <1>3, <1>4, <1>5

LEMMA StatusNumbers ==
    /\ Numbered(UWB_STATUS, 0, 39)
    /\ DOMAIN UWB_STATUS =
         {"OK", "REJECTED", "FAILED", "SYNTAX_ERROR", "INVALID_PARAM", "INVALID_RANGE",
          "INVALID_MESSAGE_SIZE", "UNKNOWN_GID", "UNKNOWN_OID", "READ_ONLY", "COMMAND_RETRY",
          "ERROR_SESSION_NOT_EXIST", "ERROR_SESSION_DUPLICATE", "ERROR_SESSION_ACTIVE",
          "ERROR_MAX_SESSIONS_EXCEEDED", "ERROR_SESSION_NOT_CONFIGURED",
          "ERROR_ACTIVE_SESSIONS_ONGOING", "ERROR_MULTICAST_LIST_FULL",
          "ERROR_ADDRESS_NOT_FOUND", "ERROR_ADDRESS_ALREADY_PRESENT", "RANGING_TX_FAILED",
          "RANGING_RX_TIMEOUT", "RANGING_RX_PHY_DEC_FAILED", "RANGING_RX_PHY_TOA_FAILED",
          "RANGING_RX_PHY_STS_FAILED", "RANGING_RX_MAC_DEC_FAILED",
          "RANGING_RX_MAC_IE_DEC_FAILED", "RANGING_RX_MAC_IE_MISSING"}
<1> DEFINE
      n1 == <<"OK", "REJECTED", "FAILED", "SYNTAX_ERROR", "INVALID_PARAM", "INVALID_RANGE",
              "INVALID_MESSAGE_SIZE", "UNKNOWN_GID", "UNKNOWN_OID", "READ_ONLY",
              "COMMAND_RETRY">>
      e1 == Enumeration(n1, 0)
      n2 == <<"ERROR_SESSION_NOT_EXIST", "ERROR_SESSION_DUPLICATE", "ERROR_SESSION_ACTIVE",
              "ERROR_MAX_SESSIONS_EXCEEDED", "ERROR_SESSION_NOT_CONFIGURED",
              "ERROR_ACTIVE_SESSIONS_ONGOING", "ERROR_MULTICAST_LIST_FULL",
              "ERROR_ADDRESS_NOT_FOUND", "ERROR_ADDRESS_ALREADY_PRESENT">>
      e2 == Enumeration(n2, 17)
      n3 == <<"RANGING_TX_FAILED", "RANGING_RX_TIMEOUT", "RANGING_RX_PHY_DEC_FAILED",
              "RANGING_RX_PHY_TOA_FAILED", "RANGING_RX_PHY_STS_FAILED",
              "RANGING_RX_MAC_DEC_FAILED", "RANGING_RX_MAC_IE_DEC_FAILED",
              "RANGING_RX_MAC_IE_MISSING">>
      e3 == Enumeration(n3, 32)
      o2 == Over(e2, e3)
      o1 == Over(e1, o2)
<1>1. Numbered(e1, 0, 10) /\ DOMAIN e1 =
         {"OK", "REJECTED", "FAILED", "SYNTAX_ERROR", "INVALID_PARAM", "INVALID_RANGE",
          "INVALID_MESSAGE_SIZE", "UNKNOWN_GID", "UNKNOWN_OID", "READ_ONLY", "COMMAND_RETRY"}
  <2>1. AsMany(n1, 0, 10)
    BY DEF AsMany
  <2>2. Range(n1) =
         {"OK", "REJECTED", "FAILED", "SYNTAX_ERROR", "INVALID_PARAM", "INVALID_RANGE",
          "INVALID_MESSAGE_SIZE", "UNKNOWN_GID", "UNKNOWN_OID", "READ_ONLY", "COMMAND_RETRY"}
    BY SMT DEF Range
  <2> HIDE DEF n1
  <2>3. Numbered(e1, 0, 10)
    BY <2>1, EnumerationIs
  <2>4. DOMAIN e1 = Range(n1)
    BY EnumerationDomain
  <2>5. QED
    BY <2>2, <2>3, <2>4
<1>2. Numbered(e2, 17, 25) /\ DOMAIN e2 =
         {"ERROR_SESSION_NOT_EXIST", "ERROR_SESSION_DUPLICATE", "ERROR_SESSION_ACTIVE",
          "ERROR_MAX_SESSIONS_EXCEEDED", "ERROR_SESSION_NOT_CONFIGURED",
          "ERROR_ACTIVE_SESSIONS_ONGOING", "ERROR_MULTICAST_LIST_FULL",
          "ERROR_ADDRESS_NOT_FOUND", "ERROR_ADDRESS_ALREADY_PRESENT"}
  <2>1. AsMany(n2, 17, 25)
    BY DEF AsMany
  <2>2. Range(n2) =
         {"ERROR_SESSION_NOT_EXIST", "ERROR_SESSION_DUPLICATE", "ERROR_SESSION_ACTIVE",
          "ERROR_MAX_SESSIONS_EXCEEDED", "ERROR_SESSION_NOT_CONFIGURED",
          "ERROR_ACTIVE_SESSIONS_ONGOING", "ERROR_MULTICAST_LIST_FULL",
          "ERROR_ADDRESS_NOT_FOUND", "ERROR_ADDRESS_ALREADY_PRESENT"}
    BY SMT DEF Range
  <2> HIDE DEF n2
  <2>3. Numbered(e2, 17, 25)
    BY <2>1, EnumerationIs
  <2>4. DOMAIN e2 = Range(n2)
    BY EnumerationDomain
  <2>5. QED
    BY <2>2, <2>3, <2>4
<1>3. Numbered(e3, 32, 39) /\ DOMAIN e3 =
         {"RANGING_TX_FAILED", "RANGING_RX_TIMEOUT", "RANGING_RX_PHY_DEC_FAILED",
          "RANGING_RX_PHY_TOA_FAILED", "RANGING_RX_PHY_STS_FAILED",
          "RANGING_RX_MAC_DEC_FAILED", "RANGING_RX_MAC_IE_DEC_FAILED",
          "RANGING_RX_MAC_IE_MISSING"}
  <2>1. AsMany(n3, 32, 39)
    BY DEF AsMany
  <2>2. Range(n3) =
         {"RANGING_TX_FAILED", "RANGING_RX_TIMEOUT", "RANGING_RX_PHY_DEC_FAILED",
          "RANGING_RX_PHY_TOA_FAILED", "RANGING_RX_PHY_STS_FAILED",
          "RANGING_RX_MAC_DEC_FAILED", "RANGING_RX_MAC_IE_DEC_FAILED",
          "RANGING_RX_MAC_IE_MISSING"}
    BY SMT DEF Range
  <2> HIDE DEF n3
  <2>3. Numbered(e3, 32, 39)
    BY <2>1, EnumerationIs
  <2>4. DOMAIN e3 = Range(n3)
    BY EnumerationDomain
  <2>5. QED
    BY <2>2, <2>3, <2>4
<1>4. UWB_STATUS = o1
  BY DEF UWB_STATUS
<1> HIDE DEF e1, e2, e3
<1>5. Numbered(o2, 17, 39) /\ DOMAIN o2 = DOMAIN e2 \cup DOMAIN e3
  <2>1. Apart(17, 25, 32, 39)
    BY DEF Apart
  <2>2. QED
    BY <2>1, <1>2, <1>3, OverIs, OverDomain
<1> HIDE DEF o2
<1>6. Numbered(o1, 0, 39) /\ DOMAIN o1 = DOMAIN e1 \cup DOMAIN o2
  <2>1. Apart(0, 10, 17, 39)
    BY DEF Apart
  <2>2. QED
    BY <2>1, <1>1, <1>5, OverIs, OverDomain
<1> HIDE DEF o1
<1>7. DOMAIN o1 = DOMAIN e1 \cup DOMAIN e2 \cup DOMAIN e3
  BY <1>5, <1>6
<1>8. QED
  BY <1>1, <1>2, <1>3, <1>4, <1>6, <1>7

LEMMA ParameterNumbers ==
    /\ Numbered(UWB_APP_CONFIG_PARAM_TYPE, 0, 53)
    /\ DOMAIN UWB_APP_CONFIG_PARAM_TYPE =
         {"DEVICE_TYPE", "RANGING_ROUND_USAGE", "STS_CONFIG", "MULTI_NODE_MODE",
          "CHANNEL_NUMBER", "NUMBER_OF_CONTROLEES", "DEVICE_MAC_ADDRESS", "DST_MAC_ADDRESS",
          "SLOT_DURATION", "RANGING_INTERVAL", "STS_INDEX", "MAC_FCS_TYPE",
          "RANGING_ROUND_CONTROL", "AOA_RESULT_REQ", "RANGE_DATA_NTF_CONFIG",
          "RANGE_DATA_NTF_PROXIMITY_NEAR", "RANGE_DATA_NTF_PROXIMITY_FAR", "DEVICE_ROLE",
          "RFRAME_CONFIG", "PREAMBLE_CODE_INDEX", "SFD_ID", "PSDU_DATA_RATE",
          "PREAMBLE_DURATION", "RANGING_TIME_STRUCT", "SLOTS_PER_RR",
          "TX_ADAPTIVE_PAYLOAD_POWER", "RESPONDER_SLOT_INDEX", "PRF_MODE", "SCHEDULED_MODE",
          "KEY_ROTATION", "KEY_ROTATION_RATE", "SESSION_PRIORITY", "MAC_ADDRESS_MODE",
          "VENDOR_ID", "STATIC_STS_IV", "NUMBER_OF_STS_SEGMENTS", "MAX_RR_RETRY",
          "UWB_INITIATION_TIME", "HOPPING_MODE", "BLOCK_STRIDE_LENGTH",
          "RESULT_REPORT_CONFIG", "IN_BAND_TERMINATION_ATTEMPT_COUNT", "SUB_SESSION_ID",
          "BPRF_PHR_DATA_RATE", "MAX_NUMBER_OF_MEASUREMENTS", "STS_LENGTH"}
<1> DEFINE
      n1 == <<"DEVICE_TYPE", "RANGING_ROUND_USAGE", "STS_CONFIG", "MULTI_NODE_MODE",
              "CHANNEL_NUMBER", "NUMBER_OF_CONTROLEES", "DEVICE_MAC_ADDRESS",
              "DST_MAC_ADDRESS", "SLOT_DURATION", "RANGING_INTERVAL", "STS_INDEX",
              "MAC_FCS_TYPE", "RANGING_ROUND_CONTROL", "AOA_RESULT_REQ",
              "RANGE_DATA_NTF_CONFIG", "RANGE_DATA_NTF_PROXIMITY_NEAR",
              "RANGE_DATA_NTF_PROXIMITY_FAR", "DEVICE_ROLE", "RFRAME_CONFIG">>
      e1 == Enumeration(n1, 0)
      n2 == <<"PREAMBLE_CODE_INDEX", "SFD_ID", "PSDU_DATA_RATE", "PREAMBLE_DURATION">>
      e2 == Enumeration(n2, 20)
      n3 == <<"RANGING_TIME_STRUCT", "SLOTS_PER_RR", "TX_ADAPTIVE_PAYLOAD_POWER">>
      e3 == Enumeration(n3, 26)
      n4 == <<"RESPONDER_SLOT_INDEX", "PRF_MODE">>
      e4 == Enumeration(n4, 30)
      n5 == <<"SCHEDULED_MODE", "KEY_ROTATION", "KEY_ROTATION_RATE", "SESSION_PRIORITY",
              "MAC_ADDRESS_MODE", "VENDOR_ID", "STATIC_STS_IV", "NUMBER_OF_STS_SEGMENTS",
              "MAX_RR_RETRY", "UWB_INITIATION_TIME", "HOPPING_MODE", "BLOCK_STRIDE_LENGTH",
              "RESULT_REPORT_CONFIG", "IN_BAND_TERMINATION_ATTEMPT_COUNT", "SUB_SESSION_ID",
              "BPRF_PHR_DATA_RATE", "MAX_NUMBER_OF_MEASUREMENTS">>
      e5 == Enumeration(n5, 34)
      e6 == [STS_LENGTH |-> 53]
      o5 == Over(e5, e6)
      o4 == Over(e4, o5)
      o3 == Over(e3, o4)
      o2 == Over(e2, o3)
      o1 == Over(e1, o2)
<1>1. Numbered(e1, 0, 18) /\ DOMAIN e1 =
         {"DEVICE_TYPE", "RANGING_ROUND_USAGE", "STS_CONFIG", "MULTI_NODE_MODE",
          "CHANNEL_NUMBER", "NUMBER_OF_CONTROLEES", "DEVICE_MAC_ADDRESS", "DST_MAC_ADDRESS",
          "SLOT_DURATION", "RANGING_INTERVAL", "STS_INDEX", "MAC_FCS_TYPE",
          "RANGING_ROUND_CONTROL", "AOA_RESULT_REQ", "RANGE_DATA_NTF_CONFIG",
          "RANGE_DATA_NTF_PROXIMITY_NEAR", "RANGE_DATA_NTF_PROXIMITY_FAR", "DEVICE_ROLE",
          "RFRAME_CONFIG"}
  <2>1. AsMany(n1, 0, 18)
    BY DEF AsMany
  <2>2. Range(n1) =
         {"DEVICE_TYPE", "RANGING_ROUND_USAGE", "STS_CONFIG", "MULTI_NODE_MODE",
          "CHANNEL_NUMBER", "NUMBER_OF_CONTROLEES", "DEVICE_MAC_ADDRESS", "DST_MAC_ADDRESS",
          "SLOT_DURATION", "RANGING_INTERVAL", "STS_INDEX", "MAC_FCS_TYPE",
          "RANGING_ROUND_CONTROL", "AOA_RESULT_REQ", "RANGE_DATA_NTF_CONFIG",
          "RANGE_DATA_NTF_PROXIMITY_NEAR", "RANGE_DATA_NTF_PROXIMITY_FAR", "DEVICE_ROLE",
          "RFRAME_CONFIG"}
    BY SMT DEF Range
  <2> HIDE DEF n1
  <2>3. Numbered(e1, 0, 18)
    BY <2>1, EnumerationIs
  <2>4. DOMAIN e1 = Range(n1)
    BY EnumerationDomain
  <2>5. QED
    BY <2>2, <2>3, <2>4
<1>2. Numbered(e2, 20, 23) /\ DOMAIN e2 =
         {"PREAMBLE_CODE_INDEX", "SFD_ID", "PSDU_DATA_RATE", "PREAMBLE_DURATION"}
  <2>1. AsMany(n2, 20, 23)
    BY DEF AsMany
  <2>2. Range(n2) =
         {"PREAMBLE_CODE_INDEX", "SFD_ID", "PSDU_DATA_RATE", "PREAMBLE_DURATION"}
    BY SMT DEF Range
  <2> HIDE DEF n2
  <2>3. Numbered(e2, 20, 23)
    BY <2>1, EnumerationIs
  <2>4. DOMAIN e2 = Range(n2)
    BY EnumerationDomain
  <2>5. QED
    BY <2>2, <2>3, <2>4
<1>3. Numbered(e3, 26, 28) /\ DOMAIN e3 =
         {"RANGING_TIME_STRUCT", "SLOTS_PER_RR", "TX_ADAPTIVE_PAYLOAD_POWER"}
  <2>1. AsMany(n3, 26, 28)
    BY DEF AsMany
  <2>2. Range(n3) =
         {"RANGING_TIME_STRUCT", "SLOTS_PER_RR", "TX_ADAPTIVE_PAYLOAD_POWER"}
    BY SMT DEF Range
  <2> HIDE DEF n3
  <2>3. Numbered(e3, 26, 28)
    BY <2>1, EnumerationIs
  <2>4. DOMAIN e3 = Range(n3)
    BY EnumerationDomain
  <2>5. QED
    BY <2>2, <2>3, <2>4
<1>4. Numbered(e4, 30, 31) /\ DOMAIN e4 =
         {"RESPONDER_SLOT_INDEX", "PRF_MODE"}
  <2>1. AsMany(n4, 30, 31)
    BY DEF AsMany
  <2>2. Range(n4) =
         {"RESPONDER_SLOT_INDEX", "PRF_MODE"}
    BY SMT DEF Range
  <2> HIDE DEF n4
  <2>3. Numbered(e4, 30, 31)
    BY <2>1, EnumerationIs
  <2>4. DOMAIN e4 = Range(n4)
    BY EnumerationDomain
  <2>5. QED
    BY <2>2, <2>3, <2>4
<1>5. Numbered(e5, 34, 50) /\ DOMAIN e5 =
         {"SCHEDULED_MODE", "KEY_ROTATION", "KEY_ROTATION_RATE", "SESSION_PRIORITY",
          "MAC_ADDRESS_MODE", "VENDOR_ID", "STATIC_STS_IV", "NUMBER_OF_STS_SEGMENTS",
          "MAX_RR_RETRY", "UWB_INITIATION_TIME", "HOPPING_MODE", "BLOCK_STRIDE_LENGTH",
          "RESULT_REPORT_CONFIG", "IN_BAND_TERMINATION_ATTEMPT_COUNT", "SUB_SESSION_ID",
          "BPRF_PHR_DATA_RATE", "MAX_NUMBER_OF_MEASUREMENTS"}
  <2>1. AsMany(n5, 34, 50)
    BY DEF AsMany
  <2>2. Range(n5) =
         {"SCHEDULED_MODE", "KEY_ROTATION", "KEY_ROTATION_RATE", "SESSION_PRIORITY",
          "MAC_ADDRESS_MODE", "VENDOR_ID", "STATIC_STS_IV", "NUMBER_OF_STS_SEGMENTS",
          "MAX_RR_RETRY", "UWB_INITIATION_TIME", "HOPPING_MODE", "BLOCK_STRIDE_LENGTH",
          "RESULT_REPORT_CONFIG", "IN_BAND_TERMINATION_ATTEMPT_COUNT", "SUB_SESSION_ID",
          "BPRF_PHR_DATA_RATE", "MAX_NUMBER_OF_MEASUREMENTS"}
    BY SMT DEF Range
  <2> HIDE DEF n5
  <2>3. Numbered(e5, 34, 50)
    BY <2>1, EnumerationIs
  <2>4. DOMAIN e5 = Range(n5)
    BY EnumerationDomain
  <2>5. QED
    BY <2>2, <2>3, <2>4
<1>6. Numbered(e6, 53, 53) /\ DOMAIN e6 = {"STS_LENGTH"}
  BY DEF Numbered, IsInjective
<1>7. UWB_APP_CONFIG_PARAM_TYPE = o1
  BY DEF UWB_APP_CONFIG_PARAM_TYPE
<1> HIDE DEF e1, e2, e3, e4, e5, e6
<1>8. Numbered(o5, 34, 53) /\ DOMAIN o5 = DOMAIN e5 \cup DOMAIN e6
  <2>1. Apart(34, 50, 53, 53)
    BY DEF Apart
  <2>2. QED
    BY <2>1, <1>5, <1>6, OverIs, OverDomain
<1> HIDE DEF o5
<1>9. Numbered(o4, 30, 53) /\ DOMAIN o4 = DOMAIN e4 \cup DOMAIN o5
  <2>1. Apart(30, 31, 34, 53)
    BY DEF Apart
  <2>2. QED
    BY <2>1, <1>4, <1>8, OverIs, OverDomain
<1> HIDE DEF o4
<1>10. Numbered(o3, 26, 53) /\ DOMAIN o3 = DOMAIN e3 \cup DOMAIN o4
  <2>1. Apart(26, 28, 30, 53)
    BY DEF Apart
  <2>2. QED
    BY <2>1, <1>3, <1>9, OverIs, OverDomain
<1> HIDE DEF o3
<1>11. Numbered(o2, 20, 53) /\ DOMAIN o2 = DOMAIN e2 \cup DOMAIN o3
  <2>1. Apart(20, 23, 26, 53)
    BY DEF Apart
  <2>2. QED
    BY <2>1, <1>2, <1>10, OverIs, OverDomain
<1> HIDE DEF o2
<1>12. Numbered(o1, 0, 53) /\ DOMAIN o1 = DOMAIN e1 \cup DOMAIN o2
  <2>1. Apart(0, 18, 20, 53)
    BY DEF Apart
  <2>2. QED
    BY <2>1, <1>1, <1>11, OverIs, OverDomain
<1> HIDE DEF o1
<1>13. DOMAIN o1 = DOMAIN e1 \cup DOMAIN e2 \cup DOMAIN e3 \cup DOMAIN e4 \cup DOMAIN e5 \cup DOMAIN e6
  BY <1>8, <1>9, <1>10, <1>11, <1>12
<1>14. QED
  BY <1>1, <1>2, <1>3, <1>4, <1>5, <1>6, <1>7, <1>12, <1>13

LEMMA ParameterTypeNumbers ==
    /\ Numbered(UwbApplicationConfigurationParameterType, 0, 53)
    /\ DOMAIN UwbApplicationConfigurationParameterType =
         {"DeviceType", "RangingRoundUsage", "StsConfiguration", "MultiNodeMode",
          "ChannelNumber", "NumberOfControlees", "DeviceMacAddress",
          "DestinationMacAddresses", "SlotDuration", "RangingInterval", "StsIndex",
          "MacFcsType", "RangingRoundControl", "AoAResultRequest",
          "RangeDataNotificationConfig", "RangeDataNotificationProximityNear",
          "RangeDataNotificationProximityFar", "DeviceRole", "RFrameConfiguration",
          "PreambleCodeIndex", "SfdId", "PsduDataRate", "PreambleDuration",
          "RangingTimeStruct", "SlotsPerRangingRound", "TxAdaptivePayloadPower",
          "ResponderSlotIndex", "PrfMode", "ScheduledMode", "KeyRotation", "KeyRotationRate",
          "SessionPriority", "MacAddressMode", "VendorId", "StaticStsIv",
          "NumberOfStsSegments", "MaxRangingRoundRetry", "UwbInitiationTime", "HoppingMode",
          "BlockStrideLength", "ResultReportConfig", "InBandTerminationAttemptCount",
          "SubSessionId", "BprfPhrDataRate", "MaxNumberOfMeasurements", "StsLength"}
<1> DEFINE
      n1 == <<"DeviceType", "RangingRoundUsage", "StsConfiguration", "MultiNodeMode",
              "ChannelNumber", "NumberOfControlees", "DeviceMacAddress",
              "DestinationMacAddresses", "SlotDuration", "RangingInterval", "StsIndex",
              "MacFcsType", "RangingRoundControl", "AoAResultRequest",
              "RangeDataNotificationConfig", "RangeDataNotificationProximityNear",
              "RangeDataNotificationProximityFar", "DeviceRole", "RFrameConfiguration">>
      e1 == Enumeration(n1, 0)
      n2 == <<"PreambleCodeIndex", "SfdId", "PsduDataRate", "PreambleDuration">>
      e2 == Enumeration(n2, 20)
      n3 == <<"RangingTimeStruct", "SlotsPerRangingRound", "TxAdaptivePayloadPower">>
      e3 == Enumeration(n3, 26)
      n4 == <<"ResponderSlotIndex", "PrfMode">>
      e4 == Enumeration(n4, 30)
      n5 == <<"ScheduledMode", "KeyRotation", "KeyRotationRate", "SessionPriority",
              "MacAddressMode", "VendorId", "StaticStsIv", "NumberOfStsSegments",
              "MaxRangingRoundRetry", "UwbInitiationTime", "HoppingMode", "BlockStrideLength",
              "ResultReportConfig", "InBandTerminationAttemptCount", "SubSessionId",
              "BprfPhrDataRate", "MaxNumberOfMeasurements">>
      e5 == Enumeration(n5, 34)
      e6 == [StsLength |-> 53]
      o5 == Over(e5, e6)
      o4 == Over(e4, o5)
      o3 == Over(e3, o4)
      o2 == Over(e2, o3)
      o1 == Over(e1, o2)
<1>1. Numbered(e1, 0, 18) /\ DOMAIN e1 =
         {"DeviceType", "RangingRoundUsage", "StsConfiguration", "MultiNodeMode",
          "ChannelNumber", "NumberOfControlees", "DeviceMacAddress",
          "DestinationMacAddresses", "SlotDuration", "RangingInterval", "StsIndex",
          "MacFcsType", "RangingRoundControl", "AoAResultRequest",
          "RangeDataNotificationConfig", "RangeDataNotificationProximityNear",
          "RangeDataNotificationProximityFar", "DeviceRole", "RFrameConfiguration"}
  <2>1. AsMany(n1, 0, 18)
    BY DEF AsMany
  <2>2. Range(n1) =
         {"DeviceType", "RangingRoundUsage", "StsConfiguration", "MultiNodeMode",
          "ChannelNumber", "NumberOfControlees", "DeviceMacAddress",
          "DestinationMacAddresses", "SlotDuration", "RangingInterval", "StsIndex",
          "MacFcsType", "RangingRoundControl", "AoAResultRequest",
          "RangeDataNotificationConfig", "RangeDataNotificationProximityNear",
          "RangeDataNotificationProximityFar", "DeviceRole", "RFrameConfiguration"}
    BY SMT DEF Range
  <2> HIDE DEF n1
  <2>3. Numbered(e1, 0, 18)
    BY <2>1, EnumerationIs
  <2>4. DOMAIN e1 = Range(n1)
    BY EnumerationDomain
  <2>5. QED
    BY <2>2, <2>3, <2>4
<1>2. Numbered(e2, 20, 23) /\ DOMAIN e2 =
         {"PreambleCodeIndex", "SfdId", "PsduDataRate", "PreambleDuration"}
  <2>1. AsMany(n2, 20, 23)
    BY DEF AsMany
  <2>2. Range(n2) =
         {"PreambleCodeIndex", "SfdId", "PsduDataRate", "PreambleDuration"}
    BY SMT DEF Range
  <2> HIDE DEF n2
  <2>3. Numbered(e2, 20, 23)
    BY <2>1, EnumerationIs
  <2>4. DOMAIN e2 = Range(n2)
    BY EnumerationDomain
  <2>5. QED
    BY <2>2, <2>3, <2>4
<1>3. Numbered(e3, 26, 28) /\ DOMAIN e3 =
         {"RangingTimeStruct", "SlotsPerRangingRound", "TxAdaptivePayloadPower"}
  <2>1. AsMany(n3, 26, 28)
    BY DEF AsMany
  <2>2. Range(n3) =
         {"RangingTimeStruct", "SlotsPerRangingRound", "TxAdaptivePayloadPower"}
    BY SMT DEF Range
  <2> HIDE DEF n3
  <2>3. Numbered(e3, 26, 28)
    BY <2>1, EnumerationIs
  <2>4. DOMAIN e3 = Range(n3)
    BY EnumerationDomain
  <2>5. QED
    BY <2>2, <2>3, <2>4
<1>4. Numbered(e4, 30, 31) /\ DOMAIN e4 =
         {"ResponderSlotIndex", "PrfMode"}
  <2>1. AsMany(n4, 30, 31)
    BY DEF AsMany
  <2>2. Range(n4) =
         {"ResponderSlotIndex", "PrfMode"}
    BY SMT DEF Range
  <2> HIDE DEF n4
  <2>3. Numbered(e4, 30, 31)
    BY <2>1, EnumerationIs
  <2>4. DOMAIN e4 = Range(n4)
    BY EnumerationDomain
  <2>5. QED
    BY <2>2, <2>3, <2>4
<1>5. Numbered(e5, 34, 50) /\ DOMAIN e5 =
         {"ScheduledMode", "KeyRotation", "KeyRotationRate", "SessionPriority",
          "MacAddressMode", "VendorId", "StaticStsIv", "NumberOfStsSegments",
          "MaxRangingRoundRetry", "UwbInitiationTime", "HoppingMode", "BlockStrideLength",
          "ResultReportConfig", "InBandTerminationAttemptCount", "SubSessionId",
          "BprfPhrDataRate", "MaxNumberOfMeasurements"}
  <2>1. AsMany(n5, 34, 50)
    BY DEF AsMany
  <2>2. Range(n5) =
         {"ScheduledMode", "KeyRotation", "KeyRotationRate", "SessionPriority",
          "MacAddressMode", "VendorId", "StaticStsIv", "NumberOfStsSegments",
          "MaxRangingRoundRetry", "UwbInitiationTime", "HoppingMode", "BlockStrideLength",
          "ResultReportConfig", "InBandTerminationAttemptCount", "SubSessionId",
          "BprfPhrDataRate", "MaxNumberOfMeasurements"}
    BY SMT DEF Range
  <2> HIDE DEF n5
  <2>3. Numbered(e5, 34, 50)
    BY <2>1, EnumerationIs
  <2>4. DOMAIN e5 = Range(n5)
    BY EnumerationDomain
  <2>5. QED
    BY <2>2, <2>3, <2>4
<1>6. Numbered(e6, 53, 53) /\ DOMAIN e6 = {"StsLength"}
  BY DEF Numbered, IsInjective
<1>7. UwbApplicationConfigurationParameterType = o1
  BY DEF UwbApplicationConfigurationParameterType
<1> HIDE DEF e1, e2, e3, e4, e5, e6
<1>8. Numbered(o5, 34, 53) /\ DOMAIN o5 = DOMAIN e5 \cup DOMAIN e6
  <2>1. Apart(34, 50, 53, 53)
    BY DEF Apart
  <2>2. QED
    BY <2>1, <1>5, <1>6, OverIs, OverDomain
<1> HIDE DEF o5
<1>9. Numbered(o4, 30, 53) /\ DOMAIN o4 = DOMAIN e4 \cup DOMAIN o5
  <2>1. Apart(30, 31, 34, 53)
    BY DEF Apart
  <2>2. QED
    BY <2>1, <1>4, <1>8, OverIs, OverDomain
<1> HIDE DEF o4
<1>10. Numbered(o3, 26, 53) /\ DOMAIN o3 = DOMAIN e3 \cup DOMAIN o4
  <2>1. Apart(26, 28, 30, 53)
    BY DEF Apart
  <2>2. QED
    BY <2>1, <1>3, <1>9, OverIs, OverDomain
<1> HIDE DEF o3
<1>11. Numbered(o2, 20, 53) /\ DOMAIN o2 = DOMAIN e2 \cup DOMAIN o3
  <2>1. Apart(20, 23, 26, 53)
    BY DEF Apart
  <2>2. QED
    BY <2>1, <1>2, <1>10, OverIs, OverDomain
<1> HIDE DEF o2
<1>12. Numbered(o1, 0, 53) /\ DOMAIN o1 = DOMAIN e1 \cup DOMAIN o2
  <2>1. Apart(0, 18, 20, 53)
    BY DEF Apart
  <2>2. QED
    BY <2>1, <1>1, <1>11, OverIs, OverDomain
<1> HIDE DEF o1
<1>13. DOMAIN o1 = DOMAIN e1 \cup DOMAIN e2 \cup DOMAIN e3 \cup DOMAIN e4 \cup DOMAIN e5 \cup DOMAIN e6
  BY <1>8, <1>9, <1>10, <1>11, <1>12
<1>14. QED
  BY <1>1, <1>2, <1>3, <1>4, <1>5, <1>6, <1>7, <1>12, <1>13

-----------------------------------------------------------------------------
(* The parser of objects.                                                  *)

LEMMA SubspanIs ==
    ASSUME NEW X, NEW d \in Seq(X), NEW n \in 0 .. Len(d)
    PROVE  /\ Subspan(d, n) \in Seq(X)
           /\ Len(Subspan(d, n)) = Len(d) - n
           /\ \A i \in 1 .. Len(d) - n : Subspan(d, n)[i] = d[n + i]
<1>1. PICK l \in Nat : l = Len(d)
  BY LenProperties
<1>2. PICK m \in Int : m = n + 1
  OBVIOUS
<1> DEFINE t == SubSeq(d, m, l)
<1>3. n \in 0 .. l /\ Subspan(d, n) = t
  BY <1>1, <1>2 DEF Subspan
<1>4. \A i \in m .. l : d[i] \in X
  <2> TAKE i \in m .. l
  <2>1. i \in 1 .. Len(d)
    BY <1>1, <1>2, <1>3
  <2>2. QED
    BY <2>1, ElementOfSeq
<1>5. t \in Seq(X) /\ Len(t) = (IF m <= l THEN l - m + 1 ELSE 0)
      /\ \A i \in 1 .. l - m + 1 : t[i] = d[m + i - 1]
  BY <1>4, l \in Int, SubSeqProperties
<1> HIDE DEF t
<1>6. Len(t) = l - n
  BY <1>2, <1>3, <1>5
<1>7. \A i \in 1 .. l - n : t[i] = d[n + i]
  <2> TAKE i \in 1 .. l - n
  <2>1. i \in 1 .. l - m + 1 /\ m + i - 1 = n + i
    BY <1>2, <1>3
  <2>2. QED
    BY <1>5, <2>1
<1>8. QED
  BY <1>1, <1>3, <1>5, <1>6, <1>7

\* How much there is of a tag and of a length.
LEMMA HeadersAre ==
    ASSUME NEW d \in Seq(Int)
    PROVE  /\ ParseTag(d) \in 0 .. 3 /\ ParseTag(d) <= Len(d)
           /\ ParseLength(d).bytes \in 0 .. 5 /\ ParseLength(d).bytes <= Len(d)
<1>1. Len(d) \in Nat /\ (d = << >> <=> Len(d) = 0)
  BY LenProperties, EmptySeq
<1>2. ParseTag(d) \in 0 .. 3 /\ ParseTag(d) <= Len(d)
  BY <1>1 DEF ParseTag, TagValueLongField
<1>3. ParseLength(d).bytes \in 0 .. 5 /\ ParseLength(d).bytes <= Len(d)
  <2>1. CASE d = << >>
    BY <1>1, <2>1 DEF ParseLength
  <2>2. CASE d # << >>
    <3>1. PICK x \in Int : x = d[1]
      BY <1>1, <2>2
    <3> DEFINE following == IF x > LengthFormShortMax THEN x - 128 ELSE 0
    <3>2. following \in Nat
      BY DEF LengthFormShortMax
    <3>3. ParseLength(d).bytes = IF following >= 5 \/ Len(d) < 1 + following THEN 0 ELSE 1 + following
      BY <2>2, <3>1 DEF ParseLength, MaxNumOctetsInLengthEncoding
    <3> HIDE DEF following
    <3>4. QED
      BY <1>1, <3>2, <3>3
  <2>3. QED
    BY <2>1, <2>2
<1>4. QED
  BY <1>2, <1>3

\* The first object depends only on what is known of fewer bytes.
LEMMA FirstAgrees ==
    ASSUME NEW d \in Seq(Int), NEW f, NEW g, \A k \in 0 .. Len(d) - 1 : f[k] = g[k]
    PROVE  ParseFirst(d, f) = ParseFirst(d, g)
<1> DEFINE tagBytes == ParseTag(d)
           length == ParseLength(Subspan(d, tagBytes))
           header == tagBytes + length.bytes
           value == Subspan(d, header)
<1>1. Len(d) \in Nat
  BY LenProperties
<1>2. tagBytes \in 0 .. 3 /\ tagBytes <= Len(d)
  BY HeadersAre
<1>3. Subspan(d, tagBytes) \in Seq(Int) /\ Len(Subspan(d, tagBytes)) = Len(d) - tagBytes
  <2>1. tagBytes \in 0 .. Len(d)
    BY <1>1, <1>2
  <2> HIDE DEF tagBytes
  <2>2. QED
    BY <2>1, SubspanIs
<1>4. length.bytes \in 0 .. 5 /\ length.bytes <= Len(d) - tagBytes
  BY <1>3, HeadersAre
<1>5. CASE tagBytes = 0
  BY <1>5 DEF ParseFirst
<1>6. CASE tagBytes # 0
  <2>1. header \in 1 .. Len(d)
    <3>1. PICK t, b, l : t = tagBytes /\ b = length.bytes /\ l = Len(d)
      OBVIOUS
    <3>2. t \in 0 .. 3 /\ t # 0 /\ b \in 0 .. 5 /\ b <= l - t /\ l \in Nat
      BY <1>1, <1>2, <1>4, <1>6, <3>1
    <3>3. header = t + b
      BY <3>1
    <3> HIDE DEF header
    <3>4. QED
      BY <3>1, <3>2, <3>3, SMTT(40)
  <2>2. Len(value) \in 0 .. Len(d) - 1
    <3> HIDE DEF header
    <3>1. header \in 0 .. Len(d)
      BY <1>1, <2>1
    <3>2. Len(value) = Len(d) - header
      BY <3>1, SubspanIs
    <3>3. QED
      BY <1>1, <2>1, <3>2
  <2>3. f[Len(value)] = g[Len(value)]
    BY <2>2
  <2> HIDE DEF value
  <2>4. QED
    BY <2>3 DEF ParseFirst, value
<1>7. QED
  BY <1>5, <1>6

LEMMA ObjectsAgree ==
    ASSUME NEW data \in Seq(Int), NEW k \in 0 .. Len(data), NEW n \in 0 .. k,
           NEW f, NEW g, \A j \in 0 .. k - 1 : f[j] = g[j]
    PROVE  ParseObjects(data, f, k, n) = ParseObjects(data, g, k, n)
<1> DEFINE d == Subspan(data, Len(data) - k)
<1>1. Len(data) \in Nat
  BY LenProperties
<1>2. d \in Seq(Int) /\ Len(d) = k
  <2>1. PICK at : at = Len(data) - k
    OBVIOUS
  <2>2. at \in 0 .. Len(data)
    BY <1>1, <2>1
  <2>3. Subspan(data, at) \in Seq(Int) /\ Len(Subspan(data, at)) = Len(data) - at
    BY <2>2, SubspanIs
  <2>4. QED
    BY <1>1, <2>1, <2>3
<1>3. ParseFirst(d, f) = ParseFirst(d, g)
  <2> HIDE DEF d
  <2> QED
    BY <1>2, FirstAgrees
<1> DEFINE first == ParseFirst(d, f)
<1>4. first.bytesParsed \in 1 .. n => f[k - first.bytesParsed] = g[k - first.bytesParsed]
  <2> HIDE DEF first
  <2>1. first.bytesParsed \in 1 .. n => k - first.bytesParsed \in 0 .. k - 1
    OBVIOUS
  <2>2. QED
    BY <2>1
<1> HIDE DEF first, d
<1>5. QED
  BY <1>3, <1>4 DEF ParseObjects, first, d

\* There is a table in which each result is made of the others.
LEMMA TableIs ==
    ASSUME NEW data \in Seq(Int)
    PROVE  LET T == ParseConstructedValue(data) IN
           \A k \in 0 .. Len(data) : \A n \in 0 .. k : T[k][n] = ParseObjects(data, T, k, n)
<1>1. PICK l \in Nat : l = Len(data)
  BY LenProperties
<1> DEFINE Row(f, k) == [n \in 0 .. k |-> ParseObjects(data, f, k, n)]
           Table(f, m) == f = [k \in 0 .. m |-> Row(f, k)]
           I == {m \in 0 .. l : \E f : Table(f, m)}
<1>2. ASSUME NEW k \in 0 .. l, NEW f, NEW g, \A j \in 0 .. k - 1 : f[j] = g[j]
      PROVE  Row(f, k) = Row(g, k)
  <2>1. \A n \in 0 .. k : ParseObjects(data, f, k, n) = ParseObjects(data, g, k, n)
    BY <1>1, <1>2, ObjectsAgree
  <2>2. QED
    BY <2>1
<1> HIDE DEF Row
<1>3. 0 \in I
  <2> DEFINE g == [k \in 0 .. 0 |-> Row(<< >>, 0)]
  <2>1. Row(g, 0) = Row(<< >>, 0)
    BY <1>1, <1>2
  <2>2. g = [k \in 0 .. 0 |-> Row(g, k)]
    <3> DEFINE h == [k \in 0 .. 0 |-> Row(g, k)]
    <3>1. \A k \in 0 .. 0 : g[k] = h[k]
      BY <2>1
    <3>2. QED
      BY <3>1
  <2> HIDE DEF g
  <2>3. QED
    BY <1>1, <2>2
<1>4. ASSUME NEW m \in 1 .. l, m - 1 \in I PROVE m \in I
  <2>1. PICK f : Table(f, m - 1)
    BY <1>4
  <2> DEFINE g == [k \in 0 .. m |-> IF k = m THEN Row(f, m) ELSE f[k]]
  <2>2. ASSUME NEW k \in 0 .. m - 1 PROVE f[k] = Row(f, k) /\ g[k] = f[k]
    <3>1. k \in 0 .. m /\ k # m
      BY <1>1
    <3>2. f[k] = Row(f, k)
      BY <2>1
    <3>3. QED
      BY <3>1, <3>2
  <2>3. ASSUME NEW k \in 0 .. m PROVE g[k] = Row(g, k)
    <3>1. \A j \in 0 .. k - 1 : f[j] = g[j]
      BY <1>1, <2>2
    <3>2. Row(f, k) = Row(g, k)
      <4> HIDE DEF g
      <4> QED
        BY <1>1, <1>2, <3>1, SMTT(40)
    <3>3. CASE k = m
      BY <3>2, <3>3
    <3>4. CASE k # m
      <4>1. k \in 0 .. m - 1
        BY <3>4
      <4>2. QED
        BY <2>2, <3>2, <4>1
    <3>5. QED
      BY <3>3, <3>4
  <2>4. g = [k \in 0 .. m |-> g[k]]
    OBVIOUS
  <2> HIDE DEF g
  <2>5. Table(g, m)
    BY <2>3, <2>4
  <2>6. QED
    BY <1>1, <2>5
<1> HIDE DEF I
<1>5. l \in I
  <2>1. \A i \in 0 .. l : i \in I
    BY <1>3, <1>4, IndexInduction
  <2>2. QED
    BY <2>1
<1> DEFINE T == CHOOSE f : Table(f, l)
<1>6. Table(T, l)
  <2>1. PICK f : Table(f, l)
    BY <1>5 DEF I
  <2> HIDE DEF Table
  <2>2. QED
    BY <2>1
<1>7. ParseConstructedValue(data) = T
  BY <1>1 DEF ParseConstructedValue, Row
<1> HIDE DEF T
<1>8. ASSUME NEW k \in 0 .. l, NEW n \in 0 .. k PROVE T[k][n] = ParseObjects(data, T, k, n)
  <2>1. T[k] = Row(T, k)
    BY <1>6
  <2>2. QED
    BY <2>1 DEF Row
<1> HIDE DEF Table
<1>9. QED
  BY <1>1, <1>7, <1>8

-----------------------------------------------------------------------------
(* Numbers and lengths in objects.                                         *)

\* What is read from up to four bytes.
LEMMA ReadSizeIs ==
    ASSUME NEW n \in 1 .. 4, NEW bytes \in [1 .. n -> Int]
    PROVE  /\ n = 1 => ReadSizeTFromBytesBigEndian(bytes) = bytes[1]
           /\ n = 2 => ReadSizeTFromBytesBigEndian(bytes) = bytes[1] * 256 + bytes[2]
           /\ n = 3 => ReadSizeTFromBytesBigEndian(bytes)
                         = (bytes[1] * 256 + bytes[2]) * 256 + bytes[3]
           /\ n = 4 => ReadSizeTFromBytesBigEndian(bytes)
                         = ((bytes[1] * 256 + bytes[2]) * 256 + bytes[3]) * 256 + bytes[4]
<1> DEFINE P(g) == g = [i \in 0 .. Len(bytes) |-> IF i = 0 THEN 0 ELSE g[i - 1] * 256 + bytes[i]]
           number == CHOOSE g : P(g)
           step == [p \in Int \X (1 .. n) |-> p[1] * 256 + bytes[p[2]]]
<1>1. n \in Nat /\ Len(bytes) = n
  OBVIOUS
<1>2. step \in [Int \X (1 .. n) -> Int]
  OBVIOUS
<1>3. ASSUME NEW x \in Int, NEW i \in 1 .. n PROVE step[<<x, i>>] = x * 256 + bytes[i]
  OBVIOUS
<1> HIDE DEF step
<1>4. 0 \in Int
  OBVIOUS
<1>5. PICK f \in [0 .. n -> Int] : Recurs(f, 0, step, n)
  BY <1>1, <1>2, <1>4, Recursion
<1>6. f[0] = 0 /\ \A i \in 1 .. n : f[i] = f[i - 1] * 256 + bytes[i]
  <2>1. ASSUME NEW i \in 1 .. n PROVE f[i] = f[i - 1] * 256 + bytes[i]
    <3>1. f[i - 1] \in Int
      OBVIOUS
    <3>2. QED
      BY <1>3, <1>5, <3>1, ZenonT(40) DEF Recurs
  <2>2. QED
    BY <1>5, <2>1 DEF Recurs
<1>7. P(f)
  <2>1. ASSUME NEW i \in 0 .. n
        PROVE  f[i] = IF i = 0 THEN 0 ELSE f[i - 1] * 256 + bytes[i]
    <3>1. CASE i = 0
      BY <1>6, <3>1
    <3>2. CASE i # 0
      BY <1>6, <3>2
    <3>3. QED
      BY <3>1, <3>2
  <2>2. f = [i \in 0 .. n |-> f[i]]
    OBVIOUS
  <2>3. QED
    BY <1>1, <2>1, <2>2
<1>8. P(number)
  <2> HIDE DEF P
  <2>1. QED
    BY <1>7
<1>9. ReadSizeTFromBytesBigEndian(bytes) = number[n]
  BY <1>1 DEF ReadSizeTFromBytesBigEndian
<1>10. /\ number[0] = 0
       /\ 1 \in 1 .. n /\ number[1] = number[0] * 256 + bytes[1]
       /\ n >= 2 => number[2] = number[1] * 256 + bytes[2]
       /\ n >= 3 => number[3] = number[2] * 256 + bytes[3]
       /\ n = 4 => number[4] = number[3] * 256 + bytes[4]
  <2>1. ASSUME NEW i \in 0 .. n
        PROVE  number[i] = IF i = 0 THEN 0 ELSE number[i - 1] * 256 + bytes[i]
    BY <1>1, <1>8
  <2> HIDE DEF P
  <2>2. number[0] = 0
    BY <2>1
  <2>3. \A i \in 1 .. n : number[i] = number[i - 1] * 256 + bytes[i]
    BY <2>1
  <2> HIDE DEF number
  <2>4. number[1] = number[1 - 1] * 256 + bytes[1]
    BY ONLY <2>3, n \in 1 .. 4
  <2>5. n >= 2 => number[2] = number[2 - 1] * 256 + bytes[2]
    BY ONLY <2>3, n \in 1 .. 4
  <2>6. n >= 3 => number[3] = number[3 - 1] * 256 + bytes[3]
    BY ONLY <2>3, n \in 1 .. 4
  <2>7. n = 4 => number[4] = number[4 - 1] * 256 + bytes[4]
    BY ONLY <2>3, n \in 1 .. 4
  <2>8. QED
    BY <2>2, <2>4, <2>5, <2>6, <2>7
<1> HIDE DEF P, number
<1>11. bytes[1] \in Int /\ (n >= 2 => bytes[2] \in Int) /\ (n >= 3 => bytes[3] \in Int)
  OBVIOUS
<1>12. /\ number[1] = bytes[1]
       /\ n >= 2 => number[2] = bytes[1] * 256 + bytes[2]
       /\ n >= 3 => number[3] = (bytes[1] * 256 + bytes[2]) * 256 + bytes[3]
  BY <1>10, <1>11
<1>13. QED
  BY <1>9, <1>10, <1>12, SMTT(40)

\* A number that some bytes have room for.
WithinBigEndian(x, n) ==
    /\ x \in Nat
    /\ n = 1 => x < 256
    /\ n = 2 => x < 65536
    /\ n = 3 => x < 256 * 65536
    /\ n = 4 => x \div 65536 < 65536

\* The last four digits of a number.
Digits(x, A, B, C, U) ==
    /\ A = x % 256 /\ B = (x \div 256) % 256 /\ C = (x \div 65536) % 256
    /\ U = (x \div (256 * 65536)) % 256

LEMMA DigitsReturn ==
    ASSUME NEW x \in Nat, NEW A, NEW B, NEW C, NEW U, Digits(x, A, B, C, U)
    PROVE  /\ x < 65536 => B * 256 + A = x
           /\ x < 256 * 65536 => (C * 256 + B) * 256 + A = x
           /\ x < 65536 * 65536 => ((U * 256 + C) * 256 + B) * 256 + A = x
<1>1. PICK y \in Nat, a \in 0 .. 255 : y = x \div 256 /\ a = x % 256 /\ x = 256 * y + a
  OBVIOUS
<1>2. PICK z \in Nat, b \in 0 .. 255 : z = y \div 256 /\ b = y % 256 /\ y = 256 * z + b
  OBVIOUS
<1>3. PICK u \in Nat, c \in 0 .. 255 : u = z \div 256 /\ c = z % 256 /\ z = 256 * u + c
  OBVIOUS
<1>4. x \div 65536 = z
  BY ONLY <1>1, <1>2, x \in Nat
<1>5. x \div (256 * 65536) = u
  BY ONLY <1>1, <1>2, <1>3, x \in Nat
<1>6. /\ x < 65536 => z = 0
      /\ x < 256 * 65536 => u = 0
      /\ x < 65536 * 65536 => u < 256
  BY ONLY <1>1, <1>2, <1>3, x \in Nat
<1>7. u < 256 => u % 256 = u
  BY <1>3
<1>8. z < 256 => z % 256 = z
  BY <1>2
<1>9. A = a /\ B = b /\ C = c /\ U = u % 256
  BY <1>1, <1>2, <1>3, <1>4, <1>5 DEF Digits
<1>10. x < 65536 => b * 256 + a = x
  BY ONLY <1>1, <1>2, <1>6
<1>11. x < 256 * 65536 => (c * 256 + b) * 256 + a = x
  <2>1. x = 256 * (256 * (256 * u + c) + b) + a
    BY <1>1, <1>2, <1>3
  <2>2. QED
    BY ONLY <1>1, <1>2, <1>3, <1>6, <2>1
<1>12. x < 65536 * 65536 => ((u * 256 + c) * 256 + b) * 256 + a = x
  <2>1. x = 256 * (256 * (256 * u + c) + b) + a
    BY <1>1, <1>2, <1>3
  <2>2. QED
    BY ONLY <1>1, <1>2, <1>3, <1>6, <2>1
<1>13. x < 65536 * 65536 => u % 256 = u
  BY <1>6, <1>7
<1>14. QED
  BY ONLY <1>9, <1>10, <1>11, <1>12, <1>13

LEMMA BigEndianReturns ==
    ASSUME NEW n \in 1 .. 4, NEW x, WithinBigEndian(x, n)
    PROVE  /\ GetBytesBigEndianFromBitMap(x, n) \in [1 .. n -> 0 .. 255]
           /\ ReadSizeTFromBytesBigEndian(GetBytesBigEndianFromBitMap(x, n)) = x
<1> DEFINE b == GetBytesBigEndianFromBitMap(x, n)
<1>1. x \in Nat
  BY DEF WithinBigEndian
<1>2. ASSUME NEW i \in 1 .. n PROVE b[i] = (x \div 256 ^ (n - i)) % 256 /\ b[i] \in 0 .. 255
  <2>1. b[i] = (x \div 256 ^ (n - i)) % 256
    BY DEF GetBytesBigEndianFromBitMap
  <2>2. PICK k : k = n - i
    OBVIOUS
  <2>3. k = 0 \/ k = 1 \/ k = 2 \/ k = 3
    BY <2>2
  <2>4. 256 ^ k = 1 \/ 256 ^ k = 256 \/ 256 ^ k = 65536 \/ 256 ^ k = 256 * 65536
    <3>1. CASE k = 0
      BY <3>1, Powers
    <3>2. CASE k = 1
      BY <3>2, Powers
    <3>3. CASE k = 2
      BY <3>3, Powers
    <3>4. CASE k = 3
      BY <3>4, Powers
    <3>5. QED
      BY <2>3, <3>1, <3>2, <3>3, <3>4
  <2>5. (x \div 256 ^ k) % 256 \in 0 .. 255
    BY <1>1, <2>4
  <2>6. QED
    BY <2>1, <2>2, <2>5
<1>3. b = [i \in 1 .. n |-> b[i]]
  BY DEF GetBytesBigEndianFromBitMap
<1> HIDE DEF b
<1>4. b \in [1 .. n -> 0 .. 255]
  BY <1>2, <1>3
<1>5. b \in [1 .. n -> Int]
  <2>1. \A i \in 1 .. n : b[i] \in Int
    BY <1>2
  <2>2. QED
    BY <1>3, <2>1
<1>6. n = 1 => b[1] = x % 256
  <2> SUFFICES ASSUME n = 1 PROVE b[1] = x % 256
    OBVIOUS
  <2>1. b[1] = (x \div 256 ^ 0) % 256
    BY <1>2
  <2>2. QED
    BY <1>1, <2>1, Powers
<1>7. n = 2 => b[1] = (x \div 256) % 256 /\ b[2] = x % 256
  <2> SUFFICES ASSUME n = 2 PROVE b[1] = (x \div 256) % 256 /\ b[2] = x % 256
    OBVIOUS
  <2>1. b[1] = (x \div 256 ^ 1) % 256 /\ b[2] = (x \div 256 ^ 0) % 256
    BY <1>2
  <2>2. QED
    BY <1>1, <2>1, Powers
<1>8. n = 3 => b[1] = (x \div 65536) % 256 /\ b[2] = (x \div 256) % 256 /\ b[3] = x % 256
  <2> SUFFICES ASSUME n = 3
               PROVE b[1] = (x \div 65536) % 256 /\ b[2] = (x \div 256) % 256 /\ b[3] = x % 256
    OBVIOUS
  <2>1. b[1] = (x \div 256 ^ 2) % 256 /\ b[2] = (x \div 256 ^ 1) % 256 /\ b[3] = (x \div 256 ^ 0) % 256
    BY <1>2
  <2>2. QED
    BY <1>1, <2>1, Powers
<1>9. n = 4 => b[1] = (x \div (256 * 65536)) % 256 /\ b[2] = (x \div 65536) % 256
               /\ b[3] = (x \div 256) % 256 /\ b[4] = x % 256
  <2> SUFFICES ASSUME n = 4
               PROVE b[1] = (x \div (256 * 65536)) % 256 /\ b[2] = (x \div 65536) % 256
                     /\ b[3] = (x \div 256) % 256 /\ b[4] = x % 256
    OBVIOUS
  <2>1. b[1] = (x \div 256 ^ 3) % 256 /\ b[2] = (x \div 256 ^ 2) % 256
        /\ b[3] = (x \div 256 ^ 1) % 256 /\ b[4] = (x \div 256 ^ 0) % 256
    BY <1>2
  <2>2. QED
    BY <1>1, <2>1, Powers
<1>10. ReadSizeTFromBytesBigEndian(b) = x
  <2>1. CASE n = 1
    <3>1. x < 256
      BY <2>1 DEF WithinBigEndian
    <3>2. QED
      BY <1>1, <1>5, <1>6, <2>1, <3>1, ReadSizeIs
  <2>2. CASE n = 2
    <3>1. x < 65536
      BY <2>2 DEF WithinBigEndian
    <3>2. ReadSizeTFromBytesBigEndian(b) = b[1] * 256 + b[2]
      BY <1>5, <2>2, ReadSizeIs
    <3>3. PICK C, U : C = (x \div 65536) % 256 /\ U = (x \div (256 * 65536)) % 256
      OBVIOUS
    <3>4. Digits(x, b[2], b[1], C, U)
      BY <1>7, <2>2, <3>3 DEF Digits
    <3>5. b[1] * 256 + b[2] = x
      BY <1>1, <3>1, <3>4, DigitsReturn
    <3>6. QED
      BY <3>2, <3>5
  <2>3. CASE n = 3
    <3>1. x < 256 * 65536
      BY <2>3 DEF WithinBigEndian
    <3>2. ReadSizeTFromBytesBigEndian(b) = (b[1] * 256 + b[2]) * 256 + b[3]
      BY <1>5, <2>3, ReadSizeIs
    <3>3. PICK U : U = (x \div (256 * 65536)) % 256
      OBVIOUS
    <3>4. Digits(x, b[3], b[2], b[1], U)
      BY <1>8, <2>3, <3>3 DEF Digits
    <3>5. (b[1] * 256 + b[2]) * 256 + b[3] = x
      BY <1>1, <3>1, <3>4, DigitsReturn
    <3>6. QED
      BY <3>2, <3>5
  <2>4. CASE n = 4
    <3>1. x < 65536 * 65536
      BY <2>4 DEF WithinBigEndian
    <3>2. ReadSizeTFromBytesBigEndian(b) = ((b[1] * 256 + b[2]) * 256 + b[3]) * 256 + b[4]
      BY <1>5, <2>4, ReadSizeIs
    <3>3. Digits(x, b[4], b[3], b[2], b[1])
      BY <1>9, <2>4 DEF Digits
    <3>4. ((b[1] * 256 + b[2]) * 256 + b[3]) * 256 + b[4] = x
      BY <1>1, <3>1, <3>3, DigitsReturn
    <3>5. QED
      BY <3>2, <3>4
  <2>5. QED
    BY <2>1, <2>2, <2>3, <2>4
<1>11. QED
  BY <1>4, <1>10 DEF b

-----------------------------------------------------------------------------
(* Tags and lengths.                                                       *)

\* The first elements of a sequence are these, and perhaps all of it is some of them.
Begins(d, s) == Holds(d, 0, s)
Short(d, s) == Len(d) < Len(s) /\ \A i \in 1 .. Len(d) : d[i] = s[i]

MaxLength == 256 * 65536
LEMMA LengthEncodingIs ==
    ASSUME NEW n \in Nat, n < MaxLength
    PROVE  LET e == GetLengthEncoding(n) IN
           \/ n <= 127 /\ e = <<n>>
           \/ n > 127 /\ \E k \in 1 .. 3 :
                /\ WithinBigEndian(n, k)
                /\ e = <<128 + k>> \o GetBytesBigEndianFromBitMap(n, k)
<1> DEFINE Q(k) == 256 ^ (k - 1) <= n /\ n < 256 ^ k
           k == CHOOSE j \in 1 .. 3 : Q(j)
<1>1. /\ Q(1) <=> 1 <= n /\ n < 256
      /\ Q(2) <=> 256 <= n /\ n < 65536
      /\ Q(3) <=> 65536 <= n /\ n < MaxLength
  <2>1. 256 ^ (1 - 1) = 1 /\ 256 ^ (2 - 1) = 256 /\ 256 ^ (3 - 1) = 65536
    BY Powers
  <2>2. QED
    BY <2>1, Powers DEF MaxLength
<1>2. CASE n <= 127
  BY <1>2 DEF GetLengthEncoding, LengthFormShortMax
<1>3. CASE n > 127
  <2>1. Q(1) \/ Q(2) \/ Q(3)
    BY <1>1, <1>3
  <2> HIDE DEF Q
  <2>2. k \in 1 .. 3 /\ Q(k)
    BY <2>1
  <2>3. GetLengthEncoding(n) = <<128 + k>> \o GetBytesBigEndianFromBitMap(n, k)
    BY <1>3 DEF GetLengthEncoding, LengthFormShortMax, Q
  <2> HIDE DEF k
  <2>4. k = 1 \/ k = 2 \/ k = 3
    BY <2>2
  <2>5. WithinBigEndian(n, k)
    BY <1>1, <2>2, <2>4 DEF WithinBigEndian, MaxLength
  <2>6. QED
    BY <1>3, <2>2, <2>3, <2>5
<1>4. QED
  BY <1>2, <1>3

\* The long form of a length.
LEMMA LongFormIs ==
    ASSUME NEW n \in Nat, NEW k \in 1 .. 3, WithinBigEndian(n, k)
    PROVE  LET e == <<128 + k>> \o GetBytesBigEndianFromBitMap(n, k) IN
           /\ e \in Seq(Int) /\ Len(e) = 1 + k /\ e[1] = 128 + k
           /\ \A i \in 1 .. k : e[1 + i] = GetBytesBigEndianFromBitMap(n, k)[i]
<1> DEFINE b == GetBytesBigEndianFromBitMap(n, k)
           a == <<128 + k>>
<1>1. b \in [1 .. k -> 0 .. 255]
  <2>1. k \in 1 .. 4
    OBVIOUS
  <2>2. QED
    BY <2>1, BigEndianReturns
<1> HIDE DEF b
<1>2. b \in Seq(Int) /\ Len(b) = k
  <2>1. \A i \in 1 .. k : b[i] \in 0 .. 255
    BY <1>1
  <2>2. b \in [1 .. k -> Int]
    <3>1. b = [i \in 1 .. k |-> b[i]]
      BY <1>1
    <3>2. \A i \in 1 .. k : b[i] \in Int
      BY <2>1
    <3>3. QED
      BY <3>1, <3>2
  <2>3. QED
    BY <2>2
<1>3. a \in Seq(Int) /\ Len(a) = 1 /\ a[1] = 128 + k
  OBVIOUS
<1> HIDE DEF a
<1>4. a \o b \in Seq(Int) /\ Len(a \o b) = 1 + k
      /\ \A i \in 1 .. 1 + k : (a \o b)[i] = IF i <= 1 THEN a[i] ELSE b[i - 1]
  <2>1. /\ a \o b \in Seq(Int)
        /\ Len(a \o b) = Len(a) + Len(b)
        /\ \A i \in 1 .. Len(a) + Len(b) :
             (a \o b)[i] = IF i <= Len(a) THEN a[i] ELSE b[i - Len(a)]
    BY <1>2, <1>3, ConcatProperties
  <2>2. QED
    BY <1>2, <1>3, <2>1
<1>5. (a \o b)[1] = a[1]
  <2>1. 1 \in 1 .. 1 + k
    OBVIOUS
  <2>2. QED
    BY <1>4, <2>1
<1>6. ASSUME NEW i \in 1 .. k PROVE (a \o b)[1 + i] = b[i]
  <2>1. 1 + i \in 1 .. 1 + k /\ ~(1 + i <= 1) /\ (1 + i) - 1 = i
    OBVIOUS
  <2>2. QED
    BY <1>4, <2>1
<1>7. QED
  BY <1>3, <1>4, <1>5, <1>6 DEF a, b

LEMMA LengthReturns ==
    ASSUME NEW n \in Nat, n < MaxLength
    PROVE  LET e == GetLengthEncoding(n) IN
           /\ e \in Seq(Int) /\ Len(e) \in 1 .. 4
           /\ \A d \in Seq(Int) : Begins(d, e) =>
                ParseLength(d).bytes = Len(e) /\ ParseLength(d).length = n
           /\ \A d \in Seq(Int) : Short(d, e) => ParseLength(d).bytes = 0
<1> DEFINE e == GetLengthEncoding(n)
<1>1. CASE n <= 127
  <2>1. e = <<n>>
    BY <1>1, LengthEncodingIs
  <2>2. e \in Seq(Int) /\ Len(e) = 1 /\ e[1] = n
    BY <2>1
  <2> HIDE DEF e
  <2>3. ASSUME NEW d \in Seq(Int), Begins(d, e)
        PROVE  ParseLength(d).bytes = Len(e) /\ ParseLength(d).length = n
    <3>1. Len(d) \in Nat /\ Len(d) >= 1 /\ d[0 + 1] = e[1]
      <4>1. 0 + Len(e) <= Len(d) /\ \A i \in 1 .. Len(e) : d[0 + i] = e[i]
        BY <2>3 DEF Begins, Holds
      <4>2. 1 \in 1 .. Len(e)
        BY <2>2
      <4>3. QED
        BY <2>2, <4>1, <4>2, LenProperties
    <3>2. d[1] = n /\ d # << >>
      BY <2>2, <3>1
    <3>3. QED
      BY <1>1, <2>2, <3>1, <3>2 DEF ParseLength, LengthFormShortMax, MaxNumOctetsInLengthEncoding
  <2>4. ASSUME NEW d \in Seq(Int), Short(d, e) PROVE ParseLength(d).bytes = 0
    <3>1. d = << >>
      BY <2>2, <2>4, LenProperties, EmptySeq DEF Short
    <3>2. QED
      BY <3>1 DEF ParseLength
  <2>5. QED
    BY <2>2, <2>3, <2>4 DEF e
<1>2. CASE n > 127
  <2>1. PICK k \in 1 .. 3 : WithinBigEndian(n, k)
                            /\ e = <<128 + k>> \o GetBytesBigEndianFromBitMap(n, k)
    BY <1>2, LengthEncodingIs
  <2> DEFINE b == GetBytesBigEndianFromBitMap(n, k)
  <2>2. /\ e \in Seq(Int) /\ Len(e) = 1 + k /\ e[1] = 128 + k
        /\ \A i \in 1 .. k : e[1 + i] = b[i]
    BY <2>1, LongFormIs
  <2>3. b \in [1 .. k -> 0 .. 255] /\ ReadSizeTFromBytesBigEndian(b) = n
    <3>1. k \in 1 .. 4
      OBVIOUS
    <3>2. QED
      BY <2>1, <3>1, BigEndianReturns
  <2> HIDE DEF e, b
  <2>4. ASSUME NEW d \in Seq(Int), Begins(d, e)
        PROVE  ParseLength(d).bytes = Len(e) /\ ParseLength(d).length = n
    <3>1. Len(d) \in Nat /\ 1 + k <= Len(d) /\ \A i \in 1 .. 1 + k : d[i] = e[i]
      <4>1. 0 + Len(e) <= Len(d) /\ \A i \in 1 .. Len(e) : d[0 + i] = e[i]
        BY <2>4 DEF Begins, Holds
      <4>2. QED
        BY <2>2, <4>1, LenProperties
    <3>2. d # << >> /\ d[1] = 128 + k
      BY <2>2, <3>1
    <3> DEFINE s == SubSeq(d, 2, 1 + k)
    <3>3. s = b
      <4>1. PICK m : m = 1 + k
        OBVIOUS
      <4>2. m \in Int /\ m - 2 + 1 = k
        BY <4>1
      <4>3. \A i \in 2 .. m : d[i] \in Int
        <5> TAKE i \in 2 .. m
        <5>1. i \in 1 .. Len(d)
          BY <3>1, <4>1
        <5>2. QED
          BY <5>1, ElementOfSeq
      <4> DEFINE t == SubSeq(d, 2, m)
      <4>4. t \in Seq(Int) /\ Len(t) = (IF 2 <= m THEN m - 2 + 1 ELSE 0)
            /\ \A i \in 1 .. m - 2 + 1 : t[i] = d[2 + i - 1]
        BY <4>2, <4>3, SubSeqProperties
      <4> HIDE DEF t
      <4>5. Len(t) = k
        BY <4>1, <4>4
      <4>6. ASSUME NEW i \in 1 .. k PROVE t[i] = b[i]
        <5>1. t[i] = d[2 + i - 1] /\ 2 + i - 1 = 1 + i /\ 1 + i \in 1 .. 1 + k
          BY <4>2, <4>4
        <5>2. QED
          BY <2>2, <3>1, <5>1
      <4>7. t = [i \in 1 .. k |-> t[i]] /\ b = [i \in 1 .. k |-> b[i]]
        BY <2>3, <4>4, <4>5
      <4>8. QED
        BY <4>1, <4>6, <4>7 DEF t
    <3>4. ParseLength(d) = [bytes |-> 1 + k, length |-> ReadSizeTFromBytesBigEndian(s)]
      <4>1. 128 + k > 127 /\ ~(128 + k <= 127) /\ (128 + k) - 128 = k /\ ~(k >= 5) /\ ~(Len(d) < 1 + k)
        BY <3>1
      <4> HIDE DEF s
      <4>2. QED
        BY <3>2, <4>1 DEF ParseLength, LengthFormShortMax, MaxNumOctetsInLengthEncoding, s
    <3> HIDE DEF s
    <3>5. QED
      BY <2>2, <2>3, <3>3, <3>4
  <2>5. ASSUME NEW d \in Seq(Int), Short(d, e) PROVE ParseLength(d).bytes = 0
    <3>1. Len(d) \in Nat /\ Len(d) < 1 + k /\ \A i \in 1 .. Len(d) : d[i] = e[i]
      BY <2>2, <2>5, LenProperties DEF Short
    <3>2. CASE d = << >>
      BY <3>2 DEF ParseLength
    <3>3. CASE d # << >>
      <4>1. d[1] = 128 + k
        BY <2>2, <3>1, <3>3, LenProperties, EmptySeq
      <4>2. 128 + k > 127 /\ (128 + k) - 128 = k /\ Len(d) < 1 + k
        BY <3>1
      <4>3. QED
        BY <3>3, <4>1, <4>2 DEF ParseLength, LengthFormShortMax
    <3>4. QED
      BY <3>2, <3>3
  <2>6. QED
    BY <2>2, <2>4, <2>5 DEF e
<1>3. QED
  BY <1>1, <1>2

\* The tags of one and of two bytes that there are.
PlainTag(tag) == (\E b \in 0 .. 255 : tag = <<b>> /\ b % 32 # 31) \/ tag = <<191, 120>>

LEMMA TagReturns ==
    ASSUME NEW tag, PlainTag(tag)
    PROVE  /\ tag \in Seq(Int) /\ Len(tag) \in 1 .. 2
           /\ \A d \in Seq(Int) : Begins(d, tag) => ParseTag(d) = Len(tag)
           /\ \A d \in Seq(Int) : Short(d, tag) => ParseTag(d) = 0
<1>1. ASSUME NEW b \in 0 .. 255, tag = <<b>>, b % 32 # 31
      PROVE  /\ tag \in Seq(Int) /\ Len(tag) \in 1 .. 2
             /\ \A d \in Seq(Int) : Begins(d, tag) => ParseTag(d) = Len(tag)
             /\ \A d \in Seq(Int) : Short(d, tag) => ParseTag(d) = 0
  <2>1. tag \in Seq(Int) /\ Len(tag) = 1 /\ tag[1] = b
    BY <1>1
  <2>2. ASSUME NEW d \in Seq(Int), Begins(d, tag) PROVE ParseTag(d) = Len(tag)
    <3>1. 0 + Len(tag) <= Len(d) /\ \A i \in 1 .. Len(tag) : d[0 + i] = tag[i]
      BY <2>2 DEF Begins, Holds
    <3>2. 1 \in 1 .. Len(tag)
      BY <2>1
    <3>3. d[1] = b /\ d # << >>
      BY <2>1, <3>1, <3>2
    <3>4. QED
      BY <1>1, <2>1, <3>3 DEF ParseTag, TagValueLongField
  <2>3. ASSUME NEW d \in Seq(Int), Short(d, tag) PROVE ParseTag(d) = 0
    <3>1. d = << >>
      BY <2>1, <2>3, LenProperties, EmptySeq DEF Short
    <3>2. QED
      BY <3>1 DEF ParseTag
  <2>4. QED
    BY <2>1, <2>2, <2>3
<1>2. ASSUME tag = <<191, 120>>
      PROVE  /\ tag \in Seq(Int) /\ Len(tag) \in 1 .. 2
             /\ \A d \in Seq(Int) : Begins(d, tag) => ParseTag(d) = Len(tag)
             /\ \A d \in Seq(Int) : Short(d, tag) => ParseTag(d) = 0
  <2>1. tag \in Seq(Int) /\ Len(tag) = 2 /\ tag[1] = 191 /\ tag[2] = 120
    BY <1>2
  <2>2. ASSUME NEW d \in Seq(Int), Begins(d, tag) PROVE ParseTag(d) = Len(tag)
    <3>1. 0 + Len(tag) <= Len(d) /\ \A i \in 1 .. Len(tag) : d[0 + i] = tag[i]
      BY <2>2 DEF Begins, Holds
    <3>2. 1 \in 1 .. Len(tag) /\ 2 \in 1 .. Len(tag)
      BY <2>1
    <3>3. d[1] = 191 /\ d[2] = 120 /\ d # << >> /\ Len(d) \in Nat /\ ~(Len(d) < 2)
      BY <2>1, <3>1, <3>2, LenProperties
    <3>4. QED
      BY <2>1, <3>3 DEF ParseTag, TagValueLongField
  <2>3. ASSUME NEW d \in Seq(Int), Short(d, tag) PROVE ParseTag(d) = 0
    <3>1. Len(d) \in Nat /\ Len(d) < 2 /\ \A i \in 1 .. Len(d) : d[i] = tag[i]
      BY <2>1, <2>3, LenProperties DEF Short
    <3>2. CASE d = << >>
      BY <3>2 DEF ParseTag
    <3>3. CASE d # << >>
      <4>1. d[1] = 191
        BY <2>1, <3>1, <3>3, LenProperties, EmptySeq
      <4>2. QED
        BY <3>1, <3>3, <4>1 DEF ParseTag, TagValueLongField
    <3>4. QED
      BY <3>2, <3>3
  <2>4. QED
    BY <2>1, <2>2, <2>3
<1>3. QED
  BY <1>1, <1>2 DEF PlainTag

-----------------------------------------------------------------------------
(* Objects that are written and read.                                      *)

\* An object's bytes: tag, length and value, one behind the other.
LEMMA EncodedIs ==
    ASSUME NEW tag, PlainTag(tag), NEW value \in Seq(Int), Len(value) < MaxLength
    PROVE  LET l == GetLengthEncoding(Len(value)) IN
           /\ Encoded(tag, value) \in Seq(Int)
           /\ Len(Encoded(tag, value)) = Len(tag) + Len(l) + Len(value)
           /\ Holds(Encoded(tag, value), 0, tag)
           /\ Holds(Encoded(tag, value), Len(tag), l)
           /\ Holds(Encoded(tag, value), Len(tag) + Len(l), value)
<1> DEFINE l == GetLengthEncoding(Len(value))
           a == tag \o l
           b == a \o value
<1>1. tag \in Seq(Int) /\ Len(tag) \in 1 .. 2
  BY TagReturns
<1>2. l \in Seq(Int) /\ Len(l) \in 1 .. 4
  BY LenProperties, LengthReturns
<1> HIDE DEF l
<1>3. a \in Seq(Int) /\ Len(a) = Len(tag) + Len(l)
  BY <1>1, <1>2, ConcatProperties
<1>4. Holds(a, 0, tag)
  <2>1. \A i \in 1 .. Len(tag) + Len(l) : a[i] = IF i <= Len(tag) THEN tag[i] ELSE l[i - Len(tag)]
    BY <1>1, <1>2, ConcatProperties
  <2>2. ASSUME NEW i \in 1 .. Len(tag) PROVE a[0 + i] = tag[i]
    <3>1. i \in 1 .. Len(tag) + Len(l) /\ i <= Len(tag) /\ 0 + i = i
      BY <1>1, <1>2
    <3>2. QED
      BY <2>1, <3>1
  <2>3. 0 + Len(tag) <= Len(a)
    BY <1>1, <1>2, <1>3
  <2>4. QED
    BY <2>2, <2>3 DEF Holds
<1>5. Holds(a, Len(tag), l)
  BY <1>1, <1>2, ConcatAdds
<1> HIDE DEF a
<1>6. b \in Seq(Int) /\ Len(b) = Len(a) + Len(value)
  BY <1>3, ConcatProperties
<1>7. Holds(b, Len(a), value)
  BY <1>3, ConcatAdds
<1>8. Holds(b, 0, tag) /\ Holds(b, Len(tag), l)
  <2>1. 0 \in Nat /\ Len(tag) \in Nat
    BY <1>1
  <2>2. QED
    BY <1>1, <1>2, <1>3, <1>4, <1>5, <2>1, ConcatKeeps
<1>9. Encoded(tag, value) = b
  BY DEF Encoded, b, a, l
<1> HIDE DEF b
<1>10. QED
  BY <1>3, <1>6, <1>7, <1>8, <1>9 DEF l

\* What is in a sequence is in what is left of it.
LEMMA HoldsInRest ==
    ASSUME NEW d \in Seq(Int), NEW n \in 0 .. Len(d), NEW s \in Seq(Int), NEW at \in Nat,
           Holds(d, n + at, s)
    PROVE  Holds(Subspan(d, n), at, s)
<1>1. PICK l \in Nat : l = Len(d)
  BY LenProperties
<1>2. PICK m \in Nat : m = Len(s)
  BY LenProperties
<1>3. (n + at) + m <= l /\ \A k \in 1 .. m : d[(n + at) + k] = s[k]
  BY <1>1, <1>2 DEF Holds
<1>4. Len(Subspan(d, n)) = l - n /\ \A i \in 1 .. l - n : Subspan(d, n)[i] = d[n + i]
  BY <1>1, SubspanIs
<1>5. n \in 0 .. l
  BY <1>1
<1>6. ASSUME NEW k \in 1 .. m PROVE Subspan(d, n)[at + k] = s[k]
  <2>1. at + k \in 1 .. l - n /\ n + (at + k) = (n + at) + k
    BY <1>3, <1>5
  <2>2. QED
    BY <1>3, <1>4, <2>1
<1>7. at + m <= l - n
  BY <1>3, <1>5
<1>8. QED
  BY <1>2, <1>4, <1>6, <1>7 DEF Holds

\* The first elements, when they are known.
LEMMA BeginningIs ==
    ASSUME NEW d \in Seq(Int), NEW s \in Seq(Int), Begins(d, s)
    PROVE  SubSeq(d, 1, Len(s)) = s
<1>1. PICK m \in Nat : m = Len(s)
  BY LenProperties
<1>2. PICK l \in Nat : l = Len(d)
  BY LenProperties
<1>3. m <= l /\ \A k \in 1 .. m : d[k] = s[k]
  <2>1. 0 + m <= l /\ \A k \in 1 .. m : d[0 + k] = s[k]
    BY <1>1, <1>2 DEF Begins, Holds
  <2>2. QED
    BY <2>1
<1> DEFINE t == SubSeq(d, 1, m)
<1>4. \A i \in 1 .. m : d[i] \in Int
  <2> TAKE i \in 1 .. m
  <2>1. i \in 1 .. Len(d)
    BY <1>2, <1>3
  <2>2. QED
    BY <2>1, ElementOfSeq
<1>5. t \in Seq(Int) /\ Len(t) = (IF 1 <= m THEN m - 1 + 1 ELSE 0)
      /\ \A i \in 1 .. m - 1 + 1 : t[i] = d[1 + i - 1]
  BY <1>4, m \in Int, SubSeqProperties
<1> HIDE DEF t
<1>6. Len(t) = m
  BY <1>5
<1>7. ASSUME NEW i \in 1 .. m PROVE t[i] = s[i]
  <2>1. i \in 1 .. m - 1 + 1 /\ 1 + i - 1 = i
    OBVIOUS
  <2>2. QED
    BY <1>3, <1>5, <2>1
<1>8. t = s
  BY <1>1, <1>5, <1>6, <1>7, SeqEqual
<1>9. QED
  BY <1>1, <1>8 DEF t

\* What the parser finds in front of an object's value.
LEMMA HeaderReturns ==
    ASSUME NEW tag, PlainTag(tag), NEW value \in Seq(Int), Len(value) < MaxLength,
           NEW d \in Seq(Int), Begins(d, Encoded(tag, value))
    PROVE  LET l == ParseLength(Subspan(d, Len(tag))) IN
           /\ ParseTag(d) = Len(tag) /\ Len(tag) \in 1 .. 2 /\ SubSeq(d, 1, Len(tag)) = tag
           /\ l.bytes \in 1 .. 4 /\ l.length = Len(value)
           /\ Len(tag) + l.bytes \in 1 .. Len(d)
           /\ Len(Encoded(tag, value)) = Len(tag) + l.bytes + Len(value)
           /\ Holds(d, Len(tag) + l.bytes, value)
<1> DEFINE e == Encoded(tag, value)
           g == GetLengthEncoding(Len(value))
           rest == Subspan(d, Len(tag))
<1>1. /\ e \in Seq(Int) /\ Len(e) = Len(tag) + Len(g) + Len(value)
      /\ Holds(e, 0, tag) /\ Holds(e, Len(tag), g) /\ Holds(e, Len(tag) + Len(g), value)
  BY EncodedIs
<1>2. tag \in Seq(Int) /\ Len(tag) \in 1 .. 2
      /\ \A x \in Seq(Int) : Begins(x, tag) => ParseTag(x) = Len(tag)
  BY TagReturns
<1>3. Len(value) \in Nat /\ Len(d) \in Nat
  BY LenProperties
<1>4. g \in Seq(Int) /\ Len(g) \in 1 .. 4
      /\ \A x \in Seq(Int) : Begins(x, g) =>
           ParseLength(x).bytes = Len(g) /\ ParseLength(x).length = Len(value)
  BY <1>3, LengthReturns
<1> HIDE DEF e, g
<1>5. Holds(d, 0, e)
  BY DEF Begins, e
<1>6. Holds(d, 0 + 0, tag) /\ Holds(d, 0 + Len(tag), g) /\ Holds(d, 0 + (Len(tag) + Len(g)), value)
  <2>1. 0 \in Nat /\ Len(tag) \in Nat /\ Len(tag) + Len(g) \in Nat
    BY <1>2, <1>4
  <2>2. QED
    BY <1>1, <1>2, <1>4, <1>5, <2>1, HoldsThrough
<1>7. Holds(d, 0, tag) /\ Holds(d, Len(tag), g) /\ Holds(d, Len(tag) + Len(g), value)
  BY <1>2, <1>4, <1>6
<1>8. ParseTag(d) = Len(tag) /\ SubSeq(d, 1, Len(tag)) = tag
  BY <1>2, <1>7, BeginningIs DEF Begins
<1>9. 0 + Len(e) <= Len(d)
  BY <1>5 DEF Holds
<1>10. Len(tag) \in 0 .. Len(d) /\ Len(tag) + Len(g) \in 1 .. Len(d)
  <2>1. PICK x \in 1 .. 2, y \in 1 .. 4, v \in Nat, z \in Nat :
          x = Len(tag) /\ y = Len(g) /\ v = Len(value) /\ z = Len(d)
    BY <1>2, <1>3, <1>4
  <2>2. x + y + v <= z
    BY <1>1, <1>9, <2>1
  <2>3. QED
    BY <2>1, <2>2
<1>11. rest \in Seq(Int) /\ Begins(rest, g)
  <2>1. rest \in Seq(Int)
    BY <1>10, SubspanIs
  <2>2. Len(tag) + 0 = Len(tag)
    BY <1>2
  <2>3. Holds(d, Len(tag) + 0, g)
    BY <1>7, <2>2
  <2>4. Holds(rest, 0, g)
    BY <1>4, <1>10, <2>3, HoldsInRest
  <2>5. QED
    BY <2>1, <2>4 DEF Begins
<1> HIDE DEF rest
<1>12. ParseLength(rest).bytes = Len(g) /\ ParseLength(rest).length = Len(value)
  BY <1>4, <1>11
<1>13. QED
  BY <1>1, <1>2, <1>4, <1>7, <1>8, <1>10, <1>12 DEF rest, e

-----------------------------------------------------------------------------
(* The objects themselves.                                                 *)

\* Wherever the bytes are, the parser makes this object of them.
Returns(bytes, tlv) ==
    /\ bytes \in Seq(Int) /\ Len(bytes) # 0
    /\ \A data \in Seq(Int) : \A at \in 0 .. Len(data) : Holds(data, at, bytes) =>
         ParseFirst(Subspan(data, at), ParseConstructedValue(data)) = Succeeded(Len(bytes), tlv)

\* What is found at a place, and what is behind it.
LEMMA PlaceIs ==
    ASSUME NEW data \in Seq(Int), NEW at \in 0 .. Len(data), NEW s \in Seq(Int), Holds(data, at, s)
    PROVE  /\ Subspan(data, at) \in Seq(Int)
           /\ Len(Subspan(data, at)) = Len(data) - at
           /\ Begins(Subspan(data, at), s)
<1>1. PICK n : n = at
  OBVIOUS
<1>2. n \in 0 .. Len(data) /\ n + 0 = n /\ 0 \in Nat /\ Holds(data, n + 0, s)
  BY <1>1, LenProperties
<1>3. Holds(Subspan(data, n), 0, s)
  BY <1>2, HoldsInRest
<1>4. QED
  BY <1>1, <1>2, <1>3, SubspanIs DEF Begins

LEMMA PrimitiveReturns ==
    ASSUME NEW tag, PlainTag(tag), ~TypeConstructed(tag[1]),
           NEW value \in Seq(Int), Len(value) < MaxLength
    PROVE  Returns(Encoded(tag, value), Primitive(tag, value))
<1> DEFINE e == Encoded(tag, value)
<1>1. e \in Seq(Int) /\ Len(e) # 0
  <2>1. Len(tag) \in 1 .. 2 /\ Len(value) \in Nat /\ Len(GetLengthEncoding(Len(value))) \in 1 .. 4
    BY TagReturns, LengthReturns, LenProperties
  <2>2. QED
    BY <2>1, EncodedIs
<1>2. ASSUME NEW data \in Seq(Int), NEW at \in 0 .. Len(data), Holds(data, at, e), NEW table
      PROVE  ParseFirst(Subspan(data, at), table) = Succeeded(Len(e), Primitive(tag, value))
  <2> DEFINE d == Subspan(data, at)
             l == ParseLength(Subspan(d, Len(tag)))
             h == Len(tag) + l.bytes
             v == Subspan(d, h)
  <2>1. d \in Seq(Int) /\ Begins(d, e)
    <3> HIDE DEF e
    <3>1. QED
      BY <1>1, <1>2, PlaceIs
  <2> HIDE DEF d
  <2>2. /\ ParseTag(d) = Len(tag) /\ Len(tag) \in 1 .. 2 /\ SubSeq(d, 1, Len(tag)) = tag
        /\ l.bytes \in 1 .. 4 /\ l.length = Len(value)
        /\ h \in 1 .. Len(d)
        /\ Len(e) = h + Len(value)
        /\ Holds(d, h, value)
    BY <2>1, HeaderReturns
  <2> HIDE DEF e, l
  <2>3. Begins(v, value) /\ v \in Seq(Int)
    <3> HIDE DEF h
    <3>1. h \in 0 .. Len(d)
      BY <2>2
    <3>2. QED
      BY <2>1, <2>2, <3>1, PlaceIs
  <2>4. ~(Len(v) < Len(value)) /\ SubSeq(v, 1, Len(value)) = value
    <3> HIDE DEF v
    <3>1. SubSeq(v, 1, Len(value)) = value
      BY <2>3, BeginningIs
    <3>2. 0 + Len(value) <= Len(v)
      BY <2>3 DEF Begins, Holds
    <3>3. Len(v) \in Nat /\ Len(value) \in Nat
      BY <2>3, LenProperties
    <3>4. QED
      BY <3>1, <3>2, <3>3
  <2>5. ParsePrimitiveValue(tag, Len(value), v) = Succeeded(Len(value), Primitive(tag, value))
    <3> HIDE DEF v
    <3>1. QED
      BY <2>4 DEF ParsePrimitiveValue
  <2>6. Len(tag) # 0 /\ l.bytes # 0
    BY <2>2, SMTT(40)
  <2> HIDE DEF v
  <2>7. ParseFirst(d, table) = Succeeded(h + Len(value), Primitive(tag, value))
    <3>1. v = Subspan(d, Len(tag) + l.bytes)
      BY DEF v
    <3>2. l = ParseLength(Subspan(d, ParseTag(d)))
      BY <2>2 DEF l
    <3>3. Succeeded(Len(value), Primitive(tag, value)).succeeded
          /\ Succeeded(Len(value), Primitive(tag, value)).bytesParsed = Len(value)
          /\ Succeeded(Len(value), Primitive(tag, value)).tlv = Primitive(tag, value)
      BY DEF Succeeded
    <3>4. QED
      BY <2>2, <2>4, <2>5, <2>6, <3>1, <3>2, <3>3 DEF ParseFirst, Behind
  <2>8. QED
    BY <2>2, <2>7 DEF d
<1> HIDE DEF e
<1>3. QED
  BY <1>1, <1>2 DEF Returns, e

\* An object of which not all bytes are there.
LEMMA BeginningFails ==
    ASSUME NEW tag, PlainTag(tag), NEW value \in Seq(Int), Len(value) < MaxLength,
           NEW d \in Seq(Int), Short(d, Encoded(tag, value)), NEW table
    PROVE  ParseFirst(d, table) = Failed
<1> DEFINE g == GetLengthEncoding(Len(value))
           e == Encoded(tag, value)
           l == ParseLength(Subspan(d, Len(tag)))
<1>1. /\ e \in Seq(Int) /\ Len(e) = Len(tag) + Len(g) + Len(value)
      /\ Holds(e, 0, tag) /\ Holds(e, Len(tag), g)
  BY EncodedIs
<1>2. tag \in Seq(Int) /\ Len(tag) \in 1 .. 2
      /\ (\A x \in Seq(Int) : Begins(x, tag) => ParseTag(x) = Len(tag))
      /\ (\A x \in Seq(Int) : Short(x, tag) => ParseTag(x) = 0)
  BY TagReturns
<1>3. Len(value) \in Nat /\ Len(d) \in Nat
  BY LenProperties
<1>4. g \in Seq(Int) /\ Len(g) \in 1 .. 4
      /\ (\A x \in Seq(Int) : Begins(x, g) =>
            ParseLength(x).bytes = Len(g) /\ ParseLength(x).length = Len(value))
      /\ (\A x \in Seq(Int) : Short(x, g) => ParseLength(x).bytes = 0)
  BY <1>3, LengthReturns
<1> HIDE DEF g, e
<1>5. Len(d) < Len(e) /\ \A i \in 1 .. Len(d) : d[i] = e[i]
  BY DEF Short, e
<1>6. PICK x \in 1 .. 2, y \in 1 .. 4, v \in Nat, z \in Nat :
        x = Len(tag) /\ y = Len(g) /\ v = Len(value) /\ z = Len(d)
  BY <1>2, <1>3, <1>4
<1>7. z < x + y + v /\ Len(e) = x + y + v /\ \A i \in 1 .. z : d[i] = e[i]
  BY <1>1, <1>5, <1>6
<1>8. (\A i \in 1 .. x : e[i] = tag[i]) /\ (\A i \in 1 .. y : e[x + i] = g[i])
  <2>1. (\A i \in 1 .. x : e[0 + i] = tag[i]) /\ (\A i \in 1 .. y : e[x + i] = g[i])
    BY <1>1, <1>6 DEF Holds
  <2>2. QED
    BY <2>1
<1>9. CASE z < x
  <2>1. Short(d, tag)
    <3>1. ASSUME NEW i \in 1 .. z PROVE d[i] = tag[i]
      <4>1. i \in 1 .. x
        BY <1>9
      <4>2. QED
        BY <1>7, <1>8, <4>1
    <3>2. QED
      BY <1>6, <1>9, <3>1 DEF Short
  <2>2. ParseTag(d) = 0
    BY <1>2, <2>1
  <2>3. QED
    BY <2>2 DEF ParseFirst, Behind
<1>10. CASE ~(z < x)
  <2>1. ParseTag(d) = x
    <3>1. ASSUME NEW i \in 1 .. x PROVE d[0 + i] = tag[i]
      <4>1. i \in 1 .. z /\ 0 + i = i
        BY <1>10
      <4>2. QED
        BY <1>7, <1>8, <4>1
    <3>2. 0 + x <= z
      BY <1>10
    <3>3. Begins(d, tag)
      BY <1>6, <3>1, <3>2 DEF Begins, Holds
    <3>4. QED
      BY <1>2, <1>6, <3>3
  <2> DEFINE r == Subspan(d, x)
  <2>2. x \in 0 .. Len(d) /\ x \in 0 .. z
    BY <1>6, <1>10
  <2>3. r \in Seq(Int) /\ Len(r) = z - x /\ \A i \in 1 .. z - x : r[i] = d[x + i]
    BY <1>6, <2>2, SubspanIs
  <2> HIDE DEF r
  <2>4. CASE z - x < y
    <3>1. ASSUME NEW i \in 1 .. z - x PROVE r[i] = g[i]
      <4>1. x + i \in 1 .. z /\ i \in 1 .. y
        BY <2>2, <2>4
      <4>2. QED
        BY <1>7, <1>8, <2>3, <4>1
    <3>2. Short(r, g)
      BY <1>6, <2>3, <2>4, <3>1 DEF Short
    <3>3. ParseLength(r).bytes = 0
      BY <1>4, <2>3, <3>2
    <3>4. QED
      BY <2>1, <3>3 DEF ParseFirst, Behind, r
  <2>5. CASE ~(z - x < y)
    <3>1. ASSUME NEW i \in 1 .. y PROVE r[0 + i] = g[i]
      <4>1. i \in 1 .. z - x /\ x + i \in 1 .. z /\ 0 + i = i
        BY <2>2, <2>5
      <4>2. QED
        BY <1>7, <1>8, <2>3, <4>1
    <3>2. 0 + y <= z - x
      BY <2>5
    <3>3. Begins(r, g)
      BY <1>6, <2>3, <3>1, <3>2 DEF Begins, Holds
    <3>4. ParseLength(r).bytes = y /\ ParseLength(r).length = v
      BY <1>4, <1>6, <2>3, <3>3
    <3>5. PICK h : h = x + y
      OBVIOUS
    <3>6. h \in 0 .. Len(d)
      BY <1>6, <2>2, <2>5, <3>5
    <3>7. Len(Subspan(d, h)) = Len(d) - h
      BY <3>6, SubspanIs
    <3>8. Len(Subspan(d, h)) < v
      BY <1>6, <1>7, <3>5, <3>7
    <3>9. QED
      BY <2>1, <3>4, <3>5, <3>8 DEF ParseFirst, Behind, r
  <2>6. QED
    BY <2>4, <2>5
<1>11. QED
  BY <1>9, <1>10

-----------------------------------------------------------------------------
(* Objects in an object.                                                   *)

\* The first of the objects that are left, in front of the others.
LEMMA LeftIs ==
    ASSUME NEW S, NEW m \in Nat, NEW t \in [1 .. m -> S], NEW i \in 1 .. m
    PROVE  <<t[i]>> \o [j \in 1 .. m - i |-> t[i + j]] = [j \in 1 .. m - (i - 1) |-> t[(i - 1) + j]]
<1> DEFINE a == <<t[i]>>
           b == [j \in 1 .. m - i |-> t[i + j]]
           c == [j \in 1 .. m - (i - 1) |-> t[(i - 1) + j]]
<1>1. a \in Seq(S) /\ Len(a) = 1 /\ a[1] = t[i]
  OBVIOUS
<1>2. PICK n \in Nat : n = m - i
  OBVIOUS
<1>3. b \in Seq(S) /\ Len(b) = n /\ \A j \in 1 .. n : b[j] = t[i + j]
  <2>1. \A j \in 1 .. n : t[i + j] \in S
    BY <1>2
  <2>2. b \in [1 .. n -> S]
    BY <1>2, <2>1
  <2>3. QED
    BY <1>2, <2>2
<1>4. c \in Seq(S) /\ Len(c) = n + 1 /\ \A j \in 1 .. n + 1 : c[j] = t[(i - 1) + j]
  <2>1. m - (i - 1) = n + 1
    BY <1>2
  <2>2. \A j \in 1 .. n + 1 : t[(i - 1) + j] \in S
    <3> TAKE j \in 1 .. n + 1
    <3>1. (i - 1) + j \in 1 .. m
      BY <1>2
    <3>2. QED
      BY <3>1
  <2>3. c \in [1 .. n + 1 -> S]
    BY <2>1, <2>2
  <2>4. n + 1 \in Nat
    BY <1>2
  <2>5. QED
    BY <2>1, <2>3, <2>4
<1> HIDE DEF a, b, c
<1>5. a \o b \in Seq(S) /\ Len(a \o b) = n + 1
      /\ \A j \in 1 .. n + 1 : (a \o b)[j] = IF j <= 1 THEN a[j] ELSE b[j - 1]
  <2>1. /\ a \o b \in Seq(S) /\ Len(a \o b) = Len(a) + Len(b)
        /\ \A j \in 1 .. Len(a) + Len(b) :
             (a \o b)[j] = IF j <= Len(a) THEN a[j] ELSE b[j - Len(a)]
    BY <1>1, <1>3, ConcatProperties
  <2>2. Len(a) + Len(b) = n + 1
    BY <1>1, <1>3
  <2>3. QED
    BY <1>1, <2>1, <2>2
<1>6. ASSUME NEW j \in 1 .. n + 1 PROVE (a \o b)[j] = c[j]
  <2>1. CASE j = 1
    <3>1. (a \o b)[j] = a[1]
      BY <1>5, <2>1
    <3>2. (i - 1) + 1 = i
      OBVIOUS
    <3>3. QED
      BY <1>1, <1>4, <2>1, <3>1, <3>2
  <2>2. CASE j # 1
    <3>1. j - 1 \in 1 .. n /\ ~(j <= 1) /\ i + (j - 1) = (i - 1) + j
      BY <2>2
    <3>2. (a \o b)[j] = b[j - 1] /\ b[j - 1] = t[i + (j - 1)]
      BY <1>3, <1>5, <3>1
    <3>3. QED
      BY <1>4, <3>1, <3>2
  <2>3. QED
    BY <2>1, <2>2
<1>7. a \o b = c
  BY <1>4, <1>5, <1>6, SeqEqual
<1>8. QED
  BY <1>7 DEF a, b, c

\* Objects that return alone do so behind one another.
LEMMA ValuesReturn ==
    ASSUME NEW S, NEW m \in Nat, NEW t \in [1 .. m -> S], NEW ss \in [1 .. m -> Seq(Int)],
           \A i \in 1 .. m : Returns(ss[i], t[i]),
           NEW data \in Seq(Int), NEW at \in 0 .. Len(data), Holds(data, at, FlattenSeq(ss))
    PROVE  ParseConstructedValue(data)[Len(data) - at][Len(FlattenSeq(ss))]
             = Succeeded(Len(FlattenSeq(ss)), t)
<1> DEFINE T == ParseConstructedValue(data)
           f == FlattenSeq(ss)
           length == [i \in 1 .. m |-> Len(ss[i])]
           e == EndsOf(m, length)
           Left(i) == [j \in 1 .. m - i |-> t[i + j]]
           I == {i \in 0 .. m :
                   T[(Len(data) - at) - e[m - i]][Len(f) - e[m - i]]
                     = Succeeded(Len(f) - e[m - i], Left(m - i))}
<1>1. length \in [1 .. m -> Nat] /\ \A i \in 1 .. m : length[i] = Len(ss[i])
  BY LenProperties
<1> HIDE DEF length
<1>2. f \in Seq(Int) /\ Len(f) = e[m] /\ \A i \in 1 .. m : Holds(f, e[i - 1], ss[i])
  <2> HIDE DEF T, Left, I, f, e
  <2>1. /\ FlattenSeq(ss) \in Seq(Int)
        /\ Len(FlattenSeq(ss)) = EndsOf(m, length)[m]
        /\ \A i \in 1 .. m : Holds(FlattenSeq(ss), EndsOf(m, length)[i - 1], ss[i])
    BY ONLY <1>1, FlattenIs, m \in Nat, ss \in [1 .. m -> Seq(Int)]
  <2>2. QED
    BY <2>1 DEF f, e
<1>3. e \in [0 .. m -> Nat] /\ e[0] = 0 /\ \A i \in 1 .. m : e[i] = e[i - 1] + Len(ss[i])
  <2>1. e \in [0 .. m -> Nat] /\ e[0] = 0 /\ \A i \in 1 .. m : e[i] = e[i - 1] + length[i]
    BY <1>1, EndsOfIs
  <2>2. QED
    BY <1>1, <2>1
<1>4. \A i, j \in 0 .. m : i <= j => e[i] <= e[j]
  BY <1>1, EndsOfGrow
<1>5. \A k \in 0 .. Len(data) : \A n \in 0 .. k : T[k][n] = ParseObjects(data, T, k, n)
  BY TableIs
<1> HIDE DEF e, f, T
<1>6. PICK L \in Nat, D \in Nat : L = Len(f) /\ D = Len(data)
  BY <1>2, LenProperties
<1>7. at + L <= D /\ at \in 0 .. D /\ L = e[m]
  BY <1>2, <1>6 DEF Holds, f
<1>8. ASSUME NEW i \in 0 .. m PROVE e[i] \in 0 .. L /\ e[i] \in Nat
  <2>1. i <= m /\ m \in 0 .. m /\ e[i] \in Nat
    BY <1>3
  <2>2. e[i] <= e[m]
    BY <1>4, <2>1
  <2>3. QED
    BY <1>7, <2>1, <2>2
<1>9. 0 \in I
  <2>1. PICK k : k = D - at - L
    OBVIOUS
  <2>2. k \in 0 .. D /\ 0 \in 0 .. k /\ (D - at) - L = k /\ L - L = 0
    BY <1>7, <2>1
  <2>3. T[k][0] = Succeeded(0, << >>)
    <3>1. T[k][0] = ParseObjects(data, T, k, 0)
      BY <1>5, <1>6, <2>2
    <3>2. QED
      BY <3>1 DEF ParseObjects
  <2>4. Left(m - 0) = << >>
    <3>1. m - 0 = m /\ 1 .. m - m = {}
      OBVIOUS
    <3>2. [j \in 1 .. m - m |-> t[m + j]] = << >>
      BY <3>1
    <3>3. QED
      BY <3>1, <3>2
  <2> HIDE DEF Left
  <2>5. m - 0 = m /\ 0 \in 0 .. m
    OBVIOUS
  <2>6. e[m - 0] = L
    BY <1>7, <2>5
  <2>7. T[(Len(data) - at) - e[m - 0]][Len(f) - e[m - 0]] = T[k][0]
    BY <1>6, <2>2, <2>6
  <2>8. Len(f) - e[m - 0] = 0
    BY <1>6, <2>2, <2>6
  <2>9. QED
    BY <2>3, <2>4, <2>5, <2>7, <2>8
<1>10. ASSUME NEW p \in 1 .. m, p - 1 \in I PROVE p \in I
  <2>1. PICK i \in 1 .. m : i = m - (p - 1)
    OBVIOUS
  <2>2. m - p = i - 1 /\ m - (p - 1) = i /\ i - 1 \in 0 .. m /\ i \in 0 .. m
    BY <2>1
  <2>3. T[(Len(data) - at) - e[i]][Len(f) - e[i]] = Succeeded(Len(f) - e[i], Left(i))
    BY <1>10, <2>2
  <2>4. Left(i - 1) = <<t[i]>> \o Left(i)
    BY LeftIs
  <2> HIDE DEF Left, I
  <2>5. PICK a \in Nat, b \in Nat, s \in Nat : a = e[i - 1] /\ b = e[i] /\ s = Len(ss[i])
    BY <1>8, <2>2, LenProperties
  <2>6. a \in 0 .. L /\ b \in 0 .. L /\ b = a + s
    BY <1>3, <1>8, <2>2, <2>5
  <2>7. ss[i] \in Seq(Int) /\ s # 0
        /\ \A x \in 0 .. Len(data) : Holds(data, x, ss[i]) =>
             ParseFirst(Subspan(data, x), T) = Succeeded(Len(ss[i]), t[i])
    BY <2>5 DEF Returns, T
  <2>8. PICK k, n, x : k = (D - at) - a /\ n = L - a /\ x = at + a
    OBVIOUS
  <2>9. k \in 0 .. D /\ n \in 0 .. k /\ x \in 0 .. D /\ D - k = x /\ n # 0 /\ s \in 1 .. n
        /\ k - s = (D - at) - b /\ n - s = L - b
    <3>1. at \in 0 .. D /\ at + L <= D /\ a \in Nat /\ s \in Nat /\ s # 0 /\ b = a + s /\ b <= L
      BY <1>7, <2>5, <2>6, <2>7
    <3>2. QED
      BY ONLY <2>8, <3>1, L \in Nat, D \in Nat
  <2>10. Holds(data, x, ss[i])
    <3>1. Holds(f, a, ss[i])
      BY <1>2, <2>5
    <3>2. at \in Nat /\ Holds(data, at, f)
      BY <1>7 DEF f
    <3>3. Holds(data, at + a, ss[i])
      BY <1>2, <2>7, <3>1, <3>2, HoldsThrough
    <3>4. QED
      BY <2>8, <3>3
  <2>11. ParseFirst(Subspan(data, Len(data) - k), T) = Succeeded(s, t[i])
    BY <1>6, <2>5, <2>7, <2>9, <2>10
  <2>12. T[k - s][n - s] = Succeeded(L - b, Left(i))
    BY <1>6, <2>3, <2>5, <2>9
  <2>13. T[k][n] = ParseObjects(data, T, k, n)
    BY <1>5, <1>6, <2>9
  <2>14. ParseObjects(data, T, k, n) = Succeeded(n, <<t[i]>> \o Left(i))
    <3>1. Succeeded(s, t[i]).succeeded /\ Succeeded(s, t[i]).bytesParsed = s
          /\ Succeeded(s, t[i]).tlv = t[i]
      BY DEF Succeeded
    <3>2. Succeeded(L - b, Left(i)).succeeded /\ Succeeded(L - b, Left(i)).tlv = Left(i)
      BY DEF Succeeded
    <3> HIDE DEF T
    <3>3. QED
      BY <2>9, <2>11, <2>12, <3>1, <3>2 DEF ParseObjects
  <2>15. T[(Len(data) - at) - e[m - p]][Len(f) - e[m - p]]
           = Succeeded(Len(f) - e[m - p], Left(m - p))
    <3>1. e[m - p] = a
      BY <2>2, <2>5
    <3>2. (Len(data) - at) - e[m - p] = k /\ Len(f) - e[m - p] = n
      BY <1>6, <2>8, <3>1
    <3>3. Left(m - p) = <<t[i]>> \o Left(i)
      BY <2>2, <2>4
    <3>4. QED
      BY <2>13, <2>14, <3>2, <3>3
  <2>16. QED
    BY <2>15 DEF I
<1> HIDE DEF I
<1>11. m \in I
  <2>1. \A i \in 0 .. m : i \in I
    BY <1>9, <1>10, IndexInduction
  <2>2. QED
    BY <2>1
<1>12. T[(Len(data) - at) - e[m - m]][Len(f) - e[m - m]] = Succeeded(Len(f) - e[m - m], Left(m - m))
  BY <1>11 DEF I
<1>13. Left(m - m) = t
  <2>1. m - m = 0 /\ m - 0 = m /\ \A j \in 1 .. m : 0 + j = j
    OBVIOUS
  <2>2. [j \in 1 .. m - 0 |-> t[0 + j]] = t
    BY <2>1
  <2>3. QED
    BY <2>1, <2>2
<1> HIDE DEF Left
<1>14. e[m - m] = 0
  <2>1. m - m = 0
    OBVIOUS
  <2>2. QED
    BY <1>3, <2>1
<1>15. (Len(data) - at) - 0 = Len(data) - at /\ Len(f) - 0 = Len(f)
  BY <1>6, <1>7
<1>16. T[Len(data) - at][Len(f)] = Succeeded(Len(f), t)
  BY <1>12, <1>13, <1>14, <1>15
<1>17. QED
  BY <1>16 DEF T, f

LEMMA ConstructedReturns ==
    ASSUME NEW S, NEW m \in Nat, NEW t \in [1 .. m -> S], NEW ss \in [1 .. m -> Seq(Int)],
           \A i \in 1 .. m : Returns(ss[i], t[i]),
           NEW tag, PlainTag(tag), TypeConstructed(tag[1]), Len(FlattenSeq(ss)) < MaxLength
    PROVE  Returns(Encoded(tag, FlattenSeq(ss)), Constructed(tag, t))
<1> DEFINE f == FlattenSeq(ss)
           e == Encoded(tag, f)
           length == [i \in 1 .. m |-> Len(ss[i])]
<1>1. f \in Seq(Int)
  <2>1. length \in [1 .. m -> Nat] /\ \A i \in 1 .. m : length[i] = Len(ss[i])
    BY LenProperties
  <2> HIDE DEF length
  <2>2. QED
    BY <2>1, FlattenIs
<1>2. \A data \in Seq(Int) : \A x \in 0 .. Len(data) : Holds(data, x, f) =>
        ParseConstructedValue(data)[Len(data) - x][Len(f)] = Succeeded(Len(f), t)
  BY ValuesReturn
<1> HIDE DEF f
<1>3. e \in Seq(Int) /\ Len(e) # 0
  <2>1. Len(tag) \in 1 .. 2 /\ Len(f) \in Nat /\ Len(GetLengthEncoding(Len(f))) \in 1 .. 4
    BY <1>1, TagReturns, LengthReturns, LenProperties DEF f
  <2>2. QED
    BY <1>1, <2>1, EncodedIs DEF f
<1>4. ASSUME NEW data \in Seq(Int), NEW at \in 0 .. Len(data), Holds(data, at, e)
      PROVE  ParseFirst(Subspan(data, at), ParseConstructedValue(data)) = Succeeded(Len(e), Constructed(tag, t))
  <2> DEFINE d == Subspan(data, at)
             l == ParseLength(Subspan(d, Len(tag)))
             h == Len(tag) + l.bytes
             v == Subspan(d, h)
             T == ParseConstructedValue(data)
  <2>1. d \in Seq(Int) /\ Begins(d, e) /\ Len(d) = Len(data) - at
    <3> HIDE DEF e
    <3>1. QED
      BY <1>3, <1>4, PlaceIs
  <2> HIDE DEF d
  <2>2. /\ ParseTag(d) = Len(tag) /\ Len(tag) \in 1 .. 2 /\ SubSeq(d, 1, Len(tag)) = tag
        /\ l.bytes \in 1 .. 4 /\ l.length = Len(f)
        /\ h \in 1 .. Len(d)
        /\ Len(e) = h + Len(f)
        /\ Holds(d, h, f)
    BY <1>1, <2>1, HeaderReturns DEF f
  <2> HIDE DEF e, l
  <2>3. h \in 0 .. Len(d)
    BY <2>2
  <2>4. Begins(v, f) /\ v \in Seq(Int) /\ Len(v) = Len(d) - h
    <3> HIDE DEF h
    <3>1. QED
      BY <1>1, <2>1, <2>2, <2>3, PlaceIs
  <2>5. ~(Len(v) < Len(f))
    <3> HIDE DEF v
    <3>1. 0 + Len(f) <= Len(v)
      BY <2>4 DEF Begins, Holds
    <3>2. Len(v) \in Nat /\ Len(f) \in Nat
      BY <1>1, <2>4, LenProperties
    <3>3. QED
      BY <3>1, <3>2
  <2>6. T[Len(v)][Len(f)] = Succeeded(Len(f), t)
    <3>1. PICK x, D, y : x = at + h /\ D = Len(data) /\ y = h
      OBVIOUS
    <3>2. D \in Nat /\ Len(f) \in Nat /\ at \in 0 .. D /\ y \in 1 .. D - at
      BY <1>1, <2>1, <2>2, <3>1, LenProperties
    <3>3. x \in 0 .. D /\ (D - at) - y = D - x
      <4>1. x = at + y
        BY <3>1
      <4>2. QED
        BY ONLY <3>2, <4>1
    <3>4. Holds(data, x, f)
      <4>1. Holds(e, y, f)
        <5>1. /\ e \in Seq(Int)
              /\ Len(e) = Len(tag) + Len(GetLengthEncoding(Len(f))) + Len(f)
              /\ Holds(e, Len(tag) + Len(GetLengthEncoding(Len(f))), f)
          BY <1>1, EncodedIs DEF e, f
        <5>2. PICK z \in Nat : z = Len(tag) + Len(GetLengthEncoding(Len(f)))
          <6>1. Len(tag) \in Nat /\ Len(GetLengthEncoding(Len(f))) \in Nat
            BY <1>1, TagReturns, LengthReturns, LenProperties DEF f
          <6>2. QED
            BY <6>1
        <5>3. z + Len(f) = y + Len(f)
          BY <2>2, <3>1, <5>1, <5>2
        <5>4. z = y
          BY <3>2, <5>2, <5>3
        <5>5. QED
          BY <5>1, <5>2, <5>4
      <4>2. y \in Nat /\ at \in Nat
        BY <3>2
      <4>3. Holds(data, at + y, f)
        BY <1>1, <1>3, <1>4, <4>1, <4>2, HoldsThrough
      <4>4. QED
        BY <3>1, <4>3
    <3>5. Len(v) = Len(data) - x
      BY <2>1, <2>4, <3>1, <3>3
    <3> HIDE DEF T, v
    <3>6. ParseConstructedValue(data)[Len(data) - x][Len(f)] = Succeeded(Len(f), t)
      BY <1>2, <3>1, <3>3, <3>4
    <3>7. QED
      BY <3>5, <3>6 DEF T
  <2>7. Len(tag) # 0 /\ l.bytes # 0
    BY <2>2
  <2> HIDE DEF v, T
  <2>8. ParseFirst(d, T) = Succeeded(h + Len(f), Constructed(tag, t))
    <3>1. v = Subspan(d, Len(tag) + l.bytes)
      BY DEF v
    <3>2. l = ParseLength(Subspan(d, ParseTag(d)))
      BY <2>2 DEF l
    <3>3. /\ Succeeded(Len(f), t).succeeded /\ Succeeded(Len(f), t).tlv = t
          /\ Succeeded(Len(f), Constructed(tag, t)).succeeded
          /\ Succeeded(Len(f), Constructed(tag, t)).bytesParsed = Len(f)
          /\ Succeeded(Len(f), Constructed(tag, t)).tlv = Constructed(tag, t)
      BY DEF Succeeded
    <3>4. QED
      BY <2>2, <2>5, <2>6, <2>7, <3>1, <3>2, <3>3 DEF ParseFirst, Behind
  <2>9. QED
    BY <2>2, <2>8 DEF d, T
<1> HIDE DEF e
<1>5. QED
  BY <1>3, <1>4 DEF Returns, e, f

\* The parser reads back what is written alone.
LEMMA ParseReturns ==
    ASSUME NEW bytes, NEW tlv, Returns(bytes, tlv)
    PROVE  Parse(bytes) = Succeeded(Len(bytes), tlv)
<1>1. bytes \in Seq(Int) /\ Len(bytes) \in Nat
  BY LenProperties DEF Returns
<1>2. Holds(bytes, 0, bytes) /\ 0 \in 0 .. Len(bytes)
  BY <1>1 DEF Holds
<1>3. Subspan(bytes, 0) = bytes
  <2>1. Begins(bytes, bytes)
    BY <1>2 DEF Begins
  <2>2. SubSeq(bytes, 1, Len(bytes)) = bytes
    BY <1>1, <2>1, BeginningIs
  <2>3. QED
    BY <2>2 DEF Subspan
<1>4. QED
  BY <1>1, <1>2, <1>3 DEF Returns, Parse

-----------------------------------------------------------------------------
(* Objects in objects in an object.                                        *)

IsObject(t) == PlainTag(t.tag) /\ Len(t.values) \in Nat /\ DOMAIN t.values = 1 .. Len(t.values)
\* A primitive object ...
Leaf(t) ==
    /\ IsObject(t) /\ ~IsConstructed(t) /\ t = Primitive(t.tag, t.value)
    /\ t.value \in Seq(Int) /\ Len(t.value) < MaxLength

LeafBytes(t) == Encoded(t.tag, t.value)
\* ... one of primitive ones ...
LeavesBytes(t) == FlattenSeq([i \in DOMAIN t.values |-> LeafBytes(t.values[i])])
Branch(t) ==
    /\ IsObject(t) /\ IsConstructed(t) /\ t = Constructed(t.tag, t.values)
    /\ t.values = [i \in 1 .. Len(t.values) |-> t.values[i]]
    /\ \A i \in DOMAIN t.values : Leaf(t.values[i])
    /\ Len(LeavesBytes(t)) < MaxLength

BranchBytes(t) == Encoded(t.tag, IF IsConstructed(t) THEN LeavesBytes(t) ELSE t.value)
\* ... and one of both.
BranchesBytes(t) == FlattenSeq([i \in DOMAIN t.values |-> BranchBytes(t.values[i])])
Tree(t) ==
    /\ IsObject(t) /\ IsConstructed(t) /\ t = Constructed(t.tag, t.values)
    /\ t.values = [i \in 1 .. Len(t.values) |-> t.values[i]]
    /\ \A i \in DOMAIN t.values : Leaf(t.values[i]) \/ Branch(t.values[i])
    /\ Len(BranchesBytes(t)) < MaxLength

LEMMA LeafReturns ==
    ASSUME NEW t, Leaf(t)
    PROVE  Returns(LeafBytes(t), t)
<1>1. PlainTag(t.tag) /\ ~TypeConstructed(t.tag[1]) /\ t.value \in Seq(Int)
      /\ Len(t.value) < MaxLength /\ t = Primitive(t.tag, t.value)
  BY DEF Leaf, IsObject, IsConstructed
<1>2. PICK tag, value : tag = t.tag /\ value = t.value
  OBVIOUS
<1>3. Returns(Encoded(tag, value), Primitive(tag, value))
  BY <1>1, <1>2, PrimitiveReturns
<1>4. QED
  BY <1>1, <1>2, <1>3 DEF LeafBytes

LEMMA BranchReturns ==
    ASSUME NEW t, Leaf(t) \/ Branch(t)
    PROVE  Returns(BranchBytes(t), t)
<1>1. CASE Leaf(t)
  <2>1. BranchBytes(t) = LeafBytes(t)
    BY <1>1 DEF BranchBytes, LeafBytes, Leaf
  <2>2. QED
    BY <1>1, <2>1, LeafReturns
<1>2. CASE Branch(t)
  <2>1. PICK m \in Nat : m = Len(t.values)
    BY <1>2 DEF Branch, IsObject
  <2> DEFINE S == {t.values[i] : i \in 1 .. m}
             ss == [i \in 1 .. m |-> LeafBytes(t.values[i])]
  <2>2. PICK v : v = t.values
    OBVIOUS
  <2>3. v = [i \in 1 .. m |-> v[i]] /\ DOMAIN t.values = 1 .. m /\ \A i \in 1 .. m : Leaf(v[i])
    BY <1>2, <2>1, <2>2 DEF Branch, IsObject
  <2>4. v \in [1 .. m -> S]
    <3>1. \A i \in 1 .. m : v[i] \in S
      BY <2>2
    <3> HIDE DEF S
    <3>2. QED
      BY <2>3, <3>1
  <2>5. ASSUME NEW i \in 1 .. m PROVE Returns(ss[i], v[i]) /\ ss[i] \in Seq(Int)
    <3>1. ss[i] = LeafBytes(v[i])
      BY <2>2
    <3>2. Returns(ss[i], v[i])
      BY <2>3, <3>1, LeafReturns
    <3>3. QED
      BY <3>2 DEF Returns
  <2>6. ss \in [1 .. m -> Seq(Int)]
    BY <2>5
  <2>7. LeavesBytes(t) = FlattenSeq(ss)
    BY <2>3 DEF LeavesBytes
  <2> HIDE DEF S, ss
  <2>8. PICK tag : tag = t.tag
    OBVIOUS
  <2>9. PlainTag(tag) /\ TypeConstructed(tag[1]) /\ Len(FlattenSeq(ss)) < MaxLength
    BY <1>2, <2>7, <2>8 DEF Branch, IsObject, IsConstructed
  <2>10. Returns(Encoded(tag, FlattenSeq(ss)), Constructed(tag, v))
    BY <2>4, <2>5, <2>6, <2>9, ConstructedReturns
  <2>11. BranchBytes(t) = Encoded(tag, FlattenSeq(ss)) /\ t = Constructed(tag, v)
    BY <1>2, <2>2, <2>7, <2>8 DEF BranchBytes, Branch
  <2>12. QED
    BY <2>10, <2>11
<1>3. QED
  BY <1>1, <1>2

LEMMA TreeBytes ==
    ASSUME NEW t, IsConstructed(t)
    PROVE  ToBytes(t) = Encoded(t.tag, BranchesBytes(t))
BY Zenon DEF ToBytes, BytesAround, BranchesBytes, BranchBytes, LeavesBytes, LeafBytes

\* The bytes of the objects in a tree.
LEMMA BranchesReturn ==
    ASSUME NEW t, Tree(t)
    PROVE  BranchesBytes(t) \in Seq(Int) /\ Returns(Encoded(t.tag, BranchesBytes(t)), t)
<1>1. PICK m \in Nat : m = Len(t.values)
  BY DEF Tree, IsObject
<1> DEFINE S == {t.values[i] : i \in 1 .. m}
           ss == [i \in 1 .. m |-> BranchBytes(t.values[i])]
<1>2. PICK v : v = t.values
  OBVIOUS
<1>3. v = [i \in 1 .. m |-> v[i]] /\ DOMAIN t.values = 1 .. m
      /\ \A i \in 1 .. m : Leaf(v[i]) \/ Branch(v[i])
  BY <1>1, <1>2 DEF Tree, IsObject
<1>4. v \in [1 .. m -> S]
  <2>1. \A i \in 1 .. m : v[i] \in S
    BY <1>2
  <2> HIDE DEF S
  <2>2. QED
    BY <1>3, <2>1
<1>5. ASSUME NEW i \in 1 .. m PROVE Returns(ss[i], v[i]) /\ ss[i] \in Seq(Int)
  <2>1. ss[i] = BranchBytes(v[i])
    BY <1>2
  <2>2. Returns(ss[i], v[i])
    BY <1>3, <2>1, BranchReturns
  <2>3. QED
    BY <2>2 DEF Returns
<1>6. ss \in [1 .. m -> Seq(Int)]
  BY <1>5
<1>7. BranchesBytes(t) = FlattenSeq(ss)
  BY <1>3 DEF BranchesBytes
<1> HIDE DEF S, ss
<1>8. FlattenSeq(ss) \in Seq(Int)
  <2> DEFINE length == [i \in 1 .. m |-> Len(ss[i])]
  <2>1. length \in [1 .. m -> Nat] /\ \A i \in 1 .. m : length[i] = Len(ss[i])
    BY <1>6, LenProperties
  <2> HIDE DEF length
  <2>2. QED
    BY ONLY <1>6, <2>1, FlattenIs, m \in Nat
<1>9. PICK tag : tag = t.tag
  OBVIOUS
<1>10. PlainTag(tag) /\ TypeConstructed(tag[1]) /\ Len(FlattenSeq(ss)) < MaxLength
  BY <1>7, <1>9 DEF Tree, IsObject, IsConstructed
<1>11. Returns(Encoded(tag, FlattenSeq(ss)), Constructed(tag, v))
  BY <1>4, <1>5, <1>6, <1>10, ConstructedReturns
<1>12. t = Constructed(tag, v)
  BY <1>2, <1>9 DEF Tree
<1>13. QED
  BY <1>7, <1>8, <1>9, <1>11, <1>12

\* What TlvBer::Parse makes of the bytes that ToBytes writes of an object is the
\* object, and it took all of them; of fewer than all of them it makes nothing, wherever
\* they end.
THEOREM ObjectsReturn ==
    \A t : Tree(t) =>
        /\ Parse(ToBytes(t)) = Succeeded(Len(ToBytes(t)), t)
        /\ \A n \in 0 .. Len(ToBytes(t)) - 1 : Parse(SubSeq(ToBytes(t), 1, n)) = Failed
<1> SUFFICES ASSUME NEW t, Tree(t)
             PROVE  /\ Parse(ToBytes(t)) = Succeeded(Len(ToBytes(t)), t)
                    /\ \A n \in 0 .. Len(ToBytes(t)) - 1 : Parse(SubSeq(ToBytes(t), 1, n)) = Failed
  OBVIOUS
<1>1. PICK tag, value : tag = t.tag /\ value = BranchesBytes(t)
  OBVIOUS
<1>2. ToBytes(t) = Encoded(tag, value)
  BY <1>1, TreeBytes DEF Tree
<1>3. value \in Seq(Int) /\ Returns(Encoded(tag, value), t)
  BY <1>1, BranchesReturn
<1>4. PlainTag(tag) /\ Len(value) < MaxLength
  BY <1>1 DEF Tree, IsObject
<1>5. Parse(ToBytes(t)) = Succeeded(Len(ToBytes(t)), t)
  BY <1>2, <1>3, ParseReturns
<1> DEFINE e == Encoded(tag, value)
<1>6. e \in Seq(Int)
  BY <1>3 DEF Returns
<1> HIDE DEF e
<1>7. ASSUME NEW n \in 0 .. Len(e) - 1 PROVE Parse(SubSeq(e, 1, n)) = Failed
  <2> DEFINE s == SubSeq(e, 1, n)
  <2>1. \A i \in 1 .. n : e[i] \in Int
    <3> TAKE i \in 1 .. n
    <3>1. i \in 1 .. Len(e)
      BY <1>6, LenProperties
    <3>2. QED
      BY <1>6, <3>1, ElementOfSeq
  <2>2. s \in Seq(Int) /\ Len(s) = (IF 1 <= n THEN n - 1 + 1 ELSE 0)
        /\ \A i \in 1 .. n - 1 + 1 : s[i] = e[1 + i - 1]
    BY <2>1, n \in Int, SubSeqProperties
  <2> HIDE DEF s
  <2>3. Len(s) = n /\ \A i \in 1 .. n : s[i] = e[i]
    <3>1. \A i \in 1 .. n : i \in 1 .. n - 1 + 1 /\ 1 + i - 1 = i
      OBVIOUS
    <3>2. QED
      BY <2>2, <3>1
  <2>4. Short(s, e)
    <3>1. n < Len(e)
      BY <1>6, LenProperties
    <3>2. QED
      BY <2>3, <3>1 DEF Short
  <2>5. ParseFirst(s, ParseConstructedValue(s)) = Failed
    BY <1>3, <1>4, <2>2, <2>4, BeginningFails DEF e
  <2>6. QED
    BY <2>5 DEF Parse, s
<1>8. QED
  BY <1>2, <1>5, <1>7 DEF e

-----------------------------------------------------------------------------
(* Names in the order of their numbers.                                    *)

LEMMA PlacesCover ==
    ASSUME NEW n \in Nat, NEW keep
    PROVE  /\ \A i \in 1 .. n : keep[i] => \E j \in 1 .. Len(Places(n, keep)) : Places(n, keep)[j] = i
           /\ \A j, k \in 1 .. Len(Places(n, keep)) : Places(n, keep)[j] = Places(n, keep)[k] => j = k
<1> DEFINE X == 1 .. n
           s == [i \in 1 .. n |-> i]
<1>1. s \in [1 .. n -> X]
  OBVIOUS
<1> HIDE DEF s, X
<1>2. \A i \in 1 .. n : keep[i] => \E j \in 1 .. Len(Places(n, keep)) : Places(n, keep)[j] = i
  BY ONLY n \in Nat, <1>1, KeepIs
<1>3. \A j, k \in 1 .. Len(Places(n, keep)) : Places(n, keep)[j] = Places(n, keep)[k] => j = k
  BY ONLY n \in Nat, <1>1, KeepIs
<1>4. QED
  BY <1>2, <1>3

LEMMA InOrderIs ==
    ASSUME NEW e, Numbered(e, 0, 255), DOMAIN e # {}, NEW names \in SUBSET (DOMAIN e)
    PROVE  LET o == InOrder(names, e) IN
           /\ Len(o) \in 0 .. 256 /\ DOMAIN o = 1 .. Len(o)
           /\ \A j \in 1 .. Len(o) : o[j] \in names
           /\ \A j, k \in 1 .. Len(o) : o[j] = o[k] => j = k
           /\ \A n \in names : \E j \in 1 .. Len(o) : o[j] = n
<1> DEFINE N == 1 + Max(Range(e))
           numbers == [i \in 1 .. N |-> i - 1]
           keep == [i \in 1 .. N |-> \E t \in names : e[t] = numbers[i]]
           p == Places(N, keep)
           o == InOrder(names, e)
<1>1. N \in 1 .. 256 /\ \A t \in DOMAIN e : e[t] + 1 \in 1 .. N
  <2> DEFINE S == Range(e)
  <2>1. S \in SUBSET (0 .. 255) /\ S # {} /\ \A t \in DOMAIN e : e[t] \in S
    BY DEF Range, Numbered
  <2> HIDE DEF S
  <2>2. Max(S) \in S /\ \A y \in S : y <= Max(S)
    BY <2>1, MaxIs
  <2>3. PICK m \in 0 .. 255 : m = Max(S)
    BY <2>1, <2>2
  <2>4. \A t \in DOMAIN e : e[t] + 1 \in 1 .. 1 + m
    <3> TAKE t \in DOMAIN e
    <3>1. e[t] \in 0 .. 255 /\ e[t] <= m
      BY <2>1, <2>2, <2>3
    <3>2. QED
      BY <3>1
  <2>5. QED
    BY <2>3, <2>4 DEF S
<1> HIDE DEF N
<1>2. DOMAIN numbers = 1 .. N /\ \A i \in 1 .. N : numbers[i] = i - 1
  OBVIOUS
<1>3. \A i \in 1 .. N : keep[i] <=> \E t \in names : e[t] = i - 1
  OBVIOUS
<1> HIDE DEF numbers
<1>4. o = LET s == Those(numbers, LAMBDA k : \E t \in names : e[t] = k)
          IN  [i \in DOMAIN s |-> NameOf(e, s[i])]
  BY DEF InOrder, N, numbers
<1>5. Those(numbers, LAMBDA k : \E t \in names : e[t] = k) = Chosen(numbers, p)
  <2>1. [i \in 1 .. N |-> IF keep[i] THEN <<numbers[i]>> ELSE <<>>]
          = [i \in DOMAIN numbers |-> IF \E t \in names : e[t] = numbers[i] THEN <<numbers[i]>> ELSE <<>>]
    BY <1>2
  <2> HIDE DEF keep
  <2>2. Filtered(N, keep, numbers) = Chosen(numbers, p)
    BY <1>1, <1>2, KeptIs
  <2>3. QED
    BY <2>1, <2>2 DEF Those, Filtered
<1> HIDE DEF keep
<1>6. /\ p \in Seq(1 .. N)
      /\ \A j \in 1 .. Len(p) : p[j] \in 1 .. N /\ keep[p[j]]
  BY <1>1, PlacesAre
<1>7. /\ \A i \in 1 .. N : keep[i] => \E j \in 1 .. Len(p) : p[j] = i
      /\ \A j, k \in 1 .. Len(p) : p[j] = p[k] => j = k
  <2>1. N \in Nat
    BY <1>1
  <2>2. QED
    BY <2>1, PlacesCover
<1> HIDE DEF p
<1>8. Len(p) \in 0 .. 256
  <2>1. Len(p) \in Nat
    BY <1>6, LenProperties
  <2>2. [j \in 1 .. Len(p) |-> p[j]] \in Injection(1 .. Len(p), 1 .. N)
    BY <1>6, <1>7 DEF Injection, IsInjective
  <2>3. IsFiniteSet(1 .. N) /\ Cardinality(1 .. N) = N
    <3>1. 1 \in Int /\ N \in Int
      BY <1>1
    <3>2. IsFiniteSet(1 .. N) /\ Cardinality(1 .. N) = IF 1 > N THEN 0 ELSE N - 1 + 1
      BY ONLY <3>1, FS_Interval
    <3>3. QED
      BY <1>1, <3>2
  <2>4. Cardinality(1 .. Len(p)) = Len(p)
    <3>1. PICK l \in Nat : l = Len(p)
      BY <2>1
    <3>2. 1 \in Int /\ l \in Int
      OBVIOUS
    <3>3. Cardinality(1 .. l) = IF 1 > l THEN 0 ELSE l - 1 + 1
      BY ONLY <3>2, FS_Interval
    <3>4. QED
      BY <3>1, <3>3
  <2>5. Cardinality(1 .. Len(p)) <= Cardinality(1 .. N)
    <3> DEFINE A == 1 .. Len(p)
               B == 1 .. N
               f == [j \in 1 .. Len(p) |-> p[j]]
    <3>1. f \in Injection(A, B) /\ IsFiniteSet(B)
      BY <2>2, <2>3
    <3> HIDE DEF A, B, f
    <3>2. Cardinality(A) <= Cardinality(B)
      BY <3>1, FS_Injection
    <3>3. QED
      BY <3>2 DEF A, B
  <2>6. PICK l \in Nat, h \in 1 .. 256 : l = Len(p) /\ h = N
    BY <1>1, <2>1
  <2>7. l <= h
    BY ONLY <2>3, <2>4, <2>5, <2>6
  <2>8. l \in 0 .. 256
    BY <2>7
  <2>9. QED
    BY <2>6, <2>8
<1>9. o = [j \in 1 .. Len(p) |-> NameOf(e, numbers[p[j]])]
  BY <1>4, <1>5 DEF Chosen
<1> HIDE DEF o
<1>10. Len(o) = Len(p) /\ DOMAIN o = 1 .. Len(p)
  BY <1>8, <1>9
<1>11. ASSUME NEW j \in 1 .. Len(p) PROVE o[j] \in names /\ e[o[j]] = p[j] - 1
  <2>1. p[j] \in 1 .. N /\ numbers[p[j]] = p[j] - 1
    BY <1>2, <1>6
  <2>2. PICK t \in names : e[t] = p[j] - 1
    BY <1>3, <1>6, <2>1
  <2>3. t \in DOMAIN e
    OBVIOUS
  <2>4. NameOf(e, e[t]) = t
    BY <2>3, NameOfIs
  <2>5. QED
    BY <1>9, <2>1, <2>2, <2>4
<1>12. ASSUME NEW j \in 1 .. Len(p), NEW k \in 1 .. Len(p), o[j] = o[k] PROVE j = k
  <2>1. p[j] - 1 = p[k] - 1 /\ p[j] \in Int /\ p[k] \in Int
    BY <1>6, <1>11, <1>12
  <2>2. QED
    BY <1>7, <2>1
<1>13. ASSUME NEW n \in names PROVE \E j \in 1 .. Len(p) : o[j] = n
  <2>1. e[n] + 1 \in 1 .. N /\ e[n] \in Int
    BY <1>1 DEF Numbered
  <2>2. keep[e[n] + 1]
    <3>1. e[n] = (e[n] + 1) - 1
      BY <2>1
    <3>2. QED
      BY <1>3, <2>1, <3>1
  <2>3. PICK j \in 1 .. Len(p) : p[j] = e[n] + 1
    BY <1>7, <2>1, <2>2
  <2>4. e[o[j]] = e[n]
    BY <1>11, <2>1, <2>3
  <2>5. o[j] = n
    BY <1>11, <2>4 DEF Numbered, IsInjective
  <2>6. QED
    BY <2>5
<1>14. QED
  BY <1>8, <1>10, <1>11, <1>12, <1>13 DEF o

\* Few names are few in order.
LEMMA InOrderBound ==
    ASSUME NEW e, Numbered(e, 0, 255), DOMAIN e # {}, NEW names \in SUBSET (DOMAIN e),
           IsFiniteSet(names)
    PROVE  Len(InOrder(names, e)) <= Cardinality(names)
<1> DEFINE o == InOrder(names, e)
           n == Len(o)
           A == 1 .. n
           f == [j \in A |-> o[j]]
<1>1. /\ n \in Nat
      /\ \A j \in 1 .. n : o[j] \in names
      /\ \A j, k \in 1 .. n : o[j] = o[k] => j = k
  BY InOrderIs
<1> HIDE DEF o, n
<1>2. f \in Injection(A, names)
  BY <1>1 DEF Injection, IsInjective
<1>3. Cardinality(A) = n
  <2>1. 1 \in Int /\ n \in Int
    BY <1>1
  <2>2. Cardinality(1 .. n) = IF 1 > n THEN 0 ELSE n - 1 + 1
    BY ONLY <2>1, FS_Interval
  <2>3. QED
    BY <1>1, <2>2
<1> HIDE DEF A, f
<1>4. Cardinality(A) <= Cardinality(names)
  BY <1>2, FS_Injection
<1>5. QED
  BY <1>3, <1>4 DEF n, o

\* Sequences of bounded length, behind one another.
LEMMA FlattenBound ==
    ASSUME NEW X, NEW n \in Nat, NEW ss \in [1 .. n -> Seq(X)], NEW c \in Nat,
           \A i \in 1 .. n : Len(ss[i]) <= c
    PROVE  FlattenSeq(ss) \in Seq(X) /\ Len(FlattenSeq(ss)) <= n * c
<1> DEFINE length == [i \in 1 .. n |-> Len(ss[i])]
           e == EndsOf(n, length)
           I == {i \in 0 .. n : e[i] <= i * c}
<1>1. length \in [1 .. n -> Nat] /\ \A i \in 1 .. n : length[i] = Len(ss[i])
  BY LenProperties
<1> HIDE DEF length
<1>2. FlattenSeq(ss) \in Seq(X) /\ Len(FlattenSeq(ss)) = EndsOf(n, length)[n]
  BY ONLY <1>1, FlattenIs, n \in Nat, ss \in [1 .. n -> Seq(X)]
<1>3. e \in [0 .. n -> Nat] /\ e[0] = 0 /\ \A i \in 1 .. n : e[i] = e[i - 1] + length[i]
  BY <1>1, EndsOfIs
<1> HIDE DEF e
<1>4. 0 \in I
  BY <1>3
<1>5. ASSUME NEW i \in 1 .. n, i - 1 \in I PROVE i \in I
  <2>1. PICK x \in Nat, y \in Nat, z \in Nat : x = e[i - 1] /\ y = e[i] /\ z = length[i]
    BY <1>1, <1>3
  <2>2. y = x + z /\ z <= c /\ x <= (i - 1) * c
    BY <1>1, <1>3, <1>5, <2>1
  <2>3. (i - 1) * c + c = i * c
    BY c \in Int, i \in Int
  <2>4. (i - 1) * c \in Int /\ i * c \in Int
    OBVIOUS
  <2>5. y <= i * c
    BY <2>2, <2>3, <2>4
  <2>6. QED
    BY <2>1, <2>5
<1> HIDE DEF I
<1>6. n \in I
  <2>1. \A i \in 0 .. n : i \in I
    BY <1>4, <1>5, IndexInduction
  <2>2. QED
    BY <2>1
<1>7. QED
  BY <1>2, <1>6 DEF I, e

-----------------------------------------------------------------------------
(* An object of values under numbers, and what is found in it.             *)

LEMMA Products ==
    ASSUME NEW n \in Nat, NEW k \in Nat, NEW c \in Nat, n <= k
    PROVE  n * c <= k * c /\ n * c \in Nat /\ k * c \in Nat
<1>1. PICK d \in Nat : k = n + d
  BY k - n \in Nat
<1>2. k * c = n * c + d * c
  BY <1>1
<1>3. d * c \in Nat /\ n * c \in Nat /\ k * c \in Nat
  OBVIOUS
<1>4. QED
  BY <1>2, <1>3

\* An object holds other objects under their numbers, and nothing else.
Holding(o, e, of) ==
    /\ Len(o.values) \in 0 .. 256 /\ DOMAIN o.values = 1 .. Len(o.values)
    /\ IsInjective(e) /\ DOMAIN of \subseteq DOMAIN e
    /\ \A n \in DOMAIN of : of[n].tag = <<e[n]>>
    /\ \A i \in DOMAIN o.values : \E n \in DOMAIN of : o.values[i] = of[n]
    /\ \A n \in DOMAIN of : \E i \in DOMAIN o.values : o.values[i] = of[n]

Primitives(e, bytes) == [n \in DOMAIN bytes |-> Primitive(<<e[n]>>, bytes[n])]
Valuable(e, bytes, c) ==
    /\ Numbered(e, 128, 157) /\ DOMAIN e # {} /\ DOMAIN bytes \subseteq DOMAIN e
    /\ c \in Nat /\ c < MaxLength
    /\ \A n \in DOMAIN bytes : bytes[n] \in Seq(Int) /\ Len(bytes[n]) + 6 <= c

\* The primitive object of a value.
LEMMA PrimitiveIs ==
    ASSUME NEW number \in 128 .. 157, NEW value \in Seq(Int), NEW c \in Nat, c < MaxLength,
           Len(value) + 6 <= c
    PROVE  LET t == Primitive(<<number>>, value) IN
           Leaf(t) /\ LeafBytes(t) \in Seq(Int) /\ Len(LeafBytes(t)) <= c
<1> DEFINE t == Primitive(<<number>>, value)
<1>1. t.tag = <<number>> /\ t.value = value /\ t.values = << >> /\ t.tag[1] = number
  BY DEF Primitive
<1>2. t = Primitive(t.tag, t.value)
  BY <1>1
<1>3. ~TypeConstructed(number) /\ number \in 0 .. 255 /\ number % 32 # 31
  <2>1. (number \div 32) = 4
    OBVIOUS
  <2>2. number % 32 # 31
    OBVIOUS
  <2>3. QED
    BY <2>1, <2>2 DEF TypeConstructed
<1>4. PlainTag(t.tag) /\ Len(t.tag) = 1
  BY <1>1, <1>3 DEF PlainTag
<1>5. PICK l \in Nat : l = Len(value)
  BY LenProperties
<1>6. l < MaxLength
  BY <1>5 DEF MaxLength
<1> HIDE DEF t
<1>7. Leaf(t)
  BY <1>1, <1>2, <1>3, <1>4, <1>5, <1>6 DEF Leaf, IsObject, IsConstructed
<1>8. PICK tag : tag = t.tag
  OBVIOUS
<1>9. Encoded(tag, value) \in Seq(Int)
      /\ Len(Encoded(tag, value)) = Len(tag) + Len(GetLengthEncoding(Len(value))) + Len(value)
  BY <1>4, <1>5, <1>6, <1>8, EncodedIs
<1>10. Len(GetLengthEncoding(l)) \in 1 .. 4
  BY <1>6, LengthReturns
<1>11. Len(Encoded(tag, value)) <= c
  <2>1. Len(Encoded(tag, value)) = 1 + Len(GetLengthEncoding(l)) + l
    BY <1>4, <1>5, <1>8, <1>9
  <2>2. PICK x \in 1 .. 4 : x = Len(GetLengthEncoding(l))
    BY <1>10
  <2>3. 1 + x + l <= c
    BY <1>5
  <2>4. QED
    BY <2>1, <2>2, <2>3
<1>12. QED
  BY <1>1, <1>7, <1>8, <1>9, <1>11 DEF LeafBytes, t

LEMMA ObjectOfIs ==
    ASSUME NEW e, NEW bytes, NEW c, Valuable(e, bytes, c), NEW k \in Nat,
           Len(InOrder(DOMAIN bytes, e)) <= k, k * c < MaxLength,
           NEW tag \in 163 .. 166
    PROVE  LET o == ObjectOf(<<tag>>, e, bytes) IN
           Branch(o) /\ Len(LeavesBytes(o)) <= k * c /\ Holding(o, e, Primitives(e, bytes))
<1> DEFINE names == InOrder(DOMAIN bytes, e)
           v == [i \in DOMAIN names |-> Primitive(<<e[names[i]]>>, bytes[names[i]])]
           o == ObjectOf(<<tag>>, e, bytes)
           B == DOMAIN bytes
<1>1. Numbered(e, 0, 255) /\ DOMAIN e # {} /\ B \in SUBSET (DOMAIN e)
  BY DEF Valuable, Numbered
<1>2. /\ Len(names) \in 0 .. 256 /\ DOMAIN names = 1 .. Len(names)
      /\ \A j \in 1 .. Len(names) : names[j] \in B
      /\ \A n \in B : \E j \in 1 .. Len(names) : names[j] = n
  <2> HIDE DEF B
  <2>1. LET s == InOrder(B, e) IN
        /\ Len(s) \in 0 .. 256 /\ DOMAIN s = 1 .. Len(s)
        /\ \A j \in 1 .. Len(s) : s[j] \in B
        /\ \A n \in B : \E j \in 1 .. Len(s) : s[j] = n
    BY <1>1, InOrderIs
  <2>2. QED
    BY <2>1 DEF B
<1>3. o = Constructed(<<tag>>, v)
  BY DEF ObjectOf
<1>4. PICK m \in 0 .. 256 : m = Len(names) /\ m <= k
  BY <1>2
<1> HIDE DEF names
<1>5. v = [i \in 1 .. m |-> v[i]] /\ Len(v) = m /\ DOMAIN v = 1 .. m
  BY <1>2, <1>4
<1>7. \A i \in 1 .. m : names[i] \in B /\ v[i] = Primitive(<<e[names[i]]>>, bytes[names[i]])
  BY <1>2, <1>4
<1> HIDE DEF v, o
<1>6. o.tag = <<tag>> /\ o.values = v /\ o = Constructed(o.tag, o.values)
  BY <1>3 DEF Constructed
<1>8. Holding(o, e, Primitives(e, bytes))
  <2> DEFINE of == Primitives(e, bytes)
  <2>1. DOMAIN of = B /\ \A n \in B : of[n] = Primitive(<<e[n]>>, bytes[n])
    BY DEF Primitives
  <2> HIDE DEF of
  <2>2. Len(o.values) \in 0 .. 256 /\ DOMAIN o.values = 1 .. Len(o.values)
    BY <1>5, <1>6
  <2>3. ASSUME NEW i \in DOMAIN o.values PROVE \E n \in B : o.values[i] = of[n]
    <3>1. i \in 1 .. m
      BY <1>5, <1>6
    <3>2. names[i] \in B /\ v[i] = of[names[i]]
      BY <1>7, <2>1, <3>1
    <3>3. QED
      BY <1>6, <3>2
  <2>4. ASSUME NEW n \in B PROVE \E i \in DOMAIN o.values : o.values[i] = of[n]
    <3>1. PICK j \in 1 .. m : names[j] = n
      BY <1>2, <1>4
    <3>2. v[j] = of[n] /\ j \in DOMAIN o.values
      BY <1>5, <1>6, <1>7, <2>1, <3>1
    <3>3. QED
      BY <1>6, <3>2
  <2>5. \A n \in B : of[n].tag = <<e[n]>>
    BY <2>1 DEF Primitive
  <2>6. QED
    BY <1>1, <2>1, <2>2, <2>3, <2>4, <2>5 DEF Holding, of, Numbered
<1>9. ASSUME NEW i \in 1 .. m
      PROVE  Leaf(v[i]) /\ LeafBytes(v[i]) \in Seq(Int) /\ Len(LeafBytes(v[i])) <= c
  <2>1. PICK number, value : number = e[names[i]] /\ value = bytes[names[i]]
    OBVIOUS
  <2>2. number \in 128 .. 157 /\ value \in Seq(Int) /\ Len(value) + 6 <= c /\ c \in Nat /\ c < MaxLength
    BY <1>7, <2>1 DEF Valuable, Numbered
  <2>3. v[i] = Primitive(<<number>>, value)
    BY <1>7, <2>1
  <2>4. QED
    BY <2>2, <2>3, PrimitiveIs
<1> DEFINE ss == [i \in 1 .. m |-> LeafBytes(v[i])]
<1>10. ss \in [1 .. m -> Seq(Int)] /\ \A i \in 1 .. m : Len(ss[i]) <= c
  BY <1>9
<1>11. LeavesBytes(o) = FlattenSeq(ss)
  BY <1>5, <1>6 DEF LeavesBytes
<1> HIDE DEF ss
<1>12. FlattenSeq(ss) \in Seq(Int) /\ Len(FlattenSeq(ss)) <= m * c
  <2>1. m \in Nat /\ c \in Nat
    BY DEF Valuable
  <2>2. QED
    BY ONLY <2>1, <1>10, FlattenBound
<1>13. Len(FlattenSeq(ss)) <= k * c /\ Len(FlattenSeq(ss)) < MaxLength
  <2>1. m \in Nat /\ k \in Nat /\ c \in Nat
    BY DEF Valuable
  <2>2. m * c <= k * c /\ m * c \in Nat /\ k * c \in Nat
    BY <1>4, <2>1, Products
  <2>3. Len(FlattenSeq(ss)) \in Nat
    BY <1>12, LenProperties
  <2>4. PICK x \in Nat, y \in Nat, z \in Nat : x = Len(FlattenSeq(ss)) /\ y = m * c /\ z = k * c
    BY <2>2, <2>3
  <2>5. x <= y /\ y <= z /\ z < MaxLength
    BY <1>12, <2>2, <2>4
  <2>6. QED
    BY <2>4, <2>5 DEF MaxLength
<1>14. PlainTag(<<tag>>) /\ TypeConstructed(tag)
  <2>1. (tag \div 32) = 5 /\ tag % 32 # 31
    OBVIOUS
  <2>2. QED
    BY <2>1 DEF PlainTag, TypeConstructed
<1>15. IsObject(o) /\ IsConstructed(o)
  <2>1. o.tag[1] = tag
    BY <1>6
  <2>2. PlainTag(o.tag) /\ TypeConstructed(o.tag[1])
    BY <1>6, <1>14, <2>1
  <2>3. Len(o.values) \in Nat /\ DOMAIN o.values = 1 .. Len(o.values)
    <3>1. Len(o.values) = m /\ DOMAIN o.values = 1 .. m
      BY <1>5, <1>6
    <3>2. QED
      BY <3>1
  <2>4. QED
    BY <2>2, <2>3 DEF IsObject, IsConstructed
<1>16. Branch(o)
  BY <1>5, <1>6, <1>9, <1>11, <1>13, <1>15 DEF Branch
<1>17. QED
  BY <1>8, <1>11, <1>13, <1>16 DEF o

\* The ones at some of the places are found, whatever is greatest of a name's places.
FoundIn(o, e, kept) ==
    LET places(n) == {i \in DOMAIN o.values : o.values[i].tag = <<e[n]>> /\ i \in kept}
    IN  [n \in {m \in DOMAIN e : places(m) # {}} |-> o.values[Max(places(n))]]

HeldAt(o, of, kept) ==
    {m \in DOMAIN of : \E i \in DOMAIN o.values : i \in kept /\ o.values[i] = of[m]}

HeldOnly(of, names) == [n \in names |-> of[n]]
LEMMA HeldIsFound ==
    ASSUME NEW o, NEW e, NEW of, Holding(o, e, of), NEW kept
    PROVE  FoundIn(o, e, kept) = HeldOnly(of, HeldAt(o, of, kept))
<1> DEFINE P(n) == {i \in DOMAIN o.values : o.values[i].tag = <<e[n]>> /\ i \in kept}
           D == {n \in DOMAIN e : P(n) # {}}
           B == {m \in DOMAIN of : \E i \in DOMAIN o.values : i \in kept /\ o.values[i] = of[m]}
<1>1. ASSUME NEW n \in DOMAIN e, NEW i \in P(n) PROVE n \in B /\ o.values[i] = of[n]
  <2>1. PICK a \in DOMAIN of : o.values[i] = of[a]
    BY DEF Holding
  <2>2. <<e[a]>> = <<e[n]>>
    BY <2>1 DEF Holding
  <2>3. <<e[a]>>[1] = <<e[n]>>[1]
    BY <2>2
  <2>4. a = n
    BY <2>3 DEF Holding, IsInjective
  <2>5. QED
    BY <2>1, <2>4
<1>2. ASSUME NEW n \in B PROVE n \in D
  <2>1. PICK i \in DOMAIN o.values : i \in kept /\ o.values[i] = of[n]
    OBVIOUS
  <2>2. i \in P(n) /\ n \in DOMAIN e
    BY <2>1 DEF Holding
  <2>3. QED
    BY <2>2
<1>3. ASSUME NEW n \in D PROVE n \in B /\ o.values[Max(P(n))] = of[n]
  <2> DEFINE Q == P(n)
  <2>1. Q # {} /\ Q \in SUBSET (0 .. Len(o.values)) /\ Len(o.values) \in Nat
    <3>1. Q # {} /\ Q \subseteq DOMAIN o.values
      OBVIOUS
    <3> HIDE DEF Q
    <3>2. Len(o.values) \in 0 .. 256 /\ DOMAIN o.values = 1 .. Len(o.values)
      BY DEF Holding
    <3>3. QED
      BY <3>1, <3>2
  <2> HIDE DEF Q
  <2>2. Max(Q) \in Q
    BY <2>1, MaxIs
  <2>3. QED
    BY <1>1, <2>2 DEF Q
<1>4. D = B
  BY <1>2, <1>3
<1>5. FoundIn(o, e, kept) = [n \in D |-> o.values[Max(P(n))]]
  BY DEF FoundIn
<1> HIDE DEF D, B
<1>6. [n \in D |-> o.values[Max(P(n))]] = [n \in D |-> of[n]]
  BY <1>3
<1>7. QED
  BY <1>4, <1>5, <1>6 DEF B, HeldAt, HeldOnly

\* What the three kinds of decoders find.
FoundKept(o, e) == Found(o, e, Kept)
FoundFull(o, e) == Found(o, e, Empty)
FoundPart(o, e) == Found(o, e, EmptyPrimitive)
FullOf(of) == {m \in DOMAIN of : ~Empty(of[m])}
PartsOf(of) == {m \in DOMAIN of : ~EmptyPrimitive(of[m])}
LEMMA FoundIs ==
    ASSUME NEW o, NEW e, NEW of, Holding(o, e, of)
    PROVE  /\ FoundKept(o, e) = HeldOnly(of, DOMAIN of)
           /\ FoundFull(o, e) = HeldOnly(of, FullOf(of))
           /\ FoundPart(o, e) = HeldOnly(of, PartsOf(of))
<1> DEFINE S(kept) == HeldAt(o, of, kept)
           K == DOMAIN o.values
           E == {i \in DOMAIN o.values : ~Empty(o.values[i])}
           F == {i \in DOMAIN o.values : ~EmptyPrimitive(o.values[i])}
<1>1. FoundKept(o, e) = FoundIn(o, e, K)
  BY DEF FoundKept, Found, FoundIn, Kept
<1>2. FoundFull(o, e) = FoundIn(o, e, E)
  BY DEF FoundFull, Found, FoundIn
<1>3. FoundPart(o, e) = FoundIn(o, e, F)
  BY DEF FoundPart, Found, FoundIn
<1>4. S(K) = DOMAIN of
  BY DEF Holding, HeldAt
<1>5. S(E) = FullOf(of)
  BY DEF FullOf, Holding, HeldAt
<1>6. S(F) = PartsOf(of)
  BY DEF PartsOf, Holding, HeldAt
<1> HIDE DEF K, E, F
<1>7. FoundIn(o, e, K) = HeldOnly(of, S(K))
  BY HeldIsFound
<1>8. FoundIn(o, e, E) = HeldOnly(of, S(E))
  BY HeldIsFound
<1>9. FoundIn(o, e, F) = HeldOnly(of, S(F))
  BY HeldIsFound
<1> HIDE DEF S
<1>10. FoundKept(o, e) = HeldOnly(of, DOMAIN of)
  BY <1>1, <1>4, <1>7
<1>11. FoundFull(o, e) = HeldOnly(of, FullOf(of))
  BY <1>2, <1>5, <1>8
<1>12. FoundPart(o, e) = HeldOnly(of, PartsOf(of))
  BY <1>3, <1>6, <1>9
<1>13. QED
  BY <1>10, <1>11, <1>12

-----------------------------------------------------------------------------
(* The tags of the objects.                                                *)

LEMMA NumberedNames ==
    ASSUME NEW names, NEW first, NEW last, AsMany(names, first, last), NEW S, Range(names) = S
    PROVE  Numbered(Enumeration(names, first), first, last) /\ DOMAIN Enumeration(names, first) = S
BY EnumerationIs, EnumerationDomain

LEMMA ConfigurationTagNumbers ==
    /\ Numbered(ConfigurationTag, 128, 157)
    /\ DOMAIN ConfigurationTag =
         {"FiraPhyVersion", "FiraMacVersion", "DeviceRole", "RangingMethod", "StsConfig",
          "MultiNodeMode", "RangingTimeStruct", "ScheduledMode", "HoppingMode", "BlockStriding",
          "UwbInitiationTime", "ChannelNumber", "RFrameConfig", "CcConstraintLength", "PrfMode",
          "Sp0PhySetNumber", "Sp1PhySetNumber", "Sp3PhySetNumber", "PreambleCodeIndex",
          "ResultReportConfig", "MacAddressMode", "ControleeShortMacAddress", "ControllerMacAddress",
          "SlotsPerRr", "MaxContentionPhaseLength", "SlotDuration", "RangingInterval",
          "KeyRotationRate", "MacFcsType", "MaxRrRetry"}
<1> DEFINE names == <<"FiraPhyVersion", "FiraMacVersion", "DeviceRole", "RangingMethod",
                       "StsConfig", "MultiNodeMode", "RangingTimeStruct", "ScheduledMode",
                       "HoppingMode", "BlockStriding", "UwbInitiationTime", "ChannelNumber",
                       "RFrameConfig", "CcConstraintLength", "PrfMode", "Sp0PhySetNumber",
                       "Sp1PhySetNumber", "Sp3PhySetNumber", "PreambleCodeIndex",
                       "ResultReportConfig", "MacAddressMode", "ControleeShortMacAddress",
                       "ControllerMacAddress", "SlotsPerRr", "MaxContentionPhaseLength",
                       "SlotDuration", "RangingInterval", "KeyRotationRate", "MacFcsType",
                       "MaxRrRetry">>
<1>1. AsMany(names, 128, 157)
  BY DEF AsMany
<1>2. Range(names) =
         {"FiraPhyVersion", "FiraMacVersion", "DeviceRole", "RangingMethod", "StsConfig",
          "MultiNodeMode", "RangingTimeStruct", "ScheduledMode", "HoppingMode", "BlockStriding",
          "UwbInitiationTime", "ChannelNumber", "RFrameConfig", "CcConstraintLength", "PrfMode",
          "Sp0PhySetNumber", "Sp1PhySetNumber", "Sp3PhySetNumber", "PreambleCodeIndex",
          "ResultReportConfig", "MacAddressMode", "ControleeShortMacAddress", "ControllerMacAddress",
          "SlotsPerRr", "MaxContentionPhaseLength", "SlotDuration", "RangingInterval",
          "KeyRotationRate", "MacFcsType", "MaxRrRetry"}
  BY SMT DEF Range
<1>3. ConfigurationTag = Enumeration(names, 128)
  BY DEF ConfigurationTag
<1> HIDE DEF names
<1>4. QED
  BY <1>1, <1>2, <1>3, NumberedNames

LEMMA StaticTagNumbers ==
    /\ Numbered(StaticTag, 128, 129)
    /\ DOMAIN StaticTag =
         {"VendorId", "StaticStsIv"}
<1> DEFINE names == <<"VendorId", "StaticStsIv">>
<1>1. AsMany(names, 128, 129)
  BY DEF AsMany
<1>2. Range(names) =
         {"VendorId", "StaticStsIv"}
  BY SMT DEF Range
<1>3. StaticTag = Enumeration(names, 128)
  BY DEF StaticTag
<1> HIDE DEF names
<1>4. QED
  BY <1>1, <1>2, <1>3, NumberedNames

LEMMA SecureTagNumbers ==
    /\ Numbered(SecureTag, 128, 130)
    /\ DOMAIN SecureTag =
         {"UwbSessionKeyInfo", "ResponderSpecificSubSessionKeyInfo", "SusAdditionalParameters"}
<1> DEFINE names == <<"UwbSessionKeyInfo", "ResponderSpecificSubSessionKeyInfo",
                       "SusAdditionalParameters">>
<1>1. AsMany(names, 128, 130)
  BY DEF AsMany
<1>2. Range(names) =
         {"UwbSessionKeyInfo", "ResponderSpecificSubSessionKeyInfo", "SusAdditionalParameters"}
  BY SMT DEF Range
<1>3. SecureTag = Enumeration(names, 128)
  BY DEF SecureTag
<1> HIDE DEF names
<1>4. QED
  BY <1>1, <1>2, <1>3, NumberedNames

LEMMA CapabilityTagNumbers ==
    /\ Numbered(CapabilityTag, 128, 145)
    /\ DOMAIN CapabilityTag =
         {"FiraPhyVersionRange", "FiraMacVersionRange", "DeviceRoles", "RangingMethod", "StsConfig",
          "MultiNodeMode", "RangingMode", "ScheduledMode", "HoppingMode", "BlockStriding",
          "UwbInitiationTime", "Channels", "RFrameConfig", "CcConstraintLength", "BprfParameterSets",
          "HprfParameterSets", "AoaSupport", "ExtendedMacAddress"}
<1> DEFINE names == <<"FiraPhyVersionRange", "FiraMacVersionRange", "DeviceRoles", "RangingMethod",
                       "StsConfig", "MultiNodeMode", "RangingMode", "ScheduledMode", "HoppingMode",
                       "BlockStriding", "UwbInitiationTime", "Channels", "RFrameConfig",
                       "CcConstraintLength", "BprfParameterSets", "HprfParameterSets", "AoaSupport",
                       "ExtendedMacAddress">>
<1>1. AsMany(names, 128, 145)
  BY DEF AsMany
<1>2. Range(names) =
         {"FiraPhyVersionRange", "FiraMacVersionRange", "DeviceRoles", "RangingMethod", "StsConfig",
          "MultiNodeMode", "RangingMode", "ScheduledMode", "HoppingMode", "BlockStriding",
          "UwbInitiationTime", "Channels", "RFrameConfig", "CcConstraintLength", "BprfParameterSets",
          "HprfParameterSets", "AoaSupport", "ExtendedMacAddress"}
  BY SMT DEF Range
<1>3. CapabilityTag = Enumeration(names, 128)
  BY DEF CapabilityTag
<1> HIDE DEF names
<1>4. QED
  BY <1>1, <1>2, <1>3, NumberedNames

LEMMA RegulatoryTagNumbers ==
    /\ Numbered(RegulatoryTag, 128, 141)
    /\ DOMAIN RegulatoryTag =
         {"InformationSource", "OutdoorPermitted", "CountryCode", "Timestamp"}
         \cup {"Channel5", "Channel6", "Channel8", "Channel9", "Channel10", "Channel12",
               "Channel13", "Channel14"}
<1> DEFINE n1 == <<"InformationSource", "OutdoorPermitted", "CountryCode", "Timestamp">>
           n2 == <<"Channel5", "Channel6", "Channel8", "Channel9", "Channel10",
                 "Channel12", "Channel13", "Channel14">>
           e1 == Enumeration(n1, 128)
           e2 == Enumeration(n2, 134)
<1>1. AsMany(n1, 128, 131) /\ AsMany(n2, 134, 141)
  BY DEF AsMany
<1>2. Range(n1) = {"InformationSource", "OutdoorPermitted", "CountryCode", "Timestamp"}
  BY SMT DEF Range
<1>3. Range(n2) = {"Channel5", "Channel6", "Channel8", "Channel9", "Channel10", "Channel12",
                   "Channel13", "Channel14"}
  BY SMT DEF Range
<1>4. RegulatoryTag = Over(e1, e2)
  BY DEF RegulatoryTag
<1> HIDE DEF n1, n2
<1>5. Numbered(e1, 128, 131) /\ DOMAIN e1 = Range(n1)
  BY <1>1, NumberedNames
<1>6. Numbered(e2, 134, 141) /\ DOMAIN e2 = Range(n2)
  BY <1>1, NumberedNames
<1> HIDE DEF e1, e2
<1>7. Apart(128, 131, 134, 141)
  BY DEF Apart
<1>8. Numbered(Over(e1, e2), 128, 141) /\ DOMAIN Over(e1, e2) = DOMAIN e1 \cup DOMAIN e2
  BY <1>5, <1>6, <1>7, OverIs, OverDomain
<1>9. QED
  BY <1>2, <1>3, <1>4, <1>5, <1>6, <1>8

LEMMA SessionDataTagNumbers ==
    /\ Numbered(SessionDataTag, 128, 166)
    /\ DOMAIN SessionDataTag =
         {"SessionDataVersion", "SessionId", "SubSessionId", "UwbConfigAvailable",
          "ConfigurationParameters", "StaticRangingInfo", "SecureRangingInfo",
          "RegulatoryInformation"}
    /\ \A t \in {"SessionDataVersion", "SessionId", "SubSessionId", "UwbConfigAvailable"} :
         SessionDataTag[t] \in 128 .. 157
    /\ SessionDataTag["ConfigurationParameters"] = 163 /\ SessionDataTag["StaticRangingInfo"] = 164
    /\ SessionDataTag["SecureRangingInfo"] = 165 /\ SessionDataTag["RegulatoryInformation"] = 166
<1> DEFINE n1 == <<"SessionDataVersion", "SessionId", "SubSessionId">>
           n2 == <<"ConfigurationParameters", "StaticRangingInfo", "SecureRangingInfo",
                   "RegulatoryInformation">>
           f == [UwbConfigAvailable |-> 135]
           e1 == Enumeration(n1, 128)
           e2 == Enumeration(n2, 163)
           o2 == Over(f, e2)
<1>1. AsMany(n1, 128, 130) /\ AsMany(n2, 163, 166)
  BY DEF AsMany
<1>2. Range(n1) = {"SessionDataVersion", "SessionId", "SubSessionId"}
  BY SMT DEF Range
<1>3. Range(n2) = {"ConfigurationParameters", "StaticRangingInfo", "SecureRangingInfo",
                   "RegulatoryInformation"}
  BY SMT DEF Range
<1>4. /\ DOMAIN n2 = 1 .. 4 /\ n2[1] = "ConfigurationParameters" /\ n2[2] = "StaticRangingInfo"
      /\ n2[3] = "SecureRangingInfo" /\ n2[4] = "RegulatoryInformation"
  OBVIOUS
<1>5. SessionDataTag = Over(e1, o2)
  BY DEF SessionDataTag
<1>6. Numbered(f, 135, 135) /\ DOMAIN f = {"UwbConfigAvailable"}
  BY DEF Numbered, IsInjective
<1> HIDE DEF n1, n2, f
<1>7. Numbered(e1, 128, 130) /\ DOMAIN e1 = Range(n1)
  BY <1>1, NumberedNames
<1>8. Numbered(e2, 163, 166) /\ DOMAIN e2 = Range(n2)
  BY <1>1, NumberedNames
<1>9. \A i \in 1 .. 4 : e2[n2[i]] = 162 + i
  <2> TAKE i \in 1 .. 4
  <2>1. n2[i] \in Range(n2)
    BY <1>4 DEF Range
  <2>2. \A j \in DOMAIN n2 : n2[j] = n2[i] => j = i
    BY <1>4
  <2>3. (CHOOSE j \in DOMAIN n2 : n2[j] = n2[i]) = i
    BY <1>4, <2>2
  <2>4. QED
    BY <2>1, <2>3 DEF Enumeration
<1> HIDE DEF e1, e2
<1>10. Apart(135, 135, 163, 166) /\ Apart(128, 130, 135, 166)
  BY DEF Apart
<1>11. /\ Numbered(o2, 135, 166) /\ DOMAIN o2 = DOMAIN f \cup DOMAIN e2
       /\ \A n \in DOMAIN e2 \ DOMAIN f : o2[n] = e2[n]
  BY <1>6, <1>8, <1>10, OverIs, OverDomain
<1> HIDE DEF o2
<1>12. /\ Numbered(Over(e1, o2), 128, 166) /\ DOMAIN Over(e1, o2) = DOMAIN e1 \cup DOMAIN o2
       /\ \A n \in DOMAIN e1 : Over(e1, o2)[n] = e1[n]
       /\ \A n \in DOMAIN o2 \ DOMAIN e1 : Over(e1, o2)[n] = o2[n]
  BY <1>7, <1>10, <1>11, OverIs, OverDomain
<1>13. o2["UwbConfigAvailable"] = 135
  BY <1>6 DEF Over, o2, f
<1>14. /\ SessionDataTag["UwbConfigAvailable"] \in 128 .. 157
       /\ \A t \in DOMAIN e1 : SessionDataTag[t] \in 128 .. 157
  BY <1>2, <1>3, <1>5, <1>6, <1>7, <1>8, <1>11, <1>12, <1>13 DEF Numbered
<1>15. \A n \in DOMAIN e2 : SessionDataTag[n] = e2[n]
  BY <1>2, <1>3, <1>5, <1>6, <1>7, <1>8, <1>11, <1>12
<1>16. /\ e2["ConfigurationParameters"] = 163 /\ e2["StaticRangingInfo"] = 164
       /\ e2["SecureRangingInfo"] = 165 /\ e2["RegulatoryInformation"] = 166
  BY <1>4, <1>9
<1>17. QED
  BY <1>2, <1>3, <1>5, <1>6, <1>7, <1>8, <1>11, <1>12, <1>14, <1>15, <1>16

-----------------------------------------------------------------------------
(* Configurations.                                                         *)

\* What is found has the values.
Finds(found, names, bytes) ==
    DOMAIN found = names /\ \A n \in names : found[n].value = bytes[n]

\* The names whose values have bytes.
Nonempty(bytes) == {n \in DOMAIN bytes : bytes[n] # << >>}
LEMMA ObjectFinds ==
    ASSUME NEW e, NEW bytes, NEW c, Valuable(e, bytes, c), NEW k \in Nat,
           Len(InOrder(DOMAIN bytes, e)) <= k, k * c < MaxLength,
           NEW tag \in 163 .. 166
    PROVE  LET o == ObjectOf(<<tag>>, e, bytes) IN
           /\ Branch(o) /\ Len(LeavesBytes(o)) <= k * c /\ o.tag = <<tag>>
           /\ Holding(o, e, Primitives(e, bytes))
           /\ Finds(FoundKept(o, e), DOMAIN bytes, bytes)
           /\ Finds(FoundFull(o, e), Nonempty(bytes), bytes)
<1> DEFINE o == ObjectOf(<<tag>>, e, bytes)
           of == Primitives(e, bytes)
<1>1. Branch(o) /\ Len(LeavesBytes(o)) <= k * c /\ Holding(o, e, of)
  BY ObjectOfIs
<1>2. DOMAIN of = DOMAIN bytes /\ \A n \in DOMAIN bytes : of[n].value = bytes[n]
  BY DEF Primitives, Primitive
<1>3. o.tag = <<tag>>
  BY DEF ObjectOf, Constructed
<1> HIDE DEF o, of
<1>4. FoundKept(o, e) = HeldOnly(of, DOMAIN of)
  BY ONLY <1>1, FoundIs
<1>5. FoundFull(o, e) = HeldOnly(of, FullOf(of))
  BY ONLY <1>1, FoundIs
<1>6. Finds(FoundKept(o, e), DOMAIN bytes, bytes)
  BY <1>2, <1>4 DEF Finds, HeldOnly
<1>7. FullOf(of) = Nonempty(bytes)
  BY <1>2 DEF Empty, FullOf, Nonempty
<1>8. Finds(FoundFull(o, e), Nonempty(bytes), bytes)
  <2>1. \A n \in Nonempty(bytes) : n \in DOMAIN bytes
    BY DEF Nonempty
  <2>2. QED
    BY <1>2, <1>5, <1>7, <2>1 DEF Finds, HeldOnly
<1>9. QED
  BY <1>1, <1>3, <1>6, <1>8 DEF o, of

\* One byte, and the bytes of an address.
LEMMA OneByte ==
    ASSUME NEW x \in Int
    PROVE  <<x>> \in Seq(Int) /\ Len(<<x>>) = 1 /\ <<x>>[1] = x /\ <<x>> # << >>
OBVIOUS

Lost == {"RangingMethod"} \cup Integers16 \cup Integers32
\* What is made of the value of each tag.
ValueArrives(t, value) ==
    LET v == ConfigurationValue(t, value) IN
    /\ v \in Seq(Int) /\ Len(v) <= 8
    /\ v = << >> <=> t = "RangingMethod"
    /\ t # "RangingMethod" =>
         /\ Accepts(t, v) <=> (t = "ResultReportConfig" => value # {})
         /\ t \notin Lost => DecodedValue(t, v) = value

LEMMA FewNumbers ==
    ASSUME NEW names, NEW n \in 1 .. 4, DOMAIN names = 1 .. n
    PROVE  Range(Enumeration(names, 0)) \subseteq 0 .. 255
<1> DEFINE e == Enumeration(names, 0)
<1>1. AsMany(names, 0, n - 1)
  BY DEF AsMany
<1>2. Numbered(e, 0, n - 1)
  BY <1>1, EnumerationIs
<1> HIDE DEF e
<1>3. \A m \in DOMAIN e : e[m] \in 0 .. n - 1
  BY <1>2, Zenon DEF Numbered
<1>4. \A k \in 0 .. n - 1 : k \in 0 .. 255
  OBVIOUS
<1>5. \A k \in Range(e) : \E m \in DOMAIN e : k = e[m]
  BY Zenon DEF Range
<1>6. ASSUME NEW k \in Range(e) PROVE k \in 0 .. 255
  <2>1. PICK m \in DOMAIN e : k = e[m]
    BY <1>5
  <2>2. k \in 0 .. n - 1
    BY <1>3, <2>1
  <2>3. QED
    BY <1>4, <2>2
<1>7. QED
  BY <1>6, Zenon DEF e

LEMMA ConfigurationNumbers ==
    \A t \in DOMAIN ConfigurationEnumeration : Range(ConfigurationEnumeration[t]) \subseteq 0 .. 255
<1>1. Range(DeviceRole) \subseteq 0 .. 255
  <2> DEFINE names == <<"Responder", "Initiator">>
  <2>1. DOMAIN names = 1 .. 2 /\ DeviceRole = Enumeration(names, 0)
    BY DEF DeviceRole
  <2> HIDE DEF names
  <2>2. QED
    BY <2>1, FewNumbers
<1>2. Range(RangingMode) \subseteq 0 .. 255
  <2> DEFINE names == <<"Interval", "Block">>
  <2>1. DOMAIN names = 1 .. 2 /\ RangingMode = Enumeration(names, 0)
    BY DEF RangingMode
  <2> HIDE DEF names
  <2>2. QED
    BY <2>1, FewNumbers
<1>3. Range(SchedulingMode) \subseteq 0 .. 255
  <2> DEFINE names == <<"Contention", "Time">>
  <2>1. DOMAIN names = 1 .. 2 /\ SchedulingMode = Enumeration(names, 0)
    BY DEF SchedulingMode
  <2> HIDE DEF names
  <2>2. QED
    BY <2>1, FewNumbers
<1>4. Range(PrfMode) \subseteq 0 .. 255
  <2> DEFINE names == <<"Bprf", "Hprf">>
  <2>1. DOMAIN names = 1 .. 2 /\ PrfMode = Enumeration(names, 0)
    BY DEF PrfMode
  <2> HIDE DEF names
  <2>2. QED
    BY <2>1, FewNumbers
<1>5. Range(ConvolutionalCodeConstraintLength) \subseteq 0 .. 255
  <2> DEFINE names == <<"K3", "K7">>
  <2>1. DOMAIN names = 1 .. 2 /\ ConvolutionalCodeConstraintLength = Enumeration(names, 0)
    BY DEF ConvolutionalCodeConstraintLength
  <2> HIDE DEF names
  <2>2. QED
    BY <2>1, FewNumbers
<1>6. Range(UwbMacAddressFcsType) \subseteq 0 .. 255
  <2> DEFINE names == <<"Crc16", "Crc32">>
  <2>1. DOMAIN names = 1 .. 2 /\ UwbMacAddressFcsType = Enumeration(names, 0)
    BY DEF UwbMacAddressFcsType
  <2> HIDE DEF names
  <2>2. QED
    BY <2>1, FewNumbers
<1>7. Range(StsConfiguration) \subseteq 0 .. 255
  <2> DEFINE names == <<"Static", "Dynamic", "DynamicWithResponderSubSessionKey">>
  <2>1. DOMAIN names = 1 .. 3 /\ StsConfiguration = Enumeration(names, 0)
    BY DEF StsConfiguration
  <2> HIDE DEF names
  <2>2. QED
    BY <2>1, FewNumbers
<1>8. Range(MultiNodeMode) \subseteq 0 .. 255
  <2> DEFINE names == <<"Unicast", "OneToMany", "ManyToMany">>
  <2>1. DOMAIN names = 1 .. 3 /\ MultiNodeMode = Enumeration(names, 0)
    BY DEF MultiNodeMode
  <2> HIDE DEF names
  <2>2. QED
    BY <2>1, FewNumbers
<1>9. Range(RFrameConfiguration) \subseteq 0 .. 255
  <2> DEFINE names == <<"SP0", "SP1", "SP2", "SP3">>
  <2>1. DOMAIN names = 1 .. 4 /\ RFrameConfiguration = Enumeration(names, 0)
    BY DEF RFrameConfiguration
  <2> HIDE DEF names
  <2>2. QED
    BY <2>1, FewNumbers
<1>10. Range(Channel) \subseteq 0 .. 255 /\ Range(UwbMacAddressType) \subseteq 0 .. 255
  BY DEF Channel, UwbMacAddressType, Range
<1>11. QED
  BY <1>1, <1>2, <1>3, <1>4, <1>5, <1>6, <1>7, <1>8, <1>9, <1>10 DEF ConfigurationEnumeration

LEMMA BytesOfLength ==
    ASSUME NEW X, NEW n \in Nat, NEW s \in [1 .. n -> X]
    PROVE  s \in Seq(X) /\ Len(s) = n
OBVIOUS

LEMMA ValueArrivesAs ==
    ASSUME NEW t, NEW value, NEW v \in Seq(Int), v = ConfigurationValue(t, value), Len(v) <= 8,
           v # << >>, t # "RangingMethod", Accepts(t, v) <=> (t = "ResultReportConfig" => value # {}),
           t \in Lost \/ DecodedValue(t, v) = value
    PROVE  ValueArrives(t, value)
BY Zenon DEF ValueArrives

LEMMA EnumeratedArrives ==
    ASSUME NEW t \in DOMAIN ConfigurationEnumeration,
           NEW value, value \in Range(ConfigurationEnumeration[t])
    PROVE  ValueArrives(t, value)
<1>1. /\ t # "RangingMethod" /\ t \notin Addresses /\ t # "ResultReportConfig"
      /\ t \notin Integers16 /\ t \notin Integers32 /\ t \notin Booleans
      /\ t # "ControleeShortMacAddress" /\ t # "ControllerMacAddress"
  BY DEF ConfigurationEnumeration, Addresses, Integers16, Integers32, Booleans
<1>7. value \in Int
  BY ConfigurationNumbers
<1>2. ConfigurationValue(t, value) = <<value>>
  BY <1>1, Zenon DEF ConfigurationValue
<1>3. Accepts(t, <<value>>) <=> <<value>>[1] \in Range(ConfigurationEnumeration[t])
  BY <1>1, Zenon DEF Accepts
<1>4. t \notin Integers16 \cup Integers32
  BY <1>1
<1>5. DecodedValue(t, <<value>>) = <<value>>[1]
  BY <1>1, <1>4, Zenon DEF DecodedValue
<1>6. <<value>> \in Seq(Int) /\ Len(<<value>>) <= 8 /\ <<value>>[1] = value /\ <<value>> # << >>
  BY <1>7
<1> DEFINE v == <<value>>
<1> HIDE DEF v
<1>8. Accepts(t, v) /\ DecodedValue(t, v) = value
  BY <1>3, <1>5, <1>6 DEF v
<1>9. v \in Seq(Int) /\ Len(v) <= 8 /\ v # << >> /\ v = ConfigurationValue(t, value)
  BY <1>2, <1>6 DEF v
<1>10. QED
  BY <1>1, <1>8, <1>9, ValueArrivesAs

LEMMA PlainArrives ==
    ASSUME NEW t \in Booleans \cup Integers8, NEW value, IsValue(t, value, Int)
    PROVE  ValueArrives(t, value)
<1>1. /\ t # "RangingMethod" /\ t \notin Addresses /\ t # "ResultReportConfig"
      /\ t \notin Integers16 /\ t \notin Integers32 /\ t \notin DOMAIN ConfigurationEnumeration
      /\ t # "ControleeShortMacAddress" /\ t # "ControllerMacAddress"
  BY DEF ConfigurationEnumeration, Addresses, Integers8, Integers16, Integers32, Booleans
<1>2. ConfigurationValue(t, value) = <<value>>
  BY <1>1, Zenon DEF ConfigurationValue
<1>3. Accepts(t, <<value>>)
  BY <1>1, Zenon DEF Accepts
<1>4. t \notin Integers16 \cup Integers32
  BY <1>1
<1>5. value \in Int /\ (t \in Booleans => value \in {0, 1})
  <2>1. /\ t \in Booleans => value \in {0, 1}
        /\ t \in Integers8 => value \in Byte
    BY Zenon DEF IsValue
  <2>2. QED
    BY <2>1 DEF Byte
<1>6. DecodedValue(t, <<value>>) = value
  <2>1. CASE t \in Booleans
    <3>1. <<value>>[1] # 0 => DecodedValue(t, <<value>>) = 1
      BY <1>1, <1>4, <2>1, Zenon DEF DecodedValue
    <3>2. ~(<<value>>[1] # 0) => DecodedValue(t, <<value>>) = 0
      BY <1>1, <1>4, <2>1, Zenon DEF DecodedValue
    <3>3. QED
      BY <1>5, <2>1, <3>1, <3>2
  <2>2. CASE t \notin Booleans
    <3>1. DecodedValue(t, <<value>>) = <<value>>[1]
      BY <1>1, <1>4, <2>2, Zenon DEF DecodedValue
    <3>2. QED
      BY <3>1
  <2>3. QED
    BY <2>1, <2>2
<1>7. <<value>> \in Seq(Int) /\ Len(<<value>>) <= 8 /\ <<value>>[1] = value /\ <<value>> # << >>
  BY <1>5
<1> DEFINE v == <<value>>
<1> HIDE DEF v
<1>8. v \in Seq(Int) /\ Len(v) <= 8 /\ v # << >> /\ v = ConfigurationValue(t, value)
      /\ Accepts(t, v) /\ DecodedValue(t, v) = value
  BY <1>2, <1>3, <1>6, <1>7 DEF v
<1>9. QED
  BY <1>1, <1>8, ValueArrivesAs

LEMMA ReportsArrive ==
    ASSUME NEW value \in SUBSET (DOMAIN ResultReportConfiguration)
    PROVE  ValueArrives("ResultReportConfig", value)
<1> DEFINE t == "ResultReportConfig"
<1>1. /\ t \notin Addresses /\ t \notin Integers16 /\ t \notin Integers32 /\ t \notin Booleans
      /\ t \notin DOMAIN ConfigurationEnumeration
  BY DEF ConfigurationEnumeration, Addresses, Integers16, Integers32, Booleans
<1>2. t \notin Integers16 \cup Integers32 /\ t # "RangingMethod"
  BY <1>1
<1>3. ConfigurationValue(t, value) = <<Bits(value)>>
  BY <1>1, Zenon DEF ConfigurationValue
<1>4. Bits(value) \in Int /\ Reports(Bits(value)) = value
  BY BitsReturn
<1> DEFINE b == Bits(value)
<1> HIDE DEF b
<1>5. Accepts(t, <<b>>) <=> Reports(<<b>>[1]) # {}
  BY <1>1, Zenon DEF Accepts
<1>6. DecodedValue(t, <<b>>) = Reports(<<b>>[1])
  BY <1>1, <1>2, Zenon DEF DecodedValue
<1>7. <<b>> \in Seq(Int) /\ Len(<<b>>) <= 8 /\ <<b>>[1] = b /\ <<b>> # << >>
  BY <1>4 DEF b
<1> DEFINE v == <<b>>
<1> HIDE DEF v, t
<1>8. v \in Seq(Int) /\ Len(v) <= 8 /\ v # << >> /\ v = ConfigurationValue(t, value)
      /\ DecodedValue(t, v) = value
  BY <1>3, <1>4, <1>6, <1>7 DEF v, b
<1>9. Accepts(t, v) <=> value # {}
  BY <1>4, <1>5, <1>7 DEF v, b
<1>10. t # "RangingMethod" /\ t = "ResultReportConfig"
  BY <1>2 DEF t
<1>11. QED
  BY <1>8, <1>9, <1>10, ValueArrivesAs

LEMMA AddressArrives ==
    ASSUME NEW t \in Addresses, NEW value, IsValue(t, value, Int)
    PROVE  ValueArrives(t, value)
<1>1. /\ t # "RangingMethod" /\ t # "ResultReportConfig"
      /\ t \notin Integers16 \cup Integers32 /\ t \notin Booleans
      /\ t \notin DOMAIN ConfigurationEnumeration
      /\ t \in {"ControleeShortMacAddress", "ControllerMacAddress"}
  BY DEF ConfigurationEnumeration, Addresses, Integers16, Integers32, Booleans
<1>2. ConfigurationValue(t, value) = value
  BY <1>1, Zenon DEF ConfigurationValue
<1>3. /\ UwbMacAddressLength.Short = 2 /\ Range(UwbMacAddressLength) = {2, 8}
      /\ UwbMacAddressLength.Extended = 8
  BY DEF UwbMacAddressLength, Range
<1>4. \/ value \in [1 .. 2 -> Int]
      \/ t = "ControllerMacAddress" /\ value \in [1 .. 8 -> Int]
  BY <1>3 DEF IsValue
<1>5. /\ value \in Seq(Int) /\ Len(value) \in {2, 8} /\ DOMAIN value = 1 .. Len(value)
      /\ t # "ControllerMacAddress" => Len(value) = 2
  <2>1. PICK n \in {2, 8} : /\ value \in [1 .. n -> Int]
                            /\ t # "ControllerMacAddress" => n = 2
    BY <1>4
  <2>2. n \in Nat
    OBVIOUS
  <2>3. value \in Seq(Int) /\ Len(value) = n
    BY <2>1, <2>2, BytesOfLength
  <2>4. QED
    BY <2>1, <2>3
<1>6. Accepts(t, value)
  <2>1. CASE t = "ControllerMacAddress"
    <3>1. Accepts(t, value) <=> Len(value) \in Range(UwbMacAddressLength)
      BY <1>1, <2>1, Zenon DEF Accepts
    <3>2. QED
      BY <1>3, <1>5, <3>1
  <2>2. CASE t # "ControllerMacAddress"
    BY <1>1, <2>2, Zenon DEF Accepts
  <2>3. QED
    BY <2>1, <2>2
<1>7. DecodedValue(t, value) = [i \in 1 .. Len(value) |-> value[i]]
  <2>1. CASE t = "ControllerMacAddress"
    <3>1. "ControllerMacAddress" # "ControleeShortMacAddress"
      OBVIOUS
    <3>2. QED
      BY <1>1, <2>1, <3>1, Zenon DEF DecodedValue
  <2>2. CASE t # "ControllerMacAddress"
    <3>1. DecodedValue(t, value) = [i \in 1 .. UwbMacAddressLength.Short |-> value[i]]
      BY <1>1, <2>2, Zenon DEF DecodedValue
    <3>2. QED
      BY <1>3, <1>5, <2>2, <3>1
  <2>3. QED
    BY <2>1, <2>2
<1>8. DecodedValue(t, value) = value
  <2>1. value = [i \in DOMAIN value |-> value[i]]
    BY <1>4
  <2>2. QED
    BY <1>5, <1>7, <2>1
<1>9. Len(value) <= 8 /\ value # << >>
  <2>1. \A k \in {2, 8} : k # 0 /\ k <= 8
    OBVIOUS
  <2>2. Len(<< >>) = 0
    OBVIOUS
  <2>3. QED
    BY <1>5, <2>1, <2>2
<1>10. QED
  BY <1>1, <1>2, <1>5, <1>6, <1>8, <1>9, ValueArrivesAs

LEMMA NumberArrives ==
    ASSUME NEW t \in Integers16 \cup Integers32, NEW value, IsValue(t, value, Int)
    PROVE  ValueArrives(t, value)
<1>1. /\ t # "RangingMethod" /\ t # "ResultReportConfig" /\ t \notin Addresses
      /\ t # "ControllerMacAddress" /\ t \notin DOMAIN ConfigurationEnumeration
      /\ t \in Integers16 => t \notin Integers32
  BY DEF ConfigurationEnumeration, Addresses, Integers16, Integers32
<1>2. PICK n \in {2, 4} : /\ WithinBytes(value, n)
                          /\ ConfigurationValue(t, value) = GetBytesBigEndianFromBitMap(value, n)
  <2>1. CASE t \in Integers16
    <3>1. ConfigurationValue(t, value) = GetBytesBigEndianFromBitMap(value, 2)
      BY <1>1, <2>1, Zenon DEF ConfigurationValue
    <3>2. WithinBytes(value, 2)
      BY <2>1 DEF IsValue
    <3>3. QED
      BY <3>1, <3>2
  <2>2. CASE t \in Integers32
    <3>1. t \notin Integers16
      BY <1>1, <2>2
    <3>2. ConfigurationValue(t, value) = GetBytesBigEndianFromBitMap(value, 4)
      BY <1>1, <2>2, <3>1, Zenon DEF ConfigurationValue
    <3>3. WithinBytes(value, 4)
      BY <2>2 DEF IsValue
    <3>4. QED
      BY <3>2, <3>3
  <2>3. QED
    BY <2>1, <2>2
<1>3. WithinBigEndian(value, n)
  BY <1>2 DEF WithinBytes, WithinBigEndian
<1> DEFINE v == GetBytesBigEndianFromBitMap(value, n)
<1>4. n \in 1 .. 4
  OBVIOUS
<1> HIDE DEF v
<1>5. v \in Seq(Int) /\ Len(v) <= 8 /\ v # << >>
  <2>1. v \in [1 .. n -> 0 .. 255]
    BY <1>3, <1>4, BigEndianReturns DEF v
  <2>2. v \in Seq(Int) /\ Len(v) = n
    <3>1. \A k \in 0 .. 255 : k \in Int
      OBVIOUS
    <3>2. [1 .. n -> 0 .. 255] \subseteq [1 .. n -> Int]
      BY <3>1, Zenon
    <3>3. v \in [1 .. n -> Int] /\ n \in Nat
      BY <1>4, <2>1, <3>2
    <3>4. QED
      BY <3>3, BytesOfLength
  <2>3. QED
    BY <1>4, <2>2
<1>6. Accepts(t, v)
  BY <1>1, Zenon DEF Accepts
<1>7. t \in Lost
  BY DEF Lost
<1>8. v = ConfigurationValue(t, value)
  BY <1>2 DEF v
<1>9. QED
  BY <1>1, <1>5, <1>6, <1>7, <1>8, ValueArrivesAs

\* What is made of any value.
LEMMA ValuesArrive ==
    ASSUME NEW t \in DOMAIN ConfigurationTag, NEW value, IsValue(t, value, Int)
    PROVE  ValueArrives(t, value)
<1>1. \/ t \in DOMAIN ConfigurationEnumeration
      \/ t \in Booleans \cup Integers8
      \/ t \in Integers16 \cup Integers32
      \/ t \in Addresses
      \/ t = "ResultReportConfig"
      \/ t = "RangingMethod"
  BY ConfigurationTagNumbers
     DEF ConfigurationEnumeration, Addresses, Integers8, Integers16, Integers32, Booleans
<1>2. CASE t = "RangingMethod"
  <2>1. t \notin Addresses /\ t # "ResultReportConfig" /\ t \notin Integers16 /\ t \notin Integers32
    BY <1>2 DEF Addresses, Integers16, Integers32
  <2>2. ConfigurationValue(t, value) = << >>
    BY <1>2, <2>1, Zenon DEF ConfigurationValue
  <2>3. << >> \in Seq(Int) /\ Len(<< >>) <= 8
    OBVIOUS
  <2>4. QED
    BY <1>2, <2>2, <2>3, Zenon DEF ValueArrives
<1>3. CASE t = "ResultReportConfig"
  BY <1>3, ReportsArrive DEF IsValue
<1>4. CASE t \in DOMAIN ConfigurationEnumeration
  BY <1>4, EnumeratedArrives DEF IsValue
<1>5. QED
  BY <1>1, <1>2, <1>3, <1>4, AddressArrives, NumberArrives, PlainArrives

-----------------------------------------------------------------------------
(* A configuration, from one host to the other.                            *)

\* The names of what is certain to arrive.
Certain(t, value, first) ==
    /\ t \notin Lost /\ (~first => t \notin Integers8)
    /\ t = "ResultReportConfig" => value # {}

LEMMA PlainIs ==
    ASSUME NEW c, NEW r, NEW first \in BOOLEAN,
           \A t \in DOMAIN c : Certain(t, c[t], first) => t \in DOMAIN r /\ r[t] = c[t],
           \A t \in DOMAIN r : Certain(t, r[t], first) => t \in DOMAIN c /\ r[t] = c[t]
    PROVE  Plain(r, first) = Plain(c, first)
<1> DEFINE lost == {"RangingMethod"} \cup Integers16 \cup Integers32
                   \cup (IF first THEN {} ELSE Integers8)
           names(f) == {t \in DOMAIN f \ lost : t = "ResultReportConfig" => f[t] # {}}
<1>1. \A t : t \in lost <=> t \in Lost \/ (~first /\ t \in Integers8)
  BY Zenon DEF Lost
<1>2. Plain(r, first) = [t \in names(r) |-> r[t]] /\ Plain(c, first) = [t \in names(c) |-> c[t]]
  BY Zenon DEF Plain, Restrict
<1> HIDE DEF lost
<1>3. \A t : t \in names(r) <=> t \in DOMAIN r /\ Certain(t, r[t], first)
  BY <1>1, Zenon DEF Certain
<1>4. \A t : t \in names(c) <=> t \in DOMAIN c /\ Certain(t, c[t], first)
  BY <1>1, Zenon DEF Certain
<1> DEFINE nr == names(r)
           nc == names(c)
<1> HIDE DEF names, nr, nc
<1>5. nr = nc /\ \A t \in nr : r[t] = c[t]
  BY <1>3, <1>4 DEF nr, nc
<1>6. [t \in nr |-> r[t]] = [t \in nc |-> c[t]]
  BY <1>5
<1>7. QED
  BY <1>2, <1>6, Zenon DEF nr, nc

\* The bytes of a configuration's values.
ValueBytes(c) == [t \in DOMAIN c |-> ConfigurationValue(t, c[t])]
LEMMA ValueBytesAre ==
    ASSUME NEW c, IsConfiguration(c, Int)
    PROVE  /\ Valuable(ConfigurationTag, ValueBytes(c), 14) /\ DOMAIN ValueBytes(c) = DOMAIN c
           /\ \A t \in DOMAIN c :
                /\ t \in DOMAIN ConfigurationTag /\ ValueArrives(t, c[t])
                /\ ValueBytes(c)[t] = ConfigurationValue(t, c[t])
<1> DEFINE bytes == ValueBytes(c)
<1>1. DOMAIN bytes = DOMAIN c /\ \A t \in DOMAIN c : bytes[t] = ConfigurationValue(t, c[t])
  BY Zenon DEF ValueBytes
<1>2. \A t \in DOMAIN c : t \in DOMAIN ConfigurationTag /\ ValueArrives(t, c[t])
  BY ValuesArrive, Zenon DEF IsConfiguration
<1> HIDE DEF bytes
<1>3. \A t \in DOMAIN c : bytes[t] \in Seq(Int) /\ Len(bytes[t]) <= 8
  BY <1>1, <1>2, Zenon DEF ValueArrives
<1>4. ASSUME NEW t \in DOMAIN c PROVE Len(bytes[t]) + 6 <= 14
  <2>1. Len(bytes[t]) \in Nat /\ Len(bytes[t]) <= 8
    BY <1>3, LenProperties
  <2>2. QED
    BY <2>1
<1>5. 14 \in Nat /\ 14 < MaxLength
  BY DEF MaxLength
<1>6. DOMAIN ConfigurationTag # {}
  BY ConfigurationTagNumbers
<1>7. Valuable(ConfigurationTag, bytes, 14)
  BY <1>1, <1>2, <1>3, <1>4, <1>5, <1>6, ConfigurationTagNumbers, Zenon DEF Valuable
<1>8. QED
  BY <1>1, <1>2, <1>7, Zenon DEF bytes

\* An object of values of few bytes.
LEMMA SmallObject ==
    ASSUME NEW e, NEW bytes, Valuable(e, bytes, 14), NEW tag \in 163 .. 166
    PROVE  LET o == ObjectOf(<<tag>>, e, bytes) IN
           /\ Branch(o) /\ Len(LeavesBytes(o)) <= 3584 /\ o.tag = <<tag>>
           /\ Finds(FoundFull(o, e), Nonempty(bytes), bytes)
<1>1. Len(InOrder(DOMAIN bytes, e)) <= 256
  <2>1. Numbered(e, 0, 255)
    <3>1. \A n \in DOMAIN e : e[n] \in 128 .. 157
      BY DEF Valuable, Numbered
    <3>2. \A n \in DOMAIN e : e[n] \in 0 .. 255
      BY <3>1
    <3>3. QED
      BY <3>2 DEF Valuable, Numbered
  <2>2. DOMAIN e # {} /\ DOMAIN bytes \in SUBSET (DOMAIN e)
    BY DEF Valuable
  <2>3. Len(InOrder(DOMAIN bytes, e)) \in 0 .. 256
    BY <2>1, <2>2, InOrderIs
  <2> DEFINE n == Len(InOrder(DOMAIN bytes, e))
  <2> HIDE DEF n
  <2>4. n \in 0 .. 256 => n <= 256
    OBVIOUS
  <2>5. QED
    BY <2>3, <2>4 DEF n
<1> DEFINE k == 256
           w == 14
           o == ObjectOf(<<tag>>, e, bytes)
<1>2. k \in Nat /\ k * w = 3584 /\ k * w < MaxLength
  BY DEF MaxLength
<1>3. Len(InOrder(DOMAIN bytes, e)) <= k /\ Valuable(e, bytes, w)
  BY <1>1
<1> HIDE DEF k, w, o
<1>4. Branch(o) /\ Len(LeavesBytes(o)) <= k * w
  BY <1>2, <1>3, ObjectFinds DEF o
<1>5. o.tag = <<tag>>
  BY <1>2, <1>3, ObjectFinds DEF o
<1>6. Finds(FoundFull(o, e), Nonempty(bytes), bytes)
  BY <1>2, <1>3, ObjectFinds DEF o
<1>7. QED
  BY <1>2, <1>4, <1>5, <1>6 DEF o

LEMMA ConfigurationObject ==
    ASSUME NEW c, IsConfiguration(c, Int)
    PROVE  LET o == ToConfigurationObject(c) IN
           /\ Branch(o) /\ Len(LeavesBytes(o)) <= 3584 /\ o.tag = <<163>>
           /\ Finds(FoundFull(o, ConfigurationTag), Nonempty(ValueBytes(c)), ValueBytes(c))
<1> DEFINE tag == 163
           e == ConfigurationTag
           bytes == ValueBytes(c)
<1>1. ToConfigurationObject(c) = ObjectOf(<<tag>>, e, bytes) /\ tag \in 163 .. 166 /\ tag = 163
  BY DEF ToConfigurationObject, ValueBytes
<1>2. Valuable(e, bytes, 14)
  BY ValueBytesAre
<1> HIDE DEF tag, e, bytes
<1>3. QED
  BY <1>1, <1>2, SmallObject DEF e, bytes

\* A decoded configuration: for some of the configuration's tags, the value that is
\* made of the bytes.
DecodedFrom(r, c, tags) ==
    /\ DOMAIN r = tags /\ tags \subseteq DOMAIN c
    /\ \A t \in tags : r[t] = DecodedValue(t, ConfigurationValue(t, c[t]))

AcceptedTags(c) ==
    {t \in DOMAIN c : t # "RangingMethod" /\ (t = "ResultReportConfig" => c[t] # {})}

LEMMA ConfigurationDecoded ==
    ASSUME NEW c, IsConfiguration(c, Int), NEW b \in BOOLEAN
    PROVE  LET outcomes == FromConfigurationObject(ToConfigurationObject(c), b) IN
           /\ outcomes # {}
           /\ \A r \in outcomes :
                \/ DecodedFrom(r, c, AcceptedTags(c))
                \/ b /\ DecodedFrom(r, c, AcceptedTags(c) \ (Integers8 \cup Integers16))
<1> DEFINE o == ToConfigurationObject(c)
           e == ConfigurationTag
           found == Found(o, e, Empty)
           bytes == ValueBytes(c)
           accepted == {t \in DOMAIN found : Accepts(t, found[t].value)}
           got == [t \in accepted |-> DecodedValue(t, found[t].value)]
           later == Restrict(got, accepted \ (Integers8 \cup Integers16))
<1>1. FromConfigurationObject(o, b) = {got} \cup (IF b THEN {later} ELSE {})
  BY Zenon DEF FromConfigurationObject
<1>2. Finds(found, Nonempty(bytes), bytes)
  <2>1. Finds(FoundFull(o, e), Nonempty(bytes), bytes)
    BY ConfigurationObject
  <2>2. QED
    BY <2>1, Zenon DEF FoundFull
<1>3. /\ DOMAIN bytes = DOMAIN c
      /\ \A t \in DOMAIN c : bytes[t] = ConfigurationValue(t, c[t]) /\ ValueArrives(t, c[t])
  BY ValueBytesAre, Zenon
<1> HIDE DEF o, e, found, bytes
<1>4. \A t : t \in DOMAIN found <=> t \in DOMAIN c /\ t # "RangingMethod"
  <2>1. \A t \in DOMAIN c : bytes[t] = << >> <=> t = "RangingMethod"
    BY <1>3, Zenon DEF ValueArrives
  <2>2. QED
    BY <1>2, <1>3, <2>1, Zenon DEF Finds, Nonempty
<1>5. \A t \in DOMAIN found : found[t].value = ConfigurationValue(t, c[t])
  BY <1>2, <1>3, <1>4, Zenon DEF Finds, Nonempty
<1>6. \A t : t \in accepted <=> t \in AcceptedTags(c)
  <2>1. ASSUME NEW t PROVE t \in accepted <=> t \in AcceptedTags(c)
    <3>1. t \in AcceptedTags(c)
            <=> t \in DOMAIN c /\ t # "RangingMethod" /\ (t = "ResultReportConfig" => c[t] # {})
      BY Zenon DEF AcceptedTags
    <3>2. t \in accepted <=> t \in DOMAIN found /\ Accepts(t, ConfigurationValue(t, c[t]))
      BY <1>5, Zenon
    <3>3. t \in DOMAIN c /\ t # "RangingMethod"
            => (Accepts(t, ConfigurationValue(t, c[t])) <=> (t = "ResultReportConfig" => c[t] # {}))
      BY <1>3, Zenon DEF ValueArrives
    <3>4. QED
      BY <1>4, <3>1, <3>2, <3>3, Zenon
  <2>2. QED
    BY <2>1
<1>7. accepted = AcceptedTags(c)
  <2> HIDE DEF accepted
  <2>1. QED
    BY <1>6
<1>8. AcceptedTags(c) \subseteq DOMAIN c
  BY Zenon DEF AcceptedTags
<1>9. \A t \in accepted : t \in DOMAIN found
  BY Zenon
<1>10. DOMAIN got = accepted
       /\ \A t \in accepted : got[t] = DecodedValue(t, ConfigurationValue(t, c[t]))
  BY <1>5, <1>9, Zenon
<1> DEFINE fewer == accepted \ (Integers8 \cup Integers16)
<1>11. DOMAIN later = fewer /\ \A t \in fewer : later[t] = got[t]
  BY Zenon DEF Restrict
<1> HIDE DEF accepted, got, later
<1>12. DecodedFrom(got, c, AcceptedTags(c))
  BY <1>7, <1>8, <1>10, Zenon DEF DecodedFrom
<1>13. DecodedFrom(later, c, AcceptedTags(c) \ (Integers8 \cup Integers16))
  <2>1. fewer = AcceptedTags(c) \ (Integers8 \cup Integers16)
    BY <1>7
  <2>2. fewer \subseteq accepted
    OBVIOUS
  <2> HIDE DEF fewer
  <2>3. \A t \in fewer : later[t] = DecodedValue(t, ConfigurationValue(t, c[t]))
    BY <1>10, <1>11, <2>2, Zenon
  <2>4. fewer \subseteq DOMAIN c
    BY <1>7, <1>8, <2>2
  <2>5. DecodedFrom(later, c, fewer)
    BY <1>11, <2>3, <2>4, Zenon DEF DecodedFrom
  <2>6. QED
    BY <2>1, <2>5
<1>14. QED
  BY <1>1, <1>12, <1>13 DEF o

\* What UwbConfiguration::FromDataObject makes of the object of any configuration is that
\* configuration, as far as it is certain to arrive: a tag's value is found among the
\* others', its bytes are as many as it needs and say what the value was.
THEOREM ConfigurationReturns ==
    ASSUME NEW c, IsConfiguration(c, Int), NEW b \in BOOLEAN
    PROVE  LET outcomes == FromConfigurationObject(ToConfigurationObject(c), b) IN
           /\ outcomes # {}
           /\ \A r \in outcomes : Plain(r, ~b) = Plain(c, ~b)
<1> DEFINE outcomes == FromConfigurationObject(ToConfigurationObject(c), b)
<1>1. outcomes # {}
  BY ConfigurationDecoded, Zenon
<1>2. ASSUME NEW r \in outcomes PROVE Plain(r, ~b) = Plain(c, ~b)
  <2>1. PICK tags : /\ DecodedFrom(r, c, tags)
                    /\ \/ tags = AcceptedTags(c)
                       \/ b /\ tags = AcceptedTags(c) \ (Integers8 \cup Integers16)
    BY <1>2, ConfigurationDecoded, Zenon
  <2>2. \A t \in tags : t \in DOMAIN c /\ t # "RangingMethod"
    BY <2>1 DEF DecodedFrom, AcceptedTags
  <2>3. \A t \in tags : t \notin Lost => r[t] = c[t]
    <3>1. \A t \in DOMAIN c : ValueArrives(t, c[t])
      BY ValueBytesAre, Zenon
    <3>2. QED
      BY <2>1, <2>2, <3>1, Zenon DEF ValueArrives, DecodedFrom
  <2>4. DOMAIN r = tags
    BY <2>1 DEF DecodedFrom
  <2>5. ASSUME NEW t \in DOMAIN c, Certain(t, c[t], ~b) PROVE t \in tags
    <3>1. /\ t \notin Lost /\ (b => t \notin Integers8) /\ (t = "ResultReportConfig" => c[t] # {})
      BY <2>5, Zenon DEF Certain
    <3>2. t # "RangingMethod" /\ t \notin Integers16
      BY <3>1 DEF Lost
    <3>3. t \in AcceptedTags(c)
      BY <3>1, <3>2, Zenon DEF AcceptedTags
    <3>4. QED
      BY <2>1, <3>1, <3>2, <3>3
  <2>6. \A t \in DOMAIN c : Certain(t, c[t], ~b) => t \in DOMAIN r /\ r[t] = c[t]
    BY <2>3, <2>4, <2>5, Zenon DEF Certain
  <2>7. \A t \in DOMAIN r : Certain(t, r[t], ~b) => t \in DOMAIN c /\ r[t] = c[t]
    BY <2>2, <2>3, <2>4, Zenon DEF Certain
  <2>8. (~b) \in BOOLEAN
    OBVIOUS
  <2>9. QED
    BY <2>6, <2>7, <2>8, PlainIs, Zenon
<1>3. QED
  BY <1>1, <1>2

-----------------------------------------------------------------------------
(* The other parts of session data.                                        *)

\* The bytes of a number.
LEMMA NumberBytes ==
    ASSUME NEW n \in {1, 2, 4}, NEW x, WithinBytes(x, n)
    PROVE  LET v == GetBytesBigEndianFromBitMap(x, n) IN
           /\ v \in Seq(Int) /\ Len(v) = n /\ v # << >>
           /\ ReadSizeTFromBytesBigEndian(v) = x /\ (n = 1 => v[1] = x)
<1> DEFINE v == GetBytesBigEndianFromBitMap(x, n)
<1>1. n \in 1 .. 4 /\ WithinBigEndian(x, n)
  BY DEF WithinBytes, WithinBigEndian
<1>2. v \in [1 .. n -> 0 .. 255] /\ ReadSizeTFromBytesBigEndian(v) = x
  BY <1>1, BigEndianReturns
<1> HIDE DEF v
<1>3. \A k \in 0 .. 255 : k \in Int
  OBVIOUS
<1>4. [1 .. n -> 0 .. 255] \subseteq [1 .. n -> Int]
  BY <1>3, Zenon
<1>5. v \in [1 .. n -> Int] /\ n \in Nat
  BY <1>1, <1>2, <1>4
<1>6. v \in Seq(Int) /\ Len(v) = n
  BY <1>5, BytesOfLength
<1>7. v # << >>
  <2>1. Len(<< >>) = 0 /\ n # 0
    BY <1>1
  <2>2. QED
    BY <1>6, <2>1
<1>8. n = 1 => v[1] = x
  BY <1>1, <1>2, <1>5, ReadSizeIs
<1>9. QED
  BY <1>2, <1>6, <1>7, <1>8 DEF v

LEMMA FlattenBytes ==
    ASSUME NEW X, NEW n \in Nat, NEW ss \in [1 .. n -> Seq(X)]
    PROVE  FlattenSeq(ss) \in Seq(X)
<1> DEFINE length == [i \in 1 .. n |-> Len(ss[i])]
<1>1. length \in [1 .. n -> Nat] /\ \A i \in 1 .. n : length[i] = Len(ss[i])
  BY LenProperties
<1> HIDE DEF length
<1>2. QED
  BY ONLY <1>1, FlattenIs, n \in Nat, ss \in [1 .. n -> Seq(X)]

\* The bytes of an object of objects.
LEMMA BranchLength ==
    ASSUME NEW t, Branch(t)
    PROVE  /\ Len(LeavesBytes(t)) \in Nat /\ BranchBytes(t) \in Seq(Int)
           /\ Len(BranchBytes(t)) \in Nat /\ Len(BranchBytes(t)) <= Len(LeavesBytes(t)) + 6
<1>1. PICK m \in Nat : m = Len(t.values) /\ DOMAIN t.values = 1 .. m
  BY DEF Branch, IsObject
<1> DEFINE ss == [i \in 1 .. m |-> LeafBytes(t.values[i])]
<1>2. \A i \in 1 .. m : LeafBytes(t.values[i]) \in Seq(Int)
  BY <1>1, LeafReturns DEF Branch, Returns
<1>3. ss \in [1 .. m -> Seq(Int)]
  BY <1>2
<1>4. LeavesBytes(t) = FlattenSeq(ss)
  BY <1>1 DEF LeavesBytes
<1> HIDE DEF ss
<1>5. FlattenSeq(ss) \in Seq(Int)
  BY <1>3, FlattenBytes
<1>6. PICK bytes \in Seq(Int) : bytes = LeavesBytes(t)
  BY <1>4, <1>5
<1>7. PICK tag : tag = t.tag /\ PlainTag(tag)
  BY DEF Branch, IsObject
<1>8. BranchBytes(t) = Encoded(tag, bytes) /\ Len(bytes) < MaxLength
  BY <1>6, <1>7 DEF Branch, BranchBytes
<1>9. Len(bytes) \in Nat
  BY LenProperties
<1>10. /\ Encoded(tag, bytes) \in Seq(Int)
       /\ Len(Encoded(tag, bytes)) = Len(tag) + Len(GetLengthEncoding(Len(bytes))) + Len(bytes)
  BY <1>7, <1>8, EncodedIs
<1>11. Len(tag) \in 1 .. 2
  BY <1>7, TagReturns
<1>12. Len(GetLengthEncoding(Len(bytes))) \in 1 .. 4
  BY <1>8, <1>9, LengthReturns
<1> DEFINE a == Len(tag)
           b == Len(GetLengthEncoding(Len(bytes)))
           n == Len(bytes)
<1> HIDE DEF a, b, n
<1>13. Len(BranchBytes(t)) = a + b + n /\ a \in 1 .. 2 /\ b \in 1 .. 4 /\ n \in Nat
  BY <1>8, <1>9, <1>10, <1>11, <1>12 DEF a, b, n
<1>14. n = Len(LeavesBytes(t)) /\ BranchBytes(t) \in Seq(Int)
  BY <1>6, <1>8, <1>10 DEF n
<1>15. QED
  BY <1>13, <1>14

\* An object of one of the kinds, and what is made of it.
PartReturns(o, tag, outcomes, info) ==
    /\ Branch(o) /\ Len(LeavesBytes(o)) <= 3 * 65541 /\ o.tag = <<tag>>
    /\ outcomes = {info}

LEMMA StaticReturns ==
    ASSUME NEW info, IsStatic(info)
    PROVE  PartReturns(ToStaticObject(info), 164, FromStaticObject(ToStaticObject(info)), info)
<1> DEFINE e == StaticTag
           number == GetBytesBigEndianFromBitMap(info.VendorId, 2)
           iv == info.StaticStsIv
           bytes == [VendorId |-> number, StaticStsIv |-> iv]
           tag == 164
           o == ObjectOf(<<tag>>, e, bytes)
           found == Found(o, e, Empty)
<1>1. o = ToStaticObject(info) /\ tag = 164 /\ tag \in 163 .. 166
  BY DEF ToStaticObject
<1>2. /\ number \in Seq(Int) /\ Len(number) = 2 /\ number # << >>
      /\ ReadSizeTFromBytesBigEndian(number) = info.VendorId
  BY NumberBytes DEF IsStatic
<1>3. iv \in Seq(Int) /\ Len(iv) = 6 /\ iv # << >> /\ SubSeq(iv, 1, 6) = iv
  <2>1. iv \in [1 .. 6 -> 0 .. 255]
    BY DEF IsStatic, StaticStsInitializationVectorLength, Byte
  <2> DEFINE n == 6
  <2>2. n \in Nat /\ n # 0 /\ n = 6
    OBVIOUS
  <2>3. iv \in [1 .. n -> Int]
    <3>1. \A k \in 0 .. 255 : k \in Int
      OBVIOUS
    <3>2. [1 .. 6 -> 0 .. 255] \subseteq [1 .. 6 -> Int]
      BY <3>1, Zenon
    <3>3. QED
      BY <2>1, <3>2
  <2> HIDE DEF n, iv
  <2>4. iv \in Seq(Int) /\ Len(iv) = n
    BY <2>2, <2>3, BytesOfLength
  <2>5. iv # << >>
    BY <2>2, <2>4
  <2>6. SubSeq(iv, 1, n) = iv
    BY <2>4
  <2>7. QED
    BY <2>2, <2>4, <2>5, <2>6
<1> HIDE DEF number, iv
<1>4. DOMAIN bytes = {"VendorId", "StaticStsIv"} /\ bytes["VendorId"] = number
      /\ bytes["StaticStsIv"] = iv
  OBVIOUS
<1> HIDE DEF bytes
<1>5. Numbered(e, 128, 157) /\ DOMAIN e = {"VendorId", "StaticStsIv"}
  <2>1. \A k \in 128 .. 129 : k \in 128 .. 157
    OBVIOUS
  <2>2. QED
    BY <2>1, StaticTagNumbers, Zenon DEF Numbered
<1>6. Valuable(e, bytes, 14)
  <2>1. 14 \in Nat /\ 14 < MaxLength
    BY DEF MaxLength
  <2>2. \A n \in DOMAIN bytes : bytes[n] \in Seq(Int) /\ Len(bytes[n]) + 6 <= 14
    <3>1. Len(number) + 6 <= 14 /\ Len(iv) + 6 <= 14
      BY <1>2, <1>3
    <3>2. QED
      BY <1>2, <1>3, <1>4, <3>1, Zenon
  <2>3. QED
    BY <1>4, <1>5, <2>1, <2>2 DEF Valuable
<1> HIDE DEF tag, e
<1>7. /\ Branch(o) /\ Len(LeavesBytes(o)) <= 3584 /\ o.tag = <<tag>>
      /\ Finds(FoundFull(o, e), Nonempty(bytes), bytes)
  BY <1>1, <1>6, SmallObject
<1> HIDE DEF o
<1>8. Len(LeavesBytes(o)) <= 3 * 65541
  BY <1>7, BranchLength
<1>9. Finds(found, Nonempty(bytes), bytes)
  BY <1>7 DEF FoundFull
<1> HIDE DEF found
<1>10. Nonempty(bytes) = {"VendorId", "StaticStsIv"}
  BY <1>2, <1>3, <1>4 DEF Nonempty
<1>11. DOMAIN found = DOMAIN e /\ found["VendorId"].value = number /\ found["StaticStsIv"].value = iv
  BY <1>4, <1>5, <1>9, <1>10 DEF Finds
<1>12. info = [VendorId |-> info.VendorId, StaticStsIv |-> iv]
  BY DEF IsStatic, iv
<1>13. FromStaticObject(o)
         = {[VendorId |-> ReadSizeTFromBytesBigEndian(number), StaticStsIv |-> SubSeq(iv, 1, 6)]}
  BY <1>11 DEF FromStaticObject, found, e, StaticStsInitializationVectorLength
<1>14. FromStaticObject(o) = {info}
  BY <1>2, <1>3, <1>12, <1>13
<1>15. QED
  BY <1>1, <1>7, <1>8, <1>14 DEF PartReturns

LEMMA SecureReturns ==
    ASSUME NEW info, IsSecure(info)
    PROVE  PartReturns(ToSecureObject(info), 165, FromSecureObject(ToSecureObject(info)), info)
<1> DEFINE e == SecureTag
           tag == 165
           w == 65541
           k == 3
           o == ObjectOf(<<tag>>, e, info)
           found == Found(o, e, Kept)
           names == {"UwbSessionKeyInfo", "ResponderSpecificSubSessionKeyInfo",
                     "SusAdditionalParameters"}
<1>1. o = ToSecureObject(info) /\ tag = 165 /\ tag \in 163 .. 166
  BY DEF ToSecureObject
<1>2. k \in Nat /\ w \in Nat /\ w < MaxLength /\ k * w < MaxLength /\ k * w = 3 * 65541
  BY DEF MaxLength
<1>3. /\ Numbered(e, 128, 157) /\ Numbered(e, 0, 255) /\ DOMAIN e = names /\ DOMAIN e # {}
  <2>1. \A i \in 128 .. 130 : i \in 128 .. 157 /\ i \in 0 .. 255
    OBVIOUS
  <2>2. DOMAIN e # {}
    BY SecureTagNumbers
  <2>3. \A n \in DOMAIN e : e[n] \in 128 .. 157 /\ e[n] \in 0 .. 255
    BY <2>1, SecureTagNumbers DEF Numbered
  <2>4. QED
    BY <2>2, <2>3, SecureTagNumbers DEF Numbered
<1>4. IsFiniteSet(names) /\ Cardinality(names) <= 3
  <2> DEFINE T(a, b) == {a, b}
  <2>1. IsFiniteSet({"UwbSessionKeyInfo"}) /\ Cardinality({"UwbSessionKeyInfo"}) = 1
    BY FS_Singleton
  <2> DEFINE two == {"UwbSessionKeyInfo"} \cup {"ResponderSpecificSubSessionKeyInfo"}
  <2>2. IsFiniteSet(two) /\ Cardinality(two) = 2
    BY <2>1, FS_AddElement
  <2> HIDE DEF two
  <2>3. "SusAdditionalParameters" \notin two
    BY DEF two
  <2>4. IsFiniteSet(two \cup {"SusAdditionalParameters"})
        /\ Cardinality(two \cup {"SusAdditionalParameters"}) = 3
    BY <2>2, <2>3, FS_AddElement
  <2>5. names = two \cup {"SusAdditionalParameters"}
    BY DEF two
  <2>6. QED
    BY <2>4, <2>5
<1>5. DOMAIN info = names /\ info = [t \in names |-> info[t]]
  BY <1>3 DEF IsSecure
<1>6. \A t \in names : info[t] \in Seq(Byte) /\ WithinBytes(Len(info[t]), 2)
  BY <1>3 DEF IsSecure
<1> HIDE DEF names
<1>7. \A t \in names : info[t] \in Seq(Int) /\ Len(info[t]) + 6 <= w
  <2>1. Byte \subseteq Int
    BY DEF Byte
  <2>2. Seq(Byte) \subseteq Seq(Int)
    BY <2>1, SeqMonotonic, Zenon
  <2>3. \A t \in names : Len(info[t]) < 65536 /\ Len(info[t]) \in Nat
    BY <1>6, LenProperties DEF WithinBytes
  <2>4. QED
    BY <1>6, <2>2, <2>3
<1> HIDE DEF w, k, tag, e
<1>8. Valuable(e, info, w)
  BY <1>2, <1>3, <1>5, <1>7 DEF Valuable
<1>9. Len(InOrder(DOMAIN info, e)) <= k
  <2>1. DOMAIN info \in SUBSET (DOMAIN e)
    BY <1>3, <1>5
  <2>2. Len(InOrder(DOMAIN info, e)) <= Cardinality(DOMAIN info)
    BY <1>3, <1>4, <1>5, <2>1, InOrderBound
  <2>3. Len(InOrder(DOMAIN info, e)) \in 0 .. 256
    BY <1>3, <2>1, InOrderIs
  <2>4. Cardinality(DOMAIN info) \in Nat
    BY <1>4, <1>5, FS_CardinalityType
  <2>5. QED
    BY <1>4, <1>5, <2>2, <2>3, <2>4 DEF k
<1>10. Branch(o) /\ Len(LeavesBytes(o)) <= k * w
  BY <1>1, <1>2, <1>8, <1>9, ObjectFinds
<1>11. o.tag = <<tag>>
  BY <1>1, <1>2, <1>8, <1>9, ObjectFinds
<1>12. Finds(FoundKept(o, e), DOMAIN info, info)
  BY <1>1, <1>2, <1>8, <1>9, ObjectFinds
<1> HIDE DEF o, found
<1>13. DOMAIN found = names /\ \A t \in names : found[t].value = info[t]
  BY <1>5, <1>12 DEF Finds, FoundKept, found
<1>14. [t \in DOMAIN found |-> found[t].value] = info
  BY <1>5, <1>13
<1>15. FromSecureObject(o) = {info}
  BY <1>3, <1>13, <1>14, Zenon DEF FromSecureObject, found, e
<1>16. QED
  BY <1>1, <1>2, <1>10, <1>11, <1>15 DEF PartReturns

LEMMA RegulatoryReturns ==
    ASSUME NEW info, IsRegulatory(info)
    PROVE  PartReturns(ToRegulatoryObject(info), 166, FromRegulatoryObject(ToRegulatoryObject(info)), info)
<1> DEFINE e == RegulatoryTag
           tag == 166
           bytes == [t \in DOMAIN e |-> GetBytesBigEndianFromBitMap(info[t], RegulatoryWidth(t))]
           o == ObjectOf(<<tag>>, e, bytes)
           found == Found(o, e, Empty)
           value(t) == CASE t \in {"CountryCode", "Timestamp"} ->
                              ReadSizeTFromBytesBigEndian(found[t].value)
                        [] t = "OutdoorPermitted" -> IF found[t].value[1] # 0 THEN 1 ELSE 0
                        [] OTHER -> found[t].value[1]
<1>1. o = ToRegulatoryObject(info) /\ tag = 166 /\ tag \in 163 .. 166
  BY DEF ToRegulatoryObject
<1>2. DOMAIN bytes = DOMAIN e
      /\ \A t \in DOMAIN e : bytes[t] = GetBytesBigEndianFromBitMap(info[t], RegulatoryWidth(t))
  BY Zenon
<1>3. Numbered(e, 128, 157) /\ DOMAIN e # {} /\ "InformationSource" \in DOMAIN e
  <2>1. \A i \in 128 .. 141 : i \in 128 .. 157
    OBVIOUS
  <2>2. DOMAIN e # {} /\ "InformationSource" \in DOMAIN e
    BY RegulatoryTagNumbers
  <2>3. QED
    BY <2>1, <2>2, RegulatoryTagNumbers, Zenon DEF Numbered
<1>4. \A t : RegulatoryWidth(t) \in {1, 2, 4}
             /\ (t \notin {"CountryCode", "Timestamp"} => RegulatoryWidth(t) = 1)
  <2>1. ASSUME NEW t
        PROVE  RegulatoryWidth(t) \in {1, 2, 4}
               /\ (t \notin {"CountryCode", "Timestamp"} => RegulatoryWidth(t) = 1)
    <3>1. "CountryCode" # "Timestamp"
      OBVIOUS
    <3>2. t = "CountryCode" => RegulatoryWidth(t) = 2
      BY <3>1, Zenon DEF RegulatoryWidth
    <3>3. t = "Timestamp" => RegulatoryWidth(t) = 4
      BY <3>1, Zenon DEF RegulatoryWidth
    <3>4. t # "CountryCode" /\ t # "Timestamp" => RegulatoryWidth(t) = 1
      BY Zenon DEF RegulatoryWidth
    <3>5. QED
      BY <3>2, <3>3, <3>4
  <2>2. QED
    BY <2>1
<1> HIDE DEF bytes
<1>5. ASSUME NEW t \in DOMAIN e
      PROVE  /\ bytes[t] \in Seq(Int) /\ Len(bytes[t]) + 6 <= 14 /\ bytes[t] # << >>
             /\ ReadSizeTFromBytesBigEndian(bytes[t]) = info[t]
             /\ t \notin {"CountryCode", "Timestamp"} => bytes[t][1] = info[t]
  <2>1. PICK n \in {1, 2, 4} : n = RegulatoryWidth(t)
    BY <1>4
  <2>2. WithinBytes(info[t], n)
    BY <2>1 DEF IsRegulatory
  <2> DEFINE v == GetBytesBigEndianFromBitMap(info[t], n)
  <2>3. /\ v \in Seq(Int) /\ Len(v) = n /\ v # << >>
        /\ ReadSizeTFromBytesBigEndian(v) = info[t] /\ (n = 1 => v[1] = info[t])
    BY <2>2, NumberBytes
  <2>4. bytes[t] = v
    BY <1>2, <2>1
  <2> HIDE DEF v
  <2>5. QED
    BY <1>4, <2>1, <2>3, <2>4
<1>6. Valuable(e, bytes, 14)
  <2>1. 14 \in Nat /\ 14 < MaxLength
    BY DEF MaxLength
  <2>2. QED
    BY <1>2, <1>3, <1>5, <2>1 DEF Valuable
<1> HIDE DEF tag, e
<1>7. /\ Branch(o) /\ Len(LeavesBytes(o)) <= 3584 /\ o.tag = <<tag>>
      /\ Finds(FoundFull(o, e), Nonempty(bytes), bytes)
  BY <1>1, <1>6, SmallObject
<1> HIDE DEF o
<1>8. Len(LeavesBytes(o)) <= 3 * 65541
  BY <1>7, BranchLength
<1>9. Finds(found, Nonempty(bytes), bytes)
  BY <1>7 DEF FoundFull
<1> HIDE DEF found
<1>10. Nonempty(bytes) = DOMAIN e
  BY <1>2, <1>5 DEF Nonempty
<1>11. DOMAIN found = DOMAIN e /\ \A t \in DOMAIN e : found[t].value = bytes[t]
  BY <1>9, <1>10 DEF Finds
<1>12. ASSUME NEW t \in DOMAIN e PROVE value(t) = info[t]
  <2>1. CASE t \in {"CountryCode", "Timestamp"}
    <3>1. t # "OutdoorPermitted"
      BY <2>1
    <3>2. value(t) = ReadSizeTFromBytesBigEndian(found[t].value)
      BY <2>1, <3>1, Zenon
    <3>3. QED
      BY <1>5, <1>11, <3>2
  <2>2. CASE t = "OutdoorPermitted"
    <3>1. t \notin {"CountryCode", "Timestamp"} /\ info[t] \in {0, 1}
      BY <2>2 DEF IsRegulatory
    <3>2. value(t) = IF found[t].value[1] # 0 THEN 1 ELSE 0
      BY <2>2, <3>1, Zenon
    <3> HIDE DEF value
    <3>3. found[t].value[1] = info[t]
      BY <1>5, <1>11, <3>1
    <3>4. QED
      BY <3>1, <3>2, <3>3
  <2>3. CASE t \notin {"CountryCode", "Timestamp"} /\ t # "OutdoorPermitted"
    <3>1. value(t) = found[t].value[1]
      BY <2>3, Zenon
    <3> HIDE DEF value
    <3>2. QED
      BY <1>5, <1>11, <2>3, <3>1
  <2>4. QED
    BY <2>1, <2>2, <2>3
<1>13. info = [t \in DOMAIN e |-> info[t]] /\ info["InformationSource"] \in Range(InformationSource)
  BY DEF IsRegulatory, e
<1>14. FromRegulatoryObject(o)
         = IF \/ DOMAIN found # DOMAIN e
              \/ found["InformationSource"].value[1] \notin Range(InformationSource)
           THEN {} ELSE {[t \in DOMAIN found |-> value(t)]}
  BY Zenon DEF FromRegulatoryObject, found, e
<1> HIDE DEF value
<1>15. found["InformationSource"].value[1] = info["InformationSource"]
  <2>1. "InformationSource" \notin {"CountryCode", "Timestamp"}
    OBVIOUS
  <2>2. QED
    BY <1>3, <1>5, <1>11, <2>1
<1>16. [t \in DOMAIN found |-> value(t)] = info
  BY <1>11, <1>12, <1>13
<1>17. FromRegulatoryObject(o) = {info}
  BY <1>11, <1>13, <1>14, <1>15, <1>16, Zenon
<1>18. QED
  BY <1>1, <1>7, <1>8, <1>17 DEF PartReturns

-----------------------------------------------------------------------------
(* Session data, from one host to the other.                               *)

\* A sequence of at most some elements, which are these.
Made(s, S, k) ==
    /\ s \in Seq(S) /\ Len(s) <= k
    /\ \A x \in S : \E i \in 1 .. Len(s) : s[i] = x

LEMMA MadeMore ==
    ASSUME NEW S, NEW s, NEW k \in Nat, Made(s, S, k), NEW x
    PROVE  Made(s \o <<x>>, S \cup {x}, k + 1)
<1> DEFINE T == S \cup {x}
           r == s \o <<x>>
<1>1. s \in Seq(S) /\ Len(s) <= k
  BY DEF Made
<1>2. S \subseteq T /\ x \in T
  OBVIOUS
<1>3. s \in Seq(T)
  BY <1>1, <1>2, SeqMonotonic
<1> HIDE DEF T
<1>4. Len(s) \in Nat
  BY <1>1, LenProperties
<1>5. /\ r \in Seq(T) /\ Len(r) = Len(s) + 1 /\ r[Len(s) + 1] = x
      /\ \A i \in 1 .. Len(s) : r[i] = s[i]
  BY <1>2, <1>3, <1>4
<1> HIDE DEF r
<1>6. ASSUME NEW y \in T PROVE \E i \in 1 .. Len(r) : r[i] = y
  <2>1. CASE y = x
    <3>1. Len(s) + 1 \in 1 .. Len(r)
      BY <1>4, <1>5
    <3>2. QED
      BY <1>5, <2>1, <3>1
  <2>2. CASE y \in S
    <3>1. PICK i \in 1 .. Len(s) : s[i] = y
      BY <2>2 DEF Made
    <3>2. i \in 1 .. Len(r)
      BY <1>4, <1>5
    <3>3. QED
      BY <1>5, <3>1, <3>2
  <2>3. QED
    BY <2>1, <2>2 DEF T
<1>7. Len(r) <= k + 1
  BY <1>1, <1>4, <1>5
<1>8. QED
  BY <1>5, <1>6, <1>7 DEF Made, r, T

LEMMA MadeNoMore ==
    ASSUME NEW S, NEW s, NEW k \in Nat, Made(s, S, k)
    PROVE  Made(s \o << >>, S, k + 1)
<1>1. s \in Seq(S) /\ Len(s) <= k
  BY DEF Made
<1>2. s \o << >> = s
  BY <1>1
<1>3. Len(s) \in Nat
  BY <1>1, LenProperties
<1>4. QED
  BY <1>1, <1>2, <1>3 DEF Made

\* One element, if there is one.
Perhaps(info, x) == IF info = None THEN << >> ELSE <<x>>
Also(info, x) == IF info = None THEN {} ELSE {x}
LEMMA MadePerhaps ==
    ASSUME NEW S, NEW s, NEW k \in Nat, Made(s, S, k), NEW info, NEW x
    PROVE  Made(s \o Perhaps(info, x), S \cup Also(info, x), k + 1)
<1>1. CASE info = None
  <2>1. Made(s \o << >>, S, k + 1)
    BY MadeNoMore
  <2>2. S \cup {} = S
    OBVIOUS
  <2>3. QED
    BY <1>1, <2>1, <2>2, Zenon DEF Perhaps, Also
<1>2. CASE info # None
  <2>1. Made(s \o <<x>>, S \cup {x}, k + 1)
    BY MadeMore
  <2>2. QED
    BY <1>2, <2>1, Zenon DEF Perhaps, Also
<1>3. QED
  BY <1>1, <1>2

\* The objects in the object of session data, by the names of their tags.
Optional == {"StaticRangingInfo", "SecureRangingInfo", "RegulatoryInformation"}
NumberWidth ==
    [SessionDataVersion |-> 2, SessionId |-> 4, SubSessionId |-> 4, UwbConfigAvailable |-> 1]

NumberObject(d, t) ==
    Primitive(<<SessionDataTag[t]>>, GetBytesBigEndianFromBitMap(d[t], NumberWidth[t]))

PartObject(d, t) ==
    IF t \in DOMAIN NumberWidth THEN NumberObject(d, t)
    ELSE IF t = "ConfigurationParameters" THEN ToConfigurationObject(d[t])
    ELSE IF t = "StaticRangingInfo" THEN ToStaticObject(d[t])
    ELSE IF t = "SecureRangingInfo" THEN ToSecureObject(d[t])
    ELSE ToRegulatoryObject(d[t])

PartNames(d) == {t \in DOMAIN SessionDataTag : t \in Optional => d[t] # None}
DataParts(d) == [t \in PartNames(d) |-> PartObject(d, t)]

\* What all of them have.
GoodPart(d, t) ==
    LET x == PartObject(d, t) IN
    /\ x.tag = <<SessionDataTag[t]>> /\ (Leaf(x) \/ Branch(x)) /\ ~EmptyPrimitive(x)
    /\ BranchBytes(x) \in Seq(Int) /\ Len(BranchBytes(x)) <= 3 * 65541 + 6

LEMMA NumberPart ==
    ASSUME NEW d, IsSessionData(d, Int), NEW t \in DOMAIN NumberWidth
    PROVE  /\ GoodPart(d, t) /\ PartObject(d, t) = NumberObject(d, t)
           /\ ReadSizeTFromBytesBigEndian(PartObject(d, t).value) = d[t]
<1>1. t \in {"SessionDataVersion", "SessionId", "SubSessionId", "UwbConfigAvailable"}
  BY DEF NumberWidth
<1>2. PICK n \in {1, 2, 4} : n = NumberWidth[t] /\ WithinBytes(d[t], n)
  <2>1. WithinBytes(d.UwbConfigAvailable, 1)
    BY DEF IsSessionData, WithinBytes
  <2>2. QED
    BY <1>1, <2>1 DEF IsSessionData, NumberWidth
<1> DEFINE v == GetBytesBigEndianFromBitMap(d[t], n)
           c == 12
<1>3. v \in Seq(Int) /\ Len(v) = n /\ v # << >> /\ ReadSizeTFromBytesBigEndian(v) = d[t]
  BY <1>2, NumberBytes
<1>4. PICK number \in 128 .. 157 : number = SessionDataTag[t]
  BY <1>1, SessionDataTagNumbers
<1> DEFINE x == Primitive(<<number>>, v)
<1>5. PartObject(d, t) = NumberObject(d, t) /\ PartObject(d, t) = x
  BY <1>2, <1>4, Zenon DEF PartObject, NumberObject
<1> HIDE DEF v
<1>6. c \in Nat /\ c < MaxLength /\ Len(v) + 6 <= c /\ c <= 3 * 65541 + 6
  BY <1>3 DEF MaxLength
<1> HIDE DEF c
<1>7. Leaf(x) /\ LeafBytes(x) \in Seq(Int) /\ Len(LeafBytes(x)) <= c
  <2>1. PICK w \in Seq(Int) : w = v /\ Len(w) + 6 <= c
    BY <1>3, <1>6
  <2>2. PICK k \in Nat : k = c /\ k < MaxLength
    BY <1>6
  <2>3. /\ Leaf(Primitive(<<number>>, w)) /\ LeafBytes(Primitive(<<number>>, w)) \in Seq(Int)
        /\ Len(LeafBytes(Primitive(<<number>>, w))) <= k
    BY <1>4, <2>1, <2>2, PrimitiveIs
  <2>4. QED
    BY <2>1, <2>2, <2>3
<1>8. x.tag = <<number>> /\ x.value = v
  BY DEF Primitive
<1> HIDE DEF x
<1>9. BranchBytes(x) = LeafBytes(x)
  BY <1>7 DEF BranchBytes, LeafBytes, Leaf
<1>10. ~EmptyPrimitive(x)
  BY <1>3, <1>8 DEF EmptyPrimitive, Empty
<1>11. Len(LeafBytes(x)) <= 3 * 65541 + 6
  BY <1>6, <1>7, LenProperties
<1>12. QED
  BY <1>3, <1>4, <1>5, <1>7, <1>8, <1>9, <1>10, <1>11 DEF GoodPart

LEMMA BranchPart ==
    ASSUME NEW x, Branch(x), Len(LeavesBytes(x)) <= 3 * 65541
    PROVE  /\ Leaf(x) \/ Branch(x)
           /\ ~EmptyPrimitive(x)
           /\ BranchBytes(x) \in Seq(Int) /\ Len(BranchBytes(x)) <= 3 * 65541 + 6
<1>1. /\ Len(LeavesBytes(x)) \in Nat /\ BranchBytes(x) \in Seq(Int)
      /\ Len(BranchBytes(x)) \in Nat /\ Len(BranchBytes(x)) <= Len(LeavesBytes(x)) + 6
  BY BranchLength
<1>2. ~EmptyPrimitive(x)
  BY DEF EmptyPrimitive, Branch
<1>3. QED
  BY <1>1, <1>2

LEMMA OtherParts ==
    ASSUME NEW d, IsSessionData(d, Int), NEW t \in PartNames(d), t \notin DOMAIN NumberWidth
    PROVE  /\ GoodPart(d, t)
           /\ t = "StaticRangingInfo" => FromStaticObject(PartObject(d, t)) = {d[t]}
           /\ t = "SecureRangingInfo" => FromSecureObject(PartObject(d, t)) = {d[t]}
           /\ t = "RegulatoryInformation" => FromRegulatoryObject(PartObject(d, t)) = {d[t]}
<1> DEFINE x == PartObject(d, t)
<1>1. /\ t \in {"ConfigurationParameters"} \cup Optional
      /\ t \in Optional => d[t] # None
  BY SessionDataTagNumbers DEF PartNames, NumberWidth, Optional
<1>2. \/ t = "ConfigurationParameters"
      \/ t = "StaticRangingInfo" \/ t = "SecureRangingInfo" \/ t = "RegulatoryInformation"
  BY <1>1 DEF Optional
<1>3. CASE t = "ConfigurationParameters"
  <2>1. x = ToConfigurationObject(d[t])
    BY <1>3, Zenon DEF PartObject
  <2>2. IsConfiguration(d[t], Int)
    BY <1>3 DEF IsSessionData
  <2> HIDE DEF x
  <2>3. Branch(x) /\ Len(LeavesBytes(x)) <= 3584 /\ x.tag = <<163>>
    BY <2>1, <2>2, ConfigurationObject
  <2>4. Len(LeavesBytes(x)) <= 3 * 65541
    BY <2>3, BranchLength
  <2>5. SessionDataTag[t] = 163
    BY <1>3, SessionDataTagNumbers
  <2>6. QED
    BY <1>3, <2>3, <2>4, <2>5, BranchPart DEF GoodPart, x
<1>4. CASE t = "StaticRangingInfo"
  <2>1. x = ToStaticObject(d[t])
    <3>1. t # "ConfigurationParameters"
      BY <1>4
    <3>2. QED
      BY <1>4, <3>1, Zenon DEF PartObject
  <2>2. PICK info : info = d[t] /\ IsStatic(info)
    BY <1>1, <1>4 DEF IsSessionData, Optional
  <2> HIDE DEF x
  <2>3. PartReturns(x, 164, FromStaticObject(x), info)
    BY <2>1, <2>2, StaticReturns
  <2>4. SessionDataTag[t] = 164
    BY <1>4, SessionDataTagNumbers
  <2>5. QED
    BY <1>4, <2>2, <2>3, <2>4, BranchPart DEF GoodPart, x, PartReturns
<1>5. CASE t = "SecureRangingInfo"
  <2>1. x = ToSecureObject(d[t])
    <3>1. t # "ConfigurationParameters" /\ t # "StaticRangingInfo"
      BY <1>5
    <3>2. QED
      BY <1>5, <3>1, Zenon DEF PartObject
  <2>2. PICK info : info = d[t] /\ IsSecure(info)
    BY <1>1, <1>5 DEF IsSessionData, Optional
  <2> HIDE DEF x
  <2>3. PartReturns(x, 165, FromSecureObject(x), info)
    BY <2>1, <2>2, SecureReturns
  <2>4. SessionDataTag[t] = 165
    BY <1>5, SessionDataTagNumbers
  <2>5. QED
    BY <1>5, <2>2, <2>3, <2>4, BranchPart DEF GoodPart, x, PartReturns
<1>6. CASE t = "RegulatoryInformation"
  <2>1. x = ToRegulatoryObject(d[t])
    <3>1. t # "ConfigurationParameters" /\ t # "StaticRangingInfo" /\ t # "SecureRangingInfo"
      BY <1>6
    <3>2. QED
      BY <1>6, <3>1, Zenon DEF PartObject
  <2>2. PICK info : info = d[t] /\ IsRegulatory(info)
    BY <1>1, <1>6 DEF IsSessionData, Optional
  <2> HIDE DEF x
  <2>3. PartReturns(x, 166, FromRegulatoryObject(x), info)
    BY <2>1, <2>2, RegulatoryReturns
  <2>4. SessionDataTag[t] = 166
    BY <1>6, SessionDataTagNumbers
  <2>5. QED
    BY <1>6, <2>2, <2>3, <2>4, BranchPart DEF GoodPart, x, PartReturns
<1>7. QED
  BY <1>2, <1>3, <1>4, <1>5, <1>6

LEMMA SessionDataMade ==
    ASSUME NEW d, IsSessionData(d, Int)
    PROVE  Made(ToSessionDataObject(d).values, Range(DataParts(d)), 8)
<1> DEFINE part(t) == PartObject(d, t)
           a1 == <<part("SessionDataVersion")>>
           a2 == <<part("SessionId")>>
           a3 == <<part("SubSessionId")>>
           a4 == <<part("ConfigurationParameters")>>
           a5 == <<part("UwbConfigAvailable")>>
           perhaps(t) == Perhaps(d[t], part(t))
           also(t) == Also(d[t], part(t))
           five == {part("SessionDataVersion")} \cup {part("SessionId")} \cup {part("SubSessionId")}
                   \cup {part("ConfigurationParameters")} \cup {part("UwbConfigAvailable")}
<1>1. /\ \A t \in DOMAIN NumberWidth : part(t) = NumberObject(d, t)
      /\ part("ConfigurationParameters") = ToConfigurationObject(d["ConfigurationParameters"])
      /\ part("StaticRangingInfo") = ToStaticObject(d["StaticRangingInfo"])
      /\ part("SecureRangingInfo") = ToSecureObject(d["SecureRangingInfo"])
      /\ part("RegulatoryInformation") = ToRegulatoryObject(d["RegulatoryInformation"])
  <2>1. /\ "ConfigurationParameters" \notin DOMAIN NumberWidth
        /\ "StaticRangingInfo" \notin DOMAIN NumberWidth
        /\ "SecureRangingInfo" \notin DOMAIN NumberWidth
        /\ "RegulatoryInformation" \notin DOMAIN NumberWidth
    BY DEF NumberWidth
  <2>2. /\ "StaticRangingInfo" # "ConfigurationParameters"
        /\ "SecureRangingInfo" # "ConfigurationParameters" /\ "SecureRangingInfo" # "StaticRangingInfo"
        /\ "RegulatoryInformation" # "ConfigurationParameters"
        /\ "RegulatoryInformation" # "StaticRangingInfo"
        /\ "RegulatoryInformation" # "SecureRangingInfo"
    OBVIOUS
  <2>3. \A t \in DOMAIN NumberWidth : part(t) = NumberObject(d, t)
    BY Zenon DEF PartObject
  <2>4. part("ConfigurationParameters") = ToConfigurationObject(d["ConfigurationParameters"])
    BY <2>1, Zenon DEF PartObject
  <2>5. part("StaticRangingInfo") = ToStaticObject(d["StaticRangingInfo"])
    BY <2>1, <2>2, Zenon DEF PartObject
  <2>6. part("SecureRangingInfo") = ToSecureObject(d["SecureRangingInfo"])
    BY <2>1, <2>2, Zenon DEF PartObject
  <2>7. part("RegulatoryInformation") = ToRegulatoryObject(d["RegulatoryInformation"])
    BY <2>1, <2>2, Zenon DEF PartObject
  <2>8. QED
    BY <2>3, <2>4, <2>5, <2>6, <2>7
<1> DEFINE p1 == perhaps("StaticRangingInfo")
           p2 == perhaps("SecureRangingInfo")
           p3 == perhaps("RegulatoryInformation")
           values == a1 \o a2 \o a3 \o a4 \o a5 \o p1 \o p2 \o p3
           all == five \cup also("StaticRangingInfo") \cup also("SecureRangingInfo")
                  \cup also("RegulatoryInformation")
<1>4. ToSessionDataObject(d) = Constructed(<<191, 120>>, values)
  <2> DEFINE n(t, width) ==
                <<Primitive(<<SessionDataTag[t]>>, GetBytesBigEndianFromBitMap(d[t], width))>>
             n1 == n("SessionDataVersion", 2)
             n2 == n("SessionId", 4)
             n3 == n("SubSessionId", 4)
             n4 == <<ToConfigurationObject(d.ConfigurationParameters)>>
             n5 == n("UwbConfigAvailable", 1)
             q1 == IF d.StaticRangingInfo = None THEN << >> ELSE <<ToStaticObject(d.StaticRangingInfo)>>
             q2 == IF d.SecureRangingInfo = None THEN << >> ELSE <<ToSecureObject(d.SecureRangingInfo)>>
             q3 == IF d.RegulatoryInformation = None THEN << >>
                   ELSE <<ToRegulatoryObject(d.RegulatoryInformation)>>
  <2>1. ToSessionDataObject(d)
          = Constructed(<<191, 120>>, n1 \o n2 \o n3 \o n4 \o n5 \o q1 \o q2 \o q3)
    BY Zenon DEF ToSessionDataObject
  <2>2. a1 = n1 /\ a2 = n2 /\ a3 = n3 /\ a4 = n4 /\ a5 = n5
    BY <1>1 DEF NumberObject, NumberWidth
  <2>3. p1 = q1 /\ p2 = q2 /\ p3 = q3
    BY <1>1 DEF Perhaps
  <2> HIDE DEF part, a1, a2, a3, a4, a5, p1, p2, p3, n1, n2, n3, n4, n5, q1, q2, q3
  <2>4. QED
    BY <2>1, <2>2, <2>3, Zenon
<1>5. Made(a1 \o a2 \o a3 \o a4 \o a5, five, 5)
  <2> DEFINE x1 == part("SessionDataVersion")
             x2 == part("SessionId")
             x3 == part("SubSessionId")
             x4 == part("ConfigurationParameters")
             x5 == part("UwbConfigAvailable")
  <2> HIDE DEF x1, x2, x3, x4, x5
  <2>1. Made(<<x1>>, {x1}, 1)
    <3>1. <<x1>> \in Seq({x1}) /\ Len(<<x1>>) = 1 /\ <<x1>>[1] = x1 /\ 1 \in 1 .. 1
      OBVIOUS
    <3>2. QED
      BY <3>1 DEF Made
  <2>2. Made(<<x1>> \o <<x2>>, {x1} \cup {x2}, 2)
    BY <2>1, MadeMore
  <2>3. Made(<<x1>> \o <<x2>> \o <<x3>>, {x1} \cup {x2} \cup {x3}, 3)
    BY <2>2, MadeMore
  <2>4. Made(<<x1>> \o <<x2>> \o <<x3>> \o <<x4>>, {x1} \cup {x2} \cup {x3} \cup {x4}, 4)
    BY <2>3, MadeMore
  <2>5. Made(<<x1>> \o <<x2>> \o <<x3>> \o <<x4>> \o <<x5>>,
             {x1} \cup {x2} \cup {x3} \cup {x4} \cup {x5}, 5)
    BY <2>4, MadeMore
  <2>6. QED
    BY <2>5, Zenon DEF x1, x2, x3, x4, x5
<1> DEFINE first == a1 \o a2 \o a3 \o a4 \o a5
<1> HIDE DEF first, five, part
<1>6. Made(first \o p1, five \cup also("StaticRangingInfo"), 6)
  <2>1. Made(first, five, 5)
    BY <1>5 DEF first
  <2>2. 5 \in Nat /\ 5 + 1 = 6
    OBVIOUS
  <2>3. QED
    BY <2>1, <2>2, MadePerhaps
<1>7. Made(first \o p1 \o p2,
           five \cup also("StaticRangingInfo") \cup also("SecureRangingInfo"), 7)
  BY <1>6, MadePerhaps
<1>8. Made(first \o p1 \o p2 \o p3, all, 8)
  BY <1>7, MadePerhaps
<1>9. values = first \o p1 \o p2 \o p3
  BY DEF first
<1>10. Range(DataParts(d)) = all
  <2>1. Range(DataParts(d)) = {part(t) : t \in PartNames(d)}
    BY DEF Range, DataParts, part
  <2>2. \A t : t \in PartNames(d)
          <=> \/ t \in {"SessionDataVersion", "SessionId", "SubSessionId",
                        "ConfigurationParameters", "UwbConfigAvailable"}
              \/ t \in Optional /\ d[t] # None
    BY SessionDataTagNumbers DEF PartNames, Optional
  <2>3. \A x : x \in all
          <=> \/ x \in five
              \/ \E t \in Optional : d[t] # None /\ x = part(t)
    BY DEF Optional, Also
  <2>4. \A x : x \in five
          <=> \E t \in {"SessionDataVersion", "SessionId", "SubSessionId",
                        "ConfigurationParameters", "UwbConfigAvailable"} : x = part(t)
    BY DEF five
  <2> HIDE DEF all
  <2>5. \A x : x \in {part(t) : t \in PartNames(d)} <=> x \in all
    BY <2>2, <2>3, <2>4, Zenon
  <2>6. QED
    BY <2>1, <2>5
<1>11. ToSessionDataObject(d).values = values
  BY <1>4 DEF Constructed
<1>12. QED
  BY <1>8, <1>9, <1>10, <1>11

LEMMA SessionDataTree ==
    ASSUME NEW d, IsSessionData(d, Int)
    PROVE  LET o == ToSessionDataObject(d) IN
           Tree(o) /\ Holding(o, SessionDataTag, DataParts(d))
<1> DEFINE o == ToSessionDataObject(d)
           of == DataParts(d)
           S == Range(of)
           e == SessionDataTag
<1>1. Made(o.values, S, 8)
  BY SessionDataMade
<1>2. o.tag = <<191, 120>> /\ o = Constructed(o.tag, o.values)
  BY DEF ToSessionDataObject, Constructed
<1>3. DOMAIN of = PartNames(d) /\ \A t \in PartNames(d) : of[t] = PartObject(d, t)
  BY Zenon DEF DataParts
<1>4. \A t \in PartNames(d) : GoodPart(d, t)
  BY NumberPart, OtherParts
<1>5. PartNames(d) \subseteq DOMAIN e
  BY DEF PartNames
<1> HIDE DEF o, of, e
<1>6. \A x : x \in S <=> \E t \in DOMAIN of : x = of[t]
  BY DEF Range
<1> HIDE DEF S
<1>7. PICK v \in Seq(S) : v = o.values /\ Len(v) <= 8
  BY <1>1 DEF Made
<1>8. PICK m \in Nat : m = Len(v) /\ m <= 8 /\ DOMAIN v = 1 .. m
  BY <1>7, LenProperties
<1>9. v = [i \in 1 .. m |-> v[i]] /\ \A i \in 1 .. m : v[i] \in S
  BY <1>7, <1>8
<1>10. \A i \in 1 .. m : \E t \in DOMAIN of : v[i] = of[t]
  BY <1>6, <1>9
<1>11. \A t \in DOMAIN of : \E i \in 1 .. m : v[i] = of[t]
  <2>1. \A x \in S : \E i \in 1 .. Len(v) : v[i] = x
    BY <1>1, <1>7 DEF Made
  <2>2. QED
    BY <1>6, <1>8, <2>1
<1>12. \A i \in 1 .. m : /\ Leaf(v[i]) \/ Branch(v[i])
                         /\ BranchBytes(v[i]) \in Seq(Int) /\ Len(BranchBytes(v[i])) <= 3 * 65541 + 6
  BY <1>3, <1>4, <1>10 DEF GoodPart
<1>13. Len(BranchesBytes(o)) < MaxLength
  <2> DEFINE ss == [i \in 1 .. m |-> BranchBytes(v[i])]
             c == 3 * 65541 + 6
  <2>1. BranchesBytes(o) = FlattenSeq(ss)
    BY <1>7, <1>8 DEF BranchesBytes
  <2>2. ss \in [1 .. m -> Seq(Int)] /\ \A i \in 1 .. m : Len(ss[i]) <= c
    BY <1>12
  <2>3. c \in Nat /\ m * c < MaxLength /\ m * c \in Nat
    BY <1>8 DEF MaxLength
  <2> HIDE DEF ss, c
  <2>4. FlattenSeq(ss) \in Seq(Int) /\ Len(FlattenSeq(ss)) <= m * c
    BY <2>2, <2>3, FlattenBound
  <2>5. Len(FlattenSeq(ss)) \in Nat /\ MaxLength \in Nat
    BY <2>4, LenProperties DEF MaxLength
  <2>6. QED
    BY <2>1, <2>3, <2>4, <2>5
<1>14. PlainTag(o.tag) /\ IsConstructed(o)
  BY <1>2 DEF PlainTag, IsConstructed, TypeConstructed
<1>15. Tree(o)
  <2>1. IsObject(o)
    BY <1>7, <1>8, <1>14 DEF IsObject
  <2>2. o.values = [i \in 1 .. Len(o.values) |-> o.values[i]]
    BY <1>7, <1>8, <1>9
  <2>3. \A i \in DOMAIN o.values : Leaf(o.values[i]) \/ Branch(o.values[i])
    BY <1>7, <1>8, <1>12
  <2>4. QED
    BY <1>2, <1>13, <1>14, <2>1, <2>2, <2>3 DEF Tree
<1>16. Holding(o, e, of)
  <2>1. IsInjective(e)
    BY SessionDataTagNumbers DEF Numbered, e
  <2>2. Len(o.values) \in 0 .. 256 /\ DOMAIN o.values = 1 .. Len(o.values)
    <3>1. m \in 0 .. 256
      <4>1. \A k \in Nat : k <= 8 => k \in 0 .. 256
        OBVIOUS
      <4>2. QED
        BY <1>8, <4>1
    <3>2. QED
      BY <1>7, <1>8, <3>1
  <2>3. \A n \in DOMAIN of : of[n].tag = <<e[n]>>
    BY <1>3, <1>4 DEF GoodPart, e
  <2>4. QED
    BY <1>3, <1>5, <1>7, <1>8, <1>10, <1>11, <2>1, <2>2, <2>3 DEF Holding
<1>17. QED
  BY <1>15, <1>16 DEF o, of, e

\* Session data with another configuration.
WithConfiguration(d, c) ==
    [SessionDataVersion |-> d.SessionDataVersion, SessionId |-> d.SessionId,
     SubSessionId |-> d.SubSessionId, ConfigurationParameters |-> c,
     UwbConfigAvailable |-> d.UwbConfigAvailable, StaticRangingInfo |-> d.StaticRangingInfo,
     SecureRangingInfo |-> d.SecureRangingInfo,
     RegulatoryInformation |-> d.RegulatoryInformation]

LEMMA SessionDataFound ==
    ASSUME NEW d, IsSessionData(d, Int)
    PROVE  LET found == Found(ToSessionDataObject(d), SessionDataTag, EmptyPrimitive) IN
           /\ DOMAIN found = PartNames(d)
           /\ \A t \in PartNames(d) : found[t] = PartObject(d, t)
<1> DEFINE o == ToSessionDataObject(d)
           of == DataParts(d)
           e == SessionDataTag
<1>1. Holding(o, e, of)
  BY SessionDataTree
<1>2. DOMAIN of = PartNames(d) /\ \A t \in PartNames(d) : of[t] = PartObject(d, t)
  BY Zenon DEF DataParts
<1>3. \A t \in PartNames(d) : GoodPart(d, t)
  BY NumberPart, OtherParts
<1> HIDE DEF o, of, e
<1>4. FoundPart(o, e) = HeldOnly(of, PartsOf(of))
  BY <1>1, FoundIs
<1>5. PartsOf(of) = DOMAIN of
  BY <1>2, <1>3 DEF PartsOf, GoodPart
<1> DEFINE found == Found(o, e, EmptyPrimitive)
<1>6. found = HeldOnly(of, DOMAIN of)
  BY <1>4, <1>5, Zenon DEF FoundPart
<1> HIDE DEF found
<1>7. DOMAIN found = PartNames(d) /\ \A t \in PartNames(d) : found[t] = PartObject(d, t)
  BY <1>2, <1>6 DEF HeldOnly
<1>8. QED
  BY <1>7 DEF found, o, e

LEMMA SessionDataDecoded ==
    ASSUME NEW d, IsSessionData(d, Int), NEW b \in BOOLEAN
    PROVE  FromSessionDataObject(ToSessionDataObject(d), b)
             = {WithConfiguration(d, c) :
                  c \in FromConfigurationObject(ToConfigurationObject(d.ConfigurationParameters), b)}
<1> DEFINE o == ToSessionDataObject(d)
           found == Found(o, SessionDataTag, EmptyPrimitive)
           number(t) == ReadSizeTFromBytesBigEndian(found[t].value)
           available == "UwbConfigAvailable" \in DOMAIN found /\ number("UwbConfigAvailable") # 0
           cs == FromConfigurationObject(found["ConfigurationParameters"], b)
           statics == IF "StaticRangingInfo" \in DOMAIN found
                      THEN FromStaticObject(found["StaticRangingInfo"]) ELSE {None}
           secures == IF "SecureRangingInfo" \in DOMAIN found
                      THEN FromSecureObject(found["SecureRangingInfo"]) ELSE {None}
           regulatories == IF "RegulatoryInformation" \in DOMAIN found
                           THEN FromRegulatoryObject(found["RegulatoryInformation"]) ELSE {None}
<1>1. FromSessionDataObject(o, b)
        = IF ~(SessionDataRequired \subseteq DOMAIN found) THEN {}
          ELSE {[SessionDataVersion |-> number("SessionDataVersion"),
                 SessionId |-> number("SessionId"), SubSessionId |-> number("SubSessionId"),
                 ConfigurationParameters |-> configuration,
                 UwbConfigAvailable |-> IF available THEN 1 ELSE 0,
                 StaticRangingInfo |-> static, SecureRangingInfo |-> secure,
                 RegulatoryInformation |-> regulatory] :
                configuration \in cs, static \in statics, secure \in secures,
                regulatory \in regulatories}
  BY DEF FromSessionDataObject
<1>2. DOMAIN found = PartNames(d) /\ \A t \in PartNames(d) : found[t] = PartObject(d, t)
  BY SessionDataFound, Zenon
<1> HIDE DEF o, found
<1>3. \A t : t \in PartNames(d)
        <=> \/ t \in {"SessionDataVersion", "SessionId", "SubSessionId",
                      "ConfigurationParameters", "UwbConfigAvailable"}
            \/ t \in Optional /\ d[t] # None
  BY SessionDataTagNumbers DEF PartNames, Optional
<1>4. SessionDataRequired \subseteq DOMAIN found
  BY <1>2, <1>3 DEF SessionDataRequired
<1>5. /\ number("SessionDataVersion") = d.SessionDataVersion
      /\ number("SessionId") = d.SessionId /\ number("SubSessionId") = d.SubSessionId
      /\ number("UwbConfigAvailable") = d.UwbConfigAvailable
  <2>1. \A t \in DOMAIN NumberWidth : ReadSizeTFromBytesBigEndian(PartObject(d, t).value) = d[t]
    BY NumberPart
  <2>2. /\ "SessionDataVersion" \in DOMAIN NumberWidth /\ "SessionId" \in DOMAIN NumberWidth
        /\ "SubSessionId" \in DOMAIN NumberWidth /\ "UwbConfigAvailable" \in DOMAIN NumberWidth
    BY DEF NumberWidth
  <2>3. QED
    BY <1>2, <1>3, <2>1, <2>2
<1>6. (IF available THEN 1 ELSE 0) = d.UwbConfigAvailable
  <2>1. d.UwbConfigAvailable \in {0, 1}
    BY DEF IsSessionData
  <2>2. "UwbConfigAvailable" \in DOMAIN found
    BY <1>2, <1>3
  <2>3. QED
    BY <1>5, <2>1, <2>2
<1>7. cs = FromConfigurationObject(ToConfigurationObject(d.ConfigurationParameters), b)
  <2>1. "ConfigurationParameters" \in PartNames(d)
    BY <1>3
  <2>2. "ConfigurationParameters" \notin DOMAIN NumberWidth
    BY DEF NumberWidth
  <2>3. PartObject(d, "ConfigurationParameters") = ToConfigurationObject(d.ConfigurationParameters)
    BY <2>2, Zenon DEF PartObject
  <2>4. QED
    BY <1>2, <2>1, <2>3
<1>8. statics = {d.StaticRangingInfo} /\ secures = {d.SecureRangingInfo}
      /\ regulatories = {d.RegulatoryInformation}
  <2>1. /\ "StaticRangingInfo" \notin DOMAIN NumberWidth
        /\ "SecureRangingInfo" \notin DOMAIN NumberWidth
        /\ "RegulatoryInformation" \notin DOMAIN NumberWidth
    BY DEF NumberWidth
  <2>2. \A t \in Optional : t \in DOMAIN found <=> d[t] # None
    BY <1>2, <1>3 DEF Optional
  <2>3. \A t \in Optional : t \in PartNames(d) => found[t] = PartObject(d, t)
    BY <1>2
  <2>4. statics = {d.StaticRangingInfo}
    BY <1>2, <2>1, <2>2, <2>3, OtherParts DEF Optional
  <2>5. secures = {d.SecureRangingInfo}
    BY <1>2, <2>1, <2>2, <2>3, OtherParts DEF Optional
  <2>6. regulatories = {d.RegulatoryInformation}
    BY <1>2, <2>1, <2>2, <2>3, OtherParts DEF Optional
  <2>7. QED
    BY <2>4, <2>5, <2>6
<1> DEFINE result(configuration, static, secure, regulatory) ==
             [SessionDataVersion |-> number("SessionDataVersion"),
              SessionId |-> number("SessionId"), SubSessionId |-> number("SubSessionId"),
              ConfigurationParameters |-> configuration,
              UwbConfigAvailable |-> IF available THEN 1 ELSE 0,
              StaticRangingInfo |-> static, SecureRangingInfo |-> secure,
              RegulatoryInformation |-> regulatory]
<1>9. FromSessionDataObject(o, b)
        = {result(configuration, static, secure, regulatory) :
             configuration \in cs, static \in statics, secure \in secures,
             regulatory \in regulatories}
  BY <1>1, <1>4
<1>10. \A c : result(c, d.StaticRangingInfo, d.SecureRangingInfo, d.RegulatoryInformation)
                = WithConfiguration(d, c)
  <2> HIDE DEF number, available
  <2>1. QED
    BY <1>5, <1>6 DEF WithConfiguration
<1> HIDE DEF result, cs, statics, secures, regulatories
<1>11. \A r : r \in FromSessionDataObject(o, b) <=> \E c \in cs : r = WithConfiguration(d, c)
  <2>1. \A r : r \in FromSessionDataObject(o, b)
          <=> \E c \in cs, static \in statics, secure \in secures, regulatory \in regulatories :
                r = result(c, static, secure, regulatory)
    BY <1>9
  <2>2. QED
    BY <1>8, <1>10, <2>1
<1>12. FromSessionDataObject(o, b) = {WithConfiguration(d, c) : c \in cs}
  BY <1>11
<1>13. QED
  BY <1>7, <1>12 DEF o

\* What certainly arrives of session data.
PlainData(d, first) ==
    [d EXCEPT !.ConfigurationParameters = Plain(@, first)]

\* What UwbSessionData::FromDataObject makes of the object that ToDataObject makes of
\* any session data: it accepts it, and all of it is as it was sent except for what of
\* the configuration is not certain to arrive.  (That the decoder depends on whether
\* the process has decoded before is b.)
THEOREM SessionDataReturns ==
    ASSUME NEW d, IsSessionData(d, Int), NEW b \in BOOLEAN
    PROVE  LET outcomes == FromSessionDataObject(ToSessionDataObject(d), b) IN
           /\ outcomes # {}
           /\ \A r \in outcomes : PlainData(r, ~b) = PlainData(d, ~b)
<1> DEFINE cs == FromConfigurationObject(ToConfigurationObject(d.ConfigurationParameters), b)
           outcomes == FromSessionDataObject(ToSessionDataObject(d), b)
<1>1. outcomes = {WithConfiguration(d, c) : c \in cs}
  BY SessionDataDecoded
<1>2. IsConfiguration(d.ConfigurationParameters, Int)
  BY DEF IsSessionData
<1>3. cs # {} /\ \A c \in cs : Plain(c, ~b) = Plain(d.ConfigurationParameters, ~b)
  BY <1>2, ConfigurationReturns
<1> HIDE DEF cs, outcomes
<1>4. outcomes # {}
  BY <1>1, <1>3
<1>5. ASSUME NEW r \in outcomes PROVE PlainData(r, ~b) = PlainData(d, ~b)
  <2>1. PICK c \in cs : r = WithConfiguration(d, c)
    BY <1>1
  <2>2. Plain(c, ~b) = Plain(d.ConfigurationParameters, ~b)
    BY <1>3
  <2>3. d = WithConfiguration(d, d.ConfigurationParameters)
    BY DEF IsSessionData, WithConfiguration
  <2>4. ASSUME NEW q, NEW p, NEW k, p = WithConfiguration(q, k)
        PROVE  PlainData(p, ~b) = WithConfiguration(q, Plain(k, ~b))
    BY <2>4 DEF WithConfiguration, PlainData
  <2>5. PlainData(r, ~b) = WithConfiguration(d, Plain(c, ~b))
    BY <2>1, <2>4
  <2>6. PlainData(d, ~b) = WithConfiguration(d, Plain(d.ConfigurationParameters, ~b))
    BY <2>3, <2>4
  <2>7. QED
    BY <2>2, <2>5, <2>6
<1>6. QED
  BY <1>4, <1>5 DEF outcomes

-----------------------------------------------------------------------------
(* Sets of bits.                                                           *)

LEMMA PowersOfTwo ==
    /\ 2 ^ 0 = 1 /\ 2 ^ 1 = 2 /\ 2 ^ 2 = 4 /\ 2 ^ 3 = 8
    /\ 2 ^ 4 = 16 /\ 2 ^ 5 = 32 /\ 2 ^ 6 = 64 /\ 2 ^ 7 = 128
  BY SMT

\* The digits of a byte.
LEMMA BinaryDigits ==
    ASSUME NEW x, NEW a \in {0, 1}, NEW b \in {0, 1}, NEW c \in {0, 1}, NEW d \in {0, 1},
           NEW e \in {0, 1}, NEW f \in {0, 1}, NEW g \in {0, 1}, NEW h \in {0, 1},
           x = a + 2 * b + 4 * c + 8 * d + 16 * e + 32 * f + 64 * g + 128 * h
    PROVE  /\ x \in 0 .. 255
           /\ (x \div 1) % 2 = a /\ (x \div 2) % 2 = b /\ (x \div 4) % 2 = c /\ (x \div 8) % 2 = d
           /\ (x \div 16) % 2 = e /\ (x \div 32) % 2 = f /\ (x \div 64) % 2 = g
           /\ (x \div 128) % 2 = h
<1>1. x \in 0 .. 255
  OBVIOUS
<1>2. (x \div 1) % 2 = a /\ (x \div 2) % 2 = b /\ (x \div 4) % 2 = c
  <2>1. x \div 1 = x /\ x \div 2 = b + 2 * c + 4 * d + 8 * e + 16 * f + 32 * g + 64 * h
    OBVIOUS
  <2>2. x \div 4 = c + 2 * d + 4 * e + 8 * f + 16 * g + 32 * h
    OBVIOUS
  <2>3. QED
    BY <2>1, <2>2
<1>3. (x \div 8) % 2 = d /\ (x \div 16) % 2 = e
  <2>1. x \div 8 = d + 2 * e + 4 * f + 8 * g + 16 * h
    OBVIOUS
  <2>2. x \div 16 = e + 2 * f + 4 * g + 8 * h
    OBVIOUS
  <2>3. QED
    BY <2>1, <2>2
<1>4. (x \div 32) % 2 = f /\ (x \div 64) % 2 = g /\ (x \div 128) % 2 = h
  <2>1. x \div 32 = f + 2 * g + 4 * h /\ x \div 64 = g + 2 * h /\ x \div 128 = h
    OBVIOUS
  <2>2. QED
    BY <2>1
<1>5. QED
  BY <1>1, <1>2, <1>3, <1>4

\* One of the bytes of a set of bits.
BitByte(bits, m) ==
    LET bit(k) == IF 8 * m + k \in bits THEN 2 ^ k ELSE 0
    IN  bit(0) + bit(1) + bit(2) + bit(3) + bit(4) + bit(5) + bit(6) + bit(7)

LEMMA BitByteIs ==
    ASSUME NEW bits, NEW m \in Nat
    PROVE  /\ BitByte(bits, m) \in 0 .. 255
           /\ \A k \in 0 .. 7 : (BitByte(bits, m) \div 2 ^ k) % 2 = 1 <=> 8 * m + k \in bits
<1> DEFINE x == BitByte(bits, m)
           D(k) == IF 8 * m + k \in bits THEN 1 ELSE 0
<1>1. PICK a, b, c, d, e, f, g, h : /\ a = D(0) /\ b = D(1) /\ c = D(2) /\ d = D(3)
                                    /\ e = D(4) /\ f = D(5) /\ g = D(6) /\ h = D(7)
  OBVIOUS
<1>2. x = a + 2 * b + 4 * c + 8 * d + 16 * e + 32 * f + 64 * g + 128 * h
  BY <1>1, PowersOfTwo DEF BitByte
<1>3. /\ a \in {0, 1} /\ b \in {0, 1} /\ c \in {0, 1} /\ d \in {0, 1}
      /\ e \in {0, 1} /\ f \in {0, 1} /\ g \in {0, 1} /\ h \in {0, 1}
  BY <1>1
<1>4. /\ a = 1 <=> 8 * m + 0 \in bits
      /\ b = 1 <=> 8 * m + 1 \in bits
      /\ c = 1 <=> 8 * m + 2 \in bits
      /\ d = 1 <=> 8 * m + 3 \in bits
      /\ e = 1 <=> 8 * m + 4 \in bits
      /\ f = 1 <=> 8 * m + 5 \in bits
      /\ g = 1 <=> 8 * m + 6 \in bits
      /\ h = 1 <=> 8 * m + 7 \in bits
  BY <1>1
<1> HIDE DEF x, D
<1>5. /\ x \in 0 .. 255
      /\ (x \div 1) % 2 = a /\ (x \div 2) % 2 = b /\ (x \div 4) % 2 = c /\ (x \div 8) % 2 = d
      /\ (x \div 16) % 2 = e /\ (x \div 32) % 2 = f /\ (x \div 64) % 2 = g
      /\ (x \div 128) % 2 = h
  BY ONLY <1>2, <1>3, BinaryDigits
<1>6. ASSUME NEW k \in 0 .. 7 PROVE (x \div 2 ^ k) % 2 = 1 <=> 8 * m + k \in bits
  <2>1. CASE k = 0
    BY <1>4, <1>5, <2>1, PowersOfTwo
  <2>2. CASE k = 1
    BY <1>4, <1>5, <2>2, PowersOfTwo
  <2>3. CASE k = 2
    BY <1>4, <1>5, <2>3, PowersOfTwo
  <2>4. CASE k = 3
    BY <1>4, <1>5, <2>4, PowersOfTwo
  <2>5. CASE k = 4
    BY <1>4, <1>5, <2>5, PowersOfTwo
  <2>6. CASE k = 5
    BY <1>4, <1>5, <2>6, PowersOfTwo
  <2>7. CASE k = 6
    BY <1>4, <1>5, <2>7, PowersOfTwo
  <2>8. CASE k = 7
    BY <1>4, <1>5, <2>8, PowersOfTwo
  <2>9. QED
    BY <2>1, <2>2, <2>3, <2>4, <2>5, <2>6, <2>7, <2>8
<1>7. QED
  BY <1>5, <1>6 DEF x

\* The bits that are set in the bytes of some bits are these.
LEMMA BitsOfBytes ==
    ASSUME NEW n \in Nat, NEW bits, bits \subseteq 0 .. 8 * n - 1
    PROVE  /\ BytesOf(bits, n) \in Seq(Int) /\ Len(BytesOf(bits, n)) = n
           /\ BitsOf(BytesOf(bits, n)) = bits
<1> DEFINE bytes == BytesOf(bits, n)
<1>1. bytes = [i \in 1 .. n |-> BitByte(bits, n - i)]
  BY DEF BytesOf, BitByte
<1> HIDE DEF bytes
<1>2. ASSUME NEW i \in 1 .. n PROVE bytes[i] \in Int
  <2>1. n - i \in Nat
    OBVIOUS
  <2>2. BitByte(bits, n - i) \in 0 .. 255
    BY <2>1, BitByteIs
  <2>3. bytes[i] = BitByte(bits, n - i)
    BY <1>1, Zenon
  <2>4. QED
    BY <2>2, <2>3
<1>3. bytes \in [1 .. n -> Int]
  BY <1>1, <1>2
<1>4. bytes \in Seq(Int) /\ Len(bytes) = n
  BY <1>3, BytesOfLength
<1>5. ASSUME NEW j \in 0 .. 8 * n - 1
      PROVE  (bytes[n - j \div 8] \div 2 ^ (j % 8)) % 2 = 1 <=> j \in bits
  <2>1. PICK m \in Nat, k \in 0 .. 7 : m = j \div 8 /\ k = j % 8 /\ j = 8 * m + k
    OBVIOUS
  <2>2. n - m \in 1 .. n /\ n - (n - m) = m
    BY <2>1
  <2>3. bytes[n - m] = BitByte(bits, m)
    BY <1>1, <2>2
  <2>4. (BitByte(bits, m) \div 2 ^ k) % 2 = 1 <=> 8 * m + k \in bits
    BY BitByteIs
  <2>5. QED
    BY <2>1, <2>3, <2>4
<1>6. BitsOf(bytes) = {j \in 0 .. 8 * n - 1 : (bytes[n - j \div 8] \div 2 ^ (j % 8)) % 2 = 1}
  BY <1>4 DEF BitsOf
<1>7. BitsOf(bytes) = bits
  BY <1>5, <1>6
<1>8. QED
  BY <1>4, <1>7 DEF bytes

\* Bits at different places, as far as some bytes go.
Apart8(e, width) ==
    \A v, w \in DOMAIN e : e[v] \in 0 .. 8 * width - 1 /\ (e[v] = e[w] => v = w)

LEMMA BitNames ==
    DOMAIN Bit = {"DeviceRoles", "RangingMethod", "StsConfig", "MultiNodeMode", "RangingMode",
                  "ScheduledMode", "Channels", "RFrameConfig", "CcConstraintLength",
                  "BprfParameterSets", "HprfParameterSets", "AoaSupport"}
BY DEF Bit

LEMMA BitsApart == \A t \in DOMAIN Bit : Apart8(Bit[t], CapabilityWidth(t))
<1>1. ASSUME NEW t \in DOMAIN Bit, t # "HprfParameterSets" PROVE CapabilityWidth(t) = 1
  BY <1>1, BitNames DEF CapabilityWidth
<1>2. CapabilityWidth("HprfParameterSets") = 5
  BY DEF CapabilityWidth
<1>3. Apart8(Bit["DeviceRoles"], 1) /\ Apart8(Bit["StsConfig"], 1)
  BY DEF Apart8, Bit
<1>4. Apart8(Bit["MultiNodeMode"], 1) /\ Apart8(Bit["RangingMode"], 1)
  BY DEF Apart8, Bit
<1>5. Apart8(Bit["ScheduledMode"], 1) /\ Apart8(Bit["Channels"], 1)
  BY DEF Apart8, Bit
<1>6. Apart8(Bit["RFrameConfig"], 1) /\ Apart8(Bit["CcConstraintLength"], 1)
      /\ Apart8(Bit["AoaSupport"], 1)
  BY DEF Apart8, Bit
<1>7. Apart8(Bit["BprfParameterSets"], 1) /\ Apart8(Bit["HprfParameterSets"], 5)
  BY DEF Apart8, Bit, BprfParameter, HprfParameter
<1>8. Apart8(Bit["RangingMethod"], 1)
  <2> DEFINE names == <<"Rfu", "SingleSidedTwoWayRangingWithDeferredMode",
                        "DoubleSidedTwoWayRangingWithDeferredMode",
                        "SingleSidedTwoWayRangingNonDeferredMode",
                        "DoubleSidedTwoWayRangingNonDeferredMode">>
  <2>1. AsMany(names, 0, 4)
    BY DEF AsMany
  <2>2. RangingRoundUsage = Enumeration(names, 0)
    BY DEF RangingRoundUsage
  <2> HIDE DEF names
  <2>3. Numbered(RangingRoundUsage, 0, 4)
    BY <2>1, <2>2, EnumerationIs
  <2>4. Bit["RangingMethod"] = RangingRoundUsage
    BY DEF Bit
  <2>5. \A k \in 0 .. 4 : k \in 0 .. 8 * 1 - 1
    OBVIOUS
  <2>6. QED
    BY <2>3, <2>4, <2>5 DEF Apart8, Numbered, IsInjective
<1>9. QED
  BY <1>1, <1>2, <1>3, <1>4, <1>5, <1>6, <1>7, <1>8, BitNames, Zenon

-----------------------------------------------------------------------------
(* Capabilities, from one host to the other.                               *)

Versions4 == {"FiraPhyVersionRange", "FiraMacVersionRange"}
LEMMA CapabilityWidths ==
    /\ \A t \in Versions4 : CapabilityWidth(t) = 4
    /\ CapabilityWidth("HprfParameterSets") = 5
    /\ \A t : t \notin Versions4 \cup {"HprfParameterSets"} => CapabilityWidth(t) = 1
<1>1. \A t \in Versions4 : CapabilityWidth(t) = 4
  BY Zenon DEF CapabilityWidth, Versions4
<1>2. CapabilityWidth("HprfParameterSets") = 5
  <2>1. "HprfParameterSets" \notin {"FiraMacVersionRange", "FiraPhyVersionRange"}
    OBVIOUS
  <2>2. QED
    BY <2>1, Zenon DEF CapabilityWidth
<1>3. ASSUME NEW t, t \notin Versions4 \cup {"HprfParameterSets"} PROVE CapabilityWidth(t) = 1
  <2>1. t \notin {"FiraPhyVersionRange", "FiraMacVersionRange"} /\ t # "HprfParameterSets"
    BY <1>3 DEF Versions4
  <2>2. QED
    BY <2>1, Zenon DEF CapabilityWidth
<1>4. QED
  BY <1>1, <1>2, <1>3, Zenon

LEMMA CapabilityNames ==
    /\ DOMAIN DefaultCapability = DOMAIN CapabilityTag \cup {"AngleOfArrivalFom"}
    /\ "AngleOfArrivalFom" \notin DOMAIN CapabilityTag
    /\ DOMAIN Bit \subseteq DOMAIN CapabilityTag /\ "AngleOfArrivalFom" \notin DOMAIN Bit
    /\ Versions4 \subseteq DOMAIN CapabilityTag \ DOMAIN Bit
    /\ "HprfParameterSets" \in DOMAIN Bit
    /\ \A t \in DOMAIN CapabilityTag : CapabilityWidth(t) \in {1, 4, 5}
<1>1. DOMAIN DefaultCapability = DOMAIN CapabilityTag \cup {"AngleOfArrivalFom"}
  BY Zenon DEF DefaultCapability
<1>2. /\ "AngleOfArrivalFom" \notin DOMAIN CapabilityTag
      /\ DOMAIN Bit \subseteq DOMAIN CapabilityTag /\ "AngleOfArrivalFom" \notin DOMAIN Bit
      /\ Versions4 \subseteq DOMAIN CapabilityTag \ DOMAIN Bit
      /\ "HprfParameterSets" \in DOMAIN Bit
  BY CapabilityTagNumbers, BitNames DEF Versions4
<1>3. \A t : CapabilityWidth(t) \in {1, 4, 5}
  BY CapabilityWidths
<1>4. QED
  BY <1>1, <1>2, <1>3

\* The bits of some values.
BitsAt(e, values) == {e[v] : v \in values}
LEMMA ValuesReturned ==
    ASSUME NEW e, NEW width \in Nat, Apart8(e, width), NEW values, values \subseteq DOMAIN e,
           NEW more, more \subseteq 0 .. 8 * width - 1, \A v \in DOMAIN e : e[v] \notin more
    PROVE  LET bits == BitsAt(e, values) \cup more IN
           /\ bits \subseteq 0 .. 8 * width - 1
           /\ {v \in DOMAIN e : e[v] \in bits} = values
           /\ more = bits \ Range(e)
<1>1. \A b : b \in BitsAt(e, values) <=> \E v \in values : b = e[v]
  BY DEF BitsAt
<1>2. \A v \in DOMAIN e : e[v] \in BitsAt(e, values) <=> v \in values
  BY <1>1 DEF Apart8
<1>3. BitsAt(e, values) \subseteq 0 .. 8 * width - 1
  BY <1>1 DEF Apart8
<1>4. BitsAt(e, values) \subseteq Range(e) /\ \A b \in more : b \notin Range(e)
  BY <1>1 DEF Range
<1>5. QED
  BY <1>2, <1>3, <1>4

\* The bytes of a capability's values.
MeritBits(c) == IF c.AngleOfArrivalFom = 1 THEN {AngleOfArrivalFomBit} ELSE {}
CapabilityValue(c, t) ==
    CASE t = "AoaSupport" ->
            BytesOf({Bit[t][v] : v \in c[t]}
                    \cup (IF c.AngleOfArrivalFom = 1 THEN {AngleOfArrivalFomBit} ELSE {}), 1)
      [] t \in DOMAIN Bit \ {"AoaSupport"} -> EncodeValuesAsBytes(t, c[t], CapabilityWidth(t))
      [] OTHER -> GetBytesBigEndianFromBitMap(c[t], CapabilityWidth(t))

CapabilityBytes(c) == [t \in DOMAIN CapabilityTag |-> CapabilityValue(c, t)]
\* What they are read as.
ReadValue(t, bytes) ==
    CASE t \in DOMAIN Bit -> AssignValuesFromBytes(t, bytes)
      [] t \in {"FiraPhyVersionRange", "FiraMacVersionRange"} -> ReadSizeTFromBytesBigEndian(bytes)
      [] OTHER -> IF bytes[1] # 0 THEN 1 ELSE 0

ReadMerit(bytes) == IF AngleOfArrivalFomBit \in BitsOf(bytes) THEN 1 ELSE 0

LEMMA SetReturns ==
    ASSUME NEW c, IsCapability(c), NEW t \in DOMAIN Bit \ {"AoaSupport"}
    PROVE  LET v == CapabilityValue(c, t) IN
           v \in Seq(Int) /\ Len(v) = CapabilityWidth(t) /\ ReadValue(t, v) = c[t]
<1> DEFINE e == Bit[t]
           w == CapabilityWidth(t)
           more == {}
           bits == BitsAt(e, c[t]) \cup more
           v == CapabilityValue(c, t)
<1>1. v = BytesOf({e[x] : x \in c[t]}, w)
  <2>1. t # "AoaSupport" /\ t \in DOMAIN Bit \ {"AoaSupport"}
    OBVIOUS
  <2>2. v = EncodeValuesAsBytes(t, c[t], w)
    BY <2>1, Zenon DEF CapabilityValue
  <2>3. QED
    BY <2>2, Zenon DEF EncodeValuesAsBytes
<1>2. bits = {e[x] : x \in c[t]}
  BY DEF BitsAt
<1>3. w \in Nat /\ Apart8(e, w) /\ c[t] \subseteq DOMAIN e
  <2>1. w \in {1, 4, 5}
    BY CapabilityNames, Zenon
  <2>2. w \in Nat
    BY <2>1
  <2>3. QED
    BY <2>2, BitsApart, Zenon DEF IsCapability
<1>4. ReadValue(t, v) = {x \in DOMAIN e : e[x] \in BitsOf(v)}
  <2>1. t \in DOMAIN Bit /\ t \notin {"FiraPhyVersionRange", "FiraMacVersionRange"}
    BY CapabilityNames DEF Versions4
  <2>2. QED
    BY <2>1, Zenon DEF ReadValue, AssignValuesFromBytes
<1>5. more \subseteq 0 .. 8 * w - 1 /\ \A x \in DOMAIN e : e[x] \notin more
  OBVIOUS
<1> HIDE DEF e, w, v, more
<1>6. /\ bits \subseteq 0 .. 8 * w - 1
      /\ {x \in DOMAIN e : e[x] \in bits} = c[t]
      /\ more = bits \ Range(e)
  BY <1>3, <1>5, ValuesReturned, Zenon
<1> HIDE DEF bits
<1>7. v \in Seq(Int) /\ Len(v) = w /\ BitsOf(v) = bits
  BY <1>1, <1>2, <1>3, <1>6, BitsOfBytes
<1>8. QED
  BY <1>4, <1>6, <1>7 DEF v, w

LEMMA SupportReturns ==
    ASSUME NEW c, IsCapability(c)
    PROVE  LET v == CapabilityValue(c, "AoaSupport") IN
           /\ v \in Seq(Int) /\ Len(v) = 1 /\ ReadValue("AoaSupport", v) = c["AoaSupport"]
           /\ ReadMerit(v) = c.AngleOfArrivalFom
<1> DEFINE t == "AoaSupport"
           e == Bit[t]
           more == MeritBits(c)
           bits == BitsAt(e, c[t]) \cup more
           v == CapabilityValue(c, t)
<1>1. v = BytesOf(bits, 1)
  BY Zenon DEF CapabilityValue, BitsAt, MeritBits
<1>2. t \in DOMAIN Bit /\ CapabilityWidth(t) = 1
  BY BitNames, CapabilityWidths DEF Versions4
<1>3. Apart8(e, 1) /\ c[t] \subseteq DOMAIN e
  BY <1>2, BitsApart DEF IsCapability
<1>4. ReadValue(t, v) = {x \in DOMAIN e : e[x] \in BitsOf(v)}
  BY <1>2, Zenon DEF ReadValue, AssignValuesFromBytes
<1>5. /\ \A x \in DOMAIN e : e[x] \notin more
      /\ AngleOfArrivalFomBit \notin Range(e)
  BY DEF MeritBits, AngleOfArrivalFomBit, Bit, Range
<1>6. more \subseteq 0 .. 8 * 1 - 1
  BY DEF MeritBits, AngleOfArrivalFomBit
<1> HIDE DEF t, e, v, more
<1>7. /\ bits \subseteq 0 .. 8 * 1 - 1
      /\ {x \in DOMAIN e : e[x] \in bits} = c[t]
      /\ more = bits \ Range(e)
  BY <1>3, <1>5, <1>6, ValuesReturned, Zenon
<1> HIDE DEF bits
<1>8. v \in Seq(Int) /\ Len(v) = 1 /\ BitsOf(v) = bits
  BY <1>1, <1>7, BitsOfBytes
<1>9. ReadMerit(v) = c.AngleOfArrivalFom
  <2>1. c.AngleOfArrivalFom \in {0, 1}
    <3>1. "AngleOfArrivalFom" \in DOMAIN DefaultCapability \ DOMAIN Bit
      BY CapabilityNames
    <3>2. CapabilityWidth("AngleOfArrivalFom") # 4
      BY CapabilityWidths DEF Versions4
    <3>3. QED
      BY <3>1, <3>2 DEF IsCapability
  <2>2. AngleOfArrivalFomBit \in bits <=> AngleOfArrivalFomBit \in more
    BY <1>5, <1>7
  <2>3. AngleOfArrivalFomBit \in more <=> c.AngleOfArrivalFom = 1
    BY DEF more, MeritBits
  <2>4. QED
    BY <1>8, <2>1, <2>2, <2>3 DEF ReadMerit
<1>10. QED
  BY <1>4, <1>7, <1>8, <1>9 DEF v, t

LEMMA NumberReturns ==
    ASSUME NEW c, IsCapability(c), NEW t \in DOMAIN CapabilityTag \ DOMAIN Bit
    PROVE  LET v == CapabilityValue(c, t) IN
           v \in Seq(Int) /\ Len(v) = CapabilityWidth(t) /\ ReadValue(t, v) = c[t]
<1> DEFINE w == CapabilityWidth(t)
           v == CapabilityValue(c, t)
<1>1. "AoaSupport" \in DOMAIN Bit
  BY BitNames
<1>2. v = GetBytesBigEndianFromBitMap(c[t], w)
  BY <1>1, Zenon DEF CapabilityValue
<1>3. t \in DOMAIN DefaultCapability \ DOMAIN Bit
  BY CapabilityNames
<1>4. IF w = 4 THEN WithinBytes(c[t], 4) ELSE c[t] \in {0, 1}
  BY <1>3 DEF IsCapability
<1>5. CASE t \in Versions4
  <2>1. w = 4
    BY <1>5, CapabilityWidths
  <2>2. ReadValue(t, v) = ReadSizeTFromBytesBigEndian(v)
    BY <1>5, Zenon DEF ReadValue, Versions4
  <2> HIDE DEF v, w
  <2>3. QED
    BY <1>2, <1>4, <2>1, <2>2, NumberBytes DEF v, w
<1>6. CASE t \notin Versions4
  <2>1. w = 1
    BY <1>6, CapabilityWidths, CapabilityNames
  <2>2. ReadValue(t, v) = IF v[1] # 0 THEN 1 ELSE 0
    BY <1>6, Zenon DEF ReadValue, Versions4
  <2> HIDE DEF v, w
  <2>3. c[t] \in {0, 1}
    BY <1>4, <2>1
  <2>4. WithinBytes(c[t], 1)
    BY <2>3 DEF WithinBytes
  <2>5. v \in Seq(Int) /\ Len(v) = 1 /\ v[1] = c[t]
    BY <1>2, <2>1, <2>4, NumberBytes
  <2>6. QED
    BY <2>1, <2>2, <2>3, <2>5 DEF v, w
<1>7. QED
  BY <1>5, <1>6

LEMMA CapabilityBytesAre ==
    ASSUME NEW c, IsCapability(c)
    PROVE  /\ Valuable(CapabilityTag, CapabilityBytes(c), 14)
           /\ DOMAIN CapabilityBytes(c) = DOMAIN CapabilityTag
           /\ \A t \in DOMAIN CapabilityTag :
                /\ Len(CapabilityBytes(c)[t]) = CapabilityWidth(t)
                /\ ReadValue(t, CapabilityBytes(c)[t]) = c[t]
           /\ ReadMerit(CapabilityBytes(c)["AoaSupport"]) = c.AngleOfArrivalFom
<1> DEFINE bytes == CapabilityBytes(c)
<1>1. DOMAIN bytes = DOMAIN CapabilityTag
      /\ \A t \in DOMAIN CapabilityTag : bytes[t] = CapabilityValue(c, t)
  BY Zenon DEF CapabilityBytes
<1> HIDE DEF bytes
<1>2. ASSUME NEW t \in DOMAIN CapabilityTag
      PROVE  bytes[t] \in Seq(Int) /\ Len(bytes[t]) = CapabilityWidth(t) /\ ReadValue(t, bytes[t]) = c[t]
  <2>1. CASE t = "AoaSupport"
    <3>1. CapabilityWidth("AoaSupport") = 1
      BY CapabilityWidths DEF Versions4
    <3>2. QED
      BY <1>1, <2>1, <3>1, SupportReturns
  <2>2. CASE t \in DOMAIN Bit \ {"AoaSupport"}
    BY <1>1, <2>2, SetReturns
  <2>3. CASE t \notin DOMAIN Bit
    BY <1>1, <2>3, NumberReturns
  <2>4. QED
    BY <2>1, <2>2, <2>3
<1>3. "AoaSupport" \in DOMAIN CapabilityTag
  BY CapabilityTagNumbers
<1>4. ReadMerit(bytes["AoaSupport"]) = c.AngleOfArrivalFom
  BY <1>1, <1>3, SupportReturns
<1>5. ASSUME NEW t \in DOMAIN CapabilityTag PROVE Len(bytes[t]) + 6 <= 14
  <2>1. CapabilityWidth(t) \in {1, 4, 5}
    BY CapabilityNames
  <2>2. QED
    BY <1>2, <2>1
<1>6. Numbered(CapabilityTag, 128, 157)
  <2>1. \A n \in DOMAIN CapabilityTag : CapabilityTag[n] \in 128 .. 145
    BY CapabilityTagNumbers DEF Numbered
  <2>2. QED
    BY <2>1, CapabilityTagNumbers DEF Numbered
<1>7. 14 \in Nat /\ 14 < MaxLength
  BY DEF MaxLength
<1>8. DOMAIN CapabilityTag # {}
  BY <1>3
<1>9. Valuable(CapabilityTag, bytes, 14)
  BY <1>1, <1>2, <1>5, <1>6, <1>7, <1>8, Zenon DEF Valuable
<1>10. QED
  BY <1>1, <1>2, <1>4, <1>9, Zenon DEF bytes

LEMMA CapabilityObject ==
    ASSUME NEW c, IsCapability(c)
    PROVE  LET o == ToOobDataObject(c) IN
           /\ Branch(o) /\ o.tag = <<163>> /\ DOMAIN o.values = 1 .. Len(o.values)
           /\ Len(o.values) \in Nat
           /\ \A i \in DOMAIN o.values : Len(o.values[i].tag) = 1
           /\ Finds(FoundKept(o, CapabilityTag), DOMAIN CapabilityTag, CapabilityBytes(c))
<1> DEFINE e == CapabilityTag
           bytes == CapabilityBytes(c)
           k == 256
           w == 14
           tag == 163
           o == ObjectOf(<<tag>>, e, bytes)
<1>1. ToOobDataObject(c) = o
  BY Zenon DEF ToOobDataObject, CapabilityBytes, CapabilityValue
<1>2. Valuable(e, bytes, w) /\ DOMAIN bytes = DOMAIN e
  BY CapabilityBytesAre
<1>3. k \in Nat /\ k * w = 3584 /\ k * w < MaxLength
  BY DEF MaxLength
<1>4. tag \in 163 .. 166 /\ tag = 163
  OBVIOUS
<1>5. Numbered(e, 0, 255)
  <2>1. \A n \in DOMAIN e : e[n] \in 128 .. 145
    BY CapabilityTagNumbers DEF Numbered
  <2>2. \A n \in DOMAIN e : e[n] \in 0 .. 255
    BY <2>1
  <2>3. QED
    BY <2>2, CapabilityTagNumbers DEF Numbered
<1> HIDE DEF e, bytes, w, o, tag
<1>6. Len(InOrder(DOMAIN bytes, e)) <= k
  <2> DEFINE n == Len(InOrder(DOMAIN bytes, e))
  <2>1. DOMAIN e # {} /\ DOMAIN bytes \in SUBSET (DOMAIN e)
    BY <1>2 DEF Valuable
  <2>2. n \in 0 .. 256
    BY <1>5, <2>1, InOrderIs
  <2> HIDE DEF n
  <2>3. n <= k
    BY <2>2
  <2>4. QED
    BY <2>3 DEF n
<1> HIDE DEF k
<1>7. Branch(o) /\ o.tag = <<tag>>
  BY <1>2, <1>3, <1>4, <1>6, ObjectFinds DEF o
<1>8. Holding(o, e, Primitives(e, bytes))
  BY <1>2, <1>3, <1>4, <1>6, ObjectFinds DEF o
<1>9. Finds(FoundKept(o, e), DOMAIN bytes, bytes)
  BY <1>2, <1>3, <1>4, <1>6, ObjectFinds DEF o
<1>10. DOMAIN o.values = 1 .. Len(o.values) /\ Len(o.values) \in Nat
  <2>1. Len(o.values) \in 0 .. 256
    BY <1>8 DEF Holding
  <2>2. QED
    BY <1>8, <2>1 DEF Holding
<1>11. ASSUME NEW i \in DOMAIN o.values PROVE Len(o.values[i].tag) = 1
  <2> DEFINE of == Primitives(e, bytes)
  <2>1. \E n \in DOMAIN of : o.values[i] = of[n] /\ of[n].tag = <<e[n]>>
    BY <1>8, <1>11, Zenon DEF Holding
  <2> HIDE DEF of
  <2>2. QED
    BY <2>1
<1>12. QED
  BY <1>1, <1>2, <1>4, <1>7, <1>9, <1>10, <1>11 DEF e, bytes

\* What UwbCapability::FromOobDataObject makes of the object that ToOobDataObject makes of
\* any capability is that capability, whichever values it supports.
THEOREM CapabilityReturns ==
    ASSUME NEW c, IsCapability(c)
    PROVE  FromOobDataObject(ToOobDataObject(c)) = {c}
<1> DEFINE o == ToOobDataObject(c)
           bytes == CapabilityBytes(c)
           found == FoundKept(o, CapabilityTag)
           D == DOMAIN DefaultCapability
           V(t) ==
                CASE t \in DOMAIN found -> ReadValue(t, found[t].value)
                  [] t = "AngleOfArrivalFom" /\ "AoaSupport" \in DOMAIN found
                       -> ReadMerit(found["AoaSupport"].value)
                  [] OTHER -> DefaultCapability[t]
           made == [t \in D |-> V(t)]
<1>1. FromOobDataObject(o)
        = IF \/ o.tag # <<163>>
             \/ \E i \in DOMAIN o.values : Len(o.values[i].tag) # 1
             \/ \E t \in DOMAIN found : Len(found[t].value) # CapabilityWidth(t)
          THEN {} ELSE {made}
  BY Zenon DEF FromOobDataObject, FoundKept, ReadValue, ReadMerit
<1>2. /\ o.tag = <<163>>
      /\ \A i \in DOMAIN o.values : Len(o.values[i].tag) = 1
      /\ Finds(found, DOMAIN CapabilityTag, bytes)
  BY CapabilityObject
<1>3. /\ \A t \in DOMAIN CapabilityTag :
           Len(bytes[t]) = CapabilityWidth(t) /\ ReadValue(t, bytes[t]) = c[t]
      /\ ReadMerit(bytes["AoaSupport"]) = c.AngleOfArrivalFom
  BY CapabilityBytesAre
<1> HIDE DEF o, bytes, found, D
<1>4. DOMAIN found = DOMAIN CapabilityTag
      /\ \A t \in DOMAIN CapabilityTag : found[t].value = bytes[t]
  BY <1>2 DEF Finds
<1>5. FromOobDataObject(o) = {made}
  <2>1. ~ \E t \in DOMAIN found : Len(found[t].value) # CapabilityWidth(t)
    BY <1>3, <1>4
  <2>2. QED
    BY <1>1, <1>2, <2>1, Zenon
<1>6. c = [t \in D |-> c[t]]
  BY Zenon DEF IsCapability, D
<1>7. ASSUME NEW t \in D PROVE V(t) = c[t]
  <2>1. CASE t \in DOMAIN CapabilityTag
    <3>1. t # "AngleOfArrivalFom"
      BY <2>1, CapabilityNames
    <3>2. V(t) = ReadValue(t, found[t].value)
      BY <1>4, <2>1, <3>1, Zenon
    <3>3. QED
      BY <1>3, <1>4, <2>1, <3>2
  <2>2. CASE t = "AngleOfArrivalFom"
    <3>1. t \notin DOMAIN found /\ "AoaSupport" \in DOMAIN CapabilityTag
      BY <1>4, <2>2, CapabilityTagNumbers
    <3>2. V(t) = ReadMerit(found["AoaSupport"].value)
      BY <1>4, <2>2, <3>1, Zenon
    <3>3. QED
      BY <1>3, <1>4, <2>2, <3>1, <3>2
  <2>3. QED
    BY <2>1, <2>2, CapabilityNames DEF D
<1> HIDE DEF V
<1>8. made = c
  BY <1>6, <1>7, Zenon
<1>9. QED
  BY <1>5, <1>8, Zenon DEF o
-----------------------------------------------------------------------------
(* What a driver reports is a capability.                                  *)

DefaultOnes == {"BlockStriding", "HoppingMode"}
DefaultZeros ==
    {"FiraPhyVersionRange", "FiraMacVersionRange", "ExtendedMacAddress", "UwbInitiationTime",
     "AngleOfArrivalFom"}

DefaultSome == {"MultiNodeMode", "RFrameConfig", "RangingMode", "ScheduledMode"}
LEMMA DefaultValues ==
    /\ DefaultCapability = [t \in DOMAIN DefaultCapability |-> DefaultCapability[t]]
    /\ \A t \in DefaultOnes : DefaultCapability[t] = 1
    /\ \A t \in DefaultZeros : DefaultCapability[t] = 0
    /\ DefaultCapability["MultiNodeMode"] = {"Unicast", "OneToMany"}
    /\ DefaultCapability["RFrameConfig"] = {"SP1", "SP3"}
    /\ DefaultCapability["RangingMode"] = {"Block"}
    /\ DefaultCapability["ScheduledMode"] = {"Time"}
    /\ \A t \in DOMAIN DefaultCapability \ (DefaultOnes \cup DefaultZeros \cup DefaultSome) :
         DefaultCapability[t] = DOMAIN Bit[t]
<1> DEFINE D == DOMAIN CapabilityTag \cup {"AngleOfArrivalFom"}
           V(t) == CASE t = "MultiNodeMode" -> {"Unicast", "OneToMany"}
                     [] t = "RFrameConfig" -> {"SP1", "SP3"}
                     [] t = "RangingMode" -> {"Block"}
                     [] t = "ScheduledMode" -> {"Time"}
                     [] t \in {"BlockStriding", "HoppingMode"} -> 1
                     [] t \in {"FiraPhyVersionRange", "FiraMacVersionRange", "ExtendedMacAddress",
                               "UwbInitiationTime", "AngleOfArrivalFom"} -> 0
                     [] OTHER -> DOMAIN Bit[t]
<1>1. DefaultCapability = [t \in D |-> V(t)]
  BY Zenon DEF DefaultCapability
<1>2. DOMAIN DefaultCapability = D
  BY <1>1, Zenon
<1>3. DefaultOnes \cup DefaultZeros \cup DefaultSome \subseteq D
  BY CapabilityTagNumbers DEF DefaultOnes, DefaultZeros, DefaultSome
<1>4. \A t \in DefaultOnes : V(t) = 1
  BY Zenon DEF DefaultOnes
<1>5. \A t \in DefaultZeros : V(t) = 0
  BY Zenon DEF DefaultZeros
<1>6. V("MultiNodeMode") = {"Unicast", "OneToMany"}
  BY Zenon
<1>7. V("RFrameConfig") = {"SP1", "SP3"}
  BY Zenon
<1>8. V("RangingMode") = {"Block"}
  BY Zenon
<1>9. V("ScheduledMode") = {"Time"}
  BY Zenon
<1>10. ASSUME NEW t, t \notin DefaultOnes \cup DefaultZeros \cup DefaultSome
       PROVE  V(t) = DOMAIN Bit[t]
  <2>1. /\ t # "MultiNodeMode" /\ t # "RFrameConfig" /\ t # "RangingMode" /\ t # "ScheduledMode"
        /\ t \notin {"BlockStriding", "HoppingMode"}
        /\ t \notin {"FiraPhyVersionRange", "FiraMacVersionRange", "ExtendedMacAddress",
                     "UwbInitiationTime", "AngleOfArrivalFom"}
    BY <1>10 DEF DefaultOnes, DefaultZeros, DefaultSome
  <2>2. QED
    BY <2>1, Zenon
<1>11. "MultiNodeMode" \in D /\ "RFrameConfig" \in D /\ "RangingMode" \in D /\ "ScheduledMode" \in D
  BY <1>3 DEF DefaultSome
<1> HIDE DEF V, D
<1>12. \A t \in D : DefaultCapability[t] = V(t)
  BY <1>1, Zenon
<1>13. [t \in D |-> V(t)] = [t \in D |-> DefaultCapability[t]]
  BY <1>12, Zenon
<1>14. DefaultCapability = [t \in DOMAIN DefaultCapability |-> DefaultCapability[t]]
  BY <1>1, <1>2, <1>13, Zenon
<1>15. QED
  BY <1>2, <1>3, <1>4, <1>5, <1>6, <1>7, <1>8, <1>9, <1>10, <1>11, <1>12, <1>14

LEMMA DefaultIsCapability == IsCapability(DefaultCapability)
<1>1. ASSUME NEW t \in DOMAIN Bit PROVE DefaultCapability[t] \subseteq DOMAIN Bit[t]
  <2>1. t \in DOMAIN DefaultCapability \ (DefaultOnes \cup DefaultZeros)
    BY <1>1, CapabilityNames, BitNames DEF DefaultOnes, DefaultZeros
  <2>2. CASE t \notin DefaultSome
    BY <2>1, <2>2, DefaultValues
  <2>3. CASE t = "MultiNodeMode"
    BY <2>3, DefaultValues DEF Bit
  <2>4. CASE t = "RFrameConfig"
    BY <2>4, DefaultValues DEF Bit
  <2>5. CASE t = "RangingMode"
    BY <2>5, DefaultValues DEF Bit
  <2>6. CASE t = "ScheduledMode"
    BY <2>6, DefaultValues DEF Bit
  <2>7. QED
    BY <2>2, <2>3, <2>4, <2>5, <2>6 DEF DefaultSome
<1>2. ASSUME NEW t \in DOMAIN DefaultCapability \ DOMAIN Bit
      PROVE  IF CapabilityWidth(t) = 4 THEN WithinBytes(DefaultCapability[t], 4)
             ELSE DefaultCapability[t] \in {0, 1}
  <2>1. t \in DefaultOnes \cup DefaultZeros
    BY CapabilityNames, CapabilityTagNumbers, BitNames DEF DefaultOnes, DefaultZeros
  <2>2. DefaultCapability[t] \in {0, 1}
    BY <2>1, DefaultValues
  <2>3. WithinBytes(DefaultCapability[t], 4)
    BY <2>2 DEF WithinBytes
  <2>4. QED
    BY <2>2, <2>3
<1>3. QED
  BY <1>1, <1>2, DefaultValues DEF IsCapability

\* Another value of a capability.
LEMMA OtherValue ==
    ASSUME NEW c, IsCapability(c), NEW t \in DOMAIN DefaultCapability, NEW value,
           t \in DOMAIN Bit => value \subseteq DOMAIN Bit[t],
           t \notin DOMAIN Bit =>
             IF CapabilityWidth(t) = 4 THEN WithinBytes(value, 4) ELSE value \in {0, 1}
    PROVE  IsCapability([c EXCEPT ![t] = value])
<1> DEFINE D == DOMAIN DefaultCapability
           f == [c EXCEPT ![t] = value]
<1>1. c = [s \in D |-> c[s]]
  BY Zenon DEF IsCapability
<1>2. DOMAIN c = D
  BY <1>1, Zenon
<1>3. f[t] = value /\ \A s \in D \ {t} : f[s] = c[s]
  BY <1>2
<1>4. f = [s \in D |-> f[s]]
  BY <1>2
<1>5. DOMAIN Bit \subseteq D
  BY CapabilityNames
<1> HIDE DEF f
<1>6. QED
  BY <1>3, <1>4, <1>5 DEF IsCapability, f

LEMMA ReportedNames ==
    \A type \in DOMAIN CapabilityOf : CapabilityOf[type] \in DOMAIN CapabilityTag
BY CapabilityTagNumbers DEF CapabilityOf

LEMMA ReportKeeps ==
    ASSUME NEW c, IsCapability(c), NEW type, NEW value, WithinBytes(value, 4)
    PROVE  IsCapability(ToCapability(c, type, value))
<1> DEFINE t == CapabilityOf[type]
           fom == "AngleOfArrivalFom"
           D == DOMAIN DefaultCapability
           merit == IF t = "AoaSupport" THEN (value \div 2 ^ AngleOfArrivalFomBit) % 2 ELSE c[fom]
           sets == [c EXCEPT ![t] = @ \cup AssignValuesFromBytes(t, <<value % 256>>),
                             !.AngleOfArrivalFom = IF t = "AoaSupport"
                                         THEN (value \div 2 ^ AngleOfArrivalFomBit) % 2 ELSE @]
<1>1. value \in Nat
  BY DEF WithinBytes
<1>2. c = [s \in D |-> c[s]]
  BY Zenon DEF IsCapability
<1>3. fom \in D \ DOMAIN Bit /\ CapabilityWidth(fom) # 4
  BY CapabilityNames, CapabilityWidths DEF Versions4
<1>4. c[fom] \in {0, 1}
  BY <1>3 DEF IsCapability
<1>5. CASE type \notin DOMAIN CapabilityOf
  BY <1>5, Zenon DEF ToCapability
<1>6. ASSUME type \in DOMAIN CapabilityOf, t \in DOMAIN Bit PROVE IsCapability(ToCapability(c, type, value))
  <2> DEFINE more == AssignValuesFromBytes(t, <<value % 256>>)
             first == [c EXCEPT ![t] = @ \cup more]
             second == [first EXCEPT ![fom] = merit]
  <2>1. ToCapability(c, type, value) = sets
    BY <1>6, Zenon DEF ToCapability
  <2>2. t \in D /\ t # fom
    BY <1>6, CapabilityNames
  <2>3. more \subseteq DOMAIN Bit[t]
    BY DEF AssignValuesFromBytes
  <2>4. c[t] \subseteq DOMAIN Bit[t]
    BY <1>6 DEF IsCapability
  <2>5. merit \in {0, 1}
    <3>1. 2 ^ AngleOfArrivalFomBit = 8
      BY PowersOfTwo DEF AngleOfArrivalFomBit
    <3>2. (value \div 8) % 2 \in {0, 1}
      BY <1>1
    <3>3. QED
      BY <1>4, <3>1, <3>2
  <2> HIDE DEF t, fom, D, more, merit
  <2>6. IsCapability(first)
    <3>1. c[t] \cup more \subseteq DOMAIN Bit[t]
      BY <2>3, <2>4
    <3>2. QED
      BY <1>6, <2>2, <3>1, OtherValue, Zenon DEF D
  <2> HIDE DEF first
  <2>7. IsCapability(second)
    BY <1>3, <2>5, <2>6, OtherValue, Zenon DEF D
  <2>8. sets = second
    BY <1>2, <2>2 DEF first, fom, merit, more
  <2>9. QED
    BY <2>1, <2>7, <2>8
<1>7. ASSUME type \in DOMAIN CapabilityOf, t \notin DOMAIN Bit PROVE IsCapability(ToCapability(c, type, value))
  <2>1. t \in D
    BY <1>7, CapabilityNames, ReportedNames
  <2>2. PICK x : ToCapability(c, type, value) = [c EXCEPT ![t] = x]
                 /\ IF CapabilityWidth(t) = 4 THEN WithinBytes(x, 4) ELSE x \in {0, 1}
    <3>1. CASE CapabilityWidth(t) = 4
      BY <1>7, <3>1, Zenon DEF ToCapability
    <3>2. CASE CapabilityWidth(t) # 4 /\ type \in SingleBits
      <4>1. value % 2 \in {0, 1}
        BY <1>1
      <4>2. ToCapability(c, type, value) = [c EXCEPT ![t] = value % 2]
        BY <1>7, <3>2, Zenon DEF ToCapability
      <4>3. QED
        BY <3>2, <4>1, <4>2, Zenon
    <3>3. CASE CapabilityWidth(t) # 4 /\ type \notin SingleBits
      <4>1. (IF value % 256 # 0 THEN 1 ELSE 0) \in {0, 1}
        OBVIOUS
      <4>2. ToCapability(c, type, value) = [c EXCEPT ![t] = IF value % 256 # 0 THEN 1 ELSE 0]
        BY <1>7, <3>3, Zenon DEF ToCapability
      <4>3. QED
        BY <3>3, <4>1, <4>2, Zenon
    <3>4. QED
      BY <3>1, <3>2, <3>3
  <2>3. IsCapability([c EXCEPT ![t] = x])
    BY <1>7, <2>1, <2>2, OtherValue, Zenon
  <2>4. QED
    BY <2>2, <2>3
<1>8. QED
  BY <1>5, <1>6, <1>7

\* The capabilities that there are.
Capability ==
    {c \in [DOMAIN DefaultCapability -> Nat \cup UNION {SUBSET (DOMAIN Bit[t]) : t \in DOMAIN Bit}] :
        IsCapability(c)}

LEMMA CapabilityElements == \A c : c \in Capability <=> IsCapability(c)
<1> DEFINE V == Nat \cup UNION {SUBSET (DOMAIN Bit[t]) : t \in DOMAIN Bit}
           D == DOMAIN DefaultCapability
<1>1. ASSUME NEW c, IsCapability(c) PROVE c \in [D -> V]
  <2>1. c = [t \in D |-> c[t]]
    BY <1>1, Zenon DEF IsCapability
  <2>2. ASSUME NEW t \in D PROVE c[t] \in V
    <3>1. CASE t \in DOMAIN Bit
      <4>1. c[t] \in SUBSET (DOMAIN Bit[t])
        BY <1>1, <3>1 DEF IsCapability
      <4>2. QED
        BY <3>1, <4>1, Zenon
    <3>2. CASE t \notin DOMAIN Bit
      <4>1. c[t] \in Nat
        BY <1>1, <3>2 DEF IsCapability, WithinBytes
      <4>2. QED
        BY <4>1
    <3>3. QED
      BY <3>1, <3>2
  <2>3. QED
    BY <2>1, <2>2, Zenon
<1>2. QED
  BY <1>1, Zenon DEF Capability

LEMMA ReportIsCapability ==
    ASSUME NEW reported, IsReport(reported), NEW c \in ToCapabilities(reported)
    PROVE  IsCapability(c)
<1> DEFINE n == Len(reported)
           step == [x \in Capability \X (1 .. n) |->
                       ToCapability(x[1], reported[x[2]].type, reported[x[2]].value)]
           Is(f) == f = [i \in 0 .. n |-> IF i = 0 THEN DefaultCapability
                            ELSE ToCapability(f[i - 1], reported[i].type, reported[i].value)]
           after == CHOOSE f : Is(f)
<1>1. n \in Nat /\ DOMAIN reported = 1 .. n /\ \A i \in 1 .. n : WithinBytes(reported[i].value, 4)
  BY DEF IsReport
<1>2. c = after[n]
  BY Zenon DEF ToCapabilities
<1> HIDE DEF n
<1>3. step \in [Capability \X (1 .. n) -> Capability]
  <2>1. ASSUME NEW x \in Capability \X (1 .. n)
        PROVE  ToCapability(x[1], reported[x[2]].type, reported[x[2]].value) \in Capability
    <3>1. IsCapability(x[1]) /\ x[2] \in 1 .. n
      BY CapabilityElements
    <3>2. QED
      BY <1>1, <3>1, ReportKeeps, CapabilityElements
  <2>2. QED
    BY <2>1
<1>4. DefaultCapability \in Capability
  BY DefaultIsCapability, CapabilityElements
<1>5. PICK f \in [0 .. n -> Capability] : Recurs(f, DefaultCapability, step, n)
  BY <1>1, <1>3, <1>4, Recursion
<1>6. Is(f)
  <2>1. \A i \in 1 .. n : step[<<f[i - 1], i>>]
          = ToCapability(f[i - 1], reported[i].type, reported[i].value)
    <3>1. ASSUME NEW i \in 1 .. n PROVE f[i - 1] \in Capability
      <4>1. i - 1 \in 0 .. n
        BY <1>1
      <4>2. QED
        BY <1>5, <4>1
    <3>2. QED
      BY <3>1
  <2> DEFINE next(i) == ToCapability(f[i - 1], reported[i].type, reported[i].value)
  <2>2. f[0] = DefaultCapability /\ \A i \in 1 .. n : f[i] = next(i)
    BY <1>5, <2>1 DEF Recurs
  <2>3. \A i \in 0 .. n : i # 0 => i \in 1 .. n
    BY <1>1
  <2>4. f = [i \in 0 .. n |-> f[i]]
    BY <1>5
  <2> HIDE DEF next
  <2>5. [i \in 0 .. n |-> f[i]] = [i \in 0 .. n |-> IF i = 0 THEN DefaultCapability ELSE next(i)]
    BY <2>2, <2>3, Zenon
  <2>6. QED
    BY <2>4, <2>5, Zenon DEF next
<1>7. Is(after)
  BY <1>6, Zenon
<1> HIDE DEF after
<1>8. after[0] = DefaultCapability
      /\ \A i \in 1 .. n : after[i] = ToCapability(after[i - 1], reported[i].type, reported[i].value)
  BY <1>1, <1>7
<1> DEFINE I == {i \in 0 .. n : IsCapability(after[i])}
<1>9. 0 \in I
  BY <1>1, <1>8, DefaultIsCapability
<1>10. ASSUME NEW i \in 1 .. n, i - 1 \in I PROVE i \in I
  BY <1>1, <1>8, <1>10, ReportKeeps
<1>11. \A i \in 0 .. n : i \in I
  <2> HIDE DEF I
  <2> QED
    BY <1>1, <1>9, <1>10, IndexInduction
<1>12. n \in I
  BY <1>1, <1>11
<1>13. QED
  BY <1>2, <1>12

===============================================================================
