---------------------- MODULE NearObjectSession_proofs ----------------------
(***************************************************************************)
(* Theorems about the two stores of this layer's objects.                  *)
(*                                                                         *)
(* A NearObjectSession: what its client is told, and that it is told       *)
(* before the session is gone, for any clients, objects and lists of       *)
(* objects and any number of events.                                       *)
(*                                                                         *)
(* What an event carries does not matter to the destruction, so there the  *)
(* queue's sequences are typed by their own elements.  It is all that      *)
(* matters to the streams: Only and Followed are recursive functions, and  *)
(* what each computes for one more element is proved first.                *)
(*                                                                         *)
(* A ProfileStore: what a call of its own has persisted stays in every     *)
(* list that can be read, and a file that cannot be read stays so, for any *)
(* callers, profiles, number of calls and number of deaths of the process. *)
(***************************************************************************)
EXTENDS NearObjectSession, ProfileStore, SequenceTheorems, FiniteSetTheorems,
        WellFoundedInduction, TLAPS

IsSequence(s) == s \in Seq(ToSet(s))

-----------------------------------------------------------------------------
(* Facts about sequences.                                                  *)

LEMMA IsSequenceOf == ASSUME NEW X, NEW s \in Seq(X) PROVE IsSequence(s)
<1>1. s \in Seq(Range(s))
  BY SeqOfRange
<1>2. QED
  BY ONLY <1>1 DEF IsSequence, ToSet, Range

LEMMA ToSetOfAppend ==
    ASSUME NEW s, IsSequence(s), NEW e
    PROVE  IsSequence(Append(s, e)) /\ ToSet(Append(s, e)) = ToSet(s) \cup {e}
<1> DEFINE S == ToSet(s) \cup {e}
<1>1. s \in Seq(S)
  BY SeqMonotonic, ToSet(s) \subseteq S DEF IsSequence
<1>2. /\ Append(s, e) \in Seq(S)
      /\ Len(Append(s, e)) = Len(s) + 1
      /\ \A i \in 1..Len(s) : Append(s, e)[i] = s[i]
      /\ Append(s, e)[Len(s) + 1] = e
  BY <1>1, AppendProperties
<1>3. /\ Len(s) \in Nat /\ DOMAIN s = 1..Len(s)
      /\ DOMAIN Append(s, e) = 1..(Len(s) + 1)
  BY <1>1, <1>2, LenProperties
<1>4. ASSUME NEW x \in ToSet(s) \cup {e}
      PROVE  x \in ToSet(Append(s, e))
  <2>1. CASE x \in ToSet(s)
    <3>1. PICK i \in 1..Len(s) : x = s[i]
      BY <1>3, <2>1 DEF ToSet
    <3>2. i \in 1..(Len(s) + 1) /\ Append(s, e)[i] = x
      BY <1>2, <1>3, <3>1
    <3>3. QED
      BY <1>3, <3>2 DEF ToSet
  <2>2. CASE x = e
    <3>1. Len(s) + 1 \in 1..(Len(s) + 1)
      BY <1>3
    <3>2. QED
      BY <1>2, <1>3, <2>2, <3>1 DEF ToSet
  <2>3. QED
    BY <1>4, <2>1, <2>2
<1>5. ASSUME NEW x \in ToSet(Append(s, e))
      PROVE  x \in ToSet(s) \cup {e}
  BY <1>2, <1>3, <1>5, ElementOfSeq DEF ToSet
<1>6. ToSet(Append(s, e)) = S
  BY <1>4, <1>5
<1>7. QED
  BY <1>2, <1>6 DEF IsSequence

LEMMA ToSetOfTail ==
    ASSUME NEW s, IsSequence(s), s # <<>>
    PROVE  IsSequence(Tail(s)) /\ ToSet(s) = ToSet(Tail(s)) \cup {Head(s)}
<1>1. /\ Tail(s) \in Seq(ToSet(s))
      /\ Len(Tail(s)) = Len(s) - 1
      /\ \A i \in 1..Len(Tail(s)) : Tail(s)[i] = s[i + 1]
      /\ Head(s) = s[1]
  BY HeadTailProperties DEF IsSequence
<1>2. /\ Len(s) \in Nat /\ Len(s) > 0 /\ DOMAIN s = 1..Len(s)
      /\ DOMAIN Tail(s) = 1..(Len(s) - 1)
  BY <1>1, LenProperties, EmptySeq DEF IsSequence
<1>3. ASSUME NEW x \in ToSet(s)
      PROVE  x \in ToSet(Tail(s)) \cup {Head(s)}
  <2>1. PICK i \in 1..Len(s) : x = s[i]
    BY <1>2, <1>3 DEF ToSet
  <2>2. CASE i = 1
    BY <1>1, <2>1, <2>2
  <2>3. CASE i # 1
    <3>1. i - 1 \in 1..(Len(s) - 1) /\ Tail(s)[i - 1] = x
      BY <1>1, <1>2, <2>1, <2>3
    <3>2. QED
      BY <1>2, <3>1 DEF ToSet
  <2>4. QED
    BY <2>2, <2>3
<1>4. ASSUME NEW x \in ToSet(Tail(s)) \cup {Head(s)}
      PROVE  x \in ToSet(s)
  <2>1. CASE x = Head(s)
    BY <1>1, <1>2, <2>1 DEF ToSet
  <2>2. CASE x \in ToSet(Tail(s))
    <3>1. PICK i \in 1..(Len(s) - 1) : x = Tail(s)[i]
      BY <1>2, <2>2 DEF ToSet
    <3>2. i + 1 \in 1..Len(s) /\ s[i + 1] = x
      BY <1>1, <1>2, <3>1
    <3>3. QED
      BY <1>2, <3>2 DEF ToSet
  <2>3. QED
    BY <1>4, <2>1, <2>2
<1>5. IsSequence(Tail(s))
  BY <1>1, IsSequenceOf
<1>6. QED
  BY <1>3, <1>4, <1>5

LEMMA AppendToConcat ==
    ASSUME NEW S, NEW s \in Seq(S), NEW t \in Seq(S), NEW e \in S
    PROVE  s \o Append(t, e) = Append(s \o t, e)
<1>1. <<e>> \in Seq(S) /\ s \o t \in Seq(S)
  BY ConcatProperties
<1>2. /\ Append(t, e) = t \o <<e>>
      /\ Append(s \o t, e) = (s \o t) \o <<e>>
  BY <1>1, AppendIsConcat
<1>3. QED
  BY <1>1, <1>2, ConcatAssociative

\* Moving the head of one sequence to the end of another.
LEMMA MoveHead ==
    ASSUME NEW S, NEW s \in Seq(S), NEW t \in Seq(S), t # <<>>
    PROVE  /\ Head(t) \in S
           /\ Tail(t) \in Seq(S)
           /\ Append(s, Head(t)) \o Tail(t) = s \o t
<1>1. Head(t) \in S /\ Tail(t) \in Seq(S)
  BY HeadTailProperties
<1>2. <<Head(t)>> \in Seq(S)
  BY <1>1
<1>3. t = <<Head(t)>> \o Tail(t)
  <2>1. Len(t) \in Nat \ {0}
    BY EmptySeq
  <2>2. /\ <<Head(t)>> \o Tail(t) \in Seq(S)
        /\ Len(<<Head(t)>> \o Tail(t)) = Len(t)
        /\ \A i \in 1..Len(t) : (<<Head(t)>> \o Tail(t))[i] = t[i]
    <3>1. /\ Len(Tail(t)) = Len(t) - 1
          /\ \A i \in 1..Len(Tail(t)) : Tail(t)[i] = t[i + 1]
      BY HeadTailProperties
    <3>2. Len(<<Head(t)>>) = 1 /\ <<Head(t)>>[1] = t[1]
      BY <2>1
    <3>3. /\ <<Head(t)>> \o Tail(t) \in Seq(S)
          /\ Len(<<Head(t)>> \o Tail(t)) = 1 + Len(Tail(t))
          /\ \A i \in 1..(1 + Len(Tail(t))) : (<<Head(t)>> \o Tail(t))[i] =
                IF i <= 1 THEN <<Head(t)>>[i] ELSE Tail(t)[i - 1]
      BY <1>1, <1>2, <3>2, ConcatProperties
    <3>4. QED
      BY <2>1, <3>1, <3>2, <3>3
  <2>3. QED
    BY <2>2, SeqEqual
<1>4. Append(s, Head(t)) = s \o <<Head(t)>>
  BY <1>1, AppendIsConcat
<1>5. QED
  BY <1>1, <1>2, <1>3, <1>4, ConcatAssociative

-----------------------------------------------------------------------------
(* Recursive functions of an index.  The library's induction theorems take *)
(* operators; a set of indexes takes the place of a property here.         *)

LEMMA IndexInduction ==
    ASSUME NEW n \in Nat, NEW I, 0 \in I, \A i \in 1 .. n : i - 1 \in I => i \in I
    PROVE  \A i \in 0 .. n : i \in I
<1> DEFINE R == {p \in Nat \X Nat : p[1] < p[2]}
           J == (0 .. n) \ I
<1> SUFFICES ASSUME J # {} PROVE FALSE
  OBVIOUS
<1>1. IsWellFoundedOn(R, Nat)
  BY NatLessThanWellFounded DEF OpToRel
<1>2. PICK x \in J : \A y \in J : ~ (<<y, x>> \in R)
  <2>1. J \subseteq Nat
    OBVIOUS
  <2> HIDE DEF R, J
  <2> QED
    BY <1>1, <2>1, WFMin
<1>3. x \in 0 .. n /\ x \notin I
  OBVIOUS
<1>4. x \in 1 .. n
  BY <1>3
<1>5. <<x - 1, x>> \in R /\ x - 1 \in 0 .. n
  BY <1>4
<1>6. x - 1 \in I
  <2> HIDE DEF R
  <2> QED
    BY <1>2, <1>5
<1>7. QED
  BY <1>3, <1>4, <1>6

\* Two functions that start alike and go on alike agree.
LEMMA Agreement ==
    ASSUME NEW n \in Nat, NEW f, NEW g, f[0] = g[0],
           \A i \in 1 .. n : f[i - 1] = g[i - 1] => f[i] = g[i]
    PROVE  \A i \in 0 .. n : f[i] = g[i]
<1> DEFINE I == {i \in 0 .. n : f[i] = g[i]}
<1>1. 0 \in I
  OBVIOUS
<1>2. ASSUME NEW i \in 1 .. n, i - 1 \in I PROVE i \in I
  BY <1>2
<1> HIDE DEF I
<1>3. \A i \in 0 .. n : i \in I
  BY <1>1, <1>2, IndexInduction
<1>4. QED
  BY <1>3 DEF I

\* f is the function that starts at b and goes on by step, as far as n ...
Recurs(f, b, step, n) ==
    f[0] = b /\ \A i \in 1 .. n : f[i] = step[<<f[i - 1], i>>]

\* ... and there is one.
LEMMA Recursion ==
    ASSUME NEW S, NEW b \in S, NEW n \in Nat, NEW step \in [S \X (1 .. n) -> S]
    PROVE  \E f \in [0 .. n -> S] : Recurs(f, b, step, n)
<1> DEFINE I == {k \in 0 .. n : \E f \in [0 .. k -> S] : Recurs(f, b, step, k)}
<1>1. 0 \in I
  <2>1. /\ [j \in 0 .. 0 |-> b] \in [0 .. 0 -> S]
        /\ Recurs([j \in 0 .. 0 |-> b], b, step, 0)
    BY DEF Recurs
  <2>2. QED
    BY <2>1
<1>2. ASSUME NEW k \in 1 .. n, k - 1 \in I PROVE k \in I
  <2>1. PICK f \in [0 .. k - 1 -> S] : Recurs(f, b, step, k - 1)
    BY <1>2
  <2> DEFINE g == [j \in 0 .. k |-> IF j = k THEN step[<<f[k - 1], k>>] ELSE f[j]]
  <2>2. f[k - 1] \in S /\ step[<<f[k - 1], k>>] \in S
    BY <2>1
  <2>3. g \in [0 .. k -> S]
    BY <2>1, <2>2
  <2>4. g[0] = b
    BY <2>1 DEF Recurs
  <2>5. ASSUME NEW i \in 1 .. k PROVE g[i] = step[<<g[i - 1], i>>]
    <3>1. CASE i = k
      <4>1. k \in 0 .. k /\ k - 1 \in 0 .. k /\ k - 1 # k
        OBVIOUS
      <4>2. g[k] = step[<<f[k - 1], k>>] /\ g[k - 1] = f[k - 1]
        BY <4>1
      <4>3. QED
        BY <3>1, <4>2
    <3>2. CASE i # k
      <4>1. i \in 1 .. k - 1 /\ g[i] = f[i] /\ g[i - 1] = f[i - 1]
        BY <3>2
      <4>2. QED
        BY <2>1, <4>1 DEF Recurs
    <3>3. QED
      BY <3>1, <3>2
  <2>6. Recurs(g, b, step, k)
    BY <2>4, <2>5 DEF Recurs
  <2>7. k \in 0 .. n
    OBVIOUS
  <2>8. QED
    BY <2>3, <2>6, <2>7
<1> HIDE DEF I
<1>3. n \in I
  BY <1>1, <1>2, IndexInduction
<1>4. QED
  BY <1>3 DEF I

-----------------------------------------------------------------------------
(* What Only and Followed compute.                                         *)

\* Index by index, F is what is kept of s so far.
Keeps(F, s, T) ==
    /\ F[0] = <<>>
    /\ \A i \in 1 .. Len(s) :
          F[i] = IF s[i] \in T THEN Append(F[i - 1], s[i]) ELSE F[i - 1]

LEMMA KeepsOnce ==
    ASSUME NEW X, NEW s \in Seq(X), NEW T, NEW F, NEW G, Keeps(F, s, T), Keeps(G, s, T)
    PROVE  F[Len(s)] = G[Len(s)]
<1>1. Len(s) \in Nat /\ Len(s) \in 0 .. Len(s)
  BY LenProperties
<1>2. F[0] = G[0] /\ \A i \in 1 .. Len(s) : F[i - 1] = G[i - 1] => F[i] = G[i]
  BY DEF Keeps
<1>3. QED
  BY <1>1, <1>2, Agreement

LEMMA OnlyIs ==
    ASSUME NEW X, NEW s \in Seq(X), NEW T
    PROVE  \E F \in [0 .. Len(s) -> Seq(X)] : Keeps(F, s, T) /\ Only(s, T) = F[Len(s)]
<1> DEFINE n == Len(s)
           Kept(F) == F = [i \in 0 .. n |->
                              IF i = 0 THEN <<>>
                              ELSE IF s[i] \in T THEN Append(F[i - 1], s[i]) ELSE F[i - 1]]
           step == [p \in Seq(X) \X (1 .. n) |->
                        IF s[p[2]] \in T THEN Append(p[1], s[p[2]]) ELSE p[1]]
<1>1. n \in Nat /\ \A i \in 1 .. n : s[i] \in X
  BY LenProperties, ElementOfSeq
<1>2. step \in [Seq(X) \X (1 .. n) -> Seq(X)]
  BY <1>1, AppendProperties
<1>3. \A q \in Seq(X), i \in 1 .. n :
          step[<<q, i>>] = IF s[i] \in T THEN Append(q, s[i]) ELSE q
  OBVIOUS
<1>4. PICK G \in [0 .. n -> Seq(X)] : Recurs(G, <<>>, step, n)
  <2> DEFINE Q == Seq(X)
  <2>1. n \in Nat /\ <<>> \in Q /\ step \in [Q \X (1 .. n) -> Q]
    BY <1>1, <1>2, EmptySeq
  <2>2. \E G \in [0 .. n -> Q] : Recurs(G, <<>>, step, n)
    <3> HIDE DEF n, step, Q
    <3> QED
      BY ONLY <2>1, Recursion
  <2> QED
    BY <2>2
<1>5. \A i \in 1 .. n : i \in 0 .. n /\ i - 1 \in 0 .. n /\ i # 0
  BY <1>1
<1>6. Keeps(G, s, T)
  BY <1>3, <1>4, <1>5 DEF Keeps, Recurs
<1>7. Kept(G)
  <2>1. ASSUME NEW i \in 0 .. n, i # 0
        PROVE  G[i] = IF s[i] \in T THEN Append(G[i - 1], s[i]) ELSE G[i - 1]
    <3>1. i \in 1 .. Len(s)
      BY <1>1, <2>1
    <3>2. QED
      BY <1>6, <3>1 DEF Keeps
  <2>2. G[0] = <<>>
    BY <1>6 DEF Keeps
  <2>3. G = [i \in 0 .. n |-> G[i]]
    BY <1>4
  <2>4. QED
    BY <2>1, <2>2, <2>3
<1> DEFINE F == CHOOSE F : Kept(F)
<1>8. Kept(F) /\ Only(s, T) = F[n]
  BY <1>7 DEF Only
<1> HIDE DEF F
<1>9. Keeps(F, s, T)
  <2>1. F = [i \in 0 .. Len(s) |->
                IF i = 0 THEN <<>>
                ELSE IF s[i] \in T THEN Append(F[i - 1], s[i]) ELSE F[i - 1]]
    BY <1>8
  <2>2. 0 \in 0 .. Len(s) /\ \A i \in 1 .. Len(s) : i \in 0 .. Len(s) /\ i # 0
    BY <1>1, <1>5
  <2>3. QED
    BY <2>1, <2>2 DEF Keeps
<1>10. F[Len(s)] = G[Len(s)]
  BY <1>6, <1>9, KeepsOnce
<1>11. QED
  BY <1>4, <1>6, <1>8, <1>10

LEMMA OnlyFrom ==
    ASSUME NEW X, NEW s \in Seq(X), NEW T, NEW F, Keeps(F, s, T)
    PROVE  Only(s, T) = F[Len(s)]
<1>1. PICK G : Keeps(G, s, T) /\ Only(s, T) = G[Len(s)]
  BY OnlyIs
<1>2. QED
  BY <1>1, KeepsOnce

LEMMA OnlyEmpty == ASSUME NEW T PROVE Only(<<>>, T) = <<>>
<1>1. <<>> \in Seq({}) /\ Len(<<>>) = 0
  BY EmptySeq
<1>2. PICK F : Keeps(F, <<>>, T) /\ Only(<<>>, T) = F[Len(<<>>)]
  BY <1>1, OnlyIs
<1>3. QED
  BY <1>1, <1>2 DEF Keeps

LEMMA OnlyAppend ==
    ASSUME NEW X, NEW s \in Seq(X), NEW e \in X, NEW T
    PROVE  Only(Append(s, e), T) =
              IF e \in T THEN Append(Only(s, T), e) ELSE Only(s, T)
<1>1. /\ Append(s, e) \in Seq(X)
      /\ Len(Append(s, e)) = Len(s) + 1
      /\ Append(s, e)[Len(s) + 1] = e
      /\ \A i \in 1 .. Len(s) : Append(s, e)[i] = s[i]
  BY AppendProperties
<1>2. Len(s) \in Nat
  BY LenProperties
<1>3. PICK F : Keeps(F, Append(s, e), T) /\ Only(Append(s, e), T) = F[Len(s) + 1]
  <2>1. \E F : Keeps(F, Append(s, e), T) /\ Only(Append(s, e), T) = F[Len(Append(s, e))]
    BY <1>1, OnlyIs
  <2>2. QED
    BY <1>1, <2>1
<1>4. \A i \in 1 .. Len(s) : i \in 1 .. Len(s) + 1
  BY <1>2
<1>5. Keeps(F, s, T)
  BY <1>1, <1>3, <1>4 DEF Keeps
<1>6. Only(s, T) = F[Len(s)]
  BY <1>5, OnlyFrom
<1>7. Len(s) + 1 \in 1 .. Len(s) + 1 /\ Len(s) + 1 - 1 = Len(s)
  BY <1>2
<1>8. QED
  BY <1>1, <1>3, <1>6, <1>7 DEF Keeps

LEMMA OnlyType ==
    ASSUME NEW X, NEW s \in Seq(X), NEW T
    PROVE  Only(s, T) \in Seq(X)
<1>1. PICK F \in [0 .. Len(s) -> Seq(X)] : Only(s, T) = F[Len(s)]
  BY OnlyIs
<1>2. Len(s) \in 0 .. Len(s)
  BY LenProperties
<1>3. QED
  BY <1>1, <1>2

\* Sets that agree about the elements of s keep the same of them.
LEMMA OnlyCongruent ==
    ASSUME NEW X, NEW s \in Seq(X), NEW T, NEW U,
           \A i \in 1 .. Len(s) : s[i] \in T <=> s[i] \in U
    PROVE  Only(s, T) = Only(s, U)
<1>1. PICK F : Keeps(F, s, T) /\ Only(s, T) = F[Len(s)]
  BY OnlyIs
<1>2. Keeps(F, s, U)
  BY <1>1 DEF Keeps
<1>3. QED
  BY <1>1, <1>2, OnlyFrom

\* A set that holds all of them keeps the list as it is.
LEMMA OnlyAll ==
    ASSUME NEW X, NEW s \in Seq(X), NEW T, \A i \in 1 .. Len(s) : s[i] \in T
    PROVE  Only(s, T) = s
<1> DEFINE F == [i \in 0 .. Len(s) |-> SubSeq(s, 1, i)]
<1>1. Len(s) \in Nat
  BY LenProperties
<1>2. F[0] = <<>>
  <2>1. SubSeq(s, 1, 0) = <<>>
    BY SubSeqEmpty
  <2>2. QED
    BY <1>1, <2>1
<1>3. ASSUME NEW i \in 1 .. Len(s)
      PROVE  F[i] = Append(F[i - 1], s[i])
  <2>1. i \in 0 .. Len(s) /\ i - 1 \in 0 .. Len(s) /\ i - 1 + 1 = i
    BY <1>1
  <2>2. SubSeq(s, 1, i) = Append(SubSeq(s, 1, i - 1), s[i])
    <3>1. i - 1 \in 0 .. Len(s) /\ 1 \in 1 .. i - 1 + 1
      BY <1>1
    <3>2. QED
      OBVIOUS
  <2>3. QED
    BY <2>1, <2>2
<1>4. Keeps(F, s, T)
  <2> HIDE DEF F
  <2>1. QED
    BY <1>2, <1>3 DEF Keeps
<1>5. Only(s, T) = F[Len(s)]
  <2> HIDE DEF F
  <2>1. QED
    BY <1>4, OnlyFrom
<1>6. SubSeq(s, 1, Len(s)) = s
  BY SubSeqFull
<1>7. QED
  BY <1>1, <1>5, <1>6

\* What is kept are the elements that are in the set.
LEMMA OnlyMembers ==
    ASSUME NEW X, NEW s \in Seq(X), NEW T
    PROVE  ToSet(Only(s, T)) = ToSet(s) \cap T
<1>1. PICK F \in [0 .. Len(s) -> Seq(X)] : Keeps(F, s, T) /\ Only(s, T) = F[Len(s)]
  BY OnlyIs
<1>2. Len(s) \in Nat /\ Len(s) \in 0 .. Len(s) /\ DOMAIN s = 1 .. Len(s)
  BY LenProperties
<1> DEFINE I == {i \in 0 .. Len(s) :
                   ToSet(F[i]) = {x \in T : \E j \in 1 .. i : s[j] = x}}
<1>3. 0 \in I
  <2>1. ToSet(<<>>) = {}
    BY DEF ToSet
  <2>2. F[0] = <<>>
    BY <1>1 DEF Keeps
  <2>3. 0 \in 0 .. Len(s) /\ 1 .. 0 = {}
    BY <1>2
  <2>4. QED
    BY <2>1, <2>2, <2>3
<1>4. ASSUME NEW i \in 1 .. Len(s), i - 1 \in I PROVE i \in I
  <2>1. F[i] = IF s[i] \in T THEN Append(F[i - 1], s[i]) ELSE F[i - 1]
    BY <1>1 DEF Keeps
  <2>2. F[i - 1] \in Seq(X) /\ i \in 0 .. Len(s)
    BY <1>1, <1>2
  <2>3. ToSet(F[i]) = ToSet(F[i - 1]) \cup ({s[i]} \cap T)
    <3>1. CASE s[i] \in T
      <4>1. ToSet(Append(F[i - 1], s[i])) = ToSet(F[i - 1]) \cup {s[i]}
        BY <2>2, IsSequenceOf, ToSetOfAppend
      <4>2. QED
        BY <2>1, <3>1, <4>1
    <3>2. CASE s[i] \notin T
      BY <2>1, <3>2
    <3>3. QED
      BY <3>1, <3>2
  <2>4. ToSet(F[i - 1]) = {x \in T : \E j \in 1 .. i - 1 : s[j] = x}
    BY <1>4
  <2>5. \A j : j \in 1 .. i <=> j \in 1 .. i - 1 \/ j = i
    BY <1>2
  <2>6. ToSet(F[i]) = {x \in T : \E j \in 1 .. i : s[j] = x}
    BY <2>3, <2>4, <2>5
  <2>7. QED
    BY <2>2, <2>6
<1>5. Len(s) \in I
  <2> HIDE DEF I
  <2>1. \A i \in 0 .. Len(s) : i \in I
    BY <1>2, <1>3, <1>4, IndexInduction
  <2>2. QED
    BY <1>2, <2>1
<1>6. QED
  BY <1>1, <1>2, <1>5 DEF ToSet

\* The lists stay lists of objects.
LEMMA ReplayType ==
    ASSUME NEW m \in Seq(NearObject), NEW e \in Event
    PROVE  Replay(m, e) \in Seq(NearObject)
<1>1. CASE e.kind = "members"
  <2>1. e.added \in Seq(NearObject)
    BY <1>1 DEF Event, RangingStarted, RangingStopped, SessionEnded,
                PropertiesChanged, MembershipChanged
  <2>2. Only(m, NearObject \ ToSet(e.removed)) \in Seq(NearObject)
    BY OnlyType
  <2>3. QED
    BY <1>1, <2>1, <2>2, ConcatProperties DEF Replay
<1>2. CASE e.kind # "members"
  BY <1>2 DEF Replay
<1>3. QED
  BY <1>1, <1>2

\* Index by index, F is the list after so many of the events.
Follows(F, first, s) ==
    F[0] = first /\ \A i \in 1 .. Len(s) : F[i] = Replay(F[i - 1], s[i])

LEMMA FollowsOnce ==
    ASSUME NEW first, NEW s \in Seq(Event), NEW F, NEW G, Follows(F, first, s), Follows(G, first, s)
    PROVE  F[Len(s)] = G[Len(s)]
<1>1. Len(s) \in Nat /\ Len(s) \in 0 .. Len(s)
  BY LenProperties
<1>2. F[0] = G[0] /\ \A i \in 1 .. Len(s) : F[i - 1] = G[i - 1] => F[i] = G[i]
  BY DEF Follows
<1>3. QED
  BY <1>1, <1>2, Agreement

LEMMA FollowedIs ==
    ASSUME NEW first \in Seq(NearObject), NEW s \in Seq(Event)
    PROVE  \E F \in [0 .. Len(s) -> Seq(NearObject)] :
              Follows(F, first, s) /\ Followed(first, s) = F[Len(s)]
<1> DEFINE n == Len(s)
           Lists == Seq(NearObject)
           Member(F) == F = [i \in 0 .. n |-> IF i = 0 THEN first ELSE Replay(F[i - 1], s[i])]
           step == [p \in Lists \X (1 .. n) |-> Replay(p[1], s[p[2]])]
<1>1. n \in Nat /\ \A i \in 1 .. n : s[i] \in Event
  BY LenProperties, ElementOfSeq
<1>2. step \in [Lists \X (1 .. n) -> Lists]
  BY <1>1, ReplayType
<1>3. \A q \in Lists, i \in 1 .. n : step[<<q, i>>] = Replay(q, s[i])
  OBVIOUS
<1>4. PICK G \in [0 .. n -> Lists] : Recurs(G, first, step, n)
  <2>1. n \in Nat /\ first \in Lists
    BY <1>1
  <2>2. \E G \in [0 .. n -> Lists] : Recurs(G, first, step, n)
    <3> HIDE DEF n, step, Lists
    <3> QED
      BY ONLY <1>2, <2>1, Recursion
  <2> QED
    BY <2>2
<1>5. \A i \in 1 .. n : i \in 0 .. n /\ i - 1 \in 0 .. n /\ i # 0
  BY <1>1
<1>6. Follows(G, first, s)
  BY <1>3, <1>4, <1>5 DEF Follows, Recurs
<1>7. Member(G)
  <2>1. ASSUME NEW i \in 0 .. n, i # 0 PROVE G[i] = Replay(G[i - 1], s[i])
    <3>1. i \in 1 .. Len(s)
      BY <1>1, <2>1
    <3>2. QED
      BY <1>6, <3>1 DEF Follows
  <2>2. G[0] = first
    BY <1>6 DEF Follows
  <2>3. G = [i \in 0 .. n |-> G[i]]
    BY <1>4
  <2>4. QED
    BY <2>1, <2>2, <2>3
<1> DEFINE F == CHOOSE F : Member(F)
<1>8. Member(F) /\ Followed(first, s) = F[n]
  BY <1>7 DEF Followed
<1> HIDE DEF F
<1>9. Follows(F, first, s)
  <2>1. F = [i \in 0 .. Len(s) |-> IF i = 0 THEN first ELSE Replay(F[i - 1], s[i])]
    BY <1>8
  <2>2. 0 \in 0 .. Len(s) /\ \A i \in 1 .. Len(s) : i \in 0 .. Len(s) /\ i # 0
    BY <1>1, <1>5
  <2>3. QED
    BY <2>1, <2>2 DEF Follows
<1>10. F[Len(s)] = G[Len(s)]
  BY <1>6, <1>9, FollowsOnce
<1>11. QED
  BY <1>4, <1>6, <1>8, <1>10

LEMMA FollowedEmpty ==
    ASSUME NEW first \in Seq(NearObject)
    PROVE  Followed(first, <<>>) = first
<1>1. <<>> \in Seq(Event) /\ Len(<<>>) = 0
  BY EmptySeq
<1>2. PICK F : Follows(F, first, <<>>) /\ Followed(first, <<>>) = F[Len(<<>>)]
  BY <1>1, FollowedIs
<1>3. QED
  BY <1>1, <1>2 DEF Follows

\* One more event is one more step of the replay.
LEMMA FollowedAppend ==
    ASSUME NEW first \in Seq(NearObject), NEW s \in Seq(Event), NEW e \in Event
    PROVE  Followed(first, Append(s, e)) = Replay(Followed(first, s), e)
<1>1. /\ Append(s, e) \in Seq(Event)
      /\ Len(Append(s, e)) = Len(s) + 1
      /\ Append(s, e)[Len(s) + 1] = e
      /\ \A i \in 1 .. Len(s) : Append(s, e)[i] = s[i]
  BY AppendProperties
<1>2. Len(s) \in Nat
  BY LenProperties
<1>3. PICK F : Follows(F, first, Append(s, e)) /\ Followed(first, Append(s, e)) = F[Len(s) + 1]
  <2>1. \E F : Follows(F, first, Append(s, e)) /\ Followed(first, Append(s, e)) = F[Len(Append(s, e))]
    BY <1>1, FollowedIs
  <2>2. QED
    BY <1>1, <2>1
<1>4. \A i \in 1 .. Len(s) : i \in 1 .. Len(s) + 1
  BY <1>2
<1>5. Follows(F, first, s)
  BY <1>1, <1>3, <1>4 DEF Follows
<1>6. Followed(first, s) = F[Len(s)]
  BY <1>5, FollowedIs, FollowsOnce
<1>7. Len(s) + 1 \in 1 .. Len(s) + 1 /\ Len(s) + 1 - 1 = Len(s)
  BY <1>2
<1>8. QED
  BY <1>1, <1>3, <1>6, <1>7 DEF Follows

-----------------------------------------------------------------------------
(* The inductive invariant.                                                *)

QueueShape ==
    /\ IsSequence(pending) /\ IsSequence(started)
    /\ cancelled = FALSE
    /\ phase = "halted" => closed /\ pending = <<>>
    /\ inCallback => phase = "busy"

\* The destructor posts the last event before it stops the queue, and returns
\* only after the worker has halted.
Destruction ==
    /\ closed => life \in {"draining", "dead"}
    /\ life = "dead" => phase = "halted"
    /\ life \in {"closing", "draining", "dead"} =>
          SessionEnded \in ToSet(started) \cup ToSet(pending)

IInv == QueueShape /\ Destruction

LEMMA InitIInv == Init => IInv
<1>1. IsSequence(<<>>)
  BY EmptySeq DEF IsSequence
<1>2. QED
  BY <1>1 DEF Init, Queue!Init, IInv, QueueShape, Destruction

\* Posting keeps everything that was in the queue.
LEMMA InvokeKeeps ==
    ASSUME IInv, NEW e, InvokeEventCallback(e)
    PROVE  /\ IsSequence(pending') /\ IsSequence(started')
           /\ UNCHANGED <<started, phase, closed, cancelled>>
           /\ ToSet(pending) \subseteq ToSet(pending')
           /\ closed => pending' = pending
           /\ ~closed => e \in ToSet(pending')
<1>1. CASE closed
  BY <1>1 DEF InvokeEventCallback, executorVars, IInv, QueueShape
<1>2. CASE ~closed
  <2>1. /\ pending' = Append(pending, e)
        /\ UNCHANGED <<started, phase, closed, cancelled>>
    BY <1>2 DEF InvokeEventCallback, Queue!Accept
  <2>2. IsSequence(pending) /\ IsSequence(started)
    BY DEF IInv, QueueShape
  <2>3. IsSequence(pending') /\ ToSet(pending') = ToSet(pending) \cup {e}
    BY ONLY <2>1, <2>2, ToSetOfAppend
  <2>4. IsSequence(started')
    BY ONLY <2>1, <2>2
  <2>5. QED
    BY ONLY <1>2, <2>1, <2>3, <2>4
<1>3. QED
  BY <1>1, <1>2

LEMMA StopKeeps ==
    ASSUME IInv, Stop
    PROVE  /\ IsSequence(pending') /\ IsSequence(started')
           /\ UNCHANGED <<started, phase, closed, cancelled>>
           /\ ToSet(pending) \subseteq ToSet(pending')
           /\ closed => pending' = pending
<1>1. CASE InvokeEventCallback(RangingStopped)
  BY <1>1, InvokeKeeps
<1>2. CASE UNCHANGED executorVars
  BY <1>2 DEF executorVars, IInv, QueueShape
<1>3. QED
  BY <1>1, <1>2 DEF Stop

\* The session's methods.
LEMMA CallPreservesIInv ==
    ASSUME IInv,
           \/ \E t \in Client, xs \in Batch : AddNearObjects(t, xs) \/ RemoveNearObjects(t, xs)
           \/ \E t \in Client, o \in NearObject : NearObjectPropertiesChanged(t, o)
           \/ \E t \in Thread : StartRanging(t) \/ StopRanging(t)
           \/ \E t \in Client : EndSession(t) \/ EndSessionNotify(t)
    PROVE  IInv'
<1>1. /\ IsSequence(pending') /\ IsSequence(started')
      /\ UNCHANGED <<started, phase, closed, cancelled>>
      /\ ToSet(pending) \subseteq ToSet(pending')
      /\ closed => pending' = pending
  BY InvokeKeeps, StopKeeps
     DEF AddNearObjects, RemoveNearObjects, NearObjectPropertiesChanged,
         StartRanging, StopRanging, EndSession, EndSessionNotify
<1>2. UNCHANGED <<inCallback, life>>
  BY DEF AddNearObjects, RemoveNearObjects, NearObjectPropertiesChanged,
         StartRanging, StopRanging, EndSession, EndSessionNotify
<1>3. QED
  BY <1>1, <1>2 DEF IInv, QueueShape, Destruction

\* The destructor.
LEMMA DestructionPreservesIInv ==
    ASSUME IInv, Destruct \/ DestructNotify \/ CloseQueue \/ Drained
    PROVE  IInv'
<1>1. CASE Destruct
  <2>1. /\ IsSequence(pending') /\ IsSequence(started')
        /\ UNCHANGED <<started, phase, closed, cancelled>>
        /\ closed => pending' = pending
    BY <1>1, StopKeeps DEF Destruct
  <2>2. life = "live" /\ life' = "ending" /\ UNCHANGED inCallback
    BY <1>1 DEF Destruct
  <2>3. QED
    BY <2>1, <2>2 DEF IInv, QueueShape, Destruction
<1>2. CASE DestructNotify
  <2>1. /\ IsSequence(pending') /\ IsSequence(started')
        /\ UNCHANGED <<started, phase, closed, cancelled>>
        /\ closed => pending' = pending
        /\ ~closed => SessionEnded \in ToSet(pending')
    BY <1>2, InvokeKeeps DEF DestructNotify
  <2>2. life = "ending" /\ life' = "closing" /\ UNCHANGED inCallback
    BY <1>2 DEF DestructNotify
  <2>3. QED
    BY <2>1, <2>2 DEF IInv, QueueShape, Destruction
<1>3. CASE CloseQueue
  BY <1>3 DEF CloseQueue, Queue!Close, IInv, QueueShape, Destruction
<1>4. CASE Drained
  BY <1>4 DEF Drained, executorVars, IInv, QueueShape, Destruction
<1>5. QED
  BY <1>1, <1>2, <1>3, <1>4

\* The worker and the client.
LEMMA WorkerPreservesIInv ==
    ASSUME IInv, Dispatch \/ Return \/ WorkerExit \/ ReleaseCallbacks
    PROVE  IInv'
<1>1. CASE Dispatch
  <2>1. /\ IsSequence(pending') /\ IsSequence(started')
        /\ ToSet(started') \cup ToSet(pending') = ToSet(started) \cup ToSet(pending)
    BY <1>1, ToSetOfAppend, ToSetOfTail DEF Dispatch, Queue!Start, IInv, QueueShape
  <2>2. QED
    BY <1>1, <2>1 DEF Dispatch, Queue!Start, IInv, QueueShape, Destruction
<1>2. CASE Return
  BY <1>2 DEF Return, Queue!Finish, IInv, QueueShape, Destruction
<1>3. CASE WorkerExit
  BY <1>3 DEF WorkerExit, Queue!Halt, IInv, QueueShape, Destruction
<1>4. CASE ReleaseCallbacks
  BY <1>4 DEF ReleaseCallbacks, executorVars, IInv, QueueShape, Destruction
<1>5. QED
  BY <1>1, <1>2, <1>3, <1>4

LEMMA NextIInv == IInv /\ [Next]_vars => IInv'
<1> SUFFICES ASSUME IInv, [Next]_vars PROVE IInv'
  OBVIOUS
<1>1. CASE UNCHANGED vars
  BY <1>1 DEF vars, executorVars, IInv, QueueShape, Destruction
<1>2. QED
  BY <1>1, CallPreservesIInv, DestructionPreservesIInv, WorkerPreservesIInv DEF Next, Gone

\* The invariant holds in every reachable state.
THEOREM Invariance == Spec => []IInv
  BY InitIInv, NextIInv, PTL DEF Spec

\* Once the session is destroyed no task that captured it runs or is left to.
THEOREM NoCallbackAfterDestructionHolds == Spec => []NoCallbackAfterDestruction
<1>1. IInv => NoCallbackAfterDestruction
  BY DEF IInv, QueueShape, Destruction, NoCallbackAfterDestruction
<1>2. QED
  BY <1>1, Invariance, PTL

\* The OnSessionEnded that the destructor posts is dispatched before the
\* destructor returns.
THEOREM EndedBeforeDestructionHolds == Spec => []EndedBeforeDestruction
<1>1. ToSet(<<>>) = {}
  BY DEF ToSet
<1>2. IInv => EndedBeforeDestruction
  BY <1>1 DEF IInv, QueueShape, Destruction, EndedBeforeDestruction
<1>3. QED
  BY <1>2, Invariance, PTL

-----------------------------------------------------------------------------
(* What the client is told, and in what order.                             *)

Types ==
    /\ started \in Seq(Event) /\ pending \in Seq(Event)
    /\ m_nearObjects \in Seq(NearObject) /\ nearObjects \in Seq(NearObject)
    /\ m_isRangingActive \in BOOLEAN

Ranging == Only(Stream, {RangingStarted, RangingStopped})

Alternates(s) ==
    \A i \in DOMAIN s : s[i] = IF i % 2 = 1 THEN RangingStarted ELSE RangingStopped

LEMMA RangingStreamIs ==
    RangingStream <=>
        Alternates(Ranging) /\ (~closed => (m_isRangingActive <=> Len(Ranging) % 2 = 1))
  BY DEF RangingStream, Ranging, Alternates

LEMMA EventKinds ==
    /\ RangingStarted \in Event /\ RangingStopped \in Event /\ SessionEnded \in Event
    /\ RangingStarted # RangingStopped
    /\ SessionEnded \notin {RangingStarted, RangingStopped}
    /\ \A e \in {RangingStarted, RangingStopped, SessionEnded} : e.kind # "members"
    /\ \A o \in NearObject :
          /\ PropertiesChanged(o) \in Event \ {RangingStarted, RangingStopped}
          /\ PropertiesChanged(o).kind # "members"
    /\ \A a, r \in Seq(NearObject) :
          /\ MembershipChanged(a, r) \in Event \ {RangingStarted, RangingStopped}
          /\ MembershipChanged(a, r).kind = "members"
          /\ MembershipChanged(a, r).added = a /\ MembershipChanged(a, r).removed = r
<1>1. \A o \in NearObject :
          /\ PropertiesChanged(o) \in Event
          /\ PropertiesChanged(o).kind = "properties"
  BY DEF Event, PropertiesChanged
<1>2. \A a, r \in Seq(NearObject) :
          /\ MembershipChanged(a, r) \in Event
          /\ MembershipChanged(a, r).kind = "members"
          /\ MembershipChanged(a, r).added = a /\ MembershipChanged(a, r).removed = r
  BY DEF Event, MembershipChanged
<1>3. /\ RangingStarted.kind = "started" /\ RangingStopped.kind = "stopped"
      /\ SessionEnded.kind = "ended"
  BY DEF RangingStarted, RangingStopped, SessionEnded
<1>4. RangingStarted \in Event /\ RangingStopped \in Event /\ SessionEnded \in Event
  BY DEF Event
<1>5. QED
  BY <1>1, <1>2, <1>3, <1>4

\* A post adds its event to the end of the stream, unless the queue is stopped.
LEMMA Posted ==
    ASSUME Types, NEW e \in Event, InvokeEventCallback(e)
    PROVE  /\ started' \in Seq(Event) /\ pending' \in Seq(Event)
           /\ closed' = closed
           /\ closed => Stream' = Stream
           /\ ~closed => Stream' = Append(Stream, e)
<1>1. CASE closed
  BY <1>1 DEF InvokeEventCallback, executorVars, Types, Stream
<1>2. CASE ~closed
  <2>1. pending' = Append(pending, e) /\ started' = started /\ closed' = closed
    BY <1>2 DEF InvokeEventCallback, Queue!Accept
  <2>2. started \in Seq(Event) /\ pending \in Seq(Event)
    BY DEF Types
  <2>3. Append(pending, e) \in Seq(Event)
    BY <2>2, AppendProperties
  <2>4. started \o Append(pending, e) = Append(started \o pending, e)
    BY <2>2, AppendToConcat
  <2>5. QED
    BY <1>2, <2>1, <2>2, <2>3, <2>4 DEF Stream
<1>3. QED
  BY <1>1, <1>2

LEMMA StreamType == ASSUME Types PROVE Stream \in Seq(Event)
  BY ConcatProperties DEF Types, Stream

\* An event of another kind leaves the client's list as it is ...
LEMMA PlainKeepsMembership ==
    ASSUME Types, MembershipStream, NEW e \in Event, e.kind # "members",
           InvokeEventCallback(e), UNCHANGED <<m_nearObjects, nearObjects>>
    PROVE  MembershipStream'
<1>1. CASE closed
  BY <1>1, Posted DEF MembershipStream
<1>2. CASE ~closed
  <2>1. Followed(nearObjects, Append(Stream, e)) = Replay(Followed(nearObjects, Stream), e)
    BY StreamType, FollowedAppend DEF Types
  <2>2. Stream' = Append(Stream, e)
    BY <1>2, Posted
  <2>3. QED
    BY <2>1, <2>2 DEF MembershipStream, Replay
<1>3. QED
  BY <1>1, <1>2

\* ... and one that does not tell about ranging leaves the alternation.
LEMMA PlainKeepsRanging ==
    ASSUME Types, RangingStream, NEW e \in Event \ {RangingStarted, RangingStopped},
           InvokeEventCallback(e), UNCHANGED m_isRangingActive
    PROVE  RangingStream'
<1>1. Ranging' = Ranging
  <2>1. Only(Append(Stream, e), {RangingStarted, RangingStopped}) = Ranging
    BY StreamType, OnlyAppend DEF Ranging
  <2>2. QED
    BY <2>1, Posted DEF Ranging
<1>2. closed' = closed
  BY Posted
<1>3. QED
  BY <1>1, <1>2 DEF RangingStream, Ranging

LEMMA AlternatesAppend ==
    ASSUME NEW s \in Seq(Event), Alternates(s), NEW e,
           e = IF Len(s) % 2 = 0 THEN RangingStarted ELSE RangingStopped
    PROVE  /\ Alternates(Append(s, e))
           /\ Len(Append(s, e)) % 2 = 1 <=> Len(s) % 2 = 0
<1>1. e \in Event
  BY EventKinds
<1>2. /\ Append(s, e) \in Seq(Event)
      /\ Len(Append(s, e)) = Len(s) + 1
      /\ Append(s, e)[Len(s) + 1] = e
      /\ \A i \in 1 .. Len(s) : Append(s, e)[i] = s[i]
  BY <1>1, AppendProperties
<1>3. /\ Len(s) \in Nat /\ DOMAIN s = 1 .. Len(s)
      /\ DOMAIN Append(s, e) = 1 .. Len(s) + 1
  BY <1>2, LenProperties
<1>4. (Len(s) + 1) % 2 = 1 <=> Len(s) % 2 = 0
  BY <1>3
<1>5. ASSUME NEW i \in 1 .. Len(s) + 1
      PROVE  Append(s, e)[i] = IF i % 2 = 1 THEN RangingStarted ELSE RangingStopped
  <2>1. CASE i = Len(s) + 1
    BY <1>2, <1>4, <2>1
  <2>2. CASE i # Len(s) + 1
    <3>1. i \in 1 .. Len(s)
      BY <1>3, <2>2
    <3>2. QED
      BY <1>2, <1>3, <3>1 DEF Alternates
  <2>3. QED
    BY <2>1, <2>2
<1>6. QED
  BY <1>2, <1>3, <1>4, <1>5 DEF Alternates

\* Ranging that changes is told as it changes.
LEMMA ToldKeepsRanging ==
    ASSUME Types, RangingStream, NEW e,
           e = IF m_isRangingActive THEN RangingStopped ELSE RangingStarted,
           m_isRangingActive' = ~m_isRangingActive,
           InvokeEventCallback(e)
    PROVE  RangingStream'
<1>1. e \in Event /\ e \in {RangingStarted, RangingStopped}
  BY EventKinds
<1>2. closed' = closed
  BY <1>1, Posted
<1>3. CASE closed
  <2>1. Stream' = Stream
    BY <1>1, <1>3, Posted
  <2>2. QED
    BY <1>2, <1>3, <2>1 DEF RangingStream
<1>4. CASE ~closed
  <2>1. Ranging' = Append(Ranging, e)
    <3>1. Only(Append(Stream, e), {RangingStarted, RangingStopped}) = Append(Ranging, e)
      BY <1>1, StreamType, OnlyAppend DEF Ranging
    <3>2. QED
      BY <1>1, <1>4, <3>1, Posted DEF Ranging
  <2>2. Alternates(Ranging) /\ (m_isRangingActive <=> Len(Ranging) % 2 = 1)
    BY <1>4, RangingStreamIs
  <2>3. Ranging \in Seq(Event)
    BY StreamType, OnlyType DEF Ranging
  <2>4. m_isRangingActive <=> Len(Ranging) % 2 # 0
    <3>1. Len(Ranging) \in Nat
      BY <2>3, LenProperties
    <3>2. QED
      BY <2>2, <3>1
  <2>5. e = IF Len(Ranging) % 2 = 0 THEN RangingStarted ELSE RangingStopped
    BY <2>4
  <2>6. /\ Alternates(Append(Ranging, e))
        /\ Len(Append(Ranging, e)) % 2 = 1 <=> Len(Ranging) % 2 = 0
    BY <2>2, <2>3, <2>5, AlternatesAppend
  <2>7. Alternates(Ranging') /\ (m_isRangingActive' <=> Len(Ranging') % 2 = 1)
    BY <2>1, <2>4, <2>6
  <2>8. QED
    BY <2>7 DEF RangingStream, Ranging, Alternates
<1>5. QED
  BY <1>3, <1>4

Streams == Types /\ MembershipStream /\ RangingStream

LEMMA InitStreams == Init => Streams
<1> SUFFICES ASSUME Init PROVE Streams
  OBVIOUS
<1>1. /\ started = <<>> /\ pending = <<>> /\ m_nearObjects = nearObjects /\ m_isRangingActive = FALSE
      /\ nearObjects \in Seq(NearObject)
  BY BatchAssumption DEF Init, Queue!Init
<1>2. Types
  BY <1>1, EmptySeq DEF Types
<1>3. Stream = <<>>
  <2>1. <<>> \in Seq({}) /\ <<>> \o <<>> = <<>>
    BY EmptySeq, ConcatEmptySeq
  <2>2. QED
    BY <1>1, <2>1 DEF Stream
<1>4. MembershipStream
  BY <1>1, <1>3, FollowedEmpty DEF MembershipStream
<1>5. RangingStream
  <2>1. Ranging = <<>>
    BY <1>3, OnlyEmpty DEF Ranging
  <2>2. Len(<<>>) = 0 /\ DOMAIN <<>> = {}
    OBVIOUS
  <2>3. QED
    BY <1>1, <2>1, <2>2, RangingStreamIs DEF Alternates
<1>6. QED
  BY <1>2, <1>4, <1>5 DEF Streams

\* The client adds what was added ...
LEMMA AddKeepsStreams ==
    ASSUME IInv, Streams, NEW t \in Client, NEW xs \in Batch, AddNearObjects(t, xs)
    PROVE  Streams'
<1> DEFINE e == MembershipChanged(Only(xs, New), <<>>)
<1>1. ~closed /\ InvokeEventCallback(e) /\ UNCHANGED <<m_isRangingActive, nearObjects>>
  BY DEF AddNearObjects, CanCall, IInv, Destruction
<1>2. m_nearObjects' = m_nearObjects \o Only(xs, New)
  BY DEF AddNearObjects
<1>3. Only(xs, New) \in Seq(NearObject) /\ <<>> \in Seq(NearObject)
  BY BatchAssumption, OnlyType, EmptySeq
<1>4. Types
  BY DEF Streams
<1>5. e \in Event \ {RangingStarted, RangingStopped}
  BY <1>3, EventKinds
<1>6. e.kind = "members" /\ e.added = Only(xs, New) /\ e.removed = <<>>
  BY <1>3, EventKinds
<1> HIDE DEF e
<1>7. Types'
  BY <1>1, <1>2, <1>3, <1>4, <1>5, Posted, ConcatProperties DEF Types
<1>8. MembershipStream'
  <2>1. Followed(nearObjects, Append(Stream, e)) = Replay(m_nearObjects, e)
    BY <1>4, <1>5, StreamType, FollowedAppend DEF Streams, Types, MembershipStream
  <2>2. Only(m_nearObjects, NearObject \ ToSet(<<>>)) = m_nearObjects
    <3>1. m_nearObjects \in Seq(NearObject)
      BY <1>4 DEF Types
    <3>2. \A i \in 1 .. Len(m_nearObjects) : m_nearObjects[i] \in NearObject
      BY <3>1, ElementOfSeq
    <3>3. ToSet(<<>>) = {}
      BY DEF ToSet
    <3>4. QED
      BY <3>1, <3>2, <3>3, OnlyAll
  <2>3. Replay(m_nearObjects, e) = m_nearObjects \o Only(xs, New)
    BY <1>6, <2>2 DEF Replay
  <2>4. Stream' = Append(Stream, e)
    BY <1>1, <1>4, <1>5, Posted
  <2>5. QED
    BY <1>1, <1>2, <2>1, <2>3, <2>4 DEF MembershipStream
<1>9. RangingStream'
  BY <1>1, <1>4, <1>5, PlainKeepsRanging DEF Streams
<1>10. QED
  BY <1>7, <1>8, <1>9 DEF Streams

\* ... and takes out what was removed, which leaves it what the session keeps.
LEMMA RemoveKeepsStreams ==
    ASSUME IInv, Streams, NEW t \in Client, NEW xs \in Batch, RemoveNearObjects(t, xs)
    PROVE  Streams'
<1> DEFINE gone == Only(m_nearObjects, ToSet(xs))
           e == MembershipChanged(<<>>, gone)
<1>1. ~closed /\ InvokeEventCallback(e) /\ UNCHANGED <<m_isRangingActive, nearObjects>>
  BY DEF RemoveNearObjects, CanCall, IInv, Destruction
<1>2. m_nearObjects' = Only(m_nearObjects, NearObject \ ToSet(xs))
  BY DEF RemoveNearObjects
<1>3. Types /\ m_nearObjects \in Seq(NearObject)
  BY DEF Streams, Types
<1>4. /\ gone \in Seq(NearObject) /\ <<>> \in Seq(NearObject)
      /\ Only(m_nearObjects, NearObject \ ToSet(xs)) \in Seq(NearObject)
  BY <1>3, OnlyType, EmptySeq
<1>5. e \in Event \ {RangingStarted, RangingStopped}
  BY <1>4, EventKinds
<1>6. e.kind = "members" /\ e.added = <<>> /\ e.removed = gone
  BY <1>4, EventKinds
<1>7. ToSet(gone) = ToSet(m_nearObjects) \cap ToSet(xs)
  BY <1>3, OnlyMembers
<1>8. Only(m_nearObjects, NearObject \ ToSet(gone)) = Only(m_nearObjects, NearObject \ ToSet(xs))
  <2>1. \A i \in 1 .. Len(m_nearObjects) : m_nearObjects[i] \in ToSet(m_nearObjects)
    BY <1>3, LenProperties DEF ToSet
  <2> DEFINE T == NearObject \ ToSet(gone)
             U == NearObject \ ToSet(xs)
  <2>2. \A i \in 1 .. Len(m_nearObjects) : m_nearObjects[i] \in T <=> m_nearObjects[i] \in U
    BY <1>7, <2>1
  <2> HIDE DEF T, U
  <2>3. Only(m_nearObjects, T) = Only(m_nearObjects, U)
    BY <1>3, <2>2, OnlyCongruent
  <2>4. QED
    BY <2>3 DEF T, U
<1> HIDE DEF gone, e
<1>9. Types'
  BY <1>1, <1>2, <1>3, <1>4, <1>5, Posted DEF Types
<1>10. MembershipStream'
  <2>1. Followed(nearObjects, Append(Stream, e)) = Replay(m_nearObjects, e)
    BY <1>3, <1>5, StreamType, FollowedAppend DEF Streams, Types, MembershipStream
  <2>2. Replay(m_nearObjects, e) = Only(m_nearObjects, NearObject \ ToSet(gone)) \o <<>>
    BY <1>6 DEF Replay
  <2>3. Only(m_nearObjects, NearObject \ ToSet(xs)) \o <<>>
           = Only(m_nearObjects, NearObject \ ToSet(xs))
    BY <1>4, ConcatEmptySeq
  <2>4. Stream' = Append(Stream, e)
    BY <1>1, <1>3, <1>5, Posted
  <2>5. QED
    BY <1>1, <1>2, <1>8, <2>1, <2>2, <2>3, <2>4 DEF MembershipStream
<1>11. RangingStream'
  BY <1>1, <1>3, <1>5, PlainKeepsRanging DEF Streams
<1>12. QED
  BY <1>9, <1>10, <1>11 DEF Streams

\* The events that tell neither of members nor of ranging.
LEMMA PlainKeepsStreams ==
    ASSUME Streams, NEW e \in Event \ {RangingStarted, RangingStopped}, e.kind # "members",
           InvokeEventCallback(e), UNCHANGED sessionVars
    PROVE  Streams'
<1>1. Types /\ MembershipStream /\ RangingStream
  BY DEF Streams
<1>2. UNCHANGED <<m_nearObjects, nearObjects, m_isRangingActive>>
  BY DEF sessionVars
<1>3. Types'
  BY <1>1, <1>2, Posted DEF Types
<1>4. QED
  BY <1>1, <1>2, <1>3, PlainKeepsMembership, PlainKeepsRanging DEF Streams

\* Ranging starts or stops.
LEMMA ToldKeepsStreams ==
    ASSUME Streams, NEW e,
           e = IF m_isRangingActive THEN RangingStopped ELSE RangingStarted,
           m_isRangingActive' = ~m_isRangingActive,
           UNCHANGED <<m_nearObjects, nearObjects>>,
           InvokeEventCallback(e)
    PROVE  Streams'
<1>1. Types /\ MembershipStream /\ RangingStream
  BY DEF Streams
<1>2. e \in Event /\ e.kind # "members"
  BY EventKinds
<1>3. Types'
  BY <1>1, <1>2, Posted DEF Types
<1>4. QED
  BY <1>1, <1>2, <1>3, PlainKeepsMembership, ToldKeepsRanging DEF Streams

LEMMA StopKeepsStreams ==
    ASSUME Streams, Stop, UNCHANGED <<m_nearObjects, nearObjects>>
    PROVE  Streams'
<1>1. CASE m_isRangingActive /\ m_isRangingActive' = FALSE /\ InvokeEventCallback(RangingStopped)
  <2>1. m_isRangingActive' = ~m_isRangingActive
    BY <1>1
  <2>2. QED
    BY <1>1, <2>1, ToldKeepsStreams
<1>2. CASE UNCHANGED <<m_isRangingActive, executorVars>>
  BY <1>2 DEF executorVars, Streams, Types, MembershipStream, RangingStream, Stream
<1>3. QED
  BY <1>1, <1>2 DEF Stop

\* The worker moves the stream's events from one part of it to the other.
LEMMA DispatchKeepsStreams == ASSUME Streams, Dispatch PROVE Streams'
<1>1. started \in Seq(Event) /\ pending \in Seq(Event) /\ pending # <<>>
  BY DEF Dispatch, Queue!Start, Streams, Types
<1>2. /\ pending' = Tail(pending) /\ started' = Append(started, Head(pending))
      /\ closed' = closed /\ UNCHANGED sessionVars
  BY DEF Dispatch, Queue!Start
<1>3. Head(pending) \in Event /\ Tail(pending) \in Seq(Event) /\ Stream' = Stream
  BY <1>1, <1>2, MoveHead DEF Stream
<1>4. Append(started, Head(pending)) \in Seq(Event)
  BY <1>1, <1>3, AppendProperties
<1>5. QED
  BY <1>2, <1>3, <1>4 DEF sessionVars, Streams, Types, MembershipStream, RangingStream

LEMMA NextStreams == IInv /\ Streams /\ [Next]_vars => Streams'
<1> SUFFICES ASSUME IInv, Streams, [Next]_vars PROVE Streams'
  OBVIOUS
<1>1. CASE \E t \in Client, xs \in Batch : AddNearObjects(t, xs) \/ RemoveNearObjects(t, xs)
  BY <1>1, AddKeepsStreams, RemoveKeepsStreams
<1>2. CASE \E t \in Client, o \in NearObject : NearObjectPropertiesChanged(t, o)
  <2>1. PICK o \in NearObject : InvokeEventCallback(PropertiesChanged(o)) /\ UNCHANGED sessionVars
    BY <1>2 DEF NearObjectPropertiesChanged
  <2>2. QED
    BY <2>1, EventKinds, PlainKeepsStreams
<1>3. CASE \E t \in Thread : StartRanging(t)
  <2>1. /\ ~m_isRangingActive /\ m_isRangingActive' = TRUE
        /\ InvokeEventCallback(RangingStarted) /\ UNCHANGED <<m_nearObjects, nearObjects>>
    BY <1>3 DEF StartRanging
  <2>2. QED
    BY <2>1, ToldKeepsStreams
<1>4. CASE Destruct \/ (\E t \in Thread : StopRanging(t)) \/ (\E t \in Client : EndSession(t))
  BY <1>4, StopKeepsStreams DEF Destruct, StopRanging, EndSession
<1>5. CASE DestructNotify \/ \E t \in Client : EndSessionNotify(t)
  <2>1. InvokeEventCallback(SessionEnded) /\ UNCHANGED sessionVars
    BY <1>5 DEF DestructNotify, EndSessionNotify
  <2>2. QED
    BY <2>1, EventKinds, PlainKeepsStreams
<1>6. CASE Dispatch
  BY <1>6, DispatchKeepsStreams
<1>7. CASE CloseQueue \/ Drained \/ Return \/ WorkerExit \/ ReleaseCallbacks \/ UNCHANGED vars
  <2>1. UNCHANGED <<sessionVars, pending, started>> /\ (~closed' => ~closed)
    BY <1>7 DEF CloseQueue, Queue!Close, Drained, Return, Queue!Finish, WorkerExit, Queue!Halt,
                ReleaseCallbacks, vars, executorVars
  <2>2. QED
    BY <2>1 DEF sessionVars, Streams, Types, MembershipStream, RangingStream, Stream
<1>8. QED
  BY <1>1, <1>2, <1>3, <1>4, <1>5, <1>6, <1>7 DEF Next, Gone

LEMMA StreamsInvariance == Spec => []Streams
  BY InitStreams, NextStreams, Invariance, PTL DEF Spec

\* A client that knows the members the session was made with, and applies the
\* membership events in the order it receives them, arrives at the session's own
\* list, whatever threads add and remove objects.
THEOREM MembershipStreamHolds == Spec => []MembershipStream
<1>1. Streams => MembershipStream
  BY DEF Streams
<1>2. QED
  BY <1>1, StreamsInvariance, PTL

\* The client is told of ranging started and stopped by turns, and the last of
\* these events tells whether ranging is active until the queue is stopped.
THEOREM RangingStreamHolds == Spec => []RangingStream
<1>1. Streams => RangingStream
  BY DEF Streams
<1>2. QED
  BY <1>1, StreamsInvariance, PTL

-----------------------------------------------------------------------------
(* The profile store: the JSON of a list of profiles, and how often a      *)
(* profile is in a list.                                                   *)

\* What from_json makes of what to_json wrote is the profile itself.
LEMMA RoundTrip ==
    ASSUME NEW p \in NearObjectProfile
    PROVE  FromJson(ToJson(p)) = p
<1> DEFINE Has(i) == i \in DOMAIN NearObjectConnectionScope
                         /\ NearObjectConnectionScope[i] = p.scope
<1>1. \E i : Has(i)
  <2>1. /\ NearObjectConnectionScope[1] = "Unicast"
        /\ NearObjectConnectionScope[2] = "Multicast"
        /\ NearObjectConnectionScope[3] = "Unknown"
        /\ DOMAIN NearObjectConnectionScope = 1 .. 3
    BY DEF NearObjectConnectionScope
  <2>2. p.scope \in {"Unicast", "Multicast", "Unknown"}
    BY DEF NearObjectProfile
  <2>3. QED
    BY <2>1, <2>2
<1> DEFINE j == CHOOSE i : Has(i)
<1>2. Has(j)
  BY <1>1
<1>3. j = CHOOSE i \in DOMAIN NearObjectConnectionScope :
              NearObjectConnectionScope[i] = p.scope
  OBVIOUS
<1> HIDE DEF j
<1>4. NearObjectConnectionScope[ToJson(p).Scope] = p.scope
  BY <1>2, <1>3 DEF ToJson
<1>5. ToJson(p).Security # "null" <=> p.security
  BY DEF ToJson
<1>6. p = [scope |-> p.scope, security |-> p.security] /\ p.security \in BOOLEAN
  BY DEF NearObjectProfile
<1>7. QED
  BY <1>4, <1>5, <1>6 DEF FromJson

LEMMA DecodedOfText ==
    ASSUME NEW s \in Seq(NearObjectProfile)
    PROVE  Decoded(Text([i \in DOMAIN s |-> ToJson(s[i])])) = s
<1>1. \A i \in DOMAIN s : FromJson(ToJson(s[i])) = s[i]
  BY RoundTrip, ElementOfSeq, LenProperties
<1>2. s = [i \in DOMAIN s |-> s[i]]
  BY LenProperties
<1>3. QED
  BY <1>1, <1>2 DEF Decoded, Text

LEMMA OccurrencesType ==
    ASSUME NEW S, NEW s \in Seq(S), NEW p
    PROVE  /\ IsFiniteSet({i \in DOMAIN s : s[i] = p})
           /\ OccurrencesIn(s, p) \in Nat
<1>1. Len(s) \in Nat /\ DOMAIN s = 1 .. Len(s)
  BY LenProperties
<1>2. IsFiniteSet(1 .. Len(s))
  BY <1>1, FS_Interval
<1>3. IsFiniteSet({i \in DOMAIN s : s[i] = p})
  BY <1>1, <1>2, FS_Subset
<1>4. QED
  BY <1>3, FS_CardinalityType DEF OccurrencesIn

LEMMA OccurrencesAppend ==
    ASSUME NEW S, NEW s \in Seq(S), NEW e \in S, NEW p
    PROVE  OccurrencesIn(Append(s, e), p) =
              IF e = p THEN OccurrencesIn(s, p) + 1 ELSE OccurrencesIn(s, p)
<1> DEFINE At == {i \in DOMAIN s : s[i] = p}
           n == Len(s) + 1
<1>1. Len(s) \in Nat /\ DOMAIN s = 1 .. Len(s)
  BY LenProperties
<1>2. /\ DOMAIN Append(s, e) = 1 .. n
      /\ Append(s, e)[n] = e
      /\ \A i \in 1 .. Len(s) : Append(s, e)[i] = s[i]
  BY AppendProperties, LenProperties
<1>3. {i \in DOMAIN Append(s, e) : Append(s, e)[i] = p} =
          IF e = p THEN At \cup {n} ELSE At
  <2>1. ASSUME NEW i
        PROVE  i \in DOMAIN Append(s, e) /\ Append(s, e)[i] = p
                   <=> i \in At \/ (i = n /\ e = p)
    BY <1>1, <1>2
  <2>2. QED
    BY <2>1
<1>4. IsFiniteSet(At) /\ n \notin At
  <2>1. n \notin DOMAIN s
    BY <1>1
  <2>2. QED
    BY <2>1, OccurrencesType
<1>5. Cardinality(At \cup {n}) = Cardinality(At) + 1
  <2> HIDE DEF At, n
  <2>1. QED
    BY <1>4, FS_AddElement
<1>6. QED
  BY <1>3, <1>5 DEF OccurrencesIn

-----------------------------------------------------------------------------
(* The inductive invariant.                                                *)

Call ==
    [pc : {"idle", "read", "open", "write", "returned", "threw"},
     profile : NearObjectProfile, read : Seq(NearObjectProfile)]

Json == {ToJson(p) : p \in NearObjectProfile}
File == [state : {"absent", "empty", "garbage", "json"}, json : Seq(Json)]

StoreTypeOK ==
    /\ file \in File
    /\ call \in [Caller -> Call]
    /\ alone \in [Caller -> BOOLEAN]
    /\ durable \in Seq(NearObjectProfile)

\* Whoever has met no other call in PersistProfile is there alone ...
AloneInv ==
    \A t, u \in Caller : alone[t] /\ Persisting(t) /\ Persisting(u) => u = t

Covers(s, d) == \A p \in Profile : OccurrencesIn(s, p) >= OccurrencesIn(d, p)

\* ... so that nothing becomes durable behind a list that has been read, which
\* covers what was durable as it was read and will be written.
FileInv ==
    /\ file.state = "absent" => durable = <<>>
    /\ file.state = "json" => Covers(Decoded(file), durable)

ReadInv ==
    \A t \in Caller : call[t].pc \in {"open", "write"} => Covers(call[t].read, durable)

StoreIInv == StoreTypeOK /\ AloneInv /\ FileInv /\ ReadInv

LEMMA StoreInitIInv == StoreInit => StoreIInv
<1> SUFFICES ASSUME StoreInit PROVE StoreIInv
  OBVIOUS
<1>1. Idle \in Call
  <2>1. <<>> \in Seq(NearObjectProfile) /\ NoProfile \in NearObjectProfile
    BY EmptySeq DEF NoProfile, NearObjectProfile
  <2>2. QED
    BY <2>1 DEF Idle, Call
<1>2. Absent \in File
  BY EmptySeq DEF Absent, File
<1>3. StoreTypeOK
  BY <1>1, <1>2, EmptySeq DEF StoreInit, StoreTypeOK
<1>4. \A t \in Caller : call[t].pc = "idle"
  BY DEF StoreInit, Idle
<1>5. QED
  BY <1>3, <1>4 DEF StoreInit, StoreIInv, AloneInv, Persisting, FileInv, ReadInv, Absent

\* A call that goes on, leaves what is durable, and does not enter PersistProfile.
LEMMA StepPreservesIInv ==
    ASSUME StoreIInv, NEW t \in Caller, NEW r \in Call, call' = [call EXCEPT ![t] = r],
           r.pc \in {"read", "open", "write"} => Persisting(t),
           r.pc \in {"open", "write"} => Covers(r.read, durable),
           file' \in File, FileInv', UNCHANGED historyVars
    PROVE  StoreIInv'
<1>1. StoreTypeOK /\ AloneInv /\ ReadInv /\ alone' = alone /\ durable' = durable
  BY DEF StoreIInv, historyVars
<1>2. call'[t] = r /\ \A u \in Caller \ {t} : call'[u] = call[u]
  BY <1>1 DEF StoreTypeOK
<1>3. StoreTypeOK'
  BY <1>1 DEF StoreTypeOK
<1>4. \A u \in Caller : Persisting(u)' => Persisting(u)
  BY <1>2 DEF Persisting
<1>5. AloneInv'
  BY <1>1, <1>4 DEF AloneInv
<1>6. ReadInv'
  <2>1. ASSUME NEW u \in Caller, call'[u].pc \in {"open", "write"}
        PROVE  Covers(call'[u].read, durable)
    BY <1>1, <1>2, <2>1 DEF ReadInv
  <2>2. QED
    BY <1>1, <2>1 DEF ReadInv, Covers
<1>7. QED
  BY <1>3, <1>5, <1>6 DEF StoreIInv

\* Goto assigns one field of the call's record.
LEMMA GotoAssigns ==
    ASSUME StoreTypeOK, NEW t \in Caller,
           NEW pc \in {"idle", "read", "open", "write", "returned", "threw"}, Goto(t, pc)
    PROVE  \E r \in Call : /\ call' = [call EXCEPT ![t] = r]
                           /\ r.pc = pc /\ r.read = call[t].read
<1> DEFINE r == [call[t] EXCEPT !.pc = pc]
<1>1. call[t] \in Call
  BY DEF StoreTypeOK
<1>2. r \in Call /\ r.pc = pc /\ r.read = call[t].read
  BY <1>1 DEF Call
<1>3. call' = [call EXCEPT ![t] = r]
  BY DEF Goto
<1>4. QED
  BY <1>2, <1>3

\* AddProfile: whoever is in PersistProfile is not alone from now on, and neither
\* is the one that enters unless nobody is there.
LEMMA AddProfilePreservesIInv ==
    ASSUME StoreIInv, NEW t \in Caller, AddProfile(t)
    PROVE  StoreIInv'
<1>1. UNCHANGED <<file, durable>> /\ call[t].pc = "idle"
  BY DEF AddProfile
<1>2. StoreTypeOK /\ AloneInv /\ FileInv /\ ReadInv
  BY DEF StoreIInv
<1>3. FileInv'
  BY <1>1, <1>2 DEF FileInv, Decoded, Covers
<1>4. PICK p \in Profile, pc \in {"read", "returned"} :
          /\ call' = [call EXCEPT ![t] = [pc |-> pc, profile |-> p, read |-> <<>>]]
          /\ pc = "read" => Begin(t)
          /\ pc = "returned" => UNCHANGED alone
  BY DEF AddProfile
<1> DEFINE r == [pc |-> pc, profile |-> p, read |-> <<>>]
<1>5. r \in Call /\ r.pc = pc
  BY ProfileAssumption, EmptySeq DEF Call
<1> HIDE DEF r
<1>6. call' = [call EXCEPT ![t] = r]
  BY <1>4 DEF r
<1>7. CASE pc = "returned"
  BY <1>1, <1>2, <1>3, <1>4, <1>5, <1>6, <1>7, StepPreservesIInv DEF historyVars, StoreTypeOK
<1>8. CASE pc = "read"
  <2>1. \A u \in Caller : alone'[u] = IF u = t THEN \A v \in Caller \ {t} : ~Persisting(v)
                                      ELSE alone[u] /\ ~Persisting(u)
    BY <1>4, <1>8 DEF Begin
  <2>2. /\ alone' \in [Caller -> BOOLEAN]
        /\ call'[t] = r /\ \A u \in Caller \ {t} : call'[u] = call[u]
    BY <1>2, <1>4, <1>6, <1>8 DEF Begin, StoreTypeOK
  <2>3. StoreTypeOK'
    BY <1>1, <1>2, <1>5, <1>6, <2>2 DEF StoreTypeOK
  <2>4. \A u \in Caller \ {t} : Persisting(u)' <=> Persisting(u)
    BY <2>2 DEF Persisting
  <2>5. AloneInv'
    <3>1. ASSUME NEW u \in Caller, NEW v \in Caller,
                 alone'[u], Persisting(u)', Persisting(v)'
          PROVE  v = u
      BY <2>1, <2>4, <3>1
    <3>2. QED
      BY <3>1 DEF AloneInv
  <2>6. ReadInv'
    BY <1>1, <1>2, <1>5, <1>8, <2>2 DEF ReadInv, Covers
  <2>7. QED
    BY <1>3, <2>3, <2>5, <2>6 DEF StoreIInv
<1>9. QED
  BY <1>7, <1>8

LEMMA ReadPreservesIInv ==
    ASSUME StoreIInv, NEW t \in Caller, ReadPersistedProfiles(t)
    PROVE  StoreIInv'
<1>1. StoreTypeOK /\ FileInv /\ UNCHANGED historyVars /\ file' = file /\ Persisting(t)
  BY DEF ReadPersistedProfiles, StoreIInv, Persisting
<1>2. call[t] \in Call /\ file \in File
  BY <1>1 DEF StoreTypeOK
<1>3. Decoded(file) \in Seq(NearObjectProfile)
  <2>1. \A j \in Json : FromJson(j) \in NearObjectProfile
    BY RoundTrip DEF Json
  <2>2. file.json \in Seq(Json)
    BY <1>2 DEF File
  <2>3. Len(file.json) \in Nat /\ DOMAIN file.json = 1 .. Len(file.json)
    BY <2>2, LenProperties
  <2>4. \A i \in 1 .. Len(file.json) : FromJson(file.json[i]) \in NearObjectProfile
    BY <2>1, <2>2, ElementOfSeq
  <2>5. QED
    BY <2>3, <2>4, IsASeq DEF Decoded
<1>4. Covers(Decoded(file), durable)
  <2>1. CASE file.state = "json"
    BY <1>1, <2>1 DEF FileInv
  <2>2. CASE file.state = "absent"
    <3>1. durable = <<>>
      BY <1>1, <2>2 DEF FileInv
    <3>2. \A p : OccurrencesIn(<<>>, p) = 0
      <4>1. \A p : {i \in DOMAIN <<>> : <<>>[i] = p} = {}
        OBVIOUS
      <4>2. QED
        BY <4>1, FS_EmptySet DEF OccurrencesIn
    <3>3. \A p : OccurrencesIn(Decoded(file), p) \in Nat
      BY <1>3, OccurrencesType
    <3>4. QED
      BY <3>1, <3>2, <3>3 DEF Covers
  <2>3. QED
    BY <1>2, <2>1, <2>2 DEF ReadPersistedProfiles, Unparseable, File
<1> DEFINE r == [call[t] EXCEPT !.pc = "open", !.read = Decoded(file)]
<1>5. r \in Call /\ r.pc = "open" /\ r.read = Decoded(file)
  BY <1>2, <1>3 DEF Call
<1>6. call' = [call EXCEPT ![t] = r]
  BY DEF ReadPersistedProfiles
<1>7. FileInv'
  BY <1>1 DEF FileInv, Decoded, Covers, historyVars
<1> HIDE DEF r
<1>8. QED
  BY <1>1, <1>2, <1>4, <1>5, <1>6, <1>7, StepPreservesIInv

\* The steps that end a call, or truncate the file, or leave part of a text there.
LEMMA OtherPreservesIInv ==
    ASSUME StoreIInv, NEW t \in Caller,
           ParseError(t) \/ FailedToOpenFile(t) \/ OpenTruncates(t) \/ WriteFails(t) \/ AddReturns(t)
    PROVE  StoreIInv'
<1>1. StoreTypeOK /\ FileInv /\ ReadInv /\ UNCHANGED historyVars
  BY DEF StoreIInv, ParseError, FailedToOpenFile, OpenTruncates, WriteFails, AddReturns
<1>2. file' \in {file, Empty, Garbage}
  BY DEF ParseError, FailedToOpenFile, OpenTruncates, WriteFails, AddReturns
<1>3. Empty \in File /\ Garbage \in File
  BY EmptySeq DEF Empty, Garbage, File
<1>4. file' \in File /\ FileInv'
  <2>1. CASE file' = file
    BY <1>1, <2>1 DEF FileInv, StoreTypeOK, Decoded, Covers, historyVars
  <2>2. CASE file' \in {Empty, Garbage}
    BY <1>3, <2>2 DEF FileInv, Empty, Garbage
  <2>3. QED
    BY <1>2, <2>1, <2>2
<1>5. CASE ParseError(t) \/ FailedToOpenFile(t) \/ WriteFails(t)
  <2>1. PICK pc \in {"returned", "threw"} : Goto(t, pc)
    BY <1>5 DEF ParseError, FailedToOpenFile, WriteFails
  <2>2. PICK r \in Call : call' = [call EXCEPT ![t] = r] /\ r.pc = pc
    BY <1>1, <2>1, GotoAssigns
  <2>3. QED
    BY <1>1, <1>4, <2>2, StepPreservesIInv
<1>6. CASE OpenTruncates(t)
  <2>1. Goto(t, "write") /\ call[t].pc = "open"
    BY <1>6 DEF OpenTruncates
  <2>2. PICK r \in Call : /\ call' = [call EXCEPT ![t] = r]
                          /\ r.pc = "write" /\ r.read = call[t].read
    BY <1>1, <2>1, GotoAssigns
  <2>3. Persisting(t) /\ Covers(r.read, durable)
    BY <1>1, <2>1, <2>2 DEF Persisting, ReadInv
  <2>4. QED
    BY <1>1, <1>4, <2>2, <2>3, StepPreservesIInv
<1>7. CASE AddReturns(t)
  <2>1. Idle \in Call /\ Idle.pc = "idle"
    BY EmptySeq DEF Idle, Call, NoProfile, NearObjectProfile
  <2>2. call' = [call EXCEPT ![t] = Idle]
    BY <1>7 DEF AddReturns
  <2>3. QED
    BY <1>1, <1>4, <2>1, <2>2, StepPreservesIInv
<1>8. QED
  BY <1>5, <1>6, <1>7

\* What a writer leaves, if it can be read, is the list it has read and its profile.
LEMMA WritePreservesIInv ==
    ASSUME StoreIInv, NEW t \in Caller, WriteProfiles(t)
    PROVE  StoreIInv'
<1>1. StoreTypeOK /\ AloneInv /\ FileInv /\ ReadInv
  BY DEF StoreIInv
<1> DEFINE old == call[t].read
           p == call[t].profile
           profiles == Append(old, p)
<1>2. /\ old \in Seq(NearObjectProfile) /\ p \in NearObjectProfile
      /\ durable \in Seq(NearObjectProfile)
  BY <1>1 DEF StoreTypeOK, Call
<1>3. profiles \in Seq(NearObjectProfile) /\ Append(durable, p) \in Seq(NearObjectProfile)
  BY <1>2, AppendProperties
<1>4. Covers(old, durable) /\ Persisting(t)
  BY <1>1 DEF WriteProfiles, ReadInv, Persisting
<1>5. durable' = IF alone[t] THEN Append(durable, p) ELSE durable
  BY DEF WriteProfiles
<1>6. Covers(profiles, durable')
  <2>1. ASSUME NEW q \in Profile
        PROVE  OccurrencesIn(profiles, q) >= OccurrencesIn(durable', q)
    <3>1. /\ OccurrencesIn(old, q) \in Nat /\ OccurrencesIn(durable, q) \in Nat
          /\ OccurrencesIn(old, q) >= OccurrencesIn(durable, q)
      BY <1>2, <1>4, OccurrencesType DEF Covers
    <3>2. OccurrencesIn(profiles, q) =
              IF p = q THEN OccurrencesIn(old, q) + 1 ELSE OccurrencesIn(old, q)
      BY <1>2, OccurrencesAppend
    <3>3. OccurrencesIn(Append(durable, p), q) =
              IF p = q THEN OccurrencesIn(durable, q) + 1 ELSE OccurrencesIn(durable, q)
      BY <1>2, OccurrencesAppend
    <3> HIDE DEF old, p, profiles
    <3>4. QED
      BY <1>5, <3>1, <3>2, <3>3
  <2>2. QED
    BY <2>1 DEF Covers
<1>7. file' \in {Text(Updated(t)), Garbage}
  <2>1. Written(file, Updated(t)) \subseteq {Text(Updated(t)), Garbage}
    <3>1. Len(Updated(t)) \in Int /\ Len(file.json) \in Int
      <4>1. DOMAIN profiles = 1 .. Len(profiles) /\ Len(profiles) \in Nat
        BY <1>3, LenProperties
      <4>2. Updated(t) = [i \in 1 .. Len(profiles) |-> ToJson(profiles[i])]
        BY <4>1 DEF Updated
      <4>3. Updated(t) \in Seq({ToJson(profiles[i]) : i \in 1 .. Len(profiles)})
        BY <4>1, <4>2, IsASeq
      <4>4. Len(Updated(t)) \in Nat
        BY <4>3, LenProperties
      <4>5. Len(file.json) \in Nat
        BY <1>1, LenProperties DEF StoreTypeOK, File
      <4>6. QED
        BY <4>4, <4>5
    <3>2. QED
      BY <3>1 DEF Written
  <2>2. QED
    BY <2>1 DEF WriteProfiles
<1>8. Updated(t) = [i \in DOMAIN profiles |-> ToJson(profiles[i])]
  BY DEF Updated
<1>9. Updated(t) \in Seq(Json)
  <2>1. DOMAIN profiles = 1 .. Len(profiles) /\ Len(profiles) \in Nat
    BY <1>3, LenProperties
  <2>2. \A i \in 1 .. Len(profiles) : ToJson(profiles[i]) \in Json
    BY <1>3, ElementOfSeq DEF Json
  <2>3. QED
    BY <1>8, <2>1, <2>2, IsASeq
<1>10. Decoded(Text(Updated(t))) = profiles
  BY <1>3, <1>8, DecodedOfText
<1>11. file' \in File /\ FileInv'
  <2>1. CASE file' = Garbage
    BY <2>1, EmptySeq DEF Garbage, File, FileInv
  <2>2. CASE file' = Text(Updated(t))
    <3>1. file'.state = "json" /\ file' \in File
      BY <1>9, <2>2 DEF Text, File
    <3>2. Decoded(file') = profiles
      BY <1>10, <2>2
    <3> HIDE DEF profiles
    <3>3. QED
      BY <1>6, <3>1, <3>2 DEF FileInv, Covers, Decoded
  <2>3. QED
    BY <1>7, <2>1, <2>2
<1>12. Goto(t, "returned") /\ alone' = alone
  BY DEF WriteProfiles
<1>13. PICK r \in Call : call' = [call EXCEPT ![t] = r] /\ r.pc = "returned"
  BY <1>1, <1>12, GotoAssigns
<1>14. StoreTypeOK' /\ call'[t] = r /\ \A u \in Caller \ {t} : call'[u] = call[u]
  BY <1>1, <1>2, <1>3, <1>5, <1>11, <1>12, <1>13 DEF StoreTypeOK
<1>15. \A u \in Caller : Persisting(u)' => Persisting(u) /\ u # t
  BY <1>13, <1>14 DEF Persisting
<1>16. AloneInv'
  BY <1>1, <1>12, <1>15 DEF AloneInv
<1>17. ReadInv'
  <2>1. ASSUME NEW u \in Caller, call'[u].pc \in {"open", "write"}
        PROVE  Covers(call'[u].read, durable')
    <3>1. u # t /\ call'[u] = call[u] /\ Persisting(u)
      BY <1>13, <1>14, <2>1 DEF Persisting
    <3>2. ~alone[t] /\ durable' = durable
      BY <1>1, <1>4, <1>5, <3>1 DEF AloneInv
    <3>3. Covers(call[u].read, durable)
      BY <1>1, <2>1, <3>1 DEF ReadInv
    <3>4. QED
      BY <3>1, <3>2, <3>3
  <2>2. QED
    BY <2>1 DEF ReadInv, Covers
<1>18. QED
  BY <1>11, <1>14, <1>16, <1>17 DEF StoreIInv

LEMMA CrashPreservesIInv == ASSUME StoreIInv, Crash PROVE StoreIInv'
<1>1. StoreTypeOK /\ FileInv /\ alone' = alone /\ durable' = durable
  BY DEF StoreIInv, Crash, historyVars
<1>2. call' = [t \in Caller |-> Idle] /\ file' \in {file, Garbage}
  BY DEF Crash
<1>3. Idle \in Call /\ Idle.pc = "idle"
  BY EmptySeq DEF Idle, Call, NoProfile, NearObjectProfile
<1>4. Garbage \in File /\ Garbage.state = "garbage"
  BY EmptySeq DEF Garbage, File
<1>5. StoreTypeOK'
  BY <1>1, <1>2, <1>3, <1>4 DEF StoreTypeOK
<1>6. FileInv'
  <2>1. CASE file' = file
    BY <1>1, <2>1 DEF FileInv, Decoded, Covers
  <2>2. CASE file' = Garbage
    BY <1>4, <2>2 DEF FileInv
  <2>3. QED
    BY <1>2, <2>1, <2>2
<1>7. \A t \in Caller : call'[t].pc = "idle"
  BY <1>2, <1>3
<1>8. QED
  BY <1>5, <1>6, <1>7 DEF StoreIInv, AloneInv, Persisting, ReadInv

LEMMA StoreNextIInv == StoreIInv /\ [StoreNext]_storeVars => StoreIInv'
<1> SUFFICES ASSUME StoreIInv, [StoreNext]_storeVars PROVE StoreIInv'
  OBVIOUS
<1>1. CASE UNCHANGED storeVars
  BY <1>1 DEF storeVars, StoreIInv, StoreTypeOK, AloneInv, Persisting, FileInv, ReadInv, Covers, Decoded
<1>2. QED
  BY <1>1, AddProfilePreservesIInv, ReadPreservesIInv, OtherPreservesIInv,
     WritePreservesIInv, CrashPreservesIInv DEF StoreNext

\* The invariant holds in every reachable state.
THEOREM StoreInvariance == StoreSpec => []StoreIInv
  BY StoreInitIInv, StoreNextIInv, PTL DEF StoreSpec

\* What a call that overlapped no other has persisted is in every list that can be
\* read later, as often as it was persisted, whatever other calls, failures and
\* deaths come after it.
THEOREM DurableStaysHolds == StoreSpec => []DurableStays
<1>1. StoreIInv => DurableStays
  BY DEF StoreIInv, FileInv, Covers, DurableStays
<1>2. QED
  BY <1>1, StoreInvariance, PTL

-----------------------------------------------------------------------------
(* An unreadable file.                                                     *)

\* What a step of a call needs to know of the calls: each has a position.
CallShape ==
    /\ DOMAIN call = Caller
    /\ \A t \in Caller : "pc" \in DOMAIN call[t]

\* A call that moves changes the position of nobody else.
LEMMA Moved ==
    ASSUME CallShape, NEW t \in Caller, NEW pc, Goto(t, pc)
    PROVE  /\ call'[t].pc = pc
           /\ \A u \in Caller \ {t} : call'[u] = call[u]
           /\ CallShape'
  BY DEF CallShape, Goto

\* The same where the whole record of a call is assigned.
LEMMA Assigned ==
    ASSUME CallShape, NEW t \in Caller, NEW r, "pc" \in DOMAIN r,
           call' = [call EXCEPT ![t] = r]
    PROVE  /\ call'[t] = r
           /\ \A u \in Caller \ {t} : call'[u] = call[u]
           /\ CallShape'
  BY DEF CallShape

\* Once a file cannot be parsed and nobody who has read the former text is about to
\* write, every AddProfile throws or returns before it opens the file
\* (NearObjectProfilePersisterFilesystem.cxx:35-45, 75): no call, failure or restart
\* makes the file readable again.
THEOREM UnreadableStaysHolds == StoreSpec => UnreadableStays
<1>1. CallShape /\ [StoreNext]_storeVars => [Broken => Broken']_storeVars
  <2> SUFFICES ASSUME CallShape, [StoreNext]_storeVars, Broken PROVE Broken'
    OBVIOUS
  <2>0. ASSUME NEW t \in Caller, NEW pc \in {"returned", "threw"}, Goto(t, pc),
               UNCHANGED file
        PROVE  Broken'
    BY <2>0, Moved DEF Broken, Unparseable
  <2>1. ASSUME NEW t \in Caller, AddProfile(t) PROVE Broken'
    <3>1. PICK p \in Profile, pc \in {"read", "returned"} :
              call' = [call EXCEPT ![t] = [pc |-> pc, profile |-> p, read |-> <<>>]]
      BY <2>1 DEF AddProfile
    <3>2. UNCHANGED file
      BY <2>1 DEF AddProfile
    <3>3. QED
      BY <3>1, <3>2, Assigned DEF Broken, Unparseable
  <2>2. ASSUME NEW t \in Caller, ReadPersistedProfiles(t) PROVE FALSE
    BY <2>2 DEF ReadPersistedProfiles, Broken
  <2>3. ASSUME NEW t \in Caller, ParseError(t) PROVE Broken'
    BY <2>0, <2>3 DEF ParseError
  <2>4. ASSUME NEW t \in Caller, FailedToOpenFile(t) PROVE Broken'
    BY <2>0, <2>4 DEF FailedToOpenFile
  <2>5. ASSUME NEW t \in Caller,
               OpenTruncates(t) \/ WriteProfiles(t) \/ WriteFails(t)
        PROVE  FALSE
    BY <2>5 DEF OpenTruncates, WriteProfiles, WriteFails, Broken
  <2>6. ASSUME NEW t \in Caller, AddReturns(t) PROVE Broken'
    BY <2>6, Assigned DEF AddReturns, Idle, Broken, Unparseable
  <2>7. CASE Crash
    <3>1. UNCHANGED file
      BY <2>7 DEF Crash, Broken
    <3>2. QED
      BY <2>7, <3>1 DEF Crash, Idle, Broken, Unparseable
  <2>8. CASE UNCHANGED storeVars
    BY <2>8 DEF storeVars, Broken, Unparseable
  <2>9. QED
    BY <2>1, <2>2, <2>3, <2>4, <2>5, <2>6, <2>7, <2>8 DEF StoreNext
<1>2. StoreIInv => CallShape
  BY DEF StoreIInv, StoreTypeOK, Call, CallShape
<1>3. QED
  BY <1>1, <1>2, StoreInvariance, PTL DEF StoreSpec, UnreadableStays

=============================================================================
