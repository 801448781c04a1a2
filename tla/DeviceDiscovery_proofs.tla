------------------------ MODULE DeviceDiscovery_proofs ------------------------
(***************************************************************************)
(* Proof, for any set of devices and any number of arrivals, departures    *)
(* and stops, that the probe and the notifications share one controller    *)
(* for each stay of a device (SharedController), that the manager's list   *)
(* is the devices present but for those that came or went between Start's  *)
(* enumeration and its registration (ListMatches), and that an agent that  *)
(* was running already leaves no present device out unless its probe fails *)
(* or is late (PresentIsListed).                                           *)
(*                                                                         *)
(* IInv gives the types and the cache. Tracked adds where the threads can  *)
(* be (Flow), what the notifications that wait say (Waiting), and one      *)
(* account of each device per stage of AddDiscoveryAgent: between the      *)
(* enumeration and the registration (WindowInv), after a Start of its own  *)
(* (DirectInv), and after a probe (ProbeInv).                              *)
(***************************************************************************)
EXTENDS DeviceDiscovery, SequenceTheorems, FiniteSetTheorems, WellFoundedInduction, TLAPS

-----------------------------------------------------------------------------
(* Lists that gain an element, or lose one.                                *)

LEMMA LessThan == IsWellFoundedOn({p \in Nat \X Nat : p[1] < p[2]}, Nat)
  BY NatLessThanWellFounded DEF OpToRel

LEMMA AppendOne ==
    ASSUME NEW S, NEW s \in Seq(S), NEW e \in S
    PROVE  /\ Append(s, e) \in Seq(S)
           /\ ToSet(Append(s, e)) = ToSet(s) \cup {e}
           /\ e \notin ToSet(s) /\ IsInjective(s) => IsInjective(Append(s, e))
<1>1. /\ Append(s, e) \in Seq(S)
      /\ Len(Append(s, e)) = Len(s) + 1
      /\ \A i \in 1..Len(s) : Append(s, e)[i] = s[i]
      /\ Append(s, e)[Len(s) + 1] = e
  BY AppendProperties
<1>2. /\ Len(s) \in Nat /\ DOMAIN s = 1..Len(s)
      /\ DOMAIN Append(s, e) = 1..(Len(s) + 1)
  BY <1>1, LenProperties
<1>3. ASSUME NEW x \in ToSet(Append(s, e))
      PROVE  x \in ToSet(s) \cup {e}
  <2>1. PICK i \in 1..(Len(s) + 1) : x = Append(s, e)[i]
    BY <1>2, <1>3 DEF ToSet
  <2>2. i \in 1..Len(s) \/ i = Len(s) + 1
    BY <1>2
  <2>3. QED
    BY <1>1, <1>2, <2>1, <2>2 DEF ToSet
<1>4. ASSUME NEW x \in ToSet(s) \cup {e}
      PROVE  x \in ToSet(Append(s, e))
  <2>1. CASE x = e
    BY <1>1, <1>2, <2>1, Len(s) + 1 \in 1..(Len(s) + 1) DEF ToSet
  <2>2. CASE x \in ToSet(s)
    <3>1. PICK i \in 1..Len(s) : x = s[i]
      BY <1>2, <2>2 DEF ToSet
    <3>2. i \in 1..(Len(s) + 1) /\ x = Append(s, e)[i]
      BY <1>1, <1>2, <3>1
    <3>3. QED
      BY <1>2, <3>2 DEF ToSet
  <2>3. QED
    BY <1>4, <2>1, <2>2
<1>5. ASSUME e \notin ToSet(s), IsInjective(s),
             NEW i \in 1..(Len(s) + 1), NEW j \in 1..(Len(s) + 1),
             Append(s, e)[i] = Append(s, e)[j]
      PROVE  i = j
  <2>1. \A k \in 1..Len(s) : s[k] # e
    BY <1>2, <1>5 DEF ToSet
  <2>2. \A k, l \in 1..Len(s) : s[k] = s[l] => k = l
    BY <1>2, <1>5 DEF IsInjective
  <2>3. /\ i \in 1..Len(s) \/ i = Len(s) + 1
        /\ j \in 1..Len(s) \/ j = Len(s) + 1
    BY <1>2
  <2>4. QED
    BY <1>1, <1>5, <2>1, <2>2, <2>3
<1>6. e \notin ToSet(s) /\ IsInjective(s) => IsInjective(Append(s, e))
  BY <1>2, <1>5 DEF IsInjective
<1>7. QED
  BY <1>1, <1>3, <1>4, <1>6

\* The least element that Min chooses is one of the set.
LEMMA LeastElement ==
    ASSUME NEW I, I \subseteq Nat, I # {}
    PROVE  Min(I) \in I
<1> DEFINE R == {p \in Nat \X Nat : p[1] < p[2]}
<1>1. \E x \in I : \A y \in I : ~ (<<y, x>> \in R)
  <2> IsWellFoundedOn(R, Nat)
    BY LessThan
  <2> HIDE DEF R
  <2> QED
    BY WFMin
<1>2. PICK x \in I : \A y \in I : ~ (<<y, x>> \in R)
  BY <1>1
<1>3. \A y \in I : x <= y
  <2> TAKE y \in I
  <2>1. <<y, x>> \notin R
    BY <1>2
  <2>2. x \in Nat /\ y \in Nat
    OBVIOUS
  <2>3. QED
    BY <2>1, <2>2
<1>4. QED
  BY <1>3 DEF Min

LEMMA RemoveOne ==
    ASSUME NEW S, NEW s \in Seq(S), NEW i \in 1..Len(s)
    PROVE  /\ RemoveAt(s, i) \in Seq(S)
           /\ ToSet(RemoveAt(s, i)) \subseteq ToSet(s)
           /\ Len(RemoveAt(s, i)) = Len(s) - 1
           /\ \A j \in 1..(Len(s) - 1) :
                 RemoveAt(s, i)[j] = IF j < i THEN s[j] ELSE s[j + 1]
<1> DEFINE l == SubSeq(s, 1, i-1)
           r == SubSeq(s, i+1, Len(s))
<1>1. /\ l \in Seq(S) /\ Len(l) = i - 1
      /\ \A j \in 1..(i-1) : l[j] = s[j]
  BY SubSeqProperties
<1>2. /\ r \in Seq(S) /\ Len(r) = Len(s) - i
      /\ \A j \in 1..(Len(s) - i) : r[j] = s[i + j]
  BY SubSeqProperties
<1> HIDE DEF l, r
<1>3. /\ l \o r \in Seq(S)
      /\ Len(l \o r) = Len(l) + Len(r)
      /\ \A j \in 1..(Len(l) + Len(r)) :
            (l \o r)[j] = IF j <= Len(l) THEN l[j] ELSE r[j - Len(l)]
  BY <1>1, <1>2, ConcatProperties
<1>4. RemoveAt(s, i) = l \o r
  BY DEF RemoveAt, l, r
<1>5. Len(s) \in Nat /\ Len(l) + Len(r) = Len(s) - 1 /\ DOMAIN s = 1..Len(s)
  BY <1>1, <1>2, LenProperties
<1>6. ASSUME NEW j \in 1..(Len(s) - 1)
      PROVE  (l \o r)[j] = IF j < i THEN s[j] ELSE s[j + 1]
  <2>1. CASE j < i
    <3>1. j \in 1..(i - 1) /\ j <= Len(l)
      BY <1>1, <1>5, <2>1
    <3>2. QED
      BY <1>1, <1>3, <1>5, <2>1, <3>1
  <2>2. CASE ~(j < i)
    <3>1. j - (i - 1) \in 1..(Len(s) - i) /\ ~(j <= i - 1)
      BY <1>5, <2>2
    <3>2. (l \o r)[j] = r[j - (i - 1)]
      BY <1>1, <1>3, <1>5, <3>1
    <3>3. i + (j - (i - 1)) = j + 1
      BY <1>5
    <3>4. QED
      BY <1>2, <2>2, <3>1, <3>2, <3>3
  <2>3. QED
    BY <2>1, <2>2
<1>7. ASSUME NEW x \in ToSet(l \o r) PROVE x \in ToSet(s)
  <2>1. PICK j \in 1..(Len(s) - 1) : x = (l \o r)[j]
    BY <1>3, <1>5, <1>7, LenProperties DEF ToSet
  <2>2. j \in DOMAIN s /\ j + 1 \in DOMAIN s
    BY <1>5
  <2>3. x = s[j] \/ x = s[j + 1]
    BY <1>6, <2>1
  <2>4. QED
    BY <2>2, <2>3 DEF ToSet
<1>8. QED
  BY <1>3, <1>4, <1>5, <1>6, <1>7

LEMMA TakeHead ==
    ASSUME NEW S, NEW s \in Seq(S), s # <<>>
    PROVE  /\ Head(s) \in S /\ Tail(s) \in Seq(S)
           /\ Head(s) \in ToSet(s) /\ ToSet(Tail(s)) \subseteq ToSet(s)
<1>1. /\ Tail(s) \in Seq(S) /\ Head(s) = s[1] /\ Len(Tail(s)) = Len(s) - 1
      /\ \A i \in 1..Len(Tail(s)) : Tail(s)[i] = s[i + 1]
      /\ Len(s) \in Nat \ {0} /\ DOMAIN s = 1..Len(s) /\ s[1] \in S
  BY HeadTailProperties, EmptySeq, LenProperties
<1>2. Head(s) \in ToSet(s)
  BY <1>1 DEF ToSet
<1>3. ASSUME NEW i \in DOMAIN Tail(s) PROVE Tail(s)[i] \in ToSet(s)
  <2>1. i \in 1..Len(Tail(s)) /\ i + 1 \in 1..Len(s)
    BY <1>1, <1>3, LenProperties
  <2>2. Tail(s)[i] = s[i + 1]
    BY <1>1, <2>1
  <2>3. QED
    BY <1>1, <2>1, <2>2 DEF ToSet
<1>4. ToSet(Tail(s)) \subseteq ToSet(s)
  BY <1>3 DEF ToSet
<1>5. QED
  BY <1>1, <1>2, <1>4

-----------------------------------------------------------------------------
(* How often a device is in a list of controllers.                         *)

CopiesOf(s, d) == Cardinality({i \in DOMAIN s : s[i][1] = d})

LEMMA CopiesAt ==
    ASSUME NEW S, NEW s \in Seq(S), NEW d
    PROVE  /\ IsFiniteSet({i \in DOMAIN s : s[i][1] = d})
           /\ CopiesOf(s, d) \in Nat
           /\ CopiesOf(s, d) >= 1 <=> \E c \in ToSet(s) : c[1] = d
<1> DEFINE At == {i \in DOMAIN s : s[i][1] = d}
<1>1. Len(s) \in Nat /\ DOMAIN s = 1..Len(s)
  BY LenProperties
<1>2. IsFiniteSet(1..Len(s))
  BY <1>1, FS_Interval
<1>3. IsFiniteSet(At)
  BY <1>1, <1>2, FS_Subset
<1>4. Cardinality(At) \in Nat /\ (Cardinality(At) = 0 <=> At = {})
  <2> HIDE DEF At
  <2> QED
    BY <1>3, FS_CardinalityType, FS_EmptySet
<1>5. At # {} <=> \E c \in ToSet(s) : c[1] = d
  BY DEF ToSet
<1>6. QED
  BY <1>3, <1>4, <1>5 DEF CopiesOf

LEMMA CopiesEmpty == ASSUME NEW d PROVE CopiesOf(<<>>, d) = 0
<1>1. {i \in DOMAIN <<>> : <<>>[i][1] = d} = {}
  OBVIOUS
<1>2. QED
  BY <1>1, FS_EmptySet DEF CopiesOf

LEMMA CopiesAppend ==
    ASSUME NEW S, NEW s \in Seq(S), NEW c \in S, NEW d
    PROVE  CopiesOf(Append(s, c), d) = CopiesOf(s, d) + One(c[1] = d)
<1> DEFINE At == {i \in DOMAIN s : s[i][1] = d}
           n == Len(s) + 1
<1>1. Len(s) \in Nat /\ DOMAIN s = 1..Len(s)
  BY LenProperties
<1>2. /\ DOMAIN Append(s, c) = 1..n
      /\ Append(s, c)[n] = c
      /\ \A i \in 1..Len(s) : Append(s, c)[i] = s[i]
  BY AppendProperties, LenProperties
<1>3. {i \in DOMAIN Append(s, c) : Append(s, c)[i][1] = d} =
          IF c[1] = d THEN At \cup {n} ELSE At
  <2>1. ASSUME NEW i
        PROVE  i \in DOMAIN Append(s, c) /\ Append(s, c)[i][1] = d
                   <=> i \in At \/ (i = n /\ c[1] = d)
    BY <1>1, <1>2
  <2>2. QED
    BY <2>1
<1>4. IsFiniteSet(At) /\ n \notin At /\ Cardinality(At) \in Nat
  <2>1. n \notin DOMAIN s
    BY <1>1
  <2>2. QED
    BY <2>1, CopiesAt DEF CopiesOf
<1>5. Cardinality(At \cup {n}) = Cardinality(At) + 1
  <2> HIDE DEF At, n
  <2>1. QED
    BY <1>4, FS_AddElement
<1>6. CopiesOf(Append(s, c), d) = Cardinality(IF c[1] = d THEN At \cup {n} ELSE At)
  BY <1>3 DEF CopiesOf
<1>7. CopiesOf(s, d) = Cardinality(At)
  BY DEF CopiesOf
<1> HIDE DEF At, n
<1>8. QED
  BY <1>4, <1>5, <1>6, <1>7 DEF One

\* An element taken out of the list was one copy of its device.
LEMMA CopiesTaken ==
    ASSUME NEW S, NEW s \in Seq(S), NEW i \in 1..Len(s), NEW d
    PROVE  CopiesOf(RemoveAt(s, i), d) = CopiesOf(s, d) - One(s[i][1] = d)
<1> DEFINE t == RemoveAt(s, i)
           At == {j \in DOMAIN s : s[j][1] = d}
           Left == {j \in DOMAIN t : t[j][1] = d}
           f == [j \in Left |-> IF j < i THEN j ELSE j + 1]
<1>1. Len(s) \in Nat /\ DOMAIN s = 1..Len(s)
  BY LenProperties
<1>2. /\ DOMAIN t = 1..(Len(s) - 1)
      /\ \A j \in 1..(Len(s) - 1) : t[j] = IF j < i THEN s[j] ELSE s[j + 1]
  BY RemoveOne, LenProperties
<1>3. f \in [Left -> At \ {i}]
  <2>1. ASSUME NEW j \in Left PROVE f[j] \in At \ {i}
    <3>1. j \in 1..(Len(s) - 1) /\ t[j][1] = d
      BY <1>2
    <3>2. CASE j < i
      <4>1. j \in DOMAIN s /\ j # i /\ t[j] = s[j]
        BY <1>1, <1>2, <3>1, <3>2
      <4>2. QED
        BY <3>1, <3>2, <4>1
    <3>3. CASE ~(j < i)
      <4>1. j + 1 \in DOMAIN s /\ j + 1 # i /\ t[j] = s[j + 1]
        BY <1>1, <1>2, <3>1, <3>3
      <4>2. QED
        BY <3>1, <3>3, <4>1
    <3>4. QED
      BY <3>2, <3>3
  <2>2. QED
    BY <2>1
<1>4. \A j, k \in Left : f[j] = f[k] => j = k
  BY <1>1, <1>2
<1>5. ASSUME NEW k \in At \ {i} PROVE \E j \in Left : f[j] = k
  <2>1. k \in 1..Len(s) /\ k # i /\ s[k][1] = d
    BY <1>1
  <2>2. CASE k < i
    <3>1. k \in 1..(Len(s) - 1) /\ t[k] = s[k]
      BY <1>1, <1>2, <2>1, <2>2
    <3>2. k \in Left
      BY <1>2, <2>1, <3>1
    <3>3. QED
      BY <2>2, <3>2
  <2>3. CASE ~(k < i)
    <3>1. k - 1 \in 1..(Len(s) - 1) /\ ~(k - 1 < i) /\ k - 1 + 1 = k
      BY <1>1, <2>1, <2>3
    <3>2. t[k - 1] = s[k]
      BY <1>2, <3>1
    <3>3. k - 1 \in Left
      BY <1>2, <2>1, <3>1, <3>2
    <3>4. f[k - 1] = k
      BY <3>1, <3>3
    <3>5. QED
      BY <3>3, <3>4
  <2>4. QED
    BY <2>2, <2>3
<1>6. /\ IsFiniteSet(At) /\ IsFiniteSet(Left)
      /\ CopiesOf(s, d) = Cardinality(At) /\ CopiesOf(t, d) = Cardinality(Left)
  <2>1. t \in Seq(S)
    BY RemoveOne
  <2>2. CopiesOf(s, d) = Cardinality(At) /\ CopiesOf(t, d) = Cardinality(Left)
    BY DEF CopiesOf
  <2>3. IsFiniteSet(At)
    BY CopiesAt
  <2> HIDE DEF t
  <2>4. IsFiniteSet(Left)
    BY <2>1, CopiesAt
  <2>5. QED
    BY <2>2, <2>3, <2>4 DEF t
<1>7. i \in At <=> s[i][1] = d
  BY <1>1
<1> HIDE DEF At, Left, f, t
<1>8. f \in Bijection(Left, At \ {i})
  <2>1. f \in Injection(Left, At \ {i})
    BY <1>3, <1>4 DEF Injection, IsInjective
  <2>2. f \in Surjection(Left, At \ {i})
    BY <1>3, <1>5 DEF Surjection
  <2>3. QED
    BY <2>1, <2>2 DEF Bijection
<1>9. Cardinality(At \ {i}) = Cardinality(Left)
  <2>1. ExistsBijection(Left, At \ {i})
    BY <1>8 DEF ExistsBijection
  <2>2. QED
    BY <1>6, <2>1, FS_Bijection
<1>10. Cardinality(At \ {i}) = IF i \in At THEN Cardinality(At) - 1 ELSE Cardinality(At)
  BY <1>6, FS_RemoveElement
<1>11. Cardinality(At) \in Nat
  BY <1>6, FS_CardinalityType
<1>12. QED
  BY <1>6, <1>7, <1>9, <1>10, <1>11 DEF One, t

\* A departure takes one copy of the device out of the manager's list, if there is
\* one, and none of any other device.
LEMMA CopiesRemoved ==
    ASSUME NEW S, NEW s \in Seq(S), NEW c
    PROVE  /\ \A d : CopiesOf(RemoveDevice(s, c), d) =
                        CopiesOf(s, d) - One(d = c[1] /\ CopiesOf(s, d) >= 1)
           /\ \A e \in ToSet(s) : e[1] # c[1] => e \in ToSet(RemoveDevice(s, c))
<1> DEFINE I == {i \in 1..Len(s) : s[i][1] = c[1]}
<1>1. RemoveDevice(s, c) =
          IF \E i \in 1..Len(s) : s[i][1] = c[1]
          THEN RemoveAt(s, IF I # {} THEN Min(I) ELSE 0) ELSE s
  BY DEF RemoveDevice, RemoveFirstMatch, SelectInSeq
<1>2. Len(s) \in Nat /\ DOMAIN s = 1..Len(s)
  BY LenProperties
<1>3. I # {} <=> \E e \in ToSet(s) : e[1] = c[1]
  BY <1>2 DEF ToSet
<1>4. \A d : CopiesOf(s, d) \in Nat /\ (CopiesOf(s, d) >= 1 <=> \E e \in ToSet(s) : e[1] = d)
  BY CopiesAt
<1>5. CASE I = {}
  <2>1. RemoveDevice(s, c) = s
    BY <1>1, <1>5
  <2>2. \A d : ~(d = c[1] /\ CopiesOf(s, d) >= 1)
    BY <1>3, <1>4, <1>5
  <2>3. QED
    BY <1>4, <2>1, <2>2 DEF One
<1>6. CASE I # {}
  <2>1. Min(I) \in I
    <3>1. I \subseteq Nat
      OBVIOUS
    <3> HIDE DEF I
    <3>2. QED
      BY <1>6, <3>1, LeastElement
  <2>2. PICK m \in 1..Len(s) : s[m][1] = c[1] /\ RemoveDevice(s, c) = RemoveAt(s, m)
    BY <1>1, <1>6, <2>1
  <2>3. ASSUME NEW d
        PROVE  CopiesOf(RemoveDevice(s, c), d) =
                  CopiesOf(s, d) - One(d = c[1] /\ CopiesOf(s, d) >= 1)
    <3>1. CopiesOf(RemoveAt(s, m), d) = CopiesOf(s, d) - One(s[m][1] = d)
      BY CopiesTaken
    <3>2. s[m][1] = d <=> d = c[1] /\ CopiesOf(s, d) >= 1
      BY <1>3, <1>4, <1>6, <2>2
    <3>3. QED
      BY <2>2, <3>1, <3>2 DEF One
  <2>4. ASSUME NEW e \in ToSet(s), e[1] # c[1]
        PROVE  e \in ToSet(RemoveDevice(s, c))
    <3>1. PICK k \in 1..Len(s) : e = s[k]
      BY <1>2, <2>4 DEF ToSet
    <3>2. k # m
      BY <2>2, <2>4, <3>1
    <3>3. /\ DOMAIN RemoveAt(s, m) = 1..(Len(s) - 1)
          /\ \A j \in 1..(Len(s) - 1) : RemoveAt(s, m)[j] = IF j < m THEN s[j] ELSE s[j + 1]
      BY RemoveOne, LenProperties
    <3>4. CASE k < m
      <4>1. k \in 1..(Len(s) - 1) /\ RemoveAt(s, m)[k] = s[k]
        BY <1>2, <3>3, <3>4
      <4>2. QED
        BY <2>2, <3>1, <3>3, <4>1 DEF ToSet
    <3>5. CASE ~(k < m)
      <4>1. k - 1 \in 1..(Len(s) - 1) /\ ~(k - 1 < m) /\ k - 1 + 1 = k
        BY <1>2, <3>2, <3>5
      <4>2. RemoveAt(s, m)[k - 1] = s[k]
        BY <3>3, <4>1
      <4>3. QED
        BY <2>2, <3>1, <3>3, <4>1, <4>2 DEF ToSet
    <3>6. QED
      BY <3>4, <3>5
  <2>5. QED
    BY <2>3, <2>4
<1>7. QED
  BY <1>5, <1>6

-----------------------------------------------------------------------------
(* The invariant.                                                          *)

Controllers == Device \X Nat
Event == [type : {"Arrived", "Departed"}, device : Device]

CacheTypes ==
    /\ cache \in [Device -> Nat]
    /\ made \in [Device -> Nat]
    /\ since \in [Device -> Nat]

ThreadTypes ==
    /\ {"pc", "ret", "room", "names", "found"} \subseteq DOMAIN user
    /\ user.names \subseteq Device
    /\ user.found \in Seq(Controllers)
    /\ {"pc", "room", "names", "found"} \subseteq DOMAIN probe
    /\ probe.names \subseteq Device
    /\ probe.found \in Seq(Controllers)

NotifierTypes ==
    /\ {"pc", "event", "controller"} \subseteq DOMAIN notifier
    /\ IF notifier.pc \in {"calling", "inside"}
       THEN notifier.event \in {"Arrived", "Departed"} /\ notifier.controller \in Controllers
       ELSE notifier.controller = None

Types ==
    /\ present \subseteq Device
    /\ events \in Seq(Event)
    /\ m_nearObjectDevices \in Seq(Controllers)
    /\ CacheTypes /\ ThreadTypes /\ NotifierTypes

\* The cache names the latest object made for a device, or none.
Latest == \A d \in Device : cache[d] \in {0, made[d]}

\* An object that has been made, and that the cache has if the device has not left
\* since.
Known(c) ==
    /\ c[2] \in 1..made[c[1]]
    /\ c[2] > since[c[1]] => cache[c[1]] = c[2]

\* A step that reuses or makes an object looks at every place that may hold one.
LiveKnown == \A c \in Live : c # None => Known(c)

IInv == Types /\ Latest /\ LiveKnown

LEMMA LiveType ==
    ASSUME Types
    PROVE  \A c \in Live : c # None => c \in Controllers
  BY DEF Types, ThreadTypes, NotifierTypes, Live, ToSet

LEMMA InitIInv == Init => IInv
<1> SUFFICES ASSUME Init PROVE IInv
  OBVIOUS
<1>1. <<>> \in Seq(Controllers) /\ <<>> \in Seq(Event) /\ ToSet(<<>>) = {}
  BY DEF ToSet
<1>2. CacheTypes
  BY DEF Init, CacheTypes
<1>3. ThreadTypes
  BY <1>1 DEF Init, ThreadTypes
<1>4. NotifierTypes
  BY DEF Init, NotifierTypes
<1>5. Live = {None}
  BY <1>1 DEF Init, Live
<1>6. QED
  BY <1>1, <1>2, <1>3, <1>4, <1>5 DEF Init, IInv, Types, Latest, LiveKnown

-----------------------------------------------------------------------------
(* What a step may do to the cache.                                        *)

\* Objects may be dropped; the cache stays.
LEMMA CacheKept ==
    ASSUME IInv, UNCHANGED <<cache, made, since>>, Live' \subseteq Live \cup {None}
    PROVE  CacheTypes' /\ Latest' /\ LiveKnown'
  BY DEF IInv, Types, CacheTypes, Latest, LiveKnown, Known

\* AddCachedUwbNearObjectDevice: the object it returns is the only one of the device
\* that no departure has been reported for.
LEMMA ControllerAdded ==
    ASSUME IInv, NEW d \in Device, NEW c, c = Controller(d),
           AddCachedUwbNearObjectDevice(d, c), UNCHANGED since,
           Live' \subseteq Live \cup {c, None}
    PROVE  c \in Controllers /\ CacheTypes' /\ Latest' /\ LiveKnown'
<1>0. /\ cache \in [Device -> Nat] /\ made \in [Device -> Nat] /\ since \in [Device -> Nat]
      /\ \A e \in Device : cache[e] \in {0, made[e]}
      /\ \A e \in Live : e # None => e \in Controllers /\ Known(e)
  BY LiveType DEF IInv, Types, CacheTypes, Latest, LiveKnown
<1>1. /\ c[1] = d /\ c[2] \in Nat \ {0} /\ c \in Controllers /\ c # None
      /\ \/ c[2] = cache[d] /\ c[2] = made[d]
         \/ c[2] = made[d] + 1 /\ (cache[d] = 0 \/ <<d, cache[d]>> \notin Live)
  BY <1>0 DEF Controller, CachedController, Controllers, None
<1>2. /\ cache' = [cache EXCEPT ![d] = c[2]]
      /\ made' = [made EXCEPT ![d] = c[2]]
      /\ since' = since
  BY DEF AddCachedUwbNearObjectDevice
<1>3. CacheTypes'
  BY <1>0, <1>1, <1>2 DEF CacheTypes
<1>4. Latest'
  BY <1>0, <1>1, <1>2 DEF Latest
<1>5. ASSUME NEW e \in Live', e # None PROVE Known(e)'
  <2>1. CASE e = c
    BY <1>0, <1>1, <1>2, <2>1 DEF Known
  <2>2. CASE e # c
    <3>1. e \in Live /\ e \in Controllers /\ Known(e)
      BY <1>0, <1>5, <2>2
    <3>2. CASE e[1] # d
      BY <1>0, <1>2, <3>1, <3>2 DEF Known, Controllers
    <3>3. CASE e[1] = d
      <4>1. e[2] \in 1..made[d] /\ e = <<d, e[2]>>
        BY <3>1, <3>3 DEF Known, Controllers
      <4>2. ~(e[2] > since[d])
        <5>1. SUFFICES ASSUME e[2] > since[d] PROVE FALSE
          OBVIOUS
        <5>2. cache[d] = e[2]
          BY <3>1, <3>3, <5>1 DEF Known
        <5>3. c[2] = cache[d]
          BY <1>0, <1>1, <3>1, <4>1, <5>2
        <5>4. c = <<d, c[2]>>
          BY <1>1 DEF Controllers
        <5>5. QED
          BY <2>2, <4>1, <5>2, <5>3, <5>4
      <4>3. e[2] \in 1..c[2]
        BY <1>0, <1>1, <4>1
      <4>4. QED
        BY <1>0, <1>2, <3>3, <4>2, <4>3 DEF Known
    <3>4. QED
      BY <3>2, <3>3
  <2>3. QED
    BY <2>1, <2>2
<1>6. LiveKnown'
  BY <1>5 DEF LiveKnown
<1>7. QED
  BY <1>1, <1>3, <1>4, <1>6

\* ExtractCachedNearObjectDevice: every object of the device is now of the past.
LEMMA ControllerExtracted ==
    ASSUME IInv, NEW d \in Device, cache' = [cache EXCEPT ![d] = 0], UNCHANGED made,
           since' = [since EXCEPT ![d] = made[d]], Live' \subseteq Live \cup {None}
    PROVE  CacheTypes' /\ Latest' /\ LiveKnown'
<1>0. /\ cache \in [Device -> Nat] /\ made \in [Device -> Nat] /\ since \in [Device -> Nat]
      /\ \A e \in Device : cache[e] \in {0, made[e]}
      /\ \A e \in Live : e # None => e \in Controllers /\ Known(e)
  BY LiveType DEF IInv, Types, CacheTypes, Latest, LiveKnown
<1>1. CacheTypes'
  BY <1>0 DEF CacheTypes
<1>2. Latest'
  BY <1>0 DEF Latest
<1>3. ASSUME NEW e \in Live', e # None PROVE Known(e)'
  <2>1. e \in Live /\ e \in Controllers /\ Known(e)
    BY <1>0, <1>3
  <2>2. e[1] \in Device /\ e[2] \in Nat
    BY <2>1 DEF Controllers
  <2>3. CASE e[1] = d
    BY <1>0, <2>1, <2>2, <2>3 DEF Known
  <2>4. CASE e[1] # d
    BY <1>0, <2>1, <2>2, <2>4 DEF Known
  <2>5. QED
    BY <2>3, <2>4
<1>4. QED
  BY <1>1, <1>2, <1>3 DEF LiveKnown

\* The manager's list after a notification.
LEMMA ListChanged ==
    ASSUME NEW list \in Seq(Controllers), NEW c \in Controllers,
           NEW presence \in {"Arrived", "Departed"}
    PROVE  /\ OnDevicePresenceChanged(list, presence, c) \in Seq(Controllers)
           /\ ToSet(OnDevicePresenceChanged(list, presence, c)) \subseteq ToSet(list) \cup {c}
<1>1. CASE presence = "Arrived"
  BY <1>1, AppendOne DEF OnDevicePresenceChanged, AddDevice
<1>2. CASE presence = "Departed"
  <2> DEFINE I == {i \in 1..Len(list) : list[i][1] = c[1]}
  <2>1. RemoveDevice(list, c) =
            IF \E i \in 1..Len(list) : list[i][1] = c[1]
            THEN RemoveAt(list, IF I # {} THEN Min(I) ELSE 0) ELSE list
    BY DEF RemoveDevice, RemoveFirstMatch, SelectInSeq
  <2>2. CASE I = {}
    BY <1>2, <2>1, <2>2 DEF OnDevicePresenceChanged
  <2>3. CASE I # {}
    <3>1. Min(I) \in I
      <4>1. I \subseteq Nat
        OBVIOUS
      <4> HIDE DEF I
      <4>2. QED
        BY <2>3, <4>1, LeastElement
    <3>2. RemoveDevice(list, c) = RemoveAt(list, Min(I))
      BY <2>1, <2>3, <3>1
    <3>3. QED
      BY <1>2, <3>1, <3>2, RemoveOne DEF OnDevicePresenceChanged
  <2>4. QED
    BY <2>2, <2>3
<1>3. QED
  BY <1>1, <1>2

-----------------------------------------------------------------------------
(* The steps.                                                              *)

\* Those that handle no controller.
LEMMA ControlSteps ==
    ASSUME IInv,
           \/ UserStart \/ Stop \/ EnumerateSize \/ EnumerateList \/ Register
           \/ RegisterDiscoveryEventCallback \/ AddDiscoveryAgent \/ ProbeSize \/ ProbeList
           \/ ProbeReady \/ ProbeTimeout \/ LockManager \/ Release
    PROVE  IInv'
<1> USE DEF IInv, Types
<1>1. /\ UNCHANGED <<present, m_nearObjectDevices, cache, made, since>>
      /\ events' = events \/ events' = <<>>
  BY DEF UserStart, Start, Stop, EnumerateSize, EnumerateList, Register,
         RegisterDiscoveryEventCallback, AddDiscoveryAgent, ProbeSize, ProbeList,
         ProbeReady, ProbeTimeout, LockManager, Release, agentVars, historyVars
<1>2. Listed(user.room) \subseteq Device /\ Listed(probe.room) \subseteq Device
  BY DEF Listed
<1>3. ThreadTypes' /\ user.found' = user.found /\ probe.found' = probe.found
  BY <1>2 DEF UserStart, Start, Stop, EnumerateSize, EnumerateList, Register,
         RegisterDiscoveryEventCallback, AddDiscoveryAgent, ProbeSize, ProbeList,
         ProbeReady, ProbeTimeout, LockManager, Release, ThreadTypes
<1>4. NotifierTypes' /\ notifier.controller' \in {notifier.controller, None}
  <2>1. CASE LockManager
    BY <2>1 DEF LockManager, Returned, NotifierTypes
  <2>2. CASE ~LockManager
    BY <2>2 DEF UserStart, Start, Stop, EnumerateSize, EnumerateList, Register,
         RegisterDiscoveryEventCallback, AddDiscoveryAgent, ProbeSize, ProbeList,
         ProbeReady, ProbeTimeout, Release, NotifierTypes
  <2>3. QED
    BY <2>1, <2>2
<1>5. Live' \subseteq Live \cup {None}
  BY <1>1, <1>3, <1>4 DEF Live
<1>6. events' \in Seq(Event)
  <2>1. <<>> \in Seq(Event)
    OBVIOUS
  <2>2. QED
    BY <1>1, <2>1
<1>7. CacheTypes' /\ Latest' /\ LiveKnown'
  BY <1>1, <1>5, CacheKept
<1>8. QED
  BY <1>1, <1>3, <1>4, <1>6, <1>7

LEMMA DeviceMoves ==
    ASSUME IInv, NEW d \in Device, Arrive(d) \/ Depart(d)
    PROVE  IInv'
<1> USE DEF IInv, Types
<1>1. /\ UNCHANGED <<m_nearObjectDevices, cache, made, since, user, probe, notifier>>
      /\ present' \subseteq Device
  BY DEF Arrive, Depart, Change, agentVars
<1>2. events' \in Seq(Event)
  <2>1. PICK e \in Event : events' = events \/ events' = Append(events, e)
    BY DEF Arrive, Depart, Change, Notify, Event
  <2>2. QED
    BY <2>1
<1>3. Live' = Live
  BY <1>1 DEF Live
<1>4. CacheTypes' /\ Latest' /\ LiveKnown'
  BY <1>1, <1>3, CacheKept
<1>5. QED
  BY <1>1, <1>2, <1>4 DEF ThreadTypes, NotifierTypes

\* Those that hand objects on.
LEMMA HandOver ==
    ASSUME IInv, GetProbeResult \/ DestroyFuture \/ AddExisting \/ DestroyAgent
    PROVE  IInv'
<1> USE DEF IInv, Types
<1>1. /\ UNCHANGED <<present, cache, made, since, notifier>>
      /\ events' = events \/ events' = <<>>
  BY DEF GetProbeResult, DestroyFuture, AddExisting, DestroyAgent, agentVars, historyVars
<1>2. ToSet(<<>>) = {} /\ <<>> \in Seq(Controllers)
  BY DEF ToSet
<1>3. ThreadTypes' /\ m_nearObjectDevices' \in Seq(Controllers) /\ Live' \subseteq Live
  <2>1. CASE GetProbeResult
    BY <1>1, <1>2, <2>1 DEF GetProbeResult, ThreadTypes, Live
  <2>2. CASE DestroyFuture
    BY <1>1, <1>2, <2>2 DEF DestroyFuture, ThreadTypes, Live
  <2>3. CASE AddExisting
    <3>1. CASE user.found = <<>>
      BY <1>1, <2>3, <3>1 DEF AddExisting, ThreadTypes, Live
    <3>2. CASE user.found # <<>>
      <4>1. /\ Head(user.found) \in Controllers /\ Tail(user.found) \in Seq(Controllers)
            /\ Head(user.found) \in ToSet(user.found)
            /\ ToSet(Tail(user.found)) \subseteq ToSet(user.found)
        BY <3>2, TakeHead DEF ThreadTypes
      <4>2. /\ Append(m_nearObjectDevices, Head(user.found)) \in Seq(Controllers)
            /\ ToSet(Append(m_nearObjectDevices, Head(user.found))) =
                 ToSet(m_nearObjectDevices) \cup {Head(user.found)}
        BY <4>1, AppendOne
      <4>3. QED
        BY <1>1, <2>3, <3>2, <4>1, <4>2 DEF AddExisting, AddDevice, ThreadTypes, Live
    <3>3. QED
      BY <3>1, <3>2
  <2>4. CASE DestroyAgent
    BY <1>1, <1>2, <2>4 DEF DestroyAgent, ThreadTypes, Live
  <2>5. QED
    BY <2>1, <2>2, <2>3, <2>4
<1>4. CacheTypes' /\ Latest' /\ LiveKnown'
  BY <1>1, <1>3, CacheKept
<1>5. events' \in Seq(Event)
  <2>1. <<>> \in Seq(Event)
    OBVIOUS
  <2>2. QED
    BY <1>1, <2>1
<1>6. QED
  BY <1>1, <1>3, <1>4, <1>5 DEF NotifierTypes

LEMMA ManagerCalled ==
    ASSUME IInv, ReturnFromManager
    PROVE  IInv'
<1> USE DEF IInv, Types
<1>1. UNCHANGED <<present, events, cache, made, since, user, probe>>
  BY DEF ReturnFromManager, agentVars, historyVars
<1>2. /\ notifier.event \in {"Arrived", "Departed"} /\ notifier.controller \in Controllers
      /\ m_nearObjectDevices' = OnDevicePresenceChanged(m_nearObjectDevices, notifier.event,
                                                       notifier.controller)
  BY DEF ReturnFromManager, NotifierTypes
<1>3. /\ m_nearObjectDevices' \in Seq(Controllers)
      /\ ToSet(m_nearObjectDevices') \subseteq
           ToSet(m_nearObjectDevices) \cup {notifier.controller}
  BY <1>2, ListChanged
<1>4. NotifierTypes' /\ notifier.controller' = None
  BY DEF ReturnFromManager, Returned, NotifierTypes
<1>5. Live' \subseteq Live \cup {None}
  BY <1>1, <1>3, <1>4 DEF Live
<1>6. CacheTypes' /\ Latest' /\ LiveKnown'
  BY <1>1, <1>5, CacheKept
<1>7. QED
  BY <1>1, <1>3, <1>4, <1>6 DEF ThreadTypes

\* Those that look a controller up in the cache.
LEMMA Enumerated ==
    ASSUME IInv, EnumerateEach
    PROVE  IInv'
<1> USE DEF IInv, Types
<1>1. /\ UNCHANGED <<present, events, since, probe, notifier>>
      /\ user.found' = user.found /\ ThreadTypes'
  BY DEF EnumerateEach, historyVars, ThreadTypes
<1>2. PICK d \in Device :
         /\ AddCachedUwbNearObjectDevice(d, Controller(d))
         /\ m_nearObjectDevices' =
              IF callback
              THEN OnDevicePresenceChanged(m_nearObjectDevices, "Arrived", Controller(d))
              ELSE m_nearObjectDevices
  BY DEF EnumerateEach, ThreadTypes
<1> DEFINE c == Controller(d)
<1>3. c \in Controllers
  BY DEF Controller, CachedController, Controllers, CacheTypes
<1> HIDE DEF c
<1>4. /\ m_nearObjectDevices' \in Seq(Controllers)
      /\ ToSet(m_nearObjectDevices') \subseteq ToSet(m_nearObjectDevices) \cup {c}
  BY <1>2, <1>3, ListChanged DEF c
<1>5. Live' \subseteq Live \cup {c, None}
  BY <1>1, <1>4 DEF Live
<1>6. CacheTypes' /\ Latest' /\ LiveKnown'
  BY <1>1, <1>2, <1>5, ControllerAdded DEF c
<1>7. QED
  BY <1>1, <1>4, <1>6 DEF NotifierTypes

LEMMA Probed ==
    ASSUME IInv, ProbeEach
    PROVE  IInv'
<1> USE DEF IInv, Types
<1>1. UNCHANGED <<present, events, since, m_nearObjectDevices, user, notifier>>
  BY DEF ProbeEach, historyVars
<1>2. PICK d \in Device :
         /\ AddCachedUwbNearObjectDevice(d, Controller(d))
         /\ probe' = [probe EXCEPT !.names = @ \ {d}, !.found = Append(@, Controller(d))]
  BY DEF ProbeEach, ThreadTypes
<1> DEFINE c == Controller(d)
<1>3. c \in Controllers
  BY DEF Controller, CachedController, Controllers, CacheTypes
<1> HIDE DEF c
<1>4. /\ Append(probe.found, c) \in Seq(Controllers)
      /\ ToSet(Append(probe.found, c)) = ToSet(probe.found) \cup {c}
  BY <1>3, AppendOne DEF ThreadTypes
<1>5. ThreadTypes' /\ probe.found' = Append(probe.found, c)
  BY <1>1, <1>2, <1>4 DEF ThreadTypes, c
<1>6. Live' \subseteq Live \cup {c, None}
  BY <1>1, <1>4, <1>5 DEF Live
<1>7. CacheTypes' /\ Latest' /\ LiveKnown'
  BY <1>1, <1>2, <1>6, ControllerAdded DEF c
<1>8. QED
  BY <1>1, <1>5, <1>7 DEF NotifierTypes

LEMMA Notified ==
    ASSUME IInv, OnDeviceInterfaceNotification
    PROVE  IInv'
<1> USE DEF IInv, Types
<1> DEFINE e == Head(events)
<1>1. UNCHANGED <<present, m_nearObjectDevices, user, probe>>
  BY DEF OnDeviceInterfaceNotification
<1>2. e \in Event /\ events' \in Seq(Event)
  BY TakeHead DEF OnDeviceInterfaceNotification
<1>3. e.device \in Device
  BY <1>2 DEF Event
<1>4. CASE e.type = "Arrived"
  <2>1. PICK c : /\ c = Controller(e.device)
                 /\ AddCachedUwbNearObjectDevice(e.device, c)
                 /\ notifier' = [pc |-> "calling", event |-> e.type, controller |-> c]
                 /\ UNCHANGED since
    BY <1>4 DEF OnDeviceInterfaceNotification
  <2>2. c \in Controllers
    BY <1>3, <2>1 DEF Controller, CachedController, Controllers, CacheTypes
  <2>3. NotifierTypes' /\ notifier.controller' = c
    BY <1>4, <2>1, <2>2 DEF NotifierTypes
  <2>4. Live' \subseteq Live \cup {c, None}
    BY <1>1, <2>3 DEF Live
  <2>5. CacheTypes' /\ Latest' /\ LiveKnown'
    BY <1>3, <2>1, <2>4, ControllerAdded
  <2>6. QED
    BY <1>1, <1>2, <2>3, <2>5 DEF ThreadTypes
<1>5. CASE e.type = "Departed"
  <2>1. PICK c : /\ c = IF CachedController(e.device) \in Live
                        THEN CachedController(e.device) ELSE None
                 /\ ExtractCachedNearObjectDevice(e.device, c)
                 /\ notifier' = IF c = None THEN notifier
                                ELSE [pc |-> "calling", event |-> e.type, controller |-> c]
                 /\ since' = [since EXCEPT ![e.device] = made[e.device]]
                 /\ UNCHANGED made
    BY <1>5 DEF OnDeviceInterfaceNotification
  <2>2. c \in Live \cup {None}
    BY <2>1
  <2>3. c # None => c \in Controllers
    BY <2>2, LiveType
  <2>4. NotifierTypes' /\ notifier.controller' \in {notifier.controller, c}
    BY <1>5, <2>1, <2>3 DEF NotifierTypes
  <2>5. Live' \subseteq Live \cup {None}
    BY <1>1, <2>2, <2>4 DEF Live
  <2>6. cache' = [cache EXCEPT ![e.device] = 0]
    BY <2>1 DEF ExtractCachedNearObjectDevice
  <2>7. CacheTypes' /\ Latest' /\ LiveKnown'
    BY <1>3, <2>1, <2>5, <2>6, ControllerExtracted
  <2>8. QED
    BY <1>1, <1>2, <2>4, <2>7 DEF ThreadTypes
<1>6. QED
  BY <1>2, <1>4, <1>5 DEF Event

-----------------------------------------------------------------------------
LEMMA NextIInv == IInv /\ [Next]_vars => IInv'
<1> SUFFICES ASSUME IInv, [Next]_vars PROVE IInv'
  OBVIOUS
<1>1. CASE UNCHANGED vars
  <2>1. UNCHANGED <<present, events, m_nearObjectDevices, cache, made, since, user, probe,
                    notifier>>
    BY <1>1 DEF vars, agentVars, historyVars
  <2>2. Live' = Live
    BY <2>1 DEF Live
  <2>3. CacheTypes' /\ Latest' /\ LiveKnown'
    BY <2>1, <2>2, CacheKept
  <2>4. QED
    BY <2>1, <2>3 DEF IInv, Types, ThreadTypes, NotifierTypes
<1>2. CASE \E d \in Device : Arrive(d) \/ Depart(d)
  BY <1>2, DeviceMoves
<1>3. CASE UserStart \/ Stop \/ RegisterDiscoveryEventCallback \/ ProbeTimeout \/ Release
  BY <1>3, ControlSteps
<1>4. CASE User
  BY <1>4, ControlSteps, HandOver, Enumerated DEF User
<1>5. CASE Probe
  BY <1>5, ControlSteps, Probed DEF Probe
<1>6. CASE Notifier
  BY <1>6, ControlSteps, Notified, ManagerCalled DEF Notifier
<1>7. QED
  BY <1>1, <1>2, <1>3, <1>4, <1>5, <1>6 DEF Next

\* The cache of weak references, the only thing that the probe's thread and the
\* notifications share (NearObjectDeviceDiscoveryAgentUwb.cxx:39-41), keeps the
\* manager's list from holding two controllers for one stay of a device.
THEOREM SharedControllerHolds == Spec => []SharedController
<1>1. IInv => SharedController
  <2> SUFFICES ASSUME IInv, NEW i \in DOMAIN m_nearObjectDevices,
                      NEW j \in DOMAIN m_nearObjectDevices,
                      m_nearObjectDevices[i][1] = m_nearObjectDevices[j][1],
                      m_nearObjectDevices[i][2] > since[m_nearObjectDevices[i][1]],
                      m_nearObjectDevices[j][2] > since[m_nearObjectDevices[j][1]]
               PROVE  m_nearObjectDevices[i] = m_nearObjectDevices[j]
    BY DEF SharedController
  <2> DEFINE c == m_nearObjectDevices[i]
             e == m_nearObjectDevices[j]
  <2>1. c \in Live /\ e \in Live
    BY DEF Live, ToSet
  <2>2. c \in Controllers /\ e \in Controllers
    BY DEF IInv, Types
  <2>3. c # None /\ e # None
    BY <2>2 DEF Controllers, None
  <2>4. cache[c[1]] = c[2] /\ cache[e[1]] = e[2]
    BY <2>1, <2>3 DEF IInv, LiveKnown, Known
  <2>5. QED
    BY <2>2, <2>4 DEF Controllers
<1>2. QED
  BY <1>1, InitIInv, NextIInv, PTL DEF Spec

-----------------------------------------------------------------------------
(* The notifications that wait, device by device.                          *)

At(ev, d) == {i \in DOMAIN ev : ev[i].device = d}

\* The first, and the last, that is about d is of the type.
Opens(ev, d, type) ==
    \E i \in At(ev, d) : ev[i].type = type /\ \A j \in At(ev, d) : i <= j
Closes(ev, d, type) ==
    \E i \in At(ev, d) : ev[i].type = type /\ \A j \in At(ev, d) : j <= i

\* Arrivals and departures of d alternate.
InTurn(ev, d) ==
    \A i, j \in At(ev, d) :
        i < j /\ (\A k \in At(ev, d) : k <= i \/ j <= k) => ev[i].type # ev[j].type

LEMMA NoneQueued == ASSUME NEW d PROVE At(<<>>, d) = {} /\ InTurn(<<>>, d)
  BY DEF At, InTurn

LEMMA Queued ==
    ASSUME NEW ev \in Seq(Event), NEW e \in Event, NEW q, q = Append(ev, e), NEW d
    PROVE  /\ d # e.device =>
                /\ At(q, d) = {} <=> At(ev, d) = {}
                /\ \A type : Opens(q, d, type) => Opens(ev, d, type)
                /\ \A type : Closes(ev, d, type) => Closes(q, d, type)
                /\ InTurn(ev, d) => InTurn(q, d)
           /\ d = e.device =>
                /\ At(q, d) # {} /\ Closes(q, d, e.type)
                /\ At(ev, d) = {} => \A type : Opens(q, d, type) => type = e.type
                /\ At(ev, d) # {} => \A type : Opens(q, d, type) => Opens(ev, d, type)
                /\ InTurn(ev, d) /\ ~Closes(ev, d, e.type)
                     /\ (At(ev, d) # {} => \E type : Closes(ev, d, type)) => InTurn(q, d)
<1> DEFINE n == Len(ev) + 1
<1>1. /\ Len(ev) \in Nat /\ DOMAIN ev = 1..Len(ev) /\ DOMAIN q = 1..n
      /\ q[n] = e /\ \A i \in 1..Len(ev) : q[i] = ev[i]
  BY AppendProperties, LenProperties
<1>2. ASSUME NEW i PROVE i \in At(q, d) <=> i \in At(ev, d) \/ (i = n /\ d = e.device)
  BY <1>1 DEF At
<1>3. \A i \in At(ev, d) : i \in Nat /\ i < n /\ q[i] = ev[i]
  BY <1>1 DEF At
<1>4. q[n] = e /\ n \in Nat
  BY <1>1
<1> HIDE DEF n
<1>5. CASE d # e.device
  <2>1. At(q, d) = At(ev, d)
    BY <1>2, <1>5
  <2>2. \A i \in At(ev, d) : q[i] = ev[i]
    BY <1>3
  <2>3. \A type : Opens(q, d, type) => Opens(ev, d, type)
    BY ONLY <2>1, <2>2 DEF Opens
  <2>4. \A type : Closes(ev, d, type) => Closes(q, d, type)
    BY ONLY <2>1, <2>2 DEF Closes
  <2>5. InTurn(ev, d) => InTurn(q, d)
    BY ONLY <2>1, <2>2 DEF InTurn
  <2>6. QED
    BY <1>5, <2>1, <2>3, <2>4, <2>5
<1>6. CASE d = e.device
  <2>1. n \in At(q, d) /\ \A i \in At(ev, d) : i \in At(q, d)
    BY <1>2, <1>6
  <2>2. \A i \in At(q, d) : i \in At(ev, d) \/ i = n
    BY <1>2
  <2>3. Closes(q, d, e.type)
    <3>1. ASSUME NEW i \in At(q, d) PROVE i <= n
      <4>1. i \in Nat /\ (i < n \/ i = n)
        BY <1>3, <1>4, <2>2
      <4>2. QED
        BY <1>4, <4>1
    <3>2. QED
      BY <1>4, <2>1, <3>1 DEF Closes
  <2>4. ASSUME At(ev, d) = {}, NEW type, Opens(q, d, type) PROVE type = e.type
    BY <1>4, <2>2, <2>4 DEF Opens
  <2>5. ASSUME At(ev, d) # {}, NEW type, Opens(q, d, type) PROVE Opens(ev, d, type)
    <3>1. PICK i \in At(q, d) : q[i].type = type /\ \A j \in At(q, d) : i <= j
      BY <2>5 DEF Opens
    <3>2. PICK j \in At(ev, d) : TRUE
      BY <2>5
    <3>3. i # n
      BY <1>3, <1>4, <2>1, <3>1, <3>2
    <3>4. i \in At(ev, d)
      BY <2>2, <3>1, <3>3
    <3>5. QED
      BY <1>3, <2>1, <3>1, <3>4 DEF Opens
  <2>6. ASSUME InTurn(ev, d), ~Closes(ev, d, e.type),
               At(ev, d) # {} => \E type : Closes(ev, d, type)
        PROVE  InTurn(q, d)
    <3>1. ASSUME NEW i \in At(q, d), NEW j \in At(q, d), i < j,
                 \A k \in At(q, d) : k <= i \/ j <= k
          PROVE  q[i].type # q[j].type
      <4>1. i \in At(ev, d)
        <5>1. i # n
          <6>1. j \in Nat /\ (j < n \/ j = n)
            BY <1>3, <1>4, <2>2
          <6>2. QED
            BY <1>4, <3>1, <6>1
        <5>2. QED
          BY <2>2, <5>1
      <4>2. CASE j # n
        <5>1. j \in At(ev, d)
          BY <2>2, <4>2
        <5>2. \A k \in At(ev, d) : k <= i \/ j <= k
          BY <2>1, <3>1
        <5>3. ev[i].type # ev[j].type
          BY <2>6, <3>1, <4>1, <5>1, <5>2 DEF InTurn
        <5>4. QED
          BY <1>3, <4>1, <5>1, <5>3
      <4>3. CASE j = n
        <5>1. \A k \in At(ev, d) : k <= i
          <6>1. ASSUME NEW k \in At(ev, d) PROVE k <= i
            <7>1. k <= i \/ n <= k
              BY <2>1, <3>1, <4>3
            <7>2. ~(n <= k)
              BY <1>3, <1>4
            <7>3. QED
              BY <7>1, <7>2
          <6>2. QED
            BY <6>1
        <5>2. ev[i].type # e.type
          BY <2>6, <4>1, <5>1 DEF Closes
        <5>3. QED
          BY <1>3, <1>4, <4>1, <4>3, <5>2
      <4>4. QED
        BY <4>2, <4>3
    <3>2. QED
      BY <3>1 DEF InTurn
  <2>7. QED
    BY <1>6, <2>1, <2>3, <2>4, <2>5, <2>6
<1>7. QED
  BY <1>5, <1>6

LEMMA Dequeued ==
    ASSUME NEW ev \in Seq(Event), ev # <<>>, NEW e, e = Head(ev), NEW q, q = Tail(ev), NEW d
    PROVE  /\ \A type : Closes(ev, d, type) /\ At(q, d) # {} => Closes(q, d, type)
           /\ InTurn(ev, d) => InTurn(q, d)
           /\ d # e.device =>
                /\ At(q, d) = {} <=> At(ev, d) = {}
                /\ \A type : Opens(q, d, type) => Opens(ev, d, type)
           /\ d = e.device =>
                /\ Opens(ev, d, e.type)
                /\ InTurn(ev, d) => ~Opens(q, d, e.type)
                /\ \A type : Closes(ev, d, type) /\ At(q, d) = {} => type = e.type
<1>1. /\ Len(ev) \in Nat /\ Len(ev) > 0 /\ DOMAIN ev = 1..Len(ev)
      /\ e = ev[1] /\ DOMAIN q = 1..(Len(ev) - 1)
      /\ \A i \in 1..(Len(ev) - 1) : q[i] = ev[i + 1]
  BY HeadTailProperties, EmptySeq, LenProperties
<1>2. ASSUME NEW i \in At(q, d)
      PROVE  i \in Nat /\ i >= 1 /\ i + 1 \in At(ev, d) /\ q[i] = ev[i + 1]
  BY <1>1 DEF At
<1>3. ASSUME NEW i \in At(ev, d)
      PROVE  i \in Nat /\ i >= 1 /\ (i = 1 => d = e.device)
  BY <1>1 DEF At
<1>4. ASSUME NEW i \in At(ev, d), i # 1
      PROVE  i - 1 \in At(q, d) /\ q[i - 1] = ev[i] /\ i - 1 \in Nat
  <2>1. i - 1 \in 1..(Len(ev) - 1) /\ i - 1 + 1 = i
    BY <1>1, <1>4 DEF At
  <2>2. q[i - 1] = ev[i]
    BY <1>1, <2>1
  <2>3. QED
    BY <1>1, <2>1, <2>2 DEF At
<1>5. d = e.device => 1 \in At(ev, d) /\ ev[1] = e
  BY <1>1 DEF At
<1>6. ASSUME NEW type, Closes(ev, d, type), At(q, d) # {} PROVE Closes(q, d, type)
  <2>1. PICK i \in At(ev, d) : ev[i].type = type /\ \A j \in At(ev, d) : j <= i
    BY <1>6 DEF Closes
  <2>2. i # 1
    <3>1. PICK j \in At(q, d) : TRUE
      BY <1>6
    <3>2. j \in Nat /\ j >= 1 /\ j + 1 <= i
      BY <1>2, <2>1
    <3>3. QED
      BY <3>2
  <2>3. i - 1 \in At(q, d) /\ q[i - 1] = ev[i] /\ i \in Nat
    BY <1>3, <1>4, <2>2
  <2>4. ASSUME NEW j \in At(q, d) PROVE j <= i - 1
    <3>1. j \in Nat /\ j + 1 <= i
      BY <1>2, <2>1
    <3>2. QED
      BY <2>3, <3>1
  <2>5. QED
    BY <2>1, <2>3, <2>4 DEF Closes
<1>7. ASSUME InTurn(ev, d) PROVE InTurn(q, d)
  <2>1. ASSUME NEW i \in At(q, d), NEW j \in At(q, d), i < j,
               \A k \in At(q, d) : k <= i \/ j <= k
        PROVE  q[i].type # q[j].type
    <3>1. /\ i + 1 \in At(ev, d) /\ j + 1 \in At(ev, d)
          /\ q[i] = ev[i + 1] /\ q[j] = ev[j + 1] /\ i \in Nat /\ j \in Nat
      BY <1>2
    <3>2. i + 1 < j + 1
      BY <2>1, <3>1
    <3>3. ASSUME NEW k \in At(ev, d) PROVE k <= i + 1 \/ j + 1 <= k
      <4>1. CASE k = 1
        BY <1>2, <4>1
      <4>2. CASE k # 1
        <5>1. k - 1 \in At(q, d) /\ k \in Nat /\ i \in Nat /\ j \in Nat
          BY <1>2, <1>3, <1>4, <4>2
        <5>2. k - 1 <= i \/ j <= k - 1
          BY <2>1, <5>1
        <5>3. QED
          BY <5>1, <5>2
      <4>3. QED
        BY <4>1, <4>2
    <3>4. QED
      BY <1>7, <3>1, <3>2, <3>3 DEF InTurn
  <2>2. QED
    BY <2>1 DEF InTurn
<1>8. ASSUME d # e.device PROVE At(q, d) = {} <=> At(ev, d) = {}
  BY <1>2, <1>3, <1>4, <1>8
<1>9. ASSUME d # e.device, NEW type, Opens(q, d, type) PROVE Opens(ev, d, type)
  <2>1. PICK i \in At(q, d) : q[i].type = type /\ \A j \in At(q, d) : i <= j
    BY <1>9 DEF Opens
  <2>2. i + 1 \in At(ev, d) /\ ev[i + 1].type = type /\ i \in Nat
    BY <1>2, <2>1
  <2>3. ASSUME NEW j \in At(ev, d) PROVE i + 1 <= j
    <3>1. j - 1 \in At(q, d) /\ j \in Nat
      BY <1>3, <1>4, <1>9
    <3>2. i <= j - 1
      BY <2>1, <3>1
    <3>3. QED
      BY <2>2, <3>1, <3>2
  <2>4. QED
    BY <2>2, <2>3 DEF Opens
<1>10. ASSUME d = e.device PROVE Opens(ev, d, e.type)
  BY <1>3, <1>5, <1>10 DEF Opens
<1>11. ASSUME d = e.device, InTurn(ev, d), Opens(q, d, e.type) PROVE FALSE
  <2>1. PICK i \in At(q, d) : q[i].type = e.type /\ \A j \in At(q, d) : i <= j
    BY <1>11 DEF Opens
  <2>2. i \in Nat /\ 1 < i + 1
    <3>1. i \in Nat /\ i >= 1
      BY <1>2
    <3>2. QED
      BY <3>1
  <2>3. /\ i + 1 \in At(ev, d) /\ ev[i + 1].type = e.type
        /\ 1 \in At(ev, d) /\ ev[1] = e
    BY <1>2, <1>5, <1>11, <2>1, <2>2
  <2>4. ASSUME NEW k \in At(ev, d) PROVE k <= 1 \/ i + 1 <= k
    <3>1. CASE k = 1
      BY <3>1
    <3>2. CASE k # 1
      <4>1. k - 1 \in At(q, d) /\ k \in Nat
        BY <1>3, <1>4, <3>2
      <4>2. i <= k - 1
        BY <2>1, <4>1
      <4>3. QED
        BY <2>2, <4>1, <4>2
    <3>3. QED
      BY <3>1, <3>2
  <2>5. ev[1].type # ev[i + 1].type
    BY <1>11, <2>2, <2>3, <2>4 DEF InTurn
  <2>6. QED
    BY <2>3, <2>5
<1>12. ASSUME d = e.device, NEW type, Closes(ev, d, type), At(q, d) = {} PROVE type = e.type
  <2>1. PICK i \in At(ev, d) : ev[i].type = type
    BY <1>12 DEF Closes
  <2>2. i = 1
    BY <1>4, <1>12, <2>1
  <2>3. QED
    BY <1>5, <1>12, <2>1, <2>2
<1>13. QED
  BY <1>6, <1>7, <1>8, <1>9, <1>10, <1>11, <1>12

-----------------------------------------------------------------------------
(* Where the threads can be.                                               *)

Starting == user.pc \in {"size", "list", "each"}

\* The user has not yet come to the probe, or has no need of one.
Early == {"idle", "add", "size", "list", "each", "failed"}

Places ==
    /\ user.pc \in Early \cup
         {"wait", "timedOut", "adding", "done", "released", "destroying", "gone"}
    /\ user.ret \in {"idle", "done"}
    /\ probe.pc \in {"none", "size", "list", "each", "ready", "collected"}
    /\ notifier.pc \in {"idle", "calling", "inside", "stuck"}
    /\ user.pc \in Early => probe.pc = "none"
    /\ user.pc \in {"wait", "timedOut"} => probe.pc \in {"size", "list", "each", "ready"}
    /\ user.pc = "adding" => probe.pc = "collected"
    /\ user.pc = "done" => probe.pc \in {"none", "collected"}

Flags ==
    /\ callback <=> ~(user.pc = "idle" \/ (Starting /\ user.ret = "idle"))
    /\ owned <=> user.pc \notin {"released", "destroying", "gone"}
    /\ notifier.pc = "stuck" => ~owned
    /\ ~callback => m_nearObjectDevices = <<>> /\ notifier.pc # "inside"
    /\ ~m_started => ~registered /\ m_nearObjectDevices = <<>> /\ user.pc \in {"idle", "add"}
    /\ ~registered => events = <<>> /\ (user.pc # "gone" => notifier.pc = "idle")
    /\ Starting => ~registered
    /\ user.pc = "done" /\ probe.pc = "none" => registered

Nothing ==
    /\ user.pc \in {"size", "list"} => m_nearObjectDevices = <<>>
    /\ user.pc # "adding" => user.found = <<>>
    /\ probe.pc \notin {"each", "ready"} => probe.found = <<>>
    /\ probe.pc # "each" => probe.names = {}

Flow == Places /\ Flags /\ Nothing

LEMMA InitFlow == Init => Flow
  BY DEF Init, Flow, Places, Flags, Nothing, Starting, Early

LEMMA NextFlow ==
    ASSUME IInv, Flow, [Next]_vars
    PROVE  Flow'
<1> USE DEF Flow, Places, Flags, Nothing, Starting, Early
<1>0. /\ {"pc", "ret", "room", "names", "found"} \subseteq DOMAIN user
      /\ {"pc", "room", "names", "found"} \subseteq DOMAIN probe
      /\ {"pc", "event", "controller"} \subseteq DOMAIN notifier
  BY DEF IInv, Types, ThreadTypes, NotifierTypes
<1>1. CASE UNCHANGED vars
  BY <1>1 DEF vars, agentVars
<1>2. CASE \E d \in Device : Arrive(d) \/ Depart(d)
  BY <1>2 DEF Arrive, Depart, Change, Notify, agentVars
<1>3. CASE UserStart
  BY <1>0, <1>3 DEF UserStart, Start
<1>4. CASE Stop
  BY <1>0, <1>4 DEF Stop
<1>5. CASE RegisterDiscoveryEventCallback
  BY <1>0, <1>5 DEF RegisterDiscoveryEventCallback
<1>6. CASE ProbeTimeout
  BY <1>0, <1>6 DEF ProbeTimeout, agentVars
<1>7. CASE Release
  BY <1>0, <1>7 DEF Release, agentVars
<1>8. CASE EnumerateSize
  BY <1>0, <1>8 DEF EnumerateSize, agentVars
<1>9. CASE EnumerateList
  BY <1>0, <1>9 DEF EnumerateList, agentVars
<1>10. CASE EnumerateEach
  BY <1>0, <1>10 DEF EnumerateEach
<1>11. CASE Register
  BY <1>0, <1>11 DEF Register, agentVars
<1>12. CASE AddDiscoveryAgent
  BY <1>0, <1>12 DEF AddDiscoveryAgent, Start
<1>13. CASE GetProbeResult
  BY <1>0, <1>13 DEF GetProbeResult, agentVars
<1>14. CASE DestroyFuture
  BY <1>0, <1>14 DEF DestroyFuture, agentVars
<1>15. CASE AddExisting
  BY <1>0, <1>15 DEF AddExisting, agentVars
<1>16. CASE DestroyAgent
  BY <1>0, <1>16 DEF DestroyAgent, agentVars
<1>17. CASE ProbeSize
  BY <1>0, <1>17 DEF ProbeSize, agentVars
<1>18. CASE ProbeList
  BY <1>0, <1>18 DEF ProbeList, agentVars
<1>19. CASE ProbeEach
  BY <1>0, <1>19 DEF ProbeEach
<1>20. CASE ProbeReady
  BY <1>0, <1>20 DEF ProbeReady, agentVars
<1>21. CASE OnDeviceInterfaceNotification
  <2>1. /\ registered /\ events # <<>> /\ notifier.pc = "idle"
        /\ notifier'.pc \in {"idle", "calling"}
        /\ UNCHANGED <<registered, m_started, callback, m_nearObjectDevices, owned, user, probe>>
    BY <1>0, <1>21 DEF OnDeviceInterfaceNotification
  <2>2. QED
    BY <2>1
<1>22. CASE LockManager
  BY <1>0, <1>22 DEF LockManager, Returned, agentVars
<1>23. CASE ReturnFromManager
  BY <1>0, <1>23 DEF ReturnFromManager, Returned, agentVars
<1>24. QED
  BY <1>1, <1>2, <1>3, <1>4, <1>5, <1>6, <1>7, <1>8, <1>9, <1>10, <1>11, <1>12, <1>13,
     <1>14, <1>15, <1>16, <1>17, <1>18, <1>19, <1>20, <1>21, <1>22, <1>23
     DEF Next, User, Probe, Notifier

-----------------------------------------------------------------------------
(* What the system still has to say.                                       *)

Handling(type, d) ==
    /\ notifier.pc \in {"calling", "inside"}
    /\ notifier.event = type /\ notifier.controller[1] = d

\* Without a probe, a device that will not be reported is present, and one whose
\* departure was not reported is another.
History ==
    probe.pc = "none" =>
        /\ missed \subseteq present /\ missed \cap stale = {}
        /\ user.pc = "each" => present \cap stale = {}

\* The last notification about a device says where it is.
EventInv ==
    registered => \A d \in Device :
        /\ At(events, d) # {} =>
             Closes(events, d, IF d \in present THEN "Arrived" ELSE "Departed")
        /\ InTurn(events, d)

\* A departure that is being handled is that of an absent device, or of one whose
\* return is still to be told.
HandlingInv ==
    registered => \A d \in present : Handling("Departed", d) => At(events, d) # {}

Waiting == History /\ EventInv /\ HandlingInv

LEMMA ClosesOnce ==
    ASSUME NEW ev \in Seq(Event), NEW d, NEW t, NEW u, Closes(ev, d, t), Closes(ev, d, u)
    PROVE  t = u /\ At(ev, d) # {}
<1>1. PICK i \in At(ev, d) : ev[i].type = t /\ \A j \in At(ev, d) : j <= i
  BY DEF Closes
<1>2. PICK j \in At(ev, d) : ev[j].type = u /\ \A k \in At(ev, d) : k <= j
  BY DEF Closes
<1>3. i \in Nat /\ j \in Nat
  BY LenProperties DEF At
<1>4. i = j
  BY <1>1, <1>2, <1>3
<1>5. QED
  BY <1>1, <1>2, <1>4

LEMMA InitWaiting == Init => Waiting
  BY DEF Init, Waiting, History, EventInv, HandlingInv

LEMMA MoveWaiting ==
    ASSUME IInv, Flow, Waiting, NEW d \in Device, Arrive(d) \/ Depart(d)
    PROVE  Waiting'
<1>1. UNCHANGED <<registered, user, probe, notifier>>
  BY DEF Arrive, Depart, Change
<1>2. History'
  BY <1>1 DEF Waiting, History, Arrive, Depart, Unreported
<1>3. CASE ~registered
  BY <1>1, <1>2, <1>3 DEF Waiting, EventInv, HandlingInv
<1>4. CASE registered
  <2>1. PICK e \in Event :
           /\ events' = Append(events, e) /\ e.device = d
           /\ e.type = IF d \in present' THEN "Arrived" ELSE "Departed"
           /\ d \in present <=> e.type = "Departed"
           /\ \A x \in Device : x # d => (x \in present' <=> x \in present)
    BY <1>4 DEF Arrive, Depart, Change, Notify, Event
  <2>2. events \in Seq(Event)
    BY DEF IInv, Types
  <2>3. \A x \in Device :
           /\ At(events, x) # {} =>
                Closes(events, x, IF x \in present THEN "Arrived" ELSE "Departed")
           /\ InTurn(events, x)
    BY <1>4 DEF Waiting, EventInv
  <2>4. ASSUME NEW x \in Device
        PROVE  /\ At(events', x) # {} =>
                    Closes(events', x, IF x \in present' THEN "Arrived" ELSE "Departed")
               /\ InTurn(events', x)
    <3>1. CASE x # d
      <4>1. /\ At(events', x) = {} <=> At(events, x) = {}
            /\ \A type : Closes(events, x, type) => Closes(events', x, type)
            /\ InTurn(events, x) => InTurn(events', x)
        BY <2>1, <2>2, <3>1, Queued
      <4>2. x \in present' <=> x \in present
        BY <2>1, <3>1
      <4>3. QED
        BY <2>3, <4>1, <4>2
    <3>2. CASE x = d
      <4>1. ~Closes(events, x, e.type)
        BY <2>1, <2>2, <2>3, <3>2, ClosesOnce
      <4>2. /\ Closes(events', x, e.type)
            /\ InTurn(events, x) /\ ~Closes(events, x, e.type)
                 /\ (At(events, x) # {} => \E type : Closes(events, x, type))
                 => InTurn(events', x)
        BY <2>1, <2>2, <3>2, Queued
      <4>3. QED
        BY <2>1, <2>3, <3>2, <4>1, <4>2
    <3>3. QED
      BY <3>1, <3>2
  <2>5. EventInv'
    BY <2>4 DEF EventInv
  <2>6. ASSUME NEW x \in present', Handling("Departed", x)' PROVE At(events', x) # {}
    <3>0. x \in Device
      BY <2>6 DEF IInv, Types, Arrive, Depart
    <3>1. CASE x # d
      <4>1. x \in present /\ Handling("Departed", x)
        BY <1>1, <2>1, <2>6, <3>0, <3>1 DEF Handling
      <4>2. At(events, x) # {}
        BY <1>4, <4>1 DEF Waiting, HandlingInv
      <4>3. QED
        BY <2>1, <2>2, <3>1, <4>2, Queued
    <3>2. CASE x = d
      BY <2>1, <2>2, <3>2, Queued
    <3>3. QED
      BY <3>1, <3>2
  <2>7. HandlingInv'
    BY <2>6 DEF HandlingInv
  <2>8. QED
    BY <1>2, <2>5, <2>7 DEF Waiting
<1>5. QED
  BY <1>3, <1>4

LEMMA NotifiedWaiting ==
    ASSUME IInv, Flow, Waiting, OnDeviceInterfaceNotification
    PROVE  Waiting'
<1> DEFINE e == Head(events)
<1>1. /\ UNCHANGED <<registered, user, probe, present, missed, stale>>
      /\ events # <<>> /\ events' = Tail(events) /\ notifier.pc = "idle"
  BY DEF OnDeviceInterfaceNotification
<1>2. registered /\ events \in Seq(Event)
  BY <1>1 DEF Flow, Flags, IInv, Types
<1>3. e \in Event
  BY <1>1, <1>2, TakeHead
<1>4. \A x \in Device :
         /\ At(events, x) # {} =>
              Closes(events, x, IF x \in present THEN "Arrived" ELSE "Departed")
         /\ InTurn(events, x)
  BY <1>2 DEF Waiting, EventInv
<1>5. ASSUME NEW x \in Device
      PROVE  /\ \A type : Closes(events, x, type) /\ At(events', x) # {} =>
                             Closes(events', x, type)
             /\ InTurn(events', x)
             /\ At(events', x) # {} => At(events, x) # {}
             /\ x = e.device =>
                  /\ Opens(events, x, e.type)
                  /\ \A type : Closes(events, x, type) /\ At(events', x) = {} =>
                                  type = e.type
  <2>1. \A type : Opens(events, x, type) => At(events, x) # {}
    BY DEF Opens
  <2>2. QED
    BY <1>1, <1>2, <1>4, <2>1, Dequeued
<1>6. EventInv'
  BY <1>1, <1>4, <1>5 DEF EventInv
<1>7. ASSUME NEW x \in present', Handling("Departed", x)' PROVE At(events', x) # {}
  <2>1. x \in Device /\ x \in present
    BY <1>1 DEF IInv, Types
  <2>2. e.type = "Departed" /\ x = e.device
    <3>1. PICK c : /\ notifier' = [pc |-> "calling", event |-> e.type, controller |-> c]
                   /\ c = Controller(e.device) \/ c = CachedController(e.device)
      <4>1. notifier' # notifier
        BY <1>1, <1>7 DEF Handling
      <4>2. CASE e.type = "Arrived"
        BY <4>2 DEF OnDeviceInterfaceNotification
      <4>3. CASE e.type = "Departed"
        BY <4>1, <4>3 DEF OnDeviceInterfaceNotification
      <4>4. QED
        BY <1>3, <4>2, <4>3 DEF Event
    <3>2. c[1] = e.device
      BY <3>1 DEF Controller, CachedController
    <3>3. QED
      BY <1>7, <3>1, <3>2 DEF Handling
  <2>3. At(events, x) # {}
    BY <1>5, <2>1, <2>2 DEF Opens
  <2>4. Closes(events, x, "Arrived")
    BY <1>4, <2>1, <2>3
  <2>5. QED
    BY <1>5, <2>1, <2>2, <2>4
<1>8. HandlingInv'
  BY <1>7 DEF HandlingInv
<1>9. History'
  BY <1>1 DEF Waiting, History
<1>10. QED
  BY <1>6, <1>8, <1>9 DEF Waiting

\* The other steps leave the notifications alone, or drop them all.
LEMMA OtherWaiting ==
    ASSUME IInv, Flow, Flow', Waiting, [Next]_vars,
           ~OnDeviceInterfaceNotification, ~\E d \in Device : Arrive(d) \/ Depart(d)
    PROVE  Waiting'
<1> USE DEF Flow, Places, Flags
<1>1. /\ present' = present
      /\ events' = events \/ (events' = <<>> /\ ~registered')
      /\ registered' => registered \/ (Starting /\ UNCHANGED notifier)
  BY DEF Next, vars, User, Probe, Notifier, UserStart, Stop, RegisterDiscoveryEventCallback,
         ProbeTimeout, Release, EnumerateSize, EnumerateList, EnumerateEach, Register,
         AddDiscoveryAgent, GetProbeResult, DestroyFuture, AddExisting, DestroyAgent,
         ProbeSize, ProbeList, ProbeEach, ProbeReady, LockManager, ReturnFromManager, Starting
<1>2. History'
  <2>1. CASE EnumerateList
    <3>1. missed' = present \ Listed(user.room) /\ stale' = {}
      BY <2>1 DEF EnumerateList
    <3>2. QED
      BY <1>1, <3>1 DEF History
  <2>2. CASE ProbeList \/ DestroyFuture
    <3>1. probe'.pc # "none"
      BY <2>2 DEF ProbeList, DestroyFuture, IInv, Types, ThreadTypes
    <3>2. QED
      BY <3>1 DEF History
  <2>3. CASE ~(EnumerateList \/ ProbeList \/ DestroyFuture)
    <3>1. UNCHANGED <<missed, stale>>
      BY <2>3 DEF Next, vars, User, Probe, Notifier, UserStart, Stop,
         RegisterDiscoveryEventCallback, ProbeTimeout, Release, EnumerateSize, EnumerateEach,
         Register, AddDiscoveryAgent, GetProbeResult, AddExisting, DestroyAgent,
         ProbeSize, ProbeEach, ProbeReady, LockManager, ReturnFromManager, historyVars
    <3>2. /\ probe'.pc = "none" => probe.pc = "none"
          /\ user'.pc = "each" => user.pc = "each"
      BY <2>3 DEF Next, vars, User, Probe, Notifier, UserStart, Start, Stop,
         RegisterDiscoveryEventCallback, ProbeTimeout, Release, EnumerateSize, EnumerateEach,
         Register, AddDiscoveryAgent, GetProbeResult, AddExisting, DestroyAgent,
         ProbeSize, ProbeEach, ProbeReady, LockManager, ReturnFromManager,
         IInv, Types, ThreadTypes
    <3>3. QED
      BY <1>1, <3>1, <3>2 DEF Waiting, History
  <2>4. QED
    BY <2>1, <2>2, <2>3
<1>3. CASE ~registered'
  BY <1>2, <1>3 DEF Waiting, EventInv, HandlingInv
<1>4. CASE registered' /\ ~registered
  <2>1. events' = <<>> /\ notifier'.pc = "idle"
    BY <1>1, <1>4 DEF Starting
  <2>2. \A d : At(<<>>, d) = {} /\ InTurn(<<>>, d)
    BY NoneQueued
  <2>3. EventInv' /\ HandlingInv'
    BY <2>1, <2>2 DEF EventInv, HandlingInv, Handling
  <2>4. QED
    BY <1>2, <2>3 DEF Waiting
<1>5. CASE registered' /\ registered
  <2>1. events' = events
    BY <1>1, <1>5
  <2>2. EventInv'
    BY <1>1, <1>5, <2>1 DEF Waiting, EventInv
  <2>3. ASSUME NEW x, Handling("Departed", x)' PROVE Handling("Departed", x)
    <3>1. CASE LockManager
      BY <2>3, <3>1 DEF LockManager, Returned, Handling, IInv, Types, NotifierTypes
    <3>2. CASE ReturnFromManager
      BY <2>3, <3>2 DEF ReturnFromManager, Returned, Handling
    <3>3. CASE ~LockManager /\ ~ReturnFromManager
      <4>1. UNCHANGED notifier
        BY <3>3 DEF Next, vars, User, Probe, Notifier, UserStart, Stop,
         RegisterDiscoveryEventCallback, ProbeTimeout, Release, EnumerateSize, EnumerateList,
         EnumerateEach, Register, AddDiscoveryAgent, GetProbeResult, DestroyFuture,
         AddExisting, DestroyAgent, ProbeSize, ProbeList, ProbeEach, ProbeReady
      <4>2. QED
        BY <2>3, <4>1 DEF Handling
    <3>4. QED
      BY <3>1, <3>2, <3>3
  <2>4. HandlingInv'
    BY <1>1, <1>5, <2>1, <2>3 DEF Waiting, HandlingInv
  <2>5. QED
    BY <1>2, <2>2, <2>4 DEF Waiting
<1>6. QED
  BY <1>3, <1>4, <1>5

LEMMA NextWaiting ==
    ASSUME IInv, Flow, Waiting, [Next]_vars
    PROVE  Waiting'
  BY MoveWaiting, NotifiedWaiting, OtherWaiting, NextFlow

-----------------------------------------------------------------------------
(* Between the enumeration and the registration.                           *)

\* A controller of d in the list is the one that the cache has.
Held(d) == cache[d] # 0 /\ CachedController(d) \in ToSet(m_nearObjectDevices)

\* While Start calls back with the devices found: those listed, those still to come
\* and those missed are the ones present and the ones that have left unreported.
Window(d) ==
    /\ Copies(d) + One(d \in user.names) + One(d \in missed)
         = One(d \in present) + One(d \in stale)
    /\ Copies(d) >= 1 => Held(d)

WindowInv == user.pc = "each" /\ user.ret = "done" => \A d \in Device : Window(d)

LEMMA CopiesType ==
    ASSUME IInv, NEW d
    PROVE  Copies(d) = CopiesOf(m_nearObjectDevices, d) /\ Copies(d) \in Nat
  BY CopiesAt DEF IInv, Types, Copies, CopiesOf

LEMMA ControllerMade ==
    ASSUME IInv, NEW d \in Device, NEW c, c = Controller(d), AddCachedUwbNearObjectDevice(d, c)
    PROVE  /\ c \in Controllers /\ c[1] = d /\ c[2] # 0
           /\ cache' = [cache EXCEPT ![d] = c[2]] /\ c = CachedController(d)'
           /\ \A e \in Device : e # d => cache'[e] = cache[e]
<1>0. cache \in [Device -> Nat] /\ made \in [Device -> Nat]
  BY DEF IInv, Types, CacheTypes
<1>1. PICK n \in Nat \ {0} : c = <<d, n>>
  BY <1>0 DEF Controller, CachedController
<1>2. cache' = [cache EXCEPT ![d] = n]
  BY <1>1 DEF AddCachedUwbNearObjectDevice
<1>3. QED
  BY <1>0, <1>1, <1>2 DEF Controllers, CachedController

\* A device is added to the list, with the controller that the cache has.
LEMMA ListAdds ==
    ASSUME IInv, NEW c \in Controllers, c[2] # 0, c = CachedController(c[1])',
           m_nearObjectDevices' = Append(m_nearObjectDevices, c)
    PROVE  /\ \A d : Copies(d)' = Copies(d) + One(c[1] = d)
           /\ \A d : d # c[1] /\ cache'[d] = cache[d] /\ Held(d) => Held(d)'
           /\ Held(c[1])'
<1>1. m_nearObjectDevices \in Seq(Controllers)
  BY DEF IInv, Types
<1>2. ToSet(m_nearObjectDevices') = ToSet(m_nearObjectDevices) \cup {c}
  BY <1>1, AppendOne
<1>3. \A d : CopiesOf(m_nearObjectDevices', d) =
                CopiesOf(m_nearObjectDevices, d) + One(c[1] = d)
  BY <1>1, CopiesAppend
<1>4. \A d : /\ Copies(d)' = CopiesOf(m_nearObjectDevices', d)
             /\ Copies(d) = CopiesOf(m_nearObjectDevices, d)
  BY DEF Copies, CopiesOf
<1>5. Held(c[1])'
  BY <1>2 DEF Held, CachedController, Controllers
<1>6. \A d : d # c[1] /\ cache'[d] = cache[d] /\ Held(d) => Held(d)'
  BY <1>2 DEF Held, CachedController
<1>7. QED
  BY <1>3, <1>4, <1>5, <1>6

LEMMA InitWindow == Init => WindowInv
  BY DEF Init, WindowInv

LEMMA NextWindow ==
    ASSUME IInv, Flow, Waiting, WindowInv, [Next]_vars
    PROVE  WindowInv'
<1> SUFFICES ASSUME user'.pc = "each", user'.ret = "done", NEW d \in Device
             PROVE  Window(d)'
  BY DEF WindowInv
<1>0. /\ {"pc", "ret", "room", "names", "found"} \subseteq DOMAIN user
      /\ Copies(d) \in Nat
  BY CopiesType DEF IInv, Types, ThreadTypes
<1>1. CASE EnumerateList
  <2>1. /\ user'.names = Listed(user.room) /\ missed' = present \ Listed(user.room)
        /\ stale' = {} /\ present' = present
        /\ m_nearObjectDevices' = m_nearObjectDevices /\ user.pc = "list"
    BY <1>0, <1>1 DEF EnumerateList
  <2>2. m_nearObjectDevices' = <<>>
    BY <2>1 DEF Flow, Nothing
  <2>3. Copies(d)' = 0
    <3>1. Copies(d)' = CopiesOf(m_nearObjectDevices', d)
      BY DEF Copies, CopiesOf
    <3>2. QED
      BY <2>2, <3>1, CopiesEmpty
  <2>4. Listed(user.room) \subseteq present
    BY DEF Listed
  <2>5. QED
    BY <2>1, <2>3, <2>4 DEF Window, One
<1>2. CASE EnumerateEach
  <2>1. user.pc = "each" /\ user.ret = "done" /\ callback
    BY <1>0, <1>2 DEF EnumerateEach, Flow, Flags
  <2>2. PICK x \in user.names :
           /\ AddCachedUwbNearObjectDevice(x, Controller(x))
           /\ m_nearObjectDevices' =
                OnDevicePresenceChanged(m_nearObjectDevices, "Arrived", Controller(x))
           /\ user' = [user EXCEPT !.names = @ \ {x}]
           /\ UNCHANGED <<present, missed, stale>>
    BY <1>2, <2>1 DEF EnumerateEach, historyVars
  <2> DEFINE c == Controller(x)
  <2>3. x \in Device
    BY DEF IInv, Types, ThreadTypes
  <2>4. /\ c \in Controllers /\ c[1] = x /\ c[2] # 0 /\ c = CachedController(x)'
        /\ \A e \in Device : e # x => cache'[e] = cache[e]
    BY <2>2, <2>3, ControllerMade
  <2>5. m_nearObjectDevices' = Append(m_nearObjectDevices, c)
    BY <2>2 DEF OnDevicePresenceChanged, AddDevice
  <2> HIDE DEF c
  <2>6. /\ Copies(d)' = Copies(d) + One(x = d)
        /\ d # x /\ Held(d) => Held(d)'
        /\ Held(x)'
    BY <2>4, <2>5, ListAdds
  <2>7. d \in user'.names <=> d \in user.names /\ d # x
    BY <1>0, <2>2
  <2>8. Window(d)
    BY <2>1 DEF WindowInv
  <2>9. QED
    BY <1>0, <2>2, <2>6, <2>7, <2>8 DEF Window, One
<1>3. CASE ~EnumerateList /\ ~EnumerateEach
  <2>1. UNCHANGED <<user, m_nearObjectDevices, cache>> /\ probe.pc = "none"
    <3>1. user' = user /\ user.pc = "each"
      BY <1>0, <1>3 DEF Next, vars, User, Probe, Notifier, UserStart, Start, Stop,
         RegisterDiscoveryEventCallback, ProbeTimeout, Release, EnumerateSize,
         Register, AddDiscoveryAgent, GetProbeResult, DestroyFuture, AddExisting,
         DestroyAgent, ProbeSize, ProbeList, ProbeEach, ProbeReady, LockManager,
         ReturnFromManager, Arrive, Depart, Change, OnDeviceInterfaceNotification,
         Flow, Places
    <3>2. probe.pc = "none" /\ notifier.pc = "idle" /\ events = <<>>
      BY <3>1 DEF Flow, Places, Flags, Starting, Early
    <3>3. QED
      BY <1>3, <3>1, <3>2 DEF Next, vars, User, Probe, Notifier, UserStart, Stop,
         RegisterDiscoveryEventCallback, ProbeTimeout, Release, EnumerateSize,
         Register, AddDiscoveryAgent, GetProbeResult, DestroyFuture, AddExisting,
         DestroyAgent, ProbeSize, ProbeList, ProbeEach, ProbeReady, LockManager,
         ReturnFromManager, Arrive, Depart, Change, OnDeviceInterfaceNotification, agentVars
  <2>2. Copies(d)' = Copies(d) /\ (Held(d)' <=> Held(d))
    BY <2>1 DEF Copies, Held, CachedController
  <2>3. Window(d)
    BY <2>1 DEF WindowInv
  <2>4. /\ missed \subseteq present /\ missed \cap stale = {} /\ present \cap stale = {}
    BY <2>1 DEF Waiting, History
  <2>5. CASE \E x \in Device : Arrive(x) \/ Depart(x)
    <3>1. PICK x \in Device : Arrive(x) \/ Depart(x)
      BY <2>5
    <3>2. Unreported
      BY <2>1 DEF Unreported
    <3>3. CASE d = x
      BY <1>0, <2>1, <2>2, <2>3, <2>4, <3>1, <3>2, <3>3 DEF Arrive, Depart, Window, One
    <3>4. CASE d # x
      <4>1. /\ d \in present' <=> d \in present
            /\ d \in missed' <=> d \in missed
            /\ d \in stale' <=> d \in stale
        BY <3>1, <3>2, <3>4 DEF Arrive, Depart
      <4>2. QED
        BY <2>1, <2>2, <2>3, <4>1 DEF Window
    <3>5. QED
      BY <3>3, <3>4
  <2>6. CASE ~\E x \in Device : Arrive(x) \/ Depart(x)
    <3>1. UNCHANGED <<present, missed, stale>>
      BY <1>3, <2>1, <2>6 DEF Next, vars, User, Probe, Notifier, UserStart, Stop,
         RegisterDiscoveryEventCallback, ProbeTimeout, Release, EnumerateSize,
         Register, AddDiscoveryAgent, GetProbeResult, DestroyFuture, AddExisting,
         DestroyAgent, ProbeSize, ProbeList, ProbeEach, ProbeReady, LockManager,
         ReturnFromManager, OnDeviceInterfaceNotification, historyVars
    <3>2. QED
      BY <2>1, <2>2, <2>3, <3>1 DEF Window
  <2>7. QED
    BY <2>5, <2>6
<1>4. QED
  BY <1>1, <1>2, <1>3

-----------------------------------------------------------------------------
(* An agent that the manager starts itself.                                *)

\* The copies of d that the manager will have when the notification in hand is
\* handled, without the one that stays for good.
Believed(d) ==
    Copies(d) + One(Handling("Arrived", d)) - One(Handling("Departed", d)) - One(d \in stale)

Direct(d) ==
    /\ At(events, d) = {} => Believed(d) = One(d \in present) - One(d \in missed)
    /\ Opens(events, d, "Arrived") => Believed(d) = 0
    /\ Opens(events, d, "Departed") => Believed(d) = 1 \/ (Believed(d) = 0 /\ d \notin stale)
    /\ d \in missed => At(events, d) = {}
    /\ Believed(d) = 1 =>
         Held(d) \/ (Handling("Arrived", d) /\ cache[d] # 0
                       /\ notifier.controller = CachedController(d))
    /\ Handling("Departed", d) => Believed(d) = 0

DirectInv == user.pc = "done" /\ probe.pc = "none" => \A d \in Device : Direct(d)

LEMMA InitDirect == Init => DirectInv
  BY DEF Init, DirectInv

LEMMA Idle ==
    ASSUME notifier.pc \notin {"calling", "inside"}, NEW type, NEW d
    PROVE  ~Handling(type, d)
  BY DEF Handling

LEMMA RegisteredDirect ==
    ASSUME IInv, Flow, Flow', Waiting, WindowInv, Register,
           user'.pc = "done", probe'.pc = "none", NEW d \in Device
    PROVE  Direct(d)'
<1>1. /\ user.pc = "each" /\ user.ret = "done" /\ user.names = {} /\ registered'
      /\ UNCHANGED <<present, missed, stale, m_nearObjectDevices, cache, events, notifier>>
  BY DEF Register, agentVars, historyVars, IInv, Types, ThreadTypes, Flow, Flags, Places
<1>2. events = <<>> /\ notifier.pc = "idle"
  BY <1>1 DEF Flow, Flags, Starting
<1>3. Window(d)
  BY <1>1 DEF WindowInv
<1>4. Copies(d)' = Copies(d) /\ Copies(d) \in Nat /\ (Held(d)' <=> Held(d))
  BY <1>1, CopiesType DEF Copies, Held, CachedController
<1>5. ~Handling("Arrived", d)' /\ ~Handling("Departed", d)'
  BY <1>1, <1>2 DEF Handling
<1>6. Believed(d)' = Copies(d) - One(d \in stale)
  BY <1>1, <1>4, <1>5 DEF Believed, One
<1>7. Believed(d)' = One(d \in present) - One(d \in missed)
  BY <1>1, <1>3, <1>4, <1>6 DEF Window, One
<1>8. Believed(d)' = 1 => Held(d)'
  BY <1>3, <1>4, <1>6 DEF Window, One
<1>9. At(events', d) = {} /\ \A type : ~Opens(events', d, type)
  BY <1>1, <1>2, NoneQueued DEF Opens
<1>10. QED
  BY <1>1, <1>5, <1>7, <1>8, <1>9 DEF Direct

LEMMA MovedDirect ==
    ASSUME IInv, Flow, Waiting, user.pc = "done", probe.pc = "none",
           NEW x \in Device, Arrive(x) \/ Depart(x), NEW d \in Device, Direct(d)
    PROVE  Direct(d)'
<1>1. /\ UNCHANGED <<m_nearObjectDevices, cache, notifier, stale>> /\ registered
      /\ missed' = IF Arrive(x) THEN missed ELSE missed \ {x}
  BY DEF Arrive, Depart, Change, agentVars, Unreported, Flow, Flags
<1>2. PICK e \in Event :
         /\ events' = Append(events, e) /\ e.device = x
         /\ e.type = IF x \in present' THEN "Arrived" ELSE "Departed"
         /\ x \in present <=> e.type = "Departed"
         /\ x \in missed' => x \in missed /\ e.type = "Arrived"
         /\ \A y \in Device : y # x => (y \in present' <=> y \in present)
                                        /\ (y \in missed' <=> y \in missed)
  BY <1>1 DEF Arrive, Depart, Change, Notify, Event
<1>3. events \in Seq(Event)
  BY DEF IInv, Types
<1>4. missed \subseteq present /\ missed \cap stale = {}
  BY DEF Waiting, History
<1>5. /\ Believed(d)' = Believed(d)
      /\ Held(d)' <=> Held(d)
      /\ \A type : Handling(type, d)' <=> Handling(type, d)
      /\ cache'[d] = cache[d] /\ notifier' = notifier
      /\ CachedController(d)' = CachedController(d)
      /\ d \in stale' <=> d \in stale
  <2>1. Copies(d)' = Copies(d)
    BY <1>1 DEF Copies
  <2>2. \A type : Handling(type, d)' <=> Handling(type, d)
    BY <1>1 DEF Handling
  <2>3. Believed(d)' = Believed(d)
    BY <1>1, <2>1, <2>2 DEF Believed, One
  <2>4. Held(d)' <=> Held(d)
    BY <1>1 DEF Held, CachedController
  <2>5. QED
    BY <1>1, <2>2, <2>3, <2>4 DEF CachedController
<1>6. CASE d # x
  <2>1. /\ At(events', d) = {} <=> At(events, d) = {}
        /\ \A type : Opens(events', d, type) => Opens(events, d, type)
    BY <1>2, <1>3, <1>6, Queued
  <2>2. (d \in present' <=> d \in present) /\ (d \in missed' <=> d \in missed)
    BY <1>2, <1>6
  <2>3. QED
    BY <1>5, <2>1, <2>2 DEF Direct
<1>7. CASE d = x
  <2>1. /\ At(events', d) # {}
        /\ At(events, d) = {} => \A type : Opens(events', d, type) => type = e.type
        /\ At(events, d) # {} => \A type : Opens(events', d, type) => Opens(events, d, type)
    BY <1>2, <1>3, <1>7, Queued
  <2>2. d \notin missed'
    BY <1>2, <1>4, <1>7
  <2>3. Opens(events', d, "Arrived") => Believed(d) = 0
    <3>1. CASE At(events, d) = {}
      <4>1. Opens(events', d, "Arrived") => d \notin present /\ d \notin missed
        BY <1>2, <1>4, <1>7, <2>1, <3>1
      <4>2. Believed(d) = One(d \in present) - One(d \in missed)
        BY <3>1 DEF Direct
      <4>3. QED
        BY <4>1, <4>2 DEF One
    <3>2. CASE At(events, d) # {}
      BY <2>1, <3>2 DEF Direct
    <3>3. QED
      BY <3>1, <3>2
  <2>4. Opens(events', d, "Departed")
          => Believed(d) = 1 \/ (Believed(d) = 0 /\ d \notin stale)
    <3>1. CASE At(events, d) = {}
      <4>1. Opens(events', d, "Departed") => d \in present
        BY <1>2, <1>7, <2>1, <3>1
      <4>2. Believed(d) = One(d \in present) - One(d \in missed)
        BY <3>1 DEF Direct
      <4>3. ~(d \in missed /\ d \in stale)
        BY <1>4
      <4>4. QED
        BY <4>1, <4>2, <4>3 DEF One
    <3>2. CASE At(events, d) # {}
      BY <2>1, <3>2 DEF Direct
    <3>3. QED
      BY <3>1, <3>2
  <2>5. QED
    BY <1>5, <2>1, <2>2, <2>3, <2>4 DEF Direct
<1>8. QED
  BY <1>6, <1>7

\* What the monitor makes of a notification.
LEMMA Announced ==
    ASSUME IInv, OnDeviceInterfaceNotification, NEW e, e = Head(events)
    PROVE  /\ e \in Event /\ e.device \in Device
           /\ \A y \in Device : y # e.device => cache'[y] = cache[y]
           /\ e.type = "Arrived" =>
                /\ notifier' = [pc |-> "calling", event |-> "Arrived",
                                controller |-> CachedController(e.device)']
                /\ cache'[e.device] # 0
           /\ e.type = "Departed" =>
                IF cache[e.device] # 0 /\ CachedController(e.device) \in Live
                THEN notifier' = [pc |-> "calling", event |-> "Departed",
                                  controller |-> CachedController(e.device)]
                ELSE notifier' = notifier
<1>1. e \in Event /\ e.device \in Device
  <2>1. events \in Seq(Event) /\ events # <<>>
    BY DEF OnDeviceInterfaceNotification, IInv, Types
  <2>2. e \in Event
    BY <2>1, TakeHead
  <2>3. QED
    BY <2>2 DEF Event
<1>2. CASE e.type = "Arrived"
  <2>1. PICK c : /\ c = Controller(e.device) /\ AddCachedUwbNearObjectDevice(e.device, c)
                 /\ notifier' = [pc |-> "calling", event |-> e.type, controller |-> c]
    BY <1>2 DEF OnDeviceInterfaceNotification
  <2>2. /\ c[1] = e.device /\ c[2] # 0 /\ c = CachedController(e.device)'
        /\ \A y \in Device : y # e.device => cache'[y] = cache[y]
    BY <1>1, <2>1, ControllerMade
  <2>3. cache'[e.device] # 0
    <3>1. c = <<e.device, cache'[e.device]>>
      BY <2>2 DEF CachedController
    <3>2. QED
      BY <2>2, <3>1
  <2>4. QED
    BY <1>1, <1>2, <2>1, <2>2, <2>3
<1>3. CASE e.type = "Departed"
  <2>1. PICK c : /\ ExtractCachedNearObjectDevice(e.device, c)
                 /\ notifier' = IF c = None THEN notifier
                                ELSE [pc |-> "calling", event |-> e.type, controller |-> c]
    BY <1>3 DEF OnDeviceInterfaceNotification
  <2>2. cache' = [cache EXCEPT ![e.device] = 0] /\ cache \in [Device -> Nat]
    BY <2>1 DEF ExtractCachedNearObjectDevice, IInv, Types, CacheTypes
  <2>3. c = IF cache[e.device] # 0 /\ CachedController(e.device) \in Live
            THEN CachedController(e.device) ELSE None
    BY <2>1 DEF ExtractCachedNearObjectDevice
  <2>4. CachedController(e.device) # None
    BY DEF CachedController, None
  <2>5. QED
    BY <1>1, <1>3, <2>1, <2>2, <2>3, <2>4
<1>4. QED
  BY <1>1, <1>2, <1>3 DEF Event

LEMMA NotifiedDirect ==
    ASSUME IInv, Flow, Waiting, user.pc = "done", probe.pc = "none",
           OnDeviceInterfaceNotification, NEW d \in Device, Direct(d)
    PROVE  Direct(d)'
<1>0. PICK e : e = Head(events)
  OBVIOUS
<1>1. /\ UNCHANGED <<present, missed, stale, m_nearObjectDevices>>
      /\ events # <<>> /\ events' = Tail(events) /\ notifier.pc = "idle" /\ registered
  BY DEF OnDeviceInterfaceNotification, Flow, Flags
<1>2. /\ e \in Event /\ e.device \in Device
      /\ \A y \in Device : y # e.device => cache'[y] = cache[y]
      /\ e.type = "Arrived" =>
           /\ notifier' = [pc |-> "calling", event |-> "Arrived",
                           controller |-> CachedController(e.device)']
           /\ cache'[e.device] # 0
      /\ e.type = "Departed" =>
           IF cache[e.device] # 0 /\ CachedController(e.device) \in Live
           THEN notifier' = [pc |-> "calling", event |-> "Departed",
                             controller |-> CachedController(e.device)]
           ELSE notifier' = notifier
  BY <1>0, Announced
<1>3. events \in Seq(Event) /\ Copies(d) \in Nat /\ Copies(d)' = Copies(d)
  BY <1>1, CopiesType DEF IInv, Types, Copies
<1>4. /\ At(events, d) # {} =>
           Closes(events, d, IF d \in present THEN "Arrived" ELSE "Departed")
      /\ InTurn(events, d)
  BY <1>1 DEF Waiting, EventInv
<1>5. \A type : ~Handling(type, d)
  BY <1>1, Idle
<1>6. /\ d # e.device =>
           /\ At(events', d) = {} <=> At(events, d) = {}
           /\ \A type : Opens(events', d, type) => Opens(events, d, type)
      /\ d = e.device =>
           /\ Opens(events, d, e.type)
           /\ ~Opens(events', d, e.type)
           /\ \A type : Closes(events, d, type) /\ At(events', d) = {} => type = e.type
  BY <1>0, <1>1, <1>3, <1>4, Dequeued
<1>7. Believed(d) = Copies(d) - One(d \in stale)
  BY <1>3, <1>5 DEF Believed, One
<1>8. CASE d # e.device
  <2>1. \A type : ~Handling(type, d)'
    <3>1. \/ notifier' = notifier
          \/ \E n : notifier'.controller = <<e.device, n>>
      BY <1>2 DEF Event, CachedController
    <3>2. QED
      BY <1>5, <1>8, <3>1 DEF Handling
  <2>2. Believed(d)' = Believed(d)
    BY <1>1, <1>3, <1>7, <2>1 DEF Believed, One
  <2>3. Held(d)' <=> Held(d)
    BY <1>1, <1>2, <1>8 DEF Held, CachedController
  <2>4. /\ At(events', d) = {} <=> At(events, d) = {}
        /\ \A type : Opens(events', d, type) => Opens(events, d, type)
    BY <1>6, <1>8
  <2>5. QED
    BY <1>1, <1>5, <2>1, <2>2, <2>3, <2>4 DEF Direct
<1>9. CASE d = e.device
  <2>1. At(events, d) # {} /\ d \notin missed /\ d \notin missed'
    BY <1>1, <1>6, <1>9 DEF Opens, Direct
  <2>2. At(events', d) = {} => (d \in present <=> e.type = "Arrived")
    <3>1. At(events', d) = {} => e.type = IF d \in present THEN "Arrived" ELSE "Departed"
      BY <1>4, <1>6, <1>9, <2>1
    <3>2. QED
      BY <3>1
  <2>3. CASE e.type = "Arrived"
    <3>1. Believed(d) = 0
      BY <1>6, <1>9, <2>3 DEF Direct
    <3>2. Handling("Arrived", d)' /\ ~Handling("Departed", d)' /\ cache'[d] # 0
          /\ notifier'.controller = CachedController(d)'
      BY <1>2, <1>9, <2>3 DEF Handling, CachedController
    <3>3. Believed(d)' = 1
      BY <1>1, <1>3, <1>7, <3>1, <3>2 DEF Believed, One
    <3>4. At(events', d) = {} => One(d \in present') - One(d \in missed') = 1
      BY <1>1, <2>1, <2>2, <2>3 DEF One
    <3>5. ~Opens(events', d, "Arrived")
      BY <1>6, <1>9, <2>3
    <3>6. QED
      BY <2>1, <3>2, <3>3, <3>4, <3>5 DEF Direct
  <2>4. CASE e.type = "Departed"
    <3>1. Believed(d) = 1 \/ (Believed(d) = 0 /\ d \notin stale)
      BY <1>6, <1>9, <2>4 DEF Direct
    <3>2. Believed(d)' = 0
      <4>1. CASE Believed(d) = 1
        <5>1. Held(d)
          BY <1>5, <4>1 DEF Direct
        <5>2. cache[d] # 0 /\ CachedController(d) \in Live
          BY <5>1 DEF Held, Live
        <5>3. Handling("Departed", d)' /\ ~Handling("Arrived", d)'
          BY <1>2, <1>9, <2>4, <5>2 DEF Handling, CachedController
        <5>4. QED
          BY <1>1, <1>3, <1>7, <4>1, <5>3 DEF Believed, One
      <4>2. CASE Believed(d) = 0 /\ d \notin stale
        <5>1. Copies(d) = 0
          BY <1>3, <1>7, <4>2 DEF One
        <5>2. \A c \in ToSet(m_nearObjectDevices) : c[1] # d
          <6>1. /\ CopiesOf(m_nearObjectDevices, d) >= 1
                     <=> \E c \in ToSet(m_nearObjectDevices) : c[1] = d
                /\ Copies(d) = CopiesOf(m_nearObjectDevices, d)
            BY CopiesAt, CopiesType DEF IInv, Types
          <6>2. QED
            BY <5>1, <6>1
        <5>3. CachedController(d) \notin Live
          <6>1. ToSet(user.found) = {} /\ ToSet(probe.found) = {} /\ notifier.controller = None
            BY <1>1 DEF Flow, Nothing, ToSet, IInv, Types, NotifierTypes
          <6>2. CachedController(d)[1] = d /\ CachedController(d) # None
            BY DEF CachedController, None
          <6>3. QED
            BY <5>2, <6>1, <6>2 DEF Live
        <5>4. notifier' = notifier
          BY <1>2, <1>9, <2>4, <5>3
        <5>5. ~Handling("Departed", d)' /\ ~Handling("Arrived", d)'
          BY <1>5, <5>4 DEF Handling
        <5>6. QED
          BY <1>1, <1>3, <1>7, <4>2, <5>5 DEF Believed, One
      <4>3. QED
        BY <3>1, <4>1, <4>2
    <3>3. At(events', d) = {} => One(d \in present') - One(d \in missed') = 0
      BY <1>1, <2>1, <2>2, <2>4 DEF One
    <3>4. ~Opens(events', d, "Departed")
      BY <1>6, <1>9, <2>4
    <3>5. QED
      BY <2>1, <3>2, <3>3, <3>4 DEF Direct
  <2>5. QED
    BY <1>2, <2>3, <2>4 DEF Event
<1>10. QED
  BY <1>8, <1>9

\* What the manager's callback does to its list.
LEMMA ListChanges ==
    ASSUME IInv, ReturnFromManager, NEW c, c = notifier.controller, NEW d
    PROVE  /\ c \in Controllers /\ UNCHANGED cache
           /\ notifier.event \in {"Arrived", "Departed"}
           /\ notifier.event = "Arrived" =>
                /\ Copies(d)' = Copies(d) + One(d = c[1])
                /\ c \in ToSet(m_nearObjectDevices')
                /\ ToSet(m_nearObjectDevices) \subseteq ToSet(m_nearObjectDevices')
           /\ notifier.event = "Departed" =>
                /\ Copies(d)' = Copies(d) - One(d = c[1] /\ Copies(d) >= 1)
                /\ \A x \in ToSet(m_nearObjectDevices) :
                      x[1] # c[1] => x \in ToSet(m_nearObjectDevices')
<1>1. /\ c \in Controllers /\ notifier.event \in {"Arrived", "Departed"} /\ UNCHANGED cache
      /\ m_nearObjectDevices' =
           OnDevicePresenceChanged(m_nearObjectDevices, notifier.event, c)
  BY DEF ReturnFromManager, IInv, Types, NotifierTypes, agentVars
<1>2. m_nearObjectDevices \in Seq(Controllers)
  BY DEF IInv, Types
<1>3. /\ Copies(d)' = CopiesOf(m_nearObjectDevices', d)
      /\ Copies(d) = CopiesOf(m_nearObjectDevices, d)
  BY DEF Copies, CopiesOf
<1>4. CASE notifier.event = "Arrived"
  <2>1. m_nearObjectDevices' = Append(m_nearObjectDevices, c)
    BY <1>1, <1>4 DEF OnDevicePresenceChanged, AddDevice
  <2>2. CopiesOf(m_nearObjectDevices', d) = CopiesOf(m_nearObjectDevices, d) + One(c[1] = d)
    BY <1>1, <1>2, <2>1, CopiesAppend
  <2>3. ToSet(m_nearObjectDevices') = ToSet(m_nearObjectDevices) \cup {c}
    BY <1>1, <1>2, <2>1, AppendOne
  <2>4. One(c[1] = d) = One(d = c[1])
    BY DEF One
  <2>5. QED
    BY <1>1, <1>3, <1>4, <2>2, <2>3, <2>4
<1>5. CASE notifier.event = "Departed"
  <2>1. m_nearObjectDevices' = RemoveDevice(m_nearObjectDevices, c)
    BY <1>1, <1>5 DEF OnDevicePresenceChanged
  <2>2. QED
    BY <1>1, <1>2, <1>3, <1>5, <2>1, CopiesRemoved
<1>6. QED
  BY <1>1, <1>4, <1>5

LEMMA CalledDirect ==
    ASSUME IInv, Flow, user.pc = "done", probe.pc = "none",
           ReturnFromManager, NEW d \in Device, Direct(d)
    PROVE  Direct(d)'
<1>0. PICK c : c = notifier.controller
  OBVIOUS
<1>1. /\ UNCHANGED <<present, missed, stale, events, cache>>
      /\ notifier'.pc \notin {"calling", "inside"} /\ notifier.pc = "inside"
  BY DEF ReturnFromManager, Returned, agentVars, historyVars
<1>2. \A type : ~Handling(type, d)'
  BY <1>1 DEF Handling
<1>3. Copies(d) \in Nat
  BY CopiesType
<1>4. /\ notifier.event \in {"Arrived", "Departed"}
      /\ notifier.event = "Arrived" =>
           /\ Copies(d)' = Copies(d) + One(d = c[1])
           /\ c \in ToSet(m_nearObjectDevices')
           /\ ToSet(m_nearObjectDevices) \subseteq ToSet(m_nearObjectDevices')
      /\ notifier.event = "Departed" =>
           /\ Copies(d)' = Copies(d) - One(d = c[1] /\ Copies(d) >= 1)
           /\ \A x \in ToSet(m_nearObjectDevices) :
                 x[1] # c[1] => x \in ToSet(m_nearObjectDevices')
  BY <1>0, ListChanges
<1>5. \A type : Handling(type, d) <=> notifier.event = type /\ d = c[1]
  BY <1>0, <1>1 DEF Handling
<1>6. CASE notifier.event = "Arrived"
  <2>1. Believed(d)' = Believed(d)
    BY <1>1, <1>2, <1>3, <1>4, <1>5, <1>6 DEF Believed, One
  <2>2. Believed(d) = 1 => Held(d)'
    <3>1. Held(d) => Held(d)'
      BY <1>1, <1>4, <1>6 DEF Held, CachedController
    <3>2. cache[d] # 0 /\ c = CachedController(d) => Held(d)'
      BY <1>1, <1>4, <1>6 DEF Held, CachedController
    <3>3. QED
      BY <1>0, <3>1, <3>2 DEF Direct
  <2>3. QED
    BY <1>1, <1>2, <2>1, <2>2 DEF Direct
<1>7. CASE notifier.event = "Departed"
  <2>1. Believed(d)' = Believed(d)
    <3>1. CASE d = c[1]
      <4>1. Handling("Departed", d) /\ ~Handling("Arrived", d)
        BY <1>5, <1>7, <3>1
      <4>2. Believed(d) = 0
        BY <4>1 DEF Direct
      <4>3. Copies(d) >= 1
        BY <1>3, <4>1, <4>2 DEF Believed, One
      <4>4. QED
        BY <1>1, <1>2, <1>3, <1>4, <1>7, <3>1, <4>1, <4>3 DEF Believed, One
    <3>2. CASE d # c[1]
      BY <1>1, <1>2, <1>3, <1>4, <1>5, <1>7, <3>2 DEF Believed, One
    <3>3. QED
      BY <3>1, <3>2
  <2>2. Believed(d) = 1 => Held(d)'
    <3>1. CASE d = c[1]
      <4>1. Believed(d) = 0
        BY <1>5, <1>7, <3>1 DEF Direct
      <4>2. QED
        BY <4>1
    <3>2. CASE d # c[1]
      <4>1. Believed(d) = 1 => Held(d)
        BY <1>5, <3>2 DEF Direct
      <4>2. Held(d) => Held(d)'
        BY <1>1, <1>4, <1>7, <3>2 DEF Held, CachedController
      <4>3. QED
        BY <4>1, <4>2
    <3>3. QED
      BY <3>1, <3>2
  <2>3. QED
    BY <1>1, <1>2, <2>1, <2>2 DEF Direct
<1>8. QED
  BY <1>4, <1>6, <1>7

LEMMA NextDirect ==
    ASSUME IInv, Flow, Waiting, WindowInv, DirectInv, [Next]_vars
    PROVE  DirectInv'
<1> SUFFICES ASSUME user'.pc = "done", probe'.pc = "none", NEW d \in Device
             PROVE  Direct(d)'
  BY DEF DirectInv
<1>1. CASE Register
  BY <1>1, RegisteredDirect, NextFlow
<1>2. CASE ~Register
  <2>1. user.pc = "done" /\ probe.pc = "none"
    BY <1>2 DEF Next, vars, User, Probe, Notifier, UserStart, Start, Stop,
         RegisterDiscoveryEventCallback, ProbeTimeout, Release, EnumerateSize, EnumerateList,
         EnumerateEach, AddDiscoveryAgent, GetProbeResult, DestroyFuture, AddExisting,
         DestroyAgent, ProbeSize, ProbeList, ProbeEach, ProbeReady, LockManager,
         ReturnFromManager, Arrive, Depart, Change, OnDeviceInterfaceNotification,
         Flow, Places, Early, IInv, Types, ThreadTypes
  <2>2. Direct(d)
    BY <2>1 DEF DirectInv
  <2>3. CASE \E x \in Device : Arrive(x) \/ Depart(x)
    BY <2>1, <2>2, <2>3, MovedDirect
  <2>4. CASE OnDeviceInterfaceNotification
    BY <2>1, <2>2, <2>4, NotifiedDirect
  <2>5. CASE ReturnFromManager
    BY <2>1, <2>2, <2>5, CalledDirect
  <2>6. CASE LockManager \/ UNCHANGED vars
    <3>1. /\ UNCHANGED <<present, missed, stale, events, cache, m_nearObjectDevices>>
          /\ UNCHANGED <<notifier.event, notifier.controller>>
          /\ (notifier'.pc \in {"calling", "inside"}) <=> (notifier.pc \in {"calling", "inside"})
      <4>1. CASE LockManager
        <5>1. callback /\ owned
          BY <2>1 DEF Flow, Flags, Starting
        <5>2. QED
          BY <4>1, <5>1 DEF LockManager, agentVars, historyVars, IInv, Types, NotifierTypes
      <4>2. CASE UNCHANGED vars
        BY <4>2 DEF vars, agentVars, historyVars
      <4>3. QED
        BY <2>6, <4>1, <4>2
    <3>2. \A type : Handling(type, d)' <=> Handling(type, d)
      BY <3>1 DEF Handling
    <3>3. Copies(d)' = Copies(d)
      BY <3>1 DEF Copies
    <3>4. Believed(d)' = Believed(d)
      BY <3>1, <3>2, <3>3 DEF Believed, One
    <3>5. Held(d)' <=> Held(d)
      BY <3>1 DEF Held, CachedController
    <3>6. CachedController(d)' = CachedController(d) /\ cache'[d] = cache[d]
      BY <3>1 DEF CachedController
    <3>7. QED
      BY <2>2, <3>1, <3>2, <3>4, <3>5, <3>6 DEF Direct
  <2>7. QED
    BY <1>2, <2>1, <2>3, <2>4, <2>5, <2>6 DEF Next, User, Probe, Notifier, UserStart, Stop,
         RegisterDiscoveryEventCallback, ProbeTimeout, Release, EnumerateSize, EnumerateList,
         EnumerateEach, AddDiscoveryAgent, GetProbeResult, DestroyFuture, AddExisting,
         DestroyAgent, ProbeSize, ProbeList, ProbeEach, ProbeReady, IInv, Types, ThreadTypes
<1>3. QED
  BY <1>1, <1>2

-----------------------------------------------------------------------------
(* An agent that was running already.                                      *)

Devices(s) == {c[1] : c \in ToSet(s)}

\* The devices that the probe, the user or the manager has in hand.
InHand ==
    probe.names \cup Devices(probe.found) \cup Devices(user.found)
        \cup Devices(m_nearObjectDevices)

\* Some thread will tell the manager of d, or has.
Covered(d) == At(events, d) # {} \/ Handling("Arrived", d) \/ d \in InHand

ProbeInv ==
    probe.pc \notin {"none", "size", "list"} /\ registered /\ owned =>
        \A d \in present \ missed : Covered(d)

LEMMA InitProbe == Init => ProbeInv
  BY DEF Init, ProbeInv

LEMMA DevicesOf ==
    ASSUME NEW s \in Seq(Controllers)
    PROVE  /\ \A c \in Controllers : Devices(Append(s, c)) = Devices(s) \cup {c[1]}
           /\ s # <<>> => Devices(s) \subseteq Devices(Tail(s)) \cup {Head(s)[1]}
           /\ Devices(<<>>) = {}
<1>1. ASSUME NEW c \in Controllers PROVE Devices(Append(s, c)) = Devices(s) \cup {c[1]}
  <2>1. ToSet(Append(s, c)) = ToSet(s) \cup {c}
    BY AppendOne
  <2>2. QED
    BY <2>1 DEF Devices
<1>2. ASSUME s # <<>> PROVE Devices(s) \subseteq Devices(Tail(s)) \cup {Head(s)[1]}
  <2>1. /\ Tail(s) \in Seq(Controllers) /\ Head(s) = s[1] /\ Len(Tail(s)) = Len(s) - 1
        /\ \A i \in 1..Len(Tail(s)) : Tail(s)[i] = s[i + 1]
        /\ Len(s) \in Nat /\ DOMAIN s = 1..Len(s) /\ DOMAIN Tail(s) = 1..Len(Tail(s))
    BY <1>2, HeadTailProperties, LenProperties
  <2>2. ASSUME NEW c \in ToSet(s) PROVE c = Head(s) \/ c \in ToSet(Tail(s))
    <3>1. PICK i \in 1..Len(s) : c = s[i]
      BY <2>1 DEF ToSet
    <3>2. CASE i = 1
      BY <2>1, <3>1, <3>2
    <3>3. CASE i # 1
      <4>1. i - 1 \in 1..Len(Tail(s)) /\ i - 1 + 1 = i
        BY <2>1, <3>3
      <4>2. Tail(s)[i - 1] = c
        BY <2>1, <3>1, <4>1
      <4>3. QED
        BY <2>1, <4>1, <4>2 DEF ToSet
    <3>4. QED
      BY <3>2, <3>3
  <2>3. QED
    BY <2>2 DEF Devices
<1>3. Devices(<<>>) = {}
  BY DEF Devices, ToSet
<1>4. QED
  BY <1>1, <1>2, <1>3

\* The threads pass devices on; only a collected result that came too late is lost.
LEMMA PassedOn ==
    ASSUME IInv, Flow,
           ProbeEach \/ ProbeReady \/ GetProbeResult \/ DestroyFuture \/ AddExisting
    PROVE  /\ InHand \ missed' \subseteq InHand'
           /\ missed \subseteq missed'
           /\ UNCHANGED <<present, events, notifier>>
<1> USE DEF IInv, Types, ThreadTypes
<1>0. probe.found \in Seq(Controllers) /\ user.found \in Seq(Controllers)
      /\ m_nearObjectDevices \in Seq(Controllers)
  OBVIOUS
<1>1. UNCHANGED <<present, events, notifier>> /\ missed \subseteq missed'
  BY DEF ProbeEach, ProbeReady, GetProbeResult, DestroyFuture, AddExisting, historyVars
<1>2. CASE ProbeEach
  <2>1. PICK d \in probe.names :
           /\ AddCachedUwbNearObjectDevice(d, Controller(d))
           /\ probe' = [probe EXCEPT !.names = @ \ {d}, !.found = Append(@, Controller(d))]
           /\ UNCHANGED <<m_nearObjectDevices, user>>
    BY <1>2 DEF ProbeEach
  <2>2. d \in Device
    OBVIOUS
  <2>3. Controller(d) \in Controllers /\ Controller(d)[1] = d
    BY <2>1, <2>2, ControllerMade
  <2>4. Devices(Append(probe.found, Controller(d))) = Devices(probe.found) \cup {d}
    BY <1>0, <2>3, DevicesOf
  <2>5. /\ probe'.names = probe.names \ {d}
        /\ probe'.found = Append(probe.found, Controller(d))
        /\ user' = user /\ m_nearObjectDevices' = m_nearObjectDevices
    BY <2>1
  <2>6. QED
    BY <1>1, <2>4, <2>5 DEF InHand
<1>3. CASE ProbeReady
  <2>1. probe'.names = probe.names /\ probe'.found = probe.found
        /\ UNCHANGED <<user, m_nearObjectDevices>>
    BY <1>3 DEF ProbeReady
  <2>2. QED
    BY <1>1, <2>1 DEF InHand
<1>4. CASE GetProbeResult
  <2>1. /\ probe'.names = probe.names /\ user'.found = probe.found /\ user.found = <<>>
        /\ m_nearObjectDevices' = m_nearObjectDevices
    BY <1>4 DEF GetProbeResult, Flow, Nothing
  <2>2. Devices(user.found) = {}
    BY <1>0, <2>1, DevicesOf
  <2>3. QED
    BY <1>1, <2>1, <2>2 DEF InHand
<1>5. CASE DestroyFuture
  <2>1. /\ probe'.names = probe.names /\ user'.found = user.found
        /\ m_nearObjectDevices' = m_nearObjectDevices
        /\ missed' = missed \cup Devices(probe.found)
    BY <1>5 DEF DestroyFuture, Devices
  <2>2. QED
    BY <1>1, <2>1 DEF InHand
<1>6. CASE AddExisting
  <2>1. CASE user.found = <<>>
    <3>1. /\ user'.found = user.found /\ UNCHANGED <<probe, m_nearObjectDevices>>
      BY <1>6, <2>1 DEF AddExisting
    <3>2. QED
      BY <1>1, <3>1 DEF InHand
  <2>2. CASE user.found # <<>>
    <3>1. /\ user'.found = Tail(user.found) /\ UNCHANGED probe
          /\ m_nearObjectDevices' = Append(m_nearObjectDevices, Head(user.found))
      BY <1>6, <2>2 DEF AddExisting, AddDevice
    <3>2. Head(user.found) \in Controllers
      BY <1>0, <2>2, TakeHead
    <3>3. /\ Devices(user.found) \subseteq Devices(Tail(user.found)) \cup {Head(user.found)[1]}
          /\ Devices(Append(m_nearObjectDevices, Head(user.found))) =
               Devices(m_nearObjectDevices) \cup {Head(user.found)[1]}
      BY <1>0, <2>2, <3>2, DevicesOf
    <3>4. QED
      BY <1>1, <3>1, <3>3 DEF InHand
  <2>3. QED
    BY <2>1, <2>2
<1>7. QED
  BY <1>1, <1>2, <1>3, <1>4, <1>5, <1>6

LEMMA NextProbe ==
    ASSUME IInv, Flow, Waiting, Waiting', ProbeInv, [Next]_vars
    PROVE  ProbeInv'
<1> SUFFICES ASSUME probe'.pc \notin {"none", "size", "list"}, registered', owned',
                    NEW d \in present' \ missed'
             PROVE  Covered(d)'
  BY DEF ProbeInv
<1>1. CASE ProbeList
  <2>1. /\ probe'.names = Listed(probe.room) /\ missed' = present \ Listed(probe.room)
        /\ present' = present
    BY <1>1 DEF ProbeList, IInv, Types, ThreadTypes
  <2>2. d \in probe'.names
    BY <2>1
  <2>3. QED
    BY <2>2 DEF Covered, InHand
<1>2. CASE ~ProbeList
  <2>1. probe.pc \notin {"none", "size", "list"} /\ user.pc \notin Early
    BY <1>2 DEF Next, vars, User, Probe, Notifier, UserStart, Start, Stop,
         RegisterDiscoveryEventCallback, ProbeTimeout, Release, EnumerateSize, EnumerateList,
         EnumerateEach, Register, AddDiscoveryAgent, GetProbeResult, DestroyFuture,
         AddExisting, DestroyAgent, ProbeSize, ProbeEach, ProbeReady, LockManager,
         ReturnFromManager, Arrive, Depart, Change, OnDeviceInterfaceNotification,
         Flow, Places, Early, IInv, Types, ThreadTypes
  <2>2. registered /\ owned
    BY <1>2, <2>1 DEF Next, vars, User, Probe, Notifier, UserStart, Start, Stop,
         RegisterDiscoveryEventCallback, ProbeTimeout, Release, EnumerateSize, EnumerateList,
         EnumerateEach, Register, AddDiscoveryAgent, GetProbeResult, DestroyFuture,
         AddExisting, DestroyAgent, ProbeSize, ProbeEach, ProbeReady, LockManager,
         ReturnFromManager, Arrive, Depart, Change, OnDeviceInterfaceNotification, Early
  <2>3. callback
    BY <2>1, <2>2 DEF Flow, Flags, Starting, Early
  <2>4. \A x \in present \ missed : Covered(x)
    BY <2>1, <2>2 DEF ProbeInv
  <2>5. CASE \E x \in Device : Arrive(x) \/ Depart(x)
    <3>1. PICK x \in Device : Arrive(x) \/ Depart(x)
      BY <2>5
    <3>2. PICK e \in Event : events' = Append(events, e) /\ e.device = x
      BY <2>2, <3>1 DEF Arrive, Depart, Change, Notify, Event
    <3>3. events \in Seq(Event)
      BY DEF IInv, Types
    <3>4. CASE d = x
      BY <3>2, <3>3, <3>4, Queued DEF Covered
    <3>5. CASE d # x
      <4>1. /\ UNCHANGED <<probe, user, m_nearObjectDevices, notifier>>
            /\ d \in present \ missed
        <5>1. UNCHANGED <<probe, user, m_nearObjectDevices, notifier>>
          BY <3>1 DEF Arrive, Depart, Change
        <5>2. d \in present' => d \in present
          BY <3>1, <3>5 DEF Arrive, Depart
        <5>3. d \in missed => d \in missed'
          BY <3>1, <3>5 DEF Arrive, Depart
        <5>4. QED
          BY <5>1, <5>2, <5>3
      <4>2. At(events', d) = {} <=> At(events, d) = {}
        BY <3>2, <3>3, <3>5, Queued
      <4>3. Covered(d)
        BY <2>4, <4>1
      <4>4. QED
        BY <4>1, <4>2, <4>3 DEF Covered, Handling, InHand
    <3>6. QED
      BY <3>4, <3>5
  <2>6. CASE OnDeviceInterfaceNotification
    <3>0. PICK e : e = Head(events)
      OBVIOUS
    <3>1. /\ UNCHANGED <<present, missed, m_nearObjectDevices, user, probe>>
          /\ events # <<>> /\ events' = Tail(events) /\ notifier.pc = "idle"
      BY <2>6 DEF OnDeviceInterfaceNotification
    <3>2. /\ e \in Event /\ e.device \in Device
          /\ e.type = "Arrived" =>
               notifier' = [pc |-> "calling", event |-> "Arrived",
                            controller |-> CachedController(e.device)']
      BY <2>6, <3>0, Announced
    <3>3. events \in Seq(Event) /\ d \in Device /\ d \in present \ missed
      BY <3>1 DEF IInv, Types
    <3>4. /\ At(events, d) # {} => Closes(events, d, "Arrived")
          /\ InTurn(events, d)
      BY <2>2, <3>1, <3>3 DEF Waiting, EventInv
    <3>5. /\ d # e.device => (At(events', d) = {} <=> At(events, d) = {})
          /\ d = e.device =>
               /\ Opens(events, d, e.type)
               /\ \A type : Closes(events, d, type) /\ At(events', d) = {} => type = e.type
      BY <3>0, <3>1, <3>3, <3>4, Dequeued
    <3>6. CASE d # e.device
      <4>1. ~Handling("Arrived", d)
        BY <3>1, Idle
      <4>2. At(events, d) # {} \/ d \in InHand
        BY <2>4, <3>3, <4>1 DEF Covered
      <4>3. InHand' = InHand
        BY <3>1 DEF InHand
      <4>4. QED
        BY <3>5, <3>6, <4>2, <4>3 DEF Covered
    <3>7. CASE d = e.device
      <4>1. At(events, d) # {}
        BY <3>5, <3>7 DEF Opens
      <4>2. At(events', d) = {} => e.type = "Arrived"
        BY <3>4, <3>5, <3>7, <4>1
      <4>3. e.type = "Arrived" => Handling("Arrived", d)'
        BY <3>2, <3>7 DEF Handling, CachedController
      <4>4. QED
        BY <4>2, <4>3 DEF Covered
    <3>8. QED
      BY <3>6, <3>7
  <2>7. CASE ReturnFromManager
    <3>0. PICK c : c = notifier.controller
      OBVIOUS
    <3>1. /\ UNCHANGED <<present, missed, events, user, probe>>
      BY <2>7 DEF ReturnFromManager, historyVars
    <3>2. /\ notifier.event \in {"Arrived", "Departed"}
          /\ notifier.event = "Arrived" =>
               /\ c \in ToSet(m_nearObjectDevices')
               /\ ToSet(m_nearObjectDevices) \subseteq ToSet(m_nearObjectDevices')
          /\ notifier.event = "Departed" =>
               \A x \in ToSet(m_nearObjectDevices) :
                  x[1] # c[1] => x \in ToSet(m_nearObjectDevices')
      BY <2>7, <3>0, ListChanges
    <3>3. \A type : Handling(type, d) <=> notifier.event = type /\ d = c[1]
      BY <2>7, <3>0 DEF Handling, ReturnFromManager
    <3>4. Covered(d)
      BY <2>4, <3>1
    <3>5. CASE At(events, d) # {}
      BY <3>1, <3>5 DEF Covered
    <3>6. CASE At(events, d) = {}
      <4>1. notifier.event = "Departed" => d # c[1]
        <5>1. ~Handling("Departed", d)
          BY <2>2, <3>1, <3>6 DEF Waiting, HandlingInv
        <5>2. QED
          BY <3>3, <5>1
      <4>2. CASE Handling("Arrived", d)
        <5>1. d \in Devices(m_nearObjectDevices')
          BY <3>2, <3>3, <4>2 DEF Devices
        <5>2. QED
          BY <5>1 DEF Covered, InHand
      <4>3. CASE d \in Devices(m_nearObjectDevices)
        <5>1. d \in Devices(m_nearObjectDevices')
          BY <3>2, <4>1, <4>3 DEF Devices
        <5>2. QED
          BY <5>1 DEF Covered, InHand
      <4>4. CASE d \in probe.names \cup Devices(probe.found) \cup Devices(user.found)
        BY <3>1, <4>4 DEF Covered, InHand
      <4>5. QED
        BY <3>4, <3>6, <4>2, <4>3, <4>4 DEF Covered, InHand
    <3>7. QED
      BY <3>5, <3>6
  <2>8. CASE ProbeEach \/ ProbeReady \/ GetProbeResult \/ DestroyFuture \/ AddExisting
    <3>1. /\ InHand \ missed' \subseteq InHand'
          /\ missed \subseteq missed'
          /\ UNCHANGED <<present, events, notifier>>
      BY <2>8, PassedOn
    <3>2. Covered(d)
      BY <2>4, <3>1
    <3>3. QED
      BY <3>1, <3>2 DEF Covered, Handling
  <2>9. CASE LockManager \/ ProbeTimeout \/ UNCHANGED vars
    <3>1. /\ UNCHANGED <<present, missed, events, m_nearObjectDevices, probe, user.found>>
          /\ UNCHANGED <<notifier.event, notifier.controller>>
          /\ (notifier'.pc \in {"calling", "inside"}) <=> (notifier.pc \in {"calling", "inside"})
      <4>1. CASE LockManager
        BY <2>2, <2>3, <4>1 DEF LockManager, historyVars, IInv, Types, NotifierTypes
      <4>2. CASE ProbeTimeout
        BY <4>2 DEF ProbeTimeout, historyVars, IInv, Types, ThreadTypes
      <4>3. CASE UNCHANGED vars
        BY <4>3 DEF vars, historyVars
      <4>4. QED
        BY <2>9, <4>1, <4>2, <4>3
    <3>2. Covered(d)
      BY <2>4, <3>1
    <3>3. QED
      BY <3>1, <3>2 DEF Covered, Handling, InHand
  <2>10. QED
    BY <1>2, <2>1, <2>2, <2>5, <2>6, <2>7, <2>8, <2>9 DEF Next, User, Probe, Notifier,
         UserStart, Stop, RegisterDiscoveryEventCallback, Release, EnumerateSize,
         EnumerateList, EnumerateEach, Register, AddDiscoveryAgent, DestroyAgent, ProbeSize,
         Early
<1>3. QED
  BY <1>1, <1>2

-----------------------------------------------------------------------------
Tracked == IInv /\ Flow /\ Waiting /\ WindowInv /\ DirectInv /\ ProbeInv

LEMMA Tracking == Spec => []Tracked
<1>1. Init => Tracked
  BY InitIInv, InitFlow, InitWaiting, InitWindow, InitDirect, InitProbe DEF Tracked
<1>2. Tracked /\ [Next]_vars => Tracked'
  BY NextIInv, NextFlow, NextWaiting, NextWindow, NextDirect, NextProbe DEF Tracked
<1>3. QED
  BY <1>1, <1>2, PTL DEF Spec

\* Between the enumeration and the registration of AddDiscoveryAgent's own Start
\* (host/Main.cxx:73-75) nobody watches: what comes then is missing from the manager's
\* list until it comes back, what goes then stays in it, and nothing else is wrong.
THEOREM ListMatchesHolds == Spec => []ListMatches
<1>1. Tracked => ListMatches
  <2> SUFFICES ASSUME Tracked, Quiet, probe.pc = "none", NEW d \in Device
               PROVE  Copies(d) + One(d \in missed) = One(d \in present) + One(d \in stale)
    BY DEF ListMatches
  <2>1. user.pc = "done" /\ events = <<>> /\ notifier.pc = "idle"
    BY DEF Quiet
  <2>2. At(events, d) = {}
    BY <2>1, NoneQueued
  <2>3. Believed(d) = One(d \in present) - One(d \in missed)
    BY <2>1, <2>2 DEF Tracked, DirectInv, Direct
  <2>4. ~Handling("Arrived", d) /\ ~Handling("Departed", d)
    BY <2>1, Idle
  <2>5. Copies(d) \in Nat
    BY CopiesType DEF Tracked
  <2>6. QED
    BY <2>3, <2>4, <2>5 DEF Believed, One
<1>2. QED
  BY <1>1, Tracking, PTL

\* The callback is registered before the probe (NearObjectDeviceControllerManager.cxx:97),
\* so that a device that comes at any time is reported by one of the two, unless the
\* probe fails or takes too long.
THEOREM PresentIsListedHolds == Spec => []PresentIsListed
<1>1. Tracked => PresentIsListed
  <2> SUFFICES ASSUME Tracked, Quiet, NEW d \in present \ missed
               PROVE  Copies(d) >= 1
    BY DEF PresentIsListed
  <2>1. user.pc = "done" /\ registered /\ events = <<>> /\ notifier.pc = "idle"
    BY DEF Quiet
  <2>2. At(events, d) = {}
    BY <2>1, NoneQueued
  <2>3. ~Handling("Arrived", d) /\ ~Handling("Departed", d)
    BY <2>1, Idle
  <2>4. /\ d \in Device /\ m_nearObjectDevices \in Seq(Controllers)
        /\ Copies(d) \in Nat /\ Copies(d) = CopiesOf(m_nearObjectDevices, d)
    BY CopiesType DEF Tracked, IInv, Types
  <2>5. CASE probe.pc = "none"
    <3>1. Believed(d) = 1
      BY <2>1, <2>2, <2>4, <2>5 DEF Tracked, DirectInv, Direct, One
    <3>2. QED
      BY <2>3, <2>4, <3>1 DEF Believed, One
  <2>6. CASE probe.pc # "none"
    <3>1. probe.pc = "collected" /\ owned
      BY <2>1, <2>6 DEF Tracked, Flow, Places, Flags
    <3>2. d \in InHand
      BY <2>1, <2>2, <2>3, <3>1 DEF Tracked, ProbeInv, Covered
    <3>3. probe.names = {} /\ probe.found = <<>> /\ user.found = <<>>
      BY <2>1, <3>1 DEF Tracked, Flow, Nothing
    <3>4. d \in Devices(m_nearObjectDevices)
      BY <2>4, <3>2, <3>3, DevicesOf DEF InHand
    <3>5. \E c \in ToSet(m_nearObjectDevices) : c[1] = d
      BY <3>4 DEF Devices
    <3>6. QED
      BY <2>4, <3>5, CopiesAt
  <2>7. QED
    BY <2>5, <2>6
<1>2. QED
  BY <1>1, Tracking, PTL

=============================================================================
