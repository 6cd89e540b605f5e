--------------------------- MODULE SequenceLemmas ---------------------------
(***************************************************************************)
(* What the proofs need of sequences: the elements of a queue that grows   *)
(* at its end and is taken from at its head; and, by induction over the    *)
(* naturals (stated of a set, so that the provers can apply it), what      *)
(* FlattenSeq and FoldLeft do, which are defined by recursion.             *)
(***************************************************************************)
EXTENDS Integers, Sequences, SequencesExt, SequenceTheorems, WellFoundedInduction, TLAPS

NatLess == {p \in Nat \X Nat : p[1] < p[2]}

LEMMA LeastNatural ==
    ASSUME NEW T, T \subseteq Nat, T # {}
    PROVE  \E x \in T : \A y \in T : x <= y
<1>1. IsWellFoundedOn(NatLess, Nat)
  BY NatLessThanWellFounded DEF OpToRel, NatLess
<1>2. PICK x \in T : \A y \in T : ~ (<<y, x>> \in NatLess)
  BY <1>1, WFMin
<1>3. ASSUME NEW y \in T PROVE x <= y
  <2>1. ~(<<y, x>> \in NatLess) /\ x \in Nat /\ y \in Nat
    BY <1>2
  <2>2. ~(y < x)
    BY <2>1, Zenon DEF NatLess
  <2> QED
    BY <2>1, <2>2
<1> QED
  BY <1>3

\* Induction over the naturals.
LEMMA SetInduction ==
    ASSUME NEW P, 0 \in P, \A n \in Nat : n \in P => n + 1 \in P
    PROVE  \A n \in Nat : n \in P
<1>1. SUFFICES ASSUME ~(Nat \subseteq P) PROVE FALSE
  OBVIOUS
<1> DEFINE T == Nat \ P
<1>2. PICK x \in T : \A y \in T : x <= y
  <2>1. T \subseteq Nat /\ T # {}
    BY <1>1
  <2> HIDE DEF T
  <2> QED
    BY <2>1, LeastNatural
<1>3. x \in Nat /\ x # 0 /\ x \notin P
  BY <1>2
<1>4. x - 1 \in Nat /\ ~(x <= x - 1) /\ (x - 1) + 1 = x
  BY <1>3
<1>5. x - 1 \in P
  BY <1>2, <1>4
<1> QED
  BY <1>3, <1>4, <1>5

-----------------------------------------------------------------------------
(* FlattenSeq.                                                             *)

\* f flattens the beginnings of ss, to the n-th.
FlattensTo(f, ss, n) ==
    \A i \in 1..n : f[i] = IF i = 1 THEN ss[i] ELSE f[i - 1] \o ss[i]
Flattens(f, ss) ==
    f = [i \in 1..Len(ss) |-> IF i = 1 THEN ss[i] ELSE f[i - 1] \o ss[i]]

LEMMA FlatteningGoesOn ==
    ASSUME NEW S, NEW ss \in Seq(Seq(S)), NEW n \in Nat, n + 1 <= Len(ss),
           NEW f \in [1..n -> Seq(S)], FlattensTo(f, ss, n)
    PROVE  \E g \in [1..(n + 1) -> Seq(S)] : FlattensTo(g, ss, n + 1)
<1> DEFINE last == IF n = 0 THEN ss[n + 1] ELSE f[n] \o ss[n + 1]
<1> DEFINE g == [i \in 1..(n + 1) |-> IF i = n + 1 THEN last ELSE f[i]]
<1>1. ss[n + 1] \in Seq(S)
  OBVIOUS
<1>2. last \in Seq(S)
  <2>1. CASE n = 0
    BY <1>1, <2>1
  <2>2. CASE n # 0
    <3>1. f[n] \in Seq(S)
      BY <2>2
    <3> QED
      BY <1>1, <2>2, <3>1
  <2> QED
    BY <2>1, <2>2
<1> HIDE DEF last
<1>3. g \in [1..(n + 1) -> Seq(S)]
  BY <1>2
<1>4. g[n + 1] = last /\ \A i \in 1..n : g[i] = f[i]
  OBVIOUS
<1> HIDE DEF g
<1>5. ASSUME NEW i \in 1..(n + 1)
      PROVE  g[i] = IF i = 1 THEN ss[i] ELSE g[i - 1] \o ss[i]
  <2>1. CASE i = n + 1
    <3>1. n # 0 => g[n] = f[n] /\ i - 1 = n
      BY <1>4, <2>1
    <3> QED
      BY <1>4, <2>1, <3>1 DEF last
  <2>2. CASE i # n + 1
    <3>1. i \in 1..n /\ (i # 1 => i - 1 \in 1..n)
      BY <2>2
    <3>2. f[i] = IF i = 1 THEN ss[i] ELSE f[i - 1] \o ss[i]
      BY <3>1 DEF FlattensTo
    <3>3. g[i] = f[i] /\ (i # 1 => g[i - 1] = f[i - 1])
      BY <1>4, <3>1
    <3> QED
      BY <3>2, <3>3
  <2> QED
    BY <2>1, <2>2
<1> QED
  BY <1>3, <1>5 DEF FlattensTo

LEMMA FlatteningExists ==
    ASSUME NEW S, NEW ss \in Seq(Seq(S))
    PROVE  \E f \in [1..Len(ss) -> Seq(S)] : Flattens(f, ss)
<1> DEFINE P == {n \in Nat : n <= Len(ss) => \E f \in [1..n -> Seq(S)] : FlattensTo(f, ss, n)}
<1>1. 0 \in P
  <2>1. [i \in 1..0 |-> <<>>] \in [1..0 -> Seq(S)]
    OBVIOUS
  <2>2. \A f : FlattensTo(f, ss, 0)
    BY DEF FlattensTo
  <2> QED
    BY <2>1, <2>2
<1>2. ASSUME NEW n \in Nat, n \in P PROVE n + 1 \in P
  <2>1. SUFFICES ASSUME n + 1 <= Len(ss)
                 PROVE  \E f \in [1..(n + 1) -> Seq(S)] : FlattensTo(f, ss, n + 1)
    OBVIOUS
  <2>2. n <= Len(ss)
    BY <2>1
  <2>3. PICK f \in [1..n -> Seq(S)] : FlattensTo(f, ss, n)
    BY <1>2, <2>2
  <2> QED
    BY <2>1, <2>3, FlatteningGoesOn
<1>3. Len(ss) \in Nat
  OBVIOUS
<1>4. Len(ss) \in P
  <2> HIDE DEF P
  <2> QED
    BY <1>1, <1>2, <1>3, SetInduction
<1>5. PICK f \in [1..Len(ss) -> Seq(S)] : FlattensTo(f, ss, Len(ss))
  BY <1>4, <1>3
<1>6. f = [i \in 1..Len(ss) |-> IF i = 1 THEN ss[i] ELSE f[i - 1] \o ss[i]]
  BY <1>5 DEF FlattensTo
<1> QED
  BY <1>6 DEF Flattens

LEMMA FlattensIsTo ==
    ASSUME NEW ss, NEW f, Len(ss) \in Nat, Flattens(f, ss)
    PROVE  FlattensTo(f, ss, Len(ss))
<1> SUFFICES ASSUME NEW i \in 1..Len(ss)
             PROVE  f[i] = IF i = 1 THEN ss[i] ELSE f[i - 1] \o ss[i]
  BY DEF FlattensTo
<1> QED
  BY Zenon DEF Flattens

\* f and g agree up to m.
Agree(f, g, m) == \A i \in 1..m : f[i] = g[i]

LEMMA FlatteningIsUnique ==
    ASSUME NEW ss, NEW tt, NEW f, NEW g, NEW m \in Nat,
           FlattensTo(f, ss, m), FlattensTo(g, tt, m), Agree(ss, tt, m)
    PROVE  Agree(f, g, m)
<1> DEFINE P == {n \in Nat : n \in 1..m => f[n] = g[n]}
<1>1. 0 \in P
  OBVIOUS
<1>a. ASSUME NEW i \in 1..m, i = 1 \/ f[i - 1] = g[i - 1]
      PROVE  f[i] = g[i]
  <2>1. /\ f[i] = IF i = 1 THEN ss[i] ELSE f[i - 1] \o ss[i]
        /\ g[i] = IF i = 1 THEN tt[i] ELSE g[i - 1] \o tt[i]
        /\ ss[i] = tt[i]
    BY Zenon DEF FlattensTo, Agree
  <2>2. CASE i = 1
    BY <2>1, <2>2, Zenon
  <2>3. CASE i # 1
    BY <2>1, <2>3, <1>a, Zenon
  <2> QED
    BY <2>2, <2>3
<1>2. ASSUME NEW n \in Nat, n \in P PROVE n + 1 \in P
  <2>1. SUFFICES ASSUME n + 1 \in 1..m PROVE f[n + 1] = g[n + 1]
    OBVIOUS
  <2>2. (n + 1) - 1 = n /\ (n # 0 => n \in 1..m)
    BY <2>1
  <2>3. n + 1 = 1 \/ f[n] = g[n]
    BY <1>2, <2>2
  <2> DEFINE i == n + 1
  <2>4. i \in 1..m /\ (i = 1 \/ f[i - 1] = g[i - 1])
    BY <2>1, <2>2, <2>3
  <2> HIDE DEF i
  <2>5. f[i] = g[i]
    BY <1>a, <2>4
  <2> QED
    BY <2>5 DEF i
<1>3. \A n \in Nat : n \in P
  <2> HIDE DEF P
  <2> QED
    BY <1>1, <1>2, SetInduction
<1> QED
  BY <1>3 DEF Agree

\* FlattenSeq is what one flattening of the sequence ends with.
LEMMA FlattenIs ==
    ASSUME NEW S, NEW ss \in Seq(Seq(S))
    PROVE  /\ ss = <<>> => FlattenSeq(ss) = <<>>
           /\ ss # <<>> => \E f \in [1..Len(ss) -> Seq(S)] :
                             Flattens(f, ss) /\ FlattenSeq(ss) = f[Len(ss)]
           /\ FlattenSeq(ss) \in Seq(S)
<1>1. CASE ss = <<>>
  BY <1>1 DEF FlattenSeq
<1>2. CASE ss # <<>>
  <2>1. PICK f \in [1..Len(ss) -> Seq(S)] : Flattens(f, ss)
    BY FlatteningExists
  <2> DEFINE h == CHOOSE g : Flattens(g, ss)
  <2>2. Flattens(h, ss)
    BY <2>1, Zenon
  <2>3. FlattenSeq(ss) = h[Len(ss)]
    <3>1. Len(ss) # 0
      BY <1>2
    <3> QED
      BY <3>1, Zenon DEF FlattenSeq, Flattens
  <2> HIDE DEF h
  <2>5. Len(ss) \in 1..Len(ss) /\ Len(ss) \in Nat
    BY <1>2
  <2>a. FlattensTo(f, ss, Len(ss)) /\ FlattensTo(h, ss, Len(ss))
    BY <2>1, <2>2, <2>5, FlattensIsTo
  <2>b. Agree(ss, ss, Len(ss))
    BY DEF Agree
  <2>4. Agree(h, f, Len(ss))
    BY <2>a, <2>b, <2>5, FlatteningIsUnique
  <2>6. FlattenSeq(ss) = f[Len(ss)] /\ f[Len(ss)] \in Seq(S)
    BY <2>3, <2>4, <2>5 DEF Agree
  <2> QED
    BY <1>2, <2>1, <2>6
<1> QED
  BY <1>1, <1>2

LEMMA FlattenAppend ==
    ASSUME NEW S, NEW ss \in Seq(Seq(S)), NEW s \in Seq(S)
    PROVE  FlattenSeq(Append(ss, s)) = FlattenSeq(ss) \o s
<1> DEFINE tt == Append(ss, s)
<1>1. tt \in Seq(Seq(S)) /\ Len(tt) = Len(ss) + 1 /\ Len(ss) \in Nat
  OBVIOUS
<1>2. (\A i \in 1..Len(ss) : ss[i] = tt[i]) /\ tt[Len(ss) + 1] = s
  OBVIOUS
<1>3. tt # <<>>
  BY <1>1
<1> HIDE DEF tt
<1>4. PICK g \in [1..Len(tt) -> Seq(S)] : Flattens(g, tt) /\ FlattenSeq(tt) = g[Len(tt)]
  BY <1>1, <1>3, FlattenIs
<1>5. FlattensTo(g, tt, Len(tt)) /\ Len(tt) \in 1..Len(tt)
  BY <1>1, <1>4, FlattensIsTo
<1>6. g[Len(tt)] = IF Len(tt) = 1 THEN tt[Len(tt)] ELSE g[Len(tt) - 1] \o tt[Len(tt)]
  BY <1>5, Zenon DEF FlattensTo
<1>7. CASE ss = <<>>
  <2>1. FlattenSeq(ss) = <<>> /\ Len(tt) = 1
    <3>1. Len(ss) = 0
      BY <1>7
    <3>2. FlattenSeq(ss) = <<>>
      BY <1>7, FlattenIs, Zenon
    <3> QED
      BY <1>1, <3>1, <3>2
  <2> QED
    BY <1>1, <1>2, <1>4, <1>6, <2>1 DEF tt
<1>8. CASE ss # <<>>
  <2>1. PICK f \in [1..Len(ss) -> Seq(S)] : Flattens(f, ss) /\ FlattenSeq(ss) = f[Len(ss)]
    BY <1>8, FlattenIs
  <2>2. FlattensTo(f, ss, Len(ss))
    BY <1>1, <2>1, FlattensIsTo
  <2>3. FlattensTo(g, tt, Len(ss))
    <3>1. 1..Len(ss) \subseteq 1..Len(tt)
      BY <1>1
    <3> QED
      BY <1>5, <3>1, Zenon DEF FlattensTo
  <2>4. Agree(f, g, Len(ss))
    <3>1. Len(ss) \in Nat /\ Agree(ss, tt, Len(ss))
      BY <1>1, <1>2 DEF Agree
    <3> QED
      BY <3>1, <2>2, <2>3, FlatteningIsUnique
  <2>5. Len(tt) # 1 /\ Len(tt) - 1 = Len(ss) /\ Len(ss) \in 1..Len(ss)
    BY <1>1, <1>8
  <2> QED
    BY <1>1, <1>2, <1>4, <1>6, <2>1, <2>4, <2>5 DEF tt, Agree
<1> QED
  BY <1>7, <1>8

LEMMA ConcatAppend ==
    ASSUME NEW S, NEW s \in Seq(S), NEW t \in Seq(S), NEW e \in S
    PROVE  s \o Append(t, e) = Append(s \o t, e)
<1>1. <<e>> \in Seq(S) /\ s \o t \in Seq(S)
  OBVIOUS
<1>2. Append(t, e) = t \o <<e>> /\ Append(s \o t, e) = (s \o t) \o <<e>>
  BY <1>1, AppendIsConcat
<1>3. (s \o t) \o <<e>> = s \o (t \o <<e>>)
  BY <1>1, ConcatAssociative
<1> QED
  BY <1>2, <1>3, Zenon

LEMMA FlattenConcat ==
    ASSUME NEW S, NEW ss \in Seq(Seq(S)), NEW tt \in Seq(Seq(S))
    PROVE  FlattenSeq(ss \o tt) = FlattenSeq(ss) \o FlattenSeq(tt)
<1> DEFINE P == {n \in Nat : \A uu \in Seq(Seq(S)) :
                     Len(uu) = n => FlattenSeq(ss \o uu) = FlattenSeq(ss) \o FlattenSeq(uu)}
<1>0. \A x, y, z \in Seq(S) : (x \o y) \o z = x \o (y \o z)
  OBVIOUS
<1>1. FlattenSeq(ss) \in Seq(S)
  BY FlattenIs
<1>2. 0 \in P
  <2>1. ASSUME NEW uu \in Seq(Seq(S)), Len(uu) = 0
        PROVE  FlattenSeq(ss \o uu) = FlattenSeq(ss) \o FlattenSeq(uu)
    <3>1. uu = <<>> /\ ss \o uu = ss
      BY <2>1
    <3>2. FlattenSeq(uu) = <<>>
      BY <3>1, FlattenIs
    <3> QED
      BY <1>1, <3>1, <3>2
  <2> QED
    BY <2>1
<1>3. ASSUME NEW n \in Nat, n \in P PROVE n + 1 \in P
  <2>1. ASSUME NEW uu \in Seq(Seq(S)), Len(uu) = n + 1
        PROVE  FlattenSeq(ss \o uu) = FlattenSeq(ss) \o FlattenSeq(uu)
    <3> DEFINE vv == SubSeq(uu, 1, n)
    <3>0. uu[n + 1] \in Seq(S) /\ vv \in Seq(Seq(S)) /\ Len(vv) = n
      BY <2>1
    <3>1. vv \in Seq(Seq(S)) /\ Len(vv) = n /\ uu[n + 1] \in Seq(S) /\ uu = Append(vv, uu[n + 1])
      <4>1. uu = Append(vv, uu[n + 1])
        BY <2>1, <3>0
      <4> QED
        BY <3>0, <4>1
    <3> HIDE DEF vv
    <3>2. FlattenSeq(ss \o vv) = FlattenSeq(ss) \o FlattenSeq(vv)
      BY <1>3, <3>1
    <3>3. ss \o vv \in Seq(Seq(S)) /\ ss \o uu = Append(ss \o vv, uu[n + 1])
      <4>1. ss \o Append(vv, uu[n + 1]) = Append(ss \o vv, uu[n + 1])
        BY <3>0, ConcatAppend
      <4>2. ss \o vv \in Seq(Seq(S))
        BY <3>0, ConcatProperties
      <4> QED
        BY <3>1, <4>1, <4>2, Zenon
    <3>4. FlattenSeq(ss \o uu) = (FlattenSeq(ss) \o FlattenSeq(vv)) \o uu[n + 1]
      BY <3>1, <3>2, <3>3, FlattenAppend
    <3>5. FlattenSeq(uu) = FlattenSeq(vv) \o uu[n + 1] /\ FlattenSeq(vv) \in Seq(S)
      BY <3>1, FlattenAppend, FlattenIs
    <3>6. (FlattenSeq(ss) \o FlattenSeq(vv)) \o uu[n + 1] = FlattenSeq(ss) \o (FlattenSeq(vv) \o uu[n + 1])
      BY <1>0, <1>1, <3>0, <3>5, Zenon
    <3> QED
      BY <3>4, <3>5, <3>6, Zenon
  <2> QED
    BY <2>1
<1>4. Len(tt) \in P
  <2>1. Len(tt) \in Nat
    OBVIOUS
  <2> HIDE DEF P
  <2> QED
    BY <1>2, <1>3, <2>1, SetInduction
<1> QED
  BY <1>4

-----------------------------------------------------------------------------
(* Queues.                                                                 *)

\* No element comes twice.
Once(s) == \A i, j \in 1..Len(s) : s[i] = s[j] => i = j

LEMMA ToSetIs ==
    ASSUME NEW S, NEW s \in Seq(S)
    PROVE  /\ ToSet(s) = {s[i] : i \in 1..Len(s)}
           /\ ToSet(s) \subseteq S
           /\ ToSet(s) = {} <=> s = <<>>
  BY DEF ToSet

LEMMA QueueGrows ==
    ASSUME NEW S, NEW s \in Seq(S), NEW e \in S
    PROVE  /\ Append(s, e) \in Seq(S)
           /\ ToSet(Append(s, e)) = ToSet(s) \cup {e}
           /\ Once(s) /\ e \notin ToSet(s) => Once(Append(s, e))
<1> DEFINE t == Append(s, e)
<1>1. t \in Seq(S) /\ Len(t) = Len(s) + 1 /\ Len(s) \in Nat
  OBVIOUS
<1>2. (\A i \in 1..Len(s) : t[i] = s[i]) /\ t[Len(s) + 1] = e
  OBVIOUS
<1> HIDE DEF t
<1>3. \A i \in 1..Len(t) : i \in 1..Len(s) \/ i = Len(s) + 1
  BY <1>1
<1>4. 1..Len(s) \subseteq 1..Len(t) /\ Len(s) + 1 \in 1..Len(t)
  BY <1>1
<1>5. ToSet(s) = {s[i] : i \in 1..Len(s)} /\ ToSet(t) = {t[i] : i \in 1..Len(t)}
  BY <1>1, ToSetIs
<1>6. ToSet(t) = ToSet(s) \cup {e}
  <2>1. ASSUME NEW x \in ToSet(t) PROVE x \in ToSet(s) \cup {e}
    <3>1. PICK i \in 1..Len(t) : x = t[i]
      BY <1>5
    <3> QED
      BY <1>2, <1>3, <1>5, <3>1
  <2>2. ASSUME NEW x \in ToSet(s) \cup {e} PROVE x \in ToSet(t)
    BY <1>2, <1>4, <1>5
  <2> QED
    BY <2>1, <2>2
<1>7. ASSUME Once(s), e \notin ToSet(s) PROVE Once(t)
  BY <1>2, <1>3, <1>5, <1>7 DEF Once
<1> QED
  BY <1>1, <1>6, <1>7 DEF t

LEMMA QueueTaken ==
    ASSUME NEW S, NEW s \in Seq(S), s # <<>>
    PROVE  /\ Head(s) \in ToSet(s) /\ Head(s) \in S
           /\ Tail(s) \in Seq(S)
           /\ Once(s) => Once(Tail(s)) /\ ToSet(Tail(s)) = ToSet(s) \ {Head(s)}
           /\ ToSet(Tail(s)) \subseteq ToSet(s)
<1> DEFINE t == Tail(s)
<1>1. t \in Seq(S) /\ Len(s) \in Nat /\ Len(t) = Len(s) - 1 /\ Len(s) > 0 /\ Head(s) = s[1] /\ s[1] \in S
  OBVIOUS
<1>2. \A i \in 1..Len(t) : t[i] = s[i + 1]
  OBVIOUS
<1> HIDE DEF t
<1>3. \A i \in 1..Len(t) : i + 1 \in 1..Len(s)
  BY <1>1
<1>4. \A i \in 1..Len(s) : i = 1 \/ (i - 1 \in 1..Len(t) /\ (i - 1) + 1 = i)
  BY <1>1
<1>5. ToSet(s) = {s[i] : i \in 1..Len(s)} /\ ToSet(t) = {t[i] : i \in 1..Len(t)}
  BY <1>1, ToSetIs
<1>6. ToSet(t) \subseteq ToSet(s) /\ s[1] \in ToSet(s)
  BY <1>1, <1>2, <1>3, <1>5
<1>7. ASSUME Once(s) PROVE Once(t) /\ ToSet(t) = ToSet(s) \ {s[1]}
  <2>1. Once(t)
    <3> SUFFICES ASSUME NEW i \in 1..Len(t), NEW j \in 1..Len(t), t[i] = t[j] PROVE i = j
      BY DEF Once
    <3>1. s[i + 1] = s[j + 1] /\ i + 1 \in 1..Len(s) /\ j + 1 \in 1..Len(s)
      BY <1>2, <1>3
    <3>2. i + 1 = j + 1
      BY <1>7, <3>1, Zenon DEF Once
    <3> QED
      BY <3>2
  <2>2. s[1] \notin ToSet(t)
    <3> SUFFICES ASSUME NEW i \in 1..Len(t), t[i] = s[1] PROVE FALSE
      BY <1>5
    <3>1. s[i + 1] = s[1] /\ i + 1 \in 1..Len(s) /\ 1 \in 1..Len(s)
      BY <1>1, <1>2, <1>3
    <3>2. i + 1 = 1
      BY <1>7, <3>1, Zenon DEF Once
    <3> QED
      BY <3>2
  <2>3. ASSUME NEW x \in ToSet(s), x # s[1] PROVE x \in ToSet(t)
    <3>1. PICK i \in 1..Len(s) : x = s[i]
      BY <1>5
    <3>2. i - 1 \in 1..Len(t) /\ t[i - 1] = s[i]
      BY <1>2, <1>4, <2>3, <3>1
    <3> QED
      BY <1>5, <3>1, <3>2
  <2> QED
    BY <1>6, <2>1, <2>2, <2>3
<1> QED
  BY <1>1, <1>6, <1>7 DEF t

\* Taking the head loses nothing else, equal elements or not.
LEMMA TailHasRest ==
    ASSUME NEW S, NEW s \in Seq(S), s # <<>>, NEW x \in ToSet(s), x # Head(s)
    PROVE  x \in ToSet(Tail(s))
<1>1. PICK i \in 1..Len(s) : x = s[i]
  BY ToSetIs
<1>2. Len(s) \in Nat /\ Len(Tail(s)) = Len(s) - 1 /\ Head(s) = s[1] /\ Tail(s) \in Seq(S)
  OBVIOUS
<1>3. i # 1 /\ i - 1 \in 1..Len(Tail(s)) /\ Tail(s)[i - 1] = s[i]
  BY <1>1, <1>2
<1>4. ToSet(Tail(s)) = {Tail(s)[j] : j \in 1..Len(Tail(s))}
  BY <1>2, ToSetIs
<1> QED
  BY <1>1, <1>3, <1>4

LEMMA EmptyQueue == ToSet(<<>>) = {} /\ Once(<<>>)
  BY DEF ToSet, Once

-----------------------------------------------------------------------------
(* Folds: FoldLeft computes with a function on the subsets of the domain,  *)
(* which exists for every operation that keeps a set.                      *)

LEMMA MaxIs ==
    ASSUME NEW s, NEW n \in Int, n \in s, \A x \in s : x \in Int /\ x <= n
    PROVE  Max(s) = n
<1>1. \A y \in s : n >= y
  OBVIOUS
<1>2. Max(s) \in s /\ \A y \in s : Max(s) >= y
  BY <1>1 DEF Max
<1>3. Max(s) \in Int /\ Max(s) <= n /\ Max(s) >= n
  BY <1>2
<1> QED
  BY <1>3

\* g is the function MapThenFoldSet computes with on 1..n, where G is what it does.
FoldsTo(g, G, base, n) ==
    \A s \in SUBSET (1..n) : g[s] = IF s = {} THEN base ELSE G[<<Max(s), g[s \ {Max(s)}]>>]

HasFold(T, G, base, n) == \E g \in [SUBSET (1..n) -> T] : FoldsTo(g, G, base, n)

\* There is such a function.
LEMMA FoldExists ==
    ASSUME NEW T, NEW base \in T, NEW n \in Nat, NEW G \in [(1..n) \X T -> T]
    PROVE  HasFold(T, G, base, n)
<1> DEFINE P == {m \in Nat : m <= n => HasFold(T, G, base, m)}
<1>1. 0 \in P
  <2> DEFINE g == [s \in SUBSET (1..0) |-> base]
  <2>1. \A s \in SUBSET (1..0) : s = {}
    OBVIOUS
  <2>2. g \in [SUBSET (1..0) -> T] /\ FoldsTo(g, G, base, 0)
    BY <2>1 DEF FoldsTo
  <2> QED
    BY <2>2 DEF HasFold
<1>2. ASSUME NEW m \in Nat, m \in P PROVE m + 1 \in P
  <2> SUFFICES ASSUME m + 1 <= n
               PROVE  HasFold(T, G, base, m + 1)
    OBVIOUS
  <2>1. PICK f \in [SUBSET (1..m) -> T] : FoldsTo(f, G, base, m)
    BY <1>2 DEF HasFold
  <2> DEFINE g == [s \in SUBSET (1..(m + 1)) |->
                     IF m + 1 \in s THEN G[<<m + 1, f[s \ {m + 1}]>>] ELSE f[s]]
  <2>2. \A s \in SUBSET (1..(m + 1)) : s \ {m + 1} \in SUBSET (1..m)
    OBVIOUS
  <2>3. \A s \in SUBSET (1..(m + 1)) : m + 1 \notin s => s \in SUBSET (1..m)
    OBVIOUS
  <2>4. g \in [SUBSET (1..(m + 1)) -> T]
    <3> SUFFICES ASSUME NEW s \in SUBSET (1..(m + 1)) PROVE g[s] \in T
      OBVIOUS
    <3>1. CASE m + 1 \in s
      <4>1. f[s \ {m + 1}] \in T /\ m + 1 \in 1..n
        BY <2>1, <2>2
      <4> QED
        BY <3>1, <4>1
    <3>2. CASE m + 1 \notin s
      BY <2>1, <2>3, <3>2
    <3> QED
      BY <3>1, <3>2
  <2>5. FoldsTo(g, G, base, m + 1)
    <3> SUFFICES ASSUME NEW s \in SUBSET (1..(m + 1))
                 PROVE  g[s] = IF s = {} THEN base ELSE G[<<Max(s), g[s \ {Max(s)}]>>]
      BY DEF FoldsTo
    <3>1. CASE m + 1 \in s
      <4>1. Max(s) = m + 1
        <5>1. m + 1 \in Int /\ \A x \in s : x \in Int /\ x <= m + 1
          OBVIOUS
        <5> QED
          BY <3>1, <5>1, MaxIs
      <4>2. g[s \ {m + 1}] = f[s \ {m + 1}]
        BY <2>2
      <4> QED
        BY <3>1, <4>1, <4>2
    <3>2. CASE m + 1 \notin s
      <4>1. s \in SUBSET (1..m) /\ g[s] = f[s]
        BY <2>3, <3>2
      <4>2. s \ {Max(s)} \in SUBSET (1..m) /\ m + 1 \notin s \ {Max(s)}
        <5>1. \A x : s \ {x} \in SUBSET (1..m) /\ m + 1 \notin s \ {x}
          BY <3>2, <4>1
        <5> QED
          BY <5>1
      <4>3. g[s \ {Max(s)}] = f[s \ {Max(s)}]
        BY <4>2
      <4>4. f[s] = IF s = {} THEN base ELSE G[<<Max(s), f[s \ {Max(s)}]>>]
        BY <2>1, <4>1 DEF FoldsTo
      <4> QED
        BY <4>1, <4>3, <4>4
    <3> QED
      BY <3>1, <3>2
  <2> QED
    BY <2>4, <2>5 DEF HasFold
<1> HIDE DEF P
<1>3. \A m \in Nat : m \in P
  BY <1>1, <1>2, SetInduction
<1>4. n \in P
  BY <1>3
<1> QED
  BY <1>4 DEF P

\* A bounded set of numbers that is not empty has its greatest one.
LEMMA MaxMember ==
    ASSUME NEW n \in Nat, NEW a \in SUBSET (1..n), a # {}
    PROVE  Max(a) \in a
<1> DEFINE T == {n - x : x \in a}
<1>1. T \subseteq Nat /\ T # {}
  <2>1. \A x \in a : n - x \in Nat
    OBVIOUS
  <2> QED
    BY <2>1
<1>2. PICK y \in T : \A z \in T : y <= z
  <2> HIDE DEF T
  <2> QED
    BY <1>1, LeastNatural
<1>3. PICK x \in a : y = n - x
  OBVIOUS
<1>4. \A z \in a : n - x <= n - z
  BY <1>2, <1>3
<1>5. \A z \in a : x >= z
  BY <1>4
<1> QED
  BY <1>5 DEF Max

\* The sets FoldLeft comes by.
LEMMA IntervalIs ==
    ASSUME NEW i \in Nat
    PROVE  /\ 1..0 = {} /\ i > 0 => (1..i # {} /\ Max(1..i) = i /\ (1..i) \ {i} = 1..(i - 1))
<1>1. i > 0 => Max(1..i) = i
  <2>1. i > 0 => i \in 1..i /\ i \in Int /\ \A x \in 1..i : x \in Int /\ x <= i
    OBVIOUS
  <2> QED
    BY <2>1, MaxIs
<1> QED
  BY <1>1
=============================================================================
