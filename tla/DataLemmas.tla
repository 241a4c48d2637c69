------------------------------ MODULE DataLemmas ------------------------------
(***************************************************************************)
(* Induction over the natural numbers, over sets instead of predicates, so *)
(* that every prover can use it; that functions defined by recursion over  *)
(* an interval exist; what FlattenSeq computes; and small facts about      *)
(* sequences that more than one proof needs.                               *)
(***************************************************************************)
EXTENDS Integers, SequencesExt, SequenceTheorems, WellFoundedInduction, TLAPS

\* The order of the numbers as a relation.
Less == {p \in Nat \X Nat : p[1] < p[2]}

\* A set of numbers has a least element.
LEMMA LeastElement ==
  ASSUME NEW T \in SUBSET Nat, T # {}
  PROVE  \E m \in T : \A n \in T : m <= n
  <1>1. OpToRel(<, Nat) = Less
    BY DEF OpToRel, Less
  <1>2. IsWellFoundedOn(Less, Nat)
    BY <1>1, NatLessThanWellFounded
  <1>3. \E m \in T : \A n \in T : ~ (<<n, m>> \in Less)
    BY <1>2, WFMin, Zenon
  <1>4. PICK m \in T : \A n \in T : ~ (<<n, m>> \in Less)
    BY <1>3
  <1>5. ASSUME NEW n \in T PROVE m <= n
    <2>1. ~ (<<n, m>> \in Less) /\ n \in Nat /\ m \in Nat
      BY <1>4
    <2>2. n < m => <<n, m>> \in Less
      BY <2>1 DEF Less
    <2>. QED
      BY <2>1, <2>2
  <1>. QED
    BY <1>5

\* What CHOOSE makes of the least number of a set.
LEMMA LeastChosen ==
  ASSUME NEW S \in SUBSET Nat, S # {}, NEW n, n = CHOOSE x \in S : \A m \in S : x <= m
  PROVE  n \in S /\ \A m \in S : n <= m
<1>1. \E x \in S : \A m \in S : x <= m
  BY LeastElement
<1> QED
  BY <1>1

\* What holds of 0, and with a number of the next one, holds of all up to n.
LEMMA UpTo ==
  ASSUME NEW T, NEW n \in Nat, 0 \in T,
         \A m \in 0 .. n - 1 : m \in T => m + 1 \in T
  PROVE  \A m \in 0 .. n : m \in T
  <1>. DEFINE B == {m \in 0 .. n : m \notin T}
  <1>. SUFFICES ASSUME B # {} PROVE FALSE
    OBVIOUS
  <1>0. B \in SUBSET Nat
    OBVIOUS
  <1>. HIDE DEF B
  <1>1. PICK m \in B : \A k \in B : m <= k
    BY <1>0, LeastElement
  <1>. USE DEF B
  <1>2. m # 0 /\ m - 1 \in 0 .. n - 1 /\ m - 1 \notin B
    BY <1>1
  <1>3. m - 1 \in T
    BY <1>2
  <1>. QED
    BY <1>1, <1>2, <1>3

\* G gives the next value from the last one and the number of the turn; f holds
\* the values of n turns from c on.
IsStep(G, V, n) == G \in [V \X (1 .. n) -> V]
IsIteration(f, G, V, c, n) ==
  /\ f \in [0 .. n -> V]
  /\ f[0] = c
  /\ \A i \in 1 .. n : f[i] = G[<<f[i - 1], i>>]

\* A recursion over an interval defines a function.
LEMMA Iteration ==
  ASSUME NEW V, NEW c \in V, NEW n \in Nat, NEW G, IsStep(G, V, n)
  PROVE  \E f : IsIteration(f, G, V, c, n)
  <1>. USE DEF IsStep
  <1>. DEFINE Upto(f, m) == f[0] = c /\ \A i \in 1 .. m : f[i] = G[<<f[i - 1], i>>]
              T == {m \in Nat : \E f \in [0 .. m -> V] : Upto(f, m)}
  <1>1. 0 \in T
    <2>1. [i \in 0 .. 0 |-> c] \in [0 .. 0 -> V] /\ Upto([i \in 0 .. 0 |-> c], 0)
      OBVIOUS
    <2>. QED
      BY <2>1
  <1>2. ASSUME NEW m \in 0 .. n - 1, m \in T
        PROVE  m + 1 \in T
    <2>1. PICK f \in [0 .. m -> V] : Upto(f, m)
      BY <1>2
    <2>2. m + 1 \in 1 .. n /\ f[m] \in V
      OBVIOUS
    <2>. DEFINE x == G[<<f[m], m + 1>>]
                g == [i \in 0 .. m + 1 |-> IF i = m + 1 THEN x ELSE f[i]]
    <2>3. x \in V
      BY <2>2
    <2>. HIDE DEF x
    <2>4. g \in [0 .. m + 1 -> V]
      BY <2>3
    <2>5. g[0] = c
      BY <2>1
    <2>6. ASSUME NEW i \in 1 .. m + 1 PROVE g[i] = G[<<g[i - 1], i>>]
      <3>1. CASE i = m + 1
        <4>1. g[i] = x /\ g[i - 1] = f[m]
          BY <3>1
        <4>. QED
          BY <3>1, <4>1 DEF x
      <3>2. CASE i # m + 1
        <4>1. i \in 1 .. m /\ g[i] = f[i] /\ g[i - 1] = f[i - 1]
          BY <3>2
        <4>. QED
          BY <2>1, <4>1
      <3>. QED
        BY <3>1, <3>2
    <2>7. Upto(g, m + 1)
      BY <2>5, <2>6
    <2>. HIDE DEF g, Upto
    <2>8. \E h \in [0 .. m + 1 -> V] : Upto(h, m + 1)
      BY <2>4, <2>7
    <2>. QED
      BY <2>2, <2>8
  <1>. HIDE DEF T
  <1>3. n \in T
    BY <1>1, <1>2, UpTo
  <1>. QED
    BY <1>3 DEF T, IsIteration

-----------------------------------------------------------------------------
\* The intermediate results of concatenating the members of ss in order.
IsFlattening(f, ss, S) ==
  /\ f \in [0 .. Len(ss) -> Seq(S)]
  /\ f[0] = << >>
  /\ \A i \in 1 .. Len(ss) : f[i] = f[i - 1] \o ss[i]

\* They exist for every sequence of sequences.
LEMMA FlatteningExists ==
  ASSUME NEW S, NEW ss \in Seq(Seq(S))
  PROVE  \E f : IsFlattening(f, ss, S)
  <1>. SUFFICES ASSUME NEW n \in Nat, n = Len(ss), NEW V, V = Seq(S), NEW c, c = << >>
                PROVE  \E f : IsFlattening(f, ss, S)
    OBVIOUS
  <1>. DEFINE G == [p \in V \X (1 .. n) |-> p[1] \o ss[p[2]]]
  <1>1. c \in V
    OBVIOUS
  <1>2. \A v \in V, i \in 1 .. n : ss[i] \in V /\ v \o ss[i] \in V
    OBVIOUS
  <1>3. IsStep(G, V, n)
    BY <1>2 DEF IsStep
  <1>4. \A v \in V, i \in 1 .. n : G[<<v, i>>] = v \o ss[i]
    OBVIOUS
  <1>. HIDE DEF G
  <1>5. PICK f : IsIteration(f, G, V, c, n)
    BY <1>1, <1>3, Iteration
  <1>6. /\ f \in [0 .. n -> V] /\ f[0] = c
        /\ \A i \in 1 .. n : f[i] = G[<<f[i - 1], i>>]
    BY <1>5 DEF IsIteration
  <1>7. ASSUME NEW i \in 1 .. n PROVE f[i - 1] \in V
    <2>1. i - 1 \in 0 .. n
      OBVIOUS
    <2>. QED
      BY <1>6, <2>1
  <1>8. \A i \in 1 .. n : f[i] = f[i - 1] \o ss[i]
    BY <1>4, <1>6, <1>7
  <1>9. f \in [0 .. Len(ss) -> Seq(S)] /\ f[0] = << >>
    BY <1>6
  <1>. QED
    BY <1>8, <1>9 DEF IsFlattening

\* FlattenSeq is the last of them.
LEMMA FlattenIs ==
  ASSUME NEW S, NEW ss \in Seq(Seq(S)), NEW f, IsFlattening(f, ss, S)
  PROVE  FlattenSeq(ss) = f[Len(ss)] /\ FlattenSeq(ss) \in Seq(S)
  <1>. SUFFICES ASSUME NEW n \in Nat, n = Len(ss)
                PROVE  FlattenSeq(ss) = f[n] /\ f[n] \in Seq(S)
    OBVIOUS
  <1>1. /\ f[0] = << >>
        /\ \A i \in 0 .. n : f[i] \in Seq(S)
        /\ \A i \in 1 .. n : f[i] = f[i - 1] \o ss[i]
    BY DEF IsFlattening
  <1>2. CASE n = 0
    <2>1. Len(ss) = 0
      BY <1>2
    <2>2. ss = << >>
      BY <2>1, EmptySeq
    <2>3. FlattenSeq(ss) = ss
      BY <2>1 DEF FlattenSeq
    <2>. QED
      BY <1>1, <1>2, <2>2, <2>3
  <1>3. CASE n # 0
    <2>. DEFINE R(g) == g = [i \in 1 .. n |-> IF i = 1 THEN ss[i] ELSE g[i - 1] \o ss[i]]
                e == [i \in 1 .. n |-> f[i]]
    <2>1. 1 \in 1 .. n /\ f[1] = ss[1]
      <3>0. 1 \in 1 .. n /\ 1 - 1 = 0
        BY <1>3
      <3>1. f[1] = f[1 - 1] \o ss[1] /\ ss[1] \in Seq(S)
        <4>1. f[1] = f[1 - 1] \o ss[1]
          BY <1>1, <3>0, Zenon
        <4>. QED
          BY <3>0, <4>1
      <3>2. << >> \o ss[1] = ss[1]
        BY <3>1, ConcatEmptySeq
      <3>. QED
        BY <1>1, <3>0, <3>1, <3>2
    <2>2. ASSUME NEW i \in 1 .. n
          PROVE  e[i] = IF i = 1 THEN ss[i] ELSE e[i - 1] \o ss[i]
      <3>1. CASE i = 1
        BY <2>1, <3>1
      <3>2. CASE i # 1
        <4>1. i - 1 \in 1 .. n
          BY <3>2
        <4>2. e[i] = f[i] /\ e[i - 1] = f[i - 1]
          BY <4>1
        <4>. QED
          BY <1>1, <3>2, <4>2
      <3>. QED
        BY <3>1, <3>2
    <2>3. R(e)
      BY <2>2
    <2>4. PICK h : h = CHOOSE g : R(g)
      OBVIOUS
    <2>5. R(h)
      BY <2>3, <2>4
    <2>6. FlattenSeq(ss) = h[n]
      BY <1>3, <2>4 DEF FlattenSeq
    <2>7. /\ h[1] = ss[1]
          /\ \A i \in 2 .. n : h[i] = h[i - 1] \o ss[i]
      <3>1. ASSUME NEW i \in 1 .. n
            PROVE  h[i] = IF i = 1 THEN ss[i] ELSE h[i - 1] \o ss[i]
        BY <2>5
      <3>2. \A i \in 2 .. n : i \in 1 .. n /\ i # 1
        OBVIOUS
      <3>. QED
        BY <2>1, <3>1, <3>2
    <2>. HIDE DEF R, e
    <2>8. ASSUME NEW m \in 1 .. n - 1, h[m] = f[m] PROVE h[m + 1] = f[m + 1]
      <3>1. m + 1 \in 2 .. n /\ m + 1 \in 1 .. n /\ (m + 1) - 1 = m
        OBVIOUS
      <3>2. h[m + 1] = h[m] \o ss[m + 1]
        BY <2>7, <3>1
      <3>3. f[m + 1] = f[m] \o ss[m + 1]
        BY <1>1, <3>1
      <3>. QED
        BY <2>8, <3>2, <3>3
    <2>9. PICK T : T = {i \in Nat : i \in 1 .. n => h[i] = f[i]}
      OBVIOUS
    <2>10. 0 \in T
      BY <2>9
    <2>11. ASSUME NEW m \in 0 .. n - 1, m \in T PROVE m + 1 \in T
      <3>1. m + 1 \in Nat /\ (m \in 1 .. n => h[m] = f[m])
        BY <2>9, <2>11
      <3>2. m # 0 => m \in 1 .. n - 1
        OBVIOUS
      <3>3. h[m + 1] = f[m + 1]
        BY <2>1, <2>7, <2>8, <3>1, <3>2
      <3>. QED
        BY <2>9, <3>1, <3>3
    <2>12. n \in T
      <3>1. n \in 0 .. n
        OBVIOUS
      <3>2. \A m \in 0 .. n : m \in T
        BY <2>10, <2>11, UpTo
      <3>. QED
        BY <3>1, <3>2
    <2>13. h[n] = f[n]
      BY <1>3, <2>9, <2>12
    <2>. QED
      BY <1>1, <2>6, <2>13
  <1>. QED
    BY <1>2, <1>3

\* FlattenSeq appends the last member to what it makes of the others.
LEMMA FlattenAppend ==
  ASSUME NEW S, NEW ss \in Seq(Seq(S)), NEW s \in Seq(S)
  PROVE  /\ FlattenSeq(<< >>) = << >>
         /\ FlattenSeq(ss) \in Seq(S)
         /\ FlattenSeq(Append(ss, s)) = FlattenSeq(ss) \o s
  <1>1. FlattenSeq(<< >>) = << >>
    BY DEF FlattenSeq
  <1>. DEFINE t == Append(ss, s)
              n == Len(ss)
  <1>2. /\ t \in Seq(Seq(S)) /\ Len(t) = n + 1 /\ n \in Nat
        /\ \A i \in 1 .. n : t[i] = ss[i]
        /\ t[n + 1] = s
    OBVIOUS
  <1>. HIDE DEF t, n
  <1>3. PICK f : IsFlattening(f, t, S)
    BY <1>2, FlatteningExists
  <1>. DEFINE g == [i \in 0 .. n |-> f[i]]
  <1>4. IsFlattening(g, ss, S)
    <2>1. g \in [0 .. n -> Seq(S)] /\ g[0] = << >>
      BY <1>2, <1>3 DEF IsFlattening
    <2>2. ASSUME NEW i \in 1 .. n PROVE g[i] = g[i - 1] \o ss[i]
      <3>1. i \in 1 .. Len(t) /\ i \in 0 .. n /\ i - 1 \in 0 .. n /\ t[i] = ss[i]
        BY <1>2
      <3>2. f[i] = f[i - 1] \o t[i]
        BY <1>3, <3>1 DEF IsFlattening
      <3>3. g[i] = f[i] /\ g[i - 1] = f[i - 1]
        BY <3>1
      <3>. QED
        BY <3>1, <3>2, <3>3
    <2>. QED
      BY <2>1, <2>2 DEF IsFlattening, n
  <1>5. g[n] = f[n]
    BY <1>2
  <1>. HIDE DEF g
  <1>6. FlattenSeq(ss) = g[Len(ss)] /\ FlattenSeq(ss) \in Seq(S)
    BY <1>4, FlattenIs
  <1>7. FlattenSeq(t) = f[Len(t)]
    BY <1>2, <1>3, FlattenIs
  <1>8. f[n + 1] = f[n] \o t[n + 1]
    <2>1. n + 1 \in 1 .. Len(t) /\ (n + 1) - 1 = n
      BY <1>2
    <2>. QED
      BY <1>3, <2>1 DEF IsFlattening
  <1>. QED
    BY <1>1, <1>2, <1>5, <1>6, <1>7, <1>8 DEF t, n

\* Members of one element each are strung together.
LEMMA FlattenSingles ==
  ASSUME NEW S, NEW ss \in Seq(Seq(S)), \A i \in 1 .. Len(ss) : Len(ss[i]) = 1
  PROVE  /\ FlattenSeq(ss) \in Seq(S)
         /\ Len(FlattenSeq(ss)) = Len(ss)
         /\ \A i \in 1 .. Len(ss) : FlattenSeq(ss)[i] = ss[i][1]
  <1>. SUFFICES ASSUME NEW n \in Nat, n = Len(ss)
                PROVE  /\ FlattenSeq(ss) \in Seq(S)
                       /\ Len(FlattenSeq(ss)) = n
                       /\ \A i \in 1 .. n : FlattenSeq(ss)[i] = ss[i][1]
    OBVIOUS
  <1>. DEFINE upTo(i) == [j \in 1 .. i |-> ss[j][1]]
              f == [i \in 0 .. n |-> upTo(i)]
  <1>1. \A j \in 1 .. n : ss[j] \in Seq(S) /\ ss[j][1] \in S /\ ss[j] = <<ss[j][1]>>
    OBVIOUS
  <1>2. ASSUME NEW i \in 0 .. n PROVE upTo(i) \in Seq(S) /\ Len(upTo(i)) = i
    <2>1. upTo(i) \in [1 .. i -> S]
      BY <1>1
    <2>. QED
      BY <2>1
  <1>3. upTo(0) = << >>
    BY <1>2
  <1>4. ASSUME NEW i \in 1 .. n PROVE upTo(i) = upTo(i - 1) \o ss[i]
    <2>1. i - 1 \in 0 .. n /\ i \in 0 .. n
      OBVIOUS
    <2>2. /\ upTo(i - 1) \in Seq(S) /\ Len(upTo(i - 1)) = i - 1
          /\ \A j \in 1 .. i - 1 : upTo(i - 1)[j] = ss[j][1]
      BY <1>2, <2>1
    <2>3. ss[i] \in Seq(S) /\ Len(ss[i]) = 1
      BY <1>1
    <2>4. /\ upTo(i) \in Seq(S) /\ Len(upTo(i)) = i
          /\ \A j \in 1 .. i : upTo(i)[j] = ss[j][1]
      BY <1>2, <2>1
    <2>. HIDE DEF upTo
    <2>5. PICK u : u = upTo(i - 1)
      OBVIOUS
    <2>6. PICK s : s = ss[i]
      OBVIOUS
    <2>7. /\ u \o s \in Seq(S) /\ Len(u \o s) = i
          /\ \A j \in 1 .. i : (u \o s)[j] = IF j <= i - 1 THEN u[j] ELSE s[j - (i - 1)]
      <3>1. u \in Seq(S) /\ s \in Seq(S) /\ Len(u) = i - 1 /\ Len(s) = 1
        BY <2>2, <2>3, <2>5, <2>6
      <3>2. Len(u) + Len(s) = i
        BY <3>1
      <3>3. /\ u \o s \in Seq(S) /\ Len(u \o s) = Len(u) + Len(s)
            /\ \A j \in 1 .. Len(u) + Len(s) :
                 (u \o s)[j] = IF j <= Len(u) THEN u[j] ELSE s[j - Len(u)]
        BY <3>1, ConcatProperties
      <3>. QED
        BY <3>1, <3>2, <3>3
    <2>8. ASSUME NEW j \in 1 .. i PROVE (u \o s)[j] = upTo(i)[j]
      <3>1. CASE j <= i - 1
        <4>1. j \in 1 .. i - 1
          BY <3>1
        <4>. QED
          BY <2>2, <2>4, <2>5, <2>7, <3>1, <4>1
      <3>2. CASE ~ (j <= i - 1)
        <4>1. j = i /\ j - (i - 1) = 1
          BY <3>2
        <4>. QED
          BY <2>4, <2>6, <2>7, <3>2, <4>1
      <3>. QED
        BY <3>1, <3>2
    <2>9. u \o s = upTo(i)
      BY <2>4, <2>7, <2>8, SeqEqual
    <2>. QED
      BY <2>5, <2>6, <2>9
  <1>. HIDE DEF upTo
  <1>5. IsFlattening(f, ss, S)
    <2>1. f \in [0 .. n -> Seq(S)] /\ f[0] = << >>
      BY <1>2, <1>3
    <2>2. ASSUME NEW i \in 1 .. n PROVE f[i] = f[i - 1] \o ss[i]
      <3>1. i \in 0 .. n /\ i - 1 \in 0 .. n
        OBVIOUS
      <3>. QED
        BY <1>4, <3>1
    <2>. QED
      BY <2>1, <2>2 DEF IsFlattening
  <1>6. FlattenSeq(ss) = f[n]
    <2>. HIDE DEF f
    <2>. QED
      BY <1>5, FlattenIs
  <1>7. FlattenSeq(ss) = upTo(n)
    BY <1>6
  <1>. QED
    BY <1>2, <1>7 DEF upTo

-----------------------------------------------------------------------------
\* A function on an interval from 1 is a sequence.
LEMMA FunctionIsSeq ==
  ASSUME NEW S, NEW n \in Nat, NEW g \in [1 .. n -> S]
  PROVE  g \in Seq(S) /\ Len(g) = n
  OBVIOUS

\* Each of two sequences beginning with the other, they are equal.
LEMMA BothFirst ==
  ASSUME NEW S, NEW s \in Seq(S), NEW t \in Seq(S), NEW u \in Seq(S), NEW v \in Seq(S),
         s = t \o u, t = s \o v
  PROVE  s = t
<1>1. Len(s) = Len(t) + Len(u) /\ Len(t) = Len(s) + Len(v)
      /\ Len(s) \in Nat /\ Len(t) \in Nat /\ Len(u) \in Nat /\ Len(v) \in Nat
  OBVIOUS
<1>2. Len(u) = 0
  BY <1>1
<1>3. u = << >>
  BY <1>2, EmptySeq
<1> QED
  BY <1>3, ConcatEmptySeq

\* A sequence begins with its parts.
LEMMA PrefixOf ==
  ASSUME NEW S, NEW s \in Seq(S), NEW t \in Seq(S)
  PROVE  IsPrefix(s, s \o t)
<1> PICK l \in Nat, m \in Nat : l = Len(s) /\ m = Len(t)
  OBVIOUS
<1> PICK p : p = s \o t
  OBVIOUS
<1>1. p \in Seq(S) /\ Len(p) = l + m /\ \A n \in 1 .. l : p[n] = s[n]
  OBVIOUS
<1>2. SubSeq(s, 1, l) = s
  BY SubSeqFull
<1>3. SubSeq(p, 1, l) \in Seq(S) /\ Len(SubSeq(p, 1, l)) = l
      /\ \A n \in 1 .. l : SubSeq(p, 1, l)[n] = p[n]
  BY <1>1
<1>4. SubSeq(p, 1, l) = s
  BY <1>1, <1>3, SeqEqual
<1> QED
  BY <1>1, <1>2, <1>4 DEF IsPrefix

\* f repeats H from base on, d times.
Repeats(f, H, V, base, d) ==
  f \in [0 .. d -> V] /\ f[0] = base /\ \A i \in 1 .. d : f[i] = H[f[i - 1]]

\* Such a function exists.
LEMMA Repeated ==
  ASSUME NEW V, NEW base \in V, NEW d \in Nat, NEW H \in [V -> V]
  PROVE  \E f : Repeats(f, H, V, base, d)
<1> DEFINE G == [p \in V \X (1 .. d) |-> H[p[1]]]
<1>1. IsStep(G, V, d)
  BY DEF IsStep
<1>2. \A c \in V, i \in 1 .. d : G[<<c, i>>] = H[c]
  OBVIOUS
<1> HIDE DEF G
<1>3. PICK f : IsIteration(f, G, V, base, d)
  BY <1>1, Iteration
<1>4. /\ f \in [0 .. d -> V] /\ f[0] = base
      /\ \A i \in 1 .. d : f[i] = G[<<f[i - 1], i>>]
  BY <1>3 DEF IsIteration
<1>5. ASSUME NEW i \in 1 .. d PROVE f[i] = H[f[i - 1]]
  <2>1. i - 1 \in 0 .. d
    OBVIOUS
  <2> QED
    BY <1>2, <1>4, <2>1
<1> QED
  BY <1>4, <1>5 DEF Repeats

\* It takes no value outside V if no step leaves V.
LEMMA StepsStay ==
  ASSUME NEW V, NEW d \in Nat, NEW g, g[0] \in V,
         \A n \in 1 .. d : g[n - 1] \in V => g[n] \in V
  PROVE  \A n \in 0 .. d : g[n] \in V
<1> DEFINE T == {n \in Nat : g[n] \in V}
<1>1. 0 \in T
  OBVIOUS
<1>2. ASSUME NEW n \in 0 .. d - 1, n \in T PROVE n + 1 \in T
  <2>1. n + 1 \in 1 .. d /\ n + 1 \in Nat /\ (n + 1) - 1 = n
    OBVIOUS
  <2>2. g[n] \in V => g[n + 1] \in V
    BY <2>1
  <2> QED
    BY <1>2, <2>1, <2>2
<1> HIDE DEF T
<1>3. \A n \in 0 .. d : n \in T
  BY <1>1, <1>2, UpTo
<1> QED
  BY <1>3 DEF T

\* What is appended is the last element.
LEMMA AppendedLast ==
  ASSUME NEW S, NEW s \in Seq(S), NEW y \in S
  PROVE  /\ s \o <<y>> = Append(s, y)
         /\ Append(s, y) \in Seq(S) /\ Len(Append(s, y)) = Len(s) + 1
         /\ \A i \in 1 .. Len(s) : Append(s, y)[i] = s[i]
         /\ Append(s, y)[Len(s) + 1] = y
OBVIOUS

\* Concatenating sequences gives a sequence.
LEMMA Flattened ==
  ASSUME NEW S, NEW n \in Nat, NEW ss, DOMAIN ss = 1 .. n, \A i \in 1 .. n : ss[i] \in Seq(S),
         ss = [i \in 1 .. n |-> ss[i]]
  PROVE  FlattenSeq(ss) \in Seq(S)
<1>T. PICK T : T = Seq(S)
  OBVIOUS
<1>1. ss \in [1 .. n -> T]
  BY <1>T
<1>2. ss \in Seq(T)
  BY <1>1, FunctionIsSeq
<1>3. ss \in Seq(Seq(S))
  BY <1>2, <1>T
<1>4. PICK f : IsFlattening(f, ss, S)
  BY <1>3, FlatteningExists
<1> QED
  BY <1>3, <1>4, FlattenIs
=============================================================================
