-------------------------- MODULE SequenceInduction --------------------------
(***************************************************************************)
(* Induction and recursion for the proofs about data.  The theorems of     *)
(* NaturalsInduction take the property as an operator; here a property is  *)
(* the set of the numbers that violate it, and a recursive definition is a *)
(* function on functions, so that both can be cited.                       *)
(***************************************************************************)
EXTENDS Naturals, Sequences, SequencesExt, SequenceTheorems, WellFoundedInduction, TLAPS

(* A set of numbers that is not empty has a least element. *)
LEMMA LeastNat ==
  ASSUME NEW T, T \subseteq Nat, T # {}
  PROVE  \E n \in T : \A m \in T : n <= m
<1> DEFINE R == OpToRel(<, Nat)
<1>1. IsWellFoundedOn(R, Nat)
      BY NatLessThanWellFounded
<1>2. \A x, y \in Nat : x < y => <<x, y>> \in R
      BY DEF OpToRel
<1> HIDE DEF R
<1>3. PICK n \in T : \A m \in T : <<m, n>> \notin R
      BY <1>1, WFMin
<1>4. ASSUME NEW m \in T
      PROVE  n <= m
  <2>1. m \in Nat /\ n \in Nat
        BY T \subseteq Nat
  <2>2. ~(m < n)
        BY <1>2, <1>3, <2>1
  <2>3. QED BY <2>1, <2>2
<1>5. QED BY <1>4

(* Induction: Bad is the set of the numbers without the property.          *)
LEMMA NoneBad ==
  ASSUME NEW Bad, Bad \subseteq Nat,
         ASSUME NEW n \in Bad, \A m \in Nat : m < n => m \notin Bad
         PROVE  FALSE
  PROVE  Bad = {}
<1> SUFFICES ASSUME Bad # {} PROVE FALSE
    OBVIOUS
<1>1. PICK n \in Bad : \A m \in Bad : n <= m
      BY LeastNat
<1>2. \A m \in Nat : m < n => m \notin Bad
      BY <1>1
<1>3. QED BY <1>2

(* D says what a function is at i, given the function at arguments of a    *)
(* lower rank.                                                             *)
Descends(I, V, N, rank, D) ==
  /\ V # {} /\ N \in Nat /\ rank \in [I -> 0..N] /\ D \in [[I -> V] -> [I -> V]]
  /\ \A g, h \in [I -> V], i \in I :
       (\A j \in I : rank[j] < rank[i] => g[j] = h[j]) => D[g][i] = D[h][i]

(* Such a recursive definition has a solution.                             *)
LEMMA Recursion ==
  ASSUME NEW I, NEW V, NEW N, NEW rank, NEW D, Descends(I, V, N, rank, D)
  PROVE  \E g \in [I -> V] : g = D[g]
<1> USE DEF Descends
<1> DEFINE Solves(g, r) == \A i \in I : rank[i] < r => g[i] = D[g][i]
           Bad == {r \in Nat : ~\E g \in [I -> V] : Solves(g, r)}
<1>1. ASSUME NEW n \in Bad, \A m \in Nat : m < n => m \notin Bad
      PROVE  FALSE
  <2>1. CASE n = 0
    <3>1. PICK v \in V : TRUE
          OBVIOUS
    <3>2. [i \in I |-> v] \in [I -> V]
          OBVIOUS
    <3>3. Solves([i \in I |-> v], 0)
          OBVIOUS
    <3>4. QED BY <3>2, <3>3, <2>1
  <2>2. CASE n # 0
    <3>1. n - 1 \in Nat /\ n - 1 < n
          BY <2>2
    <3>2. PICK g \in [I -> V] : Solves(g, n - 1)
          BY <3>1, <1>1
    <3> DEFINE h == [i \in I |-> IF rank[i] < n - 1 THEN g[i] ELSE D[g][i]]
    <3>3. h \in [I -> V]
          OBVIOUS
    <3>4. ASSUME NEW i \in I, rank[i] < n
          PROVE  h[i] = D[h][i]
      <4>1. rank[i] \in Nat /\ n \in Nat /\ rank[i] <= n - 1
            BY <3>4
      <4>2. \A j \in I : rank[j] < rank[i] => g[j] = h[j]
        <5> SUFFICES ASSUME NEW j \in I, rank[j] < rank[i] PROVE g[j] = h[j]
            OBVIOUS
        <5>1. rank[j] \in Nat /\ rank[j] < n - 1
              BY <4>1
        <5>2. QED BY <5>1
      <4>3. D[g][i] = D[h][i]
            BY <4>2, <3>3
      <4>4. h[i] = D[g][i]
            BY <3>2
      <4>5. QED BY <4>3, <4>4
    <3>5. QED BY <3>3, <3>4
  <2>3. QED BY <2>1, <2>2
<1>2. Bad = {}
  <2> HIDE DEF Bad
  <2>1. Bad \subseteq Nat
        BY DEF Bad
  <2>2. QED BY <1>1, <2>1, NoneBad
<1>3. PICK g \in [I -> V] : Solves(g, N + 1)
  <2>1. N + 1 \in Nat
        OBVIOUS
  <2>2. \A r \in Nat : \E g \in [I -> V] : Solves(g, r)
        BY <1>2, Zenon
  <2>3. QED BY <2>1, <2>2, Zenon
<1>4. \A i \in I : g[i] = D[g][i]
  <2>1. \A i \in I : rank[i] < N + 1
        OBVIOUS
  <2>2. QED BY <2>1, <1>3
<1>5. D[g] \in [I -> V]
      OBVIOUS
<1>6. g = D[g]
      BY <1>4, <1>5
<1>7. QED BY <1>6

-----------------------------------------------------------------------------
(* What ConcatProperties says, with an index for each half. *)
LEMMA ConcatHalves ==
  ASSUME NEW S, NEW s \in Seq(S), NEW t \in Seq(S)
  PROVE  /\ s \o t \in Seq(S) /\ Len(s) \in Nat /\ Len(t) \in Nat
         /\ Len(s \o t) = Len(s) + Len(t)
         /\ \A i \in 1..Len(s) : (s \o t)[i] = s[i]
         /\ \A i \in 1..Len(t) : (s \o t)[Len(s) + i] = t[i]
<1>1. Len(s) \in Nat /\ Len(t) \in Nat
      BY LenProperties
<1>2. /\ s \o t \in Seq(S) /\ Len(s \o t) = Len(s) + Len(t)
      /\ \A i \in 1..Len(s) + Len(t) : (s \o t)[i] = IF i <= Len(s) THEN s[i] ELSE t[i - Len(s)]
      BY ConcatProperties
<1>3. ASSUME NEW i \in 1..Len(s)
      PROVE  (s \o t)[i] = s[i]
  <2>1. i \in 1..Len(s) + Len(t) /\ i <= Len(s)
        BY <1>1
  <2>2. QED BY <2>1, <1>2
<1>4. ASSUME NEW i \in 1..Len(t)
      PROVE  (s \o t)[Len(s) + i] = t[i]
  <2>1. Len(s) + i \in 1..Len(s) + Len(t) /\ ~(Len(s) + i <= Len(s)) /\ (Len(s) + i) - Len(s) = i
        BY <1>1
  <2>2. QED BY <2>1, <1>2
<1>5. QED BY <1>1, <1>2, <1>3, <1>4

(* v elements of s from the one after p.                                  *)
LEMMA Slice ==
  ASSUME NEW S, NEW s \in Seq(S), NEW p \in Nat, NEW v \in Nat, p + v <= Len(s)
  PROVE  /\ SubSeq(s, p + 1, p + v) \in Seq(S)
         /\ Len(SubSeq(s, p + 1, p + v)) = v
         /\ \A q \in 1..v : SubSeq(s, p + 1, p + v)[q] = s[p + q]
<1> DEFINE m == p + 1
           l == p + v
<1>1. m \in Int /\ l \in Int /\ (m <= l <=> v # 0) /\ l - m + 1 = v
      OBVIOUS
<1>2. \A i \in m..l : s[i] \in S
      BY LenProperties, ElementOfSeq
<1>3. \A q \in 1..v : m + q - 1 = p + q
      OBVIOUS
<1> HIDE DEF m, l
<1>4. /\ SubSeq(s, m, l) \in Seq(S)
      /\ Len(SubSeq(s, m, l)) = IF m <= l THEN l - m + 1 ELSE 0
      /\ \A q \in 1..l - m + 1 : SubSeq(s, m, l)[q] = s[m + q - 1]
      BY <1>1, <1>2, SubSeqProperties
<1>5. QED BY <1>1, <1>3, <1>4 DEF m, l

(* Parts(f, ss): f has the concatenations of the first sequences of ss.    *)
Parts(f, ss) ==
  \A i \in 1..Len(ss) : f[i] = IF i = 1 THEN ss[i] ELSE f[i - 1] \o ss[i]

LEMMA FlattenHasParts ==
  ASSUME NEW S, NEW ss \in Seq(Seq(S)), ss # <<>>
  PROVE  \E f \in [1..Len(ss) -> Seq(S)] : Parts(f, ss) /\ FlattenSeq(ss) = f[Len(ss)]
<1> DEFINE N == Len(ss)
           I == 1..N
           V == Seq(S)
           Step(g, i) == IF i = 1 THEN ss[i] ELSE g[i - 1] \o ss[i]
           D == [g \in [I -> V] |-> [i \in I |-> Step(g, i)]]
           rank == [i \in I |-> i]
<1>1. N \in Nat /\ N # 0 /\ \A i \in I : ss[i] \in V
      BY LenProperties, EmptySeq, ElementOfSeq
<1>2. V # {} /\ rank \in [I -> 0..N]
      BY <1>1, EmptySeq
<1>3. D \in [[I -> V] -> [I -> V]]
  <2> SUFFICES ASSUME NEW g \in [I -> V], NEW i \in I
               PROVE  Step(g, i) \in V
      OBVIOUS
  <2>1. CASE i = 1
        BY <2>1, <1>1
  <2>2. CASE i # 1
    <3>1. i - 1 \in I
          BY <2>2, <1>1
    <3>2. g[i - 1] \in V /\ ss[i] \in V
          BY <3>1, <1>1
    <3>3. g[i - 1] \o ss[i] \in V
          BY <3>2, ConcatProperties
    <3>4. QED BY <3>3, <2>2
  <2>3. QED BY <2>1, <2>2
<1>4. ASSUME NEW g \in [I -> V], NEW h \in [I -> V], NEW i \in I,
             \A j \in I : rank[j] < rank[i] => g[j] = h[j]
      PROVE  D[g][i] = D[h][i]
  <2>1. i # 1 => i - 1 \in I /\ rank[i - 1] < rank[i]
        BY <1>1
  <2>2. Step(g, i) = Step(h, i)
        BY <2>1, <1>4
  <2>3. D[g][i] = Step(g, i) /\ D[h][i] = Step(h, i)
        OBVIOUS
  <2>4. QED BY <2>2, <2>3
<1>5. PICK g \in [I -> V] : g = D[g]
  <2>1. \A g, h \in [I -> V], i \in I :
          (\A j \in I : rank[j] < rank[i] => g[j] = h[j]) => D[g][i] = D[h][i]
        BY <1>4
  <2> HIDE DEF I, V, N, D, rank
  <2>2. Descends(I, V, N, rank, D)
        BY <1>1, <1>2, <1>3, <2>1 DEF Descends, N
  <2>3. QED BY <2>2, Recursion
<1> DEFINE f == CHOOSE h : h = [i \in I |-> Step(h, i)]
<1>6. g = [i \in I |-> Step(g, i)]
      BY <1>5
<1>7. f = [i \in I |-> Step(f, i)]
  <2> HIDE DEF Step, I
  <2>1. QED BY <1>6
<1>8. FlattenSeq(ss) = f[N]
      BY <1>1, Zenon DEF FlattenSeq
<1> HIDE DEF f, D, rank
<1>9. \A i \in I : f[i] \in V
  <2> DEFINE Bad == {i \in I : f[i] \notin V}
  <2>1. ASSUME NEW i \in Bad, \A m \in Nat : m < i => m \notin Bad
        PROVE  FALSE
    <3>1. i \in I /\ f[i] = Step(f, i) /\ f[i] \notin V
          BY <1>7
    <3>2. CASE i = 1
          BY <3>1, <3>2, <1>1
    <3>3. CASE i # 1
      <4>1. i - 1 \in I /\ i - 1 \in Nat /\ i - 1 < i
            BY <3>3, <3>1, <1>1
      <4>2. f[i - 1] \in V /\ ss[i] \in V
            BY <4>1, <2>1, <1>1, <3>1
      <4>3. f[i - 1] \o ss[i] \in V
            BY <4>2, ConcatProperties
      <4>4. QED BY <4>3, <3>1, <3>3
    <3>4. QED BY <3>2, <3>3
  <2>2. Bad \subseteq Nat
        BY <1>1
  <2> HIDE DEF Bad
  <2>3. Bad = {}
        BY <2>1, <2>2, NoneBad
  <2>4. QED BY <2>3 DEF Bad
<1>10. Parts(f, ss)
       BY <1>7 DEF Parts
<1>11. f \in [I -> V]
       BY <1>7, <1>9
<1>12. QED BY <1>8, <1>10, <1>11

(* ss and tt have their first n elements in common.                        *)
Common(n, ss, tt) ==
  n \in Nat /\ 1..n \subseteq 1..Len(ss) \cap 1..Len(tt) /\ \A i \in 1..n : ss[i] = tt[i]

(* The parts of two sequences agree as long as the sequences do.           *)
LEMMA PartsAgree ==
  ASSUME NEW ss, NEW tt, NEW f, NEW g, NEW n, Parts(f, ss), Parts(g, tt), Common(n, ss, tt)
  PROVE  \A i \in 1..n : f[i] = g[i]
<1> USE DEF Common
<1> DEFINE Bad == {i \in 1..n : f[i] # g[i]}
<1>1. ASSUME NEW i \in Bad, \A m \in Nat : m < i => m \notin Bad
      PROVE  FALSE
  <2>1. i \in 1..n /\ i \in 1..Len(ss) /\ i \in 1..Len(tt)
        OBVIOUS
  <2>2. f[i] = IF i = 1 THEN ss[i] ELSE f[i - 1] \o ss[i]
        BY <2>1 DEF Parts
  <2>3. g[i] = IF i = 1 THEN tt[i] ELSE g[i - 1] \o tt[i]
        BY <2>1 DEF Parts
  <2>4. i # 1 => f[i - 1] = g[i - 1]
        BY <1>1, <2>1
  <2>5. QED BY <2>1, <2>2, <2>3, <2>4
<1>2. Bad \subseteq Nat
      OBVIOUS
<1> HIDE DEF Bad
<1>3. Bad = {}
      BY <1>1, <1>2, NoneBad
<1>4. QED BY <1>3 DEF Bad

(* FlattenSeq, one sequence at a time. *)
LEMMA FlattenEmpty == FlattenSeq(<<>>) = <<>>
BY EmptySeq DEF FlattenSeq

LEMMA FlattenType ==
  ASSUME NEW S, NEW ss \in Seq(Seq(S))
  PROVE  FlattenSeq(ss) \in Seq(S)
<1>1. CASE ss = <<>>
      BY <1>1, FlattenEmpty, EmptySeq
<1>2. CASE ss # <<>>
  <2>1. PICK f : f \in [1..Len(ss) -> Seq(S)] /\ FlattenSeq(ss) = f[Len(ss)]
        BY <1>2, FlattenHasParts
  <2>2. Len(ss) \in 1..Len(ss)
        BY <1>2, EmptySeq
  <2>3. QED BY <2>1, <2>2
<1>3. QED BY <1>1, <1>2

LEMMA FlattenAppend ==
  ASSUME NEW S, NEW ss \in Seq(Seq(S)), NEW x \in Seq(S)
  PROVE  FlattenSeq(Append(ss, x)) = FlattenSeq(ss) \o x
<1> DEFINE tt == Append(ss, x)
           n == Len(ss)
<1>1. /\ tt \in Seq(Seq(S)) /\ tt # <<>> /\ Len(tt) = n + 1 /\ n \in Nat
      /\ tt[n + 1] = x /\ \A i \in 1..n : tt[i] = ss[i]
      BY AppendProperties, LenProperties
<1>2. FlattenSeq(<<>>) = <<>>
      BY FlattenEmpty
<1> HIDE DEF tt, n
<1>3. PICK g : Parts(g, tt) /\ FlattenSeq(tt) = g[n + 1]
      BY <1>1, FlattenHasParts
<1>4. g[n + 1] = IF n = 0 THEN x ELSE g[n] \o x
  <2>1. n + 1 \in 1..Len(tt) /\ (n + 1) - 1 = n /\ (n + 1 = 1 <=> n = 0)
        BY <1>1
  <2>2. g[n + 1] = IF n + 1 = 1 THEN tt[n + 1] ELSE g[(n + 1) - 1] \o tt[n + 1]
        BY <2>1, <1>3 DEF Parts
  <2>3. QED BY <2>1, <2>2, <1>1
<1>5. CASE ss = <<>>
  <2>1. n = 0
        BY <1>5 DEF n
  <2>2. FlattenSeq(ss) = <<>> /\ <<>> \in Seq(S) /\ <<>> \o x = x
        BY <1>2, <1>5, ConcatEmptySeq
  <2>3. QED BY <2>1, <2>2, <1>2, <1>3, <1>4 DEF tt
<1>6. CASE ss # <<>>
  <2>1. n # 0
        BY <1>6, EmptySeq DEF n
  <2>2. PICK f : f \in [1..n -> Seq(S)] /\ Parts(f, ss) /\ FlattenSeq(ss) = f[n]
        BY <1>6, FlattenHasParts DEF n
  <2>3. Parts(f, ss) /\ Common(n, ss, tt)
        BY <1>1, <2>2 DEF n, Common
  <2>4. \A i \in 1..n : f[i] = g[i]
        BY <1>3, <2>3, PartsAgree
  <2>5. f[n] = g[n] /\ f[n] \in Seq(S)
        BY <2>1, <2>2, <2>4, <1>1
  <2>6. QED BY <2>1, <2>2, <2>5, <1>2, <1>3, <1>4 DEF tt
<1>7. QED BY <1>5, <1>6

(* Where the k-th of the sequences that make up FlattenSeq(ss) ends.        *)
EndOf(ss, k) == Len(FlattenSeq(SubSeq(ss, 1, k)))

LEMMA FlattenStep ==
  ASSUME NEW S, NEW ss \in Seq(Seq(S)), NEW k \in 1..Len(ss)
  PROVE  /\ FlattenSeq(SubSeq(ss, 1, k)) = FlattenSeq(SubSeq(ss, 1, k - 1)) \o ss[k]
         /\ FlattenSeq(SubSeq(ss, 1, k - 1)) \in Seq(S) /\ ss[k] \in Seq(S)
<1> DEFINE s == SubSeq(ss, 1, k - 1)
           t == SubSeq(ss, 1, k)
           x == ss[k]
<1>1. /\ Len(ss) \in Nat /\ k - 1 \in 0..Len(ss) /\ k \in 0..Len(ss)
      /\ \A i \in 1..Len(ss) : ss[i] \in Seq(S)
      BY LenProperties, ElementOfSeq
<1>2. /\ s \in Seq(Seq(S)) /\ Len(s) = k - 1 /\ \A i \in 1..k - 1 : s[i] = ss[i]
      /\ t \in Seq(Seq(S)) /\ Len(t) = k /\ \A i \in 1..k : t[i] = ss[i]
      BY <1>1
<1>3. x \in Seq(S)
      BY <1>1
<1> HIDE DEF s, t, x
<1>4. /\ Append(s, x) \in Seq(Seq(S)) /\ Len(Append(s, x)) = (k - 1) + 1
      /\ Append(s, x)[(k - 1) + 1] = x /\ \A i \in 1..k - 1 : Append(s, x)[i] = s[i]
      BY <1>2, <1>3, AppendProperties
<1>5. \A i \in 1..k : Append(s, x)[i] = t[i]
  <2>1. \A i \in 1..k : i = k \/ i \in 1..k - 1
        OBVIOUS
  <2>2. (k - 1) + 1 = k /\ k \in 1..k
        OBVIOUS
  <2>3. QED BY <2>1, <2>2, <1>2, <1>4 DEF x
<1>6. t = Append(s, x)
  <2>1. Len(t) = Len(Append(s, x))
        BY <1>2, <1>4
  <2>2. QED BY <2>1, <1>2, <1>4, <1>5, SeqEqual
<1>7. FlattenSeq(t) = FlattenSeq(s) \o x
      BY <1>2, <1>3, <1>6, FlattenAppend
<1>8. FlattenSeq(s) \in Seq(S)
      BY <1>2, FlattenType
<1>9. QED BY <1>3, <1>7, <1>8 DEF s, t, x

(* Each of the sequences is found between two ends.                        *)
LEMMA FlattenEnds ==
  ASSUME NEW S, NEW ss \in Seq(Seq(S))
  PROVE  /\ EndOf(ss, 0) = 0
         /\ \A k \in 0..Len(ss) : EndOf(ss, k) \in Nat
         /\ \A k \in 1..Len(ss) : EndOf(ss, k) = EndOf(ss, k - 1) + Len(ss[k])
<1>1. Len(ss) \in Nat
      BY LenProperties
<1>2. ASSUME NEW k \in 0..Len(ss)
      PROVE  EndOf(ss, k) \in Nat
  <2>1. SubSeq(ss, 1, k) \in Seq(Seq(S))
        BY <1>1
  <2>2. QED BY <2>1, FlattenType, LenProperties DEF EndOf
<1>3. EndOf(ss, 0) = 0
  <2>1. SubSeq(ss, 1, 0) = <<>>
        BY <1>1
  <2>2. QED BY <2>1, FlattenEmpty, EmptySeq DEF EndOf
<1>4. ASSUME NEW k \in 1..Len(ss)
      PROVE  EndOf(ss, k) = EndOf(ss, k - 1) + Len(ss[k])
  <2> DEFINE s == FlattenSeq(SubSeq(ss, 1, k - 1))
             x == ss[k]
  <2>1. FlattenSeq(SubSeq(ss, 1, k)) = s \o x /\ s \in Seq(S) /\ x \in Seq(S)
        BY FlattenStep
  <2> HIDE DEF s, x
  <2>2. Len(s \o x) = Len(s) + Len(x)
        BY <2>1, ConcatHalves
  <2>3. QED BY <2>1, <2>2 DEF EndOf, s, x
<1>5. QED BY <1>2, <1>3, <1>4

LEMMA FlattenAt ==
  ASSUME NEW S, NEW ss \in Seq(Seq(S)), NEW k \in 1..Len(ss)
  PROVE  \A m \in k..Len(ss) :
           /\ EndOf(ss, k) <= EndOf(ss, m)
           /\ \A q \in 1..Len(ss[k]) :
                FlattenSeq(SubSeq(ss, 1, m))[EndOf(ss, k - 1) + q] = ss[k][q]
<1> DEFINE F(m) == FlattenSeq(SubSeq(ss, 1, m))
           Good(m) == /\ EndOf(ss, k) <= EndOf(ss, m)
                      /\ \A q \in 1..Len(ss[k]) : F(m)[EndOf(ss, k - 1) + q] = ss[k][q]
           Bad == {m \in k..Len(ss) : ~Good(m)}
<1>1. Len(ss) \in Nat /\ k \in Nat
      BY LenProperties
<1>2. /\ \A m \in 0..Len(ss) : EndOf(ss, m) \in Nat
      /\ \A m \in 1..Len(ss) : EndOf(ss, m) = EndOf(ss, m - 1) + Len(ss[m]) /\ Len(ss[m]) \in Nat
  <2>1. \A m \in 1..Len(ss) : ss[m] \in Seq(S)
        BY ElementOfSeq
  <2>2. QED BY <2>1, FlattenEnds, LenProperties
<1>3. ASSUME NEW m \in Bad, \A l \in Nat : l < m => l \notin Bad
      PROVE  FALSE
  <2>1. m \in 1..Len(ss) /\ m \in k..Len(ss) /\ m - 1 \in 0..Len(ss) /\ m \in 0..Len(ss)
        BY <1>1
  <2>2. F(m) = F(m - 1) \o ss[m] /\ F(m - 1) \in Seq(S) /\ ss[m] \in Seq(S)
        BY <2>1, FlattenStep
  <2>3. /\ \A q \in 1..EndOf(ss, m - 1) : F(m)[q] = F(m - 1)[q]
        /\ \A q \in 1..Len(ss[m]) : F(m)[EndOf(ss, m - 1) + q] = ss[m][q]
    <3>1. \A s, x \in Seq(S) : /\ \A q \in 1..Len(s) : (s \o x)[q] = s[q]
                               /\ \A q \in 1..Len(x) : (s \o x)[Len(s) + q] = x[q]
          BY ConcatHalves
    <3> HIDE DEF F
    <3>2. /\ \A q \in 1..Len(F(m - 1)) : F(m)[q] = F(m - 1)[q]
          /\ \A q \in 1..Len(ss[m]) : F(m)[Len(F(m - 1)) + q] = ss[m][q]
          BY <2>2, <3>1
    <3>3. QED BY <3>2 DEF EndOf, F
  <2>4. CASE m = k
    <3>1. Good(m)
          BY <2>1, <2>3, <2>4, <1>2
    <3>2. QED BY <3>1
  <2>5. CASE m # k
    <3>1. m - 1 \in k..Len(ss) /\ m - 1 \in Nat /\ m - 1 < m
          BY <2>1, <2>5, <1>1
    <3>2. Good(m - 1)
          BY <3>1, <1>3
    <3> DEFINE a == EndOf(ss, k - 1)
               b == EndOf(ss, k)
               c == EndOf(ss, m - 1)
               d == EndOf(ss, m)
               n == Len(ss[k])
    <3>3. /\ a \in Nat /\ b \in Nat /\ c \in Nat /\ d \in Nat /\ n \in Nat
          /\ b = a + n /\ b <= c /\ d = c + Len(ss[m]) /\ Len(ss[m]) \in Nat
      <4>1. k - 1 \in 0..Len(ss) /\ k \in 0..Len(ss)
            BY <1>1
      <4>2. QED BY <4>1, <2>1, <3>2, <1>2
    <3>4. \A q \in 1..n : F(m - 1)[a + q] = ss[k][q]
          BY <3>2
    <3>5. \A q \in 1..c : F(m)[q] = F(m - 1)[q]
          BY <2>3
    <3>6. m \in Bad => ~(b <= d /\ \A q \in 1..n : F(m)[a + q] = ss[k][q])
          OBVIOUS
    <3> HIDE DEF a, b, c, d, n, F, Bad
    <3>7. b <= d /\ \A q \in 1..n : a + q \in 1..c
          BY <3>3
    <3>8. QED BY <3>4, <3>5, <3>6, <3>7
  <2>6. QED BY <2>4, <2>5
<1>4. Bad \subseteq Nat
      BY <1>1
<1>5. Bad = {}
  <2> HIDE DEF Bad
  <2>1. QED BY <1>3, <1>4, NoneBad
<1>6. QED BY <1>5

(* A word, its separator and the rest. *)
LEMMA SplitAt ==
  ASSUME NEW T, NEW w \in Seq(T), NEW c \in T, NEW r \in Seq(T)
  PROVE  LET s == w \o (<<c>> \o r) IN
           /\ s \in Seq(T) /\ s # <<>> /\ Len(s) = Len(w) + (1 + Len(r))
           /\ Len(w) \in Nat /\ Len(r) \in Nat /\ Len(s) \in Nat
           /\ \A i \in 1..Len(w) : s[i] = w[i]
           /\ s[Len(w) + 1] = c
           /\ \A i \in 1..Len(r) : s[(Len(w) + 1) + i] = r[i]
<1> DEFINE t == <<c>> \o r
           s == w \o t
<1>1. <<c>> \in Seq(T) /\ Len(<<c>>) = 1 /\ <<c>>[1] = c
      OBVIOUS
<1>2. /\ t \in Seq(T) /\ Len(t) = 1 + Len(r) /\ Len(r) \in Nat
      /\ t[1] = c /\ \A i \in 1..Len(r) : t[1 + i] = r[i]
  <2>1. /\ <<c>> \o r \in Seq(T) /\ Len(r) \in Nat
        /\ Len(<<c>> \o r) = Len(<<c>>) + Len(r)
        /\ \A i \in 1..Len(<<c>>) : (<<c>> \o r)[i] = <<c>>[i]
        /\ \A i \in 1..Len(r) : (<<c>> \o r)[Len(<<c>>) + i] = r[i]
        BY <1>1, ConcatHalves
  <2>2. QED BY <1>1, <2>1
<1> HIDE DEF t
<1>3. /\ s \in Seq(T) /\ Len(s) = Len(w) + Len(t) /\ Len(w) \in Nat
      /\ \A i \in 1..Len(w) : s[i] = w[i]
      /\ \A i \in 1..Len(t) : s[Len(w) + i] = t[i]
  <2>1. \A x \in Seq(T) : /\ w \o x \in Seq(T) /\ Len(w \o x) = Len(w) + Len(x) /\ Len(w) \in Nat
                          /\ \A i \in 1..Len(w) : (w \o x)[i] = w[i]
                          /\ \A i \in 1..Len(x) : (w \o x)[Len(w) + i] = x[i]
        BY ConcatHalves
  <2>2. QED BY <2>1, <1>2
<1> HIDE DEF s
<1>4. s[Len(w) + 1] = c
  <2>1. 1 \in 1..Len(t)
        BY <1>2
  <2>2. QED BY <2>1, <1>2, <1>3
<1>5. ASSUME NEW i \in 1..Len(r)
      PROVE  s[(Len(w) + 1) + i] = r[i]
  <2> DEFINE a == Len(w)
             b == Len(r)
             d == Len(t)
  <2>0. a \in Nat /\ b \in Nat /\ d = 1 + b /\ i \in 1..b
        BY <1>2, <1>3
  <2> HIDE DEF a, b, d
  <2>3. 1 + i \in 1..d /\ a + (1 + i) = (a + 1) + i
        BY <2>0
  <2>1. 1 + i \in 1..Len(t) /\ Len(w) + (1 + i) = (Len(w) + 1) + i
        BY <2>3 DEF a, d
  <2>2. QED BY <2>1, <1>2, <1>3
<1>6. s # <<>> /\ Len(s) \in Nat
      BY <1>2, <1>3, EmptySeq
<1>7. QED BY <1>2, <1>3, <1>4, <1>5, <1>6 DEF s, t

(* Any part of a sequence is one. *)
LEMMA PartType ==
  ASSUME NEW T, NEW s \in Seq(T), NEW m \in Nat, m >= 1, NEW n \in Nat, n <= Len(s)
  PROVE  SubSeq(s, m, n) \in Seq(T)
<1>1. \A i \in m..n : s[i] \in T
      BY LenProperties, ElementOfSeq
<1>2. QED BY <1>1, SubSeqProperties

(* One token and then the rest. *)
LEMMA ConsTail ==
  ASSUME NEW T, NEW c \in T, NEW w \in Seq(T)
  PROVE  /\ <<c>> \o w \in Seq(T) /\ <<c>> \o w # <<>>
         /\ (<<c>> \o w)[1] = c /\ Tail(<<c>> \o w) = w
<1> DEFINE s == <<c>> \o w
           n == Len(w)
<1>1. <<c>> \in Seq(T) /\ Len(<<c>>) = 1 /\ <<c>>[1] = c
      OBVIOUS
<1>2. /\ s \in Seq(T) /\ Len(s) = 1 + n /\ n \in Nat
      /\ s[1] = c /\ \A i \in 1..n : s[1 + i] = w[i]
  <2>1. /\ <<c>> \o w \in Seq(T) /\ Len(w) \in Nat
        /\ Len(<<c>> \o w) = Len(<<c>>) + Len(w)
        /\ \A i \in 1..Len(<<c>>) : (<<c>> \o w)[i] = <<c>>[i]
        /\ \A i \in 1..Len(w) : (<<c>> \o w)[Len(<<c>>) + i] = w[i]
        BY <1>1, ConcatHalves
  <2>2. QED BY <1>1, <2>1
<1> HIDE DEF s
<1>3. s # <<>>
      BY <1>2, EmptySeq
<1>4. /\ Tail(s) \in Seq(T) /\ Len(Tail(s)) = Len(s) - 1
      /\ \A i \in 1..Len(Tail(s)) : Tail(s)[i] = s[i + 1]
      BY <1>2, <1>3, HeadTailProperties
<1>5. Len(Tail(s)) = n /\ \A i \in 1..n : Tail(s)[i] = w[i]
  <2>1. Len(Tail(s)) = n /\ \A i \in 1..n : i + 1 = 1 + i
        BY <1>2, <1>4
  <2>2. QED BY <2>1, <1>2, <1>4
<1>6. Tail(s) = w
      BY <1>4, <1>5, SeqEqual
<1>7. QED BY <1>2, <1>3, <1>6 DEF s

(* One token is a word. *)
LEMMA OneToken ==
  ASSUME NEW x
  PROVE  <<x>>[1] = x /\ <<x>> # <<>> /\ \A i \in 1..Len(<<x>>) : i = 1
<1>1. Len(<<x>>) = 1 /\ <<x>>[1] = x /\ <<x>> # <<>>
      OBVIOUS
<1>2. QED BY <1>1

(* The parts of a pair. *)
LEMMA Pairs ==
  ASSUME NEW x, NEW y
  PROVE  <<x, y>>[1] = x /\ <<x, y>>[2] = y /\ Len(<<x, y>>) = 2 /\ <<x, y>> # <<>>
OBVIOUS

(* The parts of a triple. *)
LEMMA Triples ==
  ASSUME NEW x, NEW y, NEW z
  PROVE  <<x, y, z>>[2] = y /\ Len(<<x, y, z>>) = 3
OBVIOUS

(* The last of two. *)
LEMMA PairsLast == ASSUME NEW x, NEW y PROVE Last(<<x, y>>) = y
BY DEF Last
==============================================================================
