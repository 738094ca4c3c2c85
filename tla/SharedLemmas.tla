---------------------------- MODULE SharedLemmas ----------------------------
(***************************************************************************)
(* Lemmas that the proofs about queues and messages share: induction over  *)
(* the natural numbers in a form that needs no operator as a parameter,    *)
(* and how many entries of a sequence lie in a set after each operation    *)
(* on sequences that the models use.                                       *)
(***************************************************************************)
EXTENDS Integers, FiniteSets, Sequences, SequencesExt, FiniteSetsExt, FiniteSetTheorems,
        FunctionTheorems, SequenceTheorems, TLAPS

\* A set that holds 0 and with every number its successor holds every number:
\* otherwise the numbers below a missing one that lie in S, mapped to their
\* successors, would fit into one place fewer.
LEMMA NatInductionOnSets ==
  ASSUME NEW S, 0 \in S, \A n \in Nat : n \in S => n + 1 \in S
  PROVE  Nat \subseteq S
<1>. SUFFICES ASSUME NEW n \in Nat, n \notin S PROVE FALSE
  OBVIOUS
<1>. DEFINE U == {i \in 0..n : i \in S}
            V == U \ {0}
            f == [i \in U |-> i + 1]
<1>1. IsFiniteSet(U) /\ 0 \in U
  <2>1. IsFiniteSet(0..n)
    BY FS_Interval
  <2>. QED BY <2>1, FS_Subset
<1>2. \A i \in U : i + 1 \in V
  OBVIOUS
<1>3. f \in Injection(U, V)
  BY <1>2 DEF Injection, IsInjective
<1>4. IsFiniteSet(V) /\ Cardinality(V) = Cardinality(U) - 1 /\ Cardinality(U) \in Nat
  <2>. HIDE DEF U
  <2>. QED BY <1>1, FS_RemoveElement, FS_CardinalityType
<1>5. Cardinality(U) <= Cardinality(V)
  <2>. HIDE DEF U, V, f
  <2>. QED BY <1>3, <1>4, FS_Injection
<1>. QED BY <1>4, <1>5

\* The functions that start with x and take n steps in D.
RunsOf(D, x, n, step) ==
  {g \in [0..n -> D] : g[0] = x /\ \A i \in 1..n : g[i] = step[i][g[i - 1]]}

\* Steps given as a function define a function by recursion over an interval.
LEMMA RecursionExists ==
  ASSUME NEW D, NEW x \in D, NEW n \in Nat, NEW step \in [1..n -> [D -> D]]
  PROVE  RunsOf(D, x, n, step) # {}
<1>. DEFINE Good(m) == \E g \in [0..m -> D] :
                         g[0] = x /\ \A i \in 1..m : g[i] = step[i][g[i - 1]]
            S == {m \in Nat : m <= n => Good(m)}
<1>1. 0 \in S
  <2>. DEFINE g == [i \in 0..0 |-> x]
  <2>1. g \in [0..0 -> D] /\ g[0] = x /\ \A i \in 1..0 : g[i] = step[i][g[i - 1]]
    OBVIOUS
  <2>. QED BY <2>1
<1>2. \A m \in Nat : m \in S => m + 1 \in S
  <2>. SUFFICES ASSUME NEW m \in Nat, m \in S, m + 1 <= n PROVE Good(m + 1)
    <3>. HIDE DEF Good
    <3>. QED OBVIOUS
  <2>1. PICK g \in [0..m -> D] : g[0] = x /\ \A i \in 1..m : g[i] = step[i][g[i - 1]]
    OBVIOUS
  <2>. DEFINE h == [i \in 0..m + 1 |-> IF i <= m THEN g[i] ELSE step[m + 1][g[m]]]
  <2>2. step[m + 1][g[m]] \in D
    <3>1. m + 1 \in 1..n /\ m \in 0..m
      OBVIOUS
    <3>2. step[m + 1] \in [D -> D] /\ g[m] \in D
      BY <3>1
    <3>. QED BY <3>2
  <2>3. h \in [0..m + 1 -> D]
    BY <2>2
  <2>4. h[0] = x
    BY <2>1
  <2>5. \A i \in 1..m + 1 : h[i] = step[i][h[i - 1]]
    <3>. TAKE i \in 1..m + 1
    <3>1. CASE i <= m
      <4>1. i \in 1..m /\ i \in 0..m + 1 /\ i - 1 \in 0..m + 1 /\ i - 1 <= m
        BY <3>1
      <4>2. h[i] = g[i] /\ h[i - 1] = g[i - 1]
        BY <3>1, <4>1
      <4>. QED BY <2>1, <4>1, <4>2
    <3>2. CASE i = m + 1
      <4>1. i \in 0..m + 1 /\ ~(i <= m) /\ i - 1 = m /\ m \in 0..m + 1
        BY <3>2
      <4>2. h[i] = step[m + 1][g[m]] /\ h[m] = g[m]
        BY <4>1
      <4>. QED BY <3>2, <4>1, <4>2
    <3>3. i <= m \/ i = m + 1
      OBVIOUS
    <3>. QED BY <3>1, <3>2, <3>3
  <2>. HIDE DEF h
  <2>. QED BY <2>3, <2>4, <2>5
<1>3. n \in S
  <2>. HIDE DEF S
  <2>. QED BY <1>1, <1>2, NatInductionOnSets
<1>4. \E g \in [0..n -> D] : g[0] = x /\ \A i \in 1..n : g[i] = step[i][g[i - 1]]
  BY <1>3
<1>. QED BY <1>4 DEF RunsOf

\* A nonempty set of natural numbers has a least element, which Min returns.
LEMMA MinOfNaturals ==
  ASSUME NEW T \in SUBSET Nat, T # {}
  PROVE  Min(T) \in T /\ \A y \in T : Min(T) <= y
<1>1. \E x \in T : \A y \in T : x <= y
  <2>. SUFFICES ASSUME \A x \in T : \E y \in T : y < x PROVE FALSE
    OBVIOUS
  <2>. DEFINE S == {n \in Nat : \A y \in T : y > n}
  <2>1. 0 \in S
    OBVIOUS
  <2>2. \A n \in Nat : n \in S => n + 1 \in S
    OBVIOUS
  <2>3. Nat \subseteq S
    <3>. HIDE DEF S
    <3>. QED BY <2>1, <2>2, NatInductionOnSets
  <2>4. PICK x \in T : TRUE
    OBVIOUS
  <2>5. x \in Nat /\ x \in S
    <3>. HIDE DEF S
    <3>. QED BY <2>3, <2>4
  <2>. QED BY <2>4, <2>5
<1>. QED BY <1>1 DEF Min

\* A nonempty set of natural numbers that has a bound has a greatest element,
\* which Max returns.
LEMMA MaxOfNaturals ==
  ASSUME NEW T \in SUBSET Nat, T # {}, NEW b \in Nat, \A y \in T : y <= b
  PROVE  Max(T) \in T /\ \A y \in T : Max(T) >= y
<1>. DEFINE S == {b - y : y \in T}
<1>1. S \in SUBSET Nat /\ S # {}
  <2>1. S \subseteq Nat
    OBVIOUS
  <2>2. PICK x \in T : TRUE
    OBVIOUS
  <2>3. b - x \in S
    OBVIOUS
  <2>. QED BY <2>1, <2>3
<1>2. Min(S) \in S /\ \A y \in S : Min(S) <= y
  <2>. HIDE DEF S
  <2>. QED BY <1>1, MinOfNaturals
<1>3. PICK x \in T : Min(S) = b - x
  BY <1>2
<1>4. \A y \in T : x >= y
  <2>. TAKE y \in T
  <2>1. b - y \in S
    OBVIOUS
  <2>2. b - x <= b - y
    <3>. HIDE DEF S
    <3>. QED BY <1>2, <1>3, <2>1
  <2>. QED BY <2>2
<1>. QED BY <1>4 DEF Max

-----------------------------------------------------------------------------
\* The size of an interval that starts at 1.
LEMMA IntervalSize ==
  ASSUME NEW n \in Nat
  PROVE  IsFiniteSet(1..n) /\ Cardinality(1..n) = n
<1>1. 1 \in Int /\ n \in Int
  OBVIOUS
<1>2. Cardinality(1..n) = IF 1 > n THEN 0 ELSE n - 1 + 1
  BY <1>1, FS_Interval
<1>. QED BY <1>1, <1>2, FS_Interval

\* How many entries of the sequence s lie in M.
Count(s, M) == Cardinality({i \in 1..Len(s) : s[i] \in M})

\* Counting is finite, and at most the length.
LEMMA CountType ==
  ASSUME NEW S, NEW s \in Seq(S), NEW M
  PROVE  Count(s, M) \in Nat /\ Count(s, M) <= Len(s)
<1>. DEFINE I == {i \in 1..Len(s) : s[i] \in M}
<1>1. Len(s) \in Nat /\ I \subseteq 1..Len(s)
  OBVIOUS
<1>2. IsFiniteSet(1..Len(s)) /\ Cardinality(1..Len(s)) = Len(s)
  BY <1>1, IntervalSize
<1>3. IsFiniteSet(I) /\ Cardinality(I) <= Cardinality(1..Len(s))
  <2>. HIDE DEF I
  <2>. QED BY <1>1, <1>2, FS_Subset
<1>4. Cardinality(I) \in Nat
  <2>. HIDE DEF I
  <2>. QED BY <1>3, FS_CardinalityType
<1>. QED BY <1>2, <1>3, <1>4 DEF Count

\* The empty sequence has no entry.
LEMMA CountEmpty ==
  ASSUME NEW M
  PROVE  Count(<<>>, M) = 0
<1>1. {i \in 1..Len(<<>>) : <<>>[i] \in M} = {}
  OBVIOUS
<1>. QED BY <1>1, FS_EmptySet DEF Count

\* A sequence of one entry.
LEMMA CountOne ==
  ASSUME NEW S, NEW e \in S, NEW M
  PROVE  Count(<<e>>, M) = IF e \in M THEN 1 ELSE 0
<1>1. {i \in 1..Len(<<e>>) : <<e>>[i] \in M} = IF e \in M THEN {1} ELSE {}
  OBVIOUS
<1>2. Cardinality({1}) = 1 /\ Cardinality({}) = 0
  BY FS_Singleton, FS_EmptySet
<1>. QED BY <1>1, <1>2 DEF Count

\* Every entry counts when all of them lie in M.
LEMMA CountAll ==
  ASSUME NEW S, NEW s \in Seq(S), NEW M, \A i \in 1..Len(s) : s[i] \in M
  PROVE  Count(s, M) = Len(s)
<1>1. {i \in 1..Len(s) : s[i] \in M} = 1..Len(s)
  OBVIOUS
<1>2. Len(s) \in Nat
  OBVIOUS
<1>. QED BY <1>1, <1>2, IntervalSize DEF Count

\* Some entry lies in M if and only if the count is not 0.
LEMMA CountMember ==
  ASSUME NEW S, NEW s \in Seq(S), NEW M
  PROVE  (\E i \in 1..Len(s) : s[i] \in M) <=> Count(s, M) >= 1
<1>. DEFINE I == {i \in 1..Len(s) : s[i] \in M}
<1>1. IsFiniteSet(I)
  BY FS_Interval, FS_Subset
<1>2. Cardinality(I) \in Nat /\ (Cardinality(I) = 0 <=> I = {})
  <2>. HIDE DEF I
  <2>. QED BY <1>1, FS_CardinalityType, FS_EmptySet
<1>3. (\E i \in 1..Len(s) : s[i] \in M) <=> I # {}
  OBVIOUS
<1>. HIDE DEF I
<1>4. (\E i \in 1..Len(s) : s[i] \in M) <=> Cardinality(I) >= 1
  BY <1>2, <1>3
<1>. QED BY <1>4 DEF Count, I

\* The counts of two sequences add up.
LEMMA CountConcat ==
  ASSUME NEW S, NEW s \in Seq(S), NEW t \in Seq(S), NEW M
  PROVE  Count(s \o t, M) = Count(s, M) + Count(t, M)
<1>. DEFINE A == {i \in 1..Len(s) : s[i] \in M}
            B == {j \in 1..Len(t) : t[j] \in M}
            C == {i \in Len(s) + 1..Len(s) + Len(t) : t[i - Len(s)] \in M}
            D == {i \in 1..Len(s \o t) : (s \o t)[i] \in M}
            f == [j \in B |-> j + Len(s)]
<1>1. Len(s) \in Nat /\ Len(t) \in Nat /\ Len(s \o t) = Len(s) + Len(t)
  OBVIOUS
<1>2. \A i \in 1..Len(s) + Len(t) :
        (s \o t)[i] = IF i <= Len(s) THEN s[i] ELSE t[i - Len(s)]
  OBVIOUS
<1>3. D = A \cup C
  BY <1>1, <1>2
<1>4. A \cap C = {}
  BY <1>1
<1>5. IsFiniteSet(A) /\ IsFiniteSet(B) /\ IsFiniteSet(C)
  <2>1. IsFiniteSet(1..Len(s)) /\ IsFiniteSet(1..Len(t))
        /\ IsFiniteSet(Len(s) + 1..Len(s) + Len(t))
    BY <1>1, FS_Interval
  <2>2. A \subseteq 1..Len(s) /\ B \subseteq 1..Len(t) /\ C \subseteq Len(s) + 1..Len(s) + Len(t)
    OBVIOUS
  <2>. HIDE DEF A, B, C
  <2>. QED BY <2>1, <2>2, FS_Subset
<1>6. f \in Bijection(B, C)
  <2>1. f \in [B -> C]
    BY <1>1
  <2>2. \A i, j \in B : f[i] = f[j] => i = j
    BY <1>1
  <2>3. \A c \in C : \E j \in B : f[j] = c
    <3>. TAKE c \in C
    <3>1. c - Len(s) \in B /\ f[c - Len(s)] = c
      BY <1>1
    <3>. QED BY <3>1
  <2>. QED BY <2>1, <2>2, <2>3, Fun_IsBij
<1>7. Cardinality(B) = Cardinality(C)
  <2>. HIDE DEF B, C, f
  <2>. QED BY <1>5, <1>6, FS_Bijection DEF ExistsBijection
<1>8. Cardinality(A \cup C) = Cardinality(A) + Cardinality(C) - Cardinality(A \cap C)
  <2>. HIDE DEF A, C
  <2>. QED BY <1>5, FS_Union
<1>9. Cardinality(A) \in Nat /\ Cardinality(C) \in Nat /\ Cardinality(A \cap C) = 0
  <2>. HIDE DEF A, C
  <2>. QED BY <1>4, <1>5, FS_CardinalityType, FS_EmptySet
<1>10. Cardinality(D) = Cardinality(A) + Cardinality(B)
  <2>. HIDE DEF A, B, C, D
  <2>. QED BY <1>3, <1>7, <1>8, <1>9
<1>. QED BY <1>10 DEF Count

\* One entry more at the end.
LEMMA CountAppend ==
  ASSUME NEW S, NEW s \in Seq(S), NEW e \in S, NEW M
  PROVE  Count(Append(s, e), M) = Count(s, M) + (IF e \in M THEN 1 ELSE 0)
<1>. DEFINE one == <<e>>
<1>1. Append(s, e) = s \o one /\ one \in Seq(S)
  BY AppendIsConcat
<1>2. Count(one, M) = IF e \in M THEN 1 ELSE 0
  BY CountOne
<1>. HIDE DEF one
<1>3. Count(s \o one, M) = Count(s, M) + Count(one, M)
  BY <1>1, CountConcat
<1>. QED BY <1>1, <1>2, <1>3

\* One entry more in front.
LEMMA CountCons ==
  ASSUME NEW S, NEW s \in Seq(S), NEW e \in S, NEW M
  PROVE  Count(<<e>> \o s, M) = Count(s, M) + (IF e \in M THEN 1 ELSE 0)
<1>. DEFINE one == <<e>>
<1>1. one \in Seq(S) /\ Count(s, M) \in Nat
  BY CountType
<1>2. Count(one, M) = IF e \in M THEN 1 ELSE 0
  BY CountOne
<1>. HIDE DEF one
<1>3. Count(one \o s, M) = Count(one, M) + Count(s, M)
  BY <1>1, CountConcat
<1>4. Count(one \o s, M) = Count(s, M) + (IF e \in M THEN 1 ELSE 0)
  BY <1>1, <1>2, <1>3
<1>. QED BY <1>4 DEF one

\* The first entry and the others.
LEMMA CountTail ==
  ASSUME NEW S, NEW s \in Seq(S), s # <<>>, NEW M
  PROVE  /\ Head(s) \in S /\ Tail(s) \in Seq(S) /\ Len(Tail(s)) = Len(s) - 1
         /\ Count(s, M) = Count(Tail(s), M) + (IF Head(s) \in M THEN 1 ELSE 0)
<1>1. /\ Head(s) \in S /\ Tail(s) \in Seq(S) /\ Len(Tail(s)) = Len(s) - 1
      /\ s = <<Head(s)>> \o Tail(s)
  OBVIOUS
<1>2. Count(<<Head(s)>> \o Tail(s), M) = Count(Tail(s), M) + (IF Head(s) \in M THEN 1 ELSE 0)
  BY <1>1, CountCons
<1>3. Count(s, M) = Count(<<Head(s)>> \o Tail(s), M)
  BY <1>1
<1>. QED BY <1>1, <1>2, <1>3

\* The last entry and the others.
LEMMA CountFront ==
  ASSUME NEW S, NEW s \in Seq(S), s # <<>>, NEW M
  PROVE  /\ Last(s) \in S /\ Front(s) \in Seq(S) /\ Len(Front(s)) = Len(s) - 1
         /\ s = Append(Front(s), Last(s))
         /\ Count(s, M) = Count(Front(s), M) + (IF Last(s) \in M THEN 1 ELSE 0)
<1>1. /\ Last(s) \in S /\ Front(s) \in Seq(S) /\ Len(Front(s)) = Len(s) - 1
      /\ \A i \in 1..Len(s) - 1 : Front(s)[i] = s[i]
  <2>1. Len(s) \in Nat \ {0} /\ \A i \in 1..Len(s) : s[i] \in S
    OBVIOUS
  <2>. DEFINE n == Len(s) - 1
  <2>2. n \in Nat /\ Len(s) = n + 1 /\ (\A i \in 1..n : s[i] \in S) /\ s[n + 1] \in S
    BY <2>1
  <2>. HIDE DEF n
  <2>3. SubSeq(s, 1, n) \in Seq(S) /\ Len(SubSeq(s, 1, n)) = n
        /\ \A i \in 1..n : SubSeq(s, 1, n)[i] = s[i]
    BY <2>2, SubSeqProperties
  <2>. QED BY <2>2, <2>3 DEF Last, Front, n
<1>2. s = Append(Front(s), Last(s))
  BY <1>1, SeqEqual, AppendProperties DEF Last
<1>3. Count(Append(Front(s), Last(s)), M) = Count(Front(s), M) + (IF Last(s) \in M THEN 1 ELSE 0)
  BY <1>1, CountAppend
<1>4. Count(s, M) = Count(Append(Front(s), Last(s)), M)
  BY <1>2
<1>. QED BY <1>1, <1>2, <1>3, <1>4

\* An entry taken out of the middle and the others.
LEMMA CountRemoveAt ==
  ASSUME NEW S, NEW s \in Seq(S), NEW i \in 1..Len(s), NEW M
  PROVE  /\ RemoveAt(s, i) \in Seq(S) /\ Len(RemoveAt(s, i)) = Len(s) - 1
         /\ Count(s, M) = Count(RemoveAt(s, i), M) + (IF s[i] \in M THEN 1 ELSE 0)
<1>. DEFINE a == SubSeq(s, 1, i - 1)
            b == SubSeq(s, i + 1, Len(s))
<1>0. Len(s) \in Nat /\ i \in Nat /\ \A j \in 1..Len(s) : s[j] \in S
  OBVIOUS
<1>1. a \in Seq(S) /\ Len(a) = i - 1 /\ \A j \in 1..i - 1 : a[j] = s[j]
  BY <1>0, SubSeqProperties
<1>2. b \in Seq(S) /\ Len(b) = Len(s) - i /\ \A j \in 1..Len(s) - i : b[j] = s[i + j]
  BY <1>0, SubSeqProperties
<1>. HIDE DEF a, b
<1>3. RemoveAt(s, i) = a \o b
  BY DEF RemoveAt, a, b
<1>4. s = Append(a, s[i]) \o b
  <2>1. Append(a, s[i]) \in Seq(S) /\ Len(Append(a, s[i])) = i
        /\ \A j \in 1..i : Append(a, s[i])[j] = s[j]
    BY <1>0, <1>1, AppendProperties
  <2>. DEFINE c == Append(a, s[i])
  <2>. HIDE DEF c
  <2>2. c \in Seq(S) /\ Len(c) = i /\ \A j \in 1..i : c[j] = s[j]
    BY <2>1 DEF c
  <2>3. c \o b \in Seq(S) /\ Len(c \o b) = Len(c) + Len(b)
        /\ \A j \in 1..Len(c) + Len(b) : (c \o b)[j] = IF j <= Len(c) THEN c[j] ELSE b[j - Len(c)]
    BY <1>2, <2>2, ConcatProperties
  <2>4. Len(c) + Len(b) = Len(s) /\ Len(c) = i
    BY <1>0, <1>2, <2>2
  <2>5. \A j \in 1..Len(s) : (c \o b)[j] = s[j]
    <3>. TAKE j \in 1..Len(s)
    <3>1. CASE j <= i
      BY <1>0, <2>2, <2>3, <2>4, <3>1
    <3>2. CASE j > i
      <4>1. (c \o b)[j] = b[j - i] /\ j - i \in 1..Len(s) - i
        BY <1>0, <2>3, <2>4, <3>2
      <4>2. b[j - i] = s[i + (j - i)]
        BY <1>2, <4>1
      <4>3. i + (j - i) = j
        BY <1>0
      <4>. QED BY <4>1, <4>2, <4>3
    <3>3. j <= i \/ j > i
      BY <1>0
    <3>. QED BY <3>1, <3>2, <3>3
  <2>6. s = c \o b
    BY <2>3, <2>4, <2>5, SeqEqual
  <2>. QED BY <2>6 DEF c
<1>5. Count(s, M) = Count(Append(a, s[i]), M) + Count(b, M)
  <2>1. Append(a, s[i]) \in Seq(S)
    BY <1>0, <1>1
  <2>2. Count(Append(a, s[i]) \o b, M) = Count(Append(a, s[i]), M) + Count(b, M)
    BY <1>2, <2>1, CountConcat
  <2>. QED BY <1>4, <2>2
<1>6. Count(Append(a, s[i]), M) = Count(a, M) + (IF s[i] \in M THEN 1 ELSE 0)
  BY <1>0, <1>1, CountAppend
<1>7. Count(a \o b, M) = Count(a, M) + Count(b, M)
  BY <1>1, <1>2, CountConcat
<1>8. Count(a, M) \in Nat /\ Count(b, M) \in Nat
  BY <1>1, <1>2, CountType
<1>9. a \o b \in Seq(S) /\ Len(a \o b) = Len(s) - 1
  <2>1. a \o b \in Seq(S) /\ Len(a \o b) = Len(a) + Len(b)
    BY <1>1, <1>2, ConcatProperties
  <2>. QED BY <1>0, <1>1, <1>2, <2>1
<1>. QED BY <1>3, <1>5, <1>6, <1>7, <1>8, <1>9

\* The sequence of a set of at most one element.
LEMMA SetToSeqOfOne ==
  ASSUME NEW x
  PROVE  SetToSeq({}) = <<>> /\ SetToSeq({x}) = <<x>>
<1>1. SetToSeq({}) = <<>>
  <2>1. Cardinality({}) = 0
    BY FS_EmptySet
  <2>2. <<>> \in [1..0 -> {}] /\ IsInjective(<<>>)
    BY DEF IsInjective
  <2>3. \A f \in [1..0 -> {}] : f = <<>>
    OBVIOUS
  <2>. QED BY <2>1, <2>2, <2>3 DEF SetToSeq
<1>2. SetToSeq({x}) = <<x>>
  <2>1. Cardinality({x}) = 1
    BY FS_Singleton
  <2>2. <<x>> \in [1..1 -> {x}] /\ IsInjective(<<x>>)
    BY DEF IsInjective
  <2>3. \A f \in [1..1 -> {x}] : f = <<x>>
    OBVIOUS
  <2>. QED BY <2>1, <2>2, <2>3 DEF SetToSeq
<1>. QED BY <1>1, <1>2

\* At most as many different entries of a sequence lie in M as entries do.
LEMMA CountBoundsSet ==
  ASSUME NEW S, NEW s \in Seq(S), NEW M
  PROVE  /\ IsFiniteSet({e \in ToSet(s) : e \in M})
         /\ Cardinality({e \in ToSet(s) : e \in M}) <= Count(s, M)
<1>. DEFINE I == {i \in 1..Len(s) : s[i] \in M}
            E == {e \in ToSet(s) : e \in M}
            f == [i \in I |-> s[i]]
<1>1. IsFiniteSet(I)
  BY FS_Interval, FS_Subset
<1>2. DOMAIN s = 1..Len(s)
  OBVIOUS
<1>3. f \in Surjection(I, E)
  BY <1>2, Fun_IsSurj DEF ToSet
<1>4. IsFiniteSet(E) /\ Cardinality(E) <= Cardinality(I)
  <2>. HIDE DEF E, I, f
  <2>. QED BY <1>1, <1>3, FS_Surjection
<1>. QED BY <1>4 DEF Count
=============================================================================
