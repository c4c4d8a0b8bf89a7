--------------------------- MODULE MhFolderProofs ---------------------------
(***************************************************************************)
(* Theorems about MhFolder, for any messages, numbers and sequence of      *)
(* handlers.                                                               *)
(***************************************************************************)
EXTENDS MhFolder, TLAPS, SequenceTheorems, FiniteSetTheorems

-----------------------------------------------------------------------------
\* Induction, for a set of natural numbers.

LEMMA SetInduction ==
    ASSUME NEW U \in SUBSET Nat, 0 \in U, \A n \in U : n + 1 \in U
    PROVE  U = Nat
<1>1. SUFFICES ASSUME NEW m \in Nat, m \notin U PROVE FALSE
  OBVIOUS
\* the beginning of U, up to m
<1> DEFINE L == {n \in 0..m : \A k \in 0..n : k \in U}
           f == [n \in L |-> n + 1]
<1>2. L \subseteq 0..m /\ IsFiniteSet(0..m)
  BY FS_Interval
<1>3. IsFiniteSet(L) /\ Cardinality(L) \in Nat
  BY <1>2, FS_Subset, FS_CardinalityType
<1>4. 0 \in L
  OBVIOUS
<1>5. \A n \in L : n + 1 \in L
  <2> SUFFICES ASSUME NEW n \in L PROVE n + 1 \in L
    OBVIOUS
  <2>1. n \in Nat /\ n # m /\ n <= m /\ n \in U
    BY <1>1
  <2>2. \A k \in 0..(n + 1) : k \in 0..n \/ k = n + 1
    BY <2>1
  <2> QED
    BY <2>1, <2>2
<1>6. f \in Injection(L, L \ {0})
  <2>1. \A n \in L : n \in Nat
    OBVIOUS
  <2> HIDE DEF L
  <2>2. f \in [L -> L \ {0}]
    BY <1>5, <2>1
  <2>3. \A a, b \in L : f[a] = f[b] => a = b
    BY <2>1
  <2> QED
    BY <2>2, <2>3 DEF Injection, IsInjective
<1> HIDE DEF L, f
<1>7. IsFiniteSet(L \ {0}) /\ Cardinality(L \ {0}) = Cardinality(L) - 1
  BY <1>3, <1>4, FS_RemoveElement
<1>8. Cardinality(L) <= Cardinality(L \ {0})
  BY <1>3, <1>6, <1>7, FS_Injection
<1> QED
  BY <1>3, <1>7, <1>8

-----------------------------------------------------------------------------
\* Sets of numbers and what is picked out of a sequence.

\* How many of S are below n.
Rank(S, n) == Cardinality({k \in S : k < n})

LEMMA RankIs ==
    ASSUME NEW S \in SUBSET Int, IsFiniteSet(S)
    PROVE  /\ Cardinality(S) \in Nat
           /\ \A n \in S : Rank(S, n) \in 0..(Cardinality(S) - 1)
           /\ \A m, n \in S : m < n => Rank(S, m) < Rank(S, n)
<1>1. Cardinality(S) \in Nat
  BY FS_CardinalityType
<1>2. ASSUME NEW n \in S PROVE Rank(S, n) \in 0..(Cardinality(S) - 1)
  <2> DEFINE B == {k \in S : k < n}
  <2>1. IsFiniteSet(S \ {n}) /\ Cardinality(S \ {n}) = Cardinality(S) - 1
    BY FS_RemoveElement
  <2>2. B \in SUBSET (S \ {n})
    OBVIOUS
  <2> HIDE DEF B
  <2>3. IsFiniteSet(B) /\ Cardinality(B) <= Cardinality(S \ {n}) /\ Cardinality(B) \in Nat
    BY <2>1, <2>2, FS_Subset, FS_CardinalityType
  <2> QED
    BY <1>1, <2>1, <2>3 DEF B, Rank
<1>3. ASSUME NEW m \in S, NEW n \in S, m < n PROVE Rank(S, m) < Rank(S, n)
  <2> DEFINE A == {k \in S : k < m}
             B == {k \in S : k < n}
  <2>0. \A k \in S : k \in Int
    OBVIOUS
  <2>1. m \notin A /\ A \cup {m} \in SUBSET B /\ A \in SUBSET S /\ B \in SUBSET S
    <3>1. \A k \in S : k < m => k < n
      BY <1>3, <2>0
    <3>2. ~(m < m)
      BY <2>0
    <3> QED
      BY <1>3, <3>1, <3>2
  <2> HIDE DEF A, B
  <2>2. IsFiniteSet(A) /\ IsFiniteSet(B) /\ Cardinality(A) \in Nat /\ Cardinality(B) \in Nat
    BY <2>1, FS_Subset, FS_CardinalityType
  <2>3. Cardinality(A \cup {m}) = Cardinality(A) + 1
    BY <2>1, <2>2, FS_AddElement
  <2>4. Cardinality(A \cup {m}) <= Cardinality(B)
    BY <2>1, <2>2, FS_Subset
  <2> QED
    BY <2>2, <2>3, <2>4 DEF A, B, Rank
<1> QED
  BY <1>1, <1>2, <1>3

\* Ordered(S) is S from the least to the greatest.
LEMMA OrderedIs ==
    ASSUME NEW S \in SUBSET Int, IsFiniteSet(S), NEW s, s = Ordered(S)
    PROVE  /\ s \in Seq(S) /\ Len(s) = Cardinality(S) /\ Len(s) \in Nat
           /\ \A i, j \in 1..Len(s) : i < j => s[i] < s[j]
           /\ \A n \in S : \E i \in 1..Len(s) : s[i] = n
<1> DEFINE c == Cardinality(S)
           f == [n \in S |-> Rank(S, n) + 1]
<1>1. /\ c \in Nat /\ \A n \in S : Rank(S, n) \in 0..(c - 1)
      /\ \A m, n \in S : m < n => Rank(S, m) < Rank(S, n)
  BY RankIs
<1>2. \A m, n \in S : Rank(S, m) = Rank(S, n) => m = n
  <2> SUFFICES ASSUME NEW m \in S, NEW n \in S, Rank(S, m) = Rank(S, n), m # n PROVE FALSE
    OBVIOUS
  <2>1. m \in Int /\ n \in Int
    OBVIOUS
  <2>2. m < n \/ n < m
    BY <2>1
  <2>3. Rank(S, m) < Rank(S, n) \/ Rank(S, n) < Rank(S, m)
    BY <1>1, <2>2
  <2> QED
    BY <1>1, <2>3
<1>3. f \in Surjection(S, 1..c)
  <2>1. f \in [S -> 1..c]
    BY <1>1
  <2>2. f \in Injection(S, 1..c)
    BY <1>2, <1>1, <2>1 DEF Injection, IsInjective
  <2>3. IsFiniteSet(1..c) /\ Cardinality(1..c) = c
    BY <1>1, FS_Interval
  <2> QED
    BY <2>2, <2>3, FS_Injection
<1>4. \A i \in 1..c : \E n \in S : Rank(S, n) + 1 = i
  BY <1>3 DEF Surjection
<1>5. s = [i \in 1..c |-> CHOOSE n \in S : Rank(S, n) = i - 1]
  BY DEF Ordered, Rank
<1> HIDE DEF c, f
<1>6. \A i \in 1..c : s[i] \in S /\ Rank(S, s[i]) = i - 1
  <2> SUFFICES ASSUME NEW i \in 1..c PROVE s[i] \in S /\ Rank(S, s[i]) = i - 1
    OBVIOUS
  <2>1. \E n \in S : Rank(S, n) = i - 1
    <3>1. PICK n \in S : Rank(S, n) + 1 = i
      BY <1>4
    <3>2. Rank(S, n) \in Int
      BY <1>1
    <3> QED
      BY <3>1, <3>2
  <2>2. s[i] = CHOOSE n \in S : Rank(S, n) = i - 1
    BY <1>5
  <2> QED
    BY <2>1, <2>2
<1>7. s \in Seq(S) /\ Len(s) = c
  BY <1>1, <1>5, <1>6
<1>8. ASSUME NEW i \in 1..c, NEW j \in 1..c, i < j PROVE s[i] < s[j]
  <2>1. PICK a \in S : a = s[i]
    BY <1>6
  <2>2. PICK b \in S : b = s[j]
    BY <1>6
  <2>3. Rank(S, a) = i - 1 /\ Rank(S, b) = j - 1
    BY <1>6, <2>1, <2>2
  <2>4. a # b /\ ~(b < a)
    BY <1>1, <1>8, <2>3
  <2> QED
    BY <2>1, <2>2, <2>4
<1>9. ASSUME NEW n \in S PROVE \E i \in 1..c : s[i] = n
  <2>1. PICK i \in 1..c : i = Rank(S, n) + 1
    BY <1>1
  <2>2. Rank(S, s[i]) = Rank(S, n) /\ s[i] \in S
    BY <1>1, <1>6, <2>1
  <2> QED
    BY <1>2, <2>2
<1> QED
  BY <1>1, <1>7, <1>8, <1>9 DEF c

\* The elements of seq at the indices I, in their order.
Picks(seq, I, t, is) ==
    /\ Len(is) = Len(t)
    /\ \A i \in 1..Len(t) : is[i] \in I /\ t[i] = seq[is[i]]
    /\ \A i, j \in 1..Len(t) : i < j => is[i] < is[j]
    /\ \A n \in I : \E i \in 1..Len(t) : is[i] = n

LEMMA PickedIs ==
    ASSUME NEW X, NEW seq \in Seq(X), NEW I \in SUBSET (1..Len(seq)), NEW t, t = Picked(seq, I)
    PROVE  /\ t \in Seq(X) /\ Len(t) \in Nat /\ Len(t) = Cardinality(I)
           /\ \E is \in Seq(I) : Picks(seq, I, t, is)
<1>1. Len(seq) \in Nat /\ \A i \in 1..Len(seq) : seq[i] \in X
  OBVIOUS
<1>2. IsFiniteSet(I) /\ I \in SUBSET Int
  <2>1. IsFiniteSet(1..Len(seq))
    BY <1>1, FS_Interval
  <2>2. IsFiniteSet(I)
    BY <2>1, FS_Subset
  <2> QED
    BY <1>1, <2>2
<1>3. PICK is : is = Ordered(I)
  OBVIOUS
<1>4. /\ is \in Seq(I) /\ Len(is) = Cardinality(I) /\ Len(is) \in Nat
      /\ \A i, j \in 1..Len(is) : i < j => is[i] < is[j]
      /\ \A n \in I : \E i \in 1..Len(is) : is[i] = n
  BY <1>2, <1>3, OrderedIs
<1>5. DOMAIN is = 1..Len(is) /\ \A i \in 1..Len(is) : is[i] \in I
  BY <1>4
<1>6. t = [i \in 1..Len(is) |-> seq[is[i]]]
  BY <1>3, <1>5 DEF Picked
<1>7. t \in Seq(X) /\ Len(t) = Len(is) /\ \A i \in 1..Len(t) : t[i] = seq[is[i]]
  <2>1. PICK c \in Nat : c = Len(is)
    BY <1>4
  <2>2. \A i \in 1..c : seq[is[i]] \in X
    BY <1>1, <1>5, <2>1
  <2>3. t = [i \in 1..c |-> seq[is[i]]]
    BY <1>6, <2>1
  <2>4. t \in Seq(X) /\ Len(t) = c
    BY <2>2, <2>3
  <2> QED
    BY <2>1, <2>3, <2>4
<1>8. Picks(seq, I, t, is)
  <2>1. PICK c \in Nat : c = Len(is) /\ c = Len(t)
    BY <1>4, <1>7
  <2>2. \A i \in 1..c : is[i] \in I /\ t[i] = seq[is[i]]
    BY <1>5, <1>7, <2>1
  <2>3. \A i, j \in 1..c : i < j => is[i] < is[j]
    BY <1>4, <2>1
  <2>4. \A n \in I : \E i \in 1..c : is[i] = n
    BY <1>4, <2>1
  <2> QED
    BY <2>1, <2>2, <2>3, <2>4, Zenon DEF Picks
<1>9. t \in Seq(X) /\ Len(t) \in Nat /\ Len(t) = Cardinality(I) /\ is \in Seq(I)
  BY <1>4, <1>7
<1> QED
  BY <1>8, <1>9, Zenon

\* A set of numbers that is bounded has a least and a greatest one.
LEMMA Extremes ==
    ASSUME NEW k \in Nat, NEW S \in SUBSET (0..k), S # {}
    PROVE  /\ Max(S) \in S /\ \A n \in S : n <= Max(S)
           /\ Min(S) \in S /\ \A n \in S : Min(S) <= n
<1>1. S \in SUBSET Int /\ IsFiniteSet(S) /\ \A n \in S : n \in Int
  <2>1. IsFiniteSet(0..k)
    BY FS_Interval
  <2>2. IsFiniteSet(S)
    BY <2>1, FS_Subset
  <2> QED
    BY <2>2
<1>2. PICK s : s = Ordered(S)
  OBVIOUS
<1>3. /\ s \in Seq(S) /\ Len(s) \in Nat
      /\ \A i, j \in 1..Len(s) : i < j => s[i] < s[j]
      /\ \A n \in S : \E i \in 1..Len(s) : s[i] = n
  BY <1>1, <1>2, OrderedIs
<1>4. 1 \in 1..Len(s) /\ Len(s) \in 1..Len(s)
  <2>1. PICK e \in S : TRUE
    OBVIOUS
  <2>2. PICK i \in 1..Len(s) : s[i] = e
    BY <1>3
  <2> QED
    BY <1>3
<1>5. PICK lo \in S : lo = s[1]
  <2>1. s[1] \in S
    BY <1>3, <1>4, ElementOfSeq
  <2> QED
    BY <2>1
<1>6. PICK hi \in S : hi = s[Len(s)]
  <2>1. s[Len(s)] \in S
    BY <1>3, <1>4, ElementOfSeq
  <2> QED
    BY <2>1
<1>7. \A n \in S : lo <= n /\ n <= hi
  <2> SUFFICES ASSUME NEW n \in S PROVE lo <= n /\ n <= hi
    OBVIOUS
  <2>1. PICK i \in 1..Len(s) : s[i] = n
    BY <1>3
  <2>2. i = 1 \/ 1 < i
    BY <1>3, <2>1
  <2>3. i = Len(s) \/ i < Len(s)
    BY <1>3, <2>1
  <2>4. lo = n \/ lo < n
    BY <1>3, <1>4, <1>5, <2>1, <2>2
  <2>5. n = hi \/ n < hi
    BY <1>3, <1>4, <1>6, <2>1, <2>3
  <2> QED
    BY <1>1, <2>4, <2>5
<1>8. Min(S) \in S /\ \A n \in S : Min(S) <= n
  BY <1>7 DEF Min
<1>9. Max(S) \in S /\ \A n \in S : n <= Max(S)
  <2>1. \A n \in S : hi >= n
    BY <1>1, <1>7
  <2>2. Max(S) \in S /\ \A n \in S : Max(S) >= n
    BY <2>1 DEF Max
  <2> QED
    BY <1>1, <2>2
<1> QED
  BY <1>8, <1>9

-----------------------------------------------------------------------------
\* What is done message after message.

\* Taking one message away, adding one, or moving one in.
One(by, f, r) ==
    IF by = "taking" THEN TakeAway(f, r) ELSE IF by = "adding" THEN AddOne(f, r) ELSE PutQueued(f, r)

\* it[s] is what comes of the messages at s.
Folds(by, f, rs, k, it) ==
    /\ it = [s \in SUBSET (1..k) |-> it[s]]
    /\ \A s \in SUBSET (1..k) : it[s] = IF s = {} THEN f ELSE One(by, it[s \ {Max(s)}], rs[Max(s)])

LEMMA FoldsExist ==
    ASSUME NEW by, NEW f, NEW rs, NEW n \in Nat
    PROVE  \E it : Folds(by, f, rs, n, it)
<1> DEFINE U == {k \in Nat : \E it : Folds(by, f, rs, k, it)}
<1>1. 0 \in U
  <2>1. SUBSET (1..0) = {{}}
    OBVIOUS
  <2>2. Folds(by, f, rs, 0, [s \in {{}} |-> f])
    BY <2>1 DEF Folds
  <2> QED
    BY <2>2
<1>2. ASSUME NEW k \in U PROVE k + 1 \in U
  <2>1. PICK it : Folds(by, f, rs, k, it)
    OBVIOUS
  <2>2. PICK to : to = [s \in SUBSET (1..(k + 1)) |->
                          IF k + 1 \in s THEN One(by, it[s \ {k + 1}], rs[k + 1]) ELSE it[s]]
    OBVIOUS
  <2>3. k \in Nat /\ k + 1 \in Nat
    OBVIOUS
  <2>4. ASSUME NEW s \in SUBSET (1..(k + 1))
        PROVE  to[s] = IF s = {} THEN f ELSE One(by, to[s \ {Max(s)}], rs[Max(s)])
    <3>1. CASE k + 1 \in s
      <4>1. s \in SUBSET (0..(k + 1)) /\ s # {} /\ \A n1 \in s : n1 \in Nat /\ n1 <= k + 1
        BY <2>3, <3>1
      <4>2. Max(s) \in s /\ \A n1 \in s : n1 <= Max(s)
        BY <2>3, <4>1, Extremes
      <4>3. Max(s) = k + 1
        <5>1. PICK m \in s : m = Max(s)
          BY <4>2
        <5>2. m \in Nat /\ m <= k + 1 /\ k + 1 <= m
          BY <3>1, <4>1, <4>2, <5>1
        <5> QED
          BY <2>3, <5>1, <5>2
      <4>4. s \ {k + 1} \in SUBSET (1..(k + 1)) /\ k + 1 \notin s \ {k + 1}
        OBVIOUS
      <4>5. to[s \ {k + 1}] = it[s \ {k + 1}] /\ to[s] = One(by, it[s \ {k + 1}], rs[k + 1])
        BY <2>2, <3>1, <4>4
      <4> QED
        BY <4>1, <4>3, <4>5
    <3>2. CASE k + 1 \notin s
      <4>1. s \in SUBSET (1..k) /\ s \ {Max(s)} \in SUBSET (1..k)
        <5>1. \A e \in s : e \in Nat /\ 1 <= e /\ e <= k + 1 /\ e # k + 1
          BY <2>3, <3>2
        <5>2. \A e \in s : e \in 1..k
          BY <2>3, <5>1
        <5> QED
          BY <5>2
      <4>2. s \ {Max(s)} \in SUBSET (1..(k + 1)) /\ k + 1 \notin s \ {Max(s)}
        BY <3>2
      <4>3. to[s] = it[s] /\ to[s \ {Max(s)}] = it[s \ {Max(s)}]
        BY <2>2, <3>2, <4>2
      <4> QED
        BY <2>1, <4>1, <4>3 DEF Folds
    <3> QED
      BY <3>1, <3>2
  <2>5. Folds(by, f, rs, k + 1, to)
    BY <2>2, <2>4 DEF Folds
  <2> QED
    BY <2>3, <2>5
<1> HIDE DEF U
<1>3. U = Nat
  BY <1>1, <1>2, SetInduction DEF U
<1> QED
  BY <1>3 DEF U

\* w[i] is what comes of the first i messages.
Trace(by, f, rs, w) == w[0] = f /\ \A i \in 1..Len(rs) : w[i] = One(by, w[i - 1], rs[i])

LEMMA FoldsTrace ==
    ASSUME NEW by, NEW f, NEW rs, NEW n \in Nat, n = Len(rs), NEW it, Folds(by, f, rs, n, it)
    PROVE  \E w : Trace(by, f, rs, w) /\ w[n] = it[1..n]
<1>1. PICK w : w = [i \in 0..n |-> it[1..i]]
  OBVIOUS
<1>2. w[0] = f
  <2>1. 1..0 = {}
    OBVIOUS
  <2>2. it[{}] = f
    BY DEF Folds
  <2> QED
    BY <1>1, <2>1, <2>2
<1>3. ASSUME NEW i \in 1..n PROVE w[i] = One(by, w[i - 1], rs[i])
  <2>0. i \in Nat /\ 1 <= i /\ i <= n
    OBVIOUS
  <2>1. 1..i \in SUBSET (1..n) /\ i \in 1..i /\ 1..i # {}
    BY <2>0
  <2>2. Max(1..i) = i
    <3>1. 1..i \in SUBSET (0..i) /\ i \in Nat
      OBVIOUS
    <3>2. PICK m \in 1..i : m = Max(1..i) /\ \A k \in 1..i : k <= m
      BY <2>1, <3>1, Extremes
    <3> QED
      BY <2>1, <3>1, <3>2
  <2>3. (1..i) \ {i} = 1..(i - 1)
    OBVIOUS
  <2>4. it[1..i] = One(by, it[1..(i - 1)], rs[i])
    BY <2>1, <2>2, <2>3 DEF Folds
  <2> QED
    BY <1>1, <2>4
<1>4. w[n] = it[1..n]
  BY <1>1
<1> QED
  BY <1>2, <1>3, <1>4 DEF Trace

LEMMA TakingFold ==
    ASSUME NEW f, NEW rs, NEW n \in Nat, n = Len(rs), DOMAIN rs = 1..n
    PROVE  \E w : Trace("taking", f, rs, w) /\ w[n] = FoldLeft(TakeAway, f, rs)
<1> DEFINE Eq(it) == it = [s \in SUBSET (1..n) |->
                              IF s = {} THEN f ELSE TakeAway(it[s \ {Max(s)}], rs[Max(s)])]
           iter == CHOOSE it : Eq(it)
<1>1. \A f1, r : One("taking", f1, r) = TakeAway(f1, r)
  BY DEF One
<1>2. PICK it : Folds("taking", f, rs, n, it)
  BY FoldsExist
<1>3. it = [s \in SUBSET (1..n) |-> it[s]]
  BY <1>2 DEF Folds
<1>4. Eq(it)
  BY <1>1, <1>2, <1>3 DEF Folds
<1>5. Eq(iter)
  BY <1>4
<1>6. FoldLeft(TakeAway, f, rs) = iter[1..n]
  BY DEF FoldLeft, MapThenFoldSet
<1> HIDE DEF iter
<1>7. Folds("taking", f, rs, n, iter)
  BY <1>1, <1>5, ZenonT(60) DEF Folds
<1> QED
  BY <1>6, <1>7, FoldsTrace

LEMMA AddingFold ==
    ASSUME NEW f, NEW rs, NEW n \in Nat, n = Len(rs), DOMAIN rs = 1..n
    PROVE  \E w : Trace("adding", f, rs, w) /\ w[n] = FoldLeft(AddOne, f, rs)
<1> DEFINE Eq(it) == it = [s \in SUBSET (1..n) |->
                              IF s = {} THEN f ELSE AddOne(it[s \ {Max(s)}], rs[Max(s)])]
           iter == CHOOSE it : Eq(it)
<1>1. \A f1, r : One("adding", f1, r) = AddOne(f1, r)
  BY DEF One
<1>2. PICK it : Folds("adding", f, rs, n, it)
  BY FoldsExist
<1>3. it = [s \in SUBSET (1..n) |-> it[s]]
  BY <1>2 DEF Folds
<1>4. Eq(it)
  BY <1>1, <1>2, <1>3 DEF Folds
<1>5. Eq(iter)
  BY <1>4
<1>6. FoldLeft(AddOne, f, rs) = iter[1..n]
  BY DEF FoldLeft, MapThenFoldSet
<1> HIDE DEF iter
<1>7. Folds("adding", f, rs, n, iter)
  BY <1>1, <1>5, ZenonT(60) DEF Folds
<1> QED
  BY <1>6, <1>7, FoldsTrace

LEMMA MovingFold ==
    ASSUME NEW f, NEW rs, NEW n \in Nat, n = Len(rs), DOMAIN rs = 1..n
    PROVE  \E w : Trace("moving", f, rs, w) /\ w[n] = FoldLeft(PutQueued, f, rs)
<1> DEFINE Eq(it) == it = [s \in SUBSET (1..n) |->
                              IF s = {} THEN f ELSE PutQueued(it[s \ {Max(s)}], rs[Max(s)])]
           iter == CHOOSE it : Eq(it)
<1>1. \A f1, r : One("moving", f1, r) = PutQueued(f1, r)
  BY DEF One
<1>2. PICK it : Folds("moving", f, rs, n, it)
  BY FoldsExist
<1>3. it = [s \in SUBSET (1..n) |-> it[s]]
  BY <1>2 DEF Folds
<1>4. Eq(it)
  BY <1>1, <1>2, <1>3 DEF Folds
<1>5. Eq(iter)
  BY <1>4
<1>6. FoldLeft(PutQueued, f, rs) = iter[1..n]
  BY DEF FoldLeft, MapThenFoldSet
<1> HIDE DEF iter
<1>7. Folds("moving", f, rs, n, iter)
  BY <1>1, <1>5, ZenonT(60) DEF Folds
<1> QED
  BY <1>6, <1>7, FoldsTrace

-----------------------------------------------------------------------------
\* The types, and the functions that write the files.

Marks == [num : Nums, flags : Flags]
Headers == [num : Nums, msg : Msgs]
MsgInfos == [num : Nums, msg : Msgs, flags : Flags]
Written(R) ==
    {file \in [state : {"ok", "none", "torn", "broken"}, recs : Seq(R)] :
        file.state = "broken" => file.recs = <<>>}

FolderItems ==
    [stype : {"F_NORMAL", "F_TRASH", "F_DRAFT"}, file : [Nums -> Msgs \cup {None}],
     marks : Written(Marks), cache : Written(Headers), last_num : -1..MaxNum,
     total : Int, unread : Int, opened : BOOLEAN, fresh : BOOLEAN,
     mark_dirty : BOOLEAN, cache_dirty : BOOLEAN, mark_queue : Seq(Marks),
     cache_queue : Seq(MsgInfos), list : Seq(MsgInfos), half : SUBSET {"cache"}]

LEMMA FlagsTypes ==
    /\ {} \in Flags /\ Default \in Flags /\ UserFlags \in Flags
    /\ \A F \in Flags : F \cup UserFlags \in Flags /\ F \ {"UNREAD"} \in Flags
    /\ \A F \in Flags : Unread(F) \in {0, 1}
BY DEF Flags, Default, Unread

LEMMA HeadersTypes ==
    ASSUME NEW rs, rs \in Seq(Headers) \/ rs \in Seq(MsgInfos)
    PROVE  /\ HeadersOf(rs) \in Seq(Headers) /\ Len(HeadersOf(rs)) = Len(rs) /\ Len(rs) \in Nat
           /\ \A i \in 1..Len(rs) : /\ HeadersOf(rs)[i].num = rs[i].num
                                    /\ HeadersOf(rs)[i].msg = rs[i].msg
<1>1. PICK n \in Nat : n = Len(rs)
  OBVIOUS
<1>2. DOMAIN rs = 1..n /\ \A i \in 1..n : rs[i].num \in Nums /\ rs[i].msg \in Msgs
  <2>1. CASE rs \in Seq(Headers)
    <3>1. \A i \in 1..n : rs[i] \in Headers
      BY <1>1, <2>1
    <3> QED
      BY <1>1, <2>1, <3>1 DEF Headers
  <2>2. CASE rs \in Seq(MsgInfos)
    <3>1. \A i \in 1..n : rs[i] \in MsgInfos
      BY <1>1, <2>2
    <3> QED
      BY <1>1, <2>2, <3>1 DEF MsgInfos
  <2> QED
    BY <2>1, <2>2
<1>3. HeadersOf(rs) = [i \in 1..n |-> [num |-> rs[i].num, msg |-> rs[i].msg]]
  BY <1>2 DEF HeadersOf, HeaderOf
<1>4. HeadersOf(rs) \in Seq(Headers) /\ Len(HeadersOf(rs)) = n
  BY <1>2, <1>3 DEF Headers
<1> QED
  BY <1>1, <1>3, <1>4

LEMMA MarksTypes ==
    ASSUME NEW rs \in Seq(MsgInfos)
    PROVE  /\ MarksOf(rs) \in Seq(Marks) /\ Len(MarksOf(rs)) = Len(rs) /\ Len(rs) \in Nat
           /\ \A i \in 1..Len(rs) : /\ MarksOf(rs)[i].num = rs[i].num
                                    /\ MarksOf(rs)[i].flags = rs[i].flags
<1>1. PICK n \in Nat : n = Len(rs)
  OBVIOUS
<1>2. DOMAIN rs = 1..n /\ \A i \in 1..n : rs[i].num \in Nums /\ rs[i].flags \in Flags
  <2>1. \A i \in 1..n : rs[i] \in MsgInfos
    BY <1>1
  <2> QED
    BY <1>1, <2>1 DEF MsgInfos
<1>3. MarksOf(rs) = [i \in 1..n |-> [num |-> rs[i].num, flags |-> rs[i].flags]]
  BY <1>2 DEF MarksOf, MarkOf
<1>4. MarksOf(rs) \in Seq(Marks) /\ Len(MarksOf(rs)) = n
  BY <1>2, <1>3 DEF Marks
<1> QED
  BY <1>1, <1>3, <1>4

\* Nothing but files changes, and what waits to be written to them.
SameMail(f, g) ==
    /\ g.stype = f.stype /\ g.file = f.file /\ g.opened = f.opened /\ g.list = f.list
SameMarks(f, g) ==
    /\ g.marks = f.marks /\ g.mark_queue = f.mark_queue /\ g.mark_dirty = f.mark_dirty
SameCache(f, g) ==
    /\ g.cache = f.cache /\ g.cache_queue = f.cache_queue /\ g.cache_dirty = f.cache_dirty
SameSums(f, g) ==
    /\ g.last_num = f.last_num /\ g.total = f.total /\ g.unread = f.unread

Joined(s, t) == s \o t

WithMarks(f, rs, h, d) == [f EXCEPT !.marks = Data(rs), !.half = h, !.fresh = d]
WithCache(f, file, h, d) == [f EXCEPT !.cache = file, !.half = h, !.fresh = d]
WithMarkQueue(f, q) == [f EXCEPT !.mark_queue = q]
WithCacheQueue(f, q) == [f EXCEPT !.cache_queue = q]

LEMMA MarkFile ==
    ASSUME NEW f \in FolderItems, NEW rs \in Seq(Marks), NEW d \in BOOLEAN, NEW h \in SUBSET {"cache"},
           NEW g, g = WithMarks(f, rs, h, d)
    PROVE  /\ g \in FolderItems /\ SameMail(f, g) /\ SameCache(f, g) /\ SameSums(f, g)
           /\ g.mark_queue = f.mark_queue /\ g.mark_dirty = f.mark_dirty
           /\ g.marks.state = "ok" /\ g.marks.recs = rs /\ g.fresh = d
<1>1. PICK data : data = Data(rs)
  OBVIOUS
<1>2. data \in Written(Marks) /\ data.state = "ok" /\ data.recs = rs
  BY <1>1 DEF Data, Written
<1>3. g = [f EXCEPT !.marks = data, !.half = h, !.fresh = d]
  BY <1>1 DEF WithMarks
<1>4. /\ g \in FolderItems
      /\ g.marks = data /\ g.fresh = d
  BY <1>2, <1>3 DEF FolderItems
<1> QED
  BY <1>2, <1>3, <1>4 DEF FolderItems, SameMail, SameCache, SameSums

LEMMA CacheFile ==
    ASSUME NEW f \in FolderItems, NEW file \in Written(Headers), NEW d \in BOOLEAN,
           NEW h \in SUBSET {"cache"}, NEW g, g = WithCache(f, file, h, d)
    PROVE  /\ g \in FolderItems /\ SameMail(f, g) /\ SameMarks(f, g) /\ SameSums(f, g)
           /\ g.cache_queue = f.cache_queue /\ g.cache_dirty = f.cache_dirty
           /\ g.cache = file /\ g.fresh = d
<1>1. g = [f EXCEPT !.cache = file, !.half = h, !.fresh = d]
  BY DEF WithCache
<1>2. g \in FolderItems /\ g.cache = file /\ g.fresh = d
  BY <1>1 DEF FolderItems
<1> QED
  BY <1>1, <1>2 DEF FolderItems, SameMail, SameMarks, SameSums

\* What is appended to the marks follows whole records.
LEMMA AppendMarksIs ==
    ASSUME NEW f \in FolderItems, NEW rs \in Seq(Marks), NEW g, g = AppendMarks(f, rs)
    PROVE  /\ g \in FolderItems /\ SameMail(f, g) /\ SameCache(f, g) /\ SameSums(f, g)
           /\ g.mark_queue = f.mark_queue /\ g.mark_dirty = f.mark_dirty
           /\ g.marks.state = "ok" /\ g.marks.recs = Joined(f.marks.recs, rs)
           /\ g.fresh => f.fresh /\ f.marks.state # "none"
<1>1. PICK q : q = Joined(f.marks.recs, rs)
  OBVIOUS
<1>0. q \in Seq(Marks) /\ f.fresh \in BOOLEAN /\ f.half \in SUBSET {"cache"}
  BY <1>1 DEF FolderItems, Written, Joined
<1>2. PICK d \in BOOLEAN : d <=> f.fresh /\ f.marks.state # "none"
  OBVIOUS
<1>3. g = WithMarks(f, q, f.half, d)
  <2>1. "marks" \notin f.half
    BY <1>0
  <2>2. g = [f EXCEPT !.marks = Data(q), !.fresh = d]
    BY <1>0, <1>1, <1>2, <2>1 DEF AppendMarks, Joined
  <2> QED
    BY <2>2 DEF WithMarks, FolderItems
<1>4. /\ g \in FolderItems /\ SameMail(f, g) /\ SameCache(f, g) /\ SameSums(f, g)
      /\ g.mark_queue = f.mark_queue /\ g.mark_dirty = f.mark_dirty
      /\ g.marks.state = "ok" /\ g.marks.recs = q
      /\ g.fresh => f.fresh /\ f.marks.state # "none"
  BY <1>0, <1>2, <1>3, MarkFile
<1> QED
  BY <1>1, <1>4

LEMMA WriteMarksIs ==
    ASSUME NEW f \in FolderItems, NEW rs \in Seq(Marks), NEW g, g = WriteMarks(f, rs)
    PROVE  /\ g \in FolderItems /\ SameMail(f, g) /\ SameCache(f, g) /\ SameSums(f, g)
           /\ g.mark_queue = f.mark_queue /\ g.mark_dirty = f.mark_dirty
           /\ g.marks.state = "ok" /\ g.marks.recs = rs
           /\ g.fresh => f.fresh /\ f.marks.state # "none"
<1>0. f.fresh \in BOOLEAN /\ f.half \ {"marks"} \in SUBSET {"cache"}
  BY DEF FolderItems
<1>2. PICK d \in BOOLEAN : d <=> f.fresh /\ f.marks.state # "none"
  OBVIOUS
<1>3. g = WithMarks(f, rs, f.half \ {"marks"}, d)
  BY <1>0, <1>2 DEF WriteMarks, WithMarks, FolderItems
<1> QED
  BY <1>0, <1>2, <1>3, MarkFile

\* A cache file after something was appended to it: it has the records, or is
\* not read any more.
Extended(f, g, rs) ==
    \/ g.cache.state = "ok" /\ g.cache.recs = Joined(f.cache.recs, rs)
    \/ g.cache.state = "broken" /\ g.cache.recs = <<>>

LEMMA AppendCacheIs ==
    ASSUME NEW f \in FolderItems, NEW rs \in Seq(Headers), NEW g, g = AppendCache(f, rs)
    PROVE  /\ g \in FolderItems /\ SameMail(f, g) /\ SameMarks(f, g) /\ SameSums(f, g)
           /\ g.cache_queue = f.cache_queue /\ g.cache_dirty = f.cache_dirty
           /\ Extended(f, g, rs)
           /\ g.fresh => f.fresh /\ f.cache.state # "none"
<1>1. PICK q : q = Joined(f.cache.recs, rs)
  OBVIOUS
<1>0. q \in Seq(Headers) /\ f.fresh \in BOOLEAN /\ f.half \in SUBSET {"cache"}
  BY <1>1 DEF FolderItems, Written, Joined
<1>2. PICK d \in BOOLEAN : d <=> f.fresh /\ f.cache.state # "none"
  OBVIOUS
<1>3. PICK file : file = IF f.cache.state = "broken" \/ "cache" \in f.half THEN Broken ELSE Data(q)
  OBVIOUS
<1>4. /\ file \in Written(Headers)
      /\ \/ file.state = "ok" /\ file.recs = q
         \/ file.state = "broken" /\ file.recs = <<>>
  <2>1. Data(q) \in Written(Headers) /\ Data(q).state = "ok" /\ Data(q).recs = q
    BY <1>0 DEF Data, Written
  <2>2. Broken \in Written(Headers) /\ Broken.state = "broken" /\ Broken.recs = <<>>
    <3>1. <<>> \in Seq(Headers)
      OBVIOUS
    <3> QED
      BY <3>1 DEF Broken, Written
  <2> QED
    BY <1>3, <2>1, <2>2
<1>5. g = WithCache(f, file, f.half, d)
  <2>1. g = [f EXCEPT !.cache = file, !.fresh = d]
    BY <1>0, <1>1, <1>2, <1>3 DEF AppendCache, Joined, FolderItems
  <2> QED
    BY <2>1 DEF WithCache, FolderItems
<1>6. /\ g \in FolderItems /\ SameMail(f, g) /\ SameMarks(f, g) /\ SameSums(f, g)
      /\ g.cache_queue = f.cache_queue /\ g.cache_dirty = f.cache_dirty
      /\ g.cache = file
      /\ g.fresh => f.fresh /\ f.cache.state # "none"
  BY <1>0, <1>2, <1>4, <1>5, CacheFile
<1> QED
  BY <1>1, <1>4, <1>6 DEF Extended

LEMMA WriteCacheDataIs ==
    ASSUME NEW f \in FolderItems, NEW rs \in Seq(Headers), NEW g, g = WriteCacheData(f, rs)
    PROVE  /\ g \in FolderItems /\ SameMail(f, g) /\ SameMarks(f, g) /\ SameSums(f, g)
           /\ g.cache_queue = f.cache_queue /\ g.cache_dirty = f.cache_dirty
           /\ g.cache.state = "ok" /\ g.cache.recs = rs
           /\ g.fresh => f.fresh /\ f.cache.state # "none"
<1>0. f.fresh \in BOOLEAN /\ f.half \ {"cache"} \in SUBSET {"cache"}
  BY DEF FolderItems
<1>2. PICK d \in BOOLEAN : d <=> f.fresh /\ f.cache.state # "none"
  OBVIOUS
<1>3. PICK file \in Written(Headers) : file = Data(rs) /\ file.state = "ok" /\ file.recs = rs
  <2>1. Data(rs) \in Written(Headers) /\ Data(rs).state = "ok" /\ Data(rs).recs = rs
    BY DEF Data, Written
  <2> QED
    BY <2>1
<1>4. g = WithCache(f, file, f.half \ {"cache"}, d)
  BY <1>0, <1>2, <1>3 DEF WriteCacheData, WithCache, FolderItems
<1> QED
  BY <1>0, <1>2, <1>3, <1>4, CacheFile

LEMMA SetMarkQueue ==
    ASSUME NEW f \in FolderItems, NEW q \in Seq(Marks), NEW g, g = WithMarkQueue(f, q)
    PROVE  /\ g \in FolderItems /\ SameMail(f, g) /\ SameCache(f, g) /\ SameSums(f, g)
           /\ g.mark_queue = q /\ g.mark_dirty = f.mark_dirty /\ g.marks = f.marks
           /\ g.fresh => f.fresh
<1>1. g \in FolderItems
  BY DEF FolderItems, WithMarkQueue
<1> QED
  BY <1>1 DEF FolderItems, SameMail, SameCache, SameSums, WithMarkQueue

LEMMA SetCacheQueue ==
    ASSUME NEW f \in FolderItems, NEW q \in Seq(MsgInfos), NEW g, g = WithCacheQueue(f, q)
    PROVE  /\ g \in FolderItems /\ SameMail(f, g) /\ SameMarks(f, g) /\ SameSums(f, g)
           /\ g.cache_queue = q /\ g.cache_dirty = f.cache_dirty /\ g.cache = f.cache
           /\ g.fresh => f.fresh
<1>1. g \in FolderItems
  BY DEF FolderItems, WithCacheQueue
<1> QED
  BY <1>1 DEF FolderItems, SameMail, SameMarks, SameSums, WithCacheQueue

LEMMA FlushMarkQueueIs ==
    ASSUME NEW f \in FolderItems, NEW g, g = FlushMarkQueue(f)
    PROVE  /\ g \in FolderItems /\ SameMail(f, g) /\ SameCache(f, g) /\ SameSums(f, g)
           /\ g.mark_queue = <<>> /\ g.mark_dirty = f.mark_dirty
           /\ g.marks.recs = Joined(f.marks.recs, f.mark_queue)
           /\ g.marks.state = IF f.mark_queue = <<>> THEN f.marks.state ELSE "ok"
           /\ g.fresh => f.fresh /\ (f.mark_queue = <<>> \/ f.marks.state # "none")
<1>1. f.mark_queue \in Seq(Marks) /\ f.marks.recs \in Seq(Marks) /\ <<>> \in Seq(Marks)
      /\ f.fresh \in BOOLEAN
  BY DEF FolderItems, Written
<1>2. CASE f.mark_queue = <<>>
  <2>1. g = f /\ Joined(f.marks.recs, <<>>) = f.marks.recs
    BY <1>1, <1>2, ConcatEmptySeq DEF FlushMarkQueue, Joined
  <2> QED
    BY <1>1, <1>2, <2>1 DEF SameMail, SameCache, SameSums
<1>3. CASE f.mark_queue # <<>>
  <2>1. PICK h : h = AppendMarks(f, f.mark_queue)
    OBVIOUS
  <2>2. /\ h \in FolderItems /\ SameMail(f, h) /\ SameCache(f, h) /\ SameSums(f, h)
        /\ h.mark_queue = f.mark_queue /\ h.mark_dirty = f.mark_dirty
        /\ h.marks.state = "ok" /\ h.marks.recs = Joined(f.marks.recs, f.mark_queue)
        /\ h.fresh => f.fresh /\ f.marks.state # "none"
    BY <1>1, <2>1, AppendMarksIs
  <2>3. g = WithMarkQueue(h, <<>>)
    BY <1>3, <2>1 DEF FlushMarkQueue, WithMarkQueue
  <2>4. /\ g \in FolderItems /\ SameMail(h, g) /\ SameCache(h, g) /\ SameSums(h, g)
        /\ g.mark_queue = <<>> /\ g.mark_dirty = h.mark_dirty /\ g.marks = h.marks
        /\ g.fresh => h.fresh
    BY <1>1, <2>2, <2>3, SetMarkQueue
  <2> QED
    BY <1>3, <2>2, <2>4 DEF SameMail, SameCache, SameSums
<1> QED
  BY <1>2, <1>3

LEMMA FlushCacheQueueIs ==
    ASSUME NEW f \in FolderItems, NEW g, g = FlushCacheQueue(f)
    PROVE  /\ g \in FolderItems /\ SameMail(f, g) /\ SameMarks(f, g) /\ SameSums(f, g)
           /\ g.cache_queue = <<>> /\ g.cache_dirty = f.cache_dirty
           /\ IF f.cache_queue = <<>> THEN g.cache = f.cache
              ELSE Extended(f, g, HeadersOf(f.cache_queue))
           /\ g.fresh => f.fresh /\ (f.cache_queue = <<>> \/ f.cache.state # "none")
<1>1. f.cache_queue \in Seq(MsgInfos) /\ f.cache.recs \in Seq(Headers) /\ <<>> \in Seq(MsgInfos)
      /\ f.fresh \in BOOLEAN
  BY DEF FolderItems, Written
<1>2. CASE f.cache_queue = <<>>
  <2>1. g = f
    BY <1>2 DEF FlushCacheQueue
  <2> QED
    BY <1>1, <1>2, <2>1 DEF SameMail, SameMarks, SameSums
<1>3. CASE f.cache_queue # <<>>
  <2>0. HeadersOf(f.cache_queue) \in Seq(Headers)
    BY <1>1, HeadersTypes
  <2>1. PICK h : h = AppendCache(f, HeadersOf(f.cache_queue))
    OBVIOUS
  <2>2. /\ h \in FolderItems /\ SameMail(f, h) /\ SameMarks(f, h) /\ SameSums(f, h)
        /\ h.cache_queue = f.cache_queue /\ h.cache_dirty = f.cache_dirty
        /\ Extended(f, h, HeadersOf(f.cache_queue))
        /\ h.fresh => f.fresh /\ f.cache.state # "none"
    BY <2>0, <2>1, AppendCacheIs
  <2>3. g = WithCacheQueue(h, <<>>)
    BY <1>3, <2>1 DEF FlushCacheQueue, WithCacheQueue
  <2>4. /\ g \in FolderItems /\ SameMail(h, g) /\ SameMarks(h, g) /\ SameSums(h, g)
        /\ g.cache_queue = <<>> /\ g.cache_dirty = h.cache_dirty /\ g.cache = h.cache
        /\ g.fresh => h.fresh
    BY <1>1, <2>2, <2>3, SetCacheQueue
  <2> QED
    BY <1>3, <2>2, <2>4 DEF SameMail, SameMarks, SameSums, Extended
<1> QED
  BY <1>2, <1>3

-----------------------------------------------------------------------------
\* Reading: numbers of files, the table of marks.

LEMMA NumsAre ==
    /\ IsFiniteSet(Nums) /\ Nums \in SUBSET Int /\ MaxNum \in Nat
    /\ \A S \in SUBSET Nums : /\ IsFiniteSet(S) /\ S \in SUBSET Int /\ S \in SUBSET (0..MaxNum)
                              /\ Cardinality(S) \in Nat
<1>1. MaxNum \in Nat /\ IsFiniteSet(Nums)
  BY MaxNumAssumption, FS_Interval DEF Nums
<1>2. ASSUME NEW S \in SUBSET Nums
      PROVE  /\ IsFiniteSet(S) /\ S \in SUBSET Int /\ S \in SUBSET (0..MaxNum)
             /\ Cardinality(S) \in Nat
  <2>1. IsFiniteSet(S) /\ Cardinality(S) \in Nat
    BY <1>1, FS_Subset, FS_CardinalityType
  <2> QED
    BY <1>1, <2>1 DEF Nums
<1> QED
  BY <1>1, <1>2 DEF Nums

LEMMA LastFileIs ==
    ASSUME NEW f, NEW k, k = LastFile(f)
    PROVE  /\ k \in 0..MaxNum /\ FileNums(f) \in SUBSET Nums
           /\ \A n \in FileNums(f) : n <= k
           /\ k \in FileNums(f) \/ (k = 0 /\ FileNums(f) = {})
<1>1. FileNums(f) \in SUBSET Nums
  BY DEF FileNums
<1>2. CASE FileNums(f) = {}
  BY <1>1, <1>2, NumsAre DEF LastFile
<1>3. CASE FileNums(f) # {}
  <2>1. PICK m \in FileNums(f) : \A n \in FileNums(f) : n <= m
    <3>1. FileNums(f) \in SUBSET (0..MaxNum)
      BY <1>1, NumsAre
    <3> QED
      BY <1>3, <3>1, NumsAre, Extremes
  <2>2. k = CHOOSE n \in FileNums(f) : \A j \in FileNums(f) : j <= n
    BY <1>3 DEF LastFile
  <2>3. k \in FileNums(f) /\ \A n \in FileNums(f) : n <= k
    BY <2>1, <2>2
  <2> QED
    BY <1>1, <2>3, NumsAre DEF Nums
<1> QED
  BY <1>2, <1>3

\* The first and the last record of a number.
LEMMA RecordOf ==
    ASSUME NEW R, NEW rs \in Seq(R), NEW n \in NumsOf(rs)
    PROVE  /\ \E i \in 1..Len(rs) : /\ FirstOf(rs, n) = rs[i] /\ rs[i].num = n
                                    /\ \A j \in 1..Len(rs) : rs[j].num = n => i <= j
           /\ \E i \in 1..Len(rs) : /\ LastOf(rs, n) = rs[i] /\ rs[i].num = n
                                    /\ \A j \in 1..Len(rs) : rs[j].num = n => j <= i
<1>1. PICK k \in Nat : k = Len(rs)
  OBVIOUS
<1>2. DOMAIN rs = 1..k
  BY <1>1
<1> DEFINE I == {i \in DOMAIN rs : rs[i].num = n}
<1>3. I # {} /\ I \in SUBSET (0..k) /\ \A i \in I : i \in 1..k /\ rs[i].num = n
  BY <1>2 DEF NumsOf
<1>4. \A j \in 1..k : rs[j].num = n => j \in I
  BY <1>2
<1>5. FirstOf(rs, n) = rs[Min(I)] /\ LastOf(rs, n) = rs[Max(I)]
  BY DEF FirstOf, LastOf
<1> HIDE DEF I
<1>6. /\ Max(I) \in I /\ \A i \in I : i <= Max(I)
      /\ Min(I) \in I /\ \A i \in I : Min(I) <= i
  BY <1>3, Extremes
<1>7. PICK a \in I : a = Min(I)
  BY <1>6
<1>8. PICK b \in I : b = Max(I)
  BY <1>6
<1> QED
  BY <1>1, <1>3, <1>4, <1>5, <1>6, <1>7, <1>8

LEMMA NumsOfIs ==
    ASSUME NEW R, NEW rs \in Seq(R)
    PROVE  \A n : n \in NumsOf(rs) <=> \E i \in 1..Len(rs) : rs[i].num = n
BY DEF NumsOf

LEMMA TableTypes ==
    ASSUME NEW f \in FolderItems
    PROVE  /\ DOMAIN Table(f) \in SUBSET Nums /\ \A n \in DOMAIN Table(f) : Table(f)[n] \in Flags
           /\ DOMAIN MarkedTable(f) \in SUBSET Nums
           /\ \A n \in DOMAIN MarkedTable(f) : MarkedTable(f)[n] \in Flags
           /\ \A n : FlagsIn(MarkedTable(f), n) \in Flags
           /\ UnreadIn(MarkedTable(f)) \in Nat /\ Cardinality(DOMAIN MarkedTable(f)) \in Nat
<1>1. PICK q \in Seq(Marks) : q = f.mark_queue
  BY DEF FolderItems
<1>2. PICK rs \in Seq(Marks) : rs = f.marks.recs
  BY DEF FolderItems, Written
<1>3. \A r \in Marks : r.num \in Nums /\ r.flags \in Flags
  BY DEF Marks
<1>4. DOMAIN Table(f) = NumsOf(rs) \cup NumsOf(q)
  BY <1>1, <1>2 DEF Table
<1>5. NumsOf(rs) \in SUBSET Nums /\ NumsOf(q) \in SUBSET Nums
  BY <1>1, <1>2, <1>3, NumsOfIs
<1>6. ASSUME NEW n \in DOMAIN Table(f) PROVE Table(f)[n] \in Flags
  <2>1. CASE n \in NumsOf(q)
    <3>1. Table(f)[n] = FirstOf(q, n).flags
      BY <1>1, <1>4, <2>1 DEF Table
    <3>2. PICK i \in 1..Len(q) : FirstOf(q, n) = q[i]
      BY <2>1, RecordOf
    <3>3. q[i] \in Marks
      OBVIOUS
    <3> QED
      BY <1>3, <3>1, <3>2, <3>3
  <2>2. CASE n \notin NumsOf(q)
    <3>1. Table(f)[n] = LastOf(rs, n).flags /\ n \in NumsOf(rs)
      BY <1>1, <1>2, <1>4, <2>2 DEF Table
    <3>2. PICK i \in 1..Len(rs) : LastOf(rs, n) = rs[i]
      BY <3>1, RecordOf
    <3>3. rs[i] \in Marks
      OBVIOUS
    <3> QED
      BY <1>3, <3>1, <3>2, <3>3
  <2> QED
    BY <2>1, <2>2
<1>7. DOMAIN MarkedTable(f) \in SUBSET Nums /\ \A n \in DOMAIN MarkedTable(f) : MarkedTable(f)[n] \in Flags
  <2>1. CASE f.marks.state = "ok"
    BY <1>4, <1>5, <1>6, <2>1 DEF MarkedTable
  <2>2. CASE f.marks.state # "ok"
    <3>1. DOMAIN MarkedTable(f) = {}
      BY <2>2 DEF MarkedTable
    <3> QED
      BY <3>1
  <2> QED
    BY <2>1, <2>2
<1>8. \A n : FlagsIn(MarkedTable(f), n) \in Flags
  BY <1>7, FlagsTypes DEF FlagsIn
<1>9. UnreadIn(MarkedTable(f)) \in Nat
  <2> DEFINE S == {n \in DOMAIN MarkedTable(f) : "UNREAD" \in MarkedTable(f)[n]}
  <2>1. S \in SUBSET Nums
    BY <1>7
  <2> HIDE DEF S
  <2>2. Cardinality(S) \in Nat
    BY <2>1, NumsAre
  <2> QED
    BY <2>2 DEF S, UnreadIn
<1> QED
  BY <1>4, <1>5, <1>6, <1>7, <1>8, <1>9, NumsAre

\* The marks file that is written of a table.
LEMMA TableRecsIs ==
    ASSUME NEW T, DOMAIN T \in SUBSET Nums, \A n \in DOMAIN T : T[n] \in Flags, NEW rs, rs = TableRecs(T)
    PROVE  /\ rs \in Seq(Marks) /\ Len(rs) \in Nat
           /\ \A i \in 1..Len(rs) : rs[i].num \in DOMAIN T /\ rs[i].flags = T[rs[i].num]
           /\ \A n \in DOMAIN T : \E i \in 1..Len(rs) : rs[i].num = n
           /\ \A i, j \in 1..Len(rs) : rs[i].num = rs[j].num => i = j
<1>1. IsFiniteSet(DOMAIN T) /\ DOMAIN T \in SUBSET Int
  BY NumsAre
<1>2. PICK s : s = Ordered(DOMAIN T)
  OBVIOUS
<1>3. /\ s \in Seq(DOMAIN T) /\ Len(s) \in Nat
      /\ \A i, j \in 1..Len(s) : i < j => s[i] < s[j]
      /\ \A n \in DOMAIN T : \E i \in 1..Len(s) : s[i] = n
  BY <1>1, <1>2, OrderedIs
<1>4. PICK k \in Nat : k = Len(s)
  BY <1>3
<1>5. DOMAIN s = 1..k /\ \A i \in 1..k : s[i] \in DOMAIN T /\ s[i] \in Int
  BY <1>1, <1>3, <1>4
<1>6. rs = [i \in 1..k |-> [num |-> s[i], flags |-> T[s[i]]]]
  BY <1>2, <1>5 DEF TableRecs
<1>7. \A i \in 1..k : rs[i].num = s[i] /\ rs[i].flags = T[s[i]] /\ rs[i] \in Marks
  BY <1>5, <1>6 DEF Marks
<1>8. rs \in Seq(Marks) /\ Len(rs) = k
  <2>1. \A i \in 1..k : [num |-> s[i], flags |-> T[s[i]]] \in Marks
    BY <1>5 DEF Marks
  <2> QED
    BY <1>6, <2>1
<1>9. \A i, j \in 1..k : s[i] = s[j] => i = j
  <2> SUFFICES ASSUME NEW i \in 1..k, NEW j \in 1..k, s[i] = s[j], i # j PROVE FALSE
    OBVIOUS
  <2>1. i < j \/ j < i
    OBVIOUS
  <2> QED
    BY <1>3, <1>4, <1>5, <2>1
<1>10. /\ \A i \in 1..k : rs[i].num \in DOMAIN T /\ rs[i].flags = T[rs[i].num]
       /\ \A i, j \in 1..k : rs[i].num = rs[j].num => i = j
  BY <1>5, <1>7, <1>9
<1>11. ASSUME NEW n \in DOMAIN T PROVE \E i \in 1..k : rs[i].num = n
  <2>1. PICK i \in 1..k : s[i] = n
    BY <1>3, <1>4
  <2> QED
    BY <1>7, <2>1
<1> QED
  BY <1>8, <1>10, <1>11

-----------------------------------------------------------------------------
\* Scanning.

\* No mark waits any more, where one could.
Drained(f, g) ==
    g.mark_queue = <<>> \/ f.opened \/ f.marks.state # "ok" \/ FileNums(f) = {}

LEMMA ReadMarksIs ==
    ASSUME NEW f \in FolderItems, NEW g, g = ReadMarks(f)
    PROVE  /\ g \in FolderItems /\ SameMail(f, g) /\ SameCache(f, g) /\ SameSums(f, g)
           /\ g.fresh = f.fresh /\ g.marks.state = f.marks.state
           /\ f.opened => g.marks = f.marks /\ g.mark_queue = f.mark_queue
           /\ g.mark_dirty => f.mark_dirty \/ f.opened
           /\ f.opened /\ f.mark_dirty => g.mark_dirty
           /\ \/ g.marks = f.marks /\ g.mark_queue = f.mark_queue
              \/ /\ g.mark_queue = <<>> /\ g.marks.recs = TableRecs(Table(f))
                 /\ f.marks.state = "ok"
           /\ g.mark_queue = <<>> \/ f.opened \/ f.marks.state # "ok"
<1>1. CASE f.marks.state # "ok" \/ f.mark_queue = <<>>
  <2>1. g = f
    BY <1>1 DEF ReadMarks
  <2> QED
    BY <1>1, <2>1 DEF SameMail, SameCache, SameSums
<1>2. CASE ~(f.marks.state # "ok" \/ f.mark_queue = <<>>) /\ f.opened
  <2>1. g = [f EXCEPT !.mark_dirty = TRUE]
    BY <1>2 DEF ReadMarks
  <2>2. g \in FolderItems
    BY <2>1 DEF FolderItems
  <2> QED
    BY <1>2, <2>1, <2>2 DEF FolderItems, SameMail, SameCache, SameSums
<1>3. CASE ~(f.marks.state # "ok" \/ f.mark_queue = <<>>) /\ ~f.opened
  <2>1. PICK data : data = Data(TableRecs(Table(f)))
    OBVIOUS
  <2>2. TableRecs(Table(f)) \in Seq(Marks)
    BY TableTypes, TableRecsIs
  <2>3. data \in Written(Marks) /\ data.state = "ok" /\ data.recs = TableRecs(Table(f))
    BY <2>1, <2>2 DEF Data, Written
  <2>4. g = [f EXCEPT !.marks = data, !.mark_queue = <<>>, !.mark_dirty = FALSE,
                      !.half = f.half \ {"marks"}]
    BY <1>3, <2>1 DEF ReadMarks
  <2>5. g \in FolderItems
    <3>0. <<>> \in Seq(Marks)
      OBVIOUS
    <3>1. PICK q \in Seq(Marks) : q = <<>>
      BY <3>0
    <3>2. PICK h \in SUBSET {"cache"} : h = f.half \ {"marks"}
      BY DEF FolderItems
    <3>3. g = [f EXCEPT !.marks = data, !.mark_queue = q, !.mark_dirty = FALSE, !.half = h]
      BY <2>4, <3>1, <3>2
    <3> QED
      BY <2>3, <3>3 DEF FolderItems
  <2> QED
    BY <1>3, <2>3, <2>4, <2>5 DEF FolderItems, SameMail, SameCache, SameSums
<1> QED
  BY <1>1, <1>2, <1>3

WithSums(f, n, u, k) == [f EXCEPT !.total = n, !.unread = u, !.last_num = k, !.fresh = FALSE]

LEMMA SetSums ==
    ASSUME NEW f \in FolderItems, NEW n \in Int, NEW u \in Int, NEW k \in -1..MaxNum,
           NEW g, g = WithSums(f, n, u, k)
    PROVE  /\ g \in FolderItems /\ SameMail(f, g) /\ SameMarks(f, g) /\ SameCache(f, g)
           /\ g.total = n /\ g.unread = u /\ g.last_num = k /\ ~g.fresh
<1>1. g \in FolderItems
  BY DEF FolderItems, WithSums
<1> QED
  BY <1>1 DEF FolderItems, SameMail, SameMarks, SameCache, WithSums

WithUnread(f, u) == [f EXCEPT !.unread = u]

LEMMA SetUnread ==
    ASSUME NEW f \in FolderItems, NEW u \in Int, NEW g, g = WithUnread(f, u)
    PROVE  /\ g \in FolderItems /\ SameMail(f, g) /\ SameMarks(f, g) /\ SameCache(f, g)
           /\ g.total = f.total /\ g.unread = u /\ g.last_num = f.last_num /\ g.fresh = f.fresh
<1>1. g \in FolderItems
  BY DEF FolderItems, WithUnread
<1> QED
  BY <1>1 DEF FolderItems, SameMail, SameMarks, SameCache, WithUnread

\* The queue of headers is written, or nothing is.
Flushed(f, g) ==
    /\ g.cache_dirty = f.cache_dirty
    /\ \/ g.cache = f.cache /\ g.cache_queue = f.cache_queue
       \/ /\ f.cache_queue # <<>> /\ ~f.opened
          /\ g.cache_queue = <<>> /\ Extended(f, g, HeadersOf(f.cache_queue))

\* The marks that wait are written, or nothing is.
Settled(f, g) ==
    /\ f.opened => g.marks = f.marks /\ g.mark_queue = f.mark_queue
    /\ g.mark_dirty => f.mark_dirty \/ f.opened
    /\ f.opened /\ f.mark_dirty => g.mark_dirty
    /\ \/ g.marks = f.marks /\ g.mark_queue = f.mark_queue
       \/ /\ g.mark_queue = <<>> /\ g.marks.recs = TableRecs(Table(f))
          /\ g.marks.state = "ok" /\ f.marks.state = "ok"

LEMMA SettledIs ==
    ASSUME NEW f \in FolderItems, NEW g, g = ReadMarks(f)
    PROVE  Settled(f, g)
BY ReadMarksIs DEF Settled

LEMMA FlushedIs ==
    ASSUME NEW f \in FolderItems, ~f.opened, NEW g, g = FlushCacheQueue(f)
    PROVE  Flushed(f, g)
<1>1. CASE f.cache_queue = <<>>
  BY <1>1 DEF FlushCacheQueue, Flushed
<1>2. CASE f.cache_queue # <<>>
  BY <1>2, FlushCacheQueueIs DEF Flushed
<1> QED
  BY <1>1, <1>2

\* Steps before and after that leave the cache alone change nothing in this.
LEMMA FlushedBetween ==
    ASSUME NEW f, NEW h, NEW c, NEW g, SameCache(f, h), f.opened = h.opened, Flushed(h, c),
           SameCache(c, g)
    PROVE  Flushed(f, g)
<1>1. CASE c.cache = h.cache /\ c.cache_queue = h.cache_queue
  BY <1>1 DEF SameCache, Flushed
<1>2. CASE /\ h.cache_queue # <<>> /\ ~h.opened
           /\ c.cache_queue = <<>> /\ Extended(h, c, HeadersOf(h.cache_queue))
  <2>1. Extended(f, g, HeadersOf(f.cache_queue))
    <3>1. /\ f.cache = h.cache /\ f.cache_queue = h.cache_queue /\ g.cache = c.cache
      BY DEF SameCache
    <3> QED
      BY <1>2, <3>1 DEF Extended
  <2> QED
    BY <1>2, <2>1 DEF SameCache, Flushed
<1> QED
  BY <1>1, <1>2 DEF Flushed

\* What a scan counts as unread: what is marked so, and as many as there are
\* files more than marks.
ScanUnread(f) ==
    IF Cardinality(FileNums(f)) = 0 THEN 0
    ELSE UnreadIn(MarkedTable(f))
         + (IF Cardinality(FileNums(f)) > Cardinality(DOMAIN MarkedTable(f))
            THEN Cardinality(FileNums(f)) - Cardinality(DOMAIN MarkedTable(f)) ELSE 0)

LEMMA ScanIs ==
    ASSUME NEW f \in FolderItems, NEW g, g = Scan(f)
    PROVE  /\ g \in FolderItems /\ SameMail(f, g) /\ Flushed(f, g) /\ Settled(f, g) /\ ~g.fresh
           /\ g.last_num = LastFile(f) /\ g.total = Cardinality(FileNums(f))
           /\ g.unread = ScanUnread(f) /\ Drained(f, g)
<1> DEFINE n_msg == Cardinality(FileNums(f))
           table == MarkedTable(f)
           unmarked == IF n_msg > Cardinality(DOMAIN table)
                       THEN n_msg - Cardinality(DOMAIN table) ELSE 0
           u == IF n_msg = 0 THEN 0 ELSE UnreadIn(table) + unmarked
<1>1. n_msg \in Nat /\ LastFile(f) \in -1..MaxNum
  <2>1. FileNums(f) \in SUBSET Nums /\ LastFile(f) \in 0..MaxNum
    BY LastFileIs
  <2> QED
    BY <2>1, NumsAre
<1>2. UnreadIn(table) \in Nat /\ Cardinality(DOMAIN table) \in Nat
  BY TableTypes
<1>3. PICK uu \in Int : uu = u
  BY <1>1, <1>2
<1>30. uu = ScanUnread(f)
  BY <1>3 DEF ScanUnread
<1>4. CASE n_msg = 0
  <2>1. PICK h : h = WithUnread(f, uu)
    OBVIOUS
  <2>2. /\ h \in FolderItems /\ SameMail(f, h) /\ SameMarks(f, h) /\ SameCache(f, h)
        /\ h.unread = uu
    BY <2>1, SetUnread
  <2>3. h = [f EXCEPT !.unread = 0]
    BY <1>3, <1>4, <2>1 DEF WithUnread
  <2>4. g = [h EXCEPT !.total = n_msg, !.last_num = LastFile(f), !.fresh = FALSE]
    BY <1>4, <2>3 DEF Scan
  <2>5. PICK v \in Int : v = h.unread
    BY <2>2 DEF FolderItems
  <2>6. g = WithSums(h, n_msg, v, LastFile(f))
    BY <2>2, <2>4, <2>5 DEF WithSums, FolderItems
  <2> HIDE DEF n_msg, u
  <2>7. /\ g \in FolderItems /\ SameMail(h, g) /\ SameMarks(h, g) /\ SameCache(h, g)
        /\ g.total = n_msg /\ g.unread = v /\ g.last_num = LastFile(f) /\ ~g.fresh
    BY <1>1, <2>2, <2>6, SetSums
  <2>8. SameMail(f, g) /\ Flushed(f, g) /\ Settled(f, g)
    BY <2>2, <2>7 DEF SameMail, SameMarks, SameCache, Flushed, Settled
  <2>9. FileNums(f) = {}
    <3>1. FileNums(f) \in SUBSET Nums
      BY LastFileIs
    <3>2. IsFiniteSet(FileNums(f))
      BY <3>1, NumsAre
    <3> QED
      BY <1>4, <3>2, FS_EmptySet DEF n_msg
  <2>10. Drained(f, g)
    BY <2>9 DEF Drained
  <2> QED
    BY <1>30, <2>2, <2>5, <2>7, <2>8, <2>10 DEF n_msg
<1>5. CASE n_msg # 0
  <2>1. PICK r : r = ReadMarks(f)
    OBVIOUS
  <2>2. r \in FolderItems /\ SameMail(f, r) /\ SameCache(f, r) /\ SameSums(f, r) /\ Settled(f, r)
    BY <2>1, ReadMarksIs, SettledIs
  <2>20. Drained(f, r)
    BY <2>1, ReadMarksIs DEF Drained
  <2>3. PICK h : h = WithUnread(r, uu)
    OBVIOUS
  <2>4. h \in FolderItems /\ SameMail(r, h) /\ SameMarks(r, h) /\ SameCache(r, h) /\ h.unread = uu
    BY <2>2, <2>3, SetUnread
  <2>5. h = [ReadMarks(f) EXCEPT !.unread = UnreadIn(table) + unmarked]
    BY <1>3, <1>5, <2>1, <2>3 DEF WithUnread
  <2>6. PICK c : c = IF h.opened THEN h ELSE FlushCacheQueue(h)
    OBVIOUS
  <2>7. c \in FolderItems /\ SameMail(h, c) /\ SameMarks(h, c) /\ Flushed(h, c) /\ c.unread = uu
    <3>1. CASE h.opened
      BY <2>4, <2>6, <3>1 DEF SameMail, SameMarks, Flushed
    <3>2. CASE ~h.opened
      BY <2>4, <2>6, <3>2, FlushCacheQueueIs, FlushedIs DEF SameSums
    <3> QED
      BY <3>1, <3>2
  <2>8. g = [c EXCEPT !.total = n_msg, !.last_num = LastFile(f), !.fresh = FALSE]
    BY <1>5, <2>5, <2>6 DEF Scan
  <2>9. PICK v \in Int : v = c.unread
    BY <2>7 DEF FolderItems
  <2>10. g = WithSums(c, n_msg, v, LastFile(f))
    BY <2>7, <2>8, <2>9 DEF WithSums, FolderItems
  <2> HIDE DEF n_msg, u, table, unmarked
  <2>11. /\ g \in FolderItems /\ SameMail(c, g) /\ SameMarks(c, g) /\ SameCache(c, g)
         /\ g.total = n_msg /\ g.unread = v /\ g.last_num = LastFile(f) /\ ~g.fresh
    BY <1>1, <2>7, <2>10, SetSums
  <2>12. SameMail(f, g)
    BY <2>2, <2>4, <2>7, <2>11 DEF SameMail
  <2>13. Settled(f, g)
    BY <2>2, <2>4, <2>7, <2>11 DEF SameMail, SameMarks, Settled
  <2>14. Flushed(f, g)
    <3>1. SameCache(f, h) /\ f.opened = h.opened
      BY <2>2, <2>4 DEF SameMail, SameCache
    <3> QED
      BY <2>7, <2>11, <3>1, FlushedBetween
  <2>15. Drained(f, g)
    BY <2>20, <2>4, <2>7, <2>11 DEF SameMarks, Drained
  <2> QED
    BY <1>30, <2>7, <2>9, <2>11, <2>12, <2>13, <2>14, <2>15 DEF n_msg
<1> QED
  BY <1>4, <1>5

LEMMA RescanIs ==
    ASSUME NEW f \in FolderItems, NEW g, g = Rescan(f)
    PROVE  /\ g \in FolderItems /\ SameMail(f, g) /\ SameMarks(f, g) /\ SameCache(f, g)
           /\ ~g.fresh /\ g.last_num = LastFile(f)
<1>1. LastFile(f) \in -1..MaxNum
  <2>1. LastFile(f) \in 0..MaxNum
    BY LastFileIs
  <2> QED
    BY <2>1, NumsAre
<1>0. f.total \in Int /\ f.unread \in Int
  BY DEF FolderItems
<1>2. PICK t \in Int : t = IF FileNums(f) = {} THEN 0 ELSE f.total
  BY <1>0
<1>3. PICK u \in Int : u = IF FileNums(f) = {} THEN 0 ELSE f.unread
  BY <1>0
<1>4. g = WithSums(f, t, u, LastFile(f))
  BY <1>2, <1>3 DEF Rescan, WithSums, FolderItems
<1> QED
  BY <1>1, <1>4, SetSums

LEMMA ScannedIs ==
    ASSUME NEW f \in FolderItems, NEW g, g = Scanned(f)
    PROVE  /\ g \in FolderItems /\ SameMail(f, g) /\ Flushed(f, g) /\ Settled(f, g)
           /\ g.fresh => f.fresh
           /\ g.last_num >= 0 /\ g.last_num \in 0..MaxNum
           /\ g.last_num = IF f.last_num < 0 THEN LastFile(f) ELSE f.last_num
<1>1. f.last_num \in Int /\ f.last_num \in -1..MaxNum /\ MaxNum \in Nat
  BY NumsAre DEF FolderItems
<1>2. CASE f.last_num < 0
  <2>1. LastFile(f) \in 0..MaxNum
    BY LastFileIs
  <2> QED
    BY <1>1, <1>2, <2>1, ScanIs DEF Scanned
<1>3. CASE ~(f.last_num < 0)
  BY <1>1, <1>3 DEF Scanned, SameMail, Flushed, Settled
<1> QED
  BY <1>2, <1>3

WithCounts(f, n, u) == [f EXCEPT !.unread = u, !.total = n]

LEMMA SetCounts ==
    ASSUME NEW f \in FolderItems, NEW n \in Int, NEW u \in Int, NEW g, g = WithCounts(f, n, u)
    PROVE  /\ g \in FolderItems /\ SameMail(f, g) /\ SameMarks(f, g) /\ SameCache(f, g)
           /\ g.total = n /\ g.unread = u /\ g.last_num = f.last_num /\ g.fresh = f.fresh
<1>1. g \in FolderItems
  BY DEF FolderItems, WithCounts
<1> QED
  BY <1>1 DEF FolderItems, SameMail, SameMarks, SameCache, WithCounts

LEMMA FlushFolderIs ==
    ASSUME NEW f \in FolderItems, NEW g, g = FlushFolder(f)
    PROVE  /\ g \in FolderItems /\ SameMail(f, g) /\ Flushed(f, g) /\ Settled(f, g)
           /\ g.fresh => f.fresh
           /\ g.last_num = IF f.last_num < 0 THEN LastFile(f) ELSE f.last_num
           /\ Drained(f, g)
           /\ IF f.last_num < 0 THEN g.total = Cardinality(FileNums(f)) /\ g.unread = ScanUnread(f)
              ELSE /\ g.total = Cardinality(DOMAIN MarkedTable(f))
                   /\ g.unread = UnreadIn(MarkedTable(f))
<1>1. CASE f.last_num < 0
  BY <1>1, ScanIs DEF FlushFolder
<1>2. CASE ~(f.last_num < 0)
  <2>1. PICK n \in Int : n = Cardinality(DOMAIN MarkedTable(f))
    BY TableTypes
  <2>2. PICK u \in Int : u = UnreadIn(MarkedTable(f))
    BY TableTypes
  <2>3. PICK r : r = ReadMarks(f)
    OBVIOUS
  <2>4. /\ r \in FolderItems /\ SameMail(f, r) /\ SameCache(f, r) /\ SameSums(f, r) /\ Settled(f, r)
        /\ r.fresh = f.fresh /\ Drained(f, r)
    BY <2>3, ReadMarksIs, SettledIs DEF Drained
  <2>5. PICK h : h = WithCounts(r, n, u)
    OBVIOUS
  <2>6. /\ h \in FolderItems /\ SameMail(r, h) /\ SameMarks(r, h) /\ SameCache(r, h)
        /\ h.last_num = r.last_num /\ h.fresh = r.fresh /\ h.total = n /\ h.unread = u
    BY <2>4, <2>5, SetCounts
  <2>7. g = IF f.opened THEN h ELSE FlushCacheQueue(h)
    BY <1>2, <2>1, <2>2, <2>3, <2>5 DEF FlushFolder, WithCounts
  <2>8. h.opened = f.opened
    BY <2>4, <2>6 DEF SameMail
  <2>9. /\ g \in FolderItems /\ SameMail(h, g) /\ SameMarks(h, g) /\ Flushed(h, g)
        /\ g.last_num = h.last_num /\ g.total = n /\ g.unread = u
        /\ g.fresh => h.fresh
    <3>1. CASE f.opened
      BY <2>6, <2>7, <3>1 DEF SameMail, SameMarks, Flushed
    <3>2. CASE ~f.opened
      BY <2>6, <2>7, <2>8, <3>2, FlushCacheQueueIs, FlushedIs DEF SameSums
    <3> QED
      BY <3>1, <3>2
  <2>10. SameMail(f, g)
    BY <2>4, <2>6, <2>9 DEF SameMail
  <2>11. Settled(f, g)
    BY <2>4, <2>6, <2>9 DEF SameMail, SameMarks, Settled
  <2>12. Flushed(f, g)
    <3>1. SameCache(f, h) /\ f.opened = h.opened
      BY <2>4, <2>6 DEF SameMail, SameCache
    <3>2. SameCache(g, g)
      BY DEF SameCache
    <3> QED
      BY <2>9, <3>1, <3>2, FlushedBetween
  <2>13. /\ g.last_num = f.last_num
         /\ g.fresh => f.fresh
    BY <2>4, <2>6, <2>9 DEF SameSums
  <2>14. Drained(f, g)
    BY <2>4, <2>6, <2>9 DEF SameMarks, Drained
  <2> QED
    BY <1>2, <2>1, <2>2, <2>9, <2>10, <2>11, <2>12, <2>13, <2>14
<1> QED
  BY <1>1, <1>2

-----------------------------------------------------------------------------
\* Records with a number, one for each, and what they say of the files.

Distinct(rs) == \A i, j \in 1..Len(rs) : rs[i].num = rs[j].num => i = j
Apart(rs, ss) == \A n \in NumsOf(rs) : n \notin NumsOf(ss)
Right(f, rs) == \A i \in 1..Len(rs) : f.file[rs[i].num] = rs[i].msg

\* In the drafts a record may be of a file that was removed, whose number is
\* not given again.
Sound(f, r) ==
    f.file[r.num] = r.msg \/ (f.stype = "F_DRAFT" /\ \E k \in FileNums(f) : r.num < k)
AllSound(f, rs) == \A i \in 1..Len(rs) : Sound(f, rs[i])

\* t has the elements of rs and then those of ss.
Joins(rs, ss, t) ==
    /\ Len(t) = Len(rs) + Len(ss) /\ Len(rs) \in Nat /\ Len(ss) \in Nat
    /\ \A i \in 1..Len(t) : \/ i \in 1..Len(rs) /\ t[i] = rs[i]
                            \/ \E j \in 1..Len(ss) : i = Len(rs) + j /\ t[i] = ss[j]
    /\ \A i \in 1..Len(rs) : i \in 1..Len(t) /\ t[i] = rs[i]
    /\ \A i \in 1..Len(ss) : Len(rs) + i \in 1..Len(t) /\ t[Len(rs) + i] = ss[i]

LEMMA JoinedParts ==
    ASSUME NEW R, NEW rs \in Seq(R), NEW ss \in Seq(R), NEW t, t = Joined(rs, ss)
    PROVE  t \in Seq(R) /\ Joins(rs, ss, t)
<1>1. t = rs \o ss
  BY DEF Joined
<1> QED
  <2>1. PICK a \in Nat : a = Len(rs)
    OBVIOUS
  <2>2. PICK b \in Nat : b = Len(ss)
    OBVIOUS
  <2>3. t \in Seq(R) /\ Len(t) = a + b
    BY <1>1, <2>1, <2>2, ConcatProperties
  <2>4. ASSUME NEW i \in 1..(a + b)
        PROVE  (i \in 1..a /\ t[i] = rs[i]) \/ \E j \in 1..b : i = a + j /\ t[i] = ss[j]
    <3>1. CASE i <= a
      <4>1. t[i] = rs[i]
        BY <1>1, <2>1, <2>2, <3>1, ConcatProperties
      <4> QED
        BY <3>1, <4>1
    <3>2. CASE i > a
      <4>1. PICK j \in 1..b : i = a + j
        BY <3>2
      <4>2. t[i] = ss[j]
        BY <1>1, <2>1, <2>2, <3>2, <4>1, ConcatProperties
      <4> QED
        BY <4>1, <4>2
    <3> QED
      BY <3>1, <3>2
  <2>5. \A i \in 1..a : i \in 1..(a + b) /\ t[i] = rs[i]
    BY <1>1, <2>1, <2>2, ConcatProperties
  <2>6. \A i \in 1..b : a + i \in 1..(a + b) /\ t[a + i] = ss[i]
    BY <1>1, <2>1, <2>2, ConcatProperties
  <2> QED
    BY <2>1, <2>2, <2>3, <2>4, <2>5, <2>6 DEF Joins

LEMMA JoinedIs ==
    ASSUME NEW R, NEW rs \in Seq(R), NEW ss \in Seq(R), NEW t, t = Joined(rs, ss)
    PROVE  /\ t \in Seq(R)
           /\ \A n : n \in NumsOf(t) <=> n \in NumsOf(rs) \/ n \in NumsOf(ss)
           /\ Distinct(rs) /\ Distinct(ss) /\ Apart(rs, ss) => Distinct(t)
<1>0. t \in Seq(R) /\ Joins(rs, ss, t)
  BY JoinedParts
<1>1. /\ \A n : n \in NumsOf(t) <=> \E i \in 1..Len(t) : t[i].num = n
      /\ \A n : n \in NumsOf(rs) <=> \E i \in 1..Len(rs) : rs[i].num = n
      /\ \A n : n \in NumsOf(ss) <=> \E i \in 1..Len(ss) : ss[i].num = n
  <2>1. \A n : n \in NumsOf(t) <=> \E i \in 1..Len(t) : t[i].num = n
    BY <1>0, NumsOfIs
  <2>2. \A n : n \in NumsOf(rs) <=> \E i \in 1..Len(rs) : rs[i].num = n
    BY NumsOfIs
  <2>3. \A n : n \in NumsOf(ss) <=> \E i \in 1..Len(ss) : ss[i].num = n
    BY NumsOfIs
  <2> QED
    BY <2>1, <2>2, <2>3
<1>2. ASSUME NEW n PROVE n \in NumsOf(t) <=> n \in NumsOf(rs) \/ n \in NumsOf(ss)
  <2>1. ASSUME n \in NumsOf(t) PROVE n \in NumsOf(rs) \/ n \in NumsOf(ss)
    <3>1. PICK i \in 1..Len(t) : t[i].num = n
      BY <1>1, <2>1
    <3>2. CASE i \in 1..Len(rs) /\ t[i] = rs[i]
      BY <1>1, <3>1, <3>2
    <3>3. CASE \E j \in 1..Len(ss) : i = Len(rs) + j /\ t[i] = ss[j]
      BY <1>1, <3>1, <3>3
    <3> QED
      BY <1>0, <3>2, <3>3 DEF Joins
  <2>2. ASSUME n \in NumsOf(rs) PROVE n \in NumsOf(t)
    BY <1>0, <1>1, <2>2 DEF Joins
  <2>3. ASSUME n \in NumsOf(ss) PROVE n \in NumsOf(t)
    BY <1>0, <1>1, <2>3 DEF Joins
  <2> QED
    BY <2>1, <2>2, <2>3
<1>3. ASSUME Distinct(rs), Distinct(ss), Apart(rs, ss), NEW i \in 1..Len(t), NEW j \in 1..Len(t),
             t[i].num = t[j].num
      PROVE  i = j
  <2>1. (i \in 1..Len(rs) /\ t[i] = rs[i]) \/ \E a \in 1..Len(ss) : i = Len(rs) + a /\ t[i] = ss[a]
    BY <1>0 DEF Joins
  <2>2. (j \in 1..Len(rs) /\ t[j] = rs[j]) \/ \E b \in 1..Len(ss) : j = Len(rs) + b /\ t[j] = ss[b]
    BY <1>0 DEF Joins
  <2>3. CASE i \in 1..Len(rs) /\ t[i] = rs[i]
    <3>1. t[i].num \in NumsOf(rs)
      BY <1>1, <2>3
    <3>2. t[j].num \notin NumsOf(ss)
      BY <1>3, <3>1 DEF Apart
    <3>3. j \in 1..Len(rs) /\ t[j] = rs[j]
      BY <1>1, <2>2, <3>2
    <3> QED
      BY <1>3, <2>3, <3>3 DEF Distinct
  <2>4. CASE \E a \in 1..Len(ss) : i = Len(rs) + a /\ t[i] = ss[a]
    <3>1. PICK a \in 1..Len(ss) : i = Len(rs) + a /\ t[i] = ss[a]
      BY <2>4
    <3>2. t[j].num \in NumsOf(ss)
      BY <1>1, <1>3, <3>1
    <3>3. t[j].num \notin NumsOf(rs)
      BY <1>3, <3>2 DEF Apart
    <3>4. PICK b \in 1..Len(ss) : j = Len(rs) + b /\ t[j] = ss[b]
      BY <1>1, <2>2, <3>3
    <3>5. a = b
      BY <1>3, <3>1, <3>4 DEF Distinct
    <3> QED
      BY <3>1, <3>4, <3>5
  <2> QED
    BY <2>1, <2>3, <2>4
<1> QED
  BY <1>0, <1>2, <1>3 DEF Joins, Distinct

LEMMA JoinedSound ==
    ASSUME NEW R, NEW rs \in Seq(R), NEW ss \in Seq(R), NEW t, t = Joined(rs, ss), NEW f
    PROVE  /\ Right(f, rs) /\ Right(f, ss) => Right(f, t)
           /\ AllSound(f, rs) /\ AllSound(f, ss) => AllSound(f, t)
<1>0. t \in Seq(R) /\ Joins(rs, ss, t)
  BY JoinedParts
<1>1. ASSUME Right(f, rs), Right(f, ss), NEW i \in 1..Len(t) PROVE f.file[t[i].num] = t[i].msg
  <2>1. (i \in 1..Len(rs) /\ t[i] = rs[i]) \/ \E a \in 1..Len(ss) : t[i] = ss[a]
    BY <1>0 DEF Joins
  <2>2. \A a \in 1..Len(rs) : f.file[rs[a].num] = rs[a].msg
    BY <1>1 DEF Right
  <2>3. \A a \in 1..Len(ss) : f.file[ss[a].num] = ss[a].msg
    BY <1>1 DEF Right
  <2> QED
    BY <2>1, <2>2, <2>3
<1>2. ASSUME AllSound(f, rs), AllSound(f, ss), NEW i \in 1..Len(t) PROVE Sound(f, t[i])
  BY <1>0, <1>2 DEF Joins, AllSound
<1> QED
  BY <1>1, <1>2 DEF Joins, Right, AllSound

LEMMA HeadersOfIs ==
    ASSUME NEW rs, rs \in Seq(Headers) \/ rs \in Seq(MsgInfos), NEW hs, hs = HeadersOf(rs), NEW f
    PROVE  /\ hs \in Seq(Headers) /\ NumsOf(hs) = NumsOf(rs)
           /\ Distinct(rs) => Distinct(hs)
           /\ Right(f, rs) => Right(f, hs)
           /\ AllSound(f, rs) => AllSound(f, hs)
<1>1. /\ hs \in Seq(Headers) /\ Len(hs) = Len(rs) /\ Len(rs) \in Nat
      /\ \A i \in 1..Len(rs) : hs[i].num = rs[i].num /\ hs[i].msg = rs[i].msg
  BY HeadersTypes
<1>2. \A n : n \in NumsOf(rs) <=> \E i \in 1..Len(rs) : rs[i].num = n
  BY NumsOfIs
<1>3. \A n : n \in NumsOf(hs) <=> \E i \in 1..Len(hs) : hs[i].num = n
  BY <1>1, NumsOfIs
<1>4. NumsOf(hs) = NumsOf(rs)
  <2>1. \A n : n \in NumsOf(hs) <=> n \in NumsOf(rs)
    BY <1>1, <1>2, <1>3
  <2> QED
    BY <2>1
<1>5. Distinct(rs) => Distinct(hs)
  BY <1>1 DEF Distinct
<1>6. Right(f, rs) => Right(f, hs)
  BY <1>1 DEF Right
<1>7. AllSound(f, rs) => AllSound(f, hs)
  BY <1>1 DEF AllSound, Sound
<1> QED
  BY <1>1, <1>4, <1>5, <1>6, <1>7

LEMMA AppendIs ==
    ASSUME NEW R, NEW rs \in Seq(R), NEW r \in R, NEW t, t = Append(rs, r)
    PROVE  /\ t \in Seq(R) /\ t # <<>> /\ Len(rs) \in Nat /\ Len(t) = Len(rs) + 1
           /\ \A i \in 1..Len(t) : (i \in 1..Len(rs) /\ t[i] = rs[i]) \/ (i = Len(t) /\ t[i] = r)
           /\ \A n : n \in NumsOf(t) <=> n \in NumsOf(rs) \/ n = r.num
           /\ Distinct(rs) /\ r.num \notin NumsOf(rs) => Distinct(t)
<1>0. /\ t \in Seq(R) /\ t # <<>> /\ Len(rs) \in Nat /\ Len(t) = Len(rs) + 1
      /\ \A i \in 1..Len(rs) : i \in 1..Len(t) /\ t[i] = rs[i]
      /\ t[Len(t)] = r /\ Len(t) \in 1..Len(t)
  BY AppendProperties
<1>1. \A i \in 1..Len(t) : (i \in 1..Len(rs) /\ t[i] = rs[i]) \/ (i = Len(t) /\ t[i] = r)
  BY <1>0
<1>2. /\ \A n : n \in NumsOf(t) <=> \E i \in 1..Len(t) : t[i].num = n
      /\ \A n : n \in NumsOf(rs) <=> \E i \in 1..Len(rs) : rs[i].num = n
  <2>0. t \in Seq(R)
    BY <1>0
  <2>1. \A n : n \in NumsOf(t) <=> \E i \in 1..Len(t) : t[i].num = n
    BY <2>0, NumsOfIs
  <2>2. \A n : n \in NumsOf(rs) <=> \E i \in 1..Len(rs) : rs[i].num = n
    BY NumsOfIs
  <2> QED
    BY <2>1, <2>2
<1>3. \A n : n \in NumsOf(t) <=> n \in NumsOf(rs) \/ n = r.num
  BY <1>0, <1>1, <1>2
<1>4. ASSUME Distinct(rs), r.num \notin NumsOf(rs), NEW i \in 1..Len(t), NEW j \in 1..Len(t),
             t[i].num = t[j].num
      PROVE  i = j
  BY <1>0, <1>1, <1>2, <1>4 DEF Distinct
<1> QED
  BY <1>0, <1>1, <1>3, <1>4 DEF Distinct

-----------------------------------------------------------------------------
\* A message that is added.

\* The numbers that can be given.
Free(f) == {k \in Nums : k > f.last_num /\ f.file[k] = None}

LEMMA NewNumIs ==
    ASSUME NEW f \in FolderItems, f.last_num >= 0, Free(f) # {}, NEW n, n = NewNum(f)
    PROVE  n \in Free(f) /\ \A k \in Free(f) : n <= k
<1>1. Free(f) \in SUBSET (0..MaxNum) /\ Free(f) \in SUBSET Nums /\ MaxNum \in Nat
  BY NumsAre DEF Free
<1>2. f.last_num \in 0..MaxNum
  BY <1>1 DEF FolderItems
<1>3. PICK p \in Free(f) : \A k \in Free(f) : p <= k
  BY <1>1, Extremes
<1>4. p \in Nat /\ p > f.last_num /\ p <= MaxNum /\ f.file[p] = None
  BY <1>1, <1>2 DEF Free
<1> DEFINE P(j) == /\ j > MaxNum \/ f.file[j] = None
                   /\ \A k \in (f.last_num + 1)..(j - 1) : f.file[k] # None
<1>5. ASSUME NEW k \in (f.last_num + 1)..(p - 1) PROVE f.file[k] # None
  <2>1. k \in Int /\ k > f.last_num /\ k < p /\ k \in Nums
    BY <1>1, <1>2, <1>4 DEF Nums
  <2>2. k \notin Free(f)
    BY <1>3, <1>4, <2>1
  <2> QED
    BY <2>1, <2>2 DEF Free
<1>6. P(p) /\ p \in (f.last_num + 1)..(MaxNum + 1)
  BY <1>1, <1>2, <1>4, <1>5
<1>7. n = CHOOSE j \in (f.last_num + 1)..(MaxNum + 1) : P(j)
  BY DEF NewNum
<1>8. P(n) /\ n \in (f.last_num + 1)..(MaxNum + 1)
  BY <1>6, <1>7
<1>9. ~(p < n)
  <2>1. SUFFICES ASSUME p < n PROVE FALSE
    OBVIOUS
  <2>2. p \in (f.last_num + 1)..(n - 1)
    BY <1>2, <1>4, <1>8, <2>1
  <2> QED
    BY <1>4, <1>8, <2>2
<1>10. n \in Nat /\ n > f.last_num /\ n <= p
  BY <1>2, <1>4, <1>8, <1>9
<1>11. f.file[n] = None
  BY <1>1, <1>4, <1>8, <1>10
<1>12. n \in Free(f)
  BY <1>1, <1>2, <1>4, <1>10, <1>11 DEF Free, Nums
<1> QED
  BY <1>1, <1>3, <1>4, <1>10, <1>12

\* g is f with one more message, whose header waits.
Added(f, g, info) ==
    /\ info \in MsgInfos
    /\ g.stype = f.stype /\ g.opened = f.opened /\ g.list = f.list
    /\ g.cache = f.cache /\ g.cache_dirty = f.cache_dirty
    /\ info.num > f.last_num /\ f.file[info.num] = None
    /\ g.file[info.num] = info.msg
    /\ \A k \in Nums : k # info.num => g.file[k] = f.file[k]
    /\ g.last_num = info.num /\ g.cache_queue = Append(f.cache_queue, info) /\ ~g.fresh
    /\ Cardinality(Free(g)) = Cardinality(Free(f)) - 1

LEMMA PutIs ==
    ASSUME NEW f \in FolderItems, f.last_num >= 0, Free(f) # {},
           NEW m \in Msgs, NEW flags \in Flags, NEW g, g = Put(f, m, flags)
    PROVE  /\ g \in FolderItems /\ SameMarks(f, g)
           /\ \E info : Added(f, g, info) /\ info.msg = m /\ info.flags = flags
<1>1. PICK n \in Nums : n = NewNum(f) /\ n \in Free(f) /\ \A k \in Free(f) : n <= k
  <2>1. NewNum(f) \in Free(f) /\ \A k \in Free(f) : NewNum(f) <= k
    BY NewNumIs
  <2> QED
    BY <2>1 DEF Free
<1>2. PICK info : info = [num |-> n, msg |-> m, flags |-> flags]
  OBVIOUS
<1>3. info \in MsgInfos /\ info.num = n /\ info.msg = m /\ info.flags = flags
  BY <1>2 DEF MsgInfos
<1>4. PICK file \in [Nums -> Msgs \cup {None}] : file = [f.file EXCEPT ![n] = m]
  <2>1. f.file \in [Nums -> Msgs \cup {None}]
    BY DEF FolderItems
  <2> QED
    BY <2>1
<1>5. PICK q \in Seq(MsgInfos) : q = Append(f.cache_queue, info)
  <2>1. f.cache_queue \in Seq(MsgInfos)
    BY DEF FolderItems
  <2>2. Append(f.cache_queue, info) \in Seq(MsgInfos)
    BY <1>3, <2>1, AppendProperties
  <2> QED
    BY <2>2
<1>6. PICK t \in Int : t = f.total + 1
  BY DEF FolderItems
<1>7. PICK u \in Int : u = f.unread + Unread(flags)
  <2>1. f.unread \in Int /\ Unread(flags) \in {0, 1}
    BY FlagsTypes DEF FolderItems
  <2> QED
    BY <2>1
<1>8. n \in -1..MaxNum
  BY NumsAre DEF Nums
<1>9. g = [f EXCEPT !.file = file, !.last_num = n, !.total = t, !.unread = u, !.fresh = FALSE,
                    !.cache_queue = q]
  <2>1. g = [f EXCEPT !.file = [f.file EXCEPT ![n] = m], !.last_num = n, !.total = f.total + 1,
                      !.unread = f.unread + Unread(flags), !.fresh = FALSE,
                      !.cache_queue = Append(f.cache_queue, [num |-> n, msg |-> m, flags |-> flags])]
    BY <1>1 DEF Put, FolderItems
  <2> QED
    BY <1>2, <1>4, <1>5, <1>6, <1>7, <2>1
<1>10. g \in FolderItems
  BY <1>4, <1>5, <1>6, <1>7, <1>8, <1>9, ZenonT(60) DEF FolderItems
<1>11. /\ g.stype = f.stype /\ g.opened = f.opened /\ g.list = f.list
       /\ g.cache = f.cache /\ g.cache_dirty = f.cache_dirty /\ SameMarks(f, g)
       /\ g.file = file /\ g.last_num = n /\ g.cache_queue = q /\ ~g.fresh
  BY <1>9 DEF FolderItems, SameMarks
<1>12. file[n] = m /\ \A k \in Nums : k # n => file[k] = f.file[k]
  BY <1>4 DEF FolderItems
<1>13. Free(g) = Free(f) \ {n}
  <2>1. \A k \in Nums : k \in Int /\ n \in Int /\ f.last_num \in Int /\ m # None
    BY NumsAre, NoneAssumption DEF FolderItems
  <2>2. ASSUME NEW k \in Nums PROVE k \in Free(g) <=> k \in Free(f) /\ k # n
    <3>1. CASE k = n
      <4>1. ~(k > g.last_num)
        BY <1>11, <2>1, <3>1
      <4> QED
        BY <3>1, <4>1 DEF Free
    <3>2. CASE k < n
      <4>1. ~(k > g.last_num) /\ k \notin Free(f)
        BY <1>1, <1>11, <2>1, <3>2
      <4> QED
        BY <4>1 DEF Free
    <3>3. CASE k > n
      <4>1. k > g.last_num /\ k > f.last_num /\ g.file[k] = f.file[k] /\ k # n
        <5>1. n > f.last_num
          BY <1>1 DEF Free
        <5>2. k \in Int /\ n \in Int /\ f.last_num \in Int
          BY <2>1
        <5>3. k > n /\ k # n /\ k > f.last_num
          BY <3>3, <5>1, <5>2
        <5>4. g.last_num = n /\ g.file[k] = f.file[k]
          BY <1>11, <1>12, <5>3
        <5> QED
          BY <5>3, <5>4
      <4> QED
        BY <4>1 DEF Free
    <3> QED
      BY <2>1, <3>1, <3>2, <3>3
  <2>3. Free(g) \in SUBSET Nums /\ Free(f) \in SUBSET Nums
    BY DEF Free
  <2> QED
    BY <2>2, <2>3
<1>14. Cardinality(Free(g)) = Cardinality(Free(f)) - 1
  <2>1. IsFiniteSet(Free(f))
    <3>1. Free(f) \in SUBSET Nums
      BY DEF Free
    <3> QED
      BY <3>1, NumsAre
  <2> QED
    BY <1>1, <1>13, <2>1, FS_RemoveElement, ZenonT(60)
<1>15. n > f.last_num /\ f.file[n] = None
  BY <1>1 DEF Free
<1>16. Added(f, g, info)
  BY <1>3, <1>5, <1>11, <1>12, <1>14, <1>15 DEF Added
<1> QED
  BY <1>3, <1>10, <1>11, <1>16

Incoming == [msg : Msgs, flags : Flags, received : BOOLEAN]

\* Put, and then the mark.
LEMMA MarkedAfterPut ==
    ASSUME NEW f, NEW g, NEW h, NEW info, Added(f, g, info),
           h.stype = g.stype, h.file = g.file, h.opened = g.opened, h.list = g.list,
           h.cache = g.cache, h.cache_queue = g.cache_queue, h.cache_dirty = g.cache_dirty,
           h.last_num = g.last_num, ~h.fresh
    PROVE  Added(f, h, info)
<1>1. Free(h) = Free(g)
  BY DEF Free
<1> QED
  BY <1>1 DEF Added

LEMMA AddOneIs ==
    ASSUME NEW f \in FolderItems, f.last_num >= 0, Free(f) # {}, NEW r \in Incoming,
           NEW g, g = AddOne(f, r)
    PROVE  /\ g \in FolderItems
           /\ f.opened => g.mark_queue # <<>>
           /\ \E info : Added(f, g, info) /\ info.msg = r.msg
<1>0. r.msg \in Msgs /\ r.flags \in Flags /\ r.received \in BOOLEAN
  BY DEF Incoming
<1>1. PICK p : p = Put(f, r.msg, r.flags)
  OBVIOUS
<1>2. p \in FolderItems /\ SameMarks(f, p)
  BY <1>0, <1>1, PutIs
<1>3. PICK info : Added(f, p, info) /\ info.msg = r.msg /\ info.flags = r.flags
  BY <1>0, <1>1, PutIs
<1>4. PICK flags \in Flags : flags = IF r.received THEN r.flags ELSE ClearedFor(f, r.flags)
  BY <1>0, FlagsTypes DEF ClearedFor
<1>5. p.last_num \in Nums
  BY <1>3 DEF Added, MsgInfos
<1>6. PICK mark : mark = [num |-> p.last_num, flags |-> flags]
  OBVIOUS
<1>7. mark \in Marks
  BY <1>5, <1>6 DEF Marks
<1>8. p.mark_queue \in Seq(Marks) /\ ~p.fresh
  BY <1>2, <1>3 DEF FolderItems, Added
<1>9. g = IF r.received \/ f.opened THEN [p EXCEPT !.mark_queue = Append(@, mark)]
          ELSE AppendMarks(p, <<mark>>)
  BY <1>1, <1>4, <1>6 DEF AddOne
<1>10. CASE r.received \/ f.opened
  <2>1. PICK q \in Seq(Marks) : q = Append(p.mark_queue, mark) /\ q # <<>>
    <3>1. Append(p.mark_queue, mark) \in Seq(Marks) /\ Append(p.mark_queue, mark) # <<>>
      BY <1>7, <1>8, AppendProperties
    <3> QED
      BY <3>1
  <2>2. g = WithMarkQueue(p, q)
    BY <1>2, <1>9, <1>10, <2>1 DEF WithMarkQueue, FolderItems
  <2>3. /\ g \in FolderItems /\ SameMail(p, g) /\ SameCache(p, g) /\ SameSums(p, g)
        /\ g.mark_queue = q
        /\ g.fresh => p.fresh
    BY <1>2, <2>2, SetMarkQueue
  <2>4. Added(f, g, info)
    BY <1>3, <1>8, <2>3, MarkedAfterPut DEF SameMail, SameCache, SameSums
  <2> QED
    BY <1>3, <2>1, <2>3, <2>4
<1>11. CASE ~(r.received \/ f.opened)
  <2>0. <<mark>> \in Seq(Marks)
    BY <1>7
  <2>1. PICK rs \in Seq(Marks) : rs = <<mark>>
    BY <2>0
  <2>2. g = AppendMarks(p, rs)
    BY <1>9, <1>11, <2>1
  <2>3. /\ g \in FolderItems /\ SameMail(p, g) /\ SameCache(p, g) /\ SameSums(p, g)
        /\ g.fresh => p.fresh
    <3>1. g \in FolderItems /\ SameMail(p, g) /\ SameCache(p, g) /\ SameSums(p, g)
      BY <1>2, <2>2, AppendMarksIs
    <3>2. g.fresh => p.fresh
      BY <1>2, <2>2, AppendMarksIs
    <3> QED
      BY <3>1, <3>2
  <2>4. Added(f, g, info)
    BY <1>3, <1>8, <2>3, MarkedAfterPut DEF SameMail, SameCache, SameSums
  <2> QED
    BY <1>3, <1>11, <2>3, <2>4
<1> QED
  BY <1>10, <1>11

LEMMA PutQueuedIs ==
    ASSUME NEW f \in FolderItems, f.last_num >= 0, Free(f) # {}, NEW r \in Incoming,
           NEW g, g = PutQueued(f, r)
    PROVE  /\ g \in FolderItems
           /\ f.opened => g.mark_queue # <<>>
           /\ \E info : Added(f, g, info) /\ info.msg = r.msg
<1>0. r.msg \in Msgs /\ r.flags \in Flags
  BY DEF Incoming
<1>1. PICK p : p = Put(f, r.msg, r.flags)
  OBVIOUS
<1>2. p \in FolderItems /\ SameMarks(f, p)
  BY <1>0, <1>1, PutIs
<1>3. PICK info : Added(f, p, info) /\ info.msg = r.msg /\ info.flags = r.flags
  BY <1>0, <1>1, PutIs
<1>4. PICK flags \in Flags : flags = ClearedFor(f, r.flags)
  BY <1>0, FlagsTypes DEF ClearedFor
<1>5. p.last_num \in Nums
  BY <1>3 DEF Added, MsgInfos
<1>6. PICK mark : mark = [num |-> p.last_num, flags |-> flags]
  OBVIOUS
<1>7. mark \in Marks
  BY <1>5, <1>6 DEF Marks
<1>8. p.mark_queue \in Seq(Marks) /\ ~p.fresh
  BY <1>2, <1>3 DEF FolderItems, Added
<1>9. g = [p EXCEPT !.mark_queue = Append(@, mark)]
  BY <1>1, <1>4, <1>6 DEF PutQueued
<1>10. PICK q \in Seq(Marks) : q = Append(p.mark_queue, mark) /\ q # <<>>
  <2>1. Append(p.mark_queue, mark) \in Seq(Marks) /\ Append(p.mark_queue, mark) # <<>>
    BY <1>7, <1>8, AppendProperties
  <2> QED
    BY <2>1
<1>11. g = WithMarkQueue(p, q)
  BY <1>2, <1>9, <1>10 DEF WithMarkQueue, FolderItems
<1>12. /\ g \in FolderItems /\ SameMail(p, g) /\ SameCache(p, g) /\ SameSums(p, g)
       /\ g.mark_queue = q
       /\ g.fresh => p.fresh
  BY <1>2, <1>11, SetMarkQueue
<1>13. Added(f, g, info)
  BY <1>3, <1>8, <1>12, MarkedAfterPut DEF SameMail, SameCache, SameSums
<1> QED
  BY <1>3, <1>10, <1>12, <1>13

-----------------------------------------------------------------------------
\* What holds of a folder between the handlers.

\* The cache file and the headers that wait for it have a record for a number
\* at most, and it is sound.
CacheSound(f) ==
    /\ Distinct(f.cache.recs) /\ Distinct(f.cache_queue) /\ Apart(f.cache.recs, f.cache_queue)
    /\ AllSound(f, f.cache.recs) /\ AllSound(f, f.cache_queue)
\* A message has one row, or will have it, and it is the row of its file.
RowsSound(f) ==
    /\ Distinct(f.list) /\ Apart(f.list, f.cache_queue)
    /\ Right(f, f.list) /\ Right(f, f.cache_queue)
Covered(f) == \A n \in FileNums(f) : n \in NumsOf(f.list) \/ n \in NumsOf(f.cache_queue)
\* No number of a draft is given again.
Numbered(f) == f.stype = "F_DRAFT" /\ f.last_num >= 0 => \A k \in FileNums(f) : k <= f.last_num
\* In what is shown, a header that waits has its mark waiting.
Waiting(f) == f.opened /\ f.cache_queue # <<>> => f.mark_queue # <<>>
Good(f) ==
    /\ CacheSound(f) /\ Numbered(f) /\ Waiting(f)
    /\ ~f.opened => f.list = <<>>
    /\ f.opened => RowsSound(f)

LEMMA EmptyIs ==
    /\ Distinct(<<>>) /\ NumsOf(<<>>) = {} /\ HeadersOf(<<>>) = <<>>
    /\ \A f : Right(f, <<>>) /\ AllSound(f, <<>>)
    /\ \A rs : Apart(rs, <<>>) /\ Apart(<<>>, rs)
<1>1. Len(<<>>) = 0 /\ 1..0 = {} /\ DOMAIN <<>> = {}
  OBVIOUS
<1>2. NumsOf(<<>>) = {} /\ HeadersOf(<<>>) = <<>>
  BY <1>1 DEF NumsOf, HeadersOf
<1>3. Distinct(<<>>)
  BY <1>1 DEF Distinct
<1>4. \A f : Right(f, <<>>) /\ AllSound(f, <<>>)
  BY <1>1 DEF Right, AllSound
<1>5. \A rs : Apart(rs, <<>>) /\ Apart(<<>>, rs)
  BY <1>2 DEF Apart
<1> QED
  BY <1>2, <1>3, <1>4, <1>5

\* Soundness is about the files.
LEMMA SameFiles ==
    ASSUME NEW f, NEW g, g.file = f.file, g.stype = f.stype
    PROVE  /\ FileNums(g) = FileNums(f) /\ Contents(g) = Contents(f)
           /\ \A rs : Right(f, rs) => Right(g, rs)
           /\ \A rs : AllSound(f, rs) => AllSound(g, rs)
<1>1. FileNums(g) = FileNums(f)
  BY DEF FileNums
<1>2. Contents(g) = Contents(f)
  BY <1>1 DEF Contents
<1>3. \A rs : Right(f, rs) => Right(g, rs)
  BY DEF Right
<1>4. \A rs : AllSound(f, rs) => AllSound(g, rs)
  BY <1>1 DEF AllSound, Sound
<1> QED
  BY <1>1, <1>2, <1>3, <1>4

LEMMA FlushedSound ==
    ASSUME NEW f \in FolderItems, NEW g \in FolderItems, SameMail(f, g), Flushed(f, g), CacheSound(f)
    PROVE  CacheSound(g)
<1>1. /\ g.file = f.file /\ g.stype = f.stype
      /\ \A rs : AllSound(f, rs) => AllSound(g, rs)
  BY SameFiles DEF SameMail
<1>2. CASE g.cache = f.cache /\ g.cache_queue = f.cache_queue
  BY <1>1, <1>2 DEF CacheSound
<1>4. CASE g.cache_queue = <<>> /\ g.cache.recs = <<>>
  BY <1>4, EmptyIs DEF CacheSound
<1>3. CASE /\ g.cache_queue = <<>>
           /\ g.cache.recs = Joined(f.cache.recs, HeadersOf(f.cache_queue))
  <2>1. PICK rs \in Seq(Headers) : rs = f.cache.recs
    BY DEF FolderItems, Written
  <2>2. PICK q \in Seq(MsgInfos) : q = f.cache_queue
    BY DEF FolderItems
  <2>3. PICK hs : hs = HeadersOf(q)
    OBVIOUS
  <2>4. /\ Distinct(rs) /\ Distinct(q) /\ Apart(rs, q)
        /\ AllSound(f, rs) /\ AllSound(f, q)
    BY <2>1, <2>2 DEF CacheSound
  <2>5. hs \in Seq(Headers) /\ NumsOf(hs) = NumsOf(q) /\ Distinct(hs) /\ AllSound(f, hs)
    BY <2>2, <2>3, <2>4, HeadersOfIs
  <2>6. Apart(rs, hs)
    BY <2>4, <2>5 DEF Apart
  <2>7. PICK t : t = Joined(rs, hs)
    OBVIOUS
  <2>8. Distinct(t)
    BY <2>1, <2>4, <2>5, <2>6, <2>7, JoinedIs
  <2>9. AllSound(f, t)
    BY <2>1, <2>4, <2>5, <2>7, JoinedSound
  <2>10. g.cache.recs = t
    BY <1>3, <2>1, <2>2, <2>3, <2>7
  <2> QED
    BY <1>1, <1>3, <2>8, <2>9, <2>10, EmptyIs DEF CacheSound
<1> QED
  BY <1>2, <1>3, <1>4 DEF Flushed, Extended

\* Counting a folder keeps it good.
LEMMA CountedGood ==
    ASSUME NEW f \in FolderItems, NEW g \in FolderItems, SameMail(f, g), Flushed(f, g), Settled(f, g),
           g.last_num = f.last_num \/ g.last_num = LastFile(f), Good(f)
    PROVE  /\ Good(g)
           /\ f.opened /\ Covered(f) => Covered(g)
<1>1. /\ g.file = f.file /\ g.stype = f.stype /\ g.opened = f.opened /\ g.list = f.list
      /\ FileNums(g) = FileNums(f)
      /\ \A rs : Right(f, rs) => Right(g, rs)
  BY SameFiles DEF SameMail
<1>2. CacheSound(g)
  BY FlushedSound DEF Good
<1>3. Numbered(g)
  <2>1. \A n \in FileNums(f) : n <= LastFile(f)
    BY LastFileIs
  <2> QED
    BY <1>1, <2>1 DEF Good, Numbered
<1>4. f.opened => g.cache_queue = f.cache_queue /\ g.mark_queue = f.mark_queue
  BY DEF Flushed, Settled
<1>5. Waiting(g)
  <2>1. f.opened => g.cache = f.cache
    BY DEF Flushed
  <2> QED
    BY <1>1, <1>4, <2>1 DEF Good, Waiting
<1>6. g.opened => RowsSound(g)
  BY <1>1, <1>4 DEF Good, RowsSound
<1>7. f.opened /\ Covered(f) => Covered(g)
  BY <1>1, <1>4 DEF Covered
<1> QED
  BY <1>1, <1>2, <1>3, <1>5, <1>6, <1>7 DEF Good

LEMMA AddedGood ==
    ASSUME NEW f \in FolderItems, NEW g \in FolderItems, NEW info, Added(f, g, info), f.last_num >= 0,
           Good(f), f.opened => g.mark_queue # <<>>
    PROVE  Good(g) /\ (Covered(f) => Covered(g))
<1>1. PICK n \in Nums : n = info.num
  BY DEF Added, MsgInfos
<1>2. PICK m \in Msgs : m = info.msg
  BY DEF Added, MsgInfos
<1>3. /\ m # None /\ n \in Int /\ \A k \in Nums : k \in Int
      /\ f.last_num \in Int
  BY NoneAssumption, NumsAre DEF FolderItems
<1>4. /\ f.file[n] = None /\ g.file[n] = m /\ \A k \in Nums : k # n => g.file[k] = f.file[k]
      /\ n > f.last_num /\ g.last_num = n
      /\ g.stype = f.stype /\ g.opened = f.opened /\ g.list = f.list /\ g.cache = f.cache
      /\ g.cache_queue = Append(f.cache_queue, info) /\ info \in MsgInfos
  BY <1>1, <1>2 DEF Added
<1>5. \A k : k \in FileNums(g) <=> k \in FileNums(f) \/ k = n
  BY <1>3, <1>4 DEF FileNums
<1>6. ASSUME NEW r, r.num \in Nums, r.msg \in Msgs, Sound(f, r)
      PROVE  Sound(g, r) /\ r.num # n
  <2>1. CASE f.file[r.num] = r.msg
    <3>1. r.num # n
      BY <1>4, <1>6, <2>1, NoneAssumption
    <3> QED
      BY <1>4, <1>6, <2>1, <3>1 DEF Sound
  <2>2. CASE f.stype = "F_DRAFT" /\ \E k \in FileNums(f) : r.num < k
    <3>1. PICK k \in FileNums(f) : r.num < k
      BY <2>2
    <3>2. k <= f.last_num /\ k \in Int
      BY <1>3, <2>2 DEF Good, Numbered, FileNums
    <3>3. r.num # n
      BY <1>3, <1>4, <1>6, <3>1, <3>2
    <3>4. k \in FileNums(g)
      BY <1>5
    <3> QED
      BY <1>4, <2>2, <3>1, <3>3, <3>4 DEF Sound
  <2> QED
    BY <1>6, <2>1, <2>2 DEF Sound
<1>7. ASSUME NEW rs, rs \in Seq(Headers) \/ rs \in Seq(MsgInfos), AllSound(f, rs)
      PROVE  AllSound(g, rs) /\ n \notin NumsOf(rs)
  <2>1. \A i \in 1..Len(rs) : rs[i].num \in Nums /\ rs[i].msg \in Msgs
    <3>1. CASE rs \in Seq(Headers)
      <4>1. \A i \in 1..Len(rs) : rs[i] \in Headers
        BY <3>1
      <4> QED
        BY <4>1 DEF Headers
    <3>2. CASE rs \in Seq(MsgInfos)
      <4>1. \A i \in 1..Len(rs) : rs[i] \in MsgInfos
        BY <3>2
      <4> QED
        BY <4>1 DEF MsgInfos
    <3> QED
      BY <1>7, <3>1, <3>2
  <2>2. \A i \in 1..Len(rs) : Sound(g, rs[i]) /\ rs[i].num # n
    BY <1>6, <1>7, <2>1 DEF AllSound
  <2>3. \A k : k \in NumsOf(rs) <=> \E i \in 1..Len(rs) : rs[i].num = k
    BY <1>7, NumsOfIs
  <2> QED
    BY <2>2, <2>3 DEF AllSound
<1>8. PICK rs \in Seq(Headers) : rs = f.cache.recs
  BY DEF FolderItems, Written
<1>9. PICK q \in Seq(MsgInfos) : q = f.cache_queue
  BY DEF FolderItems
<1>10. PICK t : t = Append(q, info)
  OBVIOUS
<1>11. /\ t \in Seq(MsgInfos) /\ Len(q) \in Nat
       /\ \A i \in 1..Len(t) : (i \in 1..Len(q) /\ t[i] = q[i]) \/ (i = Len(t) /\ t[i] = info)
       /\ \A k : k \in NumsOf(t) <=> k \in NumsOf(q) \/ k = n
  <2>1. info \in MsgInfos
    BY <1>4
  <2>2. t \in Seq(MsgInfos) /\ Len(q) \in Nat
    BY <1>10, <2>1, AppendIs
  <2>3. \A i \in 1..Len(t) : (i \in 1..Len(q) /\ t[i] = q[i]) \/ (i = Len(t) /\ t[i] = info)
    BY <1>10, <2>1, AppendIs
  <2>4. \A k : k \in NumsOf(t) <=> k \in NumsOf(q) \/ k = info.num
    BY <1>10, <2>1, AppendIs
  <2> QED
    BY <1>1, <2>2, <2>3, <2>4
<1>12. Distinct(q) /\ n \notin NumsOf(q) => Distinct(t)
  <2>1. info \in MsgInfos
    BY <1>4
  <2>2. Distinct(q) /\ info.num \notin NumsOf(q) => Distinct(t)
    BY <1>10, <2>1, AppendIs, ZenonT(60)
  <2> QED
    BY <1>1, <2>2
<1>13. g.cache_queue = t /\ g.cache.recs = rs
  BY <1>4, <1>8, <1>9, <1>10
<1>14. CacheSound(g)
  <2>1. Distinct(rs) /\ Distinct(q) /\ Apart(rs, q) /\ AllSound(f, rs) /\ AllSound(f, q)
    BY <1>8, <1>9 DEF Good, CacheSound
  <2>2. AllSound(g, rs) /\ AllSound(g, q) /\ n \notin NumsOf(rs) /\ n \notin NumsOf(q)
    BY <1>7, <2>1
  <2>3. Distinct(t)
    BY <1>12, <2>1, <2>2
  <2>4. Apart(rs, t)
    BY <1>11, <2>1, <2>2 DEF Apart
  <2>5. Sound(g, info)
    BY <1>1, <1>2, <1>4 DEF Sound
  <2>6. AllSound(g, t)
    BY <1>11, <2>2, <2>5 DEF AllSound
  <2> QED
    BY <1>13, <2>1, <2>2, <2>3, <2>4, <2>6 DEF CacheSound
<1>15. Numbered(g)
  <2>1. ASSUME f.stype = "F_DRAFT", NEW k \in FileNums(g) PROVE k <= n
    <3>1. k = n \/ (k \in FileNums(f) /\ k \in Int /\ k <= f.last_num)
      BY <1>3, <1>5, <2>1 DEF Good, Numbered, FileNums
    <3> QED
      BY <1>3, <1>4, <3>1
  <2> QED
    BY <1>4, <2>1 DEF Numbered
<1>16. ASSUME f.opened PROVE RowsSound(g)
  <2>1. PICK l \in Seq(MsgInfos) : l = f.list
    BY DEF FolderItems
  <2>2. Distinct(l) /\ Apart(l, q) /\ Right(f, l) /\ Right(f, q)
    BY <1>9, <1>16, <2>1 DEF Good, RowsSound
  <2>3. ASSUME NEW s \in Seq(MsgInfos), Right(f, s) PROVE Right(g, s) /\ n \notin NumsOf(s)
    <3>1. \A i \in 1..Len(s) : s[i] \in MsgInfos /\ s[i].num \in Nums /\ s[i].msg \in Msgs
      <4>1. \A i \in 1..Len(s) : s[i] \in MsgInfos
        OBVIOUS
      <4> QED
        BY <4>1 DEF MsgInfos
    <3>2. \A i \in 1..Len(s) : s[i].num # n
      BY <1>4, <2>3, <3>1, NoneAssumption DEF Right
    <3>3. Right(g, s)
      BY <1>4, <2>3, <3>1, <3>2 DEF Right
    <3>4. \A k : k \in NumsOf(s) <=> \E i \in 1..Len(s) : s[i].num = k
      BY NumsOfIs
    <3> QED
      BY <3>2, <3>3, <3>4
  <2>4. Right(g, l) /\ Right(g, q) /\ n \notin NumsOf(l)
    BY <2>2, <2>3
  <2>5. Apart(l, t)
    BY <1>11, <2>2, <2>4 DEF Apart
  <2>6. Right(g, t)
    <3>1. ASSUME NEW i \in 1..Len(t) PROVE g.file[t[i].num] = t[i].msg
      BY <1>1, <1>2, <1>4, <1>11, <2>4 DEF Right
    <3> QED
      BY <3>1 DEF Right
  <2> QED
    BY <1>4, <1>13, <2>1, <2>2, <2>4, <2>5, <2>6 DEF RowsSound
<1>17. Covered(f) => Covered(g)
  <2>1. SUFFICES ASSUME Covered(f), NEW k \in FileNums(g)
                 PROVE k \in NumsOf(g.list) \/ k \in NumsOf(g.cache_queue)
    BY DEF Covered
  <2> QED
    BY <1>4, <1>5, <1>9, <1>11, <1>13, <2>1 DEF Covered
<1>18. Waiting(g) /\ (~g.opened => g.list = <<>>)
  BY <1>4 DEF Waiting, Good
<1> QED
  BY <1>4, <1>14, <1>15, <1>16, <1>17, <1>18 DEF Good

-----------------------------------------------------------------------------
\* Messages that are added together.

\* g is f with the first i of the messages rs.
Grown(f, g, rs, i) ==
    /\ g.stype = f.stype /\ g.opened = f.opened /\ g.list = f.list
    /\ \A k \in FileNums(f) : g.file[k] = f.file[k]
    /\ \A j \in 1..i : \E k \in FileNums(g) : g.file[k] = rs[j].msg
    /\ g.last_num >= f.last_num
    /\ i # 0 => /\ g.last_num > f.last_num /\ g.last_num \in Nums /\ ~g.fresh
                /\ f.file[g.last_num] = None /\ g.file[g.last_num] = rs[i].msg
                /\ g.last_num \in FileNums(g)

LEMMA GrownStep ==
    ASSUME NEW f \in FolderItems, NEW g \in FolderItems, NEW h \in FolderItems, NEW rs, NEW i \in Nat,
           Grown(f, g, rs, i), NEW info, Added(g, h, info), info.msg = rs[i + 1].msg
    PROVE  Grown(f, h, rs, i + 1)
<1>1. PICK n \in Nums : n = info.num
  BY DEF Added, MsgInfos
<1>2. PICK m \in Msgs : m = info.msg
  BY DEF Added, MsgInfos
<1>3. /\ m # None /\ n \in Int /\ f.last_num \in Int /\ g.last_num \in Int
  BY NoneAssumption, NumsAre DEF FolderItems
<1>4. /\ g.file[n] = None /\ h.file[n] = m /\ \A k \in Nums : k # n => h.file[k] = g.file[k]
      /\ n > g.last_num /\ h.last_num = n /\ ~h.fresh
      /\ h.stype = g.stype /\ h.opened = g.opened /\ h.list = g.list
  BY <1>1, <1>2 DEF Added
<1>5. \A k : k \in FileNums(h) <=> k \in FileNums(g) \/ k = n
  BY <1>3, <1>4 DEF FileNums
<1>6. n \notin FileNums(g) /\ FileNums(g) \in SUBSET Nums
  BY <1>4 DEF FileNums
<1>7. n \notin FileNums(f)
  <2>1. SUFFICES ASSUME n \in FileNums(f) PROVE FALSE
    OBVIOUS
  <2>2. g.file[n] = f.file[n] /\ f.file[n] # None
    BY <2>1 DEF Grown, FileNums
  <2> QED
    BY <1>4, <2>2
<1>8. f.file[n] = None
  BY <1>7 DEF FileNums
<1>9. ASSUME NEW k \in FileNums(f) PROVE h.file[k] = f.file[k]
  <2>1. k \in Nums /\ k # n /\ g.file[k] = f.file[k]
    BY <1>7, <1>9 DEF Grown, FileNums
  <2> QED
    BY <1>4, <2>1
<1>10. ASSUME NEW j \in 1..(i + 1) PROVE \E k \in FileNums(h) : h.file[k] = rs[j].msg
  <2>1. CASE j = i + 1
    BY <1>2, <1>4, <1>5, <2>1
  <2>2. CASE j # i + 1
    <3>1. j \in 1..i
      BY <2>2
    <3>2. PICK k \in FileNums(g) : g.file[k] = rs[j].msg
      BY <3>1 DEF Grown
    <3> QED
      BY <1>4, <1>5, <1>6, <3>2
  <2> QED
    BY <2>1, <2>2
<1>11. h.last_num > f.last_num /\ h.last_num >= f.last_num /\ h.last_num \in FileNums(h)
  BY <1>3, <1>4, <1>5 DEF Grown
<1>12. h.file[h.last_num] = rs[i + 1].msg
  BY <1>2, <1>4
<1>13. h.stype = f.stype /\ h.opened = f.opened /\ h.list = f.list
  BY <1>4 DEF Grown
<1> QED
  BY <1>4, <1>8, <1>9, <1>10, <1>11, <1>12, <1>13 DEF Grown

\* One, of what is added, is Added.
LEMMA OneIs ==
    ASSUME NEW by \in {"adding", "moving"}, NEW f \in FolderItems, f.last_num >= 0, Free(f) # {},
           NEW r \in Incoming, NEW g, g = One(by, f, r)
    PROVE  /\ g \in FolderItems
           /\ f.opened => g.mark_queue # <<>>
           /\ \E info : Added(f, g, info) /\ info.msg = r.msg
<1>1. CASE by = "adding"
  <2>1. g = AddOne(f, r)
    BY <1>1 DEF One
  <2> QED
    BY <2>1, AddOneIs
<1>2. CASE by = "moving"
  <2>1. g = PutQueued(f, r)
    BY <1>2 DEF One
  <2> QED
    BY <2>1, PutQueuedIs
<1> QED
  BY <1>1, <1>2

LEMMA AddedAll ==
    ASSUME NEW by \in {"adding", "moving"}, NEW f \in FolderItems, f.last_num >= 0, Good(f),
           NEW rs \in Seq(Incoming), Cardinality(Free(f)) >= Len(rs),
           NEW w, Trace(by, f, rs, w), NEW i \in 0..Len(rs)
    PROVE  /\ w[i] \in FolderItems /\ w[i].last_num >= 0 /\ Grown(f, w[i], rs, i) /\ Good(w[i])
           /\ Cardinality(Free(w[i])) >= Len(rs) - i
           /\ Covered(f) => Covered(w[i])
<1>1. PICK n \in Nat : n = Len(rs)
  OBVIOUS
<1> DEFINE Fine(j) == /\ w[j] \in FolderItems /\ w[j].last_num >= 0
                      /\ Grown(f, w[j], rs, j) /\ Good(w[j])
                      /\ Cardinality(Free(w[j])) >= n - j
                      /\ Covered(f) => Covered(w[j])
           U == {j \in Nat : j > n \/ Fine(j)}
<1>2. \A j \in 1..n : w[j] = One(by, w[j - 1], rs[j]) /\ rs[j] \in Incoming
  BY <1>1 DEF Trace
<1>3. w[0] = f
  BY DEF Trace
<1>4. \A g \in FolderItems : Cardinality(Free(g)) \in Nat /\ g.last_num \in Int
  <2>1. \A g : Free(g) \in SUBSET Nums
    BY DEF Free
  <2>2. \A g : Cardinality(Free(g)) \in Nat
    BY <2>1, NumsAre
  <2> QED
    BY <2>2, SMTT(30) DEF FolderItems
<1>5. Fine(0)
  <2>1. Grown(f, f, rs, 0)
    BY <1>4 DEF Grown
  <2> QED
    BY <1>1, <1>3, <1>4, <2>1
<1>6. ASSUME NEW j \in Nat, j < n, Fine(j) PROVE Fine(j + 1)
  <2>1. PICK g \in FolderItems : g = w[j]
    BY <1>6
  <2>2. PICK h : h = w[j + 1]
    OBVIOUS
  <2>3. PICK r \in Incoming : r = rs[j + 1]
    BY <1>2, <1>6
  <2>4. h = One(by, g, r)
    BY <1>2, <1>6, <2>1, <2>2, <2>3
  <2>5. Free(g) # {}
    <3>1. Cardinality(Free(g)) # 0
      BY <1>4, <1>6, <2>1
    <3> QED
      BY <3>1, FS_EmptySet
  <2>6. g.last_num >= 0 /\ Good(g) /\ Grown(f, g, rs, j)
    BY <1>6, <2>1
  <2>7. h \in FolderItems
    BY <2>4, <2>5, <2>6, OneIs
  <2>8. g.opened => h.mark_queue # <<>>
    BY <2>4, <2>5, <2>6, OneIs
  <2>9. PICK info : Added(g, h, info) /\ info.msg = r.msg
    BY <2>4, <2>5, <2>6, OneIs
  <2>10. Good(h)
    BY <2>6, <2>7, <2>8, <2>9, AddedGood
  <2>11. Covered(g) => Covered(h)
    BY <2>6, <2>7, <2>8, <2>9, AddedGood
  <2>12. Grown(f, h, rs, j + 1)
    BY <2>3, <2>6, <2>7, <2>9, GrownStep
  <2>13. h.last_num >= 0
    BY <1>4, <2>6, <2>7, <2>9 DEF Added
  <2>14. Cardinality(Free(h)) >= n - (j + 1)
    BY <1>4, <1>6, <2>1, <2>7, <2>9 DEF Added
  <2> QED
    BY <1>6, <2>1, <2>2, <2>7, <2>10, <2>11, <2>12, <2>13, <2>14
<1> HIDE DEF Fine
<1>7. 0 \in U
  BY <1>5
<1>8. \A j \in U : j + 1 \in U
  <2> SUFFICES ASSUME NEW j \in U PROVE j + 1 \in U
    OBVIOUS
  <2>1. j \in Nat /\ (j > n \/ Fine(j))
    OBVIOUS
  <2>2. j + 1 > n \/ (j < n /\ Fine(j))
    BY <2>1
  <2>3. j + 1 > n \/ Fine(j + 1)
    BY <1>6, <2>1, <2>2
  <2> QED
    BY <2>1, <2>3
<1> HIDE DEF U
<1>9. U = Nat
  BY <1>7, <1>8, SetInduction DEF U
<1>10. Fine(i)
  BY <1>1, <1>9 DEF U
<1> QED
  BY <1>1, <1>10 DEF Fine

LEMMA GrownOn ==
    ASSUME NEW f \in FolderItems, NEW s \in FolderItems, NEW g \in FolderItems, NEW rs, NEW i \in Nat,
           SameMail(f, s), s.last_num >= f.last_num, Grown(s, g, rs, i)
    PROVE  Grown(f, g, rs, i)
<1>1. /\ s.file = f.file /\ s.stype = f.stype /\ s.opened = f.opened /\ s.list = f.list
      /\ FileNums(s) = FileNums(f)
  BY SameFiles DEF SameMail
<1>2. f.last_num \in Int /\ s.last_num \in Int /\ g.last_num \in Int
  BY NumsAre DEF FolderItems
<1>3. g.last_num >= f.last_num
  BY <1>2 DEF Grown
<1>4. i # 0 => g.last_num > f.last_num
  BY <1>2 DEF Grown
<1> QED
  BY <1>1, <1>3, <1>4 DEF Grown

LEMMA GrownThen ==
    ASSUME NEW f, NEW g, NEW h, NEW rs, NEW i \in Nat,
           SameMail(g, h), h.last_num = g.last_num, h.fresh => g.fresh, Grown(f, g, rs, i)
    PROVE  Grown(f, h, rs, i)
<1>1. h.file = g.file /\ h.stype = g.stype /\ h.opened = g.opened /\ h.list = g.list /\ FileNums(h) = FileNums(g)
  BY SameFiles DEF SameMail
<1>2. i # 0 => ~h.fresh
  BY DEF Grown
<1> QED
  BY <1>1, <1>2 DEF Grown

\* Nothing changes but the marks.
LEMMA MarksGood ==
    ASSUME NEW f, NEW g, SameMail(f, g), SameCache(f, g), SameSums(f, g), Good(f),
           g.mark_queue = f.mark_queue \/ f.cache_queue = <<>> \/ ~f.opened \/ g.mark_queue # <<>>
    PROVE  Good(g) /\ (Covered(f) => Covered(g))
<1>1. /\ g.file = f.file /\ g.stype = f.stype /\ g.opened = f.opened /\ g.list = f.list
      /\ g.cache = f.cache /\ g.cache_queue = f.cache_queue /\ g.last_num = f.last_num
      /\ FileNums(g) = FileNums(f)
      /\ \A rs : Right(f, rs) => Right(g, rs)
      /\ \A rs : AllSound(f, rs) => AllSound(g, rs)
  BY SameFiles DEF SameMail, SameCache, SameSums
<1>2. CacheSound(g)
  BY <1>1 DEF Good, CacheSound
<1>3. g.opened => RowsSound(g)
  BY <1>1 DEF Good, RowsSound
<1>4. Numbered(g) /\ Waiting(g)
  BY <1>1 DEF Good, Numbered, Waiting
<1>5. Covered(f) => Covered(g)
  BY <1>1 DEF Covered
<1> QED
  BY <1>1, <1>2, <1>3, <1>4, <1>5 DEF Good

\* Room for n messages.
LEMMA RoomIs ==
    ASSUME NEW f \in FolderItems, NEW s, s = Scanned(f), NEW n \in Nat, HasRoom(f, n)
    PROVE  Cardinality(Free(s)) >= n
<1>1. s.file = f.file
  BY ScannedIs DEF SameMail
<1>2. {k \in Nums : k > Scanned(f).last_num /\ f.file[k] = None} = Free(s)
  BY <1>1 DEF Free
<1> QED
  BY <1>2 DEF HasRoom

LEMMA ScannedGood ==
    ASSUME NEW f \in FolderItems, Good(f), NEW s, s = Scanned(f)
    PROVE  /\ s \in FolderItems /\ SameMail(f, s) /\ Good(s)
           /\ s.last_num >= 0 /\ s.last_num >= f.last_num
           /\ s.fresh => f.fresh
           /\ f.opened /\ Covered(f) => Covered(s)
<1>1. /\ s \in FolderItems /\ SameMail(f, s) /\ Flushed(f, s) /\ Settled(f, s)
      /\ s.last_num >= 0
      /\ s.fresh => f.fresh
      /\ s.last_num = IF f.last_num < 0 THEN LastFile(f) ELSE f.last_num
  BY ScannedIs
<1>2. f.last_num \in Int /\ s.last_num \in Int
  BY <1>1, NumsAre DEF FolderItems
<1>3. s.last_num >= f.last_num
  BY <1>1, <1>2
<1>4. Good(s)
  BY <1>1, CountedGood
<1>5. f.opened /\ Covered(f) => Covered(s)
  BY <1>1, CountedGood
<1> QED
  BY <1>1, <1>3, <1>4, <1>5

LEMMA AddMsgsIs ==
    ASSUME NEW f \in FolderItems, Good(f), NEW rs \in Seq(Incoming), NEW n \in Nat, n = Len(rs),
           HasRoom(f, n), NEW g, g = AddMsgs(f, rs)
    PROVE  /\ g \in FolderItems /\ Good(g) /\ Grown(f, g, rs, n) /\ g.last_num >= 0
           /\ f.opened /\ Covered(f) => Covered(g)
<1>1. PICK s : s = Scanned(f)
  OBVIOUS
<1>2. /\ s \in FolderItems /\ SameMail(f, s) /\ Good(s)
      /\ s.last_num >= 0 /\ s.last_num >= f.last_num
      /\ f.opened /\ Covered(f) => Covered(s)
  BY <1>1, ScannedGood
<1>3. PICK p : p = IF s.opened THEN s ELSE AppendMarks(s, <<>>)
  OBVIOUS
<1>4. /\ p \in FolderItems /\ SameMail(s, p) /\ p.last_num = s.last_num /\ Good(p)
      /\ Covered(s) => Covered(p)
  <2>1. CASE s.opened
    BY <1>2, <1>3, <2>1 DEF SameMail
  <2>2. CASE ~s.opened
    <3>0. <<>> \in Seq(Marks)
      OBVIOUS
    <3>1. PICK e \in Seq(Marks) : e = <<>>
      BY <3>0
    <3>2. p = AppendMarks(s, e)
      BY <1>3, <2>2, <3>1
    <3>3. /\ p \in FolderItems /\ SameMail(s, p) /\ SameCache(s, p) /\ SameSums(s, p)
          /\ p.mark_queue = s.mark_queue
      BY <1>2, <3>2, AppendMarksIs
    <3>4. Good(p) /\ (Covered(s) => Covered(p))
      BY <1>2, <3>3, MarksGood
    <3> QED
      BY <3>3, <3>4 DEF SameSums
  <2> QED
    BY <2>1, <2>2
<1>5. Cardinality(Free(p)) >= Len(rs) /\ p.last_num >= 0 /\ p.last_num >= f.last_num
  <2>1. Cardinality(Free(s)) >= n
    BY <1>1, RoomIs
  <2>2. Free(p) = Free(s)
    BY <1>4 DEF Free, SameMail
  <2> QED
    BY <1>2, <1>4, <2>1, <2>2
<1>6. PICK w : Trace("adding", p, rs, w) /\ w[n] = FoldLeft(AddOne, p, rs)
  <2>1. DOMAIN rs = 1..n
    OBVIOUS
  <2> QED
    BY <2>1, AddingFold
<1>7. g = w[n]
  BY <1>1, <1>3, <1>6 DEF AddMsgs
<1>8. /\ w[n] \in FolderItems /\ w[n].last_num >= 0 /\ Grown(p, w[n], rs, n) /\ Good(w[n])
      /\ Covered(p) => Covered(w[n])
  <2>1. n \in 0..Len(rs)
    OBVIOUS
  <2> QED
    BY <1>4, <1>5, <1>6, <2>1, AddedAll
<1>9. SameMail(f, p)
  BY <1>2, <1>4 DEF SameMail
<1>10. Grown(f, g, rs, n)
  BY <1>4, <1>5, <1>7, <1>8, <1>9, GrownOn
<1> QED
  BY <1>2, <1>4, <1>7, <1>8, <1>10

LEMMA FlushMarksGood ==
    ASSUME NEW f \in FolderItems, Good(f), ~f.opened, NEW g, g = FlushCacheQueue(FlushMarkQueue(f))
    PROVE  /\ g \in FolderItems /\ Good(g) /\ SameMail(f, g) /\ SameSums(f, g)
           /\ g.fresh => f.fresh
<1>1. PICK h : h = FlushMarkQueue(f)
  OBVIOUS
<1>2. /\ h \in FolderItems /\ SameMail(f, h) /\ SameCache(f, h) /\ SameSums(f, h)
      /\ h.fresh => f.fresh
  <2>1. h \in FolderItems /\ SameMail(f, h) /\ SameCache(f, h) /\ SameSums(f, h)
    BY <1>1, FlushMarkQueueIs
  <2>2. h.fresh => f.fresh
    BY <1>1, FlushMarkQueueIs
  <2> QED
    BY <2>1, <2>2
<1>3. Good(h) /\ ~h.opened
  BY <1>2, MarksGood DEF SameMail
<1>4. g = FlushCacheQueue(h)
  BY <1>1
<1>5. g \in FolderItems /\ SameMail(h, g) /\ SameMarks(h, g) /\ SameSums(h, g)
  BY <1>2, <1>4, FlushCacheQueueIs
<1>6. g.fresh => h.fresh
  BY <1>2, <1>4, FlushCacheQueueIs
<1>7. Flushed(h, g) /\ Settled(h, g)
  BY <1>2, <1>3, <1>4, <1>5, FlushedIs DEF Settled, SameMarks
<1>8. Good(g)
  BY <1>2, <1>3, <1>5, <1>7, CountedGood DEF SameSums
<1> QED
  BY <1>2, <1>5, <1>6, <1>8 DEF SameMail, SameSums

LEMMA MoveMsgsIs ==
    ASSUME NEW f \in FolderItems, Good(f), NEW rs \in Seq(Incoming), NEW n \in Nat, n = Len(rs),
           HasRoom(f, n), NEW g, g = MoveMsgs(f, rs)
    PROVE  /\ g \in FolderItems /\ Good(g) /\ Grown(f, g, rs, n)
           /\ f.opened /\ Covered(f) => Covered(g)
<1>1. PICK s : s = Scanned(f)
  OBVIOUS
<1>2. /\ s \in FolderItems /\ SameMail(f, s) /\ Good(s)
      /\ s.last_num >= 0 /\ s.last_num >= f.last_num
      /\ f.opened /\ Covered(f) => Covered(s)
  BY <1>1, ScannedGood
<1>3. Cardinality(Free(s)) >= Len(rs)
  BY <1>1, RoomIs
<1>4. PICK w : Trace("moving", s, rs, w) /\ w[n] = FoldLeft(PutQueued, s, rs)
  <2>1. DOMAIN rs = 1..n
    OBVIOUS
  <2> QED
    BY <2>1, MovingFold
<1>5. PICK p : p = w[n]
  OBVIOUS
<1>6. /\ p \in FolderItems /\ Grown(s, p, rs, n) /\ Good(p)
      /\ Covered(s) => Covered(p)
  <2>1. n \in 0..Len(rs)
    OBVIOUS
  <2> QED
    BY <1>2, <1>3, <1>4, <1>5, <2>1, AddedAll
<1>7. Grown(f, p, rs, n)
  BY <1>2, <1>6, GrownOn
<1>8. g = IF p.opened THEN p ELSE FlushCacheQueue(FlushMarkQueue(p))
  BY <1>1, <1>4, <1>5 DEF MoveMsgs
<1>9. CASE p.opened
  BY <1>2, <1>6, <1>7, <1>8, <1>9
<1>10. CASE ~p.opened
  <2>1. /\ g \in FolderItems /\ Good(g) /\ SameMail(p, g) /\ SameSums(p, g)
        /\ g.fresh => p.fresh
    BY <1>6, <1>8, <1>10, FlushMarksGood
  <2>2. Grown(f, g, rs, n)
    BY <1>7, <2>1, GrownThen DEF SameSums
  <2>3. ~f.opened
    BY <1>7, <1>10 DEF Grown
  <2> QED
    BY <2>1, <2>2, <2>3
<1> QED
  BY <1>9, <1>10

-----------------------------------------------------------------------------
\* Writing what the summary shows.

\* The cache file can be trusted as it is.
Trusted(f) ==
    /\ f.cache_queue = <<>> /\ ~f.cache_dirty
    /\ f.cache.state = "ok" /\ f.cache.recs # <<>> =>
          NumsOf(f.cache.recs) = FileNums(f) /\ Right(f, f.cache.recs)

LEMMA SameTrusted ==
    ASSUME NEW f, NEW g, Trusted(f), g.file = f.file, g.stype = f.stype, g.cache = f.cache,
           g.cache_queue = f.cache_queue, ~g.cache_dirty
    PROVE  Trusted(g)
<1>1. FileNums(g) = FileNums(f) /\ \A rs : Right(f, rs) => Right(g, rs)
  BY SameFiles
<1> QED
  BY <1>1 DEF Trusted

LEMMA FlushedTrusted ==
    ASSUME NEW f, NEW g, Trusted(f), SameMail(f, g), Flushed(f, g)
    PROVE  Trusted(g)
<1>1. f.cache_queue = <<>> /\ ~f.cache_dirty
  BY DEF Trusted
<1>2. g.cache = f.cache /\ g.cache_queue = f.cache_queue /\ ~g.cache_dirty
  BY <1>1 DEF Flushed
<1> QED
  BY <1>2, SameTrusted DEF SameMail

Clean(f) == [f EXCEPT !.cache_dirty = FALSE, !.mark_dirty = FALSE]

LEMMA SetClean ==
    ASSUME NEW f \in FolderItems, NEW g, g = Clean(f)
    PROVE  /\ g \in FolderItems /\ SameMail(f, g) /\ SameSums(f, g)
           /\ g.cache = f.cache /\ g.cache_queue = f.cache_queue /\ ~g.cache_dirty
           /\ g.marks = f.marks /\ g.mark_queue = f.mark_queue /\ ~g.mark_dirty
           /\ g.fresh => f.fresh
<1>1. g \in FolderItems
  BY DEF FolderItems, Clean
<1> QED
  BY <1>1 DEF FolderItems, SameMail, SameSums, Clean

LEMMA WriteCacheIs ==
    ASSUME NEW f \in FolderItems, NEW g, g = WriteCache(f)
    PROVE  /\ g \in FolderItems /\ SameMail(f, g) /\ SameSums(f, g)
           /\ g.fresh => f.fresh
           /\ ~g.cache_dirty /\ ~g.mark_dirty /\ g.mark_queue = <<>>
           /\ IF MarksPending(f)
              THEN /\ g.marks.state = "ok" /\ g.marks.recs = Joined(MarksOf(f.list), f.mark_queue)
                   /\ g.cache_queue = <<>>
              ELSE g = f
           /\ \/ /\ f.mark_queue = <<>> /\ ~f.cache_dirty
                 /\ g.cache = f.cache /\ g.cache_queue = f.cache_queue
              \/ /\ g.cache_queue = <<>>
                 /\ ~f.cache_dirty /\ f.cache_queue = <<>> => g.cache = f.cache
                 /\ \/ g.cache.recs = <<>>
                    \/ g.cache.recs = Joined(IF f.cache_dirty THEN HeadersOf(f.list) ELSE f.cache.recs,
                                             HeadersOf(f.cache_queue))
<1>0. f.list \in Seq(MsgInfos) /\ f.mark_queue \in Seq(Marks) /\ f.cache_queue \in Seq(MsgInfos)
  BY DEF FolderItems
<1>1. CASE ~MarksPending(f)
  <2>1. g = f
    BY <1>1 DEF WriteCache
  <2> QED
    BY <1>0, <1>1, <2>1 DEF MarksPending, SameMail, SameSums
<1>2. CASE MarksPending(f)
  <2>1. PICK a : a = IF f.cache_dirty THEN WriteCacheData(f, HeadersOf(f.list)) ELSE f
    OBVIOUS
  <2>2. /\ a \in FolderItems /\ SameMail(f, a) /\ SameSums(f, a) /\ a.cache_queue = f.cache_queue
        /\ a.fresh => f.fresh
        /\ a.cache.recs = IF f.cache_dirty THEN HeadersOf(f.list) ELSE f.cache.recs
        /\ ~f.cache_dirty => a.cache = f.cache
    <3>1. CASE f.cache_dirty
      <4>1. HeadersOf(f.list) \in Seq(Headers)
        BY <1>0, HeadersTypes
      <4>2. PICK hs \in Seq(Headers) : hs = HeadersOf(f.list)
        BY <4>1
      <4>3. a = WriteCacheData(f, hs)
        BY <2>1, <3>1, <4>2
      <4>4. /\ a \in FolderItems /\ SameMail(f, a) /\ SameSums(f, a)
            /\ a.cache_queue = f.cache_queue /\ a.cache.state = "ok" /\ a.cache.recs = hs
        BY <4>3, WriteCacheDataIs
      <4>5. a.fresh => f.fresh
        BY <4>3, WriteCacheDataIs
      <4> QED
        BY <3>1, <4>2, <4>4, <4>5
    <3>2. CASE ~f.cache_dirty
      BY <2>1, <3>2 DEF SameMail, SameSums
    <3> QED
      BY <3>1, <3>2
  <2>3. PICK b : b = FlushCacheQueue(a)
    OBVIOUS
  <2>4. /\ b \in FolderItems /\ SameMail(a, b) /\ SameSums(a, b) /\ b.cache_queue = <<>>
        /\ b.cache.recs = <<>> \/ b.cache.recs = Joined(a.cache.recs, HeadersOf(a.cache_queue))
    <3>1. /\ b \in FolderItems /\ SameMail(a, b) /\ SameSums(a, b) /\ b.cache_queue = <<>>
          /\ IF a.cache_queue = <<>> THEN b.cache = a.cache
             ELSE Extended(a, b, HeadersOf(a.cache_queue))
      BY <2>2, <2>3, FlushCacheQueueIs
    <3>2. a.cache_queue = <<>> => b.cache.recs = Joined(a.cache.recs, HeadersOf(a.cache_queue))
      <4>1. a.cache.recs \in Seq(Headers)
        BY <2>2 DEF FolderItems, Written
      <4> QED
        BY <3>1, <4>1, ConcatEmptySeq, EmptyIs DEF Joined
    <3> QED
      BY <3>1, <3>2 DEF Extended
  <2>5. b.fresh => a.fresh
    BY <2>2, <2>3, FlushCacheQueueIs
  <2>6. a.cache_queue = <<>> => b.cache = a.cache
    BY <2>3 DEF FlushCacheQueue
  <2>7. PICK ms \in Seq(Marks) : ms = MarksOf(f.list)
    <3>1. MarksOf(f.list) \in Seq(Marks)
      BY <1>0, MarksTypes
    <3> QED
      BY <3>1
  <2>8. PICK c : c = WriteMarks(b, ms)
    OBVIOUS
  <2>9. c \in FolderItems /\ SameMail(b, c) /\ SameCache(b, c) /\ SameSums(b, c)
    BY <2>4, <2>8, WriteMarksIs
  <2>90. c.marks.state = "ok" /\ c.marks.recs = ms /\ c.mark_queue = f.mark_queue
    <3>1. a.mark_queue = f.mark_queue
      BY <2>1 DEF WriteCacheData, FolderItems
    <3>2. b.mark_queue = a.mark_queue
      BY <2>2, <2>3, FlushCacheQueueIs DEF SameMarks
    <3> QED
      BY <3>1, <3>2, <2>4, <2>8, WriteMarksIs
  <2>10. c.fresh => b.fresh
    BY <2>4, <2>8, WriteMarksIs
  <2>11. PICK d : d = FlushMarkQueue(c)
    OBVIOUS
  <2>12. d \in FolderItems /\ SameMail(c, d) /\ SameCache(c, d) /\ SameSums(c, d) /\ d.mark_queue = <<>>
    BY <2>9, <2>11, FlushMarkQueueIs
  <2>13. d.fresh => c.fresh
    BY <2>9, <2>11, FlushMarkQueueIs
  <2>130. d.marks.state = "ok" /\ d.marks.recs = Joined(ms, f.mark_queue)
    BY <2>9, <2>90, <2>11, FlushMarkQueueIs
  <2>14. g = Clean(d)
    BY <1>2, <2>1, <2>3, <2>7, <2>8, <2>11 DEF WriteCache, Clean
  <2>15. /\ g \in FolderItems /\ SameMail(d, g) /\ SameSums(d, g)
         /\ g.cache = d.cache /\ g.cache_queue = d.cache_queue /\ ~g.cache_dirty
         /\ g.mark_queue = d.mark_queue /\ ~g.mark_dirty /\ g.marks = d.marks
    BY <2>12, <2>14, SetClean
  <2>16. g.fresh => d.fresh
    BY <2>12, <2>14, SetClean
  <2>17. SameMail(f, g) /\ SameSums(f, g)
    BY <2>2, <2>4, <2>9, <2>12, <2>15 DEF SameMail, SameSums
  <2>18. g.fresh => f.fresh
    BY <2>2, <2>5, <2>10, <2>13, <2>16
  <2>19. g.cache = b.cache /\ g.cache_queue = <<>> /\ g.mark_queue = <<>>
    BY <2>4, <2>9, <2>12, <2>15 DEF SameCache
  <2>20. \/ g.cache.recs = <<>>
         \/ g.cache.recs = Joined(IF f.cache_dirty THEN HeadersOf(f.list) ELSE f.cache.recs,
                                  HeadersOf(f.cache_queue))
    BY <2>2, <2>4, <2>19
  <2>22. ~f.cache_dirty /\ f.cache_queue = <<>> => g.cache = f.cache
    BY <2>2, <2>6, <2>19
  <2>23. g.marks.state = "ok" /\ g.marks.recs = Joined(MarksOf(f.list), f.mark_queue)
    BY <2>7, <2>130, <2>15
  <2> QED
    BY <1>2, <2>23, <2>15, <2>17, <2>18, <2>19, <2>20, <2>22
<1> QED
  BY <1>1, <1>2

LEMMA WriteCacheSound ==
    ASSUME NEW f \in FolderItems, CacheSound(f), Waiting(f), f.opened,
           Distinct(f.list), Apart(f.list, f.cache_queue), AllSound(f, f.list),
           NEW g, g = WriteCache(f)
    PROVE  /\ g \in FolderItems /\ SameMail(f, g) /\ SameSums(f, g) /\ CacheSound(g)
           /\ g.fresh => f.fresh
           /\ ~g.cache_dirty /\ ~g.mark_dirty /\ g.mark_queue = <<>> /\ g.cache_queue = <<>>
           /\ Trusted(f) => Trusted(g)
<1>1. /\ g \in FolderItems /\ SameMail(f, g) /\ SameSums(f, g)
      /\ ~g.cache_dirty /\ ~g.mark_dirty /\ g.mark_queue = <<>>
  BY WriteCacheIs
<1>2. g.fresh => f.fresh
  BY WriteCacheIs
<1>3. \/ /\ f.mark_queue = <<>> /\ ~f.cache_dirty
         /\ g.cache = f.cache /\ g.cache_queue = f.cache_queue
      \/ /\ g.cache_queue = <<>>
         /\ ~f.cache_dirty /\ f.cache_queue = <<>> => g.cache = f.cache
         /\ \/ g.cache.recs = <<>>
            \/ g.cache.recs = Joined(IF f.cache_dirty THEN HeadersOf(f.list) ELSE f.cache.recs,
                                     HeadersOf(f.cache_queue))
  BY WriteCacheIs
<1>4. f.mark_queue = <<>> => f.cache_queue = <<>>
  BY DEF Waiting
<1>5. g.cache_queue = <<>>
  BY <1>3, <1>4
<1>6. /\ g.file = f.file /\ g.stype = f.stype /\ g.opened = f.opened /\ g.list = f.list
      /\ FileNums(g) = FileNums(f) /\ g.last_num = f.last_num
      /\ \A rs : Right(f, rs) => Right(g, rs)
      /\ \A rs : AllSound(f, rs) => AllSound(g, rs)
  BY <1>1, SameFiles DEF SameMail, SameSums
<1>7. Distinct(g.cache.recs) /\ AllSound(g, g.cache.recs)
  <2>1. CASE g.cache = f.cache
    BY <1>6, <2>1 DEF CacheSound
  <2>2. CASE g.cache.recs = Joined(IF f.cache_dirty THEN HeadersOf(f.list) ELSE f.cache.recs,
                                   HeadersOf(f.cache_queue))
    <3>1. PICK l \in Seq(MsgInfos) : l = f.list
      BY DEF FolderItems
    <3>2. PICK rs \in Seq(Headers) : rs = f.cache.recs
      BY DEF FolderItems, Written
    <3>3. PICK q \in Seq(MsgInfos) : q = f.cache_queue
      BY DEF FolderItems
    <3>4. /\ Distinct(l) /\ Apart(l, q) /\ AllSound(f, l)
          /\ Distinct(rs) /\ Distinct(q) /\ Apart(rs, q) /\ AllSound(f, rs) /\ AllSound(f, q)
      BY <3>1, <3>2, <3>3 DEF CacheSound
    <3>6. PICK hl : hl = HeadersOf(l)
      OBVIOUS
    <3>7. PICK hq : hq = HeadersOf(q)
      OBVIOUS
    <3>8. hl \in Seq(Headers) /\ NumsOf(hl) = NumsOf(l) /\ Distinct(hl) /\ AllSound(f, hl)
      BY <3>1, <3>4, <3>6, HeadersOfIs
    <3>9. hq \in Seq(Headers) /\ NumsOf(hq) = NumsOf(q) /\ Distinct(hq) /\ AllSound(f, hq)
      BY <3>3, <3>4, <3>7, HeadersOfIs
    <3>10. PICK bs \in Seq(Headers) : bs = IF f.cache_dirty THEN hl ELSE rs
      BY <3>8
    <3>11. Distinct(bs) /\ AllSound(f, bs) /\ Apart(bs, hq)
      <4>1. Apart(hl, hq) /\ Apart(rs, hq)
        BY <3>4, <3>8, <3>9 DEF Apart
      <4> QED
        BY <3>4, <3>8, <3>10, <4>1
    <3>12. PICK t : t = Joined(bs, hq)
      OBVIOUS
    <3>13. Distinct(t)
      BY <3>9, <3>11, <3>12, JoinedIs
    <3>14. AllSound(f, t)
      BY <3>9, <3>11, <3>12, JoinedSound
    <3>15. g.cache.recs = t
      BY <2>2, <3>1, <3>2, <3>3, <3>6, <3>7, <3>10, <3>12
    <3> QED
      BY <1>6, <3>13, <3>14, <3>15
  <2>3. CASE g.cache.recs = <<>>
    BY <2>3, EmptyIs
  <2> QED
    BY <1>3, <2>1, <2>2, <2>3
<1>8. CacheSound(g)
  BY <1>5, <1>7, EmptyIs DEF CacheSound
<1>10. ASSUME Trusted(f) PROVE Trusted(g)
  <2>1. ~f.cache_dirty /\ f.cache_queue = <<>>
    BY <1>10 DEF Trusted
  <2>2. g.cache = f.cache /\ g.cache_queue = f.cache_queue
    BY <1>3, <1>5, <2>1
  <2> QED
    BY <1>1, <1>6, <1>10, <2>2, SameTrusted
<1> QED
  BY <1>1, <1>2, <1>5, <1>8, <1>10

LEMMA WriteCacheGood ==
    ASSUME NEW f \in FolderItems, Good(f), f.opened, NEW g, g = WriteCache(f)
    PROVE  /\ g \in FolderItems /\ SameMail(f, g) /\ SameSums(f, g) /\ Good(g)
           /\ g.fresh => f.fresh
           /\ ~g.cache_dirty /\ ~g.mark_dirty /\ g.mark_queue = <<>> /\ g.cache_queue = <<>>
           /\ Trusted(f) => Trusted(g)
           /\ Covered(f) /\ f.cache_queue = <<>> => Covered(g)
<1>1. Distinct(f.list) /\ Apart(f.list, f.cache_queue) /\ AllSound(f, f.list)
  BY DEF Good, RowsSound, AllSound, Sound, Right
<1>2. CacheSound(f) /\ Waiting(f)
  BY DEF Good
<1>3. /\ g \in FolderItems /\ SameMail(f, g) /\ SameSums(f, g) /\ CacheSound(g)
      /\ ~g.cache_dirty /\ ~g.mark_dirty /\ g.mark_queue = <<>> /\ g.cache_queue = <<>>
  BY <1>1, <1>2, WriteCacheSound
<1>4. g.fresh => f.fresh
  BY <1>1, <1>2, WriteCacheSound
<1>5. Trusted(f) => Trusted(g)
  BY <1>1, <1>2, WriteCacheSound
<1>6. /\ g.file = f.file /\ g.stype = f.stype /\ g.opened = f.opened /\ g.list = f.list
      /\ FileNums(g) = FileNums(f) /\ g.last_num = f.last_num
      /\ \A rs : Right(f, rs) => Right(g, rs)
  BY <1>3, SameFiles DEF SameMail, SameSums
<1>9. RowsSound(g)
  BY <1>3, <1>6, EmptyIs DEF Good, RowsSound
<1>10. Numbered(g) /\ Waiting(g)
  BY <1>3, <1>6 DEF Good, Numbered, Waiting
<1>11. Good(g)
  BY <1>3, <1>6, <1>9, <1>10 DEF Good
<1>13. Covered(f) /\ f.cache_queue = <<>> => Covered(g)
  BY <1>3, <1>6 DEF Covered
<1> QED
  BY <1>3, <1>4, <1>5, <1>11, <1>13

-----------------------------------------------------------------------------
\* Reading the list of messages.

\* A picked sequence has numbers of the sequence, one for each index, and no
\* other; it is shorter if an index is left out.
PickedFrom(rs, I, t) ==
    /\ Len(t) \in Nat /\ Len(rs) \in Nat /\ Len(t) <= Len(rs) /\ Len(t) = Cardinality(I)
    /\ \A i \in 1..Len(t) : \E j \in I : t[i] = rs[j]
    /\ \A j \in I : \E i \in 1..Len(t) : t[i] = rs[j]
    /\ Distinct(rs) => Distinct(t)
    /\ Len(t) = Len(rs) => I = 1..Len(rs)

LEMMA PickedNums ==
    ASSUME NEW R, NEW rs \in Seq(R), NEW I \in SUBSET (1..Len(rs)), NEW t, t = Picked(rs, I)
    PROVE  t \in Seq(R) /\ PickedFrom(rs, I, t)
<1>1. PICK n \in Nat : n = Len(rs)
  OBVIOUS
<1>2. t \in Seq(R) /\ Len(t) \in Nat /\ Len(t) = Cardinality(I)
  BY PickedIs
<1>0. PICK is \in Seq(I) : Picks(rs, I, t, is)
  BY PickedIs
<1>3. /\ Len(is) = Len(t)
      /\ \A i \in 1..Len(t) : is[i] \in I /\ t[i] = rs[is[i]]
      /\ \A i, j \in 1..Len(t) : i < j => is[i] < is[j]
      /\ \A k \in I : \E i \in 1..Len(t) : is[i] = k
  BY <1>0 DEF Picks
<1>4. IsFiniteSet(1..n) /\ Cardinality(1..n) = n
  BY FS_Interval
<1>5. Cardinality(I) <= n /\ (Cardinality(I) = n => I = 1..n)
  BY <1>1, <1>4, FS_Subset
<1>6. \A i \in 1..Len(t) : \E j \in I : t[i] = rs[j]
  BY <1>3
<1>7. \A j \in I : \E i \in 1..Len(t) : t[i] = rs[j]
  BY <1>3
<1>8. ASSUME Distinct(rs) PROVE Distinct(t)
  <2>1. SUFFICES ASSUME NEW i \in 1..Len(t), NEW j \in 1..Len(t), t[i].num = t[j].num PROVE i = j
    BY DEF Distinct
  <2>2. PICK a \in I : a = is[i] /\ t[i] = rs[a]
    BY <1>3
  <2>3. PICK b \in I : b = is[j] /\ t[j] = rs[b]
    BY <1>3
  <2>4. a \in 1..Len(rs) /\ b \in 1..Len(rs)
    OBVIOUS
  <2>5. a = b
    BY <1>8, <2>1, <2>2, <2>3, <2>4 DEF Distinct
  <2>6. a \in Nat /\ ~(a < a)
    BY <1>1, <2>4
  <2>7. i \in Nat /\ j \in Nat
    BY <1>2
  <2>8. ~(i < j) /\ ~(j < i)
    <3>1. is[i] = is[j] /\ ~(is[i] < is[j]) /\ ~(is[j] < is[i])
      BY <2>2, <2>3, <2>5, <2>6
    <3> QED
      BY <1>3, <2>1, <3>1
  <2> QED
    BY <2>7, <2>8
<1> QED
  BY <1>1, <1>2, <1>5, <1>6, <1>7, <1>8 DEF PickedFrom

\* The headers of files that are parsed.
LEMMA ParsedIs ==
    ASSUME NEW f \in FolderItems, NEW S \in SUBSET FileNums(f), NEW t, t = Parsed(f, S)
    PROVE  /\ t \in Seq(Headers) /\ Distinct(t) /\ Right(f, t) /\ NumsOf(t) = S
<1>1. S \in SUBSET Nums /\ f.file \in [Nums -> Msgs \cup {None}]
  BY DEF FileNums, FolderItems
<1>2. PICK s : s = Ordered(S)
  OBVIOUS
<1>3. /\ s \in Seq(S) /\ Len(s) \in Nat
      /\ \A i, j \in 1..Len(s) : i < j => s[i] < s[j]
      /\ \A n \in S : \E i \in 1..Len(s) : s[i] = n
  BY <1>1, <1>2, NumsAre, OrderedIs
<1>4. PICK k \in Nat : k = Len(s)
  BY <1>3
<1>5. DOMAIN s = 1..k /\ \A i \in 1..k : s[i] \in S
  BY <1>3, <1>4
<1>6. t = [i \in 1..k |-> [num |-> s[i], msg |-> f.file[s[i]]]]
  BY <1>2, <1>5 DEF Parsed
<1>7. \A i \in 1..k : [num |-> s[i], msg |-> f.file[s[i]]] \in Headers
  <2>1. \A n \in S : n \in Nums /\ f.file[n] \in Msgs
    BY <1>1 DEF FileNums
  <2> QED
    BY <1>5, <2>1 DEF Headers
<1>8. t \in Seq(Headers) /\ Len(t) = k /\ \A i \in 1..k : t[i].num = s[i] /\ t[i].msg = f.file[s[i]]
  <2>1. t \in Seq(Headers) /\ Len(t) = k
    BY <1>6, <1>7
  <2> QED
    BY <1>6, <2>1
<1>9. Right(f, t)
  BY <1>8 DEF Right
<1>10. Distinct(t)
  <2>1. SUFFICES ASSUME NEW i \in 1..k, NEW j \in 1..k, s[i] = s[j], i # j PROVE FALSE
    BY <1>8 DEF Distinct
  <2>2. s[i] \in Int /\ ~(s[i] < s[i])
    <3>1. \A e \in S : e \in Nums
      BY <1>1
    <3>2. \A e \in S : e \in Int
      BY <3>1, NumsAre
    <3>3. \A e \in Int : ~(e < e)
      OBVIOUS
    <3> QED
      BY <1>5, <2>1, <3>2, <3>3
  <2>3. i < j \/ j < i
    BY <2>1
  <2> QED
    BY <1>3, <1>4, <2>1, <2>2, <2>3
<1>11. NumsOf(t) = S
  <2>1. \A n : n \in NumsOf(t) <=> \E i \in 1..Len(t) : t[i].num = n
    BY <1>8, NumsOfIs
  <2>2. \A n \in S : n \in NumsOf(t)
    BY <1>3, <1>4, <1>8, <2>1
  <2>3. \A n \in NumsOf(t) : n \in S
    BY <1>5, <1>8, <2>1
  <2> QED
    BY <2>2, <2>3
<1> QED
  BY <1>8, <1>9, <1>10, <1>11

\* What is read of the cache: right, and nothing is parsed that was read.
CacheRead(f, all, read, cached, new) ==
    /\ all \in Seq(Headers) /\ read \in Seq(Headers) /\ cached \in Seq(Headers)
    /\ Distinct(cached) /\ Right(f, cached) /\ NumsOf(cached) = NumsOf(read)
    /\ new \in SUBSET FileNums(f)
    /\ \A n \in NumsOf(cached) : n \in FileNums(f) /\ n \notin new
    /\ \A n \in FileNums(f) : n \in NumsOf(cached) \/ n \in new
    /\ ~(Len(cached) < Len(all)) => Right(f, all) /\ NumsOf(all) = NumsOf(cached)

LEMMA CachedIs ==
    ASSUME NEW f \in FolderItems, NEW strict0 \in BOOLEAN, CacheSound(f),
           f.stype = "F_DRAFT" => strict0, f.fresh => Trusted(f),
           NEW all, all = CachedHeaders(f), NEW read, read = ReadCached(f, strict0),
           NEW cached, cached = IF f.fresh \/ strict0 THEN read ELSE LastWithFile(f, read),
           NEW new, new = IF f.fresh /\ read # <<>> THEN {} ELSE FileNums(f) \ NumsOf(read)
    PROVE  CacheRead(f, all, read, cached, new)
<1>1. PICK rs \in Seq(Headers) : rs = f.cache.recs
  BY DEF FolderItems, Written
<1>2. PICK q \in Seq(MsgInfos) : q = f.cache_queue
  BY DEF FolderItems
<1>3. PICK hq : hq = HeadersOf(q)
  OBVIOUS
<1>4. /\ Distinct(rs) /\ Distinct(q) /\ Apart(rs, q) /\ AllSound(f, rs) /\ AllSound(f, q)
  BY <1>1, <1>2 DEF CacheSound
<1>5. hq \in Seq(Headers) /\ NumsOf(hq) = NumsOf(q) /\ Distinct(hq) /\ AllSound(f, hq)
  BY <1>2, <1>3, <1>4, HeadersOfIs
<1>6. all = IF f.cache.state # "ok" THEN <<>> ELSE Joined(rs, hq)
  BY <1>1, <1>2, <1>3 DEF CachedHeaders, Joined
<1>7. all \in Seq(Headers) /\ Distinct(all) /\ AllSound(f, all)
  <2>1. CASE f.cache.state # "ok"
    <3>1. <<>> \in Seq(Headers)
      OBVIOUS
    <3> QED
      BY <1>6, <2>1, <3>1, EmptyIs
  <2>2. CASE f.cache.state = "ok"
    <3>1. all = Joined(rs, hq)
      BY <1>6, <2>2
    <3>2. Apart(rs, hq)
      BY <1>4, <1>5 DEF Apart
    <3>3. all \in Seq(Headers) /\ Distinct(all)
      BY <1>4, <1>5, <3>1, <3>2, JoinedIs
    <3>4. AllSound(f, all)
      BY <1>4, <1>5, <3>1, JoinedSound
    <3> QED
      BY <3>3, <3>4
  <2> QED
    BY <2>1, <2>2
\* the cache as it is, if it is trusted
<1>8. ASSUME f.fresh PROVE Right(f, all) /\ (all # <<>> => NumsOf(all) = FileNums(f))
  <2>1. Trusted(f)
    BY <1>8
  <2>2. CASE all = <<>>
    BY <2>2, EmptyIs
  <2>3. CASE all # <<>>
    <3>1. hq = <<>> /\ f.cache.state = "ok"
      BY <1>2, <1>3, <1>6, <2>1, <2>3, EmptyIs DEF Trusted
    <3>2. Joined(rs, <<>>) = rs
      BY ConcatEmptySeq DEF Joined
    <3>3. all = rs
      BY <1>6, <3>1, <3>2
    <3> QED
      BY <1>1, <2>1, <2>3, <3>1, <3>3 DEF Trusted
  <2> QED
    BY <2>2, <2>3
<1>9. PICK n \in Nat : n = Len(all)
  BY <1>7
<1>10. PICK I \in SUBSET (1..Len(all)) : I = {i \in DOMAIN all : f.fresh \/ ~strict0 \/ Exists(f, all[i])}
  <2>1. DOMAIN all = 1..Len(all)
    BY <1>7
  <2> QED
    BY <2>1
<1>11. read = Picked(all, I)
  BY <1>10 DEF ReadCached
<1>12. \A i \in I : f.file[all[i].num] = all[i].msg
  <2> SUFFICES ASSUME NEW i \in I PROVE f.file[all[i].num] = all[i].msg
    OBVIOUS
  <2>1. CASE f.fresh
    BY <1>8, <2>1 DEF Right
  <2>2. CASE ~f.fresh /\ strict0
    BY <1>10, <2>2 DEF Exists
  <2>3. CASE ~strict0
    <3>1. Sound(f, all[i]) /\ f.stype # "F_DRAFT"
      BY <1>7, <2>3 DEF AllSound
    <3> QED
      BY <3>1 DEF Sound
  <2> QED
    BY <2>1, <2>2, <2>3
<1>13. /\ read \in Seq(Headers) /\ Len(read) \in Nat /\ Len(read) <= Len(all)
       /\ \A i \in 1..Len(read) : \E j \in I : read[i] = all[j]
       /\ \A j \in I : \E i \in 1..Len(read) : read[i] = all[j]
       /\ Distinct(read)
       /\ Len(read) = Len(all) => I = 1..Len(all)
  <2>1. read \in Seq(Headers) /\ PickedFrom(all, I, read)
    BY <1>7, <1>11, PickedNums
  <2> QED
    BY <1>7, <2>1 DEF PickedFrom
<1>14. Right(f, read)
  BY <1>12, <1>13, SMTT(30) DEF Right
<1>15. \A k : k \in NumsOf(read) <=> \E i \in 1..Len(read) : read[i].num = k
  BY <1>13, NumsOfIs, SMTT(30)
<1>16. \A i \in 1..Len(read) : read[i].num \in Nums /\ read[i].msg \in Msgs /\ f.file[read[i].num] # None
  <2>1. \A i \in 1..Len(read) : read[i] \in Headers
    BY <1>13
  <2> QED
    BY <1>14, <2>1, NoneAssumption DEF Headers, Right
<1>17. \A k \in NumsOf(read) : k \in FileNums(f)
  BY <1>15, <1>16 DEF FileNums
<1>18. /\ cached \in Seq(Headers) /\ Distinct(cached) /\ Right(f, cached)
       /\ \A k : k \in NumsOf(cached) <=> k \in NumsOf(read)
       /\ Len(cached) = Len(read)
  <2>1. CASE f.fresh \/ strict0
    BY <1>13, <1>14, <2>1
  <2>2. CASE ~(f.fresh \/ strict0)
    <3>1. {i \in DOMAIN read : /\ f.file[read[i].num] # None
                               /\ \A j \in DOMAIN read : read[j].num = read[i].num => j <= i} = 1..Len(read)
      <4>1. DOMAIN read = 1..Len(read)
        BY <1>13
      <4>2. \A i \in 1..Len(read) : \A j \in 1..Len(read) : read[j].num = read[i].num => j <= i
        BY <1>13 DEF Distinct
      <4> QED
        BY <1>16, <4>1, <4>2
    <3>2. cached = Picked(read, 1..Len(read))
      BY <2>2, <3>1 DEF LastWithFile
    <3>3. PICK J \in SUBSET (1..Len(read)) : J = 1..Len(read)
      OBVIOUS
    <3>4. cached = Picked(read, J)
      BY <3>2, <3>3
    <3>5. cached \in Seq(Headers) /\ PickedFrom(read, J, cached)
      BY <1>13, <3>4, PickedNums
    <3>6. Len(cached) = Len(read)
      <4>1. Len(cached) = Cardinality(J) /\ Len(read) \in Nat
        BY <3>5 DEF PickedFrom
      <4>2. PICK k \in Nat : k = Len(read)
        BY <4>1
      <4>3. Cardinality(1..k) = k
        BY FS_Interval
      <4> QED
        BY <3>3, <4>1, <4>2, <4>3
    <3>7. Right(f, cached)
      <4>1. \A i \in 1..Len(cached) : \E j \in 1..Len(read) : cached[i] = read[j]
        BY <3>3, <3>5 DEF PickedFrom
      <4> QED
        BY <1>14, <4>1 DEF Right
    <3>8. \A k : k \in NumsOf(cached) <=> \E i \in 1..Len(cached) : cached[i].num = k
      <4>1. cached \in Seq(Headers)
        BY <3>5
      <4> QED
        BY <4>1, NumsOfIs
    <3>9. ASSUME NEW k PROVE k \in NumsOf(cached) <=> k \in NumsOf(read)
      <4>1. \A i \in 1..Len(cached) : \E j \in 1..Len(read) : cached[i] = read[j]
        BY <3>3, <3>5 DEF PickedFrom
      <4>2. \A j \in 1..Len(read) : \E i \in 1..Len(cached) : cached[i] = read[j]
        BY <3>3, <3>5 DEF PickedFrom
      <4>3. ASSUME k \in NumsOf(cached) PROVE k \in NumsOf(read)
        BY <1>15, <3>8, <4>1, <4>3
      <4>4. ASSUME k \in NumsOf(read) PROVE k \in NumsOf(cached)
        <5>1. PICK j \in 1..Len(read) : read[j].num = k
          BY <1>15, <4>4
        <5>2. PICK i \in 1..Len(cached) : cached[i] = read[j]
          BY <4>2
        <5> QED
          BY <3>8, <5>1, <5>2
      <4> QED
        BY <4>3, <4>4
    <3>10. Distinct(cached)
      BY <1>13, <3>5 DEF PickedFrom
    <3> QED
      BY <3>5, <3>6, <3>7, <3>9, <3>10
  <2> QED
    BY <2>1, <2>2
<1>19. NumsOf(cached) = NumsOf(read)
  BY <1>18
<1>20. \A k \in NumsOf(read) : k \notin new
  OBVIOUS
<1>21. ASSUME f.fresh /\ read # <<>> PROVE NumsOf(read) = FileNums(f)
  <2>1. I = 1..Len(all)
    BY <1>7, <1>10, <1>21
  <2>2. all # <<>>
    <3>1. Len(read) # 0
      BY <1>13, <1>21
    <3>2. 1 \in 1..Len(read)
      BY <1>13, <3>1
    <3>3. PICK j \in I : read[1] = all[j]
      BY <1>13, <3>2
    <3>4. j \in 1..Len(all)
      OBVIOUS
    <3> QED
      BY <3>4
  <2>3. \A k : k \in NumsOf(all) <=> \E i \in 1..Len(all) : all[i].num = k
    BY <1>7, NumsOfIs
  <2>4. \A k : k \in NumsOf(read) <=> k \in NumsOf(all)
    <3>1. SUFFICES ASSUME NEW k PROVE k \in NumsOf(read) <=> k \in NumsOf(all)
      OBVIOUS
    <3>2. \A i \in 1..Len(read) : \E j \in 1..Len(all) : read[i] = all[j]
      BY <1>13, <2>1
    <3>3. \A j \in 1..Len(all) : \E i \in 1..Len(read) : read[i] = all[j]
      BY <1>13, <2>1
    <3>4. ASSUME k \in NumsOf(read) PROVE k \in NumsOf(all)
      BY <1>15, <2>3, <3>2, <3>4
    <3>5. ASSUME k \in NumsOf(all) PROVE k \in NumsOf(read)
      BY <1>15, <2>3, <3>3, <3>5
    <3> QED
      BY <3>4, <3>5
  <2> QED
    BY <1>8, <1>21, <2>2, <2>4
<1>22. new \in SUBSET FileNums(f) /\ \A k \in FileNums(f) : k \in NumsOf(read) \/ k \in new
  <2>1. CASE f.fresh /\ read # <<>>
    BY <1>21, <2>1
  <2>2. CASE ~(f.fresh /\ read # <<>>)
    BY <2>2
  <2> QED
    BY <2>1, <2>2
<1>23. ASSUME ~(Len(cached) < Len(all)) PROVE Right(f, all) /\ NumsOf(all) = NumsOf(cached)
  <2>1. I = 1..Len(all)
    BY <1>9, <1>13, <1>18, <1>23
  <2>2. Right(f, all)
    BY <1>12, <2>1 DEF Right
  <2>3. \A k : k \in NumsOf(all) <=> \E i \in 1..Len(all) : all[i].num = k
    BY <1>7, NumsOfIs
  <2>4. \A k : k \in NumsOf(read) <=> k \in NumsOf(all)
    <3>1. SUFFICES ASSUME NEW k PROVE k \in NumsOf(read) <=> k \in NumsOf(all)
      OBVIOUS
    <3>2. \A i \in 1..Len(read) : \E j \in 1..Len(all) : read[i] = all[j]
      BY <1>13, <2>1
    <3>3. \A j \in 1..Len(all) : \E i \in 1..Len(read) : read[i] = all[j]
      BY <1>13, <2>1
    <3>4. ASSUME k \in NumsOf(read) PROVE k \in NumsOf(all)
      BY <1>15, <2>3, <3>2, <3>4
    <3>5. ASSUME k \in NumsOf(all) PROVE k \in NumsOf(read)
      BY <1>15, <2>3, <3>3, <3>5
    <3> QED
      BY <3>4, <3>5
  <2> QED
    BY <1>18, <2>2, <2>4
<1> QED
  BY <1>7, <1>13, <1>17, <1>18, <1>19, <1>20, <1>22, <1>23 DEF CacheRead

CacheClean(f) == [f EXCEPT !.cache_dirty = FALSE]
MarksClean(f) == [f EXCEPT !.mark_dirty = FALSE]

LEMMA SetOneClean ==
    ASSUME NEW f \in FolderItems
    PROVE  /\ CacheClean(f) \in FolderItems /\ SameMail(f, CacheClean(f)) /\ SameSums(f, CacheClean(f))
           /\ SameMarks(f, CacheClean(f))
           /\ CacheClean(f).cache = f.cache /\ CacheClean(f).cache_queue = f.cache_queue
           /\ ~CacheClean(f).cache_dirty
           /\ MarksClean(f) \in FolderItems /\ SameMail(f, MarksClean(f)) /\ SameSums(f, MarksClean(f))
           /\ SameCache(f, MarksClean(f)) /\ MarksClean(f).marks = f.marks
           /\ MarksClean(f).mark_queue = f.mark_queue /\ ~MarksClean(f).mark_dirty
<1>1. CacheClean(f) \in FolderItems
  BY DEF FolderItems, CacheClean
<1>2. MarksClean(f) \in FolderItems
  BY DEF FolderItems, MarksClean
<1>3. /\ SameMail(f, CacheClean(f)) /\ SameSums(f, CacheClean(f)) /\ SameMarks(f, CacheClean(f))
      /\ CacheClean(f).cache = f.cache /\ CacheClean(f).cache_queue = f.cache_queue
      /\ ~CacheClean(f).cache_dirty
  BY DEF FolderItems, CacheClean, SameMail, SameSums, SameMarks
<1>4. /\ SameMail(f, MarksClean(f)) /\ SameSums(f, MarksClean(f)) /\ SameCache(f, MarksClean(f))
      /\ MarksClean(f).marks = f.marks
      /\ MarksClean(f).mark_queue = f.mark_queue /\ ~MarksClean(f).mark_dirty
  BY DEF FolderItems, MarksClean, SameMail, SameSums, SameCache
<1> QED
  BY <1>1, <1>2, <1>3, <1>4

LEMMA WriteCacheListIs ==
    ASSUME NEW f \in FolderItems, f.cache_queue = <<>>, NEW g, g = WriteCacheList(f)
    PROVE  /\ g \in FolderItems /\ SameMail(f, g) /\ SameSums(f, g) /\ SameMarks(f, g)
           /\ g.cache_queue = <<>> /\ ~g.cache_dirty
           /\ ~f.cache_dirty => g.cache = f.cache
           /\ f.cache_dirty => g.cache.state = "ok" /\ g.cache.recs = HeadersOf(f.list)
<1>1. CASE ~f.cache_dirty
  <2>1. g = f
    BY <1>1 DEF WriteCacheList
  <2> QED
    BY <1>1, <2>1 DEF SameMail, SameSums, SameMarks
<1>2. CASE f.cache_dirty
  <2>1. PICK hs \in Seq(Headers) : hs = HeadersOf(f.list)
    <3>1. f.list \in Seq(MsgInfos)
      BY DEF FolderItems
    <3>2. HeadersOf(f.list) \in Seq(Headers)
      BY <3>1, HeadersTypes
    <3> QED
      BY <3>2
  <2>2. PICK a : a = WriteCacheData(f, hs)
    OBVIOUS
  <2>3. /\ a \in FolderItems /\ SameMail(f, a) /\ SameMarks(f, a) /\ SameSums(f, a)
        /\ a.cache_queue = f.cache_queue /\ a.cache.state = "ok" /\ a.cache.recs = hs
    BY <2>2, WriteCacheDataIs
  <2>4. FlushCacheQueue(a) = a
    BY <2>3 DEF FlushCacheQueue
  <2>5. g = CacheClean(a)
    BY <1>2, <2>1, <2>2, <2>4 DEF WriteCacheList, CacheClean
  <2>6. /\ g \in FolderItems /\ SameMail(a, g) /\ SameSums(a, g) /\ SameMarks(a, g)
        /\ g.cache = a.cache /\ g.cache_queue = a.cache_queue /\ ~g.cache_dirty
    BY <2>3, <2>5, SetOneClean
  <2> QED
    BY <1>2, <2>1, <2>3, <2>6 DEF SameMail, SameSums, SameMarks
<1> QED
  BY <1>1, <1>2

LEMMA WriteFlagsListIs ==
    ASSUME NEW f \in FolderItems, NEW g, g = WriteFlagsList(f)
    PROVE  /\ g \in FolderItems /\ SameMail(f, g) /\ SameSums(f, g) /\ SameCache(f, g)
           /\ IF f.mark_dirty
              THEN /\ g.marks.state = "ok" /\ g.marks.recs = Joined(MarksOf(f.list), f.mark_queue)
                   /\ g.mark_queue = <<>> /\ ~g.mark_dirty
              ELSE g = f
<1>1. CASE ~f.mark_dirty
  BY <1>1 DEF WriteFlagsList, SameMail, SameSums, SameCache
<1>2. CASE f.mark_dirty
  <2>1. PICK ms \in Seq(Marks) : ms = MarksOf(f.list)
    <3>1. f.list \in Seq(MsgInfos)
      BY DEF FolderItems
    <3>2. MarksOf(f.list) \in Seq(Marks)
      BY <3>1, MarksTypes
    <3> QED
      BY <3>2
  <2>2. PICK a : a = WriteMarks(f, ms)
    OBVIOUS
  <2>3. /\ a \in FolderItems /\ SameMail(f, a) /\ SameCache(f, a) /\ SameSums(f, a)
        /\ a.mark_queue = f.mark_queue /\ a.marks.state = "ok" /\ a.marks.recs = ms
    BY <2>2, WriteMarksIs
  <2>4. PICK b : b = FlushMarkQueue(a)
    OBVIOUS
  <2>5. b \in FolderItems /\ SameMail(a, b) /\ SameCache(a, b) /\ SameSums(a, b)
    BY <2>3, <2>4, FlushMarkQueueIs
  <2>50. /\ b.mark_queue = <<>> /\ b.marks.recs = Joined(a.marks.recs, a.mark_queue)
         /\ b.marks.state = "ok"
    BY <2>3, <2>4, FlushMarkQueueIs
  <2>6. g = MarksClean(b)
    BY <1>2, <2>1, <2>2, <2>4 DEF WriteFlagsList, MarksClean
  <2>7. /\ g \in FolderItems /\ SameMail(b, g) /\ SameSums(b, g) /\ SameCache(b, g)
        /\ g.marks = b.marks /\ g.mark_queue = b.mark_queue /\ ~g.mark_dirty
    BY <2>5, <2>6, SetOneClean
  <2> QED
    BY <1>2, <2>1, <2>3, <2>5, <2>50, <2>7 DEF SameMail, SameSums, SameCache
<1> QED
  BY <1>1, <1>2

\* The list in place of what was there.
WithRead(f, l, cd, md) ==
    [f EXCEPT !.list = l, !.cache_queue = <<>>, !.cache_dirty = cd, !.mark_dirty = md]
WithList(f, l, n, u, k, md) ==
    [f EXCEPT !.list = l, !.total = n, !.fresh = TRUE, !.unread = u, !.last_num = k, !.mark_dirty = md]

LEMMA SetRead ==
    ASSUME NEW f \in FolderItems, NEW cd \in BOOLEAN, NEW md \in BOOLEAN, NEW g, g = WithRead(f, <<>>, cd, md)
    PROVE  /\ g \in FolderItems /\ g.stype = f.stype /\ g.file = f.file /\ g.opened = f.opened
           /\ SameSums(f, g) /\ g.cache = f.cache /\ g.cache_queue = <<>>
           /\ g.cache_dirty = cd /\ g.marks = f.marks /\ g.mark_queue = f.mark_queue
<1>0. <<>> \in Seq(MsgInfos)
  OBVIOUS
<1>1. PICK e \in Seq(MsgInfos) : e = <<>>
  BY <1>0
<1>2. g = [f EXCEPT !.list = e, !.cache_queue = e, !.cache_dirty = cd, !.mark_dirty = md]
  BY <1>1 DEF WithRead
<1>3. g \in FolderItems
  BY <1>2 DEF FolderItems
<1> QED
  BY <1>1, <1>2, <1>3 DEF FolderItems, SameSums

LEMMA SetList ==
    ASSUME NEW f \in FolderItems, NEW l \in Seq(MsgInfos), NEW n \in Int, NEW u \in Int,
           NEW k \in -1..MaxNum, NEW md \in BOOLEAN, NEW g, g = WithList(f, l, n, u, k, md)
    PROVE  /\ g \in FolderItems /\ g.stype = f.stype /\ g.file = f.file /\ g.opened = f.opened
           /\ g.list = l /\ SameCache(f, g) /\ g.last_num = k
           /\ g.total = n /\ g.unread = u /\ g.mark_dirty = md
           /\ g.marks = f.marks /\ g.mark_queue = f.mark_queue
<1>1. g \in FolderItems
  BY DEF FolderItems, WithList
<1> QED
  BY <1>1 DEF FolderItems, SameCache, WithList

WithRows(f, l) == [f EXCEPT !.list = l]

\* ReadMarks does not look at the list.
LEMMA ReadMarksOfList ==
    ASSUME NEW f \in FolderItems, NEW l, NEW cd \in BOOLEAN, NEW md \in BOOLEAN,
           NEW g, g = WithRead(f, l, cd, md), NEW e, e = WithRead(f, <<>>, cd, md)
    PROVE  /\ ReadMarks(g) = WithRows(ReadMarks(e), l)
           /\ MarkedTable(g) = MarkedTable(f) /\ g.marks = f.marks /\ g.list = l
           /\ g.last_num = f.last_num
<1>1. /\ g.marks = f.marks /\ g.mark_queue = f.mark_queue /\ g.opened = f.opened
      /\ e.marks = f.marks /\ e.mark_queue = f.mark_queue /\ e.opened = f.opened
      /\ g.half = f.half /\ e.half = f.half
      /\ g.list = l /\ g.last_num = f.last_num
  BY DEF FolderItems, WithRead
<1>2. Table(g) = Table(f) /\ Table(e) = Table(f)
  BY <1>1 DEF Table
<1>3. MarkedTable(g) = MarkedTable(f)
  BY <1>1, <1>2 DEF MarkedTable
<1>4. g = [e EXCEPT !.list = l]
  BY DEF FolderItems, WithRead
<1>5. e \in FolderItems
  BY SetRead
<1>6. ReadMarks(g) = [ReadMarks(e) EXCEPT !.list = l]
  <2>1. CASE f.marks.state # "ok" \/ f.mark_queue = <<>>
    <3>1. ReadMarks(g) = g /\ ReadMarks(e) = e
      BY <1>1, <2>1 DEF ReadMarks
    <3> QED
      BY <1>4, <3>1
  <2>2. CASE ~(f.marks.state # "ok" \/ f.mark_queue = <<>>) /\ f.opened
    <3>1. ReadMarks(g) = [g EXCEPT !.mark_dirty = TRUE]
      BY <1>1, <2>2 DEF ReadMarks
    <3>2. ReadMarks(e) = [e EXCEPT !.mark_dirty = TRUE]
      BY <1>1, <2>2 DEF ReadMarks
    <3>3. [g EXCEPT !.mark_dirty = TRUE] = [[e EXCEPT !.mark_dirty = TRUE] EXCEPT !.list = l]
      BY DEF FolderItems, WithRead
    <3> QED
      BY <3>1, <3>2, <3>3
  <2>3. CASE ~(f.marks.state # "ok" \/ f.mark_queue = <<>>) /\ ~f.opened
    <3>0. PICK data : data = Data(TableRecs(Table(f)))
      OBVIOUS
    <3>1. ReadMarks(g) = [g EXCEPT !.marks = data, !.mark_queue = <<>>, !.mark_dirty = FALSE,
                                   !.half = f.half \ {"marks"}]
      BY <1>1, <1>2, <2>3, <3>0 DEF ReadMarks
    <3>2. ReadMarks(e) = [e EXCEPT !.marks = data, !.mark_queue = <<>>, !.mark_dirty = FALSE,
                                   !.half = f.half \ {"marks"}]
      BY <1>1, <1>2, <2>3, <3>0 DEF ReadMarks
    <3>3. PICK h : h = f.half \ {"marks"}
      OBVIOUS
    <3>4. [g EXCEPT !.marks = data, !.mark_queue = <<>>, !.mark_dirty = FALSE, !.half = h]
          = [[e EXCEPT !.marks = data, !.mark_queue = <<>>, !.mark_dirty = FALSE, !.half = h]
              EXCEPT !.list = l]
      BY DEF FolderItems, WithRead
    <3> QED
      BY <3>1, <3>2, <3>3, <3>4
  <2> QED
    BY <2>1, <2>2, <2>3
<1> QED
  BY <1>1, <1>3, <1>6 DEF WithRows

\* What the summary shows is what the directory has.
Listed(f, g) ==
    /\ g.file = f.file /\ g.stype = f.stype
    /\ Distinct(g.list) /\ Right(f, g.list) /\ NumsOf(g.list) = FileNums(f)
    /\ g.cache_queue = <<>> /\ ~g.cache_dirty
    /\ Distinct(g.cache.recs) /\ Right(f, g.cache.recs) /\ NumsOf(g.cache.recs) = FileNums(f)
    /\ g.last_num = f.last_num \/ \A k \in FileNums(f) : k <= g.last_num

\* How many of the headers a table of marks has as unread.
UnreadOf(table, hs) == Cardinality({i \in DOMAIN hs : "UNREAD" \in FlagsIn(table, hs[i].num)})
\* The marks of a closed folder are read, what waits of them is written, and the
\* headers get their flags and are counted.
FlagsFrom(f, hs, g) ==
    /\ \A i \in 1..Len(hs) : g.list[i].flags = FlagsIn(MarkedTable(f), hs[i].num)
    /\ g.total = Len(hs) /\ g.unread = UnreadOf(MarkedTable(f), hs)
    /\ f.last_num >= 0 => g.last_num >= 0
    /\ g.mark_queue = <<>> \/ f.opened \/ f.marks.state # "ok"
    /\ \/ g.marks = f.marks /\ g.mark_queue = f.mark_queue
       \/ /\ g.marks.recs = TableRecs(Table(f)) /\ g.marks.state = "ok"
          /\ g.mark_queue = <<>>
    /\ ~g.mark_dirty => f.marks.state = "ok" /\ NumsOf(hs) \subseteq DOMAIN MarkedTable(f)

\* A list of headers, with the flags of a table of marks.
FlagsSet(f, hs, cd, g) ==
    /\ g \in FolderItems /\ g.stype = f.stype /\ g.file = f.file /\ g.opened = f.opened
    /\ g.cache = f.cache /\ g.cache_queue = <<>> /\ g.cache_dirty = cd
    /\ Len(g.list) = Len(hs)
    /\ \A i \in 1..Len(hs) : g.list[i].num = hs[i].num /\ g.list[i].msg = hs[i].msg
    /\ g.last_num = f.last_num \/ \A k \in NumsOf(hs) : k <= g.last_num
    /\ FlagsFrom(f, hs, g)

LEMMA SetFlagsIs ==
    ASSUME NEW f \in FolderItems, NEW hs \in Seq(Headers), NEW cd \in BOOLEAN, NEW md \in BOOLEAN,
           NEW e, e = WithRead(f, hs, cd, md), NEW g, g = SetFlags(e, MarkedTable(f))
    PROVE  FlagsSet(f, hs, cd, g)
<1>1. PICK k \in Nat : k = Len(hs)
  OBVIOUS
<1>2. PICK z : z = WithRead(f, <<>>, cd, md)
  OBVIOUS
<1>3. PICK r : r = ReadMarks(z)
  OBVIOUS
<1>4. PICK table : table = MarkedTable(f)
  OBVIOUS
<1>5. /\ ReadMarks(e) = [r EXCEPT !.list = hs]
      /\ MarkedTable(e) = table /\ e.marks = f.marks /\ e.list = hs /\ e.last_num = f.last_num
  <2>1. hs \in Seq(Headers) /\ cd \in BOOLEAN /\ md \in BOOLEAN /\ f \in FolderItems
    OBVIOUS
  <2>2. ReadMarks(e) = WithRows(ReadMarks(z), hs)
    BY <1>2, <2>1, ReadMarksOfList
  <2>3. MarkedTable(e) = MarkedTable(f) /\ e.marks = f.marks /\ e.list = hs /\ e.last_num = f.last_num
    BY <1>2, <2>1, ReadMarksOfList
  <2> QED
    BY <1>3, <1>4, <2>2, <2>3 DEF WithRows
<1>6. /\ z \in FolderItems /\ z.stype = f.stype /\ z.file = f.file /\ z.opened = f.opened
      /\ SameSums(f, z) /\ z.cache = f.cache /\ z.cache_queue = <<>> /\ z.cache_dirty = cd
      /\ z.marks = f.marks /\ z.mark_queue = f.mark_queue
  BY <1>2, SetRead
<1>7. r \in FolderItems /\ SameMail(z, r) /\ SameCache(z, r) /\ SameSums(z, r)
  BY <1>3, <1>6, ReadMarksIs
<1>70. /\ r.mark_queue = <<>> \/ f.opened \/ f.marks.state # "ok"
       /\ \/ r.marks = f.marks /\ r.mark_queue = f.mark_queue
          \/ /\ r.marks.recs = TableRecs(Table(f)) /\ r.marks.state = "ok"
             /\ r.mark_queue = <<>>
  <2>1. Table(z) = Table(f)
    BY <1>6 DEF Table
  <2>2. r.mark_queue = <<>> \/ f.opened \/ f.marks.state # "ok"
    BY <1>3, <1>6, ReadMarksIs
  <2>3. \/ r.marks = z.marks /\ r.mark_queue = z.mark_queue
        \/ /\ r.marks.recs = TableRecs(Table(z)) /\ r.marks.state = "ok"
           /\ r.mark_queue = <<>>
    BY <1>3, <1>6, ReadMarksIs
  <2> QED
    BY <1>6, <2>1, <2>2, <2>3
<1>8. DOMAIN hs = 1..k /\ \A i \in 1..k : hs[i].num \in Nums /\ hs[i].msg \in Msgs
  <2>1. \A i \in 1..k : hs[i] \in Headers
    BY <1>1
  <2> QED
    BY <1>1, <2>1 DEF Headers
<1>9. \A n : FlagsIn(table, n) \in Flags
  BY <1>4, TableTypes
<1>10. PICK l : l = [i \in 1..k |-> [num |-> hs[i].num, msg |-> hs[i].msg,
                                      flags |-> FlagsIn(table, hs[i].num)]]
  OBVIOUS
<1>11. /\ l \in Seq(MsgInfos) /\ Len(l) = k
       /\ \A i \in 1..k : l[i].num = hs[i].num /\ l[i].msg = hs[i].msg
                          /\ l[i].flags = FlagsIn(table, hs[i].num)
  <2>1. \A i \in 1..k : [num |-> hs[i].num, msg |-> hs[i].msg,
                         flags |-> FlagsIn(table, hs[i].num)] \in MsgInfos
    BY <1>8, <1>9 DEF MsgInfos
  <2>2. l \in Seq(MsgInfos) /\ Len(l) = k
    BY <1>10, <2>1
  <2> QED
    BY <1>10, <2>2
<1>12. PICK u \in Int : u = Cardinality({i \in DOMAIN hs : "UNREAD" \in FlagsIn(table, hs[i].num)})
  <2>1. IsFiniteSet(1..k)
    BY FS_Interval
  <2>2. {i \in 1..k : "UNREAD" \in FlagsIn(table, hs[i].num)} \in SUBSET (1..k)
    OBVIOUS
  <2>3. Cardinality({i \in 1..k : "UNREAD" \in FlagsIn(table, hs[i].num)}) \in Nat
    BY <2>1, <2>2, FS_Subset, FS_CardinalityType
  <2>4. {i \in DOMAIN hs : "UNREAD" \in FlagsIn(table, hs[i].num)}
          = {i \in 1..k : "UNREAD" \in FlagsIn(table, hs[i].num)}
    BY <1>8
  <2>5. Cardinality({i \in DOMAIN hs : "UNREAD" \in FlagsIn(table, hs[i].num)}) \in Nat
    BY <2>3, <2>4, Zenon
  <2> DEFINE c == Cardinality({i \in DOMAIN hs : "UNREAD" \in FlagsIn(table, hs[i].num)})
  <2>6. c \in Nat
    BY <2>5
  <2> HIDE DEF c
  <2>7. \E u \in Int : u = c
    BY <2>6
  <2> QED
    BY <2>7 DEF c
<1> DEFINE last == IF f.marks.state # "ok" THEN f.last_num
                   ELSE IF hs = <<>> THEN 0
                   ELSE CHOOSE m \in NumsOf(hs) : \A j \in NumsOf(hs) : j <= m
<1> HIDE DEF last
<1>130. PICK n : n = last
  OBVIOUS
<1>13. n = IF f.marks.state # "ok" THEN f.last_num
           ELSE IF hs = <<>> THEN 0
           ELSE CHOOSE m \in NumsOf(hs) : \A j \in NumsOf(hs) : j <= m
  BY <1>130 DEF last
<1>14. \A m : m \in NumsOf(hs) <=> \E i \in 1..Len(hs) : hs[i].num = m
  BY NumsOfIs
<1>15. NumsOf(hs) \in SUBSET Nums
  BY <1>1, <1>8, <1>14
<1>16. /\ n \in -1..MaxNum /\ (n = f.last_num \/ \A j \in NumsOf(hs) : j <= n)
       /\ n = f.last_num \/ n >= 0
  <2>1. CASE f.marks.state # "ok"
    BY <1>13, <2>1 DEF FolderItems
  <2>2. CASE f.marks.state = "ok" /\ hs = <<>>
    <3>1. n = 0 /\ NumsOf(hs) = {}
      BY <1>13, <2>2, EmptyIs
    <3> QED
      BY <3>1, NumsAre
  <2>3. CASE f.marks.state = "ok" /\ hs # <<>>
    <3>1. n = CHOOSE m \in NumsOf(hs) : \A j \in NumsOf(hs) : j <= m
      BY <1>13, <2>3
    <3>2. NumsOf(hs) # {}
      <4>1. Len(hs) # 0
        BY <2>3
      <4>2. 1 \in 1..Len(hs)
        BY <1>1, <4>1
      <4> QED
        BY <1>14, <4>2
    <3>3. NumsOf(hs) \in SUBSET (0..MaxNum) /\ MaxNum \in Nat
      BY <1>15, NumsAre
    <3>4. \E m \in NumsOf(hs) : \A j \in NumsOf(hs) : j <= m
      BY <3>2, <3>3, Extremes
    <3>5. n \in NumsOf(hs) /\ \A j \in NumsOf(hs) : j <= n
      BY <3>1, <3>4
    <3>6. n \in 0..MaxNum
      BY <3>3, <3>5
    <3>7. n \in -1..MaxNum
      BY <3>3, <3>6
    <3> QED
      BY <3>3, <3>5, <3>6, <3>7
  <2> QED
    BY <2>1, <2>2, <2>3
<1>17. PICK dirty \in BOOLEAN : dirty <=> \/ r.mark_dirty \/ f.marks.state # "ok"
                                          \/ ~(NumsOf(hs) \subseteq DOMAIN table)
  OBVIOUS
<1>18. g = WithList(r, l, k, u, n, dirty)
  <2>1. ReadMarks(e) = [r EXCEPT !.list = hs]
    BY <1>5
  <2>2. PICK y : y = [r EXCEPT !.list = hs]
    OBVIOUS
  <2>3. y.list = hs /\ y.last_num = f.last_num /\ y.mark_dirty = r.mark_dirty
    <3>1. r.last_num = f.last_num
      BY <1>6, <1>7 DEF SameSums
    <3> QED
      BY <1>7, <2>2, <3>1 DEF FolderItems
  <2>4. g = [y EXCEPT
        !.list = [i \in DOMAIN @ |-> [num |-> @[i].num, msg |-> @[i].msg,
                                     flags |-> FlagsIn(table, @[i].num)]],
        !.total = Len(hs), !.fresh = TRUE,
        !.unread = Cardinality({i \in DOMAIN hs : "UNREAD" \in FlagsIn(table, hs[i].num)}),
        !.last_num = IF f.marks.state # "ok" THEN @
                     ELSE IF hs = <<>> THEN 0
                     ELSE CHOOSE m \in NumsOf(hs) : \A j \in NumsOf(hs) : j <= m,
        !.mark_dirty = @ \/ f.marks.state # "ok" \/ ~(NumsOf(hs) \subseteq DOMAIN table)]
    BY <1>4, <1>5, <2>1, <2>2 DEF SetFlags
  <2>5. g = [y EXCEPT !.list = l, !.total = k, !.fresh = TRUE, !.unread = u, !.last_num = n,
                      !.mark_dirty = dirty]
    <3>1. DOMAIN y = DOMAIN r /\ {"list", "total", "fresh", "unread", "last_num", "mark_dirty"} \subseteq DOMAIN y
      BY <1>7, <2>2 DEF FolderItems
    <3>2. [i \in DOMAIN y.list |-> [num |-> y.list[i].num, msg |-> y.list[i].msg,
                                    flags |-> FlagsIn(table, y.list[i].num)]] = l
      BY <1>8, <1>10, <2>3
    <3>3. (y.mark_dirty \/ f.marks.state # "ok" \/ ~(NumsOf(hs) \subseteq DOMAIN table)) = dirty
      <4>1. y.mark_dirty \in BOOLEAN
        BY <1>7, <2>3 DEF FolderItems
      <4> QED
        BY <1>17, <2>3, <4>1
    <3>4. (IF f.marks.state # "ok" THEN y.last_num
           ELSE IF hs = <<>> THEN 0
           ELSE CHOOSE m \in NumsOf(hs) : \A j \in NumsOf(hs) : j <= m) = n
      BY <1>13, <2>3
    <3> QED
      BY <1>1, <1>12, <2>4, <3>2, <3>3, <3>4, Zenon
  <2> QED
    BY <1>7, <2>2, <2>5 DEF WithList, FolderItems
<1>19. /\ g \in FolderItems /\ g.stype = r.stype /\ g.file = r.file /\ g.opened = r.opened
       /\ g.list = l /\ SameCache(r, g) /\ g.last_num = n
  BY <1>7, <1>11, <1>12, <1>16, <1>18, SetList
<1>191. /\ g.total = k /\ g.unread = u /\ g.mark_dirty = dirty
        /\ g.marks = r.marks /\ g.mark_queue = r.mark_queue
  BY <1>7, <1>18 DEF WithList, FolderItems
<1>20. /\ g.cache = f.cache /\ g.cache_queue = <<>> /\ g.cache_dirty = cd
       /\ g.stype = f.stype /\ g.file = f.file /\ g.opened = f.opened
  BY <1>6, <1>7, <1>19 DEF SameCache, SameMail
<1>21. FlagsFrom(f, hs, g)
  <2>1. \A i \in 1..Len(hs) : g.list[i].flags = FlagsIn(MarkedTable(f), hs[i].num)
    BY <1>1, <1>4, <1>11, <1>19, <1>191
  <2>2. g.total = Len(hs) /\ g.unread = UnreadOf(MarkedTable(f), hs)
    BY <1>1, <1>4, <1>12, <1>191 DEF UnreadOf
  <2>3. ~g.mark_dirty => f.marks.state = "ok" /\ NumsOf(hs) \subseteq DOMAIN MarkedTable(f)
    BY <1>4, <1>17, <1>19, <1>191
  <2>4. f.last_num >= 0 => g.last_num >= 0
    BY <1>16, <1>19
  <2> QED
    BY <1>70, <1>19, <1>191, <2>1, <2>2, <2>3, <2>4 DEF FlagsFrom
<1> QED
  BY <1>1, <1>11, <1>16, <1>19, <1>20, <1>21 DEF FlagsSet

\* Each row of what is shown has the flags that the marks had of it, the marks
\* have what the rows have, and the rows are counted.
Flagged(f, g) ==
    /\ \A i \in 1..Len(g.list) : g.list[i].flags = FlagsIn(MarkedTable(f), g.list[i].num)
    /\ g.total = Len(g.list) /\ g.unread = UnreadOf(MarkedTable(f), g.list)
    /\ g.opened = f.opened
    /\ f.last_num >= 0 => g.last_num >= 0
    /\ ~f.opened /\ (f.mark_queue = <<>> \/ f.marks.state = "ok") =>
          /\ g.mark_queue = <<>> /\ g.marks.state = "ok" /\ ~g.mark_dirty
          /\ \/ g.marks.recs = MarksOf(g.list)
             \/ /\ f.marks.state = "ok" /\ NumsOf(g.list) \subseteq DOMAIN MarkedTable(f)
                /\ g.marks.recs = TableRecs(Table(f)) \/ (g.marks = f.marks /\ f.mark_queue = <<>>)

LEMMA GetMsgListIs ==
    ASSUME NEW f \in FolderItems, NEW strict0 \in BOOLEAN, CacheSound(f),
           f.cache.state = "ok" \/ f.cache_queue = <<>>,
           f.stype = "F_DRAFT" => strict0, f.fresh => Trusted(f),
           NEW g, g = GetMsgList(f, strict0)
    PROVE  g \in FolderItems /\ Listed(f, g) /\ Flagged(f, g)
<1>1. PICK all : all = CachedHeaders(f)
  OBVIOUS
<1>2. PICK read : read = ReadCached(f, strict0)
  OBVIOUS
<1>3. PICK cached : cached = IF f.fresh \/ strict0 THEN read ELSE LastWithFile(f, read)
  OBVIOUS
<1>4. PICK new : new = IF f.fresh /\ read # <<>> THEN {} ELSE FileNums(f) \ NumsOf(read)
  OBVIOUS
<1>5. /\ all \in Seq(Headers) /\ read \in Seq(Headers) /\ cached \in Seq(Headers)
      /\ Distinct(cached) /\ Right(f, cached) /\ NumsOf(cached) = NumsOf(read)
      /\ new \in SUBSET FileNums(f)
      /\ \A n \in NumsOf(cached) : n \in FileNums(f) /\ n \notin new
      /\ \A n \in FileNums(f) : n \in NumsOf(cached) \/ n \in new
      /\ ~(Len(cached) < Len(all)) => Right(f, all) /\ NumsOf(all) = NumsOf(cached)
  <2>1. CacheRead(f, all, read, cached, new)
    BY <1>1, <1>2, <1>3, <1>4, CachedIs
  <2> QED
    BY <2>1 DEF CacheRead
<1>6. PICK parsed : parsed = Parsed(f, new)
  OBVIOUS
<1>7. /\ parsed \in Seq(Headers) /\ Distinct(parsed) /\ Right(f, parsed) /\ NumsOf(parsed) = new
  BY <1>5, <1>6, ParsedIs
<1>8. PICK hs : hs = Joined(cached, parsed)
  OBVIOUS
<1>9. /\ hs \in Seq(Headers) /\ Distinct(hs)
      /\ \A n : n \in NumsOf(hs) <=> n \in NumsOf(cached) \/ n \in NumsOf(parsed)
  <2>1. Apart(cached, parsed)
    BY <1>5, <1>7 DEF Apart
  <2>2. hs \in Seq(Headers) /\ Distinct(hs)
    BY <1>5, <1>7, <1>8, <2>1, JoinedIs
  <2>3. \A n : n \in NumsOf(hs) <=> n \in NumsOf(cached) \/ n \in NumsOf(parsed)
    BY <1>5, <1>7, <1>8, JoinedIs
  <2> QED
    BY <2>2, <2>3
<1>10. Right(f, hs) /\ NumsOf(hs) = FileNums(f)
  <2>1. Right(f, hs)
    BY <1>5, <1>7, <1>8, JoinedSound
  <2>2. \A n \in NumsOf(hs) : n \in FileNums(f)
    BY <1>5, <1>7, <1>9
  <2>3. \A n \in FileNums(f) : n \in NumsOf(hs)
    BY <1>5, <1>7, <1>9
  <2> QED
    BY <2>1, <2>2, <2>3
<1>11. PICK cd \in BOOLEAN : cd <=> \/ f.cache_dirty \/ f.cache.state \in {"none", "torn"} \/ new # {}
                                    \/ f.cache.state = "ok" /\ f.cache_queue # <<>>
                                    \/ Len(cached) < Len(all)
  OBVIOUS
<1>12. PICK md \in BOOLEAN : md <=> f.mark_dirty \/ Len(cached) < Len(read)
  OBVIOUS
<1>13. PICK e : e = ReadCache(f, strict0, read)
  OBVIOUS
<1>14. e = WithRead(f, hs, cd, md)
  <2>1. e = CacheAndNew(f, read, cached, new)
    BY <1>3, <1>4, <1>13 DEF ReadCache
  <2>2. f.cache_queue = (IF f.cache.state = "ok" THEN <<>> ELSE f.cache_queue) \/ f.cache.state = "ok"
    OBVIOUS
  <2>3. (IF f.cache.state = "ok" THEN <<>> ELSE f.cache_queue) = <<>>
    OBVIOUS
  <2>4. f.cache_dirty \in BOOLEAN /\ f.mark_dirty \in BOOLEAN
    BY DEF FolderItems
  <2>5. (\/ f.cache_dirty \/ f.cache.state \in {"none", "torn"} \/ new # {}
         \/ f.cache.state = "ok" /\ f.cache_queue # <<>>
         \/ Len(cached) < Len(all)) = cd
    BY <1>11
  <2>6. (f.mark_dirty \/ Len(cached) < Len(read)) = md
    BY <1>12
  <2>7. e = [f EXCEPT !.list = cached \o Parsed(f, new),
              !.cache_queue = IF f.cache.state = "ok" THEN <<>> ELSE f.cache_queue,
              !.cache_dirty = \/ f.cache_dirty \/ f.cache.state \in {"none", "torn"} \/ new # {}
                              \/ f.cache.state = "ok" /\ f.cache_queue # <<>>
                              \/ Len(cached) < Len(all),
              !.mark_dirty = f.mark_dirty \/ Len(cached) < Len(read)]
    BY <1>1, <2>1 DEF CacheAndNew, FolderItems
  <2> QED
    BY <1>6, <1>8, <2>3, <2>5, <2>6, <2>7, Zenon DEF WithRead, Joined
<1>15. PICK h : h = SetFlags(e, MarkedTable(f))
  OBVIOUS
<1>16. /\ h \in FolderItems /\ h.stype = f.stype /\ h.file = f.file /\ h.opened = f.opened
       /\ h.cache = f.cache /\ h.cache_queue = <<>> /\ h.cache_dirty = cd
       /\ Len(h.list) = Len(hs)
       /\ \A i \in 1..Len(hs) : h.list[i].num = hs[i].num /\ h.list[i].msg = hs[i].msg
       /\ h.last_num = f.last_num \/ \A k \in NumsOf(hs) : k <= h.last_num
       /\ FlagsFrom(f, hs, h)
  <2>1. FlagsSet(f, hs, cd, h)
    BY <1>9, <1>14, <1>15, SetFlagsIs
  <2> QED
    BY <2>1 DEF FlagsSet
<1>17. PICK c : c = WriteCacheList(h)
  OBVIOUS
<1>18. /\ c \in FolderItems /\ SameMail(h, c) /\ SameSums(h, c) /\ SameMarks(h, c)
       /\ c.cache_queue = <<>> /\ ~c.cache_dirty
       /\ ~h.cache_dirty => c.cache = h.cache
       /\ h.cache_dirty => c.cache.state = "ok" /\ c.cache.recs = HeadersOf(h.list)
  BY <1>16, <1>17, WriteCacheListIs
<1>19. g = WriteFlagsList(c)
  <2>1. e = ReadCache(f, strict0, ReadCached(f, strict0))
    BY <1>2, <1>13
  <2>2. g = WriteFlagsList(WriteCacheList(SetFlags(e, MarkedTable(f))))
    BY <2>1 DEF GetMsgList
  <2> QED
    BY <1>15, <1>17, <2>2
<1>20. g \in FolderItems /\ SameMail(c, g) /\ SameSums(c, g) /\ SameCache(c, g)
  BY <1>18, <1>19, WriteFlagsListIs
<1>200. IF c.mark_dirty
        THEN /\ g.marks.state = "ok" /\ g.marks.recs = Joined(MarksOf(c.list), c.mark_queue)
             /\ g.mark_queue = <<>> /\ ~g.mark_dirty
        ELSE g = c
  BY <1>18, <1>19, WriteFlagsListIs
<1>21. PICK l \in Seq(MsgInfos) : l = h.list
  BY <1>16 DEF FolderItems
<1>22. /\ Distinct(l) /\ Right(f, l) /\ NumsOf(l) = FileNums(f)
  <2>1. Distinct(l)
    BY <1>9, <1>16, <1>21 DEF Distinct
  <2>2. Right(f, l)
    BY <1>10, <1>16, <1>21 DEF Right
  <2>3. \A n : n \in NumsOf(l) <=> \E i \in 1..Len(l) : l[i].num = n
    BY NumsOfIs
  <2>4. \A n : n \in NumsOf(hs) <=> \E i \in 1..Len(hs) : hs[i].num = n
    BY <1>9, NumsOfIs
  <2>5. \A n : n \in NumsOf(l) <=> n \in NumsOf(hs)
    BY <1>16, <1>21, <2>3, <2>4
  <2> QED
    BY <1>10, <2>1, <2>2, <2>5
<1>23. /\ g.file = f.file /\ g.stype = f.stype /\ g.list = l /\ g.cache_queue = <<>> /\ ~g.cache_dirty
       /\ g.cache = c.cache /\ g.last_num = h.last_num
  BY <1>16, <1>18, <1>20, <1>21 DEF SameMail, SameSums, SameCache
<1>24. /\ Distinct(g.cache.recs) /\ Right(f, g.cache.recs) /\ NumsOf(g.cache.recs) = FileNums(f)
  <2>1. CASE h.cache_dirty
    <3>1. g.cache.recs = HeadersOf(l)
      BY <1>18, <1>21, <1>23, <2>1
    <3>2. PICK ls : ls = HeadersOf(l)
      OBVIOUS
    <3>3. NumsOf(ls) = NumsOf(l) /\ Distinct(ls) /\ Right(f, ls)
      BY <1>22, <3>2, HeadersOfIs
    <3> QED
      BY <1>22, <3>1, <3>2, <3>3
  <2>2. CASE ~h.cache_dirty
    <3>1. g.cache = f.cache
      BY <1>16, <1>18, <1>23, <2>2
    <3>2. /\ f.cache_queue = <<>> /\ new = {} /\ ~(Len(cached) < Len(all))
          /\ f.cache.state \notin {"none", "torn"}
      BY <1>11, <1>16, <2>2
    <3>3. PICK rs \in Seq(Headers) : rs = f.cache.recs
      BY DEF FolderItems, Written
    <3>4. all = rs
      <4>1. CASE f.cache.state = "ok"
        <5>1. all = Joined(rs, <<>>)
          BY <1>1, <3>2, <3>3, <4>1, EmptyIs DEF CachedHeaders, Joined
        <5>2. Joined(rs, <<>>) = rs
          BY ConcatEmptySeq DEF Joined
        <5> QED
          BY <5>1, <5>2
      <4>2. CASE f.cache.state = "broken"
        BY <1>1, <3>3, <4>2 DEF CachedHeaders, FolderItems, Written
      <4> QED
        BY <3>2, <4>1, <4>2 DEF FolderItems, Written
    <3>5. Right(f, rs) /\ NumsOf(rs) = NumsOf(cached)
      BY <1>5, <3>2, <3>4
    <3>6. NumsOf(cached) = FileNums(f)
      BY <1>5, <3>2
    <3>7. Distinct(rs)
      BY <3>3 DEF CacheSound
    <3> QED
      BY <3>1, <3>2, <3>3, <3>5, <3>6, <3>7
  <2> QED
    BY <2>1, <2>2
<1>25. g.last_num = f.last_num \/ \A k \in FileNums(f) : k <= g.last_num
  BY <1>10, <1>16, <1>23
<1>26. Flagged(f, g)
  <2>1. /\ \A i \in 1..Len(hs) : l[i].num = hs[i].num /\ l[i].flags = FlagsIn(MarkedTable(f), hs[i].num)
        /\ Len(l) = Len(hs)
    BY <1>16, <1>21 DEF FlagsFrom
  <2>2. \A i \in 1..Len(g.list) : g.list[i].flags = FlagsIn(MarkedTable(f), g.list[i].num)
    BY <1>23, <2>1
  <2>3. g.total = Len(g.list)
    BY <1>16, <1>18, <1>20, <1>23, <2>1 DEF FlagsFrom, SameSums
  <2>4. g.unread = UnreadOf(MarkedTable(f), g.list)
    <3>1. DOMAIN l = DOMAIN hs
      BY <1>9, <2>1
    <3>2. \A i \in DOMAIN hs : l[i].num = hs[i].num
      BY <1>9, <2>1
    <3>3. {i \in DOMAIN l : "UNREAD" \in FlagsIn(MarkedTable(f), l[i].num)}
            = {i \in DOMAIN hs : "UNREAD" \in FlagsIn(MarkedTable(f), hs[i].num)}
      BY <3>1, <3>2
    <3>4. UnreadOf(MarkedTable(f), l) = UnreadOf(MarkedTable(f), hs)
      BY <3>3 DEF UnreadOf
    <3>5. g.unread = UnreadOf(MarkedTable(f), hs)
      BY <1>16, <1>18, <1>20 DEF FlagsFrom, SameSums
    <3> QED
      BY <1>23, <3>4, <3>5
  <2>5. g.opened = f.opened
    BY <1>16, <1>18, <1>20 DEF SameMail
  <2>6. ASSUME ~f.opened, f.mark_queue = <<>> \/ f.marks.state = "ok"
        PROVE  /\ g.mark_queue = <<>> /\ g.marks.state = "ok" /\ ~g.mark_dirty
               /\ \/ g.marks.recs = MarksOf(g.list)
                  \/ /\ f.marks.state = "ok" /\ NumsOf(g.list) \subseteq DOMAIN MarkedTable(f)
                     /\ g.marks.recs = TableRecs(Table(f)) \/ (g.marks = f.marks /\ f.mark_queue = <<>>)
    <3>0. c.mark_queue = h.mark_queue /\ c.marks = h.marks /\ c.mark_dirty = h.mark_dirty
      BY <1>18 DEF SameMarks
    <3>1. /\ h.mark_queue = <<>> /\ c.mark_queue = <<>> /\ c.marks = h.marks
          /\ c.mark_dirty = h.mark_dirty
      <4>1. h.mark_queue = <<>> \/ f.opened \/ f.marks.state # "ok"
        BY <1>16 DEF FlagsFrom
      <4>2. \/ h.marks = f.marks /\ h.mark_queue = f.mark_queue
            \/ /\ h.marks.recs = TableRecs(Table(f)) /\ h.marks.state = "ok"
               /\ h.mark_queue = <<>>
        BY <1>16 DEF FlagsFrom
      <4>3. h.mark_queue = <<>>
        BY <2>6, <4>1, <4>2
      <4> QED
        BY <3>0, <4>3
    <3>2. CASE c.mark_dirty
      <4>1. c.list = l
        BY <1>18, <1>21 DEF SameMail
      <4>2. PICK ms \in Seq(Marks) : ms = MarksOf(l)
        BY MarksTypes
      <4>3. Joined(ms, <<>>) = ms
        BY ConcatEmptySeq DEF Joined
      <4> QED
        BY <1>200, <1>23, <3>1, <3>2, <4>1, <4>2, <4>3
    <3>3. CASE ~c.mark_dirty
      <4>1. g = c /\ ~h.mark_dirty
        BY <1>200, <3>1, <3>3
      <4>2. f.marks.state = "ok" /\ NumsOf(hs) \subseteq DOMAIN MarkedTable(f)
        BY <1>16, <4>1 DEF FlagsFrom
      <4>3. NumsOf(g.list) = NumsOf(hs)
        BY <1>10, <1>22, <1>23
      <4>4. \/ h.marks = f.marks /\ h.mark_queue = f.mark_queue
            \/ h.marks.recs = TableRecs(Table(f)) /\ h.marks.state = "ok"
        BY <1>16 DEF FlagsFrom
      <4> QED
        BY <3>1, <3>3, <4>1, <4>2, <4>3, <4>4
    <3> QED
      BY <3>2, <3>3
  <2>7. f.last_num >= 0 => g.last_num >= 0
    <3>1. f.last_num >= 0 => h.last_num >= 0
      BY <1>16 DEF FlagsFrom
    <3>2. g.last_num = h.last_num
      BY <1>18, <1>20 DEF SameSums
    <3> QED
      BY <3>1, <3>2
  <2> QED
    BY <2>2, <2>3, <2>4, <2>5, <2>6, <2>7 DEF Flagged
<1> QED
  BY <1>20, <1>22, <1>23, <1>24, <1>25, <1>26 DEF Listed

Opened(f) == [f EXCEPT !.opened = TRUE]

\* What Flagged says, of a folder that is shown.
FlaggedOpen(f, g) ==
    /\ \A i \in 1..Len(g.list) : g.list[i].flags = FlagsIn(MarkedTable(f), g.list[i].num)
    /\ g.total = Len(g.list) /\ g.unread = UnreadOf(MarkedTable(f), g.list)
    /\ g.cache_queue = <<>> /\ NumsOf(g.list) = FileNums(f)
    /\ f.last_num >= 0 => g.last_num >= 0
    /\ ~f.opened /\ (f.mark_queue = <<>> \/ f.marks.state = "ok") =>
          /\ g.mark_queue = <<>> /\ g.marks.state = "ok"
          /\ \/ g.marks.recs = MarksOf(g.list)
             \/ /\ f.marks.state = "ok" /\ NumsOf(g.list) \subseteq DOMAIN MarkedTable(f)
                /\ g.marks.recs = TableRecs(Table(f)) \/ (g.marks = f.marks /\ f.mark_queue = <<>>)

LEMMA OpenIs ==
    ASSUME NEW f \in FolderItems, NEW strict0 \in BOOLEAN, CacheSound(f), Numbered(f),
           f.cache.state = "ok" \/ f.cache_queue = <<>>,
           f.stype = "F_DRAFT" => strict0, f.fresh => Trusted(f),
           NEW g, g = Open(f, strict0)
    PROVE  /\ g \in FolderItems /\ g.file = f.file /\ g.stype = f.stype /\ g.opened
           /\ Good(g) /\ Covered(g) /\ Trusted(g)
           /\ FlaggedOpen(f, g)
<1>1. PICK h : h = GetMsgList(f, strict0)
  OBVIOUS
<1>2. h \in FolderItems /\ Listed(f, h) /\ Flagged(f, h)
  BY <1>1, GetMsgListIs
<1>3. PICK c : c = WriteCache(h)
  OBVIOUS
<1>4. /\ c \in FolderItems /\ SameMail(h, c) /\ SameSums(h, c)
      /\ ~c.cache_dirty /\ ~c.mark_dirty /\ c.mark_queue = <<>>
  BY <1>2, <1>3, WriteCacheIs
<1>5. \/ /\ h.mark_queue = <<>> /\ ~h.cache_dirty
         /\ c.cache = h.cache /\ c.cache_queue = h.cache_queue
      \/ /\ c.cache_queue = <<>>
         /\ ~h.cache_dirty /\ h.cache_queue = <<>> => c.cache = h.cache
  BY <1>2, <1>3, WriteCacheIs
<1>6. c.cache_queue = <<>> /\ c.cache = h.cache
  BY <1>2, <1>5 DEF Listed
<1>7. g = Opened(c)
  BY <1>1, <1>3 DEF Open, Opened
<1>8. /\ g \in FolderItems /\ g.file = c.file /\ g.stype = c.stype /\ g.opened /\ g.list = c.list
      /\ SameCache(c, g) /\ SameSums(c, g)
  <2>1. g \in FolderItems
    BY <1>4, <1>7 DEF FolderItems, Opened
  <2> QED
    BY <1>4, <1>7, <2>1 DEF FolderItems, Opened, SameCache, SameSums
<1>9. /\ g.file = f.file /\ g.stype = f.stype /\ g.list = h.list /\ g.cache = h.cache
      /\ g.cache_queue = <<>> /\ ~g.cache_dirty /\ g.last_num = h.last_num
  BY <1>2, <1>4, <1>6, <1>8 DEF SameMail, SameCache, SameSums, Listed
<1>10. /\ FileNums(g) = FileNums(f)
       /\ \A rs : Right(f, rs) => Right(g, rs)
       /\ \A rs : AllSound(f, rs) => AllSound(g, rs)
  BY <1>9, SameFiles
<1>11. CacheSound(g)
  <2>1. Distinct(g.cache.recs) /\ Right(g, g.cache.recs)
    BY <1>2, <1>9, <1>10 DEF Listed
  <2>2. AllSound(g, g.cache.recs)
    BY <2>1 DEF Right, AllSound, Sound
  <2> QED
    BY <1>9, <2>1, <2>2, EmptyIs DEF CacheSound
<1>12. RowsSound(g) /\ Covered(g)
  <2>1. Distinct(g.list) /\ Right(g, g.list) /\ NumsOf(g.list) = FileNums(g)
    BY <1>2, <1>9, <1>10 DEF Listed
  <2> QED
    BY <1>9, <2>1, EmptyIs DEF RowsSound, Covered
<1>13. Numbered(g)
  <2>1. g.last_num = f.last_num \/ \A k \in FileNums(f) : k <= g.last_num
    BY <1>2, <1>9 DEF Listed
  <2> QED
    BY <1>9, <1>10, <2>1 DEF Numbered
<1>14. Good(g)
  BY <1>2, <1>8, <1>9, <1>11, <1>12, <1>13 DEF Good, Waiting, Listed
<1>15. Trusted(g)
  BY <1>2, <1>9, <1>10 DEF Trusted, Listed
<1>16. FlaggedOpen(f, g)
  <2>1. g.total = h.total /\ g.unread = h.unread
    BY <1>4, <1>8 DEF SameSums
  <2>2. g.list = h.list /\ NumsOf(g.list) = FileNums(f)
    BY <1>2, <1>9 DEF Listed
  <2>3. ASSUME ~f.opened, f.mark_queue = <<>> \/ f.marks.state = "ok"
        PROVE  g.mark_queue = <<>> /\ g.marks = h.marks
    <3>1. h.mark_queue = <<>> /\ ~h.mark_dirty /\ ~h.cache_dirty
      BY <1>2, <2>3 DEF Flagged, Listed
    <3>2. c = h
      BY <1>2, <1>3, <3>1, WriteCacheIs DEF MarksPending
    <3> QED
      BY <1>2, <1>7, <3>1, <3>2 DEF Opened, FolderItems
  <2> QED
    BY <1>2, <1>9, <2>1, <2>2, <2>3 DEF Flagged, FlaggedOpen
<1> QED
  BY <1>8, <1>9, <1>12, <1>14, <1>15, <1>16

-----------------------------------------------------------------------------
\* Closing and showing.

LEMMA CloseIs ==
    ASSUME NEW f \in FolderItems, NEW g, g = Close(f)
    PROVE  /\ g \in FolderItems /\ g.stype = f.stype /\ g.file = f.file /\ ~g.opened /\ g.list = <<>>
           /\ SameMarks(f, g) /\ SameCache(f, g) /\ SameSums(f, g) /\ g.fresh = f.fresh
<1>1. <<>> \in Seq(MsgInfos)
  OBVIOUS
<1>2. g = [f EXCEPT !.opened = FALSE, !.list = <<>>]
  BY DEF Close
<1>3. g \in FolderItems
  BY <1>1, <1>2 DEF FolderItems
<1> QED
  BY <1>2, <1>3 DEF FolderItems, SameMarks, SameCache, SameSums

LEMMA ClosedGood ==
    ASSUME NEW f \in FolderItems, CacheSound(f), Numbered(f), NEW g, g = Close(f)
    PROVE  /\ g \in FolderItems /\ Good(g) /\ g.file = f.file /\ g.stype = f.stype /\ ~g.opened
           /\ g.cache = f.cache /\ g.cache_queue = f.cache_queue
           /\ g.last_num = f.last_num
           /\ g.fresh = f.fresh
           /\ Trusted(f) => Trusted(g)
<1>1. /\ g \in FolderItems /\ g.stype = f.stype /\ g.file = f.file /\ ~g.opened /\ g.list = <<>>
      /\ SameCache(f, g) /\ SameSums(f, g) /\ g.fresh = f.fresh
  BY CloseIs
<1>2. /\ FileNums(g) = FileNums(f)
      /\ \A rs : AllSound(f, rs) => AllSound(g, rs)
  BY <1>1, SameFiles
<1>3. CacheSound(g)
  BY <1>1, <1>2 DEF CacheSound, SameCache
<1>4. Numbered(g) /\ Waiting(g)
  BY <1>1, <1>2 DEF Numbered, Waiting, SameSums
<1>5. ASSUME Trusted(f) PROVE Trusted(g)
  <2>1. ~g.cache_dirty /\ g.cache = f.cache /\ g.cache_queue = f.cache_queue
    BY <1>1, <1>5 DEF Trusted, SameCache
  <2> QED
    BY <1>1, <1>5, <2>1, SameTrusted
<1> QED
  BY <1>1, <1>3, <1>4, <1>5 DEF Good, SameCache, SameSums

\* The folder is written, closed and read again, whatever rows it had.
LEMMA ReopenedIs ==
    ASSUME NEW f \in FolderItems, NEW w, w = WriteCache(f), w \in FolderItems, SameMail(f, w),
           CacheSound(w), Numbered(w), w.cache.state = "ok" \/ w.cache_queue = <<>>,
           NEW st \in BOOLEAN, f.stype = "F_DRAFT" => st, w.fresh => Trusted(w),
           NEW g, g = Refresh(f, st)
    PROVE  /\ g \in FolderItems /\ g.file = f.file /\ g.stype = f.stype /\ g.opened
           /\ Good(g) /\ Covered(g) /\ Trusted(g)
<1>1. PICK c : c = Close(w)
  OBVIOUS
<1>2. /\ c \in FolderItems /\ Good(c) /\ c.file = w.file /\ c.stype = w.stype /\ ~c.opened
      /\ c.cache = w.cache /\ c.cache_queue = w.cache_queue
  BY <1>1, ClosedGood
<1>3. c.fresh = w.fresh
  BY <1>1, ClosedGood
<1>4. Trusted(w) => Trusted(c)
  BY <1>1, ClosedGood
<1>5. c.fresh => Trusted(c)
  BY <1>3, <1>4
<1>6. c.file = f.file /\ c.stype = f.stype
  BY <1>2 DEF SameMail
<1>7. CacheSound(c) /\ Numbered(c)
  BY <1>2 DEF Good
<1>8. g = Open(c, st)
  BY <1>1 DEF Refresh
<1>9. c.stype = "F_DRAFT" => st
  BY <1>6
<1>10. c.cache.state = "ok" \/ c.cache_queue = <<>>
  BY <1>2
<1>11. /\ g \in FolderItems /\ g.file = c.file /\ g.stype = c.stype /\ g.opened
       /\ Good(g) /\ Covered(g) /\ Trusted(g)
  BY <1>2, <1>5, <1>7, <1>8, <1>9, <1>10, OpenIs
<1> QED
  BY <1>6, <1>11

LEMMA RefreshIs ==
    ASSUME NEW f \in FolderItems, Good(f), f.opened, f.fresh => Trusted(f),
           NEW st \in BOOLEAN, f.stype = "F_DRAFT" => st, NEW g, g = Refresh(f, st)
    PROVE  /\ g \in FolderItems /\ g.file = f.file /\ g.stype = f.stype /\ g.opened
           /\ Good(g) /\ Covered(g) /\ Trusted(g)
<1>1. PICK w : w = WriteCache(f)
  OBVIOUS
<1>2. w \in FolderItems /\ SameMail(f, w) /\ Good(w) /\ w.cache_queue = <<>>
  BY <1>1, WriteCacheGood
<1>3. w.fresh => f.fresh
  BY <1>1, WriteCacheGood
<1>4. Trusted(f) => Trusted(w)
  BY <1>1, WriteCacheGood
<1>5. CacheSound(w) /\ Numbered(w)
  BY <1>2 DEF Good
<1>6. w.fresh => Trusted(w)
  BY <1>3, <1>4
<1> QED
  BY <1>1, <1>2, <1>5, <1>6, ReopenedIs

WithShown(f, l) ==
    [f EXCEPT !.list = l, !.mark_queue = <<>>, !.cache_queue = <<>>, !.cache_dirty = TRUE]

LEMMA ShowQueuedIs ==
    ASSUME NEW f \in FolderItems, Good(f), f.opened, f.cache_queue # <<>>, NEW g, g = ShowQueued(f)
    PROVE  /\ g \in FolderItems /\ Good(g) /\ g.file = f.file /\ g.stype = f.stype /\ g.opened
           /\ g.fresh => f.fresh
           /\ Covered(f) => Covered(g)
<1>1. PICK l \in Seq(MsgInfos) : l = f.list
  BY DEF FolderItems
<1>2. PICK q \in Seq(MsgInfos) : q = f.cache_queue
  BY DEF FolderItems
<1>3. PICK t : t = Joined(l, q)
  OBVIOUS
<1>4. Distinct(l) /\ Distinct(q) /\ Apart(l, q) /\ Right(f, l) /\ Right(f, q)
  BY <1>1, <1>2 DEF Good, RowsSound, CacheSound
<1>5. t \in Seq(MsgInfos) /\ Distinct(t)
  BY <1>3, <1>4, JoinedIs
<1>6. \A n : n \in NumsOf(t) <=> n \in NumsOf(l) \/ n \in NumsOf(q)
  BY <1>3, JoinedIs
<1>7. Right(f, t)
  BY <1>3, <1>4, JoinedSound
<1>8. g = WithShown(f, t)
  BY <1>1, <1>2, <1>3 DEF ShowQueued, WithShown, Joined, FolderItems
<1>9. <<>> \in Seq(Marks) /\ <<>> \in Seq(MsgInfos)
  OBVIOUS
<1>10. g \in FolderItems
  BY <1>5, <1>8, <1>9 DEF WithShown, FolderItems
<1>11. /\ g.stype = f.stype /\ g.file = f.file /\ g.opened = f.opened /\ g.list = t
       /\ g.cache = f.cache /\ g.cache_queue = <<>> /\ g.last_num = f.last_num /\ g.fresh = f.fresh
  BY <1>8 DEF WithShown, FolderItems
<1>12. /\ FileNums(g) = FileNums(f)
       /\ \A rs : Right(f, rs) => Right(g, rs)
       /\ \A rs : AllSound(f, rs) => AllSound(g, rs)
  BY <1>11, SameFiles
<1>13. CacheSound(g)
  BY <1>11, <1>12, EmptyIs DEF Good, CacheSound
<1>14. RowsSound(g)
  BY <1>5, <1>7, <1>11, <1>12, EmptyIs DEF RowsSound
<1>15. Numbered(g) /\ Waiting(g)
  BY <1>11, <1>12 DEF Good, Numbered, Waiting
<1>16. Covered(f) => Covered(g)
  BY <1>1, <1>2, <1>6, <1>11, <1>12 DEF Covered
<1> QED
  BY <1>10, <1>11, <1>13, <1>14, <1>15, <1>16 DEF Good

\* A new process, with what it finds in the directory.
Again(f, d) ==
    [f EXCEPT !.last_num = -1, !.opened = FALSE, !.list = <<>>,
              !.mark_queue = <<>>, !.cache_queue = <<>>,
              !.mark_dirty = FALSE, !.cache_dirty = FALSE, !.fresh = d]

LEMMA AgainIs ==
    ASSUME NEW f \in FolderItems, Distinct(f.cache.recs), AllSound(f, f.cache.recs), NEW d \in BOOLEAN,
           NEW g, g = Again(f, d)
    PROVE  /\ g \in FolderItems /\ Good(g) /\ g.file = f.file /\ g.stype = f.stype /\ ~g.opened
           /\ g.fresh = d
           /\ Trusted(f) => Trusted(g)
<1>1. <<>> \in Seq(Marks) /\ <<>> \in Seq(MsgInfos)
  OBVIOUS
<1>2. -1 \in -1..MaxNum
  BY NumsAre
<1>3. g \in FolderItems
  BY <1>1, <1>2 DEF Again, FolderItems
<1>4. /\ g.file = f.file /\ g.stype = f.stype /\ ~g.opened /\ g.fresh = d /\ g.list = <<>>
      /\ g.cache = f.cache /\ g.cache_queue = <<>> /\ ~g.cache_dirty /\ g.last_num = -1
  BY DEF Again, FolderItems
<1>5. \A rs : AllSound(f, rs) => AllSound(g, rs)
  BY <1>4, SameFiles
<1>6. CacheSound(g)
  BY <1>4, <1>5, EmptyIs DEF CacheSound
<1>7. Numbered(g) /\ Waiting(g)
  BY <1>4 DEF Numbered, Waiting
<1>8. ASSUME Trusted(f) PROVE Trusted(g)
  <2>1. g.cache_queue = f.cache_queue
    BY <1>4, <1>8 DEF Trusted
  <2> QED
    BY <1>4, <1>8, <2>1, SameTrusted
<1> QED
  BY <1>3, <1>4, <1>6, <1>7, <1>8 DEF Good

-----------------------------------------------------------------------------
\* Messages that leave.

\* The first i of the messages rs are gone.
Removed(f, g, rs, i) ==
    /\ g.stype = f.stype /\ g.opened = f.opened /\ g.list = f.list
    /\ SameMarks(f, g) /\ SameCache(f, g)
    /\ \A k \in Nums : (\E j \in 1..i : rs[j].num = k) => g.file[k] = None
    /\ \A k \in Nums : (\A j \in 1..i : rs[j].num # k) => g.file[k] = f.file[k]
    /\ i # 0 => ~g.fresh

WithFile(f, k, m) == [f.file EXCEPT ![k] = m]
Taken(f, file, n, u) == [f EXCEPT !.file = file, !.total = n, !.unread = u, !.fresh = FALSE]

LEMMA TakeAwayIs ==
    ASSUME NEW f \in FolderItems, NEW r, r.num \in Nums, r.flags \in Flags, NEW g, g = TakeAway(f, r)
    PROVE  /\ g \in FolderItems /\ SameMarks(f, g) /\ SameCache(f, g) /\ ~g.fresh
           /\ g.stype = f.stype /\ g.opened = f.opened /\ g.list = f.list /\ g.last_num = f.last_num
           /\ g.file[r.num] = None /\ \A k \in Nums : k # r.num => g.file[k] = f.file[k]
<1>1. PICK k \in Nums : k = r.num
  OBVIOUS
<1>2. PICK file : file = WithFile(f, k, None)
  OBVIOUS
<1>3. /\ file \in [Nums -> Msgs \cup {None}] /\ file[k] = None
      /\ \A j \in Nums : j # k => file[j] = f.file[j]
  BY <1>2 DEF WithFile, FolderItems
<1>4. PICK n \in Int : n = f.total - 1
  BY DEF FolderItems
<1>5. PICK u \in Int : u = f.unread - Unread(r.flags)
  <2>1. Unread(r.flags) \in {0, 1}
    BY FlagsTypes
  <2>2. f.unread - Unread(r.flags) \in Int
    BY <2>1 DEF FolderItems
  <2> QED
    BY <2>2
<1>6. g = Taken(f, file, n, u)
  <2>1. g = [f EXCEPT !.file[k] = None, !.total = f.total - 1, !.unread = f.unread - Unread(r.flags),
                      !.fresh = FALSE]
    BY <1>1 DEF TakeAway
  <2> QED
    BY <1>2, <1>4, <1>5, <2>1, Zenon DEF Taken, WithFile
<1>7. g \in FolderItems
  BY <1>3, <1>4, <1>5, <1>6, ZenonT(60) DEF Taken, FolderItems
<1>8. /\ g.file = file /\ SameMarks(f, g) /\ SameCache(f, g) /\ ~g.fresh
      /\ g.stype = f.stype /\ g.opened = f.opened /\ g.list = f.list /\ g.last_num = f.last_num
  BY <1>6 DEF Taken, FolderItems, SameMarks, SameCache
<1> QED
  BY <1>1, <1>3, <1>7, <1>8

LEMMA TakenAll ==
    ASSUME NEW f \in FolderItems, NEW rs \in Seq(MsgInfos), NEW w, Trace("taking", f, rs, w),
           NEW i \in 0..Len(rs)
    PROVE  w[i] \in FolderItems /\ Removed(f, w[i], rs, i) /\ w[i].last_num = f.last_num
<1>1. PICK n \in Nat : n = Len(rs)
  OBVIOUS
<1> DEFINE Fine(j) == w[j] \in FolderItems /\ Removed(f, w[j], rs, j) /\ w[j].last_num = f.last_num
           U == {j \in Nat : j > n \/ Fine(j)}
<1>2. \A j \in 1..n : w[j] = TakeAway(w[j - 1], rs[j]) /\ rs[j] \in MsgInfos
  BY <1>1 DEF Trace, One
<1>3. w[0] = f
  BY DEF Trace
<1>4. Fine(0)
  <2>1. Removed(f, f, rs, 0)
    BY DEF Removed, SameMarks, SameCache
  <2> QED
    BY <1>3, <2>1
<1>5. ASSUME NEW j \in Nat, j < n, Fine(j) PROVE Fine(j + 1)
  <2>1. PICK g \in FolderItems : g = w[j]
    BY <1>5
  <2>2. PICK h : h = w[j + 1]
    OBVIOUS
  <2>3. PICK r \in MsgInfos : r = rs[j + 1]
    BY <1>2, <1>5
  <2>4. h = TakeAway(g, r)
    BY <1>2, <1>5, <2>1, <2>2, <2>3
  <2>5. r.num \in Nums /\ r.flags \in Flags
    BY DEF MsgInfos
  <2>6. /\ h \in FolderItems /\ SameMarks(g, h) /\ SameCache(g, h) /\ ~h.fresh
        /\ h.stype = g.stype /\ h.opened = g.opened /\ h.list = g.list /\ h.last_num = g.last_num
        /\ h.file[r.num] = None /\ \A k \in Nums : k # r.num => h.file[k] = g.file[k]
    BY <2>4, <2>5, TakeAwayIs
  <2>7. Removed(f, g, rs, j) /\ g.last_num = f.last_num
    BY <1>5, <2>1
  <2>8. ASSUME NEW k \in Nums, \E e \in 1..(j + 1) : rs[e].num = k PROVE h.file[k] = None
    <3>1. PICK e \in 1..(j + 1) : rs[e].num = k
      BY <2>8
    <3>2. CASE k = r.num
      BY <2>6, <3>2
    <3>3. CASE k # r.num
      <4>1. e # j + 1
        BY <2>3, <3>1, <3>3
      <4>2. e \in 1..j
        BY <4>1
      <4>3. g.file[k] = None
        BY <2>7, <3>1, <4>2 DEF Removed
      <4> QED
        BY <2>6, <3>3, <4>3
    <3> QED
      BY <3>2, <3>3
  <2>9. ASSUME NEW k \in Nums, \A e \in 1..(j + 1) : rs[e].num # k PROVE h.file[k] = f.file[k]
    <3>1. k # r.num
      BY <2>3, <2>9
    <3>2. \A e \in 1..j : rs[e].num # k
      BY <2>9
    <3>3. g.file[k] = f.file[k]
      BY <2>7, <3>2 DEF Removed
    <3> QED
      BY <2>6, <3>1, <3>3
  <2>10. /\ h.stype = f.stype /\ h.opened = f.opened /\ h.list = f.list
         /\ SameMarks(f, h) /\ SameCache(f, h)
    BY <2>6, <2>7 DEF Removed, SameMarks, SameCache
  <2>11. Removed(f, h, rs, j + 1)
    BY <2>6, <2>8, <2>9, <2>10 DEF Removed
  <2> QED
    BY <2>2, <2>6, <2>7, <2>11
<1> HIDE DEF Fine
<1>6. 0 \in U
  BY <1>4
<1>7. \A j \in U : j + 1 \in U
  <2> SUFFICES ASSUME NEW j \in U PROVE j + 1 \in U
    OBVIOUS
  <2>1. j \in Nat /\ (j > n \/ Fine(j))
    OBVIOUS
  <2>2. j + 1 > n \/ (j < n /\ Fine(j))
    BY <2>1
  <2>3. j + 1 > n \/ Fine(j + 1)
    BY <1>5, <2>1, <2>2
  <2> QED
    BY <2>1, <2>3
<1> HIDE DEF U
<1>8. U = Nat
  BY <1>6, <1>7, SetInduction DEF U
<1>9. Fine(i)
  BY <1>1, <1>8 DEF U
<1> QED
  BY <1>9 DEF Fine

LEMMA AllTaken ==
    ASSUME NEW f \in FolderItems, NEW rs \in Seq(MsgInfos), NEW g, g = FoldLeft(TakeAway, f, rs)
    PROVE  g \in FolderItems /\ Removed(f, g, rs, Len(rs)) /\ g.last_num = f.last_num
<1>1. PICK n \in Nat : n = Len(rs)
  OBVIOUS
<1>2. DOMAIN rs = 1..n
  BY <1>1
<1>3. PICK w : Trace("taking", f, rs, w) /\ w[n] = g
  BY <1>1, <1>2, TakingFold
<1>4. n \in 0..Len(rs)
  BY <1>1
<1>5. w[n] \in FolderItems /\ Removed(f, w[n], rs, n) /\ w[n].last_num = f.last_num
  BY <1>3, <1>4, TakenAll
<1> QED
  BY <1>1, <1>3, <1>5

LEMMA RemoveMsgIs ==
    ASSUME NEW f \in FolderItems, NEW r, r.num \in Nums, r.flags \in Flags, NEW g, g = RemoveMsg(f, r)
    PROVE  /\ g \in FolderItems /\ Removed(f, g, <<r>>, 1)
           /\ g.last_num = f.last_num \/ g.last_num = LastFile(g)
           /\ r.num # f.last_num => g.last_num = f.last_num
<1>1. PICK h : h = TakeAway(f, r)
  OBVIOUS
<1>2. /\ h \in FolderItems /\ SameMarks(f, h) /\ SameCache(f, h) /\ ~h.fresh
      /\ h.stype = f.stype /\ h.opened = f.opened /\ h.list = f.list /\ h.last_num = f.last_num
      /\ h.file[r.num] = None /\ \A k \in Nums : k # r.num => h.file[k] = f.file[k]
  BY <1>1, TakeAwayIs
<1>3. g = IF r.num = f.last_num THEN Rescan(h) ELSE h
  BY <1>1 DEF RemoveMsg
<1>4. PICK s : s = Rescan(h)
  OBVIOUS
<1>5. /\ s \in FolderItems /\ SameMail(h, s) /\ SameMarks(h, s) /\ SameCache(h, s)
      /\ ~s.fresh /\ s.last_num = LastFile(h)
  BY <1>2, <1>4, RescanIs
<1>6. LastFile(s) = LastFile(h)
  BY <1>5 DEF LastFile, FileNums, SameMail
<1>7. /\ g \in FolderItems /\ g.file = h.file /\ g.stype = h.stype /\ g.opened = h.opened /\ g.list = h.list
      /\ SameMarks(f, g) /\ SameCache(f, g) /\ ~g.fresh
      /\ g.last_num = f.last_num \/ g.last_num = LastFile(g)
  BY <1>2, <1>3, <1>4, <1>5, <1>6 DEF SameMail, SameMarks, SameCache
<1>8. r.num # f.last_num => g.last_num = f.last_num
  BY <1>2, <1>3
<1>9. \A j \in 1..1 : <<r>>[j] = r
  OBVIOUS
<1>10. \A k \in Nums : (\E j \in 1..1 : <<r>>[j].num = k) => g.file[k] = None
  BY <1>2, <1>7, <1>9
<1>11. \A k \in Nums : (\A j \in 1..1 : <<r>>[j].num # k) => g.file[k] = f.file[k]
  <2> SUFFICES ASSUME NEW k \in Nums, \A j \in 1..1 : <<r>>[j].num # k PROVE g.file[k] = f.file[k]
    OBVIOUS
  <2>1. 1 \in 1..1 /\ <<r>>[1] = r
    OBVIOUS
  <2>2. r.num # k
    BY <2>1
  <2> QED
    BY <1>2, <1>7, <2>2
<1>12. Removed(f, g, <<r>>, 1)
  BY <1>2, <1>7, <1>10, <1>11 DEF Removed
<1> QED
  BY <1>7, <1>8, <1>12

\* The rows of what left are taken out, and the files written.

WithLeft(f, l) == [f EXCEPT !.list = l, !.cache_dirty = TRUE]

LEMMA SetLeft ==
    ASSUME NEW f \in FolderItems, NEW l \in Seq(MsgInfos), NEW g, g = WithLeft(f, l)
    PROVE  /\ g \in FolderItems /\ g.stype = f.stype /\ g.file = f.file /\ g.opened = f.opened
           /\ g.list = l /\ g.cache = f.cache /\ g.cache_queue = f.cache_queue /\ g.cache_dirty
           /\ SameMarks(f, g) /\ SameSums(f, g) /\ g.fresh = f.fresh
<1>1. g \in FolderItems
  BY DEF WithLeft, FolderItems
<1> QED
  BY <1>1 DEF WithLeft, FolderItems, SameMarks, SameSums

\* The rows that stay.
LEMMA StayingRows ==
    ASSUME NEW f \in FolderItems, Good(f), f.opened, NEW rs \in Seq(MsgInfos),
           \A i \in 1..Len(rs) : \E j \in 1..Len(f.list) : rs[i] = f.list[j],
           NEW g \in FolderItems, Removed(f, g, rs, Len(rs)),
           NEW t, t = Picked(f.list, {i \in DOMAIN f.list : f.list[i] \notin ToSet(rs)})
    PROVE  /\ t \in Seq(MsgInfos) /\ Distinct(t) /\ Right(g, t)
           /\ Covered(f) /\ f.cache_queue = <<>> => FileNums(g) \subseteq NumsOf(t)
<1>1. PICK l \in Seq(MsgInfos) : l = f.list
  BY DEF FolderItems
<1>2. PICK n \in Nat : n = Len(l)
  OBVIOUS
<1>3. PICK k \in Nat : k = Len(rs)
  OBVIOUS
<1>4. PICK I : I = {i \in 1..n : l[i] \notin ToSet(rs)}
  OBVIOUS
<1>5. I \in SUBSET (1..Len(l)) /\ DOMAIN l = 1..n
  BY <1>2, <1>4
<1>6. t = Picked(l, I)
  BY <1>1, <1>4, <1>5
<1>7. t \in Seq(MsgInfos) /\ PickedFrom(l, I, t)
  BY <1>5, <1>6, PickedNums
<1>8. \A x : x \in ToSet(rs) <=> \E i \in 1..k : rs[i] = x
  BY <1>3 DEF ToSet
<1>9. Distinct(l) /\ Right(f, l)
  BY <1>1 DEF Good, RowsSound
<1>10. Distinct(t)
  BY <1>7, <1>9 DEF PickedFrom
<1>11. \A i \in 1..n : l[i] \in MsgInfos /\ l[i].num \in Nums
  <2>1. \A i \in 1..n : l[i] \in MsgInfos
    BY <1>2
  <2>2. \A r \in MsgInfos : r.num \in Nums
    BY DEF MsgInfos
  <2> QED
    BY <2>1, <2>2
<1>12. ASSUME NEW j \in I PROVE g.file[l[j].num] = l[j].msg
  <2>1. j \in 1..n /\ l[j] \notin ToSet(rs)
    BY <1>4
  <2>2. ASSUME NEW i \in 1..k, rs[i].num = l[j].num PROVE FALSE
    <3>1. PICK e \in 1..n : rs[i] = l[e]
      BY <1>1, <1>2, <1>3
    <3>2. e = j
      BY <1>2, <1>9, <2>1, <2>2, <3>1 DEF Distinct
    <3> QED
      BY <1>8, <2>1, <3>1, <3>2
  <2>3. g.file[l[j].num] = f.file[l[j].num]
    BY <1>3, <1>11, <2>1, <2>2 DEF Removed
  <2>4. f.file[l[j].num] = l[j].msg
    BY <1>2, <1>9, <2>1 DEF Right
  <2> QED
    BY <2>3, <2>4
<1>13. Right(g, t)
  <2> SUFFICES ASSUME NEW i \in 1..Len(t) PROVE g.file[t[i].num] = t[i].msg
    BY DEF Right
  <2>1. PICK j \in I : t[i] = l[j]
    BY <1>7 DEF PickedFrom
  <2> QED
    BY <1>12, <2>1
<1>14. ASSUME Covered(f), f.cache_queue = <<>>, NEW m \in FileNums(g) PROVE m \in NumsOf(t)
  <2>1. m \in Nums /\ g.file[m] # None
    BY DEF FileNums
  <2>2. \A j \in 1..k : rs[j].num # m
    BY <1>3, <2>1 DEF Removed
  <2>3. g.file[m] = f.file[m]
    BY <1>3, <2>1, <2>2 DEF Removed
  <2>4. m \in FileNums(f)
    BY <2>1, <2>3 DEF FileNums
  <2>5. m \in NumsOf(l)
    BY <1>1, <1>14, <2>4, EmptyIs DEF Covered
  <2>6. PICK j \in 1..n : l[j].num = m
    BY <1>2, <2>5, NumsOfIs
  <2>7. l[j] \notin ToSet(rs)
    BY <1>8, <2>2, <2>6
  <2>8. j \in I
    BY <1>4, <2>7
  <2>9. PICK i \in 1..Len(t) : t[i] = l[j]
    BY <1>7, <2>8 DEF PickedFrom
  <2> QED
    BY <1>7, <2>6, <2>9, NumsOfIs
<1> QED
  BY <1>7, <1>10, <1>13, <1>14

LEMMA LeftIs ==
    ASSUME NEW f \in FolderItems, Good(f), f.opened, f.cache_queue = <<>>,
           NEW rs \in Seq(MsgInfos), Len(rs) # 0,
           \A i \in 1..Len(rs) : \E j \in 1..Len(f.list) : rs[i] = f.list[j],
           NEW g \in FolderItems, Removed(f, g, rs, Len(rs)),
           g.last_num = f.last_num \/ f.stype # "F_DRAFT",
           NEW h, h = WriteCache(Left(g, rs))
    PROVE  /\ h \in FolderItems /\ Good(h) /\ h.file = g.file /\ h.stype = f.stype /\ h.opened /\ ~h.fresh
           /\ Covered(f) => Covered(h)
<1>1. PICK t : t = Picked(f.list, {i \in DOMAIN f.list : f.list[i] \notin ToSet(rs)})
  OBVIOUS
<1>2. t \in Seq(MsgInfos) /\ Distinct(t) /\ Right(g, t)
  BY <1>1, StayingRows
<1>3. Covered(f) => FileNums(g) \subseteq NumsOf(t)
  BY <1>1, StayingRows
<1>4. PICK e : e = Left(g, rs)
  OBVIOUS
<1>5. e = WithLeft(g, t)
  BY <1>1, <1>4 DEF Left, WithLeft, Removed
<1>6. /\ e \in FolderItems /\ e.stype = g.stype /\ e.file = g.file /\ e.opened = g.opened
      /\ e.list = t /\ e.cache = g.cache /\ e.cache_queue = g.cache_queue /\ e.cache_dirty
      /\ SameMarks(g, e) /\ SameSums(g, e) /\ e.fresh = g.fresh
  BY <1>2, <1>5, SetLeft
<1>7. /\ h \in FolderItems /\ SameMail(e, h) /\ SameSums(e, h)
      /\ ~h.cache_dirty /\ ~h.mark_dirty /\ h.mark_queue = <<>>
  BY <1>4, <1>6, WriteCacheIs
<1>8. h.fresh => e.fresh
  BY <1>4, <1>6, WriteCacheIs
<1>9. /\ h.cache_queue = <<>>
      /\ h.cache.recs = <<>> \/ h.cache.recs = Joined(HeadersOf(e.list), HeadersOf(e.cache_queue))
  <2>1. \/ /\ e.mark_queue = <<>> /\ ~e.cache_dirty
           /\ h.cache = e.cache /\ h.cache_queue = e.cache_queue
        \/ /\ h.cache_queue = <<>>
           /\ ~e.cache_dirty /\ e.cache_queue = <<>> => h.cache = e.cache
           /\ \/ h.cache.recs = <<>>
              \/ h.cache.recs = Joined(IF e.cache_dirty THEN HeadersOf(e.list) ELSE e.cache.recs,
                                       HeadersOf(e.cache_queue))
    BY <1>4, <1>6, WriteCacheIs
  <2> QED
    BY <1>6, <2>1
<1>10. /\ h.file = g.file /\ h.stype = f.stype /\ h.opened /\ h.list = t /\ h.last_num = g.last_num
       /\ FileNums(h) = FileNums(g)
  <2>1. h.file = g.file /\ h.stype = f.stype /\ h.opened /\ h.list = t /\ h.last_num = g.last_num
    BY <1>6, <1>7 DEF SameMail, SameSums, Removed
  <2> QED
    BY <2>1 DEF FileNums
<1>11. ~h.fresh
  BY <1>6, <1>8 DEF Removed
<1>12. PICK ht : ht = HeadersOf(t)
  OBVIOUS
<1>13. ht \in Seq(Headers) /\ Distinct(ht) /\ Right(g, ht)
  BY <1>2, <1>12, HeadersOfIs
<1>14. h.cache.recs = ht \/ h.cache.recs = <<>>
  <2>1. e.cache_queue = <<>>
    BY <1>6 DEF Removed, SameCache
  <2>2. h.cache.recs = Joined(ht, <<>>) \/ h.cache.recs = <<>>
    BY <1>6, <1>9, <1>12, <2>1, EmptyIs
  <2>3. Joined(ht, <<>>) = ht
    BY <1>13, ConcatEmptySeq DEF Joined
  <2> QED
    BY <2>2, <2>3
<1>15. Right(h, ht) /\ Right(h, t)
  BY <1>2, <1>10, <1>13 DEF Right
<1>16. CacheSound(h)
  <2>1. AllSound(h, ht)
    BY <1>15 DEF AllSound, Sound, Right
  <2> QED
    BY <1>9, <1>13, <1>14, <2>1, EmptyIs DEF CacheSound
<1>17. RowsSound(h)
  BY <1>2, <1>9, <1>10, <1>15, EmptyIs DEF RowsSound
<1>18. Numbered(h)
  <2> SUFFICES ASSUME h.stype = "F_DRAFT", h.last_num >= 0, NEW k \in FileNums(h) PROVE k <= h.last_num
    BY DEF Numbered
  <2>1. h.last_num = f.last_num
    BY <1>10
  <2>2. k \in FileNums(f)
    <3>1. k \in Nums /\ g.file[k] # None
      BY <1>10 DEF FileNums
    <3>2. g.file[k] = f.file[k]
      BY <3>1 DEF Removed
    <3> QED
      BY <3>1, <3>2 DEF FileNums
  <2> QED
    BY <1>10, <2>1, <2>2 DEF Good, Numbered
<1>19. Waiting(h)
  BY <1>9 DEF Waiting
<1>20. Good(h)
  BY <1>10, <1>16, <1>17, <1>18, <1>19 DEF Good
<1>21. Covered(f) => Covered(h)
  BY <1>3, <1>9, <1>10 DEF Covered
<1> QED
  BY <1>7, <1>10, <1>11, <1>20, <1>21

-----------------------------------------------------------------------------
\* The inductive invariant.  The folder is good; what a folder that is not
\* scanned again shows is what its cache file has; what the summary shows is
\* complete unless another program was at work.
Held(f, st, fo) ==
    /\ f \in FolderItems /\ Good(f)
    /\ f.stype = "F_DRAFT" => st
    /\ f.fresh => Trusted(f)
    /\ f.opened /\ ~fo => Covered(f)

Typed(els) == \E S \in SUBSET Msgs : els \in [S -> Flags]

\* The message that is edited again is a draft, and it is here or was moved away.
Known(t, f, els) ==
    \/ t = NoTarget
    \/ /\ f.stype = "F_DRAFT" /\ t.num \in Nums /\ t.msg \in Msgs
       /\ t.msg \in Contents(f) \/ t.msg \in DOMAIN els

Inv ==
    /\ Held(folder, strict, foreign)
    /\ strict \in BOOLEAN /\ saved \in BOOLEAN /\ foreign \in BOOLEAN
    /\ saved => Trusted(folder)
    /\ Typed(elsewhere) /\ Known(target, folder, elsewhere)

LEMMA BecomesIs ==
    ASSUME Inv, NEW g, Becomes(g)
    PROVE  /\ folder' = g /\ saved' \in BOOLEAN
           /\ saved' => saved /\ g.file = folder.file
  BY DEF Inv, Becomes, Changed

\* A handler that leaves the files of the messages alone.
LEMMA SameFilesStep ==
    ASSUME Inv, NEW g \in FolderItems, Becomes(g), Good(g), g.file = folder.file, g.stype = folder.stype,
           g.fresh => folder.fresh \/ Trusted(g), Trusted(folder) => Trusted(g),
           UNCHANGED <<strict, elsewhere, target>>, foreign' \in BOOLEAN,
           g.opened /\ ~foreign' => Covered(g)
    PROVE  Inv'
<1>1. folder' = g /\ saved' \in BOOLEAN
  BY BecomesIs
<1>2. saved' => saved
  BY BecomesIs
<1>3. /\ strict \in BOOLEAN /\ Typed(elsewhere) /\ Known(target, folder, elsewhere)
      /\ strict' = strict /\ elsewhere' = elsewhere /\ target' = target
  BY DEF Inv
<1>4. saved => Trusted(folder)
  BY DEF Inv
<1>5. folder.stype = "F_DRAFT" => strict
  BY DEF Inv, Held
<1>6. folder.fresh => Trusted(folder)
  BY DEF Inv, Held
<1>7. Contents(g) = Contents(folder)
  BY SameFiles
<1>8. Known(target, g, elsewhere)
  BY <1>3, <1>7 DEF Known
<1>9. saved' => Trusted(g)
  BY <1>2, <1>4
<1>10. Held(g, strict, foreign')
  BY <1>5, <1>6 DEF Held
<1> QED
  BY <1>1, <1>3, <1>8, <1>9, <1>10 DEF Inv

\* A handler that adds messages or removes some.
LEMMA OtherFilesStep ==
    ASSUME Inv, NEW g \in FolderItems, folder' = g, saved' => Trusted(g), Good(g), g.stype = folder.stype,
           g.fresh => Trusted(g), UNCHANGED strict, saved' \in BOOLEAN, foreign' \in BOOLEAN,
           g.opened /\ ~foreign' => Covered(g),
           Typed(elsewhere'), Known(target', g, elsewhere')
    PROVE  Inv'
<1>1. /\ strict \in BOOLEAN /\ strict' = strict
  BY DEF Inv
<1>2. folder.stype = "F_DRAFT" => strict
  BY DEF Inv, Held
<1>3. Held(g, strict, foreign')
  BY <1>2 DEF Held
<1> QED
  BY <1>1, <1>3 DEF Inv

LEMMA InitInv == Init => Inv
<1> SUFFICES ASSUME Init PROVE Inv
  OBVIOUS
<1>1. PICK kind \in Kinds : folder = Brand(kind[1]) /\ strict = (kind[1] = "F_DRAFT" \/ kind[2])
  BY DEF Init
<1>2. kind[1] \in {"F_NORMAL", "F_TRASH", "F_DRAFT"} /\ kind[2] \in BOOLEAN
  BY KindsAssumption
<1>3. folder \in FolderItems
  <2>1. <<>> \in Seq(Marks) /\ <<>> \in Seq(Headers) /\ <<>> \in Seq(MsgInfos)
    OBVIOUS
  <2>2. 0 \in -1..MaxNum
    BY NumsAre
  <2> QED
    BY <1>1, <1>2, <2>1, <2>2 DEF Brand, FolderItems, Written, NoFile
<1>4. /\ folder.stype = kind[1] /\ folder.cache_queue = <<>> /\ folder.cache.recs = <<>>
      /\ ~folder.opened /\ folder.list = <<>> /\ ~folder.fresh
      /\ \A n \in Nums : folder.file[n] = None
  BY <1>1 DEF Brand, NoFile
<1>5. Good(folder)
  <2>1. FileNums(folder) = {}
    BY <1>4 DEF FileNums
  <2>2. CacheSound(folder)
    BY <1>4, EmptyIs DEF CacheSound
  <2> QED
    BY <1>4, <2>1, <2>2 DEF Good, Numbered, Waiting
<1>6. strict \in BOOLEAN /\ (folder.stype = "F_DRAFT" => strict)
  BY <1>1, <1>2, <1>4
<1>7. Typed(elsewhere)
  <2>1. PICK S \in SUBSET Msgs : elsewhere \in [S -> {{}, Default}]
    BY DEF Init
  <2>2. elsewhere \in [S -> Flags]
    BY <2>1, FlagsTypes
  <2> QED
    BY <2>2 DEF Typed
<1> QED
  BY <1>3, <1>4, <1>5, <1>6, <1>7 DEF Inv, Held, Known, Init

-----------------------------------------------------------------------------
\* A check for mail keeps the invariant.

LEMMA BeginCheckInv ==
    ASSUME Patient, Inv, BeginCheck
    PROVE  Inv'
<1>1. folder \in FolderItems /\ Good(folder)
  BY DEF Inv, Held
<1>2. folder.opened /\ ~foreign => Covered(folder)
  BY DEF Inv, Held
<1>3. /\ UNCHANGED <<strict, elsewhere, target, foreign>> /\ foreign \in BOOLEAN
      /\ Becomes(IF folder.opened THEN WriteCache(folder) ELSE folder)
  BY DEF BeginCheck, Inv
<1>4. folder.opened => folder.cache_queue = <<>>
  BY DEF BeginCheck, NothingWaits
<1>5. CASE folder.opened
  <2>1. PICK g : g = WriteCache(folder)
    OBVIOUS
  <2>2. g \in FolderItems /\ SameMail(folder, g) /\ Good(g)
    BY <1>1, <1>5, <2>1, WriteCacheGood
  <2>3. g.fresh => folder.fresh
    BY <1>1, <1>5, <2>1, WriteCacheGood
  <2>4. Trusted(folder) => Trusted(g)
    BY <1>1, <1>5, <2>1, WriteCacheGood
  <2>5. Covered(folder) /\ folder.cache_queue = <<>> => Covered(g)
    BY <1>1, <1>5, <2>1, WriteCacheGood
  <2>6. Becomes(g)
    BY <1>3, <1>5, <2>1
  <2>7. g.opened /\ ~foreign' => Covered(g)
    BY <1>2, <1>3, <1>4, <1>5, <2>5
  <2> QED
    BY <1>3, <2>2, <2>3, <2>4, <2>6, <2>7, SameFilesStep DEF SameMail
<1>6. CASE ~folder.opened
  <2>1. Becomes(folder)
    BY <1>3, <1>6
  <2> QED
    BY <1>1, <1>3, <1>6, <2>1, SameFilesStep
<1> QED
  BY <1>5, <1>6

LEMMA ShowNewInv ==
    ASSUME Inv, ShowNew
    PROVE  Inv'
<1>1. folder \in FolderItems /\ Good(folder) /\ folder.opened /\ folder.cache_queue # <<>>
  BY DEF Inv, Held, ShowNew
<1>2. folder.opened /\ ~foreign => Covered(folder)
  BY DEF Inv, Held
<1>3. PICK g : g = ShowQueued(folder)
  OBVIOUS
<1>4. /\ UNCHANGED <<strict, elsewhere, target, foreign>> /\ foreign \in BOOLEAN /\ Becomes(g)
  BY <1>3 DEF ShowNew, Inv
<1>5. /\ g \in FolderItems /\ Good(g) /\ g.file = folder.file /\ g.stype = folder.stype /\ g.opened
  BY <1>1, <1>3, ShowQueuedIs
<1>6. g.fresh => folder.fresh
  BY <1>1, <1>3, ShowQueuedIs
<1>7. Covered(folder) => Covered(g)
  BY <1>1, <1>3, ShowQueuedIs
<1>8. ~Trusted(folder)
  BY <1>1 DEF Trusted
<1>9. g.opened /\ ~foreign' => Covered(g)
  BY <1>1, <1>2, <1>4, <1>7
<1> QED
  BY <1>4, <1>5, <1>6, <1>8, <1>9, SameFilesStep

LEMMA EndCheckInv ==
    ASSUME Inv, EndCheck
    PROVE  Inv'
<1>1. folder \in FolderItems /\ Good(folder) /\ strict \in BOOLEAN
  BY DEF Inv, Held
<1>2. folder.opened /\ ~foreign => Covered(folder)
  BY DEF Inv, Held
<1>20. folder.fresh => Trusted(folder)
  BY DEF Inv, Held
<1>21. folder.stype = "F_DRAFT" => strict
  BY DEF Inv, Held
<1>3. PICK g : g = FlushFolder(folder)
  OBVIOUS
<1>4. /\ UNCHANGED <<strict, elsewhere, target, foreign>> /\ foreign \in BOOLEAN
      /\ Becomes(IF receiving = "yet" THEN folder
                  ELSE IF folder.opened THEN Refresh(g, strict) ELSE g)
  BY <1>3 DEF EndCheck, Inv
<1>5. /\ g \in FolderItems /\ SameMail(folder, g) /\ Flushed(folder, g) /\ Settled(folder, g)
      /\ g.last_num = folder.last_num \/ g.last_num = LastFile(folder)
  BY <1>1, <1>3, FlushFolderIs
<1>6. g.fresh => folder.fresh
  BY <1>1, <1>3, FlushFolderIs
<1>7. Good(g)
  BY <1>1, <1>5, CountedGood
<1>8. Trusted(folder) => Trusted(g)
  BY <1>5, FlushedTrusted
<1>9. g.file = folder.file /\ g.stype = folder.stype /\ g.opened = folder.opened
  BY <1>5 DEF SameMail
<1>10. CASE receiving = "yet"
  <2>1. Becomes(folder)
    BY <1>4, <1>10
  <2> QED
    BY <1>1, <1>2, <1>4, <2>1, SameFilesStep
<1>11. CASE receiving # "yet" /\ folder.opened
  <2>1. PICK h : h = Refresh(g, strict)
    OBVIOUS
  <2>2. /\ h \in FolderItems /\ h.file = g.file /\ h.stype = g.stype /\ h.opened
        /\ Good(h) /\ Covered(h) /\ Trusted(h)
    <3>1. g.fresh => Trusted(g)
      BY <1>6, <1>8, <1>20
    <3>2. g.opened /\ (g.stype = "F_DRAFT" => strict)
      BY <1>9, <1>11, <1>21
    <3> QED
      BY <1>1, <1>5, <1>7, <2>1, <3>1, <3>2, RefreshIs
  <2>3. Becomes(h)
    BY <1>4, <1>11, <2>1
  <2> QED
    BY <1>4, <1>9, <2>2, <2>3, SameFilesStep
<1>12. CASE receiving # "yet" /\ ~folder.opened
  <2>1. Becomes(g)
    BY <1>4, <1>12
  <2> QED
    BY <1>4, <1>5, <1>6, <1>7, <1>8, <1>9, <1>12, <2>1, SameFilesStep
<1> QED
  BY <1>10, <1>11, <1>12

-----------------------------------------------------------------------------
\* So does the summary.

LEMMA ShowInv ==
    ASSUME CacheFirst, Inv, Show
    PROVE  Inv'
<1>1. folder \in FolderItems /\ Good(folder) /\ strict \in BOOLEAN
  BY DEF Inv, Held
<1>2. folder.fresh => Trusted(folder)
  BY DEF Inv, Held
<1>3. folder.stype = "F_DRAFT" => strict
  BY DEF Inv, Held
<1>4. PICK g : g = IF folder.opened THEN Refresh(folder, strict) ELSE Open(folder, strict)
  OBVIOUS
<1>5. Becomes(g) /\ UNCHANGED <<strict, elsewhere, target>> /\ foreign' \in BOOLEAN
  BY <1>4 DEF Show
<1>6. folder.cache.state = "ok" \/ folder.cache_queue = <<>>
  BY DEF Show
<1>7. /\ g \in FolderItems /\ g.file = folder.file /\ g.stype = folder.stype /\ g.opened
      /\ Good(g) /\ Covered(g) /\ Trusted(g)
  <2>1. CASE folder.opened
    <3>1. g = Refresh(folder, strict)
      BY <1>4, <2>1
    <3> QED
      BY <1>1, <1>2, <1>3, <2>1, <3>1, RefreshIs
  <2>2. CASE ~folder.opened
    <3>1. g = Open(folder, strict)
      BY <1>4, <2>2
    <3>2. CacheSound(folder) /\ Numbered(folder)
      BY <1>1 DEF Good
    <3> QED
      BY <1>1, <1>2, <1>3, <1>6, <3>1, <3>2, OpenIs
  <2> QED
    BY <2>1, <2>2
<1> QED
  BY <1>5, <1>7, SameFilesStep

LEMMA LeaveInv ==
    ASSUME Inv, Leave
    PROVE  Inv'
<1>1. folder \in FolderItems /\ Good(folder) /\ folder.opened
  BY DEF Inv, Held, Leave
<1>2. PICK w : w = WriteCache(folder)
  OBVIOUS
<1>3. w \in FolderItems /\ SameMail(folder, w) /\ Good(w)
  BY <1>1, <1>2, WriteCacheGood
<1>4. w.fresh => folder.fresh
  BY <1>1, <1>2, WriteCacheGood
<1>5. Trusted(folder) => Trusted(w)
  BY <1>1, <1>2, WriteCacheGood
<1>6. PICK g : g = Close(w)
  OBVIOUS
<1>7. CacheSound(w) /\ Numbered(w)
  BY <1>3 DEF Good
<1>8. /\ g \in FolderItems /\ Good(g) /\ g.file = w.file /\ g.stype = w.stype /\ ~g.opened
  BY <1>3, <1>6, <1>7, ClosedGood
<1>9. g.fresh = w.fresh
  BY <1>3, <1>6, <1>7, ClosedGood
<1>10. Trusted(w) => Trusted(g)
  BY <1>3, <1>6, <1>7, ClosedGood
<1>11. UNCHANGED <<strict, elsewhere, target, foreign>> /\ foreign \in BOOLEAN /\ Becomes(g)
  BY <1>2, <1>6 DEF Leave, Inv
<1>12. g.file = folder.file /\ g.stype = folder.stype
  BY <1>3, <1>8 DEF SameMail
<1> QED
  BY <1>4, <1>5, <1>8, <1>9, <1>10, <1>11, <1>12, SameFilesStep

LEMMA SaveFolderListInv ==
    ASSUME Inv, SaveFolderList
    PROVE  Inv'
<1>1. folder.fresh \in BOOLEAN
  BY DEF Inv, Held, FolderItems
<1>2. folder.fresh => Trusted(folder)
  BY DEF Inv, Held
<1>3. /\ UNCHANGED <<folder, strict, elsewhere, target, foreign>> /\ saved' = folder.fresh
  BY DEF SaveFolderList
<1> QED
  BY <1>1, <1>2, <1>3 DEF Inv

WithFlag(l, i, new) == [l EXCEPT ![i].flags = new]
WithFlags(f, l, u) == [f EXCEPT !.list = l, !.mark_dirty = TRUE, !.unread = u]

LEMMA SetFlagInv ==
    ASSUME Inv, NEW i \in DOMAIN folder.list, NEW flag \in {"UNREAD"} \cup UserFlags, SetFlag(i, flag)
    PROVE  Inv'
<1>1. folder \in FolderItems /\ Good(folder) /\ folder.opened
  BY DEF Inv, Held, SetFlag
<1>2. folder.opened /\ ~foreign => Covered(folder)
  BY DEF Inv, Held
<1>3. PICK l \in Seq(MsgInfos) : l = folder.list
  BY <1>1 DEF FolderItems
<1>4. PICK n \in Nat : n = Len(l) /\ DOMAIN l = 1..n
  BY <1>3
<1>5. PICK old : old = l[i].flags
  OBVIOUS
<1>6. PICK new : new = IF flag \in old THEN old \ {flag} ELSE old \cup {flag}
  OBVIOUS
<1>7. l[i] \in MsgInfos
  BY <1>3, <1>4
<1>8. old \in Flags
  BY <1>5, <1>7 DEF MsgInfos
<1>9. new \in Flags
  BY <1>6, <1>8 DEF Flags
<1>10. PICK u \in Int : u = folder.unread - Unread(old) + Unread(new)
  <2>1. Unread(old) \in {0, 1} /\ Unread(new) \in {0, 1}
    BY <1>8, <1>9, FlagsTypes
  <2>2. folder.unread \in Int
    BY <1>1 DEF FolderItems
  <2>3. folder.unread - Unread(old) + Unread(new) \in Int
    BY <2>1, <2>2
  <2> QED
    BY <2>3
<1>11. PICK k : k = WithFlag(l, i, new)
  OBVIOUS
<1>12. /\ k \in Seq(MsgInfos) /\ Len(k) = n
       /\ \A j \in 1..n : k[j].num = l[j].num /\ k[j].msg = l[j].msg
  <2>1. PICK r : r = [l[i] EXCEPT !.flags = new]
    OBVIOUS
  <2>2. r \in MsgInfos /\ r.num = l[i].num /\ r.msg = l[i].msg
    BY <1>7, <1>9, <2>1 DEF MsgInfos
  <2>3. k = [l EXCEPT ![i] = r]
    BY <1>11, <2>1 DEF WithFlag
  <2>4. k \in Seq(MsgInfos) /\ Len(k) = n
    BY <1>3, <1>4, <2>2, <2>3
  <2>5. \A j \in 1..n : k[j] = IF j = i THEN r ELSE l[j]
    BY <1>4, <2>3
  <2> QED
    BY <2>2, <2>4, <2>5
<1>13. PICK g : g = WithFlags(folder, k, u)
  OBVIOUS
<1>14. UNCHANGED <<strict, elsewhere, target, foreign>> /\ foreign \in BOOLEAN /\ Becomes(g)
  <2>1. UNCHANGED <<strict, elsewhere, target, foreign>> /\ foreign \in BOOLEAN
    BY DEF SetFlag, Inv
  <2>2. Becomes([folder EXCEPT !.list[i].flags = new, !.mark_dirty = TRUE,
                                 !.unread = @ - Unread(old) + Unread(new)])
    BY <1>3, <1>5, <1>6 DEF SetFlag
  <2>3. g = [folder EXCEPT !.list[i].flags = new, !.mark_dirty = TRUE,
                           !.unread = @ - Unread(old) + Unread(new)]
    BY <1>3, <1>10, <1>11, <1>13, Zenon DEF WithFlags, WithFlag
  <2> QED
    BY <2>1, <2>2, <2>3
<1>15. g \in FolderItems
  BY <1>1, <1>12, <1>13 DEF WithFlags, FolderItems
<1>16. /\ g.stype = folder.stype /\ g.file = folder.file /\ g.opened = folder.opened /\ g.list = k
       /\ g.cache = folder.cache /\ g.cache_queue = folder.cache_queue /\ g.cache_dirty = folder.cache_dirty
       /\ g.last_num = folder.last_num /\ g.fresh = folder.fresh /\ g.mark_queue = folder.mark_queue
  BY <1>1, <1>13 DEF WithFlags, FolderItems
<1>17. NumsOf(k) = NumsOf(l)
  <2>1. \A m : m \in NumsOf(k) <=> \E j \in 1..n : k[j].num = m
    BY <1>12, NumsOfIs
  <2>2. \A m : m \in NumsOf(l) <=> \E j \in 1..n : l[j].num = m
    BY <1>4, NumsOfIs
  <2> QED
    BY <1>12, <2>1, <2>2, ZenonT(60)
<1>18. /\ FileNums(g) = FileNums(folder)
       /\ \A rs : Right(folder, rs) => Right(g, rs)
       /\ \A rs : AllSound(folder, rs) => AllSound(g, rs)
  BY <1>16, SameFiles
<1>19. CacheSound(g) /\ Numbered(g) /\ Waiting(g)
  BY <1>1, <1>16, <1>18 DEF Good, CacheSound, Numbered, Waiting
<1>20. RowsSound(g)
  <2>1. Distinct(l) /\ Apart(l, folder.cache_queue) /\ Right(folder, l) /\ Right(folder, folder.cache_queue)
    BY <1>1, <1>3 DEF Good, RowsSound
  <2>2. Distinct(k) /\ Right(folder, k)
    BY <1>4, <1>12, <2>1 DEF Distinct, Right
  <2>3. Apart(k, folder.cache_queue)
    BY <1>17, <2>1 DEF Apart
  <2> QED
    BY <1>16, <1>18, <2>1, <2>2, <2>3 DEF RowsSound
<1>21. Good(g)
  BY <1>1, <1>16, <1>19, <1>20 DEF Good
<1>22. Covered(folder) => Covered(g)
  BY <1>3, <1>16, <1>17, <1>18 DEF Covered
<1>23. Trusted(folder) => Trusted(g)
  <2> SUFFICES ASSUME Trusted(folder) PROVE Trusted(g)
    OBVIOUS
  <2>1. ~g.cache_dirty
    BY <1>16 DEF Trusted
  <2> QED
    BY <1>16, <2>1, SameTrusted
<1>24. g.opened /\ ~foreign' => Covered(g)
  BY <1>1, <1>2, <1>14, <1>22
<1> QED
  BY <1>14, <1>15, <1>16, <1>21, <1>23, <1>24, SameFilesStep

\* The folder after rows of it went, where g is without their messages.
LEMMA LeavingInv ==
    ASSUME Inv, folder.opened, folder.cache_queue = <<>>, NEW rs \in Seq(MsgInfos), Len(rs) # 0,
           \A i \in 1..Len(rs) : \E j \in 1..Len(folder.list) : rs[i] = folder.list[j],
           NEW g \in FolderItems, Removed(folder, g, rs, Len(rs)),
           g.last_num = folder.last_num \/ folder.stype # "F_DRAFT",
           Becomes(WriteCache(Left(g, rs))),
           UNCHANGED <<strict, target, foreign>>, Typed(elsewhere'),
           \A m \in DOMAIN elsewhere : m \in DOMAIN elsewhere',
           folder.stype = "F_DRAFT" => \A i \in 1..Len(rs) : rs[i].msg \in DOMAIN elsewhere'
    PROVE  Inv'
<1>1. folder \in FolderItems /\ Good(folder) /\ foreign \in BOOLEAN /\ Known(target, folder, elsewhere)
  BY DEF Inv, Held
<1>2. folder.opened /\ ~foreign => Covered(folder)
  BY DEF Inv, Held
<1>3. PICK h : h = WriteCache(Left(g, rs))
  OBVIOUS
<1>4. /\ h \in FolderItems /\ Good(h) /\ h.file = g.file /\ h.stype = folder.stype /\ h.opened /\ ~h.fresh
  BY <1>1, <1>3, LeftIs
<1>5. Covered(folder) => Covered(h)
  BY <1>1, <1>3, LeftIs
<1>6. folder' = h /\ saved' \in BOOLEAN
  BY <1>3, BecomesIs
<1>7. saved' => h.file = folder.file
  BY <1>3, BecomesIs
<1>8. Right(folder, folder.list) /\ folder.list \in Seq(MsgInfos)
  BY <1>1 DEF Good, RowsSound, FolderItems
<1>9. \A i \in 1..Len(rs) : /\ rs[i].num \in Nums /\ rs[i].msg \in Msgs
                            /\ folder.file[rs[i].num] = rs[i].msg /\ g.file[rs[i].num] = None
  <2> SUFFICES ASSUME NEW i \in 1..Len(rs)
               PROVE  /\ rs[i].num \in Nums /\ rs[i].msg \in Msgs
                      /\ folder.file[rs[i].num] = rs[i].msg /\ g.file[rs[i].num] = None
    OBVIOUS
  <2>1. rs[i] \in MsgInfos
    OBVIOUS
  <2>2. rs[i].num \in Nums /\ rs[i].msg \in Msgs
    BY <2>1 DEF MsgInfos
  <2>3. g.file[rs[i].num] = None
    BY <2>2 DEF Removed
  <2>4. PICK j \in 1..Len(folder.list) : rs[i] = folder.list[j]
    OBVIOUS
  <2> QED
    BY <1>8, <2>2, <2>3, <2>4 DEF Right
<1>10. ~saved'
  <2>1. 1 \in 1..Len(rs)
    OBVIOUS
  <2>2. g.file # folder.file
    BY <1>9, <2>1, NoneAssumption
  <2> QED
    BY <1>4, <1>7, <2>2
<1>11. Known(target', h, elsewhere')
  <2>1. CASE target = NoTarget
    BY <2>1 DEF Known
  <2>2. CASE target # NoTarget
    <3>1. /\ folder.stype = "F_DRAFT" /\ target.num \in Nums /\ target.msg \in Msgs
          /\ target.msg \in Contents(folder) \/ target.msg \in DOMAIN elsewhere
      BY <1>1, <2>2 DEF Known
    <3>2. target.msg \in Contents(h) \/ target.msg \in DOMAIN elsewhere'
      <4>1. CASE target.msg \in DOMAIN elsewhere
        BY <4>1
      <4>2. CASE target.msg \in Contents(folder)
        <5>1. PICK k \in Nums : folder.file[k] = target.msg /\ folder.file[k] # None
          BY <4>2 DEF Contents, FileNums
        <5>2. CASE \E i \in 1..Len(rs) : rs[i].num = k
          BY <1>9, <3>1, <5>1, <5>2
        <5>3. CASE \A i \in 1..Len(rs) : rs[i].num # k
          <6>1. g.file[k] = folder.file[k]
            BY <5>3 DEF Removed
          <6>2. k \in FileNums(h) /\ h.file[k] = target.msg
            BY <1>4, <5>1, <6>1 DEF FileNums
          <6> QED
            BY <6>2 DEF Contents
        <5> QED
          BY <5>2, <5>3
      <4> QED
        BY <3>1, <4>1, <4>2
    <3> QED
      BY <1>4, <3>1, <3>2 DEF Known
  <2> QED
    BY <2>1, <2>2
<1>12. h.opened /\ ~foreign' => Covered(h)
  BY <1>2, <1>5
<1> QED
  BY <1>1, <1>4, <1>6, <1>10, <1>11, <1>12, OtherFilesStep

LEMMA ExecuteMoveInv ==
    ASSUME Patient, Inv, NEW S \in SUBSET DOMAIN folder.list, ExecuteMove(Picked(folder.list, S))
    PROVE  Inv'
<1>1. folder \in FolderItems /\ folder.opened /\ folder.cache_queue = <<>>
  BY DEF Inv, Held, ExecuteMove, NothingWaits
<1>2. PICK l \in Seq(MsgInfos) : l = folder.list
  BY <1>1 DEF FolderItems
<1>3. S \in SUBSET (1..Len(l))
  BY <1>2
<1>4. PICK rs : rs = Picked(l, S)
  OBVIOUS
<1>5. rs \in Seq(MsgInfos) /\ PickedFrom(l, S, rs)
  BY <1>3, <1>4, PickedNums
<1>6. Len(rs) # 0 /\ DOMAIN rs = 1..Len(rs)
  <2>1. rs # <<>>
    BY <1>2, <1>4 DEF ExecuteMove
  <2> QED
    BY <1>5, <2>1
<1>7. \A i \in 1..Len(rs) : \E j \in 1..Len(folder.list) : rs[i] = folder.list[j]
  BY <1>2, <1>3, <1>5 DEF PickedFrom
<1>8. PICK g : g = FoldLeft(TakeAway, folder, rs)
  OBVIOUS
<1>9. g \in FolderItems /\ Removed(folder, g, rs, Len(rs)) /\ g.last_num = folder.last_num
  BY <1>1, <1>5, <1>8, AllTaken
<1>10. /\ Becomes(WriteCache(Left(g, rs))) /\ UNCHANGED <<strict, target, foreign>>
       /\ elsewhere' = [m \in DOMAIN elsewhere \cup {rs[i].msg : i \in DOMAIN rs} |->
                          IF m \in DOMAIN elsewhere THEN elsewhere[m]
                          ELSE rs[CHOOSE i \in DOMAIN rs : rs[i].msg = m].flags]
  BY <1>2, <1>4, <1>8 DEF ExecuteMove
<1>11. DOMAIN elsewhere' = DOMAIN elsewhere \cup {rs[i].msg : i \in DOMAIN rs}
  BY <1>10
<1>12. \A i \in 1..Len(rs) : rs[i].msg \in Msgs /\ rs[i].flags \in Flags
  <2>1. \A i \in 1..Len(rs) : rs[i] \in MsgInfos
    BY <1>5
  <2>2. \A r \in MsgInfos : r.msg \in Msgs /\ r.flags \in Flags
    BY DEF MsgInfos
  <2> QED
    BY <2>1, <2>2
<1>13. Typed(elsewhere')
  <2>1. PICK T \in SUBSET Msgs : elsewhere \in [T -> Flags]
    BY DEF Inv, Typed
  <2>2. PICK D : D = DOMAIN elsewhere'
    OBVIOUS
  <2>3. D \in SUBSET Msgs
    BY <1>6, <1>11, <1>12, <2>1, <2>2
  <2>4. ASSUME NEW m \in D PROVE elsewhere'[m] \in Flags
    <3>1. CASE m \in DOMAIN elsewhere
      <4>1. elsewhere'[m] = elsewhere[m]
        BY <1>10, <3>1
      <4> QED
        BY <2>1, <3>1, <4>1
    <3>2. CASE m \notin DOMAIN elsewhere
      <4>1. \E i \in DOMAIN rs : rs[i].msg = m
        BY <1>11, <2>2, <3>2
      <4>2. PICK e \in DOMAIN rs : e = CHOOSE i \in DOMAIN rs : rs[i].msg = m
        BY <4>1
      <4>3. m \in DOMAIN elsewhere \cup {rs[i].msg : i \in DOMAIN rs}
        BY <1>11, <2>2
      <4>4. elsewhere'[m] = rs[e].flags
        BY <1>10, <3>2, <4>2, <4>3
      <4> QED
        BY <1>6, <1>12, <4>4
    <3> QED
      BY <3>1, <3>2
  <2>5. elsewhere' \in [D -> Flags]
    BY <1>10, <2>2, <2>4
  <2> QED
    BY <2>3, <2>5 DEF Typed
<1>14. \A m \in DOMAIN elsewhere : m \in DOMAIN elsewhere'
  BY <1>11
<1>15. \A i \in 1..Len(rs) : rs[i].msg \in DOMAIN elsewhere'
  BY <1>6, <1>11
<1> QED
  BY <1>1, <1>5, <1>6, <1>7, <1>9, <1>10, <1>13, <1>14, <1>15, LeavingInv

LEMMA ExecuteRemoveInv ==
    ASSUME Patient, Inv, NEW i \in DOMAIN folder.list, ExecuteRemove(folder.list[i])
    PROVE  Inv'
<1>1. /\ folder \in FolderItems /\ folder.opened /\ folder.cache_queue = <<>> /\ folder.stype = "F_TRASH"
      /\ Typed(elsewhere)
  BY DEF Inv, Held, ExecuteRemove, NothingWaits
<1>2. PICK l \in Seq(MsgInfos) : l = folder.list
  BY <1>1 DEF FolderItems
<1>3. PICK r \in MsgInfos : r = l[i]
  BY <1>2
<1>4. PICK rs : rs = <<r>>
  OBVIOUS
<1>5. /\ rs \in Seq(MsgInfos) /\ Len(rs) = 1
      /\ \A k \in 1..Len(rs) : rs[k] = l[i] /\ i \in 1..Len(l)
  BY <1>2, <1>3, <1>4
<1>6. PICK g : g = RemoveMsg(folder, r)
  OBVIOUS
<1>7. r.num \in Nums /\ r.flags \in Flags
  BY DEF MsgInfos
<1>8. g \in FolderItems /\ Removed(folder, g, rs, Len(rs))
  <2>1. g \in FolderItems /\ Removed(folder, g, <<r>>, 1)
    BY <1>1, <1>6, <1>7, RemoveMsgIs
  <2> QED
    BY <1>4, <1>5, <2>1
<1>9. /\ Becomes(WriteCache(Left(g, rs))) /\ UNCHANGED <<strict, elsewhere, target, foreign>>
  BY <1>2, <1>3, <1>4, <1>6 DEF ExecuteRemove
<1>10. Typed(elsewhere') /\ \A m \in DOMAIN elsewhere : m \in DOMAIN elsewhere'
  BY <1>1, <1>9
<1>11. \A k \in 1..Len(rs) : \E j \in 1..Len(folder.list) : rs[k] = folder.list[j]
  BY <1>2, <1>5
<1>12. folder.stype # "F_DRAFT" /\ Len(rs) # 0
  BY <1>1, <1>5
<1> QED
  BY <1>1, <1>5, <1>8, <1>9, <1>10, <1>11, <1>12, LeavingInv

LEMMA EmptiedIs ==
    ASSUME NEW f \in FolderItems, NEW g, g = ClearMark(ClearCache(RemoveAllMsg(f)))
    PROVE  /\ g \in FolderItems /\ g.stype = f.stype /\ g.opened = f.opened /\ g.list = f.list
           /\ \A n \in Nums : g.file[n] = None
           /\ g.cache.state = "ok" /\ g.cache.recs = <<>> /\ g.cache_queue = f.cache_queue
           /\ ~g.cache_dirty /\ ~g.mark_dirty /\ g.mark_queue = f.mark_queue
           /\ g.last_num = 0 /\ ~g.fresh
           /\ g.marks.recs = <<>> /\ g.marks.state = "ok" /\ g.total = 0 /\ g.unread = 0
<1>1. <<>> \in Seq(Headers) /\ <<>> \in Seq(Marks)
  OBVIOUS
<1>2. PICK a : a = RemoveAllMsg(f)
  OBVIOUS
<1>3. a \in FolderItems
  <2>1. 0 \in -1..MaxNum
    BY NumsAre
  <2>2. PICK file : file = [n \in Nums |-> None]
    OBVIOUS
  <2>3. file \in [Nums -> Msgs \cup {None}]
    BY <2>2
  <2>4. a = [f EXCEPT !.file = file, !.total = 0, !.unread = 0, !.last_num = 0, !.fresh = FALSE]
    BY <1>2, <2>2 DEF RemoveAllMsg
  <2>5. PICK k \in -1..MaxNum : k = 0
    BY <2>1
  <2>6. PICK z \in Int : z = 0
    OBVIOUS
  <2>7. PICK d \in BOOLEAN : d = FALSE
    OBVIOUS
  <2>8. a = [f EXCEPT !.file = file, !.total = z, !.unread = z, !.last_num = k, !.fresh = d]
    BY <2>4, <2>5, <2>6, <2>7
  <2> QED
    BY <2>3, <2>8 DEF FolderItems
<1>4. /\ a.stype = f.stype /\ a.opened = f.opened /\ a.list = f.list
      /\ \A n \in Nums : a.file[n] = None
      /\ a.cache_queue = f.cache_queue /\ a.mark_queue = f.mark_queue /\ a.last_num = 0 /\ ~a.fresh
      /\ a.total = 0 /\ a.unread = 0
  BY <1>2 DEF RemoveAllMsg, FolderItems
<1>4a. PICK none : none = <<>>
  OBVIOUS
<1>4b. none \in Seq(Headers) /\ none \in Seq(Marks)
  BY <1>1, <1>4a
<1>5. PICK b : b = WriteCacheData(a, none)
  OBVIOUS
<1>6. /\ b \in FolderItems /\ SameMail(a, b) /\ SameMarks(a, b) /\ SameSums(a, b)
      /\ b.cache_queue = a.cache_queue /\ b.cache.state = "ok" /\ b.cache.recs = none
  BY <1>4b, <1>3, <1>5, WriteCacheDataIs
<1>7. b.fresh => a.fresh
  BY <1>4b, <1>3, <1>5, WriteCacheDataIs
<1>8. PICK c : c = CacheClean(b)
  OBVIOUS
<1>9. /\ c \in FolderItems /\ SameMail(b, c) /\ SameSums(b, c) /\ SameMarks(b, c)
      /\ c.cache = b.cache /\ c.cache_queue = b.cache_queue /\ ~c.cache_dirty
  BY <1>6, <1>8, SetOneClean
<1>10. c.fresh = b.fresh
  BY <1>6, <1>8 DEF CacheClean, FolderItems
<1>11. PICK d : d = WriteMarks(c, none)
  OBVIOUS
<1>12. /\ d \in FolderItems /\ SameMail(c, d) /\ SameCache(c, d) /\ SameSums(c, d)
       /\ d.mark_queue = c.mark_queue /\ d.marks.recs = none /\ d.marks.state = "ok"
  BY <1>4b, <1>9, <1>11, WriteMarksIs
<1>13. d.fresh => c.fresh
  BY <1>4b, <1>9, <1>11, WriteMarksIs
<1>14. g = MarksClean(d)
  BY <1>2, <1>4a, <1>5, <1>8, <1>11 DEF ClearMark, ClearCache, MarksClean, CacheClean
<1>15. /\ g \in FolderItems /\ SameMail(d, g) /\ SameSums(d, g) /\ SameCache(d, g)
       /\ g.mark_queue = d.mark_queue /\ ~g.mark_dirty /\ g.marks = d.marks
  BY <1>12, <1>14, SetOneClean
<1>16. g.fresh = d.fresh
  BY <1>12, <1>14 DEF MarksClean, FolderItems
<1>17. ~g.fresh
  BY <1>4, <1>7, <1>10, <1>13, <1>16
<1>18. g.stype = f.stype /\ g.file = a.file /\ g.opened = f.opened /\ g.list = f.list /\ g.last_num = 0
  BY <1>4, <1>6, <1>9, <1>12, <1>15 DEF SameMail, SameSums
<1>19. g.cache = b.cache /\ g.cache_queue = f.cache_queue /\ ~g.cache_dirty /\ g.mark_queue = f.mark_queue
  BY <1>4, <1>6, <1>9, <1>12, <1>15 DEF SameCache, SameMarks
<1>20. g.total = 0 /\ g.unread = 0
  BY <1>4, <1>6, <1>9, <1>12, <1>15 DEF SameSums
<1> QED
  BY <1>4, <1>4a, <1>6, <1>12, <1>15, <1>17, <1>18, <1>19, <1>20

LEMMA EmptyTrashInv ==
    ASSUME Patient, Inv, EmptyTrash
    PROVE  Inv'
<1>1. /\ folder \in FolderItems /\ folder.stype = "F_TRASH" /\ strict \in BOOLEAN /\ foreign \in BOOLEAN
      /\ folder.cache_queue = <<>> /\ folder.mark_queue = <<>>
      /\ Typed(elsewhere) /\ Known(target, folder, elsewhere) /\ Good(folder)
  BY DEF Inv, Held, EmptyTrash
<1>2. PICK g : g = ClearMark(ClearCache(RemoveAllMsg(folder)))
  OBVIOUS
<1>3. /\ g \in FolderItems /\ g.stype = folder.stype /\ g.opened = folder.opened /\ g.list = folder.list
      /\ \A n \in Nums : g.file[n] = None
      /\ g.cache.state = "ok" /\ g.cache.recs = <<>> /\ g.cache_queue = <<>>
      /\ ~g.cache_dirty /\ ~g.mark_dirty /\ g.mark_queue = <<>>
      /\ g.last_num = 0 /\ ~g.fresh
  BY <1>1, <1>2, EmptiedIs
<1>4. FileNums(g) = {}
  BY <1>3 DEF FileNums
<1>5. CacheSound(g) /\ Numbered(g) /\ Trusted(g)
  BY <1>3, <1>4, EmptyIs DEF CacheSound, Numbered, Trusted
<1>6. PICK h : h = IF folder.opened THEN Refresh(g, strict) ELSE g
  OBVIOUS
<1>7. /\ Becomes(h) /\ UNCHANGED <<strict, elsewhere, target, foreign>>
  BY <1>2, <1>6 DEF EmptyTrash
<1>8. /\ h \in FolderItems /\ Good(h) /\ Trusted(h) /\ h.stype = folder.stype
      /\ h.opened => Covered(h)
  <2>1. CASE folder.opened
    <3>1. PICK w : w = WriteCache(g)
      OBVIOUS
    <3>2. w = g
      BY <1>3, <3>1 DEF WriteCache, MarksPending
    <3>3. SameMail(g, g)
      BY DEF SameMail
    <3>4. h = Refresh(g, strict)
      BY <1>6, <2>1
    <3>5. g = WriteCache(g)
      BY <3>1, <3>2
    <3>6. g.stype = "F_DRAFT" => strict
      BY <1>1, <1>3
    <3>7. g.fresh => Trusted(g)
      BY <1>5
    <3>8. /\ h \in FolderItems /\ h.file = g.file /\ h.stype = g.stype /\ h.opened
          /\ Good(h) /\ Covered(h) /\ Trusted(h)
      BY <1>1, <1>3, <1>5, <3>3, <3>4, <3>5, <3>6, <3>7, ReopenedIs
    <3> QED
      BY <1>3, <3>8
  <2>2. CASE ~folder.opened
    <3>1. h = g
      BY <1>6, <2>2
    <3>2. folder.list = <<>>
      BY <1>1, <2>2 DEF Good
    <3>3. Good(g)
      BY <1>3, <1>5, <2>2, <3>2 DEF Good, Waiting
    <3> QED
      BY <1>3, <1>5, <2>2, <3>1, <3>3
  <2> QED
    BY <2>1, <2>2
<1>9. target = NoTarget
  BY <1>1 DEF Known
<1>10. Known(target', h, elsewhere')
  BY <1>7, <1>9 DEF Known
<1>11. folder' = h /\ saved' \in BOOLEAN
  BY <1>7, BecomesIs
<1> QED
  BY <1>1, <1>7, <1>8, <1>10, <1>11, OtherFilesStep

LEMMA FirstFlagsTypes ==
    ASSUME NEW f \in FolderItems, NEW n
    PROVE  FirstFlags(f, n) \in Flags
<1>1. PICK rs \in Seq(Marks) : rs = f.marks.recs
  BY DEF FolderItems, Written
<1>2. PICK q \in Seq(Marks) : q = f.mark_queue
  BY DEF FolderItems
<1>3. \A r \in Marks : r.flags \in Flags
  BY DEF Marks
<1>4. ASSUME n \in NumsOf(rs) PROVE FirstOf(rs, n).flags \in Flags
  <2>1. PICK i \in 1..Len(rs) : FirstOf(rs, n) = rs[i]
    BY <1>4, RecordOf
  <2>2. rs[i] \in Marks
    OBVIOUS
  <2> QED
    BY <1>3, <2>1, <2>2
<1>5. ASSUME n \in NumsOf(q) PROVE LastOf(q, n).flags \in Flags
  <2>1. PICK i \in 1..Len(q) : LastOf(q, n) = q[i]
    BY <1>5, RecordOf
  <2>2. q[i] \in Marks
    OBVIOUS
  <2> QED
    BY <1>3, <2>1, <2>2
<1> QED
  BY <1>1, <1>2, <1>4, <1>5, FlagsTypes DEF FirstFlags

LEMMA ReplyInv ==
    ASSUME Inv, NEW m \in Contents(folder), Reply(m)
    PROVE  Inv'
<1>1. /\ folder \in FolderItems /\ Good(folder) /\ ~folder.opened /\ foreign \in BOOLEAN
  BY DEF Inv, Held, Reply
<1>2. PICK n \in Nums : n = NumOf(m)
  <2>1. \E n \in FileNums(folder) : folder.file[n] = m
    BY DEF Contents
  <2>2. NumOf(m) \in FileNums(folder)
    BY <2>1 DEF NumOf
  <2> QED
    BY <2>2 DEF FileNums
<1>3. PICK flags \in Flags : flags = FirstFlags(folder, n) \cup UserFlags
  <2>1. FirstFlags(folder, n) \cup UserFlags \in Flags
    BY <1>1, FirstFlagsTypes, FlagsTypes
  <2> QED
    BY <2>1
<1>4. PICK rs : rs = <<[num |-> n, flags |-> flags]>>
  OBVIOUS
<1>5. rs \in Seq(Marks)
  <2>1. [num |-> n, flags |-> flags] \in Marks
    BY DEF Marks
  <2> QED
    BY <1>4, <2>1
<1>6. PICK g : g = AppendMarks(folder, rs)
  OBVIOUS
<1>7. /\ g \in FolderItems /\ SameMail(folder, g) /\ SameCache(folder, g) /\ SameSums(folder, g)
      /\ g.mark_queue = folder.mark_queue
  BY <1>1, <1>5, <1>6, AppendMarksIs
<1>8. g.fresh => folder.fresh
  BY <1>1, <1>5, <1>6, AppendMarksIs
<1>9. Good(g)
  BY <1>1, <1>7, MarksGood
<1>10. g = AddFlags(folder, n, flags)
  BY <1>1, <1>4, <1>6 DEF AddFlags
<1>11. Becomes(g) /\ UNCHANGED <<strict, elsewhere, target, foreign>>
  BY <1>2, <1>3, <1>10 DEF Reply
<1>12. g.file = folder.file /\ g.stype = folder.stype /\ ~g.opened
  BY <1>1, <1>7 DEF SameMail
<1>13. Trusted(folder) => Trusted(g)
  <2> SUFFICES ASSUME Trusted(folder) PROVE Trusted(g)
    OBVIOUS
  <2>1. ~g.cache_dirty /\ g.cache = folder.cache /\ g.cache_queue = folder.cache_queue
    BY <1>7 DEF SameCache, Trusted
  <2> QED
    BY <1>12, <2>1, SameTrusted
<1> QED
  BY <1>1, <1>7, <1>8, <1>9, <1>11, <1>12, <1>13, SameFilesStep

-----------------------------------------------------------------------------
\* So do messages that come.

\* A message leaves the other folders only to be among the first n of rs.
Followed(els, els2, rs, n) ==
    \A m \in DOMAIN els : m \in DOMAIN els2 \/ \E j \in 1..n : rs[j].msg = m

LEMMA AddingInv ==
    ASSUME Inv, NEW s, SameMail(folder, s), NEW rs, NEW n \in Nat, n # 0,
           NEW g \in FolderItems, Good(g), Grown(s, g, rs, n), Becomes(g),
           UNCHANGED <<strict, target, foreign>>, Typed(elsewhere'),
           Followed(elsewhere, elsewhere', rs, n),
           folder.opened /\ Covered(folder) => Covered(g)
    PROVE  Inv'
<1>1. foreign \in BOOLEAN /\ Known(target, folder, elsewhere) /\ folder \in FolderItems
  BY DEF Inv, Held
<1>2. folder.opened /\ ~foreign => Covered(folder)
  BY DEF Inv, Held
<1>3. folder' = g /\ saved' \in BOOLEAN
  BY BecomesIs
<1>4. saved' => g.file = folder.file
  BY BecomesIs
<1>5. s.file = folder.file /\ s.stype = folder.stype /\ s.opened = folder.opened
  BY DEF SameMail
<1>6. FileNums(s) = FileNums(folder)
  BY <1>5 DEF FileNums
<1>7. /\ g.stype = folder.stype /\ g.opened = folder.opened
      /\ \A k \in FileNums(folder) : g.file[k] = folder.file[k]
      /\ \A j \in 1..n : \E k \in FileNums(g) : g.file[k] = rs[j].msg
  BY <1>5, <1>6 DEF Grown
<1>8. ~g.fresh /\ folder.file[g.last_num] = None /\ g.last_num \in FileNums(g)
  BY <1>5 DEF Grown
<1>9. ~saved'
  <2>1. g.file # folder.file
    BY <1>8 DEF FileNums
  <2> QED
    BY <1>4, <2>1
<1>10. \A x \in Contents(folder) : x \in Contents(g)
  <2> SUFFICES ASSUME NEW x \in Contents(folder) PROVE x \in Contents(g)
    OBVIOUS
  <2>1. PICK k \in FileNums(folder) : folder.file[k] = x
    BY DEF Contents
  <2>2. g.file[k] = x /\ k \in FileNums(g)
    BY <1>7, <2>1 DEF FileNums
  <2> QED
    BY <2>2 DEF Contents
<1>11. \A j \in 1..n : rs[j].msg \in Contents(g)
  BY <1>7 DEF Contents
<1>12. Known(target', g, elsewhere')
  BY <1>1, <1>7, <1>10, <1>11 DEF Known, Followed
<1>13. g.opened /\ ~foreign' => Covered(g)
  BY <1>2, <1>7
<1> QED
  BY <1>1, <1>3, <1>7, <1>8, <1>9, <1>12, <1>13, OtherFilesStep

LEMMA IncorporateInv ==
    ASSUME Inv, NEW m \in Fresh, Incorporate(m)
    PROVE  Inv'
<1>1. folder \in FolderItems /\ Good(folder) /\ m \in Msgs /\ Typed(elsewhere) /\ HasRoom(folder, 1)
  BY DEF Inv, Held, Fresh, Incorporate
<1>2. PICK flags \in {Default, UserFlags} :
         Becomes(AddMsgs(folder, <<[msg |-> m, flags |-> flags, received |-> TRUE]>>))
  BY DEF Incorporate
<1>3. PICK rs : rs = <<[msg |-> m, flags |-> flags, received |-> TRUE]>>
  OBVIOUS
<1>4. rs \in Seq(Incoming) /\ Len(rs) = 1
  <2>1. flags \in Flags
    BY FlagsTypes
  <2>2. [msg |-> m, flags |-> flags, received |-> TRUE] \in Incoming
    BY <1>1, <2>1 DEF Incoming
  <2> QED
    BY <1>3, <2>2
<1>5. PICK g : g = AddMsgs(folder, rs)
  OBVIOUS
<1>6. PICK n \in Nat : n = 1
  OBVIOUS
<1>7. n = Len(rs) /\ HasRoom(folder, n)
  BY <1>1, <1>4, <1>6
<1>8. g \in FolderItems /\ Good(g) /\ Grown(folder, g, rs, n)
  BY <1>1, <1>4, <1>5, <1>7, AddMsgsIs
<1>9. folder.opened /\ Covered(folder) => Covered(g)
  BY <1>1, <1>4, <1>5, <1>7, AddMsgsIs
<1>10. Becomes(g) /\ UNCHANGED <<strict, elsewhere, target, foreign>>
  BY <1>2, <1>3, <1>5 DEF Incorporate
<1>11. SameMail(folder, folder)
  BY DEF SameMail
<1>12. Typed(elsewhere') /\ Followed(elsewhere, elsewhere', rs, n)
  BY <1>1, <1>10 DEF Followed
<1>13. n # 0
  BY <1>6
<1> QED
  BY <1>8, <1>9, <1>10, <1>11, <1>12, <1>13, AddingInv

\* The messages of another folder.
LEMMA ComingIs ==
    ASSUME Inv, NEW ms \in Batches, NEW rs, rs = Coming(ms)
    PROVE  /\ rs \in Seq(Incoming) /\ Len(rs) = Len(ms) /\ Len(ms) \in Nat /\ Len(ms) # 0
           /\ \A m : m \in ToSet(ms) => \E j \in 1..Len(rs) : rs[j].msg = m
<1>1. PICK S \in SUBSET Msgs : elsewhere \in [S -> Flags]
  BY DEF Inv, Typed
<1>2. PICK n \in Nat : n # 0 /\ Len(ms) = n /\ DOMAIN ms = 1..n /\ \A i \in 1..n : ms[i] \in S
  <2>1. PICK X : X = DOMAIN elsewhere \ Contents(folder)
    OBVIOUS
  <2>2. X \in SUBSET S
    BY <1>1, <2>1
  <2>3. (\E m \in DOMAIN elsewhere \ Contents(folder) : ms = <<m>>) \/ ms \in X \X X
    BY <2>1 DEF Batches
  <2>4. CASE \E m \in DOMAIN elsewhere \ Contents(folder) : ms = <<m>>
    <3>1. PICK m \in S : ms = <<m>>
      BY <1>1, <2>4
    <3>2. Len(ms) = 1 /\ DOMAIN ms = 1..1 /\ \A i \in 1..1 : ms[i] \in S
      BY <3>1
    <3> QED
      BY <3>2
  <2>5. CASE ms \in X \X X
    <3>1. PICK a \in S, b \in S : ms = <<a, b>>
      BY <2>2, <2>5
    <3>2. Len(ms) = 2 /\ DOMAIN ms = 1..2 /\ \A i \in 1..2 : ms[i] \in S
      BY <3>1
    <3> QED
      BY <3>2
  <2> QED
    BY <2>3, <2>4, <2>5
<1>3. rs = [i \in 1..n |-> [msg |-> ms[i], flags |-> elsewhere[ms[i]], received |-> FALSE]]
  BY <1>2 DEF Coming
<1>4. \A i \in 1..n : [msg |-> ms[i], flags |-> elsewhere[ms[i]], received |-> FALSE] \in Incoming
  BY <1>1, <1>2 DEF Incoming
<1>5. rs \in Seq(Incoming) /\ Len(rs) = n /\ \A i \in 1..n : rs[i].msg = ms[i]
  BY <1>3, <1>4
<1>6. \A m : m \in ToSet(ms) => \E j \in 1..n : ms[j] = m
  BY <1>2 DEF ToSet
<1> QED
  BY <1>2, <1>5, <1>6

LEMMA MoveInInv ==
    ASSUME Inv, NEW ms \in Batches, NEW kept \in BOOLEAN, MoveIn(ms, kept)
    PROVE  Inv'
<1>1. folder \in FolderItems /\ Good(folder) /\ ~folder.opened
  BY DEF Inv, Held, MoveIn
<1>2. PICK s : s = Scan(folder)
  OBVIOUS
<1>3. /\ s \in FolderItems /\ SameMail(folder, s) /\ Flushed(folder, s) /\ Settled(folder, s)
      /\ s.last_num = LastFile(folder)
  BY <1>1, <1>2, ScanIs
<1>4. Good(s)
  BY <1>1, <1>3, CountedGood
<1>5. PICK rs : rs = Coming(ms)
  OBVIOUS
<1>6. rs \in Seq(Incoming) /\ Len(rs) = Len(ms) /\ Len(ms) \in Nat /\ Len(ms) # 0
  BY <1>5, ComingIs
<1>7. \A m : m \in ToSet(ms) => \E j \in 1..Len(rs) : rs[j].msg = m
  BY <1>5, ComingIs
<1>8. PICK n \in Nat : n = Len(rs) /\ n # 0
  BY <1>6
<1>9. HasRoom(s, n)
  BY <1>2, <1>6, <1>8 DEF MoveIn
<1>10. PICK g : g = MoveMsgs(s, rs)
  OBVIOUS
<1>11. g \in FolderItems /\ Good(g) /\ Grown(s, g, rs, n)
  BY <1>3, <1>4, <1>6, <1>8, <1>9, <1>10, MoveMsgsIs
<1>12. /\ Becomes(g) /\ UNCHANGED <<strict, target, foreign>>
       /\ elsewhere' = [m \in DOMAIN elsewhere \ (IF kept THEN {} ELSE ToSet(ms)) |-> elsewhere[m]]
  BY <1>2, <1>5, <1>10 DEF MoveIn
<1>13. Followed(elsewhere, elsewhere', rs, n)
  BY <1>7, <1>8, <1>12 DEF Followed
<1>14. Typed(elsewhere')
  <2>1. PICK S \in SUBSET Msgs : elsewhere \in [S -> Flags]
    BY DEF Inv, Typed
  <2>2. PICK T \in SUBSET S : T = DOMAIN elsewhere \ (IF kept THEN {} ELSE ToSet(ms))
    BY <2>1
  <2>3. elsewhere' \in [T -> Flags]
    BY <1>12, <2>1, <2>2
  <2> QED
    BY <2>3 DEF Typed
<1> QED
  BY <1>1, <1>3, <1>8, <1>11, <1>12, <1>13, <1>14, AddingInv

LEMMA AddInInv ==
    ASSUME Inv, NEW ms \in Batches, NEW failed \in BOOLEAN, AddIn(ms, failed)
    PROVE  Inv'
<1>1. folder \in FolderItems /\ Good(folder)
  BY DEF Inv, Held
<1>2. PICK s \in IF folder.opened THEN {folder} ELSE {folder, Scan(folder)} :
         HasRoom(s, Len(ms)) /\ Becomes(AddMsgs(s, Coming(ms)))
  BY DEF AddIn
<1>3. s \in FolderItems /\ SameMail(folder, s) /\ Good(s)
  <2>1. CASE s = folder
    BY <1>1, <2>1 DEF SameMail
  <2>2. CASE s = Scan(folder)
    <3>1. /\ s \in FolderItems /\ SameMail(folder, s) /\ Flushed(folder, s) /\ Settled(folder, s)
          /\ s.last_num = LastFile(folder)
      BY <1>1, <2>2, ScanIs
    <3> QED
      BY <1>1, <3>1, CountedGood
  <2> QED
    BY <1>2, <2>1, <2>2
<1>4. folder.opened => s = folder
  BY <1>2
<1>5. PICK rs : rs = Coming(ms)
  OBVIOUS
<1>6. rs \in Seq(Incoming) /\ Len(rs) = Len(ms) /\ Len(ms) \in Nat /\ Len(ms) # 0
  BY <1>5, ComingIs
<1>7. \A m : m \in ToSet(ms) => \E j \in 1..Len(rs) : rs[j].msg = m
  BY <1>5, ComingIs
<1>8. PICK n \in Nat : n = Len(rs) /\ n # 0
  BY <1>6
<1>9. HasRoom(s, n)
  BY <1>2, <1>6, <1>8
<1>10. PICK g : g = AddMsgs(s, rs)
  OBVIOUS
<1>11. g \in FolderItems /\ Good(g) /\ Grown(s, g, rs, n)
  BY <1>3, <1>6, <1>8, <1>9, <1>10, AddMsgsIs
<1>12. s.opened /\ Covered(s) => Covered(g)
  BY <1>3, <1>6, <1>8, <1>9, <1>10, AddMsgsIs
<1>13. folder.opened /\ Covered(folder) => Covered(g)
  BY <1>4, <1>12
<1>14. /\ Becomes(g) /\ UNCHANGED <<strict, target, foreign>>
       /\ elsewhere' = [m \in DOMAIN elsewhere \ (IF failed THEN {} ELSE ToSet(ms)) |-> elsewhere[m]]
  BY <1>2, <1>5, <1>10 DEF AddIn
<1>15. Followed(elsewhere, elsewhere', rs, n)
  BY <1>7, <1>8, <1>14 DEF Followed
<1>16. Typed(elsewhere')
  <2>1. PICK S \in SUBSET Msgs : elsewhere \in [S -> Flags]
    BY DEF Inv, Typed
  <2>2. PICK T \in SUBSET S : T = DOMAIN elsewhere \ (IF failed THEN {} ELSE ToSet(ms))
    BY <2>1
  <2>3. elsewhere' \in [T -> Flags]
    BY <1>14, <2>1, <2>2
  <2> QED
    BY <2>3 DEF Typed
<1> QED
  BY <1>3, <1>8, <1>11, <1>13, <1>14, <1>15, <1>16, AddingInv

LEMMA DeliverInv ==
    ASSUME Inv, NEW m \in Fresh, Deliver(m)
    PROVE  Inv'
<1>1. /\ folder \in FolderItems /\ Good(folder) /\ m \in Msgs /\ m # None /\ foreign' = TRUE
      /\ folder.stype = "F_NORMAL" /\ Typed(elsewhere) /\ Known(target, folder, elsewhere)
      /\ UNCHANGED <<strict, elsewhere, target>>
  BY NoneAssumption DEF Inv, Held, Fresh, Deliver
<1>2. PICK k \in Nums : k = LastFile(folder) + 1
  <2>1. LastFile(folder) \in 0..MaxNum /\ LastFile(folder) < MaxNum
    BY LastFileIs DEF Deliver
  <2> QED
    BY <2>1, NumsAre DEF Nums
<1>3. folder.file[k] = None
  <2>1. k \notin FileNums(folder)
    <3>1. LastFile(folder) \in 0..MaxNum /\ \A n \in FileNums(folder) : n <= LastFile(folder)
      BY LastFileIs
    <3> QED
      BY <1>2, <3>1
  <2> QED
    BY <2>1 DEF FileNums
<1>4. PICK file : file = WithFile(folder, k, m)
  OBVIOUS
<1>5. /\ file \in [Nums -> Msgs \cup {None}] /\ file[k] = m
      /\ \A j \in Nums : j # k => file[j] = folder.file[j]
  BY <1>1, <1>4 DEF WithFile, FolderItems
<1>6. PICK g : g = [folder EXCEPT !.file = file, !.fresh = FALSE]
  OBVIOUS
<1>7. Becomes(g)
  <2>1. g = [folder EXCEPT !.file[LastFile(folder) + 1] = m, !.fresh = FALSE]
    BY <1>2, <1>4, <1>6, Zenon DEF WithFile
  <2> QED
    BY <2>1 DEF Deliver
<1>8. g \in FolderItems
  BY <1>1, <1>5, <1>6 DEF FolderItems
<1>9. /\ g.file = file /\ ~g.fresh
      /\ g.stype = folder.stype /\ g.opened = folder.opened /\ g.list = folder.list
      /\ g.cache = folder.cache /\ g.cache_queue = folder.cache_queue /\ g.mark_queue = folder.mark_queue
  BY <1>1, <1>6 DEF FolderItems
<1>10. ASSUME NEW rs, rs \in Seq(Headers) \/ rs \in Seq(MsgInfos), Right(folder, rs) PROVE Right(g, rs)
  <2> SUFFICES ASSUME NEW i \in 1..Len(rs) PROVE g.file[rs[i].num] = rs[i].msg
    BY DEF Right
  <2>1. rs[i] \in Headers \/ rs[i] \in MsgInfos
    BY <1>10
  <2>2. rs[i].num \in Nums /\ rs[i].msg \in Msgs
    BY <2>1 DEF Headers, MsgInfos
  <2>3. folder.file[rs[i].num] = rs[i].msg
    BY <1>10 DEF Right
  <2>4. rs[i].num # k
    BY <1>3, <2>2, <2>3, NoneAssumption
  <2> QED
    BY <1>5, <1>9, <2>2, <2>3, <2>4
<1>11. \A rs : AllSound(folder, rs) <=> Right(folder, rs)
  BY <1>1 DEF AllSound, Sound, Right
<1>12. /\ folder.cache.recs \in Seq(Headers) /\ folder.cache_queue \in Seq(MsgInfos)
       /\ folder.list \in Seq(MsgInfos)
  BY <1>1 DEF FolderItems, Written
<1>13. CacheSound(g)
  <2>1. CacheSound(folder)
    BY <1>1 DEF Good
  <2>2. Right(g, folder.cache.recs) /\ Right(g, folder.cache_queue)
    BY <1>10, <1>11, <1>12, <2>1 DEF CacheSound
  <2>3. AllSound(g, folder.cache.recs) /\ AllSound(g, folder.cache_queue)
    BY <2>2 DEF AllSound, Sound, Right
  <2> QED
    BY <1>9, <2>1, <2>3 DEF CacheSound
<1>14. g.opened => RowsSound(g)
  BY <1>1, <1>9, <1>10, <1>12 DEF Good, RowsSound
<1>15. Good(g)
  BY <1>1, <1>9, <1>13, <1>14 DEF Good, Numbered, Waiting
<1>16. folder' = g /\ saved' \in BOOLEAN
  BY <1>7, BecomesIs
<1>17. ~saved'
  <2>1. saved' => g.file = folder.file
    BY <1>7, BecomesIs
  <2> QED
    BY <1>1, <1>3, <1>5, <1>9, <2>1
<1>18. target = NoTarget
  BY <1>1 DEF Known
<1>19. Known(target', g, elsewhere')
  BY <1>1, <1>18 DEF Known
<1>20. Typed(elsewhere')
  BY <1>1
<1> QED
  BY <1>1, <1>8, <1>9, <1>15, <1>16, <1>17, <1>19, <1>20, OtherFilesStep

-----------------------------------------------------------------------------
\* The compose window.

LEMMA ReeditInv ==
    ASSUME Inv, NEW i \in DOMAIN folder.list, Reedit(folder.list[i])
    PROVE  Inv'
<1>1. folder \in FolderItems /\ Good(folder) /\ folder.opened /\ folder.stype = "F_DRAFT"
  BY DEF Inv, Held, Reedit
<1>2. PICK l \in Seq(MsgInfos) : l = folder.list
  BY <1>1 DEF FolderItems
<1>3. i \in 1..Len(l) /\ Right(folder, l)
  BY <1>1, <1>2 DEF Good, RowsSound
<1>4. PICK r \in MsgInfos : r = l[i]
  BY <1>3
<1>5. r.num \in Nums /\ r.msg \in Msgs /\ folder.file[r.num] = r.msg
  BY <1>3, <1>4 DEF MsgInfos, Right
<1>6. r.msg \in Contents(folder)
  BY <1>5, NoneAssumption DEF Contents, FileNums
<1>7. target' = [num |-> r.num, msg |-> r.msg]
  BY <1>2, <1>4 DEF Reedit, HeaderOf
<1>8. Known(target', folder, elsewhere)
  BY <1>1, <1>5, <1>6, <1>7 DEF Known
<1>9. UNCHANGED <<folder, strict, elsewhere, saved, foreign>>
  BY DEF Reedit
<1> QED
  BY <1>8, <1>9 DEF Inv

LEMMA CloseWindowInv ==
    ASSUME Inv, CloseWindow
    PROVE  Inv'
<1>1. UNCHANGED <<folder, strict, elsewhere, saved, foreign>> /\ target' = NoTarget
  BY DEF CloseWindow
<1> QED
  BY <1>1 DEF Inv, Known

\* A draft that was removed leaves its rows behind until the folder is read again.
Loose(f) ==
    /\ CacheSound(f) /\ Numbered(f) /\ Waiting(f)
    /\ ~f.opened => f.list = <<>>
    /\ f.opened => Distinct(f.list) /\ Apart(f.list, f.cache_queue) /\ AllSound(f, f.list)

LEMMA GoodLoose ==
    ASSUME NEW f, Good(f)
    PROVE  Loose(f)
  BY DEF Good, Loose, RowsSound, Right, AllSound, Sound

LEMMA LooseScanned ==
    ASSUME NEW f \in FolderItems, Loose(f), NEW g, g = Scan(f)
    PROVE  /\ g \in FolderItems /\ Loose(g) /\ SameMail(f, g) /\ ~g.fresh
           /\ g.last_num = LastFile(f)
<1>1. /\ g \in FolderItems /\ SameMail(f, g) /\ Flushed(f, g) /\ Settled(f, g) /\ ~g.fresh
      /\ g.last_num = LastFile(f)
  BY ScanIs
<1>2. /\ g.file = f.file /\ g.stype = f.stype /\ g.opened = f.opened /\ g.list = f.list
      /\ FileNums(g) = FileNums(f)
      /\ \A rs : AllSound(f, rs) => AllSound(g, rs)
  BY <1>1, SameFiles DEF SameMail
<1>3. CacheSound(g)
  BY <1>1, FlushedSound DEF Loose
<1>4. Numbered(g)
  BY <1>1, <1>2, LastFileIs DEF Numbered
<1>5. f.opened => g.cache_queue = f.cache_queue /\ g.mark_queue = f.mark_queue /\ g.cache = f.cache
  BY <1>1 DEF Flushed, Settled
<1>6. Waiting(g)
  BY <1>2, <1>5 DEF Loose, Waiting
<1> QED
  BY <1>1, <1>2, <1>3, <1>4, <1>5, <1>6 DEF Loose

LEMMA LooseRemoved ==
    ASSUME NEW f \in FolderItems, Loose(f), f.stype = "F_DRAFT", NEW r, r.num \in Nums,
           NEW n \in FileNums(f), r.num < n,
           NEW g \in FolderItems, Removed(f, g, <<r>>, 1), g.last_num = f.last_num
    PROVE  Loose(g) /\ g.file[n] = f.file[n] /\ g.stype = f.stype /\ g.opened = f.opened
<1>1. n \in Nums /\ n \in Int /\ r.num \in Int /\ Nums \in SUBSET Int
  BY NumsAre DEF FileNums
<1>2. \A j \in 1..1 : <<r>>[j] = r
  OBVIOUS
<1>3. \A k \in Nums : k # r.num => g.file[k] = f.file[k]
  <2> SUFFICES ASSUME NEW k \in Nums, k # r.num PROVE g.file[k] = f.file[k]
    OBVIOUS
  <2>1. \A j \in 1..1 : <<r>>[j].num # k
    BY <1>2
  <2> QED
    BY <2>1 DEF Removed
<1>4. g.file[r.num] = None
  <2>1. \E j \in 1..1 : <<r>>[j].num = r.num
    BY <1>2
  <2> QED
    BY <2>1 DEF Removed
<1>5. /\ g.stype = f.stype /\ g.opened = f.opened /\ g.list = f.list
      /\ g.cache = f.cache /\ g.cache_queue = f.cache_queue /\ g.mark_queue = f.mark_queue
  BY DEF Removed, SameMarks, SameCache
<1>6. /\ \A k \in FileNums(f) : k # r.num => k \in FileNums(g)
      /\ \A k \in FileNums(g) : k \in FileNums(f)
  BY <1>3, <1>4 DEF FileNums
<1>7. n \in FileNums(g) /\ g.file[n] = f.file[n]
  BY <1>1, <1>3, <1>6
<1>8. ASSUME NEW x, x.num \in Nums, Sound(f, x) PROVE Sound(g, x)
  <2>1. CASE x.num = r.num
    BY <1>5, <1>7, <2>1 DEF Sound
  <2>2. CASE x.num # r.num /\ f.file[x.num] = x.msg
    BY <1>3, <1>8, <2>2 DEF Sound
  <2>3. CASE \E k \in FileNums(f) : x.num < k
    <3>1. PICK k \in FileNums(f) : x.num < k
      BY <2>3
    <3>2. k \in Int /\ x.num \in Int
      BY <1>1, <1>8 DEF FileNums
    <3>3. CASE k = r.num
      <4>1. x.num < n
        BY <1>1, <3>1, <3>2, <3>3
      <4> QED
        BY <1>5, <1>7, <4>1 DEF Sound
    <3>4. CASE k # r.num
      BY <1>5, <1>6, <3>1, <3>4 DEF Sound
    <3> QED
      BY <3>3, <3>4
  <2> QED
    BY <1>8, <2>1, <2>2, <2>3 DEF Sound
<1>9. ASSUME NEW rs, rs \in Seq(Headers) \/ rs \in Seq(MsgInfos), AllSound(f, rs) PROVE AllSound(g, rs)
  <2> SUFFICES ASSUME NEW i \in 1..Len(rs) PROVE Sound(g, rs[i])
    BY DEF AllSound
  <2>1. rs[i] \in Headers \/ rs[i] \in MsgInfos
    BY <1>9
  <2>2. rs[i].num \in Nums
    BY <2>1 DEF Headers, MsgInfos
  <2>3. Sound(f, rs[i])
    BY <1>9 DEF AllSound
  <2> QED
    BY <1>8, <2>2, <2>3
<1>10. /\ f.cache.recs \in Seq(Headers) /\ f.cache_queue \in Seq(MsgInfos) /\ f.list \in Seq(MsgInfos)
  BY DEF FolderItems, Written
<1>11. CacheSound(g)
  BY <1>5, <1>9, <1>10 DEF Loose, CacheSound
<1>12. f.opened => AllSound(g, f.list)
  BY <1>9, <1>10 DEF Loose
<1>13. Numbered(g)
  BY <1>5, <1>6 DEF Loose, Numbered
<1>14. Waiting(g)
  BY <1>5 DEF Loose, Waiting
<1> QED
  BY <1>5, <1>7, <1>11, <1>12, <1>13, <1>14 DEF Loose

LEMMA RemoveTargetIs ==
    ASSUME NEW f \in FolderItems, Good(f), f.stype = "F_DRAFT",
           NEW n \in FileNums(f), target = NoTarget \/ (target.num \in Nums /\ target.msg \in Msgs),
           f.last_num = n, target.msg # f.file[n], NEW g, g = RemoveTarget(f)
    PROVE  /\ g \in FolderItems /\ Loose(g) /\ g.file[n] = f.file[n]
           /\ g.stype = f.stype /\ g.opened = f.opened
<1>1. CASE target = NoTarget
  <2>1. g = f
    BY <1>1 DEF RemoveTarget
  <2> QED
    BY <2>1, GoodLoose
<1>2. CASE target # NoTarget
  <2>1. PICK s : s = Scan(f)
    OBVIOUS
  <2>2. s \in FolderItems /\ Loose(s) /\ SameMail(f, s) /\ s.last_num = LastFile(f)
    BY <2>1, GoodLoose, LooseScanned
  <2>3. s.file = f.file /\ s.stype = f.stype /\ s.opened = f.opened /\ FileNums(s) = FileNums(f)
    BY <2>2, SameFiles DEF SameMail
  <2>4. PICK r : r = [num |-> target.num, flags |-> {}]
    OBVIOUS
  <2>5. g = IF Exists(s, target) THEN RemoveMsg(s, r) ELSE s
    BY <1>2, <2>1, <2>4 DEF RemoveTarget
  <2>6. CASE Exists(s, target)
    <3>1. target.num \in Nums /\ s.file[target.num] = target.msg /\ target.msg \in Msgs
      BY <1>2, <2>6 DEF Exists
    <3>2. target.num \in FileNums(f)
      BY <2>3, <3>1, NoneAssumption DEF FileNums
    <3>3. n \in Int /\ target.num \in Int /\ n >= 0
      BY <3>1, NumsAre DEF FileNums, Nums
    <3>4. target.num <= n
      BY <3>2, <3>3 DEF Good, Numbered
    <3>5. target.num # n
      BY <2>3, <3>1
    <3>6. r.num \in Nums /\ r.flags \in Flags /\ r.num = target.num
      BY <2>4, <3>1, FlagsTypes
    <3>7. r.num < n
      BY <3>3, <3>4, <3>5, <3>6
    <3>8. n <= LastFile(f) /\ LastFile(f) \in Int
      BY LastFileIs, NumsAre
    <3>9. r.num # s.last_num
      BY <2>2, <3>3, <3>6, <3>7, <3>8
    <3>10. g = RemoveMsg(s, r)
      BY <2>5, <2>6
    <3>11. g \in FolderItems /\ Removed(s, g, <<r>>, 1)
      BY <2>2, <3>6, <3>10, RemoveMsgIs
    <3>12. g.last_num = s.last_num
      BY <2>2, <3>6, <3>9, <3>10, RemoveMsgIs
    <3>13. Loose(g) /\ g.file[n] = s.file[n] /\ g.stype = s.stype /\ g.opened = s.opened
      <4>1. n \in FileNums(s) /\ s.stype = "F_DRAFT"
        BY <2>3
      <4> QED
        BY <2>2, <3>6, <3>7, <3>11, <3>12, <4>1, LooseRemoved
    <3> QED
      BY <2>3, <3>11, <3>13
  <2>7. CASE ~Exists(s, target)
    BY <2>2, <2>3, <2>5, <2>7
  <2> QED
    BY <2>6, <2>7
<1> QED
  BY <1>1, <1>2

LEMMA SaveDraftInv ==
    ASSUME Inv, NEW m \in Fresh, NEW keep \in BOOLEAN, SaveDraft(m, keep)
    PROVE  Inv'
<1>1. /\ folder \in FolderItems /\ Good(folder) /\ folder.stype = "F_DRAFT" /\ strict = TRUE
      /\ foreign \in BOOLEAN /\ Typed(elsewhere) /\ Known(target, folder, elsewhere)
  BY DEF Inv, Held, SaveDraft
<1>2. m \in Msgs /\ m \notin Contents(folder) /\ m \notin DOMAIN elsewhere
  BY DEF Fresh
<1>3. PICK f : f = Scan(folder)
  OBVIOUS
<1>4. /\ f \in FolderItems /\ SameMail(folder, f) /\ Flushed(folder, f) /\ Settled(folder, f)
      /\ f.last_num = LastFile(folder)
  BY <1>1, <1>3, ScanIs
<1>5. Good(f)
  BY <1>1, <1>4, CountedGood
<1>6. PICK rs : rs = <<[msg |-> m, flags |-> {}, received |-> FALSE]>>
  OBVIOUS
<1>7. rs \in Seq(Incoming) /\ Len(rs) = 1 /\ rs[1].msg = m
  <2>1. [msg |-> m, flags |-> {}, received |-> FALSE] \in Incoming
    BY <1>2, FlagsTypes DEF Incoming
  <2> QED
    BY <1>6, <2>1
<1>8. PICK g : g = AddMsgs(f, rs)
  OBVIOUS
<1>9. PICK e : e = RemoveTarget(g)
  OBVIOUS
<1>10. PICK h : h = Scan(e)
  OBVIOUS
<1>11. PICK x : x = IF folder.opened THEN Refresh(h, strict) ELSE h
  OBVIOUS
<1>12. /\ HasRoom(f, 1) /\ Becomes(x)
       /\ target' = IF keep THEN [num |-> g.last_num, msg |-> m] ELSE NoTarget
       /\ foreign' = (foreign /\ ~folder.opened) /\ UNCHANGED <<strict, elsewhere>>
  BY <1>3, <1>6, <1>8, <1>9, <1>10, <1>11 DEF SaveDraft
<1>13. PICK k \in Nat : k = 1
  OBVIOUS
<1>14. k = Len(rs) /\ HasRoom(f, k)
  BY <1>7, <1>12, <1>13
<1>15. g \in FolderItems /\ Good(g) /\ Grown(f, g, rs, k)
  BY <1>4, <1>5, <1>7, <1>8, <1>14, AddMsgsIs
<1>16. PICK n : n = g.last_num
  OBVIOUS
<1>17. /\ n \in Nums /\ n \in FileNums(g) /\ g.file[n] = m /\ folder.file[n] = None
       /\ g.stype = "F_DRAFT" /\ g.opened = folder.opened
  <2>1. f.file = folder.file /\ f.stype = folder.stype /\ f.opened = folder.opened
    BY <1>4 DEF SameMail
  <2> QED
    BY <1>1, <1>7, <1>13, <1>15, <1>16, <2>1 DEF Grown
<1>18. /\ target = NoTarget \/ (target.num \in Nums /\ target.msg \in Msgs)
       /\ target.msg # g.file[n]
  <2>1. CASE target = NoTarget
    BY <1>2, <1>17, <2>1, NoneAssumption DEF NoTarget
  <2>2. CASE target # NoTarget
    BY <1>1, <1>2, <1>17, <2>2 DEF Known
  <2> QED
    BY <2>1, <2>2
<1>19. /\ e \in FolderItems /\ Loose(e) /\ e.file[n] = g.file[n]
       /\ e.stype = g.stype /\ e.opened = g.opened
  BY <1>9, <1>15, <1>16, <1>17, <1>18, RemoveTargetIs
<1>20. h \in FolderItems /\ Loose(h) /\ SameMail(e, h) /\ ~h.fresh
  BY <1>10, <1>19, LooseScanned
<1>21. h.stype = folder.stype /\ h.opened = folder.opened /\ h.file[n] = m
  BY <1>1, <1>17, <1>19, <1>20 DEF SameMail
<1>22. /\ x \in FolderItems /\ Good(x) /\ x.file = h.file /\ x.stype = folder.stype
       /\ x.fresh => Trusted(x)
       /\ x.opened => Covered(x)
  <2>1. CASE folder.opened
    <3>1. PICK w : w = WriteCache(h)
      OBVIOUS
    <3>2. /\ CacheSound(h) /\ Waiting(h) /\ h.opened /\ Numbered(h)
          /\ Distinct(h.list) /\ Apart(h.list, h.cache_queue) /\ AllSound(h, h.list)
      BY <1>20, <1>21, <2>1 DEF Loose
    <3>3. /\ w \in FolderItems /\ SameMail(h, w) /\ SameSums(h, w) /\ CacheSound(w)
          /\ w.cache_queue = <<>>
      BY <1>20, <3>1, <3>2, WriteCacheSound
    <3>4. w.fresh => h.fresh
      BY <1>20, <3>1, <3>2, WriteCacheSound
    <3>5. Numbered(w)
      BY <3>2, <3>3 DEF Numbered, FileNums, SameMail, SameSums
    <3>6. x = Refresh(h, strict) /\ strict \in BOOLEAN /\ (h.stype = "F_DRAFT" => strict)
      BY <1>1, <1>11, <2>1
    <3>7. w.fresh => Trusted(w)
      BY <1>20, <3>4
    <3>8. w.cache.state = "ok" \/ w.cache_queue = <<>>
      BY <3>3
    <3>9. /\ x \in FolderItems /\ x.file = h.file /\ x.stype = h.stype /\ x.opened
          /\ Good(x) /\ Covered(x) /\ Trusted(x)
      BY <1>20, <3>1, <3>3, <3>5, <3>6, <3>7, <3>8, ReopenedIs
    <3> QED
      BY <1>21, <3>9
  <2>2. CASE ~folder.opened
    <3>1. x = h
      BY <1>11, <2>2
    <3>2. Good(h)
      BY <1>20, <1>21, <2>2 DEF Good, Loose
    <3> QED
      BY <1>20, <1>21, <2>2, <3>1, <3>2
  <2> QED
    BY <2>1, <2>2
<1>23. folder' = x /\ saved' \in BOOLEAN
  BY <1>12, BecomesIs
<1>24. ~saved'
  <2>1. saved' => x.file = folder.file
    BY <1>12, BecomesIs
  <2> QED
    BY <1>2, <1>17, <1>21, <1>22, <2>1, NoneAssumption
<1>25. Known(target', x, elsewhere')
  <2>1. m \in Contents(x)
    BY <1>2, <1>17, <1>21, <1>22, NoneAssumption DEF Contents, FileNums
  <2>2. CASE keep
    BY <1>1, <1>2, <1>12, <1>16, <1>17, <1>22, <2>1, <2>2 DEF Known
  <2>3. CASE ~keep
    BY <1>12, <2>3 DEF Known
  <2> QED
    BY <2>2, <2>3
<1>26. Typed(elsewhere') /\ foreign' \in BOOLEAN
  BY <1>1, <1>12
<1> QED
  BY <1>12, <1>22, <1>23, <1>24, <1>25, <1>26, OtherFilesStep

-----------------------------------------------------------------------------
\* The end of the program, however it comes.

\* A new process starts with g, where f was.
LEMMA AgainInv ==
    ASSUME Inv, NEW f \in FolderItems, f.stype = folder.stype,
           Distinct(f.cache.recs), AllSound(f, f.cache.recs),
           NEW d \in BOOLEAN, folder' = Again(f, d), d => Trusted(f),
           saved' \in BOOLEAN, saved' => Trusted(f),
           target' = NoTarget, UNCHANGED strict, foreign' \in BOOLEAN, Typed(elsewhere')
    PROVE  Inv'
<1>1. PICK g : g = Again(f, d)
  OBVIOUS
<1>2. g \in FolderItems /\ Good(g) /\ g.stype = f.stype /\ ~g.opened /\ g.fresh = d
  BY <1>1, AgainIs
<1>3. Trusted(f) => Trusted(g)
  BY <1>1, AgainIs
<1>4. Known(target', g, elsewhere')
  BY DEF Known
<1>5. folder' = g /\ (g.fresh => Trusted(g)) /\ (saved' => Trusted(g))
  BY <1>1, <1>2, <1>3
<1> QED
  BY <1>2, <1>4, <1>5, OtherFilesStep

LEMMA QuitInv ==
    ASSUME Patient, Inv, Quit
    PROVE  Inv'
<1>1. /\ folder \in FolderItems /\ Good(folder) /\ Typed(elsewhere) /\ foreign \in BOOLEAN
      /\ UNCHANGED <<strict, elsewhere, target, foreign>> /\ target = NoTarget
  BY DEF Inv, Held, Quit
<1>2. folder.fresh => Trusted(folder)
  BY DEF Inv, Held
<1>3. PICK g : g = IF folder.opened THEN WriteCache(folder) ELSE folder
  OBVIOUS
<1>4. g \in FolderItems /\ Good(g) /\ g.stype = folder.stype /\ (g.fresh => Trusted(g))
  <2>1. CASE folder.opened
    <3>1. g = WriteCache(folder)
      BY <1>3, <2>1
    <3>2. g \in FolderItems /\ SameMail(folder, g) /\ Good(g)
      BY <1>1, <2>1, <3>1, WriteCacheGood
    <3>3. g.fresh => folder.fresh
      BY <1>1, <2>1, <3>1, WriteCacheGood
    <3>4. Trusted(folder) => Trusted(g)
      BY <1>1, <2>1, <3>1, WriteCacheGood
    <3> QED
      BY <1>2, <3>2, <3>3, <3>4 DEF SameMail
  <2>2. CASE ~folder.opened
    BY <1>1, <1>2, <1>3, <2>2
  <2> QED
    BY <2>1, <2>2
<1>5. PICK d \in BOOLEAN : d = g.fresh
  BY <1>4 DEF FolderItems
<1>6. folder' = [Restarted(g) EXCEPT !.fresh = d] /\ saved' = d
  BY <1>3, <1>5 DEF Quit
<1>7. folder' = Again(g, d)
  BY <1>4, <1>6 DEF Again, Restarted, FolderItems
<1>8. Distinct(g.cache.recs) /\ AllSound(g, g.cache.recs)
  BY <1>4 DEF Good, CacheSound
<1>9. Typed(elsewhere') /\ foreign' \in BOOLEAN /\ target' = NoTarget
  BY <1>1
<1>10. saved' \in BOOLEAN /\ (saved' => Trusted(g)) /\ (d => Trusted(g))
  BY <1>4, <1>5, <1>6
<1> QED
  BY <1>1, <1>4, <1>7, <1>8, <1>9, <1>10, AgainInv

LEMMA CrashInv ==
    ASSUME Inv, Crash
    PROVE  Inv'
<1>1. /\ folder \in FolderItems /\ Good(folder) /\ Typed(elsewhere) /\ saved \in BOOLEAN
      /\ UNCHANGED <<strict, elsewhere, saved>> /\ target' = NoTarget /\ foreign' = TRUE
      /\ folder' = Restarted(folder)
  BY DEF Inv, Held, Crash, Ended
<1>2. saved => Trusted(folder)
  BY DEF Inv
<1>3. PICK d \in BOOLEAN : d = saved
  BY <1>1
<1>4. folder' = Again(folder, d)
  BY <1>1, <1>3 DEF Again, Restarted
<1>5. Distinct(folder.cache.recs) /\ AllSound(folder, folder.cache.recs)
  BY <1>1 DEF Good, CacheSound
<1>6. /\ saved' \in BOOLEAN /\ (saved' => Trusted(folder)) /\ (d => Trusted(folder))
      /\ Typed(elsewhere') /\ foreign' \in BOOLEAN
  BY <1>1, <1>2, <1>3
<1> QED
  BY <1>1, <1>4, <1>5, <1>6, AgainInv

WithFiles(f, cache, marks, half) == [f EXCEPT !.cache = cache, !.marks = marks, !.half = half]

LEMMA PartOfIs ==
    ASSUME NEW R, NEW rs \in Seq(R), NEW c \in PartOf(rs)
    PROVE  /\ c \in Written(R)
           /\ Len(c.recs) \in Nat /\ Len(rs) \in Nat /\ Len(c.recs) <= Len(rs)
           /\ \A i \in 1..Len(c.recs) : i \in 1..Len(rs) /\ c.recs[i] = rs[i]
<1>1. CASE c = Torn
  <2>1. <<>> \in Seq(R) /\ c.recs = <<>> /\ c.state = "torn" /\ c = [state |-> "torn", recs |-> <<>>]
    BY <1>1 DEF Torn
  <2>2. c \in Written(R)
    BY <2>1 DEF Written
  <2>3. Len(c.recs) = 0 /\ Len(rs) \in Nat
    BY <2>1
  <2> QED
    BY <2>2, <2>3
<1>2. CASE \E n \in 0..Len(rs) : c = Data(SubSeq(rs, 1, n))
  <2>1. PICK k \in Nat : k = Len(rs)
    OBVIOUS
  <2>2. PICK n \in 0..k : c = Data(SubSeq(rs, 1, n))
    BY <1>2, <2>1
  <2>3. PICK ss : ss = SubSeq(rs, 1, n)
    OBVIOUS
  <2>4. ss \in Seq(R) /\ Len(ss) = n /\ \A i \in 1..n : ss[i] = rs[i]
    BY <2>1, <2>3
  <2>5. c.recs = ss /\ c \in Written(R)
    BY <2>2, <2>3, <2>4 DEF Data, Written
  <2> QED
    BY <2>1, <2>4, <2>5
<1> QED
  BY <1>1, <1>2 DEF PartOf

\* The mark file that a crash leaves ends with a whole record.
LEMMA CrashLeaves ==
    ASSUME "marks" \notin Halves, CrashWriting,
           NEW ks, ks = MarksOf(folder.list) \o folder.mark_queue
    PROVE  \E cache \in CacheLeft, marks \in PartOf(ks), half \in SUBSET {"cache"} :
              LET g == [folder EXCEPT !.cache = cache, !.marks = marks, !.half = half]
              IN /\ folder' = [Restarted(g) EXCEPT !.fresh = saved /\ ~Changed(g)]
                 /\ saved' = (saved /\ ~Changed(g))
<1>1. PICK cache \in CacheLeft, marks \in PartOf(ks) :
         \E mh \in Halved("marks", marks, ks),
            ch \in IF folder.cache_dirty THEN Halved("cache", cache, folder.list \o folder.cache_queue)
                   ELSE {folder.half \cap {"cache"}} :
            LET g == [folder EXCEPT !.cache = cache, !.marks = marks, !.half = mh \cup ch]
            IN /\ folder' = [Restarted(g) EXCEPT !.fresh = saved /\ ~Changed(g)]
               /\ saved' = (saved /\ ~Changed(g))
  BY DEF CrashWriting
<1>2. PICK mh \in Halved("marks", marks, ks),
           ch \in IF folder.cache_dirty THEN Halved("cache", cache, folder.list \o folder.cache_queue)
                  ELSE {folder.half \cap {"cache"}} :
         LET g == [folder EXCEPT !.cache = cache, !.marks = marks, !.half = mh \cup ch]
         IN /\ folder' = [Restarted(g) EXCEPT !.fresh = saved /\ ~Changed(g)]
            /\ saved' = (saved /\ ~Changed(g))
  BY <1>1
<1>3. mh = {} /\ ch \in SUBSET {"cache"}
  BY DEF Halved
<1>4. mh \cup ch \in SUBSET {"cache"}
  BY <1>3
<1> QED
  BY <1>2, <1>4

LEMMA CrashWritingInv ==
    ASSUME "marks" \notin Halves, Inv, CrashWriting
    PROVE  Inv'
<1>1. /\ folder \in FolderItems /\ Good(folder) /\ folder.opened /\ Typed(elsewhere) /\ saved \in BOOLEAN
      /\ UNCHANGED <<strict, elsewhere>> /\ target' = NoTarget /\ foreign' = TRUE
  BY DEF Inv, Held, CrashWriting, Ended
<1>2. saved => Trusted(folder)
  BY DEF Inv
<1>3. PICK l \in Seq(MsgInfos) : l = folder.list
  BY <1>1 DEF FolderItems
<1>4. PICK q \in Seq(MsgInfos) : q = folder.cache_queue
  BY <1>1 DEF FolderItems
<1>5. PICK mq \in Seq(Marks) : mq = folder.mark_queue
  BY <1>1 DEF FolderItems
<1>6. PICK hs : hs = HeadersOf(Joined(l, q))
  OBVIOUS
<1>7. PICK ks : ks = MarksOf(l) \o mq
  OBVIOUS
<1>8. PICK cache \in CacheLeft, marks \in PartOf(ks), half \in SUBSET {"cache"} :
         LET g == [folder EXCEPT !.cache = cache, !.marks = marks, !.half = half]
         IN /\ folder' = [Restarted(g) EXCEPT !.fresh = saved /\ ~Changed(g)]
            /\ saved' = (saved /\ ~Changed(g))
  BY <1>3, <1>5, <1>7, CrashLeaves
<1>9. PICK g : g = WithFiles(folder, cache, marks, half)
  OBVIOUS
<1>10. folder' = [Restarted(g) EXCEPT !.fresh = saved /\ ~Changed(g)] /\ saved' = (saved /\ ~Changed(g))
  BY <1>8, <1>9 DEF WithFiles
<1>11. PICK d \in BOOLEAN : d <=> saved /\ ~Changed(g)
  OBVIOUS
<1>12. saved' = d /\ (d => saved)
  BY <1>1, <1>10, <1>11
<1>13. Distinct(l) /\ Distinct(q) /\ Apart(l, q) /\ AllSound(folder, l) /\ AllSound(folder, q)
  BY <1>1, <1>3, <1>4 DEF Good, RowsSound, CacheSound, AllSound, Sound, Right
<1>14. PICK t : t = Joined(l, q)
  OBVIOUS
<1>15. t \in Seq(MsgInfos) /\ Distinct(t)
  BY <1>13, <1>14, JoinedIs
<1>16. AllSound(folder, t)
  BY <1>13, <1>14, JoinedSound
<1>17. hs \in Seq(Headers) /\ Distinct(hs) /\ AllSound(folder, hs)
  BY <1>6, <1>14, <1>15, <1>16, HeadersOfIs
<1>18. cache \in Written(Headers) /\ Distinct(cache.recs) /\ AllSound(folder, cache.recs)
  <2>0. CacheLeft \subseteq (IF folder.cache_dirty THEN PartOf(hs) \cup {Broken} ELSE {folder.cache})
    BY <1>3, <1>4, <1>6 DEF CacheLeft, Joined
  <2>3. CASE cache = Broken
    <3>1. <<>> \in Seq(Headers)
      OBVIOUS
    <3>2. cache \in Written(Headers) /\ cache.recs = <<>>
      BY <2>3, <3>1 DEF Broken, Written
    <3> QED
      BY <3>2, EmptyIs
  <2>1. CASE folder.cache_dirty /\ cache # Broken
    <3>1. cache \in PartOf(hs)
      BY <1>8, <2>0, <2>1
    <3>2. /\ cache \in Written(Headers)
          /\ \A i \in 1..Len(cache.recs) : i \in 1..Len(hs) /\ cache.recs[i] = hs[i]
      BY <1>17, <3>1, PartOfIs
    <3>3. Distinct(cache.recs) /\ AllSound(folder, cache.recs)
      BY <1>17, <3>2 DEF Distinct, AllSound
    <3> QED
      BY <3>2, <3>3
  <2>2. CASE ~folder.cache_dirty
    <3>1. cache = folder.cache
      BY <1>8, <2>0, <2>2
    <3> QED
      BY <1>1, <3>1 DEF Good, CacheSound, FolderItems
  <2> QED
    BY <2>1, <2>2, <2>3
<1>19. marks \in Written(Marks)
  <2>1. MarksOf(l) \in Seq(Marks)
    BY MarksTypes
  <2>2. ks \in Seq(Marks)
    BY <1>7, <2>1
  <2> QED
    BY <2>2, PartOfIs
<1>20. g \in FolderItems
  BY <1>1, <1>9, <1>18, <1>19 DEF WithFiles, FolderItems
<1>21. /\ g.stype = folder.stype /\ g.file = folder.file /\ g.cache = cache
       /\ g.cache_queue = folder.cache_queue /\ g.cache_dirty = folder.cache_dirty
  BY <1>1, <1>9 DEF WithFiles, FolderItems
<1>22. Distinct(g.cache.recs) /\ AllSound(g, g.cache.recs)
  <2>1. \A rs : AllSound(folder, rs) => AllSound(g, rs)
    BY <1>21, SameFiles
  <2> QED
    BY <1>18, <1>21, <2>1
<1>23. d => Trusted(g)
  <2> SUFFICES ASSUME d PROVE Trusted(g)
    OBVIOUS
  <2>1. Trusted(folder) /\ ~folder.cache_dirty
    BY <1>2, <1>12 DEF Trusted
  <2>2. g.cache = folder.cache /\ ~g.cache_dirty
    BY <1>8, <1>21, <2>1 DEF CacheLeft
  <2> QED
    BY <1>21, <2>1, <2>2, SameTrusted
<1>24. folder' = Again(g, d)
  <2>1. (saved /\ ~Changed(g)) = d
    BY <1>11
  <2>2. folder' = [Restarted(g) EXCEPT !.fresh = d]
    BY <1>10, <2>1
  <2> QED
    BY <1>20, <2>2 DEF Again, Restarted, FolderItems
<1>25. saved' \in BOOLEAN /\ (saved' => Trusted(g)) /\ Typed(elsewhere') /\ foreign' \in BOOLEAN
  BY <1>1, <1>12, <1>23
<1> QED
  BY <1>1, <1>20, <1>21, <1>22, <1>23, <1>24, <1>25, AgainInv

LEMMA CrashMovingInv ==
    ASSUME Inv, NEW m \in DOMAIN elsewhere \ Contents(folder), CrashMoving(m)
    PROVE  Inv'
<1>1. PICK S \in SUBSET Msgs : elsewhere \in [S -> Flags]
  BY DEF Inv, Typed
<1>2. /\ folder \in FolderItems /\ Good(folder) /\ ~folder.opened /\ m \in Msgs
      /\ UNCHANGED strict /\ target' = NoTarget /\ foreign' = TRUE /\ saved' = FALSE
      /\ elsewhere' = [x \in DOMAIN elsewhere \ {m} |-> elsewhere[x]]
  BY <1>1 DEF Inv, Held, CrashMoving, Ended
<1>3. PICK s : s = Scan(folder)
  OBVIOUS
<1>4. /\ s \in FolderItems /\ SameMail(folder, s) /\ Flushed(folder, s) /\ Settled(folder, s)
      /\ s.last_num = LastFile(folder)
  BY <1>2, <1>3, ScanIs
<1>5. Good(s)
  BY <1>2, <1>4, CountedGood
<1>6. s.last_num >= 0 /\ s.stype = folder.stype /\ ~s.opened
  <2>1. LastFile(folder) \in 0..MaxNum
    BY LastFileIs
  <2> QED
    BY <1>2, <1>4, <2>1, NumsAre DEF SameMail
<1>7. Free(s) # {}
  <2>1. HasRoom(s, 1)
    BY <1>3 DEF CrashMoving
  <2>2. PICK z : z = Scanned(s)
    OBVIOUS
  <2>3. PICK k \in Nat : k = 1
    OBVIOUS
  <2>4. Cardinality(Free(z)) >= k
    BY <1>4, <2>1, <2>2, <2>3, RoomIs
  <2>5. z = s
    BY <1>4, <1>6, <2>2 DEF Scanned, FolderItems
  <2> QED
    BY <2>3, <2>4, <2>5, FS_EmptySet
<1>8. PICK flags \in Flags : flags = {}
  BY FlagsTypes
<1>9. PICK g : g = Put(s, m, flags)
  OBVIOUS
<1>10. g \in FolderItems
  BY <1>2, <1>4, <1>6, <1>7, <1>9, PutIs
<1>11. PICK info : Added(s, g, info)
  BY <1>2, <1>4, <1>6, <1>7, <1>9, PutIs
<1>12. Good(g) /\ g.stype = folder.stype
  BY <1>4, <1>5, <1>6, <1>10, <1>11, AddedGood DEF Added
<1>13. PICK d \in BOOLEAN : d = FALSE
  OBVIOUS
<1>14. folder' = Again(g, d)
  <2>1. folder' = [Restarted(g) EXCEPT !.fresh = d]
    BY <1>3, <1>8, <1>9, <1>13 DEF CrashMoving
  <2> QED
    BY <1>10, <2>1 DEF Again, Restarted, FolderItems
<1>15. Distinct(g.cache.recs) /\ AllSound(g, g.cache.recs)
  BY <1>12 DEF Good, CacheSound
<1>16. Typed(elsewhere')
  <2>1. PICK T \in SUBSET S : T = DOMAIN elsewhere \ {m}
    BY <1>1
  <2>2. elsewhere' \in [T -> Flags]
    BY <1>1, <1>2, <2>1
  <2> QED
    BY <2>2 DEF Typed
<1>17. saved' \in BOOLEAN /\ ~saved' /\ ~d /\ foreign' \in BOOLEAN
  BY <1>2, <1>13
<1> QED
  BY <1>2, <1>10, <1>12, <1>14, <1>15, <1>16, <1>17, AgainInv

-----------------------------------------------------------------------------
LEMMA NextInv ==
    ASSUME Patient, CacheFirst, "marks" \notin Halves, Inv, Next
    PROVE  Inv'
<1>1. CASE BeginCheck
  BY <1>1, BeginCheckInv
<1>2. CASE ShowNew
  BY <1>2, ShowNewInv
<1>3. CASE EndCheck
  BY <1>3, EndCheckInv
<1>4. CASE Show
  BY <1>4, ShowInv
<1>5. CASE Leave
  BY <1>5, LeaveInv
<1>6. CASE CloseWindow
  BY <1>6, CloseWindowInv
<1>7. CASE EmptyTrash
  BY <1>7, EmptyTrashInv
<1>8. CASE SaveFolderList
  BY <1>8, SaveFolderListInv
<1>9. CASE Quit
  BY <1>9, QuitInv
<1>10. CASE Crash
  BY <1>10, CrashInv
<1>11. CASE CrashWriting
  BY <1>11, CrashWritingInv
<1>12. ASSUME NEW m \in Fresh, Incorporate(m) \/ Deliver(m) \/ \E keep \in BOOLEAN : SaveDraft(m, keep)
       PROVE  Inv'
  BY <1>12, IncorporateInv, DeliverInv, SaveDraftInv
<1>13. ASSUME NEW i \in DOMAIN folder.list,
              \/ \E flag \in {"UNREAD"} \cup UserFlags : SetFlag(i, flag)
              \/ ExecuteRemove(folder.list[i]) \/ Reedit(folder.list[i])
       PROVE  Inv'
  BY <1>13, SetFlagInv, ExecuteRemoveInv, ReeditInv
<1>14. ASSUME NEW S \in SUBSET DOMAIN folder.list, ExecuteMove(Picked(folder.list, S))
       PROVE  Inv'
  BY <1>14, ExecuteMoveInv
<1>15. ASSUME NEW m \in Contents(folder), Reply(m)
       PROVE  Inv'
  BY <1>15, ReplyInv
<1>16. ASSUME NEW ms \in Batches, NEW b \in BOOLEAN, MoveIn(ms, b) \/ AddIn(ms, b)
       PROVE  Inv'
  BY <1>16, MoveInInv, AddInInv
<1>17. ASSUME NEW m \in DOMAIN elsewhere \ Contents(folder), CrashMoving(m)
       PROVE  Inv'
  BY <1>17, CrashMovingInv
<1> QED
  BY <1>1, <1>2, <1>3, <1>4, <1>5, <1>6, <1>7, <1>8, <1>9, <1>10, <1>11, <1>12, <1>13, <1>14, <1>15,
     <1>16, <1>17 DEF Next

LEMMA Invariance ==
    ASSUME Patient, CacheFirst, "marks" \notin Halves
    PROVE  Spec => []Inv
<1>1. Inv /\ UNCHANGED vars => Inv'
  <2> SUFFICES ASSUME Inv, UNCHANGED vars PROVE Inv'
    OBVIOUS
  <2>1. UNCHANGED <<folder, strict, elsewhere, target, saved, foreign>>
    BY DEF vars
  <2> QED
    BY <2>1 DEF Inv
<1>2. Inv /\ [Next]_vars => Inv'
  BY <1>1, NextInv
<1> QED
  BY <1>2, InitInv, PTL DEF Spec

LEMMA TypeOKHolds == Inv => TypeOK
<1> SUFFICES ASSUME Inv PROVE TypeOK
  OBVIOUS
<1>1. folder \in FolderItems /\ (~folder.opened => folder.list = <<>>)
  BY DEF Inv, Held, Good
<1>2. PICK ms \in Seq(Marks) : ms = folder.marks.recs
  BY <1>1 DEF FolderItems, Written
<1>3. PICK mq \in Seq(Marks) : mq = folder.mark_queue
  BY <1>1 DEF FolderItems
<1>4. PICK l \in Seq(MsgInfos) : l = folder.list
  BY <1>1 DEF FolderItems
<1>5. PICK hs \in Seq(Headers) : hs = folder.cache.recs
  BY <1>1 DEF FolderItems, Written
<1>6. PICK q \in Seq(MsgInfos) : q = folder.cache_queue
  BY <1>1 DEF FolderItems
<1>7. \A rs : rs \in Seq(Marks) \/ rs \in Seq(MsgInfos) =>
         \A i \in DOMAIN rs : rs[i].num \in Nums /\ rs[i].flags \in Flags
  <2> SUFFICES ASSUME NEW rs, rs \in Seq(Marks) \/ rs \in Seq(MsgInfos), NEW i \in DOMAIN rs
               PROVE  rs[i].num \in Nums /\ rs[i].flags \in Flags
    OBVIOUS
  <2>1. rs[i] \in Marks \/ rs[i] \in MsgInfos
    OBVIOUS
  <2> QED
    BY <2>1 DEF Marks, MsgInfos
<1>8. \A rs : rs \in Seq(Headers) \/ rs \in Seq(MsgInfos) =>
         \A i \in DOMAIN rs : rs[i].num \in Nums /\ rs[i].msg \in Msgs
  <2> SUFFICES ASSUME NEW rs, rs \in Seq(Headers) \/ rs \in Seq(MsgInfos), NEW i \in DOMAIN rs
               PROVE  rs[i].num \in Nums /\ rs[i].msg \in Msgs
    OBVIOUS
  <2>1. rs[i] \in Headers \/ rs[i] \in MsgInfos
    OBVIOUS
  <2> QED
    BY <2>1 DEF Headers, MsgInfos
<1>9. target.msg \in Msgs \cup {None}
  BY DEF Inv, Known, NoTarget
<1>10. folder.file \in Files /\ folder.last_num \in -1..MaxNum
  BY <1>1 DEF FolderItems, Files
<1>11. \A recs \in {folder.marks.recs, folder.mark_queue, folder.list} :
          \A i \in DOMAIN recs : recs[i].num \in Nums /\ recs[i].flags \in Flags
  BY <1>2, <1>3, <1>4, <1>7
<1>12. \A recs \in {folder.cache.recs, folder.cache_queue, folder.list} :
          \A i \in DOMAIN recs : recs[i].num \in Nums /\ recs[i].msg \in Msgs
  BY <1>4, <1>5, <1>6, <1>8
<1> QED
  BY <1>1, <1>9, <1>10, <1>11, <1>12 DEF TypeOK

LEMMA ListTrueHolds == Inv => ListTrue
<1> SUFFICES ASSUME Inv, ~ListTrue PROVE FALSE
  OBVIOUS
<1>0. folder.opened
  BY DEF ListTrue
<1>1. folder \in FolderItems /\ RowsSound(folder) /\ Distinct(folder.cache_queue)
  BY <1>0 DEF Inv, Held, Good, CacheSound
<1>2. ~foreign => Covered(folder)
  BY <1>0 DEF Inv, Held
<1>3. PICK l \in Seq(MsgInfos) : l = folder.list
  BY <1>1 DEF FolderItems
<1>4. PICK q \in Seq(MsgInfos) : q = folder.cache_queue
  BY <1>1 DEF FolderItems
<1>5. PICK hl : hl = HeadersOf(l)
  OBVIOUS
<1>6. PICK hq : hq = HeadersOf(q)
  OBVIOUS
<1>7. Distinct(l) /\ Distinct(q) /\ Apart(l, q) /\ Right(folder, l) /\ Right(folder, q)
  BY <1>1, <1>3, <1>4 DEF RowsSound
<1>8. hl \in Seq(Headers) /\ NumsOf(hl) = NumsOf(l) /\ Distinct(hl) /\ Right(folder, hl)
  BY <1>5, <1>7, HeadersOfIs
<1>9. hq \in Seq(Headers) /\ NumsOf(hq) = NumsOf(q) /\ Distinct(hq) /\ Right(folder, hq)
  BY <1>6, <1>7, HeadersOfIs
<1>10. Apart(hl, hq)
  BY <1>7, <1>8, <1>9 DEF Apart
<1>11. PICK t : t = Joined(hl, hq)
  OBVIOUS
<1>12. t \in Seq(Headers) /\ Distinct(t)
  BY <1>8, <1>9, <1>10, <1>11, JoinedIs
<1>13. \A n : n \in NumsOf(t) <=> n \in NumsOf(hl) \/ n \in NumsOf(hq)
  BY <1>8, <1>9, <1>11, JoinedIs
<1>14. Right(folder, t)
  BY <1>8, <1>9, <1>11, JoinedSound
<1>15. Rows = t /\ DOMAIN t = 1..Len(t)
  BY <1>3, <1>4, <1>5, <1>6, <1>11, <1>12 DEF Rows, Joined
<1>16. OneRow
  BY <1>12, <1>15 DEF OneRow, Distinct
<1>17. \A i \in DOMAIN Rows : folder.file[Rows[i].num] = Rows[i].msg
  BY <1>14, <1>15 DEF Right
<1>18. \A n \in NumsOf(t) : n \in FileNums(folder)
  <2> SUFFICES ASSUME NEW n \in NumsOf(t) PROVE n \in FileNums(folder)
    OBVIOUS
  <2>1. PICK i \in 1..Len(t) : t[i].num = n
    BY <1>12, NumsOfIs
  <2>2. t[i] \in Headers
    BY <1>12
  <2>3. n \in Nums /\ t[i].msg \in Msgs
    BY <2>1, <2>2 DEF Headers
  <2>4. folder.file[n] = t[i].msg
    BY <1>14, <2>1 DEF Right
  <2> QED
    BY <2>3, <2>4, NoneAssumption DEF FileNums
<1>19. ~foreign => \A n \in FileNums(folder) : n \in NumsOf(t)
  BY <1>2, <1>3, <1>4, <1>8, <1>9, <1>13 DEF Covered
<1>20. ~foreign => NumsOf(t) = FileNums(folder)
  BY <1>18, <1>19
<1> QED
  BY <1>15, <1>16, <1>17, <1>20, Zenon DEF ListTrue

\* The folder keeps its types.  Patient and CacheFirst are what the runs assume
\* as well: nothing writes the marks of the folder that is shown while messages
\* of a check wait, and a folder without a cache file is shown when no header
\* waits for one.
THEOREM Types ==
    ASSUME Patient, CacheFirst, "marks" \notin Halves
    PROVE  Spec => []TypeOK
  BY Invariance, TypeOKHolds, PTL

\* The summary has one row for each message, and each is the message that its
\* number has in the directory: through the cache file and its queue, the strict
\* and the quick way of reading it (mh_get_msg_list_full), what was moved or
\* removed, files that a crash cut short, and numbers that are given again.  And
\* it is complete but for what other programs did.
THEOREM ListIsTrue ==
    ASSUME Patient, CacheFirst, "marks" \notin Halves
    PROVE  Spec => []ListTrue
  BY Invariance, ListTrueHolds, PTL
=============================================================================
